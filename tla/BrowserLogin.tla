---------------------------- MODULE BrowserLogin ----------------------------
(***************************************************************************)
(* A login by the user, and what the controller makes of it: browserLogin  *)
(* and completeBrowserLogin of host-agent/internal/enrollment/login.go, in *)
(* a process of their own that holds the lock of the state directory,      *)
(* composed with the sessions of module HumanSession.  The handler of the  *)
(* browser's callback and the reader of a pasted token run beside the      *)
(* select that waits for an outcome or for the end of the context; either  *)
(* may exchange the user's token for a session and save it, but one only.  *)
(***************************************************************************)
EXTENDS HumanSession, Sequences

VARIABLES
    main,       \* browserLogin: "announcing", "waiting", "leaving"; "left" once it has returned
    ctxEnded,   \* ctx has timed out or was cancelled
    used,       \* the gate of the two validators
    work,       \* per validator, where it is
    candidate,  \* the tokens of the session it is about to save
    result,     \* the channel of outcomes, of capacity two
    report,     \* what browserLogin returns
    saved       \* this attempt has replaced session.json

attempt == <<main, ctxEnded, used, work, candidate, result, report, saved>>
vars    == <<sessionVars, attempt>>

Validator == {"callback", "fallback"}
Outcome   == {"verified", "failed"}

TypeOK ==
    /\ SessionTypeOK
    /\ main \in {"off", "announcing", "waiting", "leaving", "left"}
    /\ ctxEnded \in BOOLEAN /\ used \in BOOLEAN /\ saved \in BOOLEAN
    /\ work \in [Validator -> {"idle", "validating", "checked", "done"}]
    /\ candidate \in Token
    /\ result \in Seq(Outcome) /\ Len(result) <= 2
    /\ report \in Outcome \cup {"none", "cancelled"}

LoginInit ==
    /\ main = "off" /\ ctxEnded = FALSE /\ used = FALSE /\ saved = FALSE
    /\ work = [v \in Validator |-> "idle"]
    /\ candidate = 0 /\ result = <<>> /\ report = "none"

Init == SessionInit /\ LoginInit

\* What a step of browserLogin leaves alone, except session.json and the tokens.
Elsewhere == UNCHANGED <<rotating, session, calls, spent>>

Step(v, from, to) == work[v] = from /\ work' = [work EXCEPT ![v] = to]

Send(o) == result' = Append(result, o)

-----------------------------------------------------------------------------
\* The command opens the store and listens; it is for v0.151.0 only.
Open ==
    /\ main = "off" /\ owner = "none" /\ ~rotating
    /\ owner' = "login" /\ main' = "announcing"
    /\ Elsewhere
    /\ UNCHANGED <<disk, tokens, cause, faults, ctxEnded, used, work, candidate, result, report, saved>>

\* The user is told where to log in, and the reader of the fallback starts.
Announce ==
    /\ main = "announcing" /\ main' = "waiting"
    /\ Elsewhere
    /\ UNCHANGED <<file, tokens, cause, faults, ctxEnded, used, work, candidate, result, report, saved>>

\* There is no reader yet, and the server is shut down before the context is
\* cancelled: a handler of the callback has the second of the shutdown to go on.
AnnounceFails ==
    /\ main = "announcing" /\ main' = "leaving" /\ report' = "failed"
    /\ Step("fallback", "idle", "done")
    /\ Elsewhere
    /\ UNCHANGED <<file, tokens, cause, faults, ctxEnded, used, candidate, result, saved>>

\* The ten minutes are over, or the user interrupts.
ContextEnds ==
    /\ main \in {"announcing", "waiting", "leaving"} /\ ~ctxEnded /\ ctxEnded' = TRUE
    /\ Elsewhere
    /\ UNCHANGED <<file, tokens, cause, faults, main, used, work, candidate, result, report, saved>>

Serving(v) == main = "waiting" \/ (main = "announcing" /\ v = "callback")

ReceiveUngated(v) ==
    /\ Serving(v) /\ Step(v, "idle", "validating") /\ used' = TRUE
    /\ Elsewhere
    /\ UNCHANGED <<file, tokens, cause, faults, main, ctxEnded, candidate, result, report, saved>>

\* A well-formed token of the user comes to the gate first.  A second callback is
\* answered 409 and changes nothing.
Receive(v) ==
    /\ Serving(v) /\ ~used /\ Step(v, "idle", "validating") /\ used' = TRUE
    /\ Elsewhere
    /\ UNCHANGED <<file, tokens, cause, faults, main, ctxEnded, candidate, result, report, saved>>

\* A pasted token comes second, and the reader leaves it to the callback.
PasteTooLate ==
    /\ main \in {"waiting", "leaving"} /\ used /\ Step("fallback", "idle", "done")
    /\ Elsewhere
    /\ UNCHANGED <<file, tokens, cause, faults, main, ctxEnded, used, candidate, result, report, saved>>

ReadFailsBlocked ==
    /\ main \in {"waiting", "leaving"} /\ Step("fallback", "idle", "done")
    /\ Len(result) < 1 /\ Send("failed")
    /\ Elsewhere
    /\ UNCHANGED <<file, tokens, cause, faults, main, ctxEnded, used, candidate, report, saved>>

\* Reading fails: the terminal's five minutes are over, the context has ended, or
\* what was pasted is no token.  That is an outcome, whatever the callback does.
ReadFails ==
    /\ main \in {"waiting", "leaving"} /\ Step("fallback", "idle", "done")
    /\ Send("failed")
    /\ Elsewhere
    /\ UNCHANGED <<file, tokens, cause, faults, main, ctxEnded, used, candidate, report, saved>>

\* The server rejects the token, or cannot be asked, as after the end of the context.
ValidationFails(v) ==
    /\ Step(v, "validating", "done") /\ Send("failed")
    /\ Elsewhere
    /\ UNCHANGED <<file, tokens, cause, faults, main, ctxEnded, used, candidate, report, saved>>

\* The server exchanges the token and accepts the new one; the context is looked at
\* once more before the session is saved.
Validated(v) ==
    /\ Step(v, "validating", "checked") /\ ~ctxEnded /\ granted < MaxGranted
    /\ granted' = granted + 1 /\ fresh' = fresh \cup {granted'} /\ candidate' = granted'
    /\ Elsewhere
    /\ UNCHANGED <<file, cause, faults, main, ctxEnded, used, result, report, saved>>

LoginSession ==
    [access |-> candidate, refresh |-> candidate, pending |-> FALSE, expired |-> FALSE]

\* Save: the end of the context does not stop it any more.
SaveSession(v) ==
    /\ Step(v, "checked", "done")
    /\ \/ Saves(LoginSession) /\ Send("verified")
       \/ FailsToSave(LoginSession) /\ Send("failed")
    /\ saved' = (disk' = LoginSession) /\ cause' = (cause /\ ~(saved' /\ owner = "login"))
    /\ Elsewhere
    /\ UNCHANGED <<owner, tokens, faults, main, ctxEnded, used, candidate, report>>

\* The select takes an outcome, or the end of the context; either way the context
\* is cancelled on the way out.
TakeOutcome ==
    /\ main = "waiting" /\ result # <<>>
    /\ main' = "leaving" /\ report' = Head(result) /\ result' = Tail(result) /\ ctxEnded' = TRUE
    /\ Elsewhere
    /\ UNCHANGED <<file, tokens, cause, faults, used, work, candidate, saved>>

TakeEnd ==
    /\ main = "waiting" /\ ctxEnded
    /\ main' = "leaving" /\ report' = "cancelled"
    /\ Elsewhere
    /\ UNCHANGED <<file, tokens, cause, faults, ctxEnded, used, work, candidate, result, saved>>

\* The reader is awaited, the handler of the callback for a second only; the context
\* has ended then, and the command closes the store, which releases the lock.
Leave ==
    /\ main = "leaving" /\ work["fallback"] = "done"
    /\ main' = "left" /\ owner' = "none" /\ ctxEnded' = TRUE
    /\ Elsewhere
    /\ UNCHANGED <<disk, tokens, cause, faults, used, work, candidate, result, report, saved>>

\* The process exits, and with it a handler that is still there.
Exit ==
    /\ main = "left" /\ main' = "off"
    /\ ctxEnded' = FALSE /\ used' = FALSE /\ saved' = FALSE
    /\ work' = [v \in Validator |-> "idle"]
    /\ candidate' = 0 /\ result' = <<>> /\ report' = "none"
    /\ Elsewhere /\ UNCHANGED <<file, tokens, cause, faults>>

-----------------------------------------------------------------------------
Validate(v) == ValidationFails(v) \/ Validated(v)

LoginNext ==
    \/ Open \/ Announce \/ AnnounceFails \/ ContextEnds
    \/ PasteTooLate \/ ReadFails \/ TakeOutcome \/ TakeEnd \/ Leave \/ Exit
    \/ \E v \in Validator : Receive(v) \/ Validate(v) \/ SaveSession(v)

Next == (SessionNext /\ UNCHANGED attempt) \/ LoginNext

Spec == Init /\ [][Next]_vars

(***************************************************************************)
(* Requests are answered or time out, pauses and contexts end, goroutines  *)
(* go on; the mutex of the Session goes to whoever waits for it.  The      *)
(* controller keeps calling.  Nobody has to log in, start or stop anything.*)
(***************************************************************************)
Fairness ==
    /\ WF_vars(PauseEnds /\ UNCHANGED attempt)
    /\ \A c \in Caller :
        /\ WF_vars((Call(c) \/ RefreshReturns(c) \/ Answered(c) \/ Unauthorized(c)) /\ UNCHANGED attempt)
        /\ SF_vars((TokenAtOnce(c) \/ MarkRefresh(c) \/ MarkFails(c) \/ Expire(c)) /\ UNCHANGED attempt)
    /\ WF_vars(Announce \/ AnnounceFails \/ TakeOutcome \/ TakeEnd) /\ WF_vars(ContextEnds)
    /\ WF_vars(Leave) /\ WF_vars(ReadFails)
    /\ \A v \in Validator : WF_vars(Validate(v)) /\ WF_vars(SaveSession(v))

FairSpec == Spec /\ Fairness

-----------------------------------------------------------------------------
(* Properties *)

\* A session ends for cause only, in whichever process, and the variables of the
\* session and of an attempt keep their types.
SessionSound == TypeOK /\ ExpiredForCause

\* One attempt saves one session: the callback and the paste do not both exchange
\* a token, in whatever order they reach the gate.
SavesOnce ==
    [][\A v \in Validator : work[v] = "checked" /\ work'[v] = "done" => ~saved]_vars

\* Every attempt ends and releases the lock, with an outcome that nobody takes
\* still in the channel.
LoginEnds == main # "off" ~> owner # "login"
=============================================================================
