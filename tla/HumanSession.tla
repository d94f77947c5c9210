---------------------------- MODULE HumanSession ----------------------------
(***************************************************************************)
(* The human session of the enrollment control plane: the Session that the *)
(* controller's calls share (host-agent/internal/enrollment/session.go and *)
(* API.call in adapter.go), the file session.json it is loaded from and    *)
(* saved to (runtime.go, store.go), and the secret server that renews it.  *)
(* Token keeps the mutex of the Session while it marks the file, asks the  *)
(* server for new tokens and saves them; a process may die in between.     *)
(*                                                                         *)
(* v0.166.3 of the server gives a new refresh token with every renewal and *)
(* retires the one presented; v0.151.0 lets the same one be used again.    *)
(* API.call itself refuses v0.166.3 for now, the Session does not: with    *)
(* that version a caller is whoever asks the Session for a token.          *)
(* Tokens are numbered in the order in which they were given; 0 is none.   *)
(* A definition standing before another one with a longer name made from   *)
(* it is a slip the code could have made; nothing here uses it.            *)
(***************************************************************************)
EXTENDS Naturals

CONSTANTS
    Caller, NoCaller,
    NoSession,     \* no session.json, or no Session
    MaxGranted,    \* bound: logins and renewals
    MaxFaults      \* bound: failed saves and calls, 401s, and ends of the process

Token       == 0..MaxGranted
SessionData == [access : Token, refresh : Token, pending : BOOLEAN, expired : BOOLEAN]

ASSUME SessionAssumption ==
    /\ NoCaller \notin Caller /\ NoSession \notin SessionData
    /\ MaxGranted \in Nat /\ MaxFaults \in Nat

VARIABLES
    rotating,  \* the version is v0.166.3
    disk,      \* session.json
    owner,     \* who holds the lock of the state directory
    \* Session
    data, paused, mu,
    \* API.call, one per caller
    pc, held,
    \* tokens
    granted,
    fresh,     \* access tokens that do not expire within 30 seconds
    \* history and bound
    spent,     \* refresh tokens presented, unless the answer was that they stay valid
    cause,     \* something has happened since the last login that may end the session
    faults

file    == <<disk, owner>>
session == <<data, paused, mu>>
calls   == <<pc, held>>
tokens  == <<granted, fresh>>
sessionVars == <<rotating, file, session, calls, tokens, spent, cause, faults>>

Position == {"idle", "token", "refresh", "call", "rejected"}

SessionTypeOK ==
    /\ rotating \in BOOLEAN
    /\ disk \in SessionData \cup {NoSession} /\ owner \in {"none", "controller", "login"}
    /\ data \in SessionData \cup {NoSession} /\ paused \in BOOLEAN
    /\ mu \in Caller \cup {NoCaller}
    /\ pc \in [Caller -> Position] /\ held \in [Caller -> Token]
    /\ granted \in Token /\ fresh \subseteq 1..granted /\ spent \subseteq 1..granted
    /\ cause \in BOOLEAN /\ faults \in 0..MaxFaults

SessionInit ==
    /\ rotating \in BOOLEAN
    /\ disk = NoSession /\ owner = "none"
    /\ data = NoSession /\ paused = FALSE /\ mu = NoCaller
    /\ pc = [c \in Caller |-> "idle"] /\ held = [c \in Caller |-> 0]
    /\ granted = 0 /\ fresh = {} /\ spent = {} /\ cause = FALSE /\ faults = 0

Fault == faults < MaxFaults /\ faults' = faults + 1

-----------------------------------------------------------------------------
(* session.json *)

\* Save replaces the file, fails before it has, or fails after it has, when the
\* directory cannot be synced.
Saves(d)       == disk' = d
FailsToSave(d) == disk' \in {disk, d}

\* What a human login gives.
NewSession(refresh) ==
    [access |-> granted + 1, refresh |-> refresh, pending |-> FALSE, expired |-> FALSE]

\* ImportSession: an operator hands over the session of a new login, while no
\* other process holds the lock; a refresh token need not come with it.
Import ==
    /\ owner = "none" /\ granted < MaxGranted
    /\ granted' = granted + 1 /\ fresh' = fresh \cup {granted'}
    /\ \E refresh \in {0, granted'} : Saves(NewSession(refresh))
    /\ cause' = FALSE
    /\ UNCHANGED <<rotating, owner, session, calls, spent, faults>>

LoadedUnmarked(d) == IF d = NoSession THEN d ELSE [d EXCEPT !.pending = FALSE]

LoadedExpired(d) ==
    IF d = NoSession \/ ~d.pending THEN d ELSE [d EXCEPT !.expired = TRUE]

\* NewSession: a refresh whose outcome is not known ends a rotating session.
Loaded(d) ==
    IF d = NoSession \/ ~d.pending THEN d
    ELSE IF rotating THEN [d EXCEPT !.expired = TRUE] ELSE [d EXCEPT !.pending = FALSE]

\* OpenRuntime: the process takes the lock and loads the session.
Start ==
    /\ owner = "none" /\ owner' = "controller"
    /\ data' = Loaded(disk) /\ paused' = FALSE
    /\ UNCHANGED <<rotating, disk, mu, calls, tokens, spent, cause, faults>>

\* The controller's process is stopped, or dies.
End ==
    /\ owner = "controller" /\ owner' = "none" /\ Fault
    /\ data' = NoSession /\ paused' = FALSE /\ mu' = NoCaller
    /\ pc' = [c \in Caller |-> "idle"] /\ held' = [c \in Caller |-> 0]
    /\ UNCHANGED <<rotating, disk, tokens, spent, cause>>

-----------------------------------------------------------------------------
(* One call *)

At(c, p) == pc' = [pc EXCEPT ![c] = p] /\ UNCHANGED held
Return(c) == pc' = [pc EXCEPT ![c] = "idle"] /\ held' = [held EXCEPT ![c] = 0]
CallWith(c, t) == pc' = [pc EXCEPT ![c] = "call"] /\ held' = [held EXCEPT ![c] = t]

Call(c) ==
    /\ owner = "controller" /\ pc[c] = "idle"
    /\ At(c, "token")
    /\ UNCHANGED <<rotating, file, session, tokens, spent, cause, faults>>

Usable == data # NoSession /\ ~data.expired
Renewable == Usable /\ data.access \notin fresh /\ ~paused /\ data.refresh # 0

\* Token without a refresh.
TokenAtOnce(c) ==
    /\ pc[c] = "token" /\ mu = NoCaller /\ ~Renewable
    /\ IF Usable /\ data.access \in fresh THEN CallWith(c, data.access) ELSE Return(c)
    /\ UNCHANGED <<rotating, file, session, tokens, spent, cause, faults>>

\* Token up to the refresh: the file is marked, and the refresh token presented.
MarkRefresh(c) ==
    /\ pc[c] = "token" /\ mu = NoCaller /\ Renewable
    /\ data' = [data EXCEPT !.pending = TRUE]
    /\ Saves(data') /\ mu' = c /\ At(c, "refresh")
    /\ spent' = spent \cup {data.refresh}
    /\ UNCHANGED <<rotating, owner, paused, tokens, cause, faults>>

\* The mark cannot be saved: nothing is presented.
MarkFails(c) ==
    /\ pc[c] = "token" /\ mu = NoCaller /\ Renewable /\ Fault
    /\ data' = [data EXCEPT !.pending = TRUE, !.expired = TRUE]
    /\ FailsToSave([data EXCEPT !.pending = TRUE])
    /\ Return(c) /\ cause' = TRUE
    /\ UNCHANGED <<rotating, owner, paused, mu, tokens, spent>>

Unlock == mu' = NoCaller

\* The server renews the session, with a new refresh token or without one.
Renewed(refresh) ==
    [access |-> granted + 1, refresh |-> IF refresh = 0 THEN data.refresh ELSE refresh,
     pending |-> FALSE, expired |-> FALSE]

Renews(c, refresh) ==
    /\ pc[c] = "refresh" /\ granted < MaxGranted
    /\ granted' = granted + 1 /\ fresh' = fresh \cup {granted'}
    /\ spent' = IF refresh = 0 THEN spent \ {data.refresh} ELSE spent

Renew(c) ==
    /\ \E refresh \in {0, granted + 1} :
        /\ Renews(c, refresh)
        /\ data' = Renewed(refresh) /\ Saves(data')
    /\ CallWith(c, granted') /\ Unlock
    /\ UNCHANGED <<rotating, owner, paused, cause, faults>>

\* The new tokens cannot be saved.
RenewUnsaved(c) ==
    /\ Fault
    /\ \E refresh \in {0, granted + 1} :
        /\ Renews(c, refresh)
        /\ data' = [Renewed(refresh) EXCEPT !.expired = TRUE, !.access = 0]
        /\ FailsToSave(Renewed(refresh))
    /\ Return(c) /\ Unlock /\ cause' = TRUE
    /\ UNCHANGED <<rotating, owner, paused>>

\* The answer names another organization, or holds no token that can be used.
RenewUnusable(c) ==
    /\ pc[c] = "refresh" /\ Fault
    /\ data' = [data EXCEPT !.expired = TRUE]
    /\ Saves(data') \/ FailsToSave(data')
    /\ Return(c) /\ Unlock /\ cause' = TRUE
    /\ UNCHANGED <<rotating, owner, paused, tokens, spent>>

Ended(d) == [d EXCEPT !.expired = TRUE, !.access = 0]

\* 401.
RenewRefused(c) ==
    /\ pc[c] = "refresh" /\ Fault
    /\ paused' = TRUE /\ data' = Ended(data)
    /\ Saves(data') \/ FailsToSave(data')
    /\ Return(c) /\ Unlock /\ cause' = TRUE
    /\ UNCHANGED <<rotating, owner, tokens, spent>>

KeptRegardless(d) == [d EXCEPT !.pending = FALSE]

EndedRegardless(d) == Ended(d)

\* After a renewal of which nothing is known: a rotating session is over.
AfterLost(d) == IF rotating THEN Ended(d) ELSE [d EXCEPT !.pending = FALSE]

\* No answer, or another error; the server may have renewed the session or not.
RenewLost(c) ==
    /\ pc[c] = "refresh" /\ Fault
    /\ paused' = TRUE /\ data' = AfterLost(data) /\ Saves(data')
    /\ Return(c) /\ Unlock
    /\ UNCHANGED <<rotating, owner, tokens, spent, cause>>

\* Nor can what is left of it be saved.
RenewLostUnsaved(c) ==
    /\ pc[c] = "refresh" /\ Fault
    /\ paused' = TRUE /\ FailsToSave(AfterLost(data))
    /\ data' = [AfterLost(data) EXCEPT !.expired = TRUE]
    /\ Return(c) /\ Unlock /\ cause' = TRUE
    /\ UNCHANGED <<rotating, owner, tokens, spent>>

\* The server answers the call made with the token, or nothing comes back.
Answered(c) ==
    /\ pc[c] = "call" /\ Return(c)
    /\ UNCHANGED <<rotating, file, session, tokens, spent, cause, faults>>

Unauthorized(c) ==
    /\ pc[c] = "call" /\ Fault /\ At(c, "rejected") /\ cause' = TRUE
    /\ UNCHANGED <<rotating, file, session, tokens, spent>>

ExpireAny(c) ==
    /\ pc[c] = "rejected" /\ mu = NoCaller /\ Return(c)
    /\ data' = Ended(data) /\ (Saves(data') \/ FailsToSave(data'))
    /\ UNCHANGED <<rotating, owner, paused, mu, tokens, spent, cause, faults>>

\* Expire, after a 401, if the token in place is the one rejected; that it is
\* saved is not checked.
Expire(c) ==
    /\ pc[c] = "rejected" /\ mu = NoCaller /\ Return(c)
    /\ IF data.access = held[c]
       THEN data' = Ended(data) /\ (Saves(data') \/ FailsToSave(data'))
       ELSE UNCHANGED <<data, disk>>
    /\ UNCHANGED <<rotating, owner, paused, mu, tokens, spent, cause, faults>>

\* Time passes.
TokenAges ==
    /\ \E t \in fresh : fresh' = fresh \ {t}
    /\ UNCHANGED <<rotating, file, session, calls, granted, spent, cause, faults>>

PauseEnds ==
    /\ paused /\ paused' = FALSE
    /\ UNCHANGED <<rotating, file, data, mu, calls, tokens, spent, cause, faults>>

-----------------------------------------------------------------------------
RefreshReturns(c) ==
    \/ Renew(c) \/ RenewUnsaved(c) \/ RenewUnusable(c)
    \/ RenewRefused(c) \/ RenewLost(c) \/ RenewLostUnsaved(c)

CallStep(c) ==
    \/ Call(c) \/ TokenAtOnce(c) \/ MarkRefresh(c) \/ MarkFails(c) \/ RefreshReturns(c)
    \/ Answered(c) \/ Unauthorized(c) \/ Expire(c)

SessionNext ==
    \/ Import \/ Start \/ End \/ TokenAges \/ PauseEnds
    \/ \E c \in Caller : CallStep(c)

-----------------------------------------------------------------------------
(* Properties *)

\* A refresh token that a rotating server may have retired is not presented
\* again, by whatever caller and across restarts
\* (docs/infisical-hybrid-control.md, "rather than risking reuse").
SpentNotPresented ==
    [][\A c \in Caller :
        rotating /\ pc[c] # "refresh" /\ pc'[c] = "refresh" => data.refresh \notin spent]_sessionVars

\* A session of v0.151.0 survives what is only a lost answer or a restart: it
\* ends when a save or the server has given it cause.
ExpiredForCause == ~rotating /\ data # NoSession /\ data.expired => cause

\* The 401 of a call made with an older token does not end a renewed session.
OldRejectionHarmless ==
    [][Usable /\ data' # NoSession /\ data'.expired =>
        \E c \in Caller :
            /\ pc'[c] = "idle"
            /\ pc[c] \in {"token", "refresh"} \/ (pc[c] = "rejected" /\ held[c] = data.access)]_sessionVars

\* While the process lives, a session of v0.151.0 gives its callers a token again
\* after every lost answer, without a login, unless it has cause to end.
SessionSurvives ==
    ~rotating /\ owner = "controller" /\ Usable /\ data.refresh # 0
        ~> cause \/ owner # "controller" \/ granted = MaxGranted \/ \E c \in Caller : pc[c] = "call"
=============================================================================
