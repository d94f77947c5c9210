-------------------------- MODULE BrowserLoginProofs --------------------------
(***************************************************************************)
(* For any callers and any numbers of tokens and faults: the session of    *)
(* the control plane is typed and ends for cause only, a retired refresh   *)
(* token is not presented again, an old 401 does not end a renewed         *)
(* session, and one login saves one session.                               *)
(*                                                                         *)
(* The argument: whoever renews holds the mutex and has a usable session,  *)
(* and outside the controller's process there is neither (HoldInv); what   *)
(* may end a session is remembered as long as the file can say "expired"   *)
(* or a rejected call may still come back (CauseInv); a refresh token that *)
(* a rotating server may have retired is on disk only with the mark of an  *)
(* open refresh, or of the end, so that no restart takes it for a good one *)
(* (RetiredInv); and the gate of a login lets one validator through        *)
(* (GateInv).                                                              *)
(***************************************************************************)
EXTENDS BrowserLogin, SequenceTheorems, TLAPS

\* Nothing refers to a token that was not given.
GivenInv ==
    /\ disk # NoSession => disk.access <= granted /\ disk.refresh <= granted
    /\ data # NoSession => data.access <= granted /\ data.refresh <= granted
    /\ candidate <= granted

\* An attempt to log in has the lock of the state directory until it leaves.
LockInv == owner = "login" <=> main \in {"announcing", "waiting", "leaving"}

\* Who refreshes has the mutex and a session that can be renewed; who calls has a
\* session; and outside the controller there is none of this.
HoldInv ==
    /\ owner # "controller" =>
           data = NoSession /\ mu = NoCaller /\ \A c \in Caller : pc[c] = "idle"
    /\ \A c \in Caller : pc[c] = "refresh" => mu = c /\ Usable /\ data.refresh # 0
    /\ mu # NoCaller => pc[mu] = "refresh"
    /\ \A c \in Caller : pc[c] \in {"call", "rejected"} => data # NoSession

\* What ended a session, on disk or in memory, or may still end it, was a cause.
CauseInv ==
    /\ ExpiredForCause
    /\ ~rotating /\ disk # NoSession /\ disk.expired => cause
    /\ \A c \in Caller : pc[c] = "rejected" => cause

\* A refresh token presented to a rotating server is marked on disk, and nobody has
\* it in a usable session but the one who presents it; nobody logs in there.
RetiredInv ==
    rotating =>
        /\ main = "off" /\ \A v \in Validator : work[v] = "idle"
        /\ disk # NoSession /\ disk.refresh \in spent => disk.pending \/ disk.expired
        /\ mu = NoCaller /\ Usable => data.refresh \notin spent

AtWork(v) == work[v] \in {"validating", "checked"}
Sent(v)   == IF work[v] = "done" THEN 1 ELSE 0

\* One validator at most has passed the gate and is not done; when the session is saved
\* none has.  Each sends one outcome at most.
GateInv ==
    /\ \A v \in Validator : AtWork(v) => used /\ ~saved
    /\ ~(AtWork("callback") /\ AtWork("fallback"))
    /\ saved => used
    /\ Len(result) <= Sent("callback") + Sent("fallback")

IInv == TypeOK /\ GivenInv /\ LockInv /\ HoldInv /\ CauseInv /\ RetiredInv /\ GateInv

-----------------------------------------------------------------------------
(* Types *)

LEMMA InitIInv == Init => IInv
<1> SUFFICES ASSUME SessionInit, LoginInit PROVE IInv
    BY DEF Init
<1>1. 0 \in Token /\ 0 \in 0..MaxFaults
    BY SessionAssumption DEF Token
<1>2. pc \in [Caller -> Position] /\ held \in [Caller -> Token]
    BY <1>1 DEF SessionInit, Position
<1>3. SessionTypeOK
    BY <1>1, <1>2 DEF SessionInit, SessionTypeOK
<1>4. work \in [Validator -> {"idle", "validating", "checked", "done"}]
    BY DEF LoginInit
<1>5. TypeOK
    <2>1. result \in Seq(Outcome) /\ Len(result) <= 2
        BY DEF LoginInit
    <2>2. candidate \in Token
        BY <1>1 DEF LoginInit
    <2> QED
        BY <2>1, <2>2, <1>3, <1>4 DEF LoginInit, TypeOK
<1>6. GivenInv /\ LockInv /\ HoldInv /\ CauseInv
    BY DEF SessionInit, LoginInit, GivenInv, LockInv, HoldInv, CauseInv, ExpiredForCause
<1>7. RetiredInv
    BY DEF SessionInit, LoginInit, RetiredInv
<1>8. GateInv
    BY DEF LoginInit, GateInv, AtWork, Sent, Validator
<1> QED
    BY <1>5, <1>6, <1>7, <1>8 DEF IInv

\* A session that differs in the marks or the tokens is a session.
LEMMA SessionTyped ==
    ASSUME NEW d \in SessionData
    PROVE  /\ [d EXCEPT !.pending = TRUE] \in SessionData
           /\ [d EXCEPT !.pending = FALSE] \in SessionData
           /\ [d EXCEPT !.expired = TRUE] \in SessionData
           /\ [d EXCEPT !.pending = TRUE, !.expired = TRUE] \in SessionData
           /\ Ended(d) \in SessionData
           /\ AfterLost(d) \in SessionData
           /\ [AfterLost(d) EXCEPT !.expired = TRUE] \in SessionData
<1>1. 0 \in Token
    BY SessionAssumption DEF Token
<1>2. /\ [d EXCEPT !.pending = TRUE] \in SessionData
      /\ [d EXCEPT !.pending = FALSE] \in SessionData
      /\ [d EXCEPT !.expired = TRUE] \in SessionData
      /\ [d EXCEPT !.pending = TRUE, !.expired = TRUE] \in SessionData
    BY DEF SessionData
<1>3. Ended(d) \in SessionData
    BY <1>1 DEF SessionData, Ended
<1>4. AfterLost(d) \in SessionData
    BY <1>2, <1>3 DEF AfterLost
<1>5. \A e \in SessionData : [e EXCEPT !.expired = TRUE] \in SessionData
    BY DEF SessionData
<1> QED
    BY <1>2, <1>3, <1>4, <1>5

Has(d, access, refresh, pending, expired) ==
    d.access = access /\ d.refresh = refresh /\ (d.pending <=> pending) /\ (d.expired <=> expired)

\* What its other fields are.
LEMMA SessionFields ==
    ASSUME NEW d \in SessionData
    PROVE  /\ Has([d EXCEPT !.pending = TRUE], d.access, d.refresh, TRUE, d.expired)
           /\ Has([d EXCEPT !.pending = FALSE], d.access, d.refresh, FALSE, d.expired)
           /\ Has([d EXCEPT !.expired = TRUE], d.access, d.refresh, d.pending, TRUE)
           /\ Has([d EXCEPT !.pending = TRUE, !.expired = TRUE], d.access, d.refresh, TRUE, TRUE)
           /\ Has([d EXCEPT !.expired = TRUE, !.access = 0], 0, d.refresh, d.pending, TRUE)
           /\ Has(Ended(d), 0, d.refresh, d.pending, TRUE)
           /\ Has(AfterLost(d), IF rotating THEN 0 ELSE d.access, d.refresh,
                  rotating /\ d.pending, rotating \/ d.expired)
           /\ Has([AfterLost(d) EXCEPT !.expired = TRUE], IF rotating THEN 0 ELSE d.access, d.refresh,
                  rotating /\ d.pending, TRUE)
<1>1. \A e \in SessionData : Has([e EXCEPT !.pending = TRUE], e.access, e.refresh, TRUE, e.expired)
    BY DEF SessionData, Has
<1>2. \A e \in SessionData : Has([e EXCEPT !.pending = FALSE], e.access, e.refresh, FALSE, e.expired)
    BY DEF SessionData, Has
<1>3. \A e \in SessionData : Has([e EXCEPT !.expired = TRUE], e.access, e.refresh, e.pending, TRUE)
    BY DEF SessionData, Has
<1>4. Has([d EXCEPT !.pending = TRUE, !.expired = TRUE], d.access, d.refresh, TRUE, TRUE)
    BY DEF SessionData, Has
<1>5. Has([d EXCEPT !.expired = TRUE, !.access = 0], 0, d.refresh, d.pending, TRUE)
    BY DEF SessionData, Has
<1>6. d.pending \in BOOLEAN /\ d.expired \in BOOLEAN
    BY DEF SessionData
<1>7. Has(AfterLost(d), IF rotating THEN 0 ELSE d.access, d.refresh, rotating /\ d.pending, rotating \/ d.expired)
    <2>1. CASE rotating
        BY <1>5, <2>1 DEF AfterLost, Ended, Has
    <2>2. CASE ~rotating
        BY <1>2, <2>2 DEF AfterLost, Has
    <2> QED
        BY <2>1, <2>2
<1>8. Has([AfterLost(d) EXCEPT !.expired = TRUE], IF rotating THEN 0 ELSE d.access, d.refresh,
          rotating /\ d.pending, TRUE)
    <2>1. AfterLost(d) \in SessionData
        BY SessionTyped
    <2>2. Has([AfterLost(d) EXCEPT !.expired = TRUE], AfterLost(d).access, AfterLost(d).refresh,
              AfterLost(d).pending, TRUE)
        BY <1>3, <2>1
    <2> QED
        BY <1>7, <2>2 DEF Has
<1> QED
    BY <1>1, <1>2, <1>3, <1>4, <1>5, <1>7, <1>8 DEF Ended

LEMMA GivenTyped ==
    ASSUME granted \in Token, granted < MaxGranted
    PROVE  /\ granted + 1 \in Token
           /\ \A refresh \in {0, granted + 1} : NewSession(refresh) \in SessionData
<1>1. granted + 1 \in Token /\ 0 \in Token
    BY SessionAssumption DEF Token
<1> QED
    BY <1>1 DEF NewSession, SessionData

LEMMA RenewedTyped ==
    ASSUME granted \in Token, granted < MaxGranted, data \in SessionData,
           NEW refresh \in {0, granted + 1}
    PROVE  /\ Renewed(refresh) \in SessionData
           /\ [Renewed(refresh) EXCEPT !.expired = TRUE, !.access = 0] \in SessionData
<1>1. granted + 1 \in Token /\ 0 \in Token
    BY SessionAssumption DEF Token
<1> QED
    BY <1>1 DEF Renewed, SessionData

LEMMA LoadedTyped ==
    ASSUME NEW d \in SessionData \cup {NoSession}
    PROVE  Loaded(d) \in SessionData \cup {NoSession}
BY SessionTyped DEF Loaded, SessionData

LEMMA FaultTyped == ASSUME faults \in 0..MaxFaults, Fault PROVE faults' \in 0..MaxFaults
BY SessionAssumption DEF Fault

LEMMA CallsTyped ==
    ASSUME pc \in [Caller -> Position], held \in [Caller -> Token], NEW c \in Caller,
           \/ \E p \in Position : At(c, p)
           \/ Return(c)
           \/ \E t \in Token : CallWith(c, t)
           \/ UNCHANGED <<pc, held>>
    PROVE  pc' \in [Caller -> Position] /\ held' \in [Caller -> Token]
<1>1. 0 \in Token
    BY SessionAssumption DEF Token
<1> QED
    BY <1>1 DEF At, Return, CallWith, Position

LEMMA SessionTypeStep ==
    ASSUME IInv, SessionNext PROVE SessionTypeOK'
<1> USE DEF SessionTypeOK
<1>1. SessionTypeOK /\ granted \in Nat /\ fresh \subseteq 1..granted /\ spent \subseteq 1..granted
    BY SessionAssumption DEF IInv, TypeOK, Token
<1>2. CASE Import
    <2>1. granted' = granted + 1 /\ fresh' = fresh \cup {granted'} /\ UNCHANGED spent
        BY <1>2 DEF Import
    <2>2. disk' \in SessionData \cup {NoSession} /\ granted' \in Token
        BY <1>1, <1>2, GivenTyped DEF Import, Saves
    <2>3. fresh' \subseteq 1..granted' /\ spent' \subseteq 1..granted'
        BY <1>1, <2>1
    <2>4. cause' = FALSE /\ UNCHANGED <<rotating, owner, data, paused, mu, pc, held, faults>>
        BY <1>2 DEF Import, session, calls
    <2> QED
        BY <1>1, <2>2, <2>3, <2>4
<1>3. CASE Start
    BY <1>1, <1>3, LoadedTyped DEF Start, calls, tokens
<1>4. CASE End
    <2>1. 0 \in Token
        BY SessionAssumption DEF Token
    <2>2. pc' \in [Caller -> Position] /\ held' \in [Caller -> Token]
        BY <1>4, <2>1 DEF End, Position
    <2>3. faults' \in 0..MaxFaults
        BY <1>1, <1>4, FaultTyped DEF End
    <2>4. /\ owner' = "none" /\ data' = NoSession /\ paused' = FALSE /\ mu' = NoCaller
          /\ UNCHANGED <<rotating, disk, granted, fresh, spent, cause>>
        BY <1>4 DEF End, tokens
    <2> QED
        BY <1>1, <2>2, <2>3, <2>4
<1>5. CASE TokenAges \/ PauseEnds
    BY <1>1, <1>5 DEF TokenAges, PauseEnds, file, session, calls, tokens
<1>6. ASSUME NEW c \in Caller, CallStep(c) PROVE SessionTypeOK'
    <2>1. CASE Call(c) \/ Answered(c)
        <3>1. pc' \in [Caller -> Position] /\ held' \in [Caller -> Token]
            BY <1>1, <2>1, CallsTyped DEF Call, Answered, Position
        <3> QED
            BY <1>1, <2>1, <3>1 DEF Call, Answered, file, session, tokens
    <2>2. CASE TokenAtOnce(c)
        <3>1. Usable => data.access \in Token
            BY <1>1 DEF Usable, SessionData
        <3>2. pc' \in [Caller -> Position] /\ held' \in [Caller -> Token]
            BY <1>1, <2>2, <3>1, CallsTyped DEF TokenAtOnce
        <3> QED
            BY <1>1, <2>2, <3>2 DEF TokenAtOnce, file, session, tokens
    <2>3. CASE Unauthorized(c)
        <3>1. pc' \in [Caller -> Position] /\ held' \in [Caller -> Token]
            BY <1>1, <2>3, CallsTyped DEF Unauthorized, Position
        <3> QED
            BY <1>1, <2>3, <3>1, FaultTyped DEF Unauthorized, file, session, tokens
    <2>4. CASE MarkRefresh(c)
        <3>1. data \in SessionData /\ data.refresh \in 1..granted
            BY <1>1, <2>4 DEF MarkRefresh, Renewable, Usable, SessionData, Token, IInv, GivenInv
        <3>2. pc' \in [Caller -> Position] /\ held' \in [Caller -> Token]
            BY <1>1, <2>4, CallsTyped DEF MarkRefresh, Position
        <3>3. data' \in SessionData /\ disk' \in SessionData
            BY <2>4, <3>1, SessionTyped DEF MarkRefresh, Saves
        <3> QED
            BY <1>1, <2>4, <3>1, <3>2, <3>3 DEF MarkRefresh, tokens
    <2>5. CASE MarkFails(c)
        <3>1. data \in SessionData
            BY <1>1, <2>5 DEF MarkFails, Renewable, Usable
        <3>2. pc' \in [Caller -> Position] /\ held' \in [Caller -> Token]
            BY <1>1, <2>5, CallsTyped DEF MarkFails
        <3>3. data' \in SessionData /\ disk' \in SessionData \cup {NoSession}
            BY <1>1, <2>5, <3>1, SessionTyped DEF MarkFails, FailsToSave
        <3> QED
            BY <1>1, <2>5, <3>2, <3>3, FaultTyped DEF MarkFails, tokens
    <2>6. CASE RefreshReturns(c)
        <3>1. pc[c] = "refresh" /\ data \in SessionData
            BY <1>1, <2>6 DEF RefreshReturns, Renew, RenewUnsaved, Renews, RenewUnusable, RenewRefused,
               RenewLost, RenewLostUnsaved, IInv, HoldInv, Usable
        <3>2. CASE Renew(c) \/ RenewUnsaved(c)
            <4>1. PICK refresh \in {0, granted + 1} :
                    /\ Renews(c, refresh)
                    /\ data' \in {Renewed(refresh), [Renewed(refresh) EXCEPT !.expired = TRUE, !.access = 0]}
                    /\ disk' \in {disk, Renewed(refresh)}
                BY <3>2 DEF Renew, RenewUnsaved, Saves, FailsToSave
            <4>2. /\ granted' = granted + 1 /\ granted' \in Token /\ spent' \subseteq spent
                  /\ fresh' = fresh \cup {granted'}
                BY <1>1, <4>1, GivenTyped DEF Renews
            <4>3. data' \in SessionData /\ disk' \in SessionData \cup {NoSession}
                BY <1>1, <3>1, <4>1, RenewedTyped DEF Renews
            <4>4. pc' \in [Caller -> Position] /\ held' \in [Caller -> Token]
                BY <1>1, <3>2, <4>2, CallsTyped DEF Renew, RenewUnsaved
            <4>5. mu' = NoCaller /\ UNCHANGED <<rotating, owner, paused>>
                BY <3>2 DEF Renew, RenewUnsaved, Unlock
            <4>6. cause' \in BOOLEAN /\ faults' \in 0..MaxFaults
                BY <1>1, <3>2, FaultTyped DEF Renew, RenewUnsaved
            <4> QED
                BY <1>1, <4>2, <4>3, <4>4, <4>5, <4>6
        <3>3. CASE RenewUnusable(c) \/ RenewRefused(c) \/ RenewLost(c) \/ RenewLostUnsaved(c)
            <4>1. data' \in SessionData /\ disk' \in SessionData \cup {NoSession}
                BY <1>1, <3>1, <3>3, SessionTyped
                DEF RenewUnusable, RenewRefused, RenewLost, RenewLostUnsaved, Saves, FailsToSave
            <4>2. pc' \in [Caller -> Position] /\ held' \in [Caller -> Token]
                BY <1>1, <3>3, CallsTyped DEF RenewUnusable, RenewRefused, RenewLost, RenewLostUnsaved
            <4>3. mu' = NoCaller /\ faults' \in 0..MaxFaults
                BY <1>1, <3>3, FaultTyped
                DEF RenewUnusable, RenewRefused, RenewLost, RenewLostUnsaved, Unlock
            <4>4. UNCHANGED <<rotating, owner, tokens, spent>> /\ paused' \in BOOLEAN /\ cause' \in BOOLEAN
                BY <1>1, <3>3 DEF RenewUnusable, RenewRefused, RenewLost, RenewLostUnsaved
            <4> QED
                BY <1>1, <4>1, <4>2, <4>3, <4>4 DEF tokens
        <3> QED
            BY <2>6, <3>2, <3>3 DEF RefreshReturns
    <2>7. CASE Expire(c)
        <3>1. data \in SessionData
            BY <1>1, <2>7 DEF Expire, IInv, HoldInv
        <3>2. data' \in SessionData /\ disk' \in SessionData \cup {NoSession}
            BY <1>1, <2>7, <3>1, SessionTyped DEF Expire, Saves, FailsToSave
        <3>3. pc' \in [Caller -> Position] /\ held' \in [Caller -> Token]
            BY <1>1, <2>7, CallsTyped DEF Expire
        <3> QED
            BY <1>1, <2>7, <3>2, <3>3 DEF Expire, tokens
    <2> QED
        BY <1>6, <2>1, <2>2, <2>3, <2>4, <2>5, <2>6, <2>7 DEF CallStep
<1> QED
    BY <1>2, <1>3, <1>4, <1>5, <1>6 DEF SessionNext

LEMMA StepTyped ==
    ASSUME TypeOK, NEW v \in Validator, NEW from, NEW to \in {"idle", "validating", "checked", "done"},
           Step(v, from, to)
    PROVE  work' \in [Validator -> {"idle", "validating", "checked", "done"}]
BY DEF TypeOK, Step

\* What waits in the channel has been sent.
LEMMA SendTyped ==
    ASSUME TypeOK, GateInv, NEW v \in Validator, NEW from, from # "done", Step(v, from, "done"),
           NEW o \in Outcome, Send(o)
    PROVE  /\ result' \in Seq(Outcome) /\ Len(result') = Len(result) + 1
           /\ Len(result') <= Sent("callback")' + Sent("fallback")'
<1>1. result \in Seq(Outcome)
    BY DEF TypeOK
<1>2. result' \in Seq(Outcome) /\ Len(result') = Len(result) + 1
    BY <1>1 DEF Send
<1>3. Len(result) \in Nat
    BY <1>1
<1>4. v \in {"callback", "fallback"} /\ work \in [Validator -> {"idle", "validating", "checked", "done"}]
    BY DEF TypeOK, Validator
<1>5. \A w \in Validator : Sent(w) \in {0, 1} /\ Sent(w)' = IF w = v THEN 1 ELSE Sent(w)
    BY <1>4 DEF Sent, Step
<1>6. Sent(v) = 0
    BY DEF Sent, Step
<1> QED
    BY <1>2, <1>3, <1>4, <1>5, <1>6 DEF GateInv, Validator

\* What a step of a login leaves alone.
LEMMA LoginFrame ==
    ASSUME LoginNext
    PROVE  UNCHANGED <<rotating, session, calls, spent, faults>>
BY DEF LoginNext, Open, Announce, AnnounceFails, ContextEnds, PasteTooLate, ReadFails, TakeOutcome,
       TakeEnd, Leave, Exit, Receive, Validate, ValidationFails, Validated, SaveSession, Elsewhere

LEMMA LoginTypeStep ==
    ASSUME IInv, LoginNext PROVE TypeOK'
<1> USE DEF TypeOK
<1>1. TypeOK /\ GateInv
    BY DEF IInv
<1>2. UNCHANGED <<rotating, data, paused, mu, pc, held, spent, faults>>
    BY LoginFrame DEF session, calls
<1>3. ASSUME UNCHANGED <<disk, granted, fresh, cause>>, owner' \in {"none", "controller", "login"}
      PROVE  SessionTypeOK'
    BY <1>1, <1>2, <1>3 DEF SessionTypeOK
<1>4. 0 \in Token
    BY SessionAssumption DEF Token
<1>5. CASE Open \/ Announce \/ ContextEnds \/ TakeEnd
    BY <1>1, <1>3, <1>5 DEF Open, Announce, ContextEnds, TakeEnd, file, tokens, SessionTypeOK
<1>6. CASE AnnounceFails \/ PasteTooLate
    <2>1. work' \in [Validator -> {"idle", "validating", "checked", "done"}]
        BY <1>1, <1>6, StepTyped DEF AnnounceFails, PasteTooLate, Validator
    <2> QED
        BY <1>1, <1>3, <1>6, <2>1 DEF AnnounceFails, PasteTooLate, file, tokens, SessionTypeOK, Outcome
<1>7. CASE ReadFails
    <2>1. work' \in [Validator -> {"idle", "validating", "checked", "done"}]
        BY <1>1, <1>7, StepTyped DEF ReadFails, Validator
    <2>2. result' \in Seq(Outcome) /\ Len(result') <= 2
        <3>1. /\ result' \in Seq(Outcome) /\ Len(result') = Len(result) + 1
              /\ Len(result') <= Sent("callback")' + Sent("fallback")'
            BY <1>1, <1>7, SendTyped DEF ReadFails, Validator, Outcome
        <3>2. Sent("callback")' \in {0, 1} /\ Sent("fallback")' \in {0, 1}
            BY DEF Sent
        <3> QED
            BY <3>1, <3>2
    <2> QED
        BY <1>1, <1>3, <1>7, <2>1, <2>2 DEF ReadFails, file, tokens, SessionTypeOK
<1>8. CASE TakeOutcome
    <2>1. result' \in Seq(Outcome) /\ Len(result') <= 2 /\ report' \in Outcome
        BY <1>1, <1>8 DEF TakeOutcome
    <2> QED
        BY <1>1, <1>3, <1>8, <2>1 DEF TakeOutcome, file, tokens, SessionTypeOK
<1>9. CASE Leave
    BY <1>1, <1>3, <1>9 DEF Leave, tokens, SessionTypeOK
<1>10. CASE Exit
    <2>1. work' \in [Validator -> {"idle", "validating", "checked", "done"}]
        BY <1>10 DEF Exit
    <2>2. result' \in Seq(Outcome) /\ Len(result') <= 2
        BY <1>10 DEF Exit
    <2> QED
        BY <1>1, <1>3, <1>4, <1>10, <2>1, <2>2 DEF Exit, file, tokens, SessionTypeOK
<1>11. ASSUME NEW v \in Validator, Receive(v) PROVE TypeOK'
    <2>1. work' \in [Validator -> {"idle", "validating", "checked", "done"}]
        BY <1>1, <1>11, StepTyped DEF Receive
    <2> QED
        BY <1>1, <1>3, <1>11, <2>1 DEF Receive, file, tokens, SessionTypeOK
<1>12. ASSUME NEW v \in Validator, ValidationFails(v) PROVE TypeOK'
    <2>1. work' \in [Validator -> {"idle", "validating", "checked", "done"}]
        BY <1>1, <1>12, StepTyped DEF ValidationFails
    <2>2. /\ result' \in Seq(Outcome) /\ Len(result') = Len(result) + 1
          /\ Len(result') <= Sent("callback")' + Sent("fallback")'
        BY <1>1, <1>12, SendTyped DEF ValidationFails, Outcome
    <2>3. Sent("callback")' \in {0, 1} /\ Sent("fallback")' \in {0, 1}
        BY DEF Sent
    <2>4. Len(result') <= 2
        BY <2>2, <2>3
    <2> QED
        BY <1>1, <1>3, <1>12, <2>1, <2>2, <2>4 DEF ValidationFails, file, tokens, SessionTypeOK
<1>13. ASSUME NEW v \in Validator, Validated(v) PROVE TypeOK'
    <2>1. work' \in [Validator -> {"idle", "validating", "checked", "done"}]
        BY <1>1, <1>13, StepTyped DEF Validated
    <2>2. granted' = granted + 1 /\ granted' \in Token /\ candidate' = granted' /\ UNCHANGED <<disk, owner, cause>>
        BY <1>1, <1>13, GivenTyped DEF Validated, file, SessionTypeOK
    <2>3. fresh' \subseteq 1..granted' /\ spent' \subseteq 1..granted'
        BY <1>1, <1>2, <1>13, <2>2, SessionAssumption DEF Validated, SessionTypeOK, Token
    <2>4. SessionTypeOK'
        BY <1>1, <1>2, <2>2, <2>3 DEF SessionTypeOK
    <2> QED
        BY <1>1, <1>13, <2>1, <2>2, <2>4 DEF Validated
<1>14. ASSUME NEW v \in Validator, SaveSession(v) PROVE TypeOK'
    <2>1. work' \in [Validator -> {"idle", "validating", "checked", "done"}]
        BY <1>1, <1>14, StepTyped DEF SaveSession
    <2>2. /\ result' \in Seq(Outcome) /\ Len(result') = Len(result) + 1
          /\ Len(result') <= Sent("callback")' + Sent("fallback")'
        BY <1>1, <1>14, SendTyped DEF SaveSession, Outcome
    <2>3. Sent("callback")' \in {0, 1} /\ Sent("fallback")' \in {0, 1}
        BY DEF Sent
    <2>4. Len(result') <= 2
        BY <2>2, <2>3
    <2>5. LoginSession \in SessionData
        BY <1>1 DEF LoginSession, SessionData
    <2>6. disk' \in SessionData \cup {NoSession} /\ saved' \in BOOLEAN /\ cause' \in BOOLEAN
        BY <1>1, <1>14, <2>5 DEF SaveSession, Saves, FailsToSave, SessionTypeOK
    <2>7. SessionTypeOK'
        BY <1>1, <1>2, <1>14, <2>6 DEF SaveSession, tokens, SessionTypeOK
    <2> QED
        BY <1>1, <1>14, <2>1, <2>2, <2>4, <2>6, <2>7 DEF SaveSession
<1> QED
    BY <1>5, <1>6, <1>7, <1>8, <1>9, <1>10, <1>11, <1>12, <1>13, <1>14 DEF LoginNext, Validate

LEMMA TypeStep == IInv /\ [Next]_vars => TypeOK'
<1> SUFFICES ASSUME IInv, [Next]_vars PROVE TypeOK'
    OBVIOUS
<1>1. CASE UNCHANGED vars
    BY <1>1 DEF vars, sessionVars, file, session, calls, tokens, attempt, IInv, TypeOK, SessionTypeOK
<1>2. CASE SessionNext /\ UNCHANGED attempt
    BY <1>2, SessionTypeStep DEF IInv, TypeOK, attempt
<1> QED
    BY <1>1, <1>2, LoginTypeStep DEF Next

-----------------------------------------------------------------------------
(* The session *)

\* What the steps of the controller make of the session, on disk and in memory.
LEMMA GivenSessionStep ==
    ASSUME IInv, SessionNext, UNCHANGED attempt PROVE GivenInv'
<1>1. /\ granted \in Nat /\ candidate \in Nat /\ candidate' = candidate /\ candidate <= granted
      /\ disk \in SessionData \cup {NoSession} /\ data \in SessionData \cup {NoSession}
    BY SessionAssumption DEF IInv, TypeOK, SessionTypeOK, Token, GivenInv, attempt
<1>2. \A d \in SessionData : d.access \in Nat /\ d.refresh \in Nat
    BY SessionAssumption DEF SessionData, Token
<1>3. GivenInv
    BY DEF IInv
<1>4. CASE Import
    BY <1>1, <1>2, <1>3, <1>4 DEF Import, Saves, NewSession, GivenInv, session
<1>5. CASE Start
    BY <1>1, <1>2, <1>3, <1>5 DEF Start, Loaded, GivenInv, tokens, SessionData
<1>6. CASE End \/ TokenAges \/ PauseEnds
    BY <1>1, <1>3, <1>6 DEF End, TokenAges, PauseEnds, GivenInv, tokens, file, session
<1>7. ASSUME NEW c \in Caller, CallStep(c) PROVE GivenInv'
    <2>1. CASE Call(c) \/ Answered(c) \/ TokenAtOnce(c) \/ Unauthorized(c)
        BY <1>1, <1>3, <2>1 DEF Call, Answered, TokenAtOnce, Unauthorized, GivenInv, tokens, file, session
    <2>2. CASE MarkRefresh(c) \/ MarkFails(c)
        <3>1. data \in SessionData /\ granted' = granted
            BY <1>1, <2>2 DEF MarkRefresh, MarkFails, Renewable, Usable, tokens
        <3>2. /\ data' \in {[data EXCEPT !.pending = TRUE], [data EXCEPT !.pending = TRUE, !.expired = TRUE]}
              /\ disk' \in {disk, [data EXCEPT !.pending = TRUE]}
            BY <2>2 DEF MarkRefresh, MarkFails, Saves, FailsToSave
        <3>3. data'.access = data.access /\ data'.refresh = data.refresh
            BY <3>1, <3>2 DEF SessionData
        <3>4. disk' = disk \/ (disk'.access = data.access /\ disk'.refresh = data.refresh)
            BY <3>1, <3>2 DEF SessionData
        <3> QED
            BY <1>1, <1>3, <3>1, <3>3, <3>4, SessionAssumption DEF GivenInv
    <2>3. CASE RefreshReturns(c)
        <3>1. data \in SessionData
            BY <1>1, <2>3 DEF RefreshReturns, Renew, RenewUnsaved, Renews, RenewUnusable, RenewRefused,
               RenewLost, RenewLostUnsaved, IInv, HoldInv, Usable
        <3>2. data.access <= granted /\ data.refresh <= granted
            BY <1>3, <3>1, SessionAssumption DEF GivenInv
        <3>3. CASE Renew(c) \/ RenewUnsaved(c)
            <4>1. PICK refresh \in {0, granted + 1} :
                    /\ Renews(c, refresh)
                    /\ data' \in {Renewed(refresh), [Renewed(refresh) EXCEPT !.expired = TRUE, !.access = 0]}
                    /\ disk' \in {disk, Renewed(refresh)}
                BY <3>3 DEF Renew, RenewUnsaved, Saves, FailsToSave
            <4>2. granted' = granted + 1
                BY <4>1 DEF Renews
            <4>3. Renewed(refresh).access <= granted' /\ Renewed(refresh).refresh <= granted'
                BY <1>1, <1>2, <3>1, <3>2, <4>2 DEF Renewed
            <4>4. data'.access <= granted' /\ data'.refresh <= granted'
                <5>1. Renewed(refresh) \in SessionData
                    BY <3>1, <4>1, RenewedTyped DEF IInv, TypeOK, SessionTypeOK, Renews
                <5>2. data'.access \in {0, Renewed(refresh).access} /\ data'.refresh = Renewed(refresh).refresh
                    BY <4>1, <5>1 DEF SessionData
                <5> QED
                    BY <1>1, <4>2, <4>3, <5>2
            <4> QED
                BY <1>1, <1>2, <1>3, <4>1, <4>2, <4>3, <4>4 DEF GivenInv
        <3>4. CASE RenewUnusable(c) \/ RenewRefused(c) \/ RenewLost(c) \/ RenewLostUnsaved(c)
            <4>1. /\ data'.access <= granted /\ data'.refresh <= granted
                  /\ disk' # disk => disk'.access <= granted /\ disk'.refresh <= granted
                <5>1. data' \in {[data EXCEPT !.expired = TRUE], Ended(data), AfterLost(data),
                                 [AfterLost(data) EXCEPT !.expired = TRUE]}
                    BY <3>4 DEF RenewUnusable, RenewRefused, RenewLost, RenewLostUnsaved
                <5>2. disk' \in {disk, data', AfterLost(data)}
                    BY <3>4 DEF RenewUnusable, RenewRefused, RenewLost, RenewLostUnsaved, Saves, FailsToSave
                <5>3. AfterLost(data) \in SessionData /\ AfterLost(data).access \in {0, data.access}
                      /\ AfterLost(data).refresh = data.refresh
                    BY <3>1, SessionTyped, SessionFields DEF Has, AfterLost, Ended
                <5>4. data'.access \in {0, data.access} /\ data'.refresh = data.refresh
                    BY <3>1, <5>1, <5>3 DEF Ended, SessionData
                <5> QED
                    BY <1>1, <3>2, <5>2, <5>3, <5>4
            <4>2. granted' = granted
                BY <3>4 DEF RenewUnusable, RenewRefused, RenewLost, RenewLostUnsaved, tokens
            <4> QED
                BY <1>1, <1>3, <4>1, <4>2 DEF GivenInv
        <3> QED
            BY <2>3, <3>3, <3>4 DEF RefreshReturns
    <2>4. CASE Expire(c)
        <3>1. data \in SessionData
            BY <1>1, <2>4 DEF Expire, IInv, HoldInv
        <3>2. data.access <= granted /\ data.refresh <= granted
            BY <1>3, <3>1, SessionAssumption DEF GivenInv
        <3>3. GivenInv'
            <4>1. data' \in {data, Ended(data)} /\ disk' \in {disk, data'} /\ granted' = granted
                BY <2>4 DEF Expire, Saves, FailsToSave, tokens
            <4>2. data'.access \in {0, data.access} /\ data'.refresh = data.refresh
                BY <3>1, <4>1 DEF Ended, SessionData
            <4> QED
                BY <1>1, <1>3, <3>2, <4>1, <4>2 DEF GivenInv
        <3> QED
            BY <3>3
    <2> QED
        BY <1>7, <2>1, <2>2, <2>3, <2>4 DEF CallStep
<1> QED
    BY <1>4, <1>5, <1>6, <1>7 DEF SessionNext

LEMMA GivenStep == IInv /\ [Next]_vars => GivenInv'
<1> SUFFICES ASSUME IInv, [Next]_vars PROVE GivenInv'
    OBVIOUS
<1>1. CASE UNCHANGED vars
    BY <1>1 DEF vars, sessionVars, file, session, calls, tokens, attempt, IInv, GivenInv
<1>2. CASE SessionNext /\ UNCHANGED attempt
    BY <1>2, GivenSessionStep
<1>3. CASE LoginNext
    <2>1. GivenInv /\ granted \in Nat /\ candidate \in Nat /\ data' = data
        BY <1>3, LoginFrame, SessionAssumption DEF IInv, TypeOK, SessionTypeOK, Token, session
    <2>2. \A d \in SessionData : d.access \in Nat /\ d.refresh \in Nat
        BY SessionAssumption DEF SessionData, Token
    <2>3. disk \in SessionData \cup {NoSession} /\ data \in SessionData \cup {NoSession}
        BY DEF IInv, TypeOK, SessionTypeOK
    <2>4. \/ UNCHANGED <<disk, granted, candidate>>
          \/ UNCHANGED <<disk, granted>> /\ candidate' = 0
          \/ granted' = granted + 1 /\ candidate' = granted' /\ disk' = disk
          \/ UNCHANGED <<granted, candidate>> /\ disk' \in {disk, LoginSession}
        BY <1>3 DEF LoginNext, Open, Announce, AnnounceFails, ContextEnds, PasteTooLate, ReadFails, TakeOutcome,
           TakeEnd, Leave, Exit, Receive, Validate, ValidationFails, Validated, SaveSession, Saves,
           FailsToSave, file, tokens
    <2> QED
        BY <2>1, <2>2, <2>3, <2>4 DEF GivenInv, LoginSession
<1> QED
    BY <1>1, <1>2, <1>3 DEF Next

LEMMA LockStep == IInv /\ [Next]_vars => LockInv'
<1> SUFFICES ASSUME LockInv, [Next]_vars PROVE LockInv'
    BY DEF IInv
<1>1. CASE UNCHANGED vars
    BY <1>1 DEF vars, sessionVars, file, attempt, LockInv
<1>2. CASE SessionNext /\ UNCHANGED attempt
    <2>1. owner' = owner \/ {owner, owner'} = {"none", "controller"}
        BY <1>2 DEF SessionNext, Import, Start, End, TokenAges, PauseEnds, CallStep, Call, TokenAtOnce, MarkRefresh,
           MarkFails, RefreshReturns, Renew, RenewUnsaved, RenewUnusable, RenewRefused, RenewLost,
           RenewLostUnsaved, Answered, Unauthorized, Expire, file
    <2> QED
        BY <1>2, <2>1 DEF LockInv, attempt
<1>3. CASE LoginNext
    BY <1>3 DEF LoginNext, Open, Announce, AnnounceFails, ContextEnds, PasteTooLate, ReadFails, TakeOutcome,
       TakeEnd, Leave, Exit, Receive, Validate, ValidationFails, Validated, SaveSession, file, LockInv
<1> QED
    BY <1>1, <1>2, <1>3 DEF Next

LEMMA HoldSessionStep ==
    ASSUME IInv, SessionNext PROVE HoldInv'
<1>1. HoldInv /\ pc \in [Caller -> Position] /\ NoCaller \notin Caller /\ data \in SessionData \cup {NoSession}
    BY SessionAssumption DEF IInv, TypeOK, SessionTypeOK
<1>2. CASE Import \/ TokenAges \/ PauseEnds
    BY <1>1, <1>2 DEF Import, TokenAges, PauseEnds, HoldInv, Usable, file, session, calls
<1>3. CASE Start
    BY <1>1, <1>3 DEF Start, HoldInv, calls
<1>4. CASE End
    BY <1>1, <1>4 DEF End, HoldInv
<1>5. ASSUME NEW c \in Caller, CallStep(c) PROVE HoldInv'
    <2>1. owner = "controller" /\ owner' = "controller"
        BY <1>1, <1>5 DEF CallStep, Call, TokenAtOnce, MarkRefresh, MarkFails, RefreshReturns, Renew, RenewUnsaved, Renews,
           RenewUnusable, RenewRefused, RenewLost, RenewLostUnsaved, Answered, Unauthorized, Expire, HoldInv, file
    <2>2. CASE Call(c) \/ Answered(c) \/ TokenAtOnce(c) \/ Unauthorized(c)
        <3>1. UNCHANGED <<data, mu>> /\ pc[c] # "refresh"
            BY <2>2 DEF Call, Answered, TokenAtOnce, Unauthorized, session
        <3>2. \E p \in Position \ {"refresh"} :
                  /\ pc' = [pc EXCEPT ![c] = p]
                  /\ p \in {"call", "rejected"} => data # NoSession
            BY <1>1, <2>2
            DEF Call, Answered, TokenAtOnce, Unauthorized, Position, At, Return, CallWith, Usable, HoldInv
        <3> QED
            BY <1>1, <2>1, <3>1, <3>2 DEF HoldInv, Usable
    <2>3. CASE MarkRefresh(c)
        <3>1. data \in SessionData /\ data.refresh # 0 /\ ~data.expired /\ mu = NoCaller
            BY <1>1, <2>3 DEF MarkRefresh, Renewable, Usable
        <3>2. data' = [data EXCEPT !.pending = TRUE] /\ mu' = c /\ pc' = [pc EXCEPT ![c] = "refresh"]
            BY <2>3 DEF MarkRefresh, At
        <3>3. data' # NoSession /\ ~data'.expired /\ data'.refresh # 0
            <4>1. data' \in SessionData
                BY <3>1, <3>2, SessionTyped
            <4>2. data'.expired = data.expired /\ data'.refresh = data.refresh
                BY <3>1, <3>2 DEF SessionData
            <4> QED
                BY <3>1, <4>1, <4>2, SessionAssumption
        <3> QED
            BY <1>1, <2>1, <3>1, <3>2, <3>3 DEF HoldInv, Usable
    <2>4. CASE MarkFails(c) \/ Expire(c)
        <3>1. data \in SessionData /\ mu = NoCaller /\ mu' = NoCaller
            BY <1>1, <2>4 DEF MarkFails, Renewable, Usable, Expire, HoldInv
        <3>2. data' \in {data, Ended(data), [data EXCEPT !.pending = TRUE, !.expired = TRUE]}
            BY <2>4 DEF MarkFails, Expire
        <3>3. data' # NoSession
            BY <3>1, <3>2, SessionTyped, SessionAssumption
        <3>4. pc' = [pc EXCEPT ![c] = "idle"]
            BY <2>4 DEF MarkFails, Expire, Return
        <3> QED
            BY <1>1, <2>1, <3>1, <3>3, <3>4 DEF HoldInv
    <2>5. CASE RefreshReturns(c)
        <3>1. pc[c] = "refresh" /\ mu' = NoCaller
            BY <2>5 DEF RefreshReturns, Renew, RenewUnsaved, Renews, RenewUnusable, RenewRefused,
               RenewLost, RenewLostUnsaved, Unlock
        <3>2. data \in SessionData /\ \A d \in Caller \ {c} : pc[d] # "refresh"
            BY <1>1, <3>1 DEF HoldInv, Usable
        <3>3. data' # NoSession
            <4>1. \/ \E refresh \in {0, granted + 1} : granted < MaxGranted
                       /\ data' \in {Renewed(refresh), [Renewed(refresh) EXCEPT !.expired = TRUE, !.access = 0]}
                  \/ data' \in {[data EXCEPT !.expired = TRUE], Ended(data), AfterLost(data),
                                [AfterLost(data) EXCEPT !.expired = TRUE]}
                BY <2>5 DEF RefreshReturns, Renew, RenewUnsaved, Renews, RenewUnusable, RenewRefused,
                   RenewLost, RenewLostUnsaved
            <4>2. granted \in Token
                BY DEF IInv, TypeOK, SessionTypeOK
            <4> QED
                BY <3>2, <4>1, <4>2, SessionTyped, RenewedTyped, SessionAssumption
        <3>4. \E p \in {"idle", "call"} : pc' = [pc EXCEPT ![c] = p]
            BY <2>5 DEF RefreshReturns, Renew, RenewUnsaved, RenewUnusable, RenewRefused,
               RenewLost, RenewLostUnsaved, Return, CallWith
        <3> QED
            BY <1>1, <2>1, <3>1, <3>2, <3>3, <3>4 DEF HoldInv
    <2> QED
        BY <1>5, <2>2, <2>3, <2>4, <2>5 DEF CallStep
<1> QED
    BY <1>2, <1>3, <1>4, <1>5 DEF SessionNext

LEMMA HoldStep == IInv /\ [Next]_vars => HoldInv'
<1> SUFFICES ASSUME IInv, [Next]_vars PROVE HoldInv'
    OBVIOUS
<1>1. HoldInv
    BY DEF IInv
<1>2. CASE UNCHANGED vars
    BY <1>1, <1>2 DEF vars, sessionVars, file, session, calls, HoldInv, Usable
<1>3. CASE LoginNext
    <2>1. owner' = "controller" <=> owner = "controller"
        BY <1>3 DEF LoginNext, Open, Announce, AnnounceFails, ContextEnds, PasteTooLate, ReadFails, TakeOutcome,
           TakeEnd, Leave, Exit, Receive, Validate, ValidationFails, Validated, SaveSession, file, IInv, LockInv
    <2> QED
        BY <1>1, <2>1, <1>3, LoginFrame DEF HoldInv, Usable, session, calls
<1> QED
    BY <1>2, <1>3, HoldSessionStep DEF Next

LEMMA CauseSessionStep ==
    ASSUME IInv, SessionNext PROVE CauseInv'
<1>1. /\ CauseInv /\ HoldInv /\ pc \in [Caller -> Position]
      /\ disk \in SessionData \cup {NoSession} /\ data \in SessionData \cup {NoSession}
    BY DEF IInv, TypeOK, SessionTypeOK
<1> USE DEF CauseInv, ExpiredForCause
<1>2. CASE Import
    <2>1. data' = NoSession /\ \A c \in Caller : pc'[c] = "idle"
        BY <1>1, <1>2 DEF Import, HoldInv, session, calls
    <2>2. ~disk'.expired
        BY <1>2 DEF Import, Saves, NewSession
    <2> QED
        BY <2>1, <2>2
<1>3. CASE Start
    <2>1. ~rotating /\ disk \in SessionData /\ data'.expired => disk.expired
        BY <1>3 DEF Start, Loaded, SessionData
    <2>2. disk = NoSession => data' = NoSession
        BY <1>3 DEF Start, Loaded
    <2> QED
        BY <1>1, <1>3, <2>1, <2>2 DEF Start, calls
<1>4. CASE End \/ TokenAges \/ PauseEnds
    BY <1>1, <1>4 DEF End, TokenAges, PauseEnds, file, session, calls
<1>5. ASSUME NEW c \in Caller, CallStep(c) PROVE CauseInv'
    <2>1. CASE Call(c) \/ Answered(c) \/ TokenAtOnce(c)
        <3>1. \E p \in Position \ {"rejected"} : pc' = [pc EXCEPT ![c] = p]
            BY <2>1 DEF Call, Answered, TokenAtOnce, Position, At, Return, CallWith
        <3>2. UNCHANGED <<rotating, disk, data, cause>>
            BY <2>1 DEF Call, Answered, TokenAtOnce, file, session
        <3> QED
            BY <1>1, <3>1, <3>2
    <2>2. CASE Unauthorized(c) \/ MarkFails(c) \/ RenewUnsaved(c) \/ RenewUnusable(c) \/ RenewRefused(c)
               \/ RenewLostUnsaved(c)
        BY <2>2 DEF Unauthorized, MarkFails, RenewUnsaved, RenewUnusable, RenewRefused, RenewLostUnsaved
    <2>3. CASE MarkRefresh(c)
        <3>1. data \in SessionData /\ ~data.expired
            BY <1>1, <2>3 DEF MarkRefresh, Renewable, Usable
        <3>2. data' = [data EXCEPT !.pending = TRUE] /\ disk' = data'
            BY <2>3 DEF MarkRefresh, Saves
        <3>3. data'.expired = data.expired
            BY <3>1, <3>2 DEF SessionData
        <3>4. pc' = [pc EXCEPT ![c] = "refresh"]
            BY <2>3 DEF MarkRefresh, At
        <3>5. cause' = cause
            BY <2>3 DEF MarkRefresh
        <3> QED
            BY <1>1, <3>1, <3>2, <3>3, <3>4, <3>5
    <2>4. CASE Renew(c)
        <3>1. ~data'.expired /\ disk' = data' /\ cause' = cause
            BY <2>4 DEF Renew, Renewed, Saves
        <3>2. pc' = [pc EXCEPT ![c] = "call"]
            BY <2>4 DEF Renew, CallWith
        <3> QED
            BY <1>1, <3>1, <3>2
    <2>5. CASE RenewLost(c)
        <3>1. data \in SessionData /\ ~data.expired
            BY <1>1, <2>5 DEF RenewLost, HoldInv, Usable
        <3>2. ~rotating => data' = [data EXCEPT !.pending = FALSE]
            BY <2>5 DEF RenewLost, AfterLost
        <3>3. ~rotating => data'.expired = data.expired
            BY <3>1, <3>2 DEF SessionData
        <3>4. pc' = [pc EXCEPT ![c] = "idle"]
            BY <2>5 DEF RenewLost, Return
        <3>5. UNCHANGED <<rotating, cause>> /\ disk' = data'
            BY <2>5 DEF RenewLost, Saves
        <3> QED
            BY <1>1, <3>1, <3>3, <3>4, <3>5
    <2>6. CASE Expire(c)
        <3>1. cause /\ cause' = cause
            BY <1>1, <2>6 DEF Expire
        <3> QED
            BY <3>1
    <2> QED
        BY <1>5, <2>1, <2>2, <2>3, <2>4, <2>5, <2>6 DEF CallStep, RefreshReturns
<1> QED
    BY <1>2, <1>3, <1>4, <1>5 DEF SessionNext

\* A login ends what was the cause only where no controller is at work.
LEMMA CauseStep == IInv /\ [Next]_vars => CauseInv'
<1> SUFFICES ASSUME IInv, [Next]_vars PROVE CauseInv'
    OBVIOUS
<1>1. CauseInv /\ HoldInv
    BY DEF IInv
<1>2. CASE UNCHANGED vars
    BY <1>1, <1>2 DEF vars, sessionVars, file, session, calls, CauseInv, ExpiredForCause
<1>3. CASE LoginNext
    <2>1. UNCHANGED <<rotating, data, pc>>
        BY <1>3, LoginFrame DEF session, calls
    <2>2. CASE UNCHANGED <<disk, cause>>
        BY <1>1, <2>1, <2>2 DEF CauseInv, ExpiredForCause
    <2>3. ASSUME NEW v \in Validator, SaveSession(v) PROVE CauseInv'
        <3>1. ~LoginSession.expired /\ disk' \in {disk, LoginSession} /\ (saved' <=> disk' = LoginSession)
            BY <2>3 DEF SaveSession, Saves, FailsToSave, LoginSession
        <3>2. cause' <=> cause /\ ~(saved' /\ owner = "login")
            BY <2>3 DEF SaveSession
        <3>3. CASE saved' /\ owner = "login"
            <4>1. data' = NoSession /\ \A c \in Caller : pc'[c] = "idle"
                BY <1>1, <2>1, <3>3 DEF HoldInv
            <4> QED
                BY <3>1, <3>3, <4>1 DEF CauseInv, ExpiredForCause
        <3>4. CASE ~(saved' /\ owner = "login")
            BY <1>1, <2>1, <3>1, <3>2, <3>4 DEF CauseInv, ExpiredForCause
        <3> QED
            BY <3>3, <3>4
    <2>4. UNCHANGED <<disk, cause>> \/ \E v \in Validator : SaveSession(v)
        BY <1>3 DEF LoginNext, Open, Announce, AnnounceFails, ContextEnds, PasteTooLate, ReadFails, TakeOutcome,
           TakeEnd, Leave, Exit, Receive, Validate, ValidationFails, Validated, file
    <2> QED
        BY <2>2, <2>3, <2>4
<1> QED
    BY <1>2, <1>3, CauseSessionStep DEF Next

\* A session on disk is marked, or not retired, after the steps that replace it.
LEMMA RetiredSessionStep ==
    ASSUME IInv, SessionNext, UNCHANGED attempt PROVE RetiredInv'
<1> SUFFICES ASSUME rotating
             PROVE  /\ disk' # NoSession /\ disk'.refresh \in spent' => disk'.pending \/ disk'.expired
                    /\ mu' = NoCaller /\ Usable' => data'.refresh \notin spent'
    <2>1. rotating' = rotating
        BY DEF SessionNext, Import, Start, End, TokenAges, PauseEnds, CallStep, Call, TokenAtOnce, MarkRefresh,
           MarkFails, RefreshReturns, Renew, RenewUnsaved, RenewUnusable, RenewRefused, RenewLost,
           RenewLostUnsaved, Answered, Unauthorized, Expire
    <2> QED
        BY <2>1 DEF IInv, RetiredInv, attempt
<1>1. /\ HoldInv /\ disk \in SessionData \cup {NoSession} /\ data \in SessionData \cup {NoSession}
      /\ granted \in Nat /\ spent \subseteq 1..granted /\ NoCaller \notin Caller
    BY SessionAssumption DEF IInv, TypeOK, SessionTypeOK, Token
<1>2. /\ disk # NoSession /\ disk.refresh \in spent => disk.pending \/ disk.expired
      /\ mu = NoCaller /\ Usable => data.refresh \notin spent
    BY DEF IInv, RetiredInv
<1>3. CASE Import
    <2>1. disk'.refresh \in {0, granted + 1} /\ UNCHANGED <<spent, data, mu>>
        BY <1>3 DEF Import, Saves, NewSession, session
    <2> QED
        BY <1>1, <1>2, <2>1 DEF Usable
<1>4. CASE Start
    <2>1. data' = Loaded(disk) /\ UNCHANGED <<disk, spent>>
        BY <1>4 DEF Start
    <2>2. disk \in SessionData /\ disk.pending => Loaded(disk).expired
        BY SessionAssumption DEF Loaded, SessionData
    <2>3. ~disk.pending \/ disk = NoSession => Loaded(disk) = disk
        BY DEF Loaded
    <2> QED
        BY <1>1, <1>2, <2>1, <2>2, <2>3 DEF Usable
<1>5. CASE End \/ TokenAges \/ PauseEnds
    BY <1>2, <1>5 DEF End, TokenAges, PauseEnds, file, session, calls, Usable
<1>6. ASSUME NEW c \in Caller, CallStep(c)
      PROVE  /\ disk' # NoSession /\ disk'.refresh \in spent' => disk'.pending \/ disk'.expired
             /\ mu' = NoCaller /\ Usable' => data'.refresh \notin spent'
    <2>1. CASE Call(c) \/ Answered(c) \/ TokenAtOnce(c) \/ Unauthorized(c)
        <3>1. UNCHANGED <<disk, data, mu, spent>>
            BY <2>1 DEF Call, Answered, TokenAtOnce, Unauthorized, file, session
        <3> QED
            BY <1>2, <3>1 DEF Usable
    <2>2. CASE MarkRefresh(c)
        <3>1. data \in SessionData
            BY <1>1, <2>2 DEF MarkRefresh, Renewable, Usable
        <3>2. data' = [data EXCEPT !.pending = TRUE] /\ disk' = data' /\ mu' = c
            BY <2>2 DEF MarkRefresh, Saves
        <3>3. disk'.pending
            BY <3>1, <3>2 DEF SessionData
        <3> QED
            BY <1>1, <3>2, <3>3
    <2>3. CASE MarkFails(c)
        <3>1. data \in SessionData /\ mu = NoCaller /\ Usable
            BY <1>1, <2>3 DEF MarkFails, Renewable, Usable
        <3>2. data' = [data EXCEPT !.pending = TRUE, !.expired = TRUE] /\ spent' = spent
            BY <2>3 DEF MarkFails
        <3>3. disk' \in {disk, [data EXCEPT !.pending = TRUE]}
            BY <2>3 DEF MarkFails, FailsToSave
        <3>4. [data EXCEPT !.pending = TRUE].pending /\ data'.expired
            BY <3>1, <3>2 DEF SessionData
        <3> QED
            BY <1>2, <3>2, <3>3, <3>4 DEF Usable
    <2>4. CASE Renew(c) \/ RenewUnsaved(c)
        <3>1. data \in SessionData
            BY <1>1, <2>4 DEF Renew, RenewUnsaved, Renews, HoldInv, Usable
        <3>2. PICK refresh \in {0, granted + 1} :
                /\ Renews(c, refresh)
                /\ data' = Renewed(refresh) \/ data' = [Renewed(refresh) EXCEPT !.expired = TRUE, !.access = 0]
                /\ disk' \in {disk, Renewed(refresh)}
            BY <2>4 DEF Renew, RenewUnsaved, Saves, FailsToSave
        <3>3. spent' = IF refresh = 0 THEN spent \ {data.refresh} ELSE spent
            BY <3>2 DEF Renews
        <3>4. Renewed(refresh).refresh \notin spent'
            BY <1>1, <3>2, <3>3 DEF Renewed
        <3>5. data'.refresh = Renewed(refresh).refresh
            <4>1. Renewed(refresh) \in SessionData
                BY <3>1, <3>2, RenewedTyped DEF Renews, IInv, TypeOK, SessionTypeOK
            <4> QED
                BY <3>2, <4>1 DEF SessionData
        <3> QED
            BY <1>2, <3>2, <3>3, <3>4, <3>5
    <2>5. CASE RenewUnusable(c) \/ RenewRefused(c) \/ RenewLost(c) \/ RenewLostUnsaved(c)
        <3>1. data \in SessionData
            BY <1>1, <2>5 DEF RenewUnusable, RenewRefused, RenewLost, RenewLostUnsaved, HoldInv, Usable
        <3>2. data' \in {[data EXCEPT !.expired = TRUE], Ended(data), [Ended(data) EXCEPT !.expired = TRUE]}
            BY <2>5 DEF RenewUnusable, RenewRefused, RenewLost, RenewLostUnsaved, AfterLost
        <3>3. disk' \in {disk, data', Ended(data)} /\ spent' = spent
            BY <2>5 DEF RenewUnusable, RenewRefused, RenewLost, RenewLostUnsaved, Saves, FailsToSave, AfterLost
        <3>4. Ended(data).expired /\ data'.expired
            BY <3>1, <3>2 DEF Ended, SessionData
        <3> QED
            BY <1>2, <3>3, <3>4 DEF Usable
    <2>6. CASE Expire(c)
        <3>1. data \in SessionData
            BY <1>1, <2>6 DEF Expire, HoldInv
        <3>2. \/ UNCHANGED <<data, disk>>
              \/ data' = Ended(data) /\ disk' \in {disk, data'}
            BY <2>6 DEF Expire, Saves, FailsToSave
        <3>3. Ended(data).expired
            BY <3>1 DEF Ended, SessionData
        <3>4. UNCHANGED <<spent, mu>>
            BY <2>6 DEF Expire
        <3> QED
            BY <1>2, <3>2, <3>3, <3>4 DEF Usable
    <2> QED
        BY <1>6, <2>1, <2>2, <2>3, <2>4, <2>5, <2>6 DEF CallStep, RefreshReturns
<1> QED
    BY <1>3, <1>4, <1>5, <1>6 DEF SessionNext

\* For a rotating server nobody logs in.
LEMMA RetiredStep == IInv /\ [Next]_vars => RetiredInv'
<1> SUFFICES ASSUME IInv, [Next]_vars PROVE RetiredInv'
    OBVIOUS
<1>1. RetiredInv
    BY DEF IInv
<1>2. CASE UNCHANGED vars
    BY <1>1, <1>2 DEF vars, sessionVars, file, session, attempt, RetiredInv, Usable
<1>3. CASE LoginNext
    <2>1. ~rotating
        BY <1>1, <1>3 DEF RetiredInv, LoginNext, Open, Announce, AnnounceFails, ContextEnds, PasteTooLate,
           ReadFails, TakeOutcome, TakeEnd, Leave, Exit, Receive, Serving, Validate, ValidationFails,
           Validated, SaveSession, Step
    <2> QED
        BY <1>3, <2>1, LoginFrame DEF RetiredInv
<1> QED
    BY <1>2, <1>3, RetiredSessionStep DEF Next

-----------------------------------------------------------------------------
(* The gate *)

LEMMA GateStep == IInv /\ [Next]_vars => GateInv'
<1> SUFFICES ASSUME IInv, [Next]_vars PROVE GateInv'
    OBVIOUS
<1>1. /\ TypeOK /\ GateInv
      /\ work \in [Validator -> {"idle", "validating", "checked", "done"}]
      /\ result \in Seq(Outcome)
    BY DEF IInv, TypeOK
<1> USE DEF GateInv, AtWork, Validator
<1>2. CASE UNCHANGED attempt
    BY <1>1, <1>2 DEF attempt, Sent
<1>3. CASE Open \/ Announce \/ ContextEnds \/ TakeEnd \/ Leave
    BY <1>1, <1>3 DEF Open, Announce, ContextEnds, TakeEnd, Leave, Sent
<1>4. CASE AnnounceFails \/ PasteTooLate
    <2>1. work["fallback"] = "idle" /\ work' = [work EXCEPT !["fallback"] = "done"] /\ UNCHANGED <<used, saved, result>>
        BY <1>4 DEF AnnounceFails, PasteTooLate, Step
    <2>2. Len(result) \in Nat
        BY <1>1
    <2> QED
        BY <1>1, <2>1, <2>2 DEF Sent
<1>5. CASE ReadFails
    <2>1. work["fallback"] = "idle" /\ work' = [work EXCEPT !["fallback"] = "done"] /\ UNCHANGED <<used, saved>>
        BY <1>5 DEF ReadFails, Step
    <2>2. Len(result') <= Sent("callback")' + Sent("fallback")'
        BY <1>1, <1>5, SendTyped DEF ReadFails, Outcome
    <2> QED
        BY <1>1, <2>1, <2>2
<1>6. CASE TakeOutcome
    <2>1. UNCHANGED <<work, used, saved>> /\ result' = Tail(result) /\ result # <<>>
        BY <1>6 DEF TakeOutcome
    <2>2. Len(result') = Len(result) - 1 /\ Len(result) \in Nat
        BY <1>1, <2>1
    <2>3. \A v \in Validator : Sent(v) \in {0, 1} /\ Sent(v)' = Sent(v)
        BY <2>1 DEF Sent
    <2> QED
        BY <1>1, <2>1, <2>2, <2>3
<1>7. CASE Exit
    <2>1. work' = [v \in Validator |-> "idle"] /\ saved' = FALSE /\ result' = <<>>
        BY <1>7 DEF Exit
    <2> QED
        BY <2>1 DEF Sent
<1>8. ASSUME NEW v \in Validator, Receive(v) PROVE GateInv'
    <2>1. ~used /\ used' /\ work[v] = "idle" /\ work' = [work EXCEPT ![v] = "validating"] /\ UNCHANGED <<saved, result>>
        BY <1>8 DEF Receive, Step
    <2>2. \A w \in Validator : Sent(w)' = Sent(w)
        BY <1>1, <2>1 DEF Sent
    <2> QED
        BY <1>1, <2>1, <2>2
<1>9. ASSUME NEW v \in Validator, Validated(v) PROVE GateInv'
    <2>1. work[v] = "validating" /\ work' = [work EXCEPT ![v] = "checked"] /\ UNCHANGED <<used, saved, result>>
        BY <1>9 DEF Validated, Step
    <2>2. \A w \in Validator : Sent(w)' = Sent(w)
        BY <1>1, <2>1 DEF Sent
    <2> QED
        BY <1>1, <2>1, <2>2
<1>10. ASSUME NEW v \in Validator, ValidationFails(v) PROVE GateInv'
    <2>1. work[v] = "validating" /\ work' = [work EXCEPT ![v] = "done"] /\ UNCHANGED <<used, saved>>
        BY <1>10 DEF ValidationFails, Step
    <2>2. Len(result') <= Sent("callback")' + Sent("fallback")'
        BY <1>1, <1>10, SendTyped DEF ValidationFails, Outcome
    <2> QED
        BY <1>1, <2>1, <2>2
<1>11. ASSUME NEW v \in Validator, SaveSession(v) PROVE GateInv'
    <2>1. work[v] = "checked" /\ work' = [work EXCEPT ![v] = "done"] /\ UNCHANGED used
        BY <1>11 DEF SaveSession, Step
    <2>2. Len(result') <= Sent("callback")' + Sent("fallback")'
        BY <1>1, <1>11, SendTyped DEF SaveSession, Outcome
    <2>3. used /\ ~AtWork("callback")' /\ ~AtWork("fallback")'
        BY <1>1, <2>1
    <2> QED
        BY <1>1, <2>1, <2>2, <2>3
<1> QED
    BY <1>2, <1>3, <1>4, <1>5, <1>6, <1>7, <1>8, <1>9, <1>10, <1>11
    DEF Next, LoginNext, Validate, vars, attempt

-----------------------------------------------------------------------------
(* Results *)

\* The invariant holds in every state of every behaviour.
THEOREM SessionInvariance == Spec => []IInv
<1>1. IInv /\ [Next]_vars => IInv'
    BY TypeStep, GivenStep, LockStep, HoldStep, CauseStep, RetiredStep, GateStep DEF IInv
<1> QED
    BY InitIInv, <1>1, PTL DEF Spec

\* Who refreshes is alone, with the mutex and a session that can be renewed; the lock of
\* the state directory is an attempt's as long as it goes on (session.go:99-160, login.go:119-268).
THEOREM RefreshesAlone == Spec => [](LockInv /\ HoldInv)
<1>1. IInv => LockInv /\ HoldInv
    BY DEF IInv
<1> QED
    BY SessionInvariance, <1>1, PTL

\* A session of v0.151.0 ends for cause only, in memory and on disk, whatever answers are
\* lost and whenever the process ends (session.go:61-160).
THEOREM SessionIsSound == Spec => []SessionSound
<1>1. IInv => SessionSound
    BY DEF IInv, CauseInv, SessionSound
<1> QED
    BY SessionInvariance, <1>1, PTL

\* A refresh token that a rotating server may have retired is not presented again, by
\* whatever caller and across restarts: none is in a usable session, and the file that
\* holds one says that its refresh was open (session.go:61-74, 115-140).
THEOREM SpentIsNotPresented == Spec => SpentNotPresented
<1>1. IInv /\ [Next]_vars =>
        [\A c \in Caller :
            rotating /\ pc[c] # "refresh" /\ pc'[c] = "refresh" => data.refresh \notin spent]_sessionVars
    <2> SUFFICES ASSUME IInv, Next, NEW c \in Caller, rotating, pc[c] # "refresh", pc'[c] = "refresh"
                 PROVE  data.refresh \notin spent
        BY DEF vars
    <2>1. pc \in [Caller -> Position] /\ RetiredInv
        BY DEF IInv, TypeOK, SessionTypeOK
    <2>2. ~LoginNext
        BY LoginFrame DEF calls
    <2>3. \A d \in Caller : ~MarkRefresh(d) /\ CallStep(d) => \E p \in Position \ {"refresh"} : pc' = [pc EXCEPT ![d] = p]
        BY DEF CallStep, Call, TokenAtOnce, MarkFails, RefreshReturns, Renew, RenewUnsaved, RenewUnusable,
           RenewRefused, RenewLost, RenewLostUnsaved, Answered, Unauthorized, Expire, At, Return, CallWith, Position
    <2>4. Import \/ Start \/ End \/ TokenAges \/ PauseEnds => pc' = pc \/ pc' = [d \in Caller |-> "idle"]
        BY DEF Import, Start, End, TokenAges, PauseEnds, calls
    <2>5. \E d \in Caller : MarkRefresh(d)
        BY <2>1, <2>2, <2>3, <2>4 DEF Next, SessionNext
    <2> QED
        BY <2>1, <2>5 DEF MarkRefresh, Renewable, RetiredInv
<1> QED
    BY SessionInvariance, <1>1, PTL DEF Spec, SpentNotPresented

\* A usable session ends in the step of a caller that renews it, or that comes back with
\* the 401 of the very token in place (session.go:90-98).
THEOREM OldRejectionsHarmless == Spec => OldRejectionHarmless
<1>1. IInv /\ [Next]_vars =>
        [Usable /\ data' # NoSession /\ data'.expired =>
            \E c \in Caller :
                /\ pc'[c] = "idle"
                /\ pc[c] \in {"token", "refresh"} \/ (pc[c] = "rejected" /\ held[c] = data.access)]_sessionVars
    <2> SUFFICES ASSUME IInv, Next, Usable, data' # NoSession, data'.expired
                 PROVE  \E c \in Caller :
                            /\ pc'[c] = "idle"
                            /\ pc[c] \in {"token", "refresh"} \/ (pc[c] = "rejected" /\ held[c] = data.access)
        BY DEF vars
    <2>1. pc \in [Caller -> Position] /\ HoldInv /\ data \in SessionData
        BY DEF IInv, TypeOK, SessionTypeOK, Usable
    <2>2. data' # data
        BY DEF Usable
    <2>3. ~(Import \/ Start \/ End \/ TokenAges \/ PauseEnds) /\ ~LoginNext
        BY <2>1, <2>2, LoginFrame DEF Import, Start, End, TokenAges, PauseEnds, session, HoldInv, Usable
    <2>4. PICK c \in Caller : CallStep(c)
        BY <2>3 DEF Next, SessionNext
    <2>5. CASE MarkFails(c) \/ RenewUnsaved(c) \/ RenewUnusable(c) \/ RenewRefused(c) \/ RenewLost(c)
               \/ RenewLostUnsaved(c)
        BY <2>1, <2>5 DEF MarkFails, RenewUnsaved, Renews, RenewUnusable, RenewRefused, RenewLost,
           RenewLostUnsaved, Return
    <2>6. CASE Expire(c)
        BY <2>1, <2>2, <2>6 DEF Expire, Return
    <2>7. ~MarkRefresh(c)
        <3>1. MarkRefresh(c) => data' = [data EXCEPT !.pending = TRUE]
            BY DEF MarkRefresh
        <3>2. [data EXCEPT !.pending = TRUE].expired = data.expired
            BY <2>1 DEF SessionData
        <3> QED
            BY <3>1, <3>2 DEF Usable
    <2>8. ~Renew(c)
        BY DEF Renew, Renewed
    <2>9. ~(Call(c) \/ TokenAtOnce(c) \/ Answered(c) \/ Unauthorized(c))
        BY <2>2 DEF Call, TokenAtOnce, Answered, Unauthorized, session
    <2> QED
        BY <2>4, <2>5, <2>6, <2>7, <2>8, <2>9 DEF CallStep, RefreshReturns
<1> QED
    BY SessionInvariance, <1>1, PTL DEF Spec, OldRejectionHarmless

\* One attempt saves one session, in whatever order the callback and the paste come to the
\* gate (login.go:199-260, 270-316).
THEOREM OneIsSaved == Spec => SavesOnce
<1>1. IInv /\ [Next]_vars =>
        [\A v \in Validator : work[v] = "checked" /\ work'[v] = "done" => ~saved]_vars
    BY DEF IInv, GateInv, AtWork
<1> QED
    BY SessionInvariance, <1>1, PTL DEF Spec, SavesOnce
=============================================================================
