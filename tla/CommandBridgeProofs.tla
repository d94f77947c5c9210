------------------------- MODULE CommandBridgeProofs -------------------------
(***************************************************************************)
(* For any callers, lives of tokens, pauses and widths of a duration: a    *)
(* fresh token of the machine client is kept, and a rejected one is not    *)
(* used again.  The argument: nobody logs in over a fresh token, because   *)
(* the mutex is held from the look at it to the answer (LoginInv), and the *)
(* token of the client is never one that a caller has invalidated          *)
(* (TokenInv).                                                             *)
(*                                                                         *)
(* For any projects and slots besides: every step of a command is one of   *)
(* the machine client or leaves it alone, so the same holds below the      *)
(* commands; and CommandsSound holds.  What makes it inductive is what is  *)
(* known of a command at work: its copy of the projects was permitted at   *)
(* some moment, its project is in the copy, and nothing of it has been     *)
(* carried out before it is answered (CommandInv).                         *)
(***************************************************************************)
EXTENDS CommandBridge, FiniteSetTheorems, TLAPS

-----------------------------------------------------------------------------
(* The machine client *)

\* Who logs in holds the mutex, and had no fresh token then.
LoginInv ==
    /\ \A c \in Caller : pc[c] = "login" => mu = c
    /\ mu # NoCaller => pc[mu] = "login" /\ ~Fresh

\* A request that was sent carried a token, once or twice; none of those rejected is
\* the client's.
TokenInv ==
    /\ \A c \in Caller : pc[c] \in {"sent", "rejected", "repeated"} => held[c] # 0
    /\ \A c \in Caller : /\ pc[c] = "idle" => sends[c] = 0
                         /\ pc[c] \in {"token", "login"} => sends[c] \in 0..1
    /\ token \notin invalid

ClientInv == TypeOK /\ LoginInv /\ TokenInv

-----------------------------------------------------------------------------
(* Durations *)

\* 2^n counts the subsets of a set of n elements, so it is not 0.
LEMMA PowerIsPositive == \A n \in Nat : 2^n \in Nat \ {0}
<1> SUFFICES ASSUME NEW n \in Nat PROVE 2^n \in Nat \ {0}
    OBVIOUS
<1>1. IsFiniteSet(1..n) /\ Cardinality(1..n) = n
    BY FS_Interval
<1>2. IsFiniteSet(SUBSET (1..n)) /\ Cardinality(SUBSET (1..n)) = 2^n
    BY <1>1, FS_SUBSET
<1>3. SUBSET (1..n) # {}
    OBVIOUS
<1> QED
    BY <1>2, <1>3, FS_CardinalityType, FS_EmptySet

\* However a product wraps, a refresh time is a number (client.go:263-268).
LEMMA RefreshIsInt == \A life \in Lifetime : life \in Nat \ {0} /\ RefreshAfter(life) \in Int
<1> SUFFICES ASSUME NEW life \in Lifetime PROVE life \in Nat \ {0} /\ RefreshAfter(life) \in Int
    OBVIOUS
<1> DEFINE half == 2^(Width - 1)
           whole == 2^Width
<1>1. half \in Nat \ {0} /\ whole \in Nat \ {0}
    <2>1. Width - 1 \in Nat /\ Width \in Nat
        BY ClientAssumption
    <2> QED
        BY <2>1, PowerIsPositive
<1>2. life \in Nat \ {0}
    <2>1. life \in 1..half - 1
        BY ClientAssumption
    <2> HIDE DEF half
    <2> QED
        BY <1>1, <2>1
<1>3. Wrapped(life * 8) \in Int
    <2>1. Wrapped(life * 8) = ((life * 8 + half) % whole) - half
        BY DEF Wrapped
    <2> HIDE DEF half, whole
    <2>2. life * 8 + half \in Int
        BY <1>1, <1>2
    <2>3. \A x \in Int, q \in Nat \ {0} : x % q \in Int
        OBVIOUS
    <2>4. (life * 8 + half) % whole \in Int
        BY <1>1, <2>2, <2>3
    <2> QED
        BY <1>1, <2>1, <2>4
<1>4. \A x \in Int : Quotient(x, 10) \in Int
    BY DEF Quotient
<1> QED
    BY <1>2, <1>3, <1>4 DEF RefreshAfter

-----------------------------------------------------------------------------
(* The inductive step *)

LEMMA InitClient == Init => ClientInv
<1> SUFFICES ASSUME Init PROVE ClientInv
    OBVIOUS
<1>1. now \in 0..MaxTime /\ requests \in 0..MaxRequests
    BY ClientAssumption DEF Init
<1>2. asked \in [Caller -> 0..MaxTime] /\ sends \in [Caller -> 0..2]
    BY ClientAssumption DEF Init
<1>3. token \in 0..granted /\ held \in [Caller -> 0..granted] /\ granted \in Nat
    BY DEF Init
<1>4. TypeOK
    <2>1. refreshAt \in Int /\ expiresAt \in Nat /\ retryAt \in Nat /\ invalid \subseteq 1..granted
        BY DEF Init
    <2>2. /\ mu \in Caller \cup {NoCaller} /\ authRevoked \in BOOLEAN
          /\ pc \in [Caller -> Position] /\ method \in [Caller -> {"GET", "write"}]
        BY DEF Init, Position
    <2> QED
        BY <1>1, <1>2, <1>3, <2>1, <2>2 DEF TypeOK
<1>5. LoginInv /\ TokenInv
    BY DEF Init, LoginInv, TokenInv
<1> QED
    BY <1>4, <1>5 DEF ClientInv

\* What a request does to the variables of its caller keeps their types.
LEMMA SendTyped ==
    ASSUME TypeOK, NEW c \in Caller, NEW t \in 0..granted', SendWith(c, t),
           sends[c] \in 0..1, granted' \in Nat, granted <= granted'
    PROVE  /\ pc' \in [Caller -> Position] /\ method' \in [Caller -> {"GET", "write"}]
           /\ held' \in [Caller -> 0..granted'] /\ sends' \in [Caller -> 0..2]
<1>1. pc' \in [Caller -> Position] /\ method' \in [Caller -> {"GET", "write"}]
    BY DEF SendWith, TypeOK, Position
<1>2. sends' \in [Caller -> 0..2]
    BY DEF SendWith, TypeOK
<1>3. held \in [Caller -> 0..granted']
    BY DEF TypeOK
<1>4. held' \in [Caller -> 0..granted']
    BY <1>3 DEF SendWith
<1> QED
    BY <1>1, <1>2, <1>4

LEMMA ReturnTyped ==
    ASSUME TypeOK, NEW c \in Caller, Return(c), UNCHANGED granted
    PROVE  /\ pc' \in [Caller -> Position] /\ method' \in [Caller -> {"GET", "write"}]
           /\ held' \in [Caller -> 0..granted'] /\ sends' \in [Caller -> 0..2]
<1>1. pc' \in [Caller -> Position] /\ method' \in [Caller -> {"GET", "write"}]
    BY DEF Return, TypeOK, Position
<1>2. sends' \in [Caller -> 0..2] /\ held' \in [Caller -> 0..granted']
    BY DEF Return, TypeOK
<1> QED
    BY <1>1, <1>2

\* Types, action by action.
LEMMA TypeStep == ClientInv /\ [Next]_vars => TypeOK'
<1> SUFFICES ASSUME ClientInv, [Next]_vars PROVE TypeOK'
    OBVIOUS
<1> USE DEF ClientInv
<1>1. CASE UNCHANGED vars
    BY <1>1 DEF TypeOK, vars, credential, latches, call, world
<1>2. CASE Tick
    <2>1. now' \in 0..MaxTime
        BY <1>2, ClientAssumption DEF Tick, TypeOK
    <2> QED
        BY <1>2, <2>1 DEF Tick, TypeOK, credential, latches, call
<1>3. ASSUME NEW c \in Caller, Request(c) PROVE TypeOK'
    <2>1. requests' \in 0..MaxRequests
        BY <1>3, ClientAssumption DEF Request, TypeOK
    <2>2. pc' \in [Caller -> Position] /\ method' \in [Caller -> {"GET", "write"}]
        BY <1>3 DEF Request, TypeOK, Position
    <2> QED
        BY <1>3, <2>1, <2>2 DEF Request, TypeOK, credential, latches
<1>4. ASSUME NEW c \in Caller, AccessToken(c) PROVE TypeOK'
    <2>1. UNCHANGED <<credential, latches, world, granted, invalid>> /\ pc[c] = "token"
        BY <1>4 DEF AccessToken
    <2>2. sends[c] \in 0..1 /\ token \in 0..granted' /\ granted' \in Nat /\ granted <= granted'
        BY <2>1 DEF TokenInv, TypeOK
    <2>3. CASE SendWith(c, token) /\ NoLogin
        BY <2>1, <2>2, <2>3, SendTyped DEF NoLogin, TypeOK, credential, latches, world
    <2>4. CASE Return(c) /\ NoLogin
        BY <2>1, <2>4, ReturnTyped DEF NoLogin, TypeOK, credential, latches, world
    <2>5. CASE StartLogin(c)
        <3>1. pc' \in [Caller -> Position] /\ mu' \in Caller /\ asked' \in [Caller -> 0..MaxTime]
            BY <2>5 DEF StartLogin, TypeOK, Position
        <3> QED
            BY <2>1, <2>5, <3>1 DEF StartLogin, TypeOK, credential, latches, world, call
    <2> QED
        BY <1>4, <2>3, <2>4, <2>5 DEF AccessToken
<1>5. ASSUME NEW c \in Caller, LoginReturns(c) PROVE TypeOK'
    <2>1. pc[c] = "login" /\ Unlock(c)
        BY <1>5 DEF LoginReturns, LoginGranted, LoginRefused, LoginUnavailable, LoginInvalid
    <2>2. mu' = NoCaller /\ asked' \in [Caller -> 0..MaxTime] /\ UNCHANGED <<world, invalid>>
        BY <2>1, ClientAssumption DEF Unlock, TypeOK
    <2>3. sends[c] \in 0..1 /\ asked[c] \in Nat /\ token \in 0..granted /\ granted \in Nat
        BY <2>1 DEF TokenInv, TypeOK
    <2>4. CASE LoginGranted(c)
        <3>1. granted' = granted + 1 /\ token' = granted' /\ SendWith(c, token')
            BY <2>4 DEF LoginGranted
        <3>2. granted' \in Nat /\ granted <= granted' /\ token' \in 0..granted'
            BY <2>3, <3>1
        <3>3. refreshAt' \in Int /\ expiresAt' \in Nat
            <4>1. PICK life \in Lifetime :
                    refreshAt' = asked[c] + RefreshAfter(life) /\ expiresAt' = asked[c] + life
                BY <2>4 DEF LoginGranted
            <4> QED
                BY <2>3, <4>1, RefreshIsInt
        <3>4. retryAt' \in Nat /\ authRevoked' \in BOOLEAN
            BY <2>4 DEF LoginGranted, TypeOK
        <3>5. invalid' \subseteq 1..granted'
            BY <2>2, <2>3, <3>1 DEF TypeOK
        <3> QED
            BY <2>2, <2>3, <3>1, <3>2, <3>3, <3>4, <3>5, SendTyped DEF TypeOK, world
    <2>5. CASE LoginRefused(c)
        BY <2>2, <2>5, ReturnTyped DEF LoginRefused, TypeOK, credential, world
    <2>6. CASE LoginUnavailable(c)
        <3>1. retryAt' \in Nat
            BY <2>3, <2>6, ClientAssumption DEF LoginUnavailable
        <3>2. UNCHANGED <<credential, authRevoked, granted>>
            BY <2>6 DEF LoginUnavailable
        <3>3. token \in 0..granted' /\ granted' \in Nat /\ granted <= granted'
            BY <2>3, <3>2
        <3>4. SendWith(c, token) \/ Return(c)
            BY <2>6 DEF LoginUnavailable
        <3>5. /\ pc' \in [Caller -> Position] /\ method' \in [Caller -> {"GET", "write"}]
              /\ held' \in [Caller -> 0..granted'] /\ sends' \in [Caller -> 0..2]
            BY <2>3, <3>2, <3>3, <3>4, SendTyped, ReturnTyped
        <3> QED
            BY <2>2, <3>1, <3>2, <3>5 DEF TypeOK, credential, world
    <2>7. CASE LoginInvalid(c)
        BY <2>2, <2>7, ReturnTyped DEF LoginInvalid, TypeOK, credential, latches, world
    <2> QED
        BY <1>5, <2>4, <2>5, <2>6, <2>7 DEF LoginReturns
<1>6. ASSUME NEW c \in Caller, Answered(c) PROVE TypeOK'
    BY <1>6, ReturnTyped DEF Answered, TypeOK, credential, latches, world
<1>7. ASSUME NEW c \in Caller, Unauthorized(c) PROVE TypeOK'
    BY <1>7 DEF Unauthorized, TypeOK, Position, credential, latches, world, call
<1>8. ASSUME NEW c \in Caller, Invalidate(c) PROVE TypeOK'
    <2>1. pc' \in [Caller -> Position]
        BY <1>8 DEF Invalidate, TypeOK, Position
    <2>2. token' \in 0..granted' /\ refreshAt' \in Int /\ expiresAt' \in Nat
        BY <1>8 DEF Invalidate, ForgetToken, TypeOK, credential
    <2>3. invalid' \subseteq 1..granted'
        <3>1. held[c] \in 0..granted /\ held[c] # 0 /\ granted' = granted /\ granted \in Nat
            BY <1>8 DEF Invalidate, TokenInv, TypeOK
        <3>2. held[c] \in 1..granted
            BY <3>1
        <3> QED
            BY <1>8, <3>1, <3>2 DEF Invalidate, TypeOK
    <2> QED
        BY <1>8, <2>1, <2>2, <2>3 DEF Invalidate, TypeOK, latches, call, world
<1>9. ASSUME NEW c \in Caller, PauseAfter401(c) PROVE TypeOK'
    <2>1. UNCHANGED <<mu, authRevoked, asked, world, granted, invalid>> /\ Return(c)
        BY <1>9 DEF PauseAfter401
    <2>2. token' \in 0..granted' /\ refreshAt' \in Int /\ expiresAt' \in Nat /\ retryAt' \in Nat
        BY <1>9, ClientAssumption DEF PauseAfter401, ForgetToken, TypeOK, credential
    <2> QED
        BY <2>1, <2>2, ReturnTyped DEF TypeOK, world
<1> QED
    BY <1>1, <1>2, <1>3, <1>4, <1>5, <1>6, <1>7, <1>8, <1>9 DEF Next, Handle

\* The mutex, action by action.
LEMMA LoginStep == ClientInv /\ [Next]_vars => LoginInv'
<1> SUFFICES ASSUME ClientInv, [Next]_vars PROVE LoginInv'
    OBVIOUS
<1> USE DEF ClientInv
<1>0. pc \in [Caller -> Position] /\ mu \in Caller \cup {NoCaller} /\ NoCaller \notin Caller
    BY ClientAssumption DEF TypeOK
<1>1. CASE UNCHANGED vars
    BY <1>1 DEF LoginInv, Fresh, vars, credential, world
<1>2. CASE Tick
    <2>1. UNCHANGED <<mu, credential, pc>> /\ now' = now + 1
        BY <1>2 DEF Tick
    <2>2. now \in Int /\ refreshAt \in Int
        BY ClientAssumption DEF TypeOK
    <2>3. ~Fresh => ~Fresh'
        BY <2>1, <2>2 DEF Fresh, credential
    <2> QED
        BY <2>1, <2>3 DEF LoginInv
<1>3. ASSUME NEW c \in Caller, Request(c) PROVE LoginInv'
    BY <1>0, <1>3 DEF Request, LoginInv, Fresh, credential
<1>4. ASSUME NEW c \in Caller, AccessToken(c) PROVE LoginInv'
    <2>1. mu = NoCaller /\ UNCHANGED <<credential, world>> /\ \A d \in Caller : pc[d] # "login"
        BY <1>0, <1>4 DEF AccessToken, LoginInv
    <2>2. CASE (SendWith(c, token) \/ Return(c)) /\ NoLogin
        BY <1>0, <2>1, <2>2 DEF SendWith, Return, NoLogin, LoginInv
    <2>3. CASE StartLogin(c) /\ ~Fresh
        BY <1>0, <2>1, <2>3 DEF StartLogin, LoginInv, Fresh, credential, world
    <2> QED
        BY <1>4, <2>2, <2>3 DEF AccessToken
<1>5. ASSUME NEW c \in Caller, LoginReturns(c) PROVE LoginInv'
    <2>1. pc[c] = "login" /\ mu' = NoCaller /\ \E t : SendWith(c, t) \/ Return(c)
        BY <1>5 DEF LoginReturns, LoginGranted, LoginRefused, LoginUnavailable, LoginInvalid, Unlock
    <2>2. pc' = [pc EXCEPT ![c] = "sent"] \/ pc' = [pc EXCEPT ![c] = "idle"]
        BY <2>1 DEF SendWith, Return
    <2>3. \A d \in Caller : pc'[d] # "login"
        BY <1>0, <2>1, <2>2 DEF LoginInv
    <2> QED
        BY <2>1, <2>3 DEF LoginInv
<1>6. ASSUME NEW c \in Caller, Answered(c) PROVE LoginInv'
    BY <1>0, <1>6 DEF Answered, Return, LoginInv, Fresh, credential, world
<1>7. ASSUME NEW c \in Caller, Unauthorized(c) PROVE LoginInv'
    BY <1>0, <1>7 DEF Unauthorized, LoginInv, Fresh, credential, world
<1>8. ASSUME NEW c \in Caller, Invalidate(c) \/ PauseAfter401(c) PROVE LoginInv'
    <2>1. mu = NoCaller /\ mu' = NoCaller /\ \A d \in Caller : pc[d] # "login"
        BY <1>0, <1>8 DEF Invalidate, PauseAfter401, LoginInv
    <2>2. \E to \in {"token", "repeated", "idle"} : pc' = [pc EXCEPT ![c] = to]
        BY <1>8 DEF Invalidate, PauseAfter401, Return
    <2> QED
        BY <1>0, <2>1, <2>2 DEF LoginInv
<1> QED
    BY <1>1, <1>2, <1>3, <1>4, <1>5, <1>6, <1>7, <1>8 DEF Next, Handle

\* Tokens, action by action.
LEMMA TokenStep == ClientInv /\ [Next]_vars => TokenInv'
<1> SUFFICES ASSUME ClientInv, [Next]_vars PROVE TokenInv'
    OBVIOUS
<1> USE DEF ClientInv
<1>0. /\ pc \in [Caller -> Position] /\ held \in [Caller -> 0..granted] /\ sends \in [Caller -> 0..2]
      /\ granted \in Nat /\ invalid \subseteq 1..granted
    BY DEF TypeOK
<1>1. CASE UNCHANGED vars \/ Tick
    BY <1>1 DEF TokenInv, Tick, vars, credential, call
<1>2. ASSUME NEW c \in Caller, NEW t, t # 0, SendWith(c, t), pc[c] \in {"token", "login"},
             token' \notin invalid'
      PROVE  TokenInv'
    BY <1>0, <1>2 DEF SendWith, TokenInv
<1>3. ASSUME NEW c \in Caller, Return(c), token' \notin invalid' PROVE TokenInv'
    BY <1>0, <1>3 DEF Return, TokenInv
<1>4. ASSUME NEW c \in Caller, Request(c) PROVE TokenInv'
    BY <1>0, <1>4 DEF Request, TokenInv, credential
<1>5. ASSUME NEW c \in Caller, AccessToken(c) PROVE TokenInv'
    <2>1. UNCHANGED <<token, invalid>> /\ pc[c] = "token" /\ token' \notin invalid'
        BY <1>5 DEF AccessToken, TokenInv, credential
    <2>2. CASE Fresh /\ SendWith(c, token)
        BY <1>2, <2>1, <2>2 DEF Fresh
    <2>3. CASE Unexpired(now) /\ SendWith(c, token)
        BY <1>2, <2>1, <2>3 DEF Unexpired
    <2>4. CASE Return(c)
        BY <1>3, <2>1, <2>4
    <2>5. CASE StartLogin(c)
        BY <1>0, <2>1, <2>5 DEF StartLogin, TokenInv, call
    <2> QED
        BY <1>5, <2>2, <2>3, <2>4, <2>5 DEF AccessToken
<1>6. ASSUME NEW c \in Caller, LoginReturns(c) PROVE TokenInv'
    <2>1. pc[c] = "login" /\ UNCHANGED invalid
        BY <1>6 DEF LoginReturns, LoginGranted, LoginRefused, LoginUnavailable, LoginInvalid, Unlock
    <2>2. CASE LoginGranted(c)
        <3>1. token' = granted + 1 /\ SendWith(c, token')
            BY <2>2 DEF LoginGranted
        <3>2. token' # 0 /\ token' \notin invalid'
            BY <1>0, <2>1, <3>1
        <3> QED
            BY <1>2, <2>1, <3>1, <3>2
    <2>3. CASE LoginUnavailable(c)
        <3>1. UNCHANGED token /\ token' \notin invalid'
            BY <2>1, <2>3 DEF LoginUnavailable, TokenInv, credential
        <3>2. (token # 0 /\ SendWith(c, token)) \/ Return(c)
            BY <2>3 DEF LoginUnavailable, Unexpired
        <3> QED
            BY <1>2, <1>3, <2>1, <3>1, <3>2
    <2>4. CASE LoginRefused(c) \/ LoginInvalid(c)
        <3>1. token' \notin invalid' /\ Return(c)
            BY <2>1, <2>4 DEF LoginRefused, LoginInvalid, TokenInv, credential
        <3> QED
            BY <1>3, <3>1
    <2> QED
        BY <1>6, <2>2, <2>3, <2>4 DEF LoginReturns
<1>7. ASSUME NEW c \in Caller, Answered(c) PROVE TokenInv'
    BY <1>3, <1>7 DEF Answered, TokenInv, credential
<1>8. ASSUME NEW c \in Caller, Unauthorized(c) PROVE TokenInv'
    BY <1>0, <1>8 DEF Unauthorized, TokenInv, credential, call
<1>9. ASSUME NEW c \in Caller, Invalidate(c) PROVE TokenInv'
    <2>1. pc[c] = "rejected" /\ held[c] # 0 /\ UNCHANGED call /\ invalid' = invalid \cup {held[c]}
        BY <1>9 DEF Invalidate, TokenInv
    <2>2. token' \notin invalid'
        <3>1. CASE token = held[c]
            <4>1. token' = 0 /\ 0 \notin invalid
                BY <1>0, <1>9, <3>1 DEF Invalidate, ForgetToken
            <4> QED
                BY <2>1, <4>1
        <3>2. CASE token # held[c]
            BY <1>9, <2>1, <3>2 DEF Invalidate, TokenInv, credential
        <3> QED
            BY <3>1, <3>2
    <2>3. (pc' = [pc EXCEPT ![c] = "token"] /\ sends[c] = 1) \/ pc' = [pc EXCEPT ![c] = "repeated"]
        BY <1>9 DEF Invalidate
    <2> QED
        BY <1>0, <2>1, <2>2, <2>3 DEF TokenInv, call
<1>10. ASSUME NEW c \in Caller, PauseAfter401(c) PROVE TokenInv'
    <2>1. Return(c) /\ UNCHANGED invalid /\ token' \in {0, token}
        BY <1>10 DEF PauseAfter401, ForgetToken, credential
    <2>2. token' \notin invalid'
        BY <1>0, <2>1 DEF TokenInv
    <2> QED
        BY <1>3, <2>1, <2>2
<1> QED
    BY <1>1, <1>4, <1>5, <1>6, <1>7, <1>8, <1>9, <1>10 DEF Next, Handle

-----------------------------------------------------------------------------
(* Theorems *)

\* The inductive invariant of the client.
THEOREM ClientInvariance == Spec => []ClientInv
<1>1. ClientInv /\ [Next]_vars => ClientInv'
    BY TypeStep, LoginStep, TokenStep DEF ClientInv
<1> QED
    BY InitClient, <1>1, PTL DEF Spec

\* A fresh token leaves the client only after a caller has had that very token
\* rejected (client.go:138-274).
THEOREM FreshTokensKept == Spec => FreshTokenKept
<1> DEFINE Kept == Fresh /\ token' # token =>
               \E c \in Caller : pc[c] \in {"rejected", "repeated"} /\ held[c] = token
<1>1. ClientInv /\ [Next]_vars => [Kept]_vars
    <2> SUFFICES ASSUME ClientInv, [Next]_vars, Fresh, token' # token
                 PROVE  \E c \in Caller : pc[c] \in {"rejected", "repeated"} /\ held[c] = token
        OBVIOUS
    <2>1. ASSUME NEW c \in Caller PROVE ~LoginReturns(c)
        <3>1. pc[c] # "login"
            BY ClientAssumption DEF ClientInv, LoginInv
        <3> QED
            BY <3>1 DEF LoginReturns, LoginGranted, LoginRefused, LoginUnavailable, LoginInvalid
    <2>2. \E c \in Caller : Handle(c)
        BY DEF Next, Tick, vars, credential
    <2>3. PICK c \in Caller : Invalidate(c) \/ PauseAfter401(c)
        BY <2>1, <2>2 DEF Handle, Request, AccessToken, Answered, Unauthorized, credential
    <2> QED
        BY <2>3 DEF Invalidate, PauseAfter401, credential
<1> QED
    BY <1>1, ClientInvariance, PTL DEF Spec, FreshTokenKept

\* A token that some caller has had rejected and invalidated is not sent by a request
\* that asks for a token afterwards (client.go:138-206).
THEOREM RejectedNotReused == Spec => RejectedTokenNotReused
<1> DEFINE NotReused == \A c \in Caller : pc[c] # "sent" /\ pc'[c] = "sent" => held'[c] \notin invalid
<1>1. ClientInv /\ [Next]_vars => [NotReused]_vars
    <2> SUFFICES ASSUME ClientInv, [Next]_vars, NEW c \in Caller, pc[c] # "sent", pc'[c] = "sent"
                 PROVE  held'[c] \notin invalid
        OBVIOUS
    <2>0. /\ pc \in [Caller -> Position] /\ held \in [Caller -> 0..granted]
          /\ granted \in Nat /\ invalid \subseteq 1..granted /\ token \notin invalid
        BY DEF ClientInv, TypeOK, TokenInv
    <2>1. PICK d \in Caller : Handle(d)
        BY DEF Next, Tick, vars
    <2>2. \A t : SendWith(d, t) => held'[d] = t /\ (d # c => pc'[c] = pc[c])
        BY <2>0 DEF SendWith
    <2>3. CASE AccessToken(d)
        <3>1. SendWith(d, token) \/ Return(d) \/ StartLogin(d)
            BY <2>3 DEF AccessToken
        <3>2. SendWith(d, token)
            BY <2>0, <3>1 DEF Return, StartLogin
        <3> QED
            BY <2>0, <2>2, <3>2
    <2>4. CASE LoginReturns(d)
        <3>1. SendWith(d, token) \/ SendWith(d, granted + 1) \/ Return(d)
            BY <2>4 DEF LoginReturns, LoginGranted, LoginRefused, LoginUnavailable, LoginInvalid
        <3>2. SendWith(d, token) \/ SendWith(d, granted + 1)
            BY <2>0, <3>1 DEF Return
        <3>3. granted + 1 \notin invalid
            BY <2>0
        <3> QED
            BY <2>0, <2>2, <3>2, <3>3
    <2>5. CASE Request(d) \/ Answered(d) \/ Unauthorized(d) \/ Invalidate(d) \/ PauseAfter401(d)
        <3>1. \E to \in {"token", "idle", "rejected", "repeated"} : pc' = [pc EXCEPT ![d] = to]
            BY <2>5 DEF Request, Answered, Unauthorized, Invalidate, PauseAfter401, Return
        <3> QED
            BY <2>0, <3>1
    <2> QED
        BY <2>1, <2>3, <2>4, <2>5 DEF Handle
<1> QED
    BY <1>1, ClientInvariance, PTL DEF Spec, RejectedTokenNotReused

-----------------------------------------------------------------------------
(* The commands *)

Executing == {c \in Caller : stage[c] # "free"}

HandlingTypes ==
    /\ program \in {"bridge", "tool"} /\ published \subseteq Project
    /\ stage \in [Caller -> {"free", "executing"}]
    /\ command \in [Caller -> Command \cup {NoCommand}]
    /\ permitted \in [Caller -> SUBSET Project] /\ seen \in [Caller -> SUBSET Project]
    /\ done = [c \in Caller |-> 0]

Bounds == slots \in 0..Slots /\ diagnoses \in 0..MaxDiagnoses /\ changes \in 0..MaxChanges

\* The slots, and that the tool has none.
SlotsInv ==
    /\ IsFiniteSet(Executing)
    /\ slots = IF program = "bridge" THEN diagnoses + Cardinality(Executing) ELSE 0
    /\ program = "tool" => diagnoses = 0

CommandInv ==
    \A c \in Executing :
        /\ permitted[c] \subseteq seen[c]
        /\ command[c].op \in {"project.get", "role.list", "project.update"} =>
               command[c].project \in permitted[c]
        /\ command[c] # NoCommand

AnswerInv ==
    /\ answer.shown \subseteq answer.seen
    /\ answer.done \in 0..1
    /\ answer.told = "applied" => answer.done = 1

BridgeInv ==
    ClientInv /\ HandlingTypes /\ Bounds /\ SlotsInv /\ CommandInv /\ AnswerInv /\ BridgeOnlyReads

-----------------------------------------------------------------------------
(* The client below *)

\* Every step of the bridge, or of the tool, is one of the client or leaves it alone.
LEMMA StepsOfClient == [BridgeNext]_bridgeVars => [Next]_vars
<1> SUFFICES ASSUME [BridgeNext]_bridgeVars PROVE [Next]_vars
    OBVIOUS
<1>1. CASE Change \/ Diagnose \/ Diagnosed \/ UNCHANGED bridgeVars
    BY <1>1 DEF Change, Diagnose, Diagnosed, bridgeVars
<1>2. CASE BridgeTick
    BY <1>2 DEF BridgeTick, Next
<1>3. ASSUME NEW c \in Caller, Execute(c) \/ ClientStep(c) \/ Succeeds(c) \/ Fails(c)
      PROVE  Handle(c)
    BY <1>3 DEF Execute, ClientStep, Succeeds, Fails, Handle
<1> QED
    BY <1>1, <1>2, <1>3 DEF BridgeNext, Next

\* Commands use the client as its specification has it: nobody makes a request but a
\* command, and nothing is done to the client's state beside its steps
\* (commands.go:70-228, client.go:138-274).
THEOREM CommandsUseClient == BridgeSpec => Spec
<1>1. BridgeInit => Init
    BY DEF BridgeInit
<1> QED
    BY <1>1, StepsOfClient, PTL DEF BridgeSpec, Spec

-----------------------------------------------------------------------------
(* The handler *)

LEMMA InitBridge == BridgeInit => BridgeInv
<1> SUFFICES ASSUME BridgeInit PROVE BridgeInv
    OBVIOUS
<1>1. ClientInv /\ BridgeOnlyReads
    BY InitClient DEF BridgeInit, Init, BridgeOnlyReads
<1>2. HandlingTypes
    BY BridgeAssumption DEF BridgeInit, HandlingTypes
<1>3. Bounds
    BY BridgeAssumption DEF BridgeInit, Bounds
<1>4. Executing = {}
    BY DEF BridgeInit, Executing
<1>5. SlotsInv
    <2>1. IsFiniteSet({}) /\ Cardinality({}) = 0
        BY FS_EmptySet
    <2>2. slots = 0 /\ diagnoses = 0
        BY DEF BridgeInit
    <2> QED
        BY <1>4, <2>1, <2>2 DEF SlotsInv
<1>6. CommandInv /\ AnswerInv
    BY <1>4 DEF BridgeInit, CommandInv, AnswerInv, NoAnswer
<1> QED
    BY <1>1, <1>2, <1>3, <1>5, <1>6 DEF BridgeInv

\* Nothing to answer, no slot moved and no command changed.
LEMMA NothingHandled ==
    ASSUME BridgeInv, Continue, UNCHANGED <<program, published, diagnoses, changes>>
    PROVE  (HandlingTypes /\ Bounds /\ SlotsInv /\ CommandInv /\ AnswerInv)'
BY DEF BridgeInv, Continue, HandlingTypes, Bounds, SlotsInv, CommandInv, AnswerInv, Executing,
       NoAnswer

\* A command that is answered gives its slot back.
LEMMA Finished ==
    ASSUME BridgeInv, NEW c \in Executing, NEW told, NEW shown, NEW times,
           Finish(c, told, shown, times), shown \subseteq seen[c], times \in 0..1,
           told = "applied" => times = 1, UNCHANGED <<program, published, diagnoses, changes>>
    PROVE  (HandlingTypes /\ Bounds /\ SlotsInv /\ CommandInv /\ AnswerInv)'
<1> USE DEF BridgeInv
<1>1. c \in Caller /\ Forget(c) /\ GiveBack
    BY DEF Finish, Executing
<1>2. HandlingTypes'
    BY <1>1 DEF Forget, HandlingTypes
<1>3. Executing' = Executing \ {c}
    BY <1>1 DEF Forget, Executing, HandlingTypes
<1>4. IsFiniteSet(Executing') /\ Cardinality(Executing') = Cardinality(Executing) - 1
    BY <1>3, FS_RemoveElement DEF SlotsInv
<1>5. Cardinality(Executing) \in Nat /\ Cardinality(Executing') \in Nat
    BY <1>4, FS_CardinalityType DEF SlotsInv
<1>6. slots' = IF program = "bridge" THEN slots - 1 ELSE slots
    BY <1>1 DEF GiveBack
<1>7. diagnoses \in Nat /\ slots \in Nat /\ slots <= Slots
    BY BridgeAssumption DEF Bounds
<1>8. SlotsInv'
    BY <1>4, <1>5, <1>6, <1>7 DEF SlotsInv
<1>9. Bounds'
    <2>1. CASE program = "bridge"
        <3>1. slots = diagnoses + Cardinality(Executing)
            BY <2>1 DEF SlotsInv
        <3>2. slots' = slots - 1
            BY <1>6, <2>1
        <3>3. slots' \in 0..Slots
            BY <1>4, <1>5, <1>7, <3>1, <3>2, BridgeAssumption
        <3> QED
            BY <3>3 DEF Bounds
    <2>2. CASE program # "bridge"
        BY <1>6, <2>2 DEF Bounds
    <2> QED
        BY <2>1, <2>2
<1>10. CommandInv'
    BY <1>1, <1>3 DEF CommandInv, Forget, Executing, HandlingTypes
<1>11. AnswerInv'
    BY DEF Finish, AnswerInv
<1> QED
    BY <1>2, <1>8, <1>9, <1>10, <1>11

\* A command that passes the checks takes a slot, a copy of the projects and the client.
LEMMA Executed ==
    ASSUME BridgeInv, NEW c \in Caller, Execute(c)
    PROVE  (HandlingTypes /\ Bounds /\ SlotsInv /\ CommandInv /\ AnswerInv /\ BridgeOnlyReads)'
<1> USE DEF BridgeInv
<1>1. PICK m \in Command :
        /\ Allowed(m, published) /\ command' = [command EXCEPT ![c] = m]
        /\ method'[c] = IF Writes(m.op) THEN "write" ELSE "GET"
    BY DEF Execute
<1>2. /\ stage[c] = "free" /\ stage' = [stage EXCEPT ![c] = "executing"]
      /\ permitted' = [permitted EXCEPT ![c] = published]
      /\ seen' = [seen EXCEPT ![c] = published]
      /\ UNCHANGED <<program, published, done, diagnoses, changes>> /\ answer' = NoAnswer
      /\ TakeSlot
    BY DEF Execute
<1>3. HandlingTypes'
    BY <1>1, <1>2 DEF HandlingTypes
<1>4. Executing' = Executing \cup {c} /\ c \notin Executing
    BY <1>2 DEF Executing, HandlingTypes
<1>5. IsFiniteSet(Executing') /\ Cardinality(Executing') = Cardinality(Executing) + 1
    BY <1>4, FS_AddElement DEF SlotsInv
<1>6. Cardinality(Executing) \in Nat /\ diagnoses \in Nat /\ slots \in Nat
    BY FS_CardinalityType, BridgeAssumption DEF SlotsInv, Bounds
<1>7. SlotsInv' /\ Bounds'
    <2>1. CASE program = "bridge"
        <3>1. slots < Slots /\ slots' = slots + 1
            BY <1>2, <2>1 DEF TakeSlot
        <3>2. slots' \in 0..Slots /\ slots' = diagnoses + Cardinality(Executing')
            BY <1>5, <1>6, <2>1, <3>1, BridgeAssumption DEF SlotsInv
        <3> QED
            BY <1>2, <1>5, <2>1, <3>2 DEF SlotsInv, Bounds
    <2>2. CASE program # "bridge"
        BY <1>2, <1>5, <2>2 DEF SlotsInv, Bounds, TakeSlot
    <2> QED
        BY <2>1, <2>2
<1>8. m.op \in {"project.get", "role.list", "project.update"} => m.project \in published
    BY <1>1 DEF Allowed, ReadOperation
<1>9. CommandInv'
    <2>1. m # NoCommand
        BY DEF Command, NoCommand
    <2> QED
        BY <1>1, <1>2, <1>4, <1>8, <2>1 DEF CommandInv, HandlingTypes, Executing
<1>10. AnswerInv'
    BY <1>2 DEF AnswerInv, NoAnswer
<1>11. BridgeOnlyReads'
    <2>1. \A d \in Caller \ {c} : method'[d] = method[d]
        BY DEF Execute, Request, ClientInv, TypeOK
    <2>2. program = "bridge" => ~Writes(m.op)
        BY <1>1 DEF Allowed, ReadOperation, Writes
    <2> QED
        BY <1>1, <1>2, <2>1, <2>2 DEF BridgeOnlyReads
<1> QED
    BY <1>3, <1>7, <1>9, <1>10, <1>11

\* A step of the client makes no write of a read.
LEMMA ReadsStayReads ==
    ASSUME BridgeInv, NEW c \in Caller,
           ClientStep(c) \/ Succeeds(c) \/ Fails(c)
    PROVE  BridgeOnlyReads'
<1>1. method' = method \/ method' = [method EXCEPT ![c] = "GET"]
    BY DEF ClientStep, Succeeds, Fails, AccessToken, SendWith, Return, StartLogin, LoginReturns,
           LoginGranted, LoginRefused, LoginUnavailable, LoginInvalid, Unauthorized, Invalidate,
           PauseAfter401, Answered, call
<1>2. UNCHANGED program
    BY DEF ClientStep, Succeeds, Fails
<1> QED
    BY <1>1, <1>2 DEF BridgeInv, ClientInv, TypeOK, BridgeOnlyReads

\* The inductive step of the handler, action by action.
LEMMA HandlerStep ==
    BridgeInv /\ [BridgeNext]_bridgeVars
        => (HandlingTypes /\ Bounds /\ SlotsInv /\ CommandInv /\ AnswerInv /\ BridgeOnlyReads)'
<1> DEFINE Rest == HandlingTypes /\ Bounds /\ SlotsInv /\ CommandInv /\ AnswerInv
<1> SUFFICES ASSUME BridgeInv, [BridgeNext]_bridgeVars PROVE Rest' /\ BridgeOnlyReads'
    OBVIOUS
<1> USE DEF BridgeInv
<1>1. CASE UNCHANGED bridgeVars
    BY <1>1 DEF HandlingTypes, Bounds, SlotsInv, CommandInv, AnswerInv, Executing, BridgeOnlyReads,
                bridgeVars, vars, bridge, handling, call
<1>2. CASE BridgeTick
    <2>1. Continue /\ UNCHANGED <<program, published, diagnoses, changes, method>>
        BY <1>2 DEF BridgeTick, Tick, Continue, bridge, handling, call
    <2> QED
        BY <2>1, NothingHandled DEF BridgeOnlyReads
<1>3. CASE Change
    <2>1. PICK projects \in SUBSET Project :
            seen' = [c \in Caller |-> IF stage[c] = "free" THEN seen[c] ELSE seen[c] \cup projects]
        BY <1>3 DEF Change
    <2>2. /\ published' \subseteq Project /\ changes < MaxChanges /\ changes' = changes + 1
          /\ answer' = NoAnswer
          /\ UNCHANGED <<vars, program, slots, diagnoses, stage, command, permitted, done>>
        BY <1>3 DEF Change
    <2>3. changes' \in 0..MaxChanges
        BY <2>2, BridgeAssumption DEF Bounds
    <2>4. HandlingTypes' /\ Bounds' /\ SlotsInv' /\ AnswerInv'
        BY <2>1, <2>2, <2>3 DEF HandlingTypes, Bounds, SlotsInv, AnswerInv, NoAnswer, Executing
    <2>5. CommandInv'
        BY <2>1, <2>2 DEF CommandInv, Executing
    <2>6. BridgeOnlyReads'
        BY <2>2 DEF BridgeOnlyReads, vars, call
    <2> QED
        BY <2>4, <2>5, <2>6
<1>4. CASE Diagnose \/ Diagnosed
    <2>1. answer' = NoAnswer /\ UNCHANGED <<vars, program, published, changes, handling>>
        BY <1>4 DEF Diagnose, Diagnosed
    <2>2. program = "bridge"
        BY <1>4 DEF Diagnose, Diagnosed, SlotsInv, HandlingTypes
    <2>3. Cardinality(Executing) \in Nat /\ slots = diagnoses + Cardinality(Executing)
        BY <2>2, FS_CardinalityType DEF SlotsInv
    <2>4. \/ slots < Slots /\ slots' = slots + 1 /\ diagnoses < MaxDiagnoses /\ diagnoses' = diagnoses + 1
          \/ diagnoses > 0 /\ slots' = slots - 1 /\ diagnoses' = diagnoses - 1
        BY <1>4, <2>2 DEF Diagnose, Diagnosed, TakeSlot, GiveBack
    <2>5. /\ slots' \in 0..Slots /\ diagnoses' \in 0..MaxDiagnoses
          /\ slots' = diagnoses' + Cardinality(Executing)
        BY <2>3, <2>4, BridgeAssumption DEF Bounds
    <2>6. Executing' = Executing
        BY <2>1 DEF handling, Executing
    <2> QED
        BY <2>1, <2>2, <2>5, <2>6 DEF HandlingTypes, Bounds, SlotsInv, CommandInv, AnswerInv, NoAnswer,
                                      BridgeOnlyReads, Executing, handling, vars, call
<1>5. ASSUME NEW c \in Caller, Execute(c) PROVE Rest' /\ BridgeOnlyReads'
    BY <1>5, Executed
<1>6. ASSUME NEW c \in Caller, ClientStep(c) \/ Succeeds(c) \/ Fails(c)
      PROVE  Rest' /\ BridgeOnlyReads'
    <2>1. c \in Executing /\ UNCHANGED <<program, published, diagnoses, changes>> /\ done[c] = 0
        BY <1>6 DEF ClientStep, Succeeds, Fails, Executing, HandlingTypes
    <2>2. CASE Continue
        BY <1>6, <2>1, <2>2, NothingHandled, ReadsStayReads
    <2>3. CASE \E times \in 0..1 : Finish(c, "failed", {}, times)
        <3>1. PICK times \in 0..1 : Finish(c, "failed", {}, times)
            BY <2>3
        <3>2. {} \subseteq seen[c] /\ "failed" # "applied"
            OBVIOUS
        <3> QED
            BY <1>6, <2>1, <3>1, <3>2, Finished, ReadsStayReads
    <2>4. CASE Succeeds(c)
        <3>1. CASE Finish(c, "applied", {}, done[c] + 1)
            <4>1. Finish(c, "applied", {}, 1) /\ {} \subseteq seen[c] /\ 1 \in 0..1
                BY <2>1, <3>1
            <4> QED
                BY <1>6, <2>1, <4>1, Finished, ReadsStayReads
        <3>2. CASE /\ ~Writes(command[c].op)
                   /\ \E listed \in SUBSET Project :
                        Finish(c, "shown", Items(command[c], listed, permitted[c]), done[c])
            <4>1. PICK listed \in SUBSET Project :
                        Finish(c, "shown", Items(command[c], listed, permitted[c]), 0)
                BY <2>1, <3>2
            <4>2. command[c] \in Command /\ command[c].op \in {"project.list", "project.get", "role.list"}
                BY <2>1, <3>2 DEF CommandInv, HandlingTypes, Writes, Command, Executing
            <4>3. Items(command[c], listed, permitted[c]) \subseteq seen[c]
                BY <2>1, <4>2 DEF Items, CommandInv
            <4>4. 0 \in 0..1 /\ "shown" # "applied"
                OBVIOUS
            <4> QED
                BY <1>6, <2>1, <4>1, <4>3, <4>4, Finished, ReadsStayReads
        <3> QED
            BY <2>4, <3>1, <3>2 DEF Succeeds
    <2>5. ClientStep(c) => Continue \/ \E times \in 0..1 : Finish(c, "failed", {}, times)
        <3>1. 0 \in 0..1
            OBVIOUS
        <3> QED
            BY <2>1, <3>1 DEF ClientStep
    <2>6. Fails(c) => \E times \in 0..1 : Finish(c, "failed", {}, times)
        <3>1. \A n \in {0, 1} : 0 + n \in 0..1
            OBVIOUS
        <3> QED
            BY <2>1, <3>1 DEF Fails
    <2> QED
        BY <1>6, <2>2, <2>3, <2>4, <2>5, <2>6
<1> QED
    BY <1>1, <1>2, <1>3, <1>4, <1>5, <1>6 DEF BridgeNext

-----------------------------------------------------------------------------
(* Theorems *)

\* The inductive invariant of client and handler together.
THEOREM BridgeInvariance == BridgeSpec => []BridgeInv
<1>1. BridgeInv /\ [BridgeNext]_bridgeVars => BridgeInv'
    <2> SUFFICES ASSUME BridgeInv, [BridgeNext]_bridgeVars PROVE BridgeInv'
        OBVIOUS
    <2>1. ClientInv'
        <3>1. ClientInv /\ [Next]_vars
            BY StepsOfClient DEF BridgeInv
        <3> QED
            BY <3>1, TypeStep, LoginStep, TokenStep DEF ClientInv
    <2> QED
        BY <2>1, HandlerStep DEF BridgeInv
<1> QED
    BY InitBridge, <1>1, PTL DEF BridgeSpec

\* Slots, the allowlist, what the network may ask and what an answer says of a write,
\* for any number of commands, projects and slots (server.go:48-91, commands.go:70-228).
THEOREM CommandsAreSound == BridgeSpec => []CommandsSound
<1>1. BridgeInv => CommandsSound
    <2> SUFFICES ASSUME BridgeInv PROVE CommandsSound
        OBVIOUS
    <2> USE DEF BridgeInv
    <2>1. BridgeTypeOK
        BY DEF ClientInv, HandlingTypes, Bounds, BridgeTypeOK
    <2>2. SlotsReturned /\ BridgeOnlyReads
        BY DEF SlotsInv, SlotsReturned, Executing
    <2>3. ShowsPermitted
        BY DEF AnswerInv, ShowsPermitted
    <2>4. AppliedOnce
        <3>1. \A c \in Caller : done[c] <= 1
            <4>1. \A c \in Caller : done[c] = 0
                BY DEF HandlingTypes
            <4>2. 0 <= 1
                OBVIOUS
            <4> QED
                BY <4>1, <4>2
        <3>2. answer.done <= 1
            <4>1. \A n \in 0..1 : n <= 1
                OBVIOUS
            <4> QED
                BY <4>1 DEF AnswerInv
        <3> QED
            BY <3>1, <3>2 DEF AnswerInv, AppliedOnce
    <2> QED
        BY <2>1, <2>2, <2>3, <2>4 DEF CommandsSound
<1> QED
    BY <1>1, BridgeInvariance, PTL

\* Below commands of whatever kind, the client keeps a fresh token until it is
\* rejected (client.go:138-274).
THEOREM FreshTokensBelowCommands == BridgeSpec => FreshTokenKept
BY CommandsUseClient, FreshTokensKept, PTL

\* Below commands of whatever kind, a rejected token is not used again (client.go:138-206).
THEOREM RejectedNotReusedBelowCommands == BridgeSpec => RejectedTokenNotReused
BY CommandsUseClient, RejectedNotReused, PTL
=============================================================================
