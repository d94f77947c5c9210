---------------------------- MODULE MachineClient ----------------------------
(***************************************************************************)
(* The client of the secret server that holds one short-lived machine      *)
(* token for many goroutines (host-agent/internal/infisical/client.go).    *)
(* The token, the times that govern it and the two error latches are       *)
(* guarded by one mutex, which accessToken keeps during the login request, *)
(* so that callers share one login; the API request itself is made         *)
(* without it, and its 401 is handled under the mutex again, by which time *)
(* other callers may have replaced the token.                              *)
(*                                                                         *)
(* Tokens are numbered in the order in which they were given; 0 is none.   *)
(* A definition standing before another one with a longer name made from   *)
(* it is a slip the code could have made; nothing here uses it.            *)
(***************************************************************************)
EXTENDS Integers

CONSTANTS
    Caller, NoCaller,
    Lifetime,      \* the values of expiresIn a login may be answered with
    Width,         \* bits of a time.Duration, 64 in the code
    LoginPause,    \* 5 seconds
    RejectPause,   \* 30 seconds
    LoginTimeout,  \* the HTTP client's, 10 seconds
    MaxTime,       \* bound: the clock
    MaxRequests    \* bound: requests made by all callers together

ASSUME ClientAssumption ==
    /\ NoCaller \notin Caller
    /\ Width \in Nat \ {0}
    /\ Lifetime \subseteq 1 .. 2^(Width - 1) - 1
    /\ LoginPause \in Nat \ {0} /\ RejectPause \in Nat \ {0} /\ LoginTimeout \in Nat \ {0}
    /\ MaxTime \in Nat /\ MaxRequests \in Nat

VARIABLES
    \* Client
    mu,         \* the caller that holds the mutex across a step
    token, refreshAt, expiresAt, retryAt, authRevoked,
    \* one call of request per caller
    pc,
    method,     \* "GET" or one of the writes
    held,       \* the token it sent last
    sends,      \* how often it has sent its request
    asked,      \* the time its login started
    \* clock, history and bound
    now,
    granted,    \* tokens given by the server
    invalid,    \* tokens that a caller has seen rejected and invalidated
    requests

credential == <<token, refreshAt, expiresAt>>
latches    == <<retryAt, authRevoked>>
call       == <<method, held, sends>>
world      == <<now, requests>>
vars == <<mu, credential, latches, pc, call, asked, world, granted, invalid>>

Position == {"idle", "token", "login", "sent", "rejected", "repeated"}

TypeOK ==
    /\ mu \in Caller \cup {NoCaller}
    /\ token \in 0..granted /\ refreshAt \in Int /\ expiresAt \in Nat
    /\ retryAt \in Nat /\ authRevoked \in BOOLEAN
    /\ pc \in [Caller -> Position] /\ method \in [Caller -> {"GET", "write"}]
    /\ held \in [Caller -> 0..granted] /\ sends \in [Caller -> 0..2]
    /\ asked \in [Caller -> 0..MaxTime] /\ now \in 0..MaxTime
    /\ granted \in Nat /\ invalid \subseteq 1..granted
    /\ requests \in 0..MaxRequests

Init ==
    /\ mu = NoCaller
    /\ token = 0 /\ refreshAt = 0 /\ expiresAt = 0
    /\ retryAt = 0 /\ authRevoked = FALSE
    /\ pc = [c \in Caller |-> "idle"] /\ method = [c \in Caller |-> "GET"]
    /\ held = [c \in Caller |-> 0] /\ sends = [c \in Caller |-> 0]
    /\ asked = [c \in Caller |-> 0]
    /\ now = 0 /\ granted = 0 /\ invalid = {} /\ requests = 0

-----------------------------------------------------------------------------
(* Durations: signed integers that wrap, and a division that truncates. *)

Wrapped(x) == ((x + 2^(Width - 1)) % (2^Width)) - 2^(Width - 1)
Quotient(x, y) == IF x >= 0 THEN x \div y ELSE -((-x) \div y)

\* validFor * 8 / 10: the product wraps for an expiresIn above an eighth of the
\* longest duration, which the code accepts.
RefreshAfter(life) == Quotient(Wrapped(life * 8), 10)

Fresh        == token # 0 /\ now < refreshAt
Unexpired(t) == token # 0 /\ t < expiresAt
Paused       == now < retryAt

-----------------------------------------------------------------------------
(* One request *)

\* A goroutine makes a request: a read, or a write.
Request(c) ==
    /\ pc[c] = "idle" /\ requests < MaxRequests
    /\ requests' = requests + 1
    /\ \E m \in {"GET", "write"} : method' = [method EXCEPT ![c] = m]
    /\ pc' = [pc EXCEPT ![c] = "token"]
    /\ UNCHANGED <<mu, held, sends, credential, latches, asked, now, granted, invalid>>

\* accessToken returns t, and the request is sent with it.
SendWith(c, t) ==
    /\ pc' = [pc EXCEPT ![c] = "sent"]
    /\ held' = [held EXCEPT ![c] = t] /\ sends' = [sends EXCEPT ![c] = @ + 1]
    /\ UNCHANGED method

\* request returns, and its variables are gone.
Return(c) ==
    /\ pc' = [pc EXCEPT ![c] = "idle"]
    /\ method' = [method EXCEPT ![c] = "GET"]
    /\ held' = [held EXCEPT ![c] = 0] /\ sends' = [sends EXCEPT ![c] = 0]

StartLogin(c) ==
    /\ pc' = [pc EXCEPT ![c] = "login"]
    /\ mu' = c /\ asked' = [asked EXCEPT ![c] = now]
    /\ UNCHANGED call

NoLogin == UNCHANGED <<mu, asked>>

AccessTokenUnlocked(c) ==
    /\ pc[c] = "token"
    /\ \/ Fresh /\ SendWith(c, token) /\ NoLogin
       \/ ~Fresh /\ authRevoked /\ Return(c) /\ NoLogin
       \/ ~Fresh /\ ~authRevoked /\ Paused /\ NoLogin
          /\ IF Unexpired(now) THEN SendWith(c, token) ELSE Return(c)
       \/ ~Fresh /\ ~authRevoked /\ ~Paused /\ StartLogin(c)
    /\ UNCHANGED <<credential, latches, world, granted, invalid>>

\* accessToken up to the login: a fresh token is used, a refusal is final, and
\* after a failed login there is a pause in which an unexpired token will do.
AccessToken(c) ==
    /\ pc[c] = "token" /\ mu = NoCaller
    /\ \/ Fresh /\ SendWith(c, token) /\ NoLogin
       \/ ~Fresh /\ authRevoked /\ Return(c) /\ NoLogin
       \/ ~Fresh /\ ~authRevoked /\ Paused /\ NoLogin
          /\ IF Unexpired(now) THEN SendWith(c, token) ELSE Return(c)
       \/ ~Fresh /\ ~authRevoked /\ ~Paused /\ StartLogin(c)
    /\ UNCHANGED <<credential, latches, world, granted, invalid>>

Unlock(c) ==
    /\ mu' = NoCaller /\ asked' = [asked EXCEPT ![c] = 0]
    /\ UNCHANGED <<world, invalid>>

\* A valid answer; its times count from the start of the login.
LoginGranted(c) ==
    /\ pc[c] = "login"
    /\ granted' = granted + 1 /\ token' = granted'
    /\ \E life \in Lifetime :
        /\ refreshAt' = asked[c] + RefreshAfter(life)
        /\ expiresAt' = asked[c] + life
    /\ retryAt' = 0 /\ UNCHANGED authRevoked
    /\ SendWith(c, token') /\ Unlock(c)

LoginRefusedLocked(c) ==
    /\ pc[c] = "login"
    /\ authRevoked' = TRUE /\ UNCHANGED <<credential, retryAt, granted>>
    /\ Return(c) /\ UNCHANGED <<mu, asked, world, invalid>>

\* 401 or 403.
LoginRefused(c) ==
    /\ pc[c] = "login"
    /\ authRevoked' = TRUE /\ UNCHANGED <<credential, retryAt, granted>>
    /\ Return(c) /\ Unlock(c)

\* Another status, or no answer: a timeout, or this caller's context has ended.
LoginUnavailable(c) ==
    /\ pc[c] = "login"
    /\ retryAt' = asked[c] + LoginPause /\ UNCHANGED <<credential, authRevoked, granted>>
    /\ IF Unexpired(asked[c]) THEN SendWith(c, token) ELSE Return(c)
    /\ Unlock(c)

\* An answer that cannot be used.
LoginInvalid(c) ==
    /\ pc[c] = "login"
    /\ Return(c) /\ Unlock(c) /\ UNCHANGED <<credential, latches, granted>>

\* Any answer but 401, or none: request returns.
Answered(c) ==
    /\ pc[c] = "sent"
    /\ Return(c)
    /\ UNCHANGED <<mu, credential, latches, asked, world, granted, invalid>>

\* The server answers 401.
Unauthorized(c) ==
    /\ pc[c] = "sent"
    /\ pc' = [pc EXCEPT ![c] = "rejected"]
    /\ UNCHANGED <<mu, credential, latches, call, asked, world, granted, invalid>>

ForgetToken == token' = 0 /\ refreshAt' = 0 /\ expiresAt' = 0

InvalidateOnRetry(c) ==
    /\ pc[c] = "rejected" /\ mu = NoCaller
    /\ IF token = held[c] /\ method[c] = "GET" /\ sends[c] = 1
       THEN ForgetToken ELSE UNCHANGED credential
    /\ invalid' = invalid \cup {held[c]}
    /\ pc' = [pc EXCEPT ![c] = IF method[c] = "GET" /\ sends[c] = 1 THEN "token" ELSE "repeated"]
    /\ UNCHANGED <<mu, latches, call, asked, world, granted>>

\* invalidateToken(token), after which a read tries once more.
Invalidate(c) ==
    /\ pc[c] = "rejected" /\ mu = NoCaller
    /\ IF token = held[c] THEN ForgetToken ELSE UNCHANGED credential
    /\ invalid' = invalid \cup {held[c]}
    /\ pc' = [pc EXCEPT ![c] = IF method[c] = "GET" /\ sends[c] = 1 THEN "token" ELSE "repeated"]
    /\ UNCHANGED <<mu, latches, call, asked, world, granted>>

\* The second look at the client after a 401 that is not retried.
PauseAfter401(c) ==
    /\ pc[c] = "repeated" /\ mu = NoCaller
    /\ IF token = held[c]
       THEN ForgetToken /\ retryAt' = now + RejectPause
       ELSE UNCHANGED <<credential, retryAt>>
    /\ Return(c)
    /\ UNCHANGED <<mu, authRevoked, asked, world, granted, invalid>>

\* Time passes; the HTTP client gives a login up in time.
Tick ==
    /\ now < MaxTime
    /\ \A c \in Caller : pc[c] = "login" => now < asked[c] + LoginTimeout
    /\ now' = now + 1
    /\ UNCHANGED <<mu, credential, latches, pc, call, asked, granted, invalid, requests>>

-----------------------------------------------------------------------------
LoginReturns(c) ==
    LoginGranted(c) \/ LoginRefused(c) \/ LoginUnavailable(c) \/ LoginInvalid(c)

Handle(c) ==
    \/ Request(c) \/ AccessToken(c) \/ LoginReturns(c)
    \/ Answered(c) \/ Unauthorized(c) \/ Invalidate(c) \/ PauseAfter401(c)

Next == Tick \/ \E c \in Caller : Handle(c)

Spec == Init /\ [][Next]_vars

-----------------------------------------------------------------------------
(* Properties *)

\* A fresh token stays until some caller has had that very token rejected: the
\* 401 of a request sent with an older token arrives late and discards nothing,
\* and a caller that waited for the mutex uses the login of the one before it.
FreshTokenKept ==
    [][Fresh /\ token' # token =>
        \E c \in Caller : pc[c] \in {"rejected", "repeated"} /\ held[c] = token]_vars

\* A token that a caller has seen rejected is not sent again by a request that
\* asks for a token afterwards, the retry of that read included.
RejectedTokenNotReused ==
    [][\A c \in Caller : pc[c] # "sent" /\ pc'[c] = "sent" => held'[c] \notin invalid]_vars

\* What host-agent/README.md promises of this client: a read whose retry is
\* answered 401 too leaves it with a token of some other caller or in a pause.
PauseAfterRepeated401 ==
    [][\A c \in Caller :
        method[c] = "GET" /\ pc[c] = "repeated" /\ pc'[c] = "idle" => token' # 0 \/ now < retryAt']_vars
=============================================================================
