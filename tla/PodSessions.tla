---------------------------- MODULE PodSessions -----------------------------
(***************************************************************************)
(* Exec and port-forward (kuchdesk-agent/internal/management/pod_exec.go   *)
(* and port_forward.go), after the read of the pod.  Each takes one of a   *)
(* few slots and connects to the pod by name: by WebSocket, and by SPDY    *)
(* when only the upgrade failed.  A forward is a goroutine that dials,     *)
(* told to stop by a channel that is closed, and two pumps that copy.      *)
(*                                                                         *)
(* Bytes, their limits and the idle timeouts are a pump that ends.         *)
(***************************************************************************)
EXTENDS ManagedWrites

CONSTANT MaxSessions  \* of each kind, 4

ASSUME SessionsAssumption == MaxSessions \in Nat \ {0}

VARIABLES
    held,     \* tokens in m.execSlots and m.forwardSlots
    dial,     \* the connection: "websocket" and "spdy" are attempts
    stopped,  \* whether the stop channel of a forward is closed
    pumps     \* those of a forward that are running

sessionVars == <<held, dial, stopped, pumps>>

Pump     == {"toPod", "toClient"}
Upgrade  == {"websocket", "spdy"}
InSession == {"slot", "dial", "connect", "upgrade", "pump", "closing", "leave"}

SessionsTypeOK ==
    /\ held \in [Session -> 0 .. MaxSessions]
    /\ dial \in [Request -> {"none", "up", "down"} \cup Upgrade]
    /\ stopped \in [Request -> BOOLEAN] /\ pumps \in [Request -> SUBSET Pump]

SessionsInit ==
    /\ held = [m \in Session |-> 0]
    /\ dial = [r \in Request |-> "none"] /\ stopped = [r \in Request |-> FALSE]
    /\ pumps = [r \in Request |-> {}]

Outer == UNCHANGED <<jobsVars, kind, object, newest, late, request, read>>

Moved(r, from, to) == At(r, from) /\ Moves(r, to) /\ Outer

Exec(r)    == method[r] = "exec"
Forward(r) == method[r] = "forward"

-----------------------------------------------------------------------------
(* The handlers *)

\* Without a slot the answer is 429.
TakesSlot(r) ==
    /\ At(r, "slot")
    /\ IF held[method[r]] < MaxSessions
       THEN /\ Moved(r, "slot", "dial") /\ held' = [held EXCEPT ![method[r]] = @ + 1]
            /\ dial' = [dial EXCEPT ![r] = "websocket"]
       ELSE Moved(r, "slot", "answered") /\ UNCHANGED <<held, dial>>
    /\ UNCHANGED <<effects, stopped, pumps>>

\* The command has ended, or its context has and nobody waits for it.
ExecEnds(r) ==
    /\ Exec(r) /\ Moved(r, "dial", "leave") /\ (dial[r] = "down" \/ Ended(r))
    /\ dial' = [dial EXCEPT ![r] = "down"] /\ UNCHANGED <<effects, held, stopped, pumps>>

ForwardReady(r) ==
    /\ Forward(r) /\ Moved(r, "dial", "connect") /\ dial[r] = "up"
    /\ UNCHANGED <<effects, sessionVars>>

Stops(r) == stopped' = [stopped EXCEPT ![r] = TRUE] /\ UNCHANGED <<effects, held, dial, pumps>>

ForwardFails(r) ==
    /\ Forward(r) /\ Moved(r, "dial", "leave") /\ (dial[r] = "down" \/ Ended(r)) /\ Stops(r)

\* The agent's own connection to the local end of the tunnel.
Connects(r) == Moved(r, "connect", "upgrade") /\ ~Ended(r) /\ UNCHANGED <<effects, sessionVars>>

ConnectFailsOnly(r) == Moved(r, "connect", "leave") /\ UNCHANGED <<effects, sessionVars>>

ConnectFails(r) == Moved(r, "connect", "leave") /\ Stops(r)

Upgrades(r) ==
    /\ Moved(r, "upgrade", "pump") /\ pumps' = [pumps EXCEPT ![r] = Pump]
    /\ UNCHANGED <<effects, held, dial, stopped>>

UpgradeFails(r) == Moved(r, "upgrade", "leave") /\ Stops(r)

\* Peers, limits and deadlines, or a closed connection, end a pump.
PumpEnds(r, p) ==
    /\ p \in pumps[r] /\ pumps' = [pumps EXCEPT ![r] = @ \ {p}]
    /\ Outer /\ UNCHANGED <<hpc, effects, held, dial, stopped>>

\* One pump has ended, or the time is up: both connections are closed.
ClosesBoth(r) == Moved(r, "pump", "closing") /\ (pumps[r] # Pump \/ Ended(r)) /\ Stops(r)

WorkersEnded(r) ==
    Moved(r, "closing", "leave") /\ pumps[r] = {} /\ UNCHANGED <<effects, sessionVars>>

Leaves(r) ==
    /\ Moved(r, "leave", "answered") /\ held' = [held EXCEPT ![method[r]] = @ - 1]
    /\ UNCHANGED <<effects, dial, stopped, pumps>>

TimesOutInForward(r) ==
    /\ Forward(r) /\ hpc[r] \in InSession \ {"slot", "leave"} /\ ~Ended(r)
    /\ EndContext(r, "canceled") /\ UNCHANGED <<writeVars, sessionVars>>

\* 30 seconds for a command, five minutes for a forward, or a client that has
\* hung up; only the answer tells them apart.
TimesOut(r) ==
    /\ hpc[r] \in InSession \ {"slot", "leave"} /\ ~Ended(r)
    /\ EndContext(r, "canceled") /\ UNCHANGED <<writeVars, sessionVars>>

-----------------------------------------------------------------------------
(* The connection to the pod *)

Line(r, to) ==
    /\ dial' = [dial EXCEPT ![r] = to]
    /\ Outer /\ UNCHANGED <<hpc, held, stopped, pumps>>

\* The name is resolved here: whatever pod has it now is reached.  Only an
\* exec gives up dialling when its context ends.
Reaches(r) ==
    /\ dial[r] \in Upgrade /\ object[target[r]] # Absent /\ (Exec(r) => ~Ended(r))
    /\ effects' = [effects EXCEPT ![r] = Append(@, object[target[r]])]
    /\ Line(r, "up")

\* Only a failed upgrade is tried again: what reached the pod is not repeated.
FallsBack(r) == dial[r] = "websocket" /\ Line(r, "spdy") /\ UNCHANGED effects

DialFails(r) == dial[r] \in Upgrade /\ Line(r, "down") /\ UNCHANGED effects

\* The command has ended, the connection broke, or the forward was stopped.
LineEnds(r) == dial[r] = "up" /\ Line(r, "down") /\ UNCHANGED effects

HandleSession(r) ==
    \/ TakesSlot(r) \/ ExecEnds(r) \/ ForwardReady(r) \/ ForwardFails(r) \/ Connects(r)
    \/ ConnectFails(r) \/ Upgrades(r) \/ UpgradeFails(r) \/ ClosesBoth(r)
    \/ WorkersEnded(r) \/ Leaves(r)

Connection(r) == Reaches(r) \/ FallsBack(r) \/ DialFails(r) \/ LineEnds(r)

SessionsNext ==
    \E r \in Request :
        \/ HandleSession(r) \/ Connection(r) \/ TimesOut(r)
        \/ \E p \in Pump : PumpEnds(r, p)
=============================================================================
