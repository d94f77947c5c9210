---------------------------- MODULE CommandBridge ----------------------------
(***************************************************************************)
(* The commands of host-agent/internal/infisical/commands.go on the        *)
(* machine client they share.  Two programs run them: kuchdesk-host-bridge,*)
(* which serves HTTP to other hosts and to the agent in the cluster, only  *)
(* reads, and takes one of a few slots for every request; and the server   *)
(* of the tool infisical_manage, which has no slots and may write when the *)
(* command repeats its operation and target.  Which projects a command may *)
(* touch is a set that the enrollment controller publishes and withdraws   *)
(* while commands run: Execute takes a copy of it, asks the client, and    *)
(* filters the answer by the copy.                                         *)
(*                                                                         *)
(* A caller of MachineClient is one goroutine that runs a command.         *)
(***************************************************************************)
EXTENDS MachineClient, FiniteSets

CONSTANTS
    Project,
    Permitted,           \* the projects allowed at the start
    Slots,               \* 8 requests at once
    MaxDiagnoses,        \* bound: Doctor requests and health probes at once
    MaxChanges           \* bound: changes of the published set

ASSUME BridgeAssumption ==
    /\ Permitted \subseteq Project
    /\ Slots \in Nat \ {0}
    /\ MaxDiagnoses \in Nat /\ MaxChanges \in Nat

VARIABLES
    program,    \* "bridge" or "tool", for good
    published,  \* the projects allowed now
    slots,      \* requests in s.slots
    diagnoses,  \* those of them that are no command
    \* one command per caller, from the client on
    stage,      \* "free" or "executing"
    command,
    permitted,  \* the copy of published that Execute took
    \* history and bound
    seen,       \* the projects allowed at some moment of the command
    done,       \* how often the secret server has carried out its write
    answer,     \* the answer a command was given in the last step
    changes

handling   == <<stage, command, permitted, seen, done>>
bridge     == <<program, published, slots, diagnoses, changes>>
bridgeVars == <<vars, bridge, handling, answer>>

Writes(op) == op \in {"project.create", "project.update"}

\* An allowlist: role.list only reads, and is not in it.
ReadOperation(op) == op \in {"project.list", "project.get"}

\* A list names no project, and a new one is none of these.
Command ==
    [op : {"project.list", "project.create"}] \cup
    [op : {"project.get", "role.list", "project.update"}, project : Project]
NoCommand == [op |-> "none"]
NoAnswer  == [told |-> "nothing", shown |-> {}, seen |-> {}, done |-> 0]

BridgeInit ==
    /\ Init
    /\ program \in {"bridge", "tool"} /\ published = Permitted
    /\ stage = [c \in Caller |-> "free"] /\ command = [c \in Caller |-> NoCommand]
    /\ permitted = [c \in Caller |-> {}] /\ seen = [c \in Caller |-> {}]
    /\ done = [c \in Caller |-> 0] /\ answer = NoAnswer
    /\ slots = 0 /\ diagnoses = 0 /\ changes = 0

-----------------------------------------------------------------------------
(* The handler *)

TakeSlot == IF program = "bridge" THEN slots < Slots /\ slots' = slots + 1 ELSE UNCHANGED slots
GiveBack == slots' = IF program = "bridge" THEN slots - 1 ELSE slots

Forget(c) ==
    /\ stage' = [stage EXCEPT ![c] = "free"] /\ command' = [command EXCEPT ![c] = NoCommand]
    /\ seen' = [seen EXCEPT ![c] = {}] /\ permitted' = [permitted EXCEPT ![c] = {}]
    /\ done' = [done EXCEPT ![c] = 0]

\* The handler writes its answer and returns.
Finish(c, told, shown, times) ==
    /\ answer' = [told |-> told, shown |-> shown, seen |-> seen[c], done |-> times]
    /\ Forget(c)
    /\ GiveBack

\* The handler goes on.
Continue == answer' = NoAnswer /\ UNCHANGED <<stage, command, permitted, seen, done, slots>>

\* The checks of Execute, in its own copy of the projects; the bridge is never
\* started with AllowProjectCreate.
Allowed(m, projects) ==
    /\ program = "bridge" => ReadOperation(m.op)
    /\ CASE m.op = "project.create" -> program = "tool"
         [] m.op = "project.list"   -> projects # {}
         [] OTHER                   -> m.project \in projects

\* A command arrives with the bearer token, through the agent in the cluster or
\* not, or as a call of the tool: a bridge that is full turns it away.  It is
\* refused if it is no read in the bridge (the agent looks for that as well, and
\* the handler), if the policy does not allow it, if it is a write that is not
\* confirmed, and for what validateCommand finds amiss; else the client is asked.
Execute(c) ==
    /\ stage[c] = "free" /\ answer' = NoAnswer
    /\ TakeSlot
    /\ Request(c)
    /\ \E m \in Command :
        /\ Allowed(m, published)
        /\ method'[c] = IF Writes(m.op) THEN "write" ELSE "GET"
        /\ command' = [command EXCEPT ![c] = m]
    /\ stage' = [stage EXCEPT ![c] = "executing"]
    /\ permitted' = [permitted EXCEPT ![c] = published]
    /\ seen' = [seen EXCEPT ![c] = published]
    /\ UNCHANGED <<program, published, done, diagnoses, changes>>

-----------------------------------------------------------------------------
(* The client at work for a command *)

\* A step after which the request goes on, or has failed without an answer.
ClientStep(c) ==
    /\ stage[c] = "executing"
    /\ \/ AccessToken(c) \/ LoginReturns(c) \/ Unauthorized(c) \/ Invalidate(c) \/ PauseAfter401(c)
    /\ IF pc'[c] = "idle" THEN Finish(c, "failed", {}, done[c]) ELSE Continue
    /\ UNCHANGED <<program, published, diagnoses, changes>>

ItemsUnfiltered(m, listed, projects) == IF m.op = "project.list" THEN listed ELSE {m.project}

\* What the answer to a read shows: the list is filtered by the copy.
Items(m, listed, projects) == IF m.op = "project.list" THEN listed \cap projects ELSE {m.project}

\* The server answers with success; what this machine may list is its affair.
Succeeds(c) ==
    /\ stage[c] = "executing" /\ Answered(c)
    /\ IF Writes(command[c].op) THEN Finish(c, "applied", {}, done[c] + 1)
       ELSE \E listed \in SUBSET Project :
                Finish(c, "shown", Items(command[c], listed, permitted[c]), done[c])
    /\ UNCHANGED <<program, published, diagnoses, changes>>

FailsAndRetries(c) ==
    /\ stage[c] = "executing" /\ pc[c] = "sent"
    /\ \E times \in IF Writes(command[c].op) THEN {0, 1} ELSE {0} :
        IF sends[c] = 1
        THEN /\ pc' = [pc EXCEPT ![c] = "token"]
             /\ done' = [done EXCEPT ![c] = @ + times]
             /\ answer' = NoAnswer /\ UNCHANGED <<stage, command, permitted, seen, slots>>
             /\ UNCHANGED <<mu, credential, latches, call, asked, world, granted, invalid>>
        ELSE Answered(c) /\ Finish(c, "failed", {}, done[c] + times)
    /\ UNCHANGED <<program, published, diagnoses, changes>>

\* A refusal, a useless answer, or none: then a write may have been carried out.
Fails(c) ==
    /\ stage[c] = "executing" /\ Answered(c)
    /\ \E times \in IF Writes(command[c].op) THEN {0, 1} ELSE {0} :
        Finish(c, "failed", {}, done[c] + times)
    /\ UNCHANGED <<program, published, diagnoses, changes>>

-----------------------------------------------------------------------------
(* Beside the commands *)

\* The enrollment controller publishes or withdraws projects, or the policy
\* file is edited: the next Projects() gives another set.
Change ==
    /\ program = "bridge" /\ changes < MaxChanges
    /\ \E projects \in SUBSET Project \ {published} :
        /\ published' = projects
        /\ seen' = [c \in Caller |-> IF stage[c] = "free" THEN seen[c] ELSE seen[c] \cup projects]
    /\ changes' = changes + 1
    /\ answer' = NoAnswer
    /\ UNCHANGED <<vars, program, slots, diagnoses, stage, command, permitted, done>>

\* A Doctor request or a health probe takes a slot of the same channel.
Diagnose ==
    /\ program = "bridge" /\ diagnoses < MaxDiagnoses
    /\ TakeSlot /\ diagnoses' = diagnoses + 1
    /\ answer' = NoAnswer /\ UNCHANGED <<vars, program, published, changes, handling>>

Diagnosed ==
    /\ diagnoses > 0 /\ GiveBack /\ diagnoses' = diagnoses - 1
    /\ answer' = NoAnswer /\ UNCHANGED <<vars, program, published, changes, handling>>

BridgeTick == Tick /\ answer' = NoAnswer /\ UNCHANGED <<bridge, handling>>

BridgeNext ==
    \/ Change \/ Diagnose \/ Diagnosed \/ BridgeTick
    \/ \E c \in Caller : Execute(c) \/ ClientStep(c) \/ Succeeds(c) \/ Fails(c)

(***************************************************************************)
(* Requests and logins are answered or time out.  A goroutine that waits   *)
(* for the mutex gets it however often others take it: a sync.Mutex hands  *)
(* itself to the first waiter after a millisecond.  A diagnosis need not   *)
(* end, and commands need not arrive.                                      *)
(***************************************************************************)
BridgeFairness ==
    \A c \in Caller :
        /\ WF_bridgeVars(stage[c] = "executing" /\ pc[c] \in {"login", "sent"} /\ (ClientStep(c) \/ Succeeds(c) \/ Fails(c)))
        /\ SF_bridgeVars(stage[c] = "executing" /\ pc[c] \notin {"login", "sent"} /\ ClientStep(c))

BridgeSpec == BridgeInit /\ [][BridgeNext]_bridgeVars /\ BridgeFairness

-----------------------------------------------------------------------------
(* Properties *)

BridgeTypeOK ==
    /\ TypeOK
    /\ program \in {"bridge", "tool"} /\ published \subseteq Project
    /\ stage \in [Caller -> {"free", "executing"}]
    /\ command \in [Caller -> Command \cup {NoCommand}]
    /\ permitted \in [Caller -> SUBSET Project]
    /\ slots \in 0..Slots /\ diagnoses \in 0..MaxDiagnoses /\ changes \in 0..MaxChanges

\* Every slot taken is one of a command or a diagnosis at work.
SlotsReturned ==
    slots = IF program = "bridge"
            THEN diagnoses + Cardinality({c \in Caller : stage[c] # "free"}) ELSE 0

\* Nothing that came over the network is ever asked of the server as a write.
BridgeOnlyReads == program = "bridge" => \A c \in Caller : method[c] = "GET"

\* An answer names only projects that were allowed at some moment of the
\* command: one withdrawn before it came is not shown to it.
ShowsPermitted == answer.shown \subseteq answer.seen

\* A write is carried out at most once, and exactly once if the answer says
\* applied, though a request may be sent twice and answers are lost.
AppliedOnce ==
    /\ answer.done <= 1 /\ \A c \in Caller : done[c] <= 1
    /\ answer.told = "applied" => answer.done = 1

\* The type invariant, and what the commands promise together: the slots are
\* theirs, the network only reads, the allowlist holds, a write is done once.
CommandsSound ==
    BridgeTypeOK /\ SlotsReturned /\ BridgeOnlyReads /\ ShowsPermitted /\ AppliedOnce

\* Every command is answered, however logins and requests of others fail.
CommandReturns == \A c \in Caller : stage[c] # "free" ~> stage[c] = "free"
=============================================================================
