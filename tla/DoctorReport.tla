----------------------------- MODULE DoctorReport -----------------------------
(***************************************************************************)
(* The Doctor of the host agent (internal/doctor): one goroutine for each  *)
(* check, a gate that lets a few of them work at a time, and a report of   *)
(* all their outcomes; and the tools of the MCP server that are built on   *)
(* it: kuchdesk_doctor, kuchdesk_doctor_verify and the preflight of a      *)
(* deployment.                                                             *)
(*                                                                         *)
(* What a check reads is an observation: <<>> when the command, lookup or  *)
(* request failed or gave nothing that could be read, and otherwise <<x>>: *)
(*   network    the interface of the default route, "none" when unnamed    *)
(*   dns        the number of addresses                                    *)
(*   docker     whether the version is well-formed                         *)
(*   kind       the nodes, each ready or not                               *)
(*   registry   the HTTP status                                            *)
(*   disk       the free space, in GiB                                     *)
(*   resources  the lines, each <<>> (unreadable) or <<CPU, memory>> in %  *)
(*   a service  [replicas, ready], replicas <<>> when the spec names none  *)
(* A slip stands before the definition it is a mistake in.                 *)
(***************************************************************************)
EXTENDS Integers, Sequences, FiniteSets

CONSTANTS
    Service,      \* Deployments to check
    Slots,        \* 4 in the code
    World,        \* what the checks would observe: a set of functions on Check
    MinFree,      \* minFreeBytes of callers, 0 for none
    Asked,        \* sequences of check IDs to verify
    MaxTimeouts   \* bound: checks that are over their five seconds

Fixed == {"network", "dns", "docker", "kind", "registry", "disk", "resources"}
Check == Fixed \cup Service

ASSUME DoctorAssumption ==
    /\ Service \cap Fixed = {}
    /\ Slots \in Nat \ {0} /\ MinFree \subseteq Nat
    /\ MaxTimeouts \in Nat

Hangs == <<-1>>   \* the answer of a statfs that does not return

\* What a check may read when it reads something.
Legible(c, x) ==
    CASE c = "network"  -> x \in {"en0", "utun", "none"}
      [] c = "docker"   -> x \in BOOLEAN
      [] c = "kind"     -> x \in Seq(BOOLEAN)
      [] c \in {"dns", "registry"} -> x \in Nat
      [] c = "disk"     -> x \in Int
      [] c = "resources" -> x \in Seq(Seq(Int))
      [] OTHER -> x.ready \in Nat /\ (x.replicas # <<>> => x.replicas[1] \in Nat)

ASSUME WorldAssumption ==
    \A w \in World, c \in Check : w[c] = <<>> \/ Legible(c, w[c][1])

Tool == {"doctor", "verify", "preflight"}
defaultMinDisk == 2

VARIABLES
    world,
    tool, asked, min,
    caller,      \* "idle", "running" or "answered"
    ended,       \* the context of the call has ended
    worker,      \* per check: its goroutine
    checks,      \* the slice of outcomes, "" before one is written
    saw,         \* history: what each check of this call read
    answer,      \* what the tool says
    timeouts

request == <<tool, asked, min>>
vars == <<world, request, caller, ended, worker, checks, saw, answer, timeouts>>

-----------------------------------------------------------------------------
(* Outcomes *)

Readable(line) == line # <<>> /\ line[1] \in 0..100 /\ line[2] \in 0..100

AnyAt(lines, percent) ==
    \E i \in DOMAIN lines : lines[i][1] >= percent \/ lines[i][2] >= percent

\* metrics: what cannot be read is a warning, whatever the lines before it say.
Metrics(o) ==
    IF o = <<>> THEN "warn"
    ELSE IF o[1] = <<>> \/ (\E i \in DOMAIN o[1] : ~Readable(o[1][i])) THEN "warn"
    ELSE IF AnyAt(o[1], 95) THEN "fail"
    ELSE IF AnyAt(o[1], 85) THEN "warn" ELSE "ok"

desired(s) == IF s.replicas = <<>> THEN 1 ELSE s.replicas[1]

\* What the other checks ask of what they have read.
network(interface)   == interface \notin {"none", "utun"}
dns(addresses)       == addresses > 0
docker(wellFormed)   == wellFormed
kind(nodes)          == nodes # <<>> /\ Cardinality({i \in DOMAIN nodes : nodes[i]}) = Len(nodes)
registry(httpStatus) == httpStatus = 200
disk(free, minimum)  == free >= minimum
deployment(s)        == desired(s) # 0 /\ s.ready >= desired(s)

Passes(c, x, m) ==
    CASE c = "network"  -> network(x)
      [] c = "dns"      -> dns(x)
      [] c = "docker"   -> docker(x)
      [] c = "kind"     -> kind(x)
      [] c = "registry" -> registry(x)
      [] c = "disk"     -> disk(x, m)
      [] OTHER          -> deployment(x)

Outcome(c, o, m) ==
    IF c = "resources" THEN Metrics(o)
    ELSE IF c = "network" /\ o = <<"utun">> THEN "warn"
    ELSE IF o # <<>> /\ Passes(c, o[1], m) THEN "ok" ELSE "fail"

-----------------------------------------------------------------------------
(* One call *)

Nothing == [c \in Check |-> ""]

Init ==
    /\ world \in World
    /\ tool = "doctor" /\ asked = <<>> /\ min = 0
    /\ caller = "idle" /\ ended = FALSE
    /\ worker = [c \in Check |-> "off"] /\ checks = Nothing /\ saw = [c \in Check |-> <<>>]
    /\ answer = "none" /\ timeouts = 0

\* The checks of a tool: the preflight names no Deployments.
Tasks(t) == IF t = "preflight" THEN Fixed ELSE Check

\* Only kuchdesk_doctor takes a minimum; 0 is the default.
Minimum(t, given) == IF t = "doctor" /\ given # 0 THEN given ELSE defaultMinDisk

\* Run starts a goroutine for each check.
Call(t, ids, given) ==
    /\ caller = "idle"
    /\ caller' = "running"
    /\ tool' = t /\ asked' = ids /\ min' = Minimum(t, given)
    /\ worker' = [c \in Check |-> IF c \in Tasks(t) THEN "waiting" ELSE "off"]
    /\ UNCHANGED <<world, ended, checks, saw, answer, timeouts>>

Working == {c \in Check : worker[c] = "checking"}

\* There is a place: len(gate) < cap(gate).
HasRoom == Cardinality(Working) < Slots

Moves(c, to) == worker' = [worker EXCEPT ![c] = to]

\* gate <- struct{}{}.
Enter(c) ==
    /\ worker[c] = "waiting" /\ HasRoom
    /\ Moves(c, "checking")
    /\ UNCHANGED <<world, request, caller, ended, checks, saw, answer, timeouts>>

GiveUpQuietly(c) ==
    /\ worker[c] = "waiting" /\ ended
    /\ Moves(c, "gone")
    /\ UNCHANGED <<world, request, caller, ended, checks, saw, answer, timeouts>>

\* The context ends before there is a place: the check is written as canceled.
GiveUp(c) ==
    /\ worker[c] = "waiting" /\ ended
    /\ checks' = [checks EXCEPT ![c] = "fail"]
    /\ Moves(c, "gone")
    /\ UNCHANGED <<world, request, caller, ended, saw, answer, timeouts>>

Writes(c, o) ==
    /\ checks' = [checks EXCEPT ![c] = Outcome(c, o, min)]
    /\ saw' = [saw EXCEPT ![c] = o]
    /\ Moves(c, "gone")

\* Only statfs takes no context, and may not return.
Returns(c) == c = "disk" => world[c] # Hangs

\* The command, lookup or request of the check returns, its outcome is written, and
\* the place and the count of the group are given back.
Checked(c) ==
    /\ worker[c] = "checking"
    /\ \/ Returns(c) /\ Writes(c, world[c]) /\ UNCHANGED timeouts
       \/ c # "disk" /\ ended /\ Writes(c, <<>>) /\ UNCHANGED timeouts
       \/ /\ c # "disk" /\ timeouts < MaxTimeouts
          /\ timeouts' = timeouts + 1 /\ Writes(c, <<>>)
    /\ UNCHANGED <<world, request, caller, ended, answer>>

-----------------------------------------------------------------------------
(* The answers *)

Healthy == \A c \in Tasks(tool) : checks[c] \in {"ok", "warn"}

\* Workflow.Check: a warning blocks a deployment.
Ready == \A c \in Tasks(tool) : checks[c] = "ok"

KnownAndOnce ==
    /\ asked # <<>>
    /\ \A i \in DOMAIN asked : asked[i] \in Tasks(tool)
    /\ \A i, j \in DOMAIN asked : i # j => asked[i] # asked[j]

\* What the tool says of the report.
Says ==
    CASE tool = "doctor" -> IF Healthy THEN "healthy" ELSE "unhealthy"
      [] tool = "preflight" -> IF Ready THEN "ready" ELSE "blocked"
      [] OTHER ->
            IF ~KnownAndOnce THEN "refused"
            ELSE IF \A i \in DOMAIN asked : checks[asked[i]] = "ok" THEN "verified" ELSE "unverified"

Answers ==
    /\ answer' = Says /\ caller' = "answered"
    /\ UNCHANGED <<world, request, ended, worker, checks, saw, timeouts>>

AllGone == \A c \in Tasks(tool) : worker[c] = "gone"

\* workers.Wait() returns; the report is summed up.
Report ==
    /\ caller = "running" /\ AllGone
    /\ Answers

-----------------------------------------------------------------------------
\* The client cancels, or the deadline of the call is over.
Cancel ==
    /\ caller = "running" /\ ~ended
    /\ ended' = TRUE
    /\ UNCHANGED <<world, request, caller, worker, checks, saw, answer, timeouts>>

Called == \/ \E m \in MinFree : Call("doctor", <<>>, m)
          \/ \E ids \in Asked : Call("verify", ids, 0)
          \/ Call("preflight", <<>>, 0)

Step(c) == Enter(c) \/ GiveUp(c) \/ Checked(c)

Next == Called \/ (\E c \in Check : Step(c)) \/ Report \/ Cancel

Spec == Init /\ [][Next]_vars

-----------------------------------------------------------------------------
Position == {"off", "waiting", "checking", "gone"}
Status   == {"ok", "warn", "fail"}

TypeOK ==
    /\ ended \in BOOLEAN
    /\ tool \in Tool /\ min \in Nat
    /\ caller \in {"idle", "running", "answered"}
    /\ worker \in [Check -> Position]
    /\ checks \in [Check -> Status \cup {""}]
    /\ timeouts \in 0..MaxTimeouts

\* A report has an outcome for every check, whichever of them were cancelled while
\* they waited for a place, and no goroutine is left that could still write one.
ReportComplete ==
    caller = "answered" => \A c \in Tasks(tool) : checks[c] \in Status /\ worker[c] = "gone"

\* At most Slots checks are at work at once.
GateRespected == Cardinality(Working) <= Slots

\* Every place is given back and everyone waited for comes: of a call that runs the
\* report can be made, or a check returns, or one that waits finds a place, but for a
\* disk that hangs.
NobodyStuck ==
    caller = "running" /\ world["disk"] # Hangs =>
        \/ AllGone
        \/ \E c \in Tasks(tool) : \/ worker[c] = "checking" /\ Returns(c)
                                  \/ worker[c] = "waiting" /\ HasRoom

\* What is well, by its meaning.
Well(c, x, m) ==
    CASE c = "network"  -> x = "en0"
      [] c = "dns"      -> x \in Nat \ {0}
      [] c = "docker"   -> x = TRUE
      [] c = "kind"     -> x # <<>> /\ FALSE \notin {x[i] : i \in DOMAIN x}
      [] c = "registry" -> x = 200
      [] c = "disk"     -> ~(x < m)
      [] c = "resources" -> /\ x # <<>>
                            /\ \A i \in DOMAIN x : x[i] # <<>> /\ x[i][1] < 85 /\ x[i][2] < 85
      [] OTHER -> x.ready > 0 /\ (x.replicas # <<>> => x.ready >= x.replicas[1] /\ x.replicas[1] > 0)

SeenWell(c) == saw[c] # <<>> /\ Well(c, saw[c][1], min)

\* An answer that lets somebody go on rests on what was seen in this very call: a
\* preflight that is ready has seen everything well, a verification that succeeds
\* the checks it was asked for, and a healthy report nothing worse than a VPN, a
\* high load or missing metrics; not a check that was cancelled, timed out or
\* answered with something unreadable.
AnswersRestOnEvidence ==
    /\ \A c \in Check : checks[c] = "ok" => SeenWell(c)
    /\ answer = "ready" => \A c \in Fixed : SeenWell(c)
    /\ answer = "verified" => asked # <<>> /\ \A i \in DOMAIN asked : SeenWell(asked[i])
    /\ answer = "healthy" => \A c \in Check \ {"network", "resources"} : SeenWell(c)
=============================================================================
