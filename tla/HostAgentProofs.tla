--------------------------- MODULE HostAgentProofs ---------------------------
(***************************************************************************)
(* For any Deployments, any number of places and anything the checks may   *)
(* observe: the gate of the Doctor holds, and a report is complete.  A     *)
(* goroutine that is gone has written an outcome, and only of tasks of the *)
(* call is there a goroutine: that makes ReportComplete inductive.         *)
(*                                                                         *)
(* For any applies, sources and nodes besides: no command of a deployment  *)
(* runs before every check of its preflight was seen well.  The doctor of  *)
(* HostDeployment is that of DoctorReport, so what holds of its answers    *)
(* holds here; an apply that has started tells that it was "ready".  What  *)
(* is deployed is what was planned and built: where an apply is tells what *)
(* it has reported, which image it works on and which nodes are prepared,  *)
(* whatever the other applies and the developer do (DeployInv).            *)
(*                                                                         *)
(* For any addresses, networks, capacity of the channel and number of      *)
(* faults and changes: a run of the agent that reports success has found   *)
(* or written the machine's address, its port-forward ends with it, and    *)
(* without a failure it leaves no session.  The argument: an address is    *)
(* held from the moment it is looked up (SuccessInv), and nothing but a    *)
(* failure or stop ends kubectl, so that the logout gets through           *)
(* (SmoothInv).                                                            *)
(***************************************************************************)
EXTENDS HostDeployment, HostReconcile, FiniteSetTheorems, TLAPS

-----------------------------------------------------------------------------
(* The doctor *)

\* What the goroutines of a call have left behind.
Written ==
    /\ \A c \in Check : worker[c] = "gone" => checks[c] \in Status
    /\ caller \in {"running", "answered"} => \A c \in Tasks(tool) : worker[c] # "off"
    /\ caller = "answered" => \A c \in Tasks(tool) : worker[c] = "gone"

\* The gate, with the finiteness its cardinality needs.
Gate == IsFiniteSet(Working) /\ GateRespected

IInv == TypeOK /\ Written /\ Gate

-----------------------------------------------------------------------------
\* Every branch of a check gives one of the three outcomes (doctor.go:308-316).
LEMMA OutcomeIsStatus ==
    ASSUME NEW c, NEW o, NEW n
    PROVE  Outcome(c, o, n) \in Status
BY DEF Outcome, Metrics, Status

\* The tasks of every tool are checks (doctor.go:247-259).
LEMMA TasksAreChecks == \A t : Tasks(t) \subseteq Check
BY DEF Tasks, Check

\* Before the first call no goroutine exists.
LEMMA InitIInv == Init => IInv
<1> SUFFICES ASSUME Init PROVE IInv
    OBVIOUS
<1>1. TypeOK
    <2>1. timeouts \in 0..MaxTimeouts
        BY DoctorAssumption DEF Init
    <2> QED
        BY <2>1 DEF Init, TypeOK, Nothing, Tool, Position, Status
<1>2. Written
    BY DEF Init, Written
<1>3. Working = {}
    BY DEF Init, Working
<1>4. Gate
    BY <1>3, FS_EmptySet, DoctorAssumption DEF Gate, GateRespected
<1> QED
    BY <1>1, <1>2, <1>4 DEF IInv

\* Fewer goroutines at work than before still pass the gate.
LEMMA FewerPass ==
    ASSUME Gate, Working' \subseteq Working PROVE Gate'
<1>1. IsFiniteSet(Working') /\ Cardinality(Working') <= Cardinality(Working)
    BY FS_Subset DEF Gate
<1>2. Cardinality(Working) \in Nat /\ Cardinality(Working') \in Nat
    BY <1>1, FS_CardinalityType DEF Gate
<1> QED
    BY <1>1, <1>2, DoctorAssumption DEF Gate, GateRespected

\* The inductive step, action by action.
LEMMA NextIInv == IInv /\ [Next]_vars => IInv'
<1> SUFFICES ASSUME IInv, [Next]_vars PROVE IInv'
    OBVIOUS
<1> USE DEF IInv
<1>1. CASE UNCHANGED vars
    <2>1. TypeOK' /\ Written'
        BY <1>1 DEF TypeOK, Written, vars, request, Tasks
    <2>2. Working' \subseteq Working
        BY <1>1 DEF Working, vars
    <2> QED
        BY <2>1, <2>2, FewerPass
<1>2. CASE Called
    <2> PICK t \in Tool, ids \in Asked \cup {<<>>}, n \in Nat : Call(t, ids, n)
        BY <1>2, DoctorAssumption DEF Called, Tool
    <2>1. TypeOK'
        BY DEF Call, TypeOK, Minimum, defaultMinDisk, Position, Tool
    <2>2. Written'
        BY TasksAreChecks DEF Call, Written, TypeOK
    <2>3. Working' \subseteq Working
        BY DEF Call, Working
    <2> QED
        BY <2>1, <2>2, <2>3, FewerPass
<1>3. ASSUME NEW c \in Check, Enter(c) PROVE IInv'
    <2>1. TypeOK' /\ Written'
        BY <1>3, TasksAreChecks DEF Enter, Moves, TypeOK, Written, Position, request, Tasks
    <2>2. Working' = Working \cup {c} /\ c \notin Working
        BY <1>3 DEF Enter, Moves, Working, TypeOK
    <2>3. IsFiniteSet(Working') /\ Cardinality(Working') = Cardinality(Working) + 1
        BY <2>2, FS_AddElement DEF Gate
    <2>4. Cardinality(Working) < Slots /\ Cardinality(Working) \in Nat
        BY <1>3, FS_CardinalityType DEF Enter, HasRoom, Gate
    <2> QED
        BY <2>1, <2>3, <2>4, DoctorAssumption DEF Gate, GateRespected
<1>4. ASSUME NEW c \in Check, GiveUp(c) PROVE IInv'
    <2>1. TypeOK' /\ Written'
        BY <1>4, TasksAreChecks DEF GiveUp, Moves, TypeOK, Written, Position, Status, request, Tasks
    <2>2. Working' \subseteq Working
        BY <1>4 DEF GiveUp, Moves, Working, TypeOK
    <2> QED
        BY <2>1, <2>2, FewerPass
<1>5. ASSUME NEW c \in Check, Checked(c) PROVE IInv'
    <2>1. PICK o : Writes(c, o)
        BY <1>5 DEF Checked
    <2>2. timeouts' \in 0..MaxTimeouts
        <3>1. timeouts' = timeouts \/ (timeouts < MaxTimeouts /\ timeouts' = timeouts + 1)
            BY <1>5 DEF Checked
        <3>2. timeouts \in 0..MaxTimeouts
            BY DEF TypeOK
        <3> QED
            BY <3>1, <3>2, DoctorAssumption
    <2>3. UNCHANGED <<request, caller, ended>> /\ worker[c] = "checking"
        BY <1>5 DEF Checked
    <2>4. checks' = [checks EXCEPT ![c] = Outcome(c, o, min)] /\ Outcome(c, o, min) \in Status
        BY <2>1, OutcomeIsStatus DEF Writes
    <2>5. worker' = [worker EXCEPT ![c] = "gone"]
        BY <2>1 DEF Writes, Moves
    <2>6. TypeOK' /\ Written'
        BY <2>2, <2>3, <2>4, <2>5, TasksAreChecks DEF TypeOK, Written, Position, request, Tasks
    <2>7. Working' \subseteq Working
        BY <2>5 DEF Working, TypeOK
    <2> QED
        BY <2>6, <2>7, FewerPass
<1>6. CASE Report
    <2>1. TypeOK' /\ Written'
        BY <1>6 DEF Report, AllGone, Answers, TypeOK, Written, request, Tasks
    <2>2. Working' \subseteq Working
        BY <1>6 DEF Report, Answers, Working
    <2> QED
        BY <2>1, <2>2, FewerPass
<1>7. CASE Cancel
    <2>1. TypeOK' /\ Written'
        BY <1>7 DEF Cancel, TypeOK, Written, request, Tasks
    <2>2. Working' \subseteq Working
        BY <1>7 DEF Cancel, Working
    <2> QED
        BY <2>1, <2>2, FewerPass
<1> QED
    BY <1>1, <1>2, <1>3, <1>4, <1>5, <1>6, <1>7 DEF Next, Step

-----------------------------------------------------------------------------
(* Evidence: an outcome says what was seen, and an answer what the outcomes say. *)

Observation(c, o) == o = <<>> \/ Legible(c, o[1])

\* All nodes are counted exactly when each of them is ready (doctor.go:375-405).
LEMMA CountedAreAll ==
    ASSUME NEW x \in Seq(BOOLEAN), kind(x)
    PROVE  FALSE \notin {x[i] : i \in DOMAIN x}
<1> DEFINE R == {i \in DOMAIN x : x[i]}
<1>1. Len(x) \in Nat /\ DOMAIN x = 1..Len(x)
    OBVIOUS
<1>2. IsFiniteSet(DOMAIN x) /\ Cardinality(DOMAIN x) = Len(x)
    <2>1. IsFiniteSet(1..Len(x)) /\ Cardinality(1..Len(x)) = IF 1 > Len(x) THEN 0 ELSE Len(x) - 1 + 1
        BY <1>1, FS_Interval
    <2> QED
        BY <1>1, <2>1
<1>3. R \subseteq DOMAIN x /\ Cardinality(R) = Cardinality(DOMAIN x)
    BY <1>2 DEF kind
<1>4. R = DOMAIN x
    BY <1>2, <1>3, FS_Subset
<1> QED
    BY <1>4

\* An outcome that is ok has been seen, and was well (doctor.go:327-511).
LEMMA OkIsWell ==
    ASSUME NEW c \in Check, NEW n \in Nat, NEW o, Observation(c, o), Outcome(c, o, n) = "ok"
    PROVE  o # <<>> /\ Well(c, o[1], n)
<1>1. CASE c = "resources"
    <2>1. o # <<>> /\ o[1] # <<>> /\ o[1] \in Seq(Seq(Int))
        BY <1>1 DEF Outcome, Metrics, Observation, Legible
    <2>2. \A i \in DOMAIN o[1] : Readable(o[1][i])
        BY <1>1 DEF Outcome, Metrics
    <2>3. ~AnyAt(o[1], 85)
        BY <1>1 DEF Outcome, Metrics
    <2>4. ASSUME NEW i \in DOMAIN o[1]
          PROVE  o[1][i] # <<>> /\ o[1][i][1] < 85 /\ o[1][i][2] < 85
        <3>1. o[1][i] # <<>> /\ o[1][i][1] \in 0..100 /\ o[1][i][2] \in 0..100
            BY <2>2 DEF Readable
        <3>2. ~(o[1][i][1] >= 85) /\ ~(o[1][i][2] >= 85)
            BY <2>3 DEF AnyAt
        <3>3. \A load \in 0..100 : ~(load >= 85) => load < 85
            OBVIOUS
        <3> QED
            BY <3>1, <3>2, <3>3
    <2> QED
        BY <1>1, <2>1, <2>4 DEF Well
<1>2. CASE c # "resources"
    <2>1. o # <<>> /\ Passes(c, o[1], n) /\ Legible(c, o[1])
        BY <1>2 DEF Outcome, Observation
    <2>2. CASE c = "network"
        BY <2>1, <2>2 DEF Passes, network, Legible, Well
    <2>3. CASE c = "dns"
        BY <2>1, <2>3 DEF Passes, dns, Legible, Well
    <2>4. CASE c = "docker"
        BY <2>1, <2>4 DEF Passes, docker, Legible, Well
    <2>5. CASE c = "kind"
        <3>1. kind(o[1]) /\ o[1] \in Seq(BOOLEAN)
            BY <2>1, <2>5 DEF Passes, Legible
        <3>2. FALSE \notin {o[1][i] : i \in DOMAIN o[1]}
            BY <3>1, CountedAreAll
        <3> QED
            BY <2>1, <2>5, <3>1, <3>2 DEF kind, Well
    <2>6. CASE c = "registry"
        BY <2>1, <2>6 DEF Passes, registry, Well
    <2>7. CASE c = "disk"
        <3>1. o[1] >= n /\ o[1] \in Int
            BY <2>1, <2>7 DEF Passes, disk, Legible
        <3>2. \A free \in Int : free >= n => ~(free < n)
            OBVIOUS
        <3>3. ~(o[1] < n)
            BY <3>1, <3>2
        <3> QED
            BY <2>1, <2>7, <3>3 DEF Well
    <2>8. CASE c \notin Fixed
        <3> DEFINE s == o[1]
        <3>1. deployment(s) /\ s.ready \in Nat /\ (s.replicas # <<>> => s.replicas[1] \in Nat)
            BY <2>1, <2>8 DEF Passes, Legible, Fixed
        <3>2. desired(s) \in Nat
            BY <3>1 DEF desired
        <3>3. desired(s) # 0 /\ s.ready >= desired(s)
            BY <3>1 DEF deployment
        <3>4. \A want, have \in Nat : want # 0 /\ have >= want => have > 0 /\ want > 0
            OBVIOUS
        <3>5. s.ready > 0 /\ desired(s) > 0
            BY <3>1, <3>2, <3>3, <3>4
        <3>6. s.replicas # <<>> => s.ready >= s.replicas[1] /\ s.replicas[1] > 0
            BY <3>3, <3>5 DEF desired
        <3> QED
            BY <2>1, <2>8, <3>5, <3>6 DEF Well, Fixed
    <2> QED
        BY <1>2, <2>2, <2>3, <2>4, <2>5, <2>6, <2>7, <2>8 DEF Fixed
<1> QED
    BY <1>1, <1>2

\* Only a VPN, a high load or missing metrics are a warning (doctor.go:340, 442-484).
LEMMA WarningsAreMinor ==
    ASSUME NEW c, NEW o, NEW n, Outcome(c, o, n) = "warn"
    PROVE  c \in {"network", "resources"}
BY DEF Outcome

\* What the outcomes of a call rest on.
Evidence ==
    /\ world \in World /\ saw = [c \in Check |-> saw[c]]
    /\ \A c \in Check : checks[c] = "ok" => SeenWell(c)
    /\ \A c \in Check : checks[c] = "warn" => c \in {"network", "resources"}

\* What is there before the call, and what is left after it.
Stages ==
    /\ caller = "idle" => checks = Nothing /\ worker = [c \in Check |-> "off"]
    /\ caller # "answered" => answer = "none"
    /\ \A c \in Check : worker[c] # "off" => c \in Tasks(tool)
    /\ caller = "answered" => answer = Says

EInv == IInv /\ Evidence /\ Stages

\* Before the call.
LEMMA InitEInv == Init => EInv
BY InitIInv DEF Init, EInv, Evidence, Stages, Nothing

\* Once the call is answered nothing is left that could move.
LEMMA AnsweredIsOver ==
    ASSUME IInv, Stages, caller = "answered", NEW c \in Check
    PROVE  worker[c] \in {"off", "gone"}
BY DEF IInv, Written, Stages

\* The inductive step.
LEMMA NextEInv == EInv /\ [Next]_vars => EInv'
<1> SUFFICES ASSUME EInv, [Next]_vars PROVE Evidence' /\ Stages'
    BY NextIInv DEF EInv
<1> USE DEF EInv
<1>1. CASE UNCHANGED vars
    BY <1>1 DEF Evidence, Stages, SeenWell, Says, Healthy, Ready, KnownAndOnce, Tasks, vars, request
<1>2. CASE Called
    <2> PICK t \in Tool, ids \in Asked \cup {<<>>}, n \in Nat : Call(t, ids, n)
        BY <1>2, DoctorAssumption DEF Called, Tool
    <2>1. \A c \in Check : checks'[c] = ""
        BY DEF Call, Stages, Nothing
    <2>2. Evidence'
        BY <2>1 DEF Call, Evidence
    <2>3. Stages'
        BY DEF Call, Stages, Tasks
    <2> QED
        BY <2>2, <2>3
<1>3. ASSUME NEW c \in Check, Step(c)
      PROVE  Evidence' /\ Stages'
    <2>1. worker[c] \in {"waiting", "checking"} /\ UNCHANGED <<world, request, caller, answer>>
        BY <1>3 DEF Step, Enter, GiveUp, Checked
    <2>2. caller = "running"
        <3>1. caller # "idle"
            BY <2>1 DEF Stages
        <3>2. caller # "answered"
            BY <2>1, AnsweredIsOver
        <3> QED
            BY <3>1, <3>2 DEF IInv, TypeOK
    <2>3. \E to \in Position : worker' = [worker EXCEPT ![c] = to]
        BY <1>3 DEF Step, Enter, GiveUp, Checked, Writes, Moves, Position
    <2>4. Stages'
        BY <2>1, <2>2, <2>3 DEF Stages, IInv, TypeOK, request, Tasks
    <2>5. CASE Enter(c)
        BY <2>4, <2>5 DEF Enter, Evidence, SeenWell, request
    <2>6. CASE GiveUp(c)
        <3>1. checks' = [checks EXCEPT ![c] = "fail"] /\ UNCHANGED <<saw, min, world>>
            BY <2>6 DEF GiveUp, request
        <3> QED
            BY <2>4, <3>1 DEF Evidence, SeenWell, IInv, TypeOK
    <2>7. CASE Checked(c)
        <3>1. PICK o : Writes(c, o) /\ o \in {<<>>, world[c]}
            BY <2>7 DEF Checked
        <3>2. Observation(c, o)
            BY <3>1, WorldAssumption DEF Evidence, Observation
        <3>3. /\ checks' = [checks EXCEPT ![c] = Outcome(c, o, min)]
              /\ saw' = [saw EXCEPT ![c] = o]
            BY <3>1 DEF Writes
        <3>4. UNCHANGED <<min, world>> /\ min \in Nat
            BY <2>1 DEF request, IInv, TypeOK
        <3>5. /\ checks'[c] = Outcome(c, o, min)
              /\ \A d \in Check \ {c} : checks'[d] = checks[d] /\ saw'[d] = saw[d]
            BY <3>3 DEF IInv, TypeOK, Evidence
        <3>6. ASSUME checks'[c] = "ok" PROVE SeenWell(c)'
            <4>1. o # <<>> /\ Well(c, o[1], min)
                BY <3>2, <3>4, <3>5, <3>6, OkIsWell
            <4>2. saw'[c] = o /\ min' = min
                BY <3>3, <3>4 DEF Evidence
            <4> QED
                BY <4>1, <4>2 DEF SeenWell
        <3>7. checks'[c] = "warn" => c \in {"network", "resources"}
            BY <3>5, WarningsAreMinor
        <3>8. \A d \in Check \ {c} : checks'[d] = "ok" => SeenWell(d)'
            BY <3>4, <3>5 DEF SeenWell, Evidence
        <3>9. saw' = [d \in Check |-> saw'[d]]
            BY <3>3 DEF Evidence
        <3> QED
            BY <2>4, <3>4, <3>5, <3>6, <3>7, <3>8, <3>9 DEF Evidence
    <2> QED
        BY <1>3, <2>4, <2>5, <2>6, <2>7 DEF Step
<1>4. CASE Report
    BY <1>4 DEF Report, Answers, Evidence, Stages, SeenWell, Says, Healthy, Ready, KnownAndOnce,
                Tasks, request
<1>5. CASE Cancel
    BY <1>5 DEF Cancel, Evidence, Stages, SeenWell, Tasks, request
<1> QED
    BY <1>1, <1>2, <1>3, <1>4, <1>5 DEF Next

-----------------------------------------------------------------------------
\* The inductive invariant of the Doctor.
THEOREM DoctorInvariance == Spec => []EInv
BY InitEInv, NextEInv, PTL DEF Spec

\* However many checks a configuration names, at most Slots of them are at work at
\* once (doctor.go:261-269).
THEOREM GateHolds == Spec => []GateRespected
<1>1. EInv => GateRespected
    BY DEF EInv, IInv, Gate
<1> QED
    BY <1>1, DoctorInvariance, PTL

\* A report has an outcome for every check of its call, cancelled ones included, and no
\* goroutine is left that could write to it (doctor.go:267-287).
THEOREM ReportsComplete == Spec => []ReportComplete
<1>1. EInv => ReportComplete
    BY TasksAreChecks DEF EInv, IInv, Written, ReportComplete
<1> QED
    BY <1>1, DoctorInvariance, PTL

\* A preflight that is ready, a verification that succeeds and a healthy report rest on
\* what their own call has seen (doctor.go:233-306, mcpserver/doctor.go, workflow.go:217).
THEOREM AnswersRest == Spec => []AnswersRestOnEvidence
<1>1. EInv => AnswersRestOnEvidence
    <2> SUFFICES ASSUME EInv PROVE AnswersRestOnEvidence
        OBVIOUS
    <2> USE DEF EInv
    <2>1. answer # "none" => caller = "answered" /\ answer = Says
        BY DEF Stages
    <2>2. \A c \in Check : checks[c] = "ok" => SeenWell(c)
        BY DEF Evidence
    <2>3. ASSUME answer = "ready" PROVE \A c \in Fixed : SeenWell(c)
        <3>1. tool = "preflight" /\ Ready
            BY <2>1, <2>3 DEF Says
        <3> QED
            BY <2>2, <3>1 DEF Ready, Tasks, Check
    <2>4. ASSUME answer = "verified"
          PROVE  asked # <<>> /\ \A i \in DOMAIN asked : SeenWell(asked[i])
        <3>1. KnownAndOnce /\ \A i \in DOMAIN asked : checks[asked[i]] = "ok"
            BY <2>1, <2>4 DEF Says
        <3> QED
            BY <2>2, <3>1, TasksAreChecks DEF KnownAndOnce
    <2>5. ASSUME answer = "healthy"
          PROVE  \A c \in Check \ {"network", "resources"} : SeenWell(c)
        <3>1. tool = "doctor" /\ Healthy
            BY <2>1, <2>5 DEF Says
        <3>2. \A c \in Check : checks[c] \in {"ok", "warn"}
            BY <3>1 DEF Healthy, Tasks
        <3> QED
            BY <2>2, <3>2 DEF Evidence
    <2> QED
        BY <2>2, <2>3, <2>4, <2>5 DEF AnswersRestOnEvidence
<1> QED
    BY <1>1, DoctorInvariance, PTL

-----------------------------------------------------------------------------
(* The deployment *)

\* Nobody has started an apply but on a preflight that was ready.
StartedOnReady == (\E a \in Apply : pc[a] # "off") => answer = "ready"

-----------------------------------------------------------------------------
\* Each step is one of the doctor or leaves it alone.
LEMMA StepsOfDoctor == [HostNext]_hostVars => [Next]_vars
<1> SUFFICES ASSUME [HostNext]_hostVars PROVE [Next]_vars
    OBVIOUS
<1>1. CASE UNCHANGED hostVars \/ (Deploy /\ UNCHANGED vars)
    BY <1>1 DEF hostVars
<1>2. CASE Called \/ (\E c \in Check : Step(c)) \/ Report \/ Cancel
    BY <1>2 DEF Next
<1> QED
    BY <1>1, <1>2 DEF HostNext

\* The doctor of a deployment is the doctor (workflow.go:193-226).
THEOREM DeploymentUsesDoctor == HostSpec => Spec
<1>1. HostInit => Init
    BY DEF HostInit
<1> QED
    BY <1>1, StepsOfDoctor, PTL DEF HostSpec, Spec

\* Before the first preflight no apply has started.
LEMMA InitStarted == HostInit => StartedOnReady
BY DEF HostInit, Workflow!Init, StartedOnReady

\* The answer "ready" is given once, and stays.
LEMMA StartedStep ==
    EInv /\ StartedOnReady /\ [HostNext]_hostVars => StartedOnReady'
<1> SUFFICES ASSUME EInv, StartedOnReady, [HostNext]_hostVars PROVE StartedOnReady'
    OBVIOUS
<1>1. CASE UNCHANGED hostVars
    BY <1>1 DEF hostVars, vars, workflowVars, StartedOnReady
<1>2. CASE (Called \/ (\E c \in Check : Step(c)) \/ Cancel) /\ UNCHANGED workflowVars
    <2>1. UNCHANGED <<answer, pc>>
        BY <1>2 DEF Called, Call, Step, Enter, GiveUp, Checked, Cancel, workflowVars
    <2> QED
        BY <2>1 DEF StartedOnReady
<1>3. CASE Report /\ IF tool = "preflight" THEN Looked ELSE UNCHANGED workflowVars
    <2>1. answer = "none" /\ UNCHANGED pc
        BY <1>3 DEF Report, EInv, Stages, Looked, workflowVars
    <2> QED
        BY <2>1 DEF StartedOnReady
<1>4. CASE Deploy /\ UNCHANGED vars
    BY <1>4 DEF Deploy, vars, StartedOnReady
<1> QED
    BY <1>1, <1>2, <1>3, <1>4 DEF HostNext

-----------------------------------------------------------------------------
\* No command of a deployment runs before every check of its preflight was seen well:
\* one that was cancelled, timed out or only warned stops it (workflow.go:193-226).
THEOREM PreflightIsFirst == HostSpec => []PreflightFirst
<1>1. HostSpec => []EInv
    BY DeploymentUsesDoctor, DoctorInvariance, PTL
<1>2. HostSpec => []AnswersRestOnEvidence
    BY DeploymentUsesDoctor, AnswersRest, PTL
<1>3. EInv /\ EInv' /\ StartedOnReady /\ [HostNext]_hostVars => StartedOnReady'
    BY StartedStep
<1>4. AnswersRestOnEvidence /\ StartedOnReady => PreflightFirst
    BY DEF AnswersRestOnEvidence, StartedOnReady, PreflightFirst
<1> QED
    BY <1>1, <1>2, <1>3, <1>4, InitStarted, PTL DEF HostSpec

-----------------------------------------------------------------------------
(* The commands of a deployment *)

Profile == [pushMode : {"docker", "host-crane"}, kindPrepull : BOOLEAN, test : BOOLEAN]

\* The step of a plan after s.
After(p, s) ==
    CASE s = "preflight" -> "revision"
      [] s = "revision"  -> "lint"
      [] s = "lint"      -> IF p.test THEN "test" ELSE "build"
      [] s = "test"      -> "build"
      [] s = "build"     -> IF p.pushMode = "host-crane" THEN "save" ELSE "push"
      [] s = "save"      -> "push"
      [] s = "push"      -> IF p.pushMode = "host-crane" THEN "craneDigest" ELSE "repoDigests"
      [] s = "nodes"     -> "fetch"
      [] s = "fetch"     -> "register"
      [] s = "register"  -> "template"
      [] s = "template"  -> "upgrade"
      [] s = "upgrade"   -> "rollout"
      [] OTHER           -> IF p.kindPrepull THEN "nodes" ELSE "template"

\* The first k steps of the plan have been reported, and the command that comes next
\* is of step k + 1; but for the second look of a revision, the wait of an upgrade and
\* the nodes after the first, which report nothing.
Reported(a, k) ==
    LET plan == Workflow!Plan(profile) IN
    /\ steps[a] = SubSeq(plan, 1, k)
    /\ pc[a] = "off" => k = 0
    /\ pc[a] = "status" => k > 0 /\ plan[k] = "revision"
    /\ pc[a] = "wait" => k > 0 /\ plan[k] = "upgrade"
    /\ pc[a] \in Workflow!Step =>
          \/ k < Len(plan) /\ plan[k + 1] = pc[a]
          \/ pc[a] \in {"fetch", "register"} /\ k > 0 /\ plan[k] = "register"

PlanInv == \A a \in Apply : \E k \in 0 .. Len(Workflow!Plan(profile)) : Reported(a, k)

Deploying == {"template", "upgrade", "wait", "rollout", "ok"}
Pinned    == {"nodes", "fetch", "register"} \cup Deploying
Built     == {"save", "push", "craneDigest", "repoDigests"} \cup Pinned

\* What a command works on is there.
ArtifactInv ==
    \A a \in Apply :
        /\ pc[a] \in Built => built[a] \in Workflow!Image /\ local \in Workflow!Image
        /\ pc[a] = "push" /\ profile.pushMode = "host-crane" => archive[a] \in Workflow!Image
        /\ pc[a] = "craneDigest" => remote \in Workflow!Image
        /\ pc[a] \in Pinned => digest[a] \in Workflow!Digest

\* The image of an apply that runs alone, from its build to its digest.
AloneInv ==
    /\ \A a, b \in Apply : a # b /\ {pc[a], pc[b]} \cap Workflow!Ended = {} => a \in shared
    /\ \A a \in Apply \ shared :
          /\ pc[a] \in {"save", "repoDigests"} => local = built[a]
          /\ pc[a] = "push" =>
                (IF profile.pushMode = "host-crane" THEN archive[a] ELSE local) = built[a]
          /\ pc[a] = "craneDigest" => remote = built[a]
          /\ pc[a] \in Pinned => digest[a] = [repo |-> "own", image |-> built[a]]

\* A node is prepared, or is still to be.
NodesInv ==
    \A a \in Apply :
        /\ pc[a] \in {"fetch", "register"} =>
              /\ left[a] # <<>>
              /\ \A n \in Node \ registered[a] : \E i \in 1 .. Len(left[a]) : left[a][i] = n
        /\ profile.kindPrepull /\ pc[a] \in Deploying => Node \subseteq registered[a]
        /\ pc[a] \notin Pinned \cup {"failed"} => registered[a] = {}
        /\ \A n \in registered[a] : digest[a].image \in cri[n]

\* Everything was built from the commit of the tag, or the tree has changed under a
\* build.
SourceInv ==
    ~torn => /\ local.src = tag /\ remote.src = tag
             /\ \A a \in Apply :
                   /\ archive[a].src = tag /\ digest[a].image.src = tag
                   /\ pc[a] = "status" => head = tag
                   /\ pc[a] \in {"lint", "test", "build"} => tree = tag

DeployInv ==
    /\ Workflow!TypeOK
    /\ profile \in Profile
    /\ PlanInv /\ ArtifactInv /\ AloneInv /\ NodesInv /\ SourceInv

\* Each step of a plan is there once, from the preflight to the rollout.
Orderly(p, plan) ==
    /\ plan \in Seq(Workflow!Step)
    /\ \A i, j \in 1 .. Len(plan) : plan[i] = plan[j] => i = j
    /\ Len(plan) > 1 /\ plan[1] = "preflight" /\ plan[Len(plan)] = "rollout"
    /\ \A i \in 1 .. Len(plan) - 1 : plan[i + 1] = After(p, plan[i])

LEMMA PlanIsOrderly ==
    ASSUME NEW p \in Profile
    PROVE  Orderly(p, Workflow!Plan(p))
<1>1. CASE p.pushMode = "docker" /\ p.kindPrepull /\ p.test
    BY <1>1 DEF Workflow!Plan, Workflow!Push, Workflow!Step, Orderly, After
<1>2. CASE p.pushMode = "docker" /\ ~p.kindPrepull /\ p.test
    BY <1>2 DEF Workflow!Plan, Workflow!Push, Workflow!Step, Orderly, After
<1>3. CASE p.pushMode = "host-crane" /\ p.kindPrepull /\ p.test
    BY <1>3 DEF Workflow!Plan, Workflow!Push, Workflow!Step, Orderly, After
<1>4. CASE p.pushMode = "host-crane" /\ ~p.kindPrepull /\ p.test
    BY <1>4 DEF Workflow!Plan, Workflow!Push, Workflow!Step, Orderly, After
<1>5. CASE p.pushMode = "docker" /\ p.kindPrepull /\ ~p.test
    BY <1>5 DEF Workflow!Plan, Workflow!Push, Workflow!Step, Orderly, After
<1>6. CASE p.pushMode = "docker" /\ ~p.kindPrepull /\ ~p.test
    BY <1>6 DEF Workflow!Plan, Workflow!Push, Workflow!Step, Orderly, After
<1>7. CASE p.pushMode = "host-crane" /\ p.kindPrepull /\ ~p.test
    BY <1>7 DEF Workflow!Plan, Workflow!Push, Workflow!Step, Orderly, After
<1>8. CASE p.pushMode = "host-crane" /\ ~p.kindPrepull /\ ~p.test
    BY <1>8 DEF Workflow!Plan, Workflow!Push, Workflow!Step, Orderly, After
<1> QED
    BY <1>1, <1>2, <1>3, <1>4, <1>5, <1>6, <1>7, <1>8 DEF Profile


\* Where an apply goes from s when nothing fails.
Leads(s, to) ==
    \/ s = "off" /\ to = "preflight"
    \/ s = "revision" /\ to = "status"
    \/ s = "status" /\ to = "lint"
    \/ s = "register" /\ to = "fetch"
    \/ s = "upgrade" /\ to = "wait"
    \/ s = "wait" /\ to = "rollout"
    \/ s = "rollout" /\ to = "ok"
    \/ s \in Workflow!Step \ {"revision", "upgrade", "rollout"} /\ to = After(profile, s)

\* A command moves its own apply only, and reports its step.
CommandMoves(a) ==
    /\ UNCHANGED <<profile, tree, head, torn, edits>>
    /\ UNCHANGED faults \/ Workflow!Fault
    /\ \E to : /\ pc' = [pc EXCEPT ![a] = to]
               /\ (to = "failed" /\ pc[a] # "off") \/ Leads(pc[a], to)
    /\ IF pc[a] \in {"off", "status", "wait"} THEN steps' = steps
       ELSE pc[a] \in Workflow!Step /\ Workflow!Reports(a, pc[a])

\* A command that leaves images and nodes alone.
Quiet(a) ==
    \/ Workflow!Start(a) \/ Workflow!Preflight(a) \/ Workflow!Revision(a) \/ Workflow!Status(a)
    \/ Workflow!Lint(a) \/ Workflow!Test(a) \/ Workflow!Template(a) \/ Workflow!Upgrade(a)
    \/ Workflow!UpgradeEnds(a) \/ Workflow!Rollout(a)

LEMMA CommandsMove ==
    ASSUME DeployInv, NEW a \in Apply, Workflow!Command(a)
    PROVE  CommandMoves(a)
<1> USE DEF CommandMoves, Leads, After, Workflow!Goes, Workflow!Fails, Workflow!Refuses, Workflow!At,
        Workflow!source, Workflow!docker, Workflow!cluster, Workflow!apply, Workflow!Step
<1>1. CASE Workflow!Start(a)
    BY <1>1 DEF Workflow!Start
<1>2. CASE Workflow!Preflight(a) \/ Workflow!Lint(a) \/ Workflow!Test(a) \/ Workflow!Template(a)
           \/ Workflow!Rollout(a)
    BY <1>2 DEF Workflow!Preflight, Workflow!Lint, Workflow!Test, Workflow!Template,
       Workflow!Rollout, Workflow!Reads
<1>3. CASE Workflow!Revision(a) \/ Workflow!Status(a)
    BY <1>3 DEF Workflow!Revision, Workflow!Status
<1>4. CASE Workflow!Upgrade(a) \/ Workflow!UpgradeEnds(a)
    BY <1>4 DEF Workflow!Upgrade, Workflow!UpgradeEnds
<1>5. CASE Workflow!Build(a) \/ Workflow!Save(a)
    BY <1>5 DEF Workflow!Build, Workflow!Save, Workflow!AfterBuild
<1>6. CASE Workflow!DoPush(a)
    BY <1>6 DEF Workflow!DoPush, Workflow!AfterPush
<1>7. CASE Workflow!ReadRepoDigests(a) \/ Workflow!CraneDigest(a)
    BY <1>7 DEF Workflow!ReadRepoDigests, Workflow!CraneDigest, Workflow!AfterDigest
<1>8. CASE Workflow!Nodes(a) \/ Workflow!Fetch(a)
    BY <1>8 DEF Workflow!Nodes, Workflow!Fetch
<1>9. CASE Workflow!Register(a)
    BY <1>9 DEF Workflow!Register
<1> QED
    BY <1>1, <1>2, <1>3, <1>4, <1>5, <1>6, <1>7, <1>8, <1>9 DEF Workflow!Command

LEMMA QuietLeaves ==
    ASSUME NEW a \in Apply, Quiet(a)
    PROVE  /\ UNCHANGED <<local, repoDigests, remote, ctr, cri>>
           /\ UNCHANGED <<archive, digest, left, built, registered>>
           /\ UNCHANGED shared \/ pc[a] = "off"
           /\ pc[a] \in {"off", "preflight", "revision", "status", "lint", "test", "template",
                         "upgrade", "wait", "rollout"}
<1> USE DEF Workflow!docker, Workflow!cluster, Workflow!apply, Workflow!At
<1>1. CASE Workflow!Start(a)
    BY <1>1 DEF Workflow!Start
<1>2. CASE Workflow!Preflight(a) \/ Workflow!Lint(a) \/ Workflow!Test(a) \/ Workflow!Template(a)
           \/ Workflow!Rollout(a)
    BY <1>2 DEF Workflow!Preflight, Workflow!Lint, Workflow!Test, Workflow!Template,
       Workflow!Rollout, Workflow!Reads
<1>3. CASE Workflow!Revision(a) \/ Workflow!Status(a)
    BY <1>3 DEF Workflow!Revision, Workflow!Status
<1>4. CASE Workflow!Upgrade(a) \/ Workflow!UpgradeEnds(a)
    BY <1>4 DEF Workflow!Upgrade, Workflow!UpgradeEnds
<1> QED
    BY <1>1, <1>2, <1>3, <1>4 DEF Quiet

\* A step is reported once, however often its command runs.
LEMMA ReportsNext ==
    ASSUME profile \in Profile, steps \in [Apply -> Seq(Workflow!Step)], NEW a \in Apply,
           NEW k \in 0 .. Len(Workflow!Plan(profile)), Reported(a, k),
           pc[a] \in Workflow!Step, Workflow!Reports(a, pc[a])
    PROVE  \E l \in 1 .. Len(Workflow!Plan(profile)) :
               /\ steps'[a] = SubSeq(Workflow!Plan(profile), 1, l)
               /\ \/ Workflow!Plan(profile)[l] = pc[a]
                  \/ pc[a] \in {"fetch", "register"} /\ Workflow!Plan(profile)[l] = "register"
<1>1. PICK plan \in Seq(Workflow!Step) : plan = Workflow!Plan(profile) /\ Orderly(profile, plan)
    BY PlanIsOrderly DEF Orderly
<1>2. /\ steps[a] = SubSeq(plan, 1, k) /\ k \in 0 .. Len(plan)
      /\ \/ k < Len(plan) /\ plan[k + 1] = pc[a]
         \/ pc[a] \in {"fetch", "register"} /\ k > 0 /\ plan[k] = "register"
    BY <1>1 DEF Reported
<1>3. steps'[a] = IF pc[a] \in Workflow!ToSet(steps[a]) THEN steps[a] ELSE Append(steps[a], pc[a])
    BY DEF Workflow!Reports
<1>4. SubSeq(plan, 1, k) \in Seq(Workflow!Step) /\ Len(SubSeq(plan, 1, k)) = k
      /\ \A i \in 1 .. k : SubSeq(plan, 1, k)[i] = plan[i]
    BY <1>1, <1>2
<1>5. \A s : s \in Workflow!ToSet(steps[a]) <=> \E i \in 1 .. k : plan[i] = s
    <2>1. PICK t \in Seq(Workflow!Step) : t = steps[a]
        OBVIOUS
    <2>2. Len(t) = k /\ \A i \in 1 .. k : t[i] = plan[i]
        BY <1>2, <1>4, <2>1
    <2>3. DOMAIN t = 1 .. k
        BY <2>1, <2>2
    <2>4. Workflow!ToSet(steps[a]) = {t[i] : i \in DOMAIN t}
        BY <2>1 DEF Workflow!ToSet
    <2> QED
        BY <2>2, <2>3, <2>4
<1>6. CASE k < Len(plan) /\ plan[k + 1] = pc[a]
    <2>1. pc[a] \notin Workflow!ToSet(steps[a])
        BY <1>1, <1>2, <1>5, <1>6 DEF Orderly
    <2>2. Append(SubSeq(plan, 1, k), plan[k + 1]) = SubSeq(plan, 1, k + 1)
        BY <1>1, <1>2, <1>6
    <2> QED
        BY <1>1, <1>2, <1>3, <1>6, <2>1, <2>2
<1>7. CASE pc[a] \in {"fetch", "register"} /\ k > 0 /\ plan[k] = "register"
    <2>1. k > 1 /\ plan[k - 1] = "fetch"
        <3>1. k # 1
            BY <1>1, <1>7 DEF Orderly
        <3>2. k - 1 \in 1 .. Len(plan) - 1
            BY <1>2, <1>7, <3>1
        <3>3. plan[k] = After(profile, plan[k - 1])
            BY <1>1, <3>2 DEF Orderly
        <3> QED
            BY <1>1, <1>7, <3>2, <3>3 DEF After, Profile
    <2>2. pc[a] \in Workflow!ToSet(steps[a])
        BY <1>2, <1>5, <1>7, <2>1
    <2> QED
        BY <1>1, <1>2, <1>3, <1>7, <2>2
<1> QED
    BY <1>2, <1>6, <1>7

LEMMA PlanStep ==
    ASSUME DeployInv, NEW a \in Apply, Workflow!Command(a)
    PROVE  PlanInv'
<1>1. profile \in Profile /\ PlanInv /\ steps \in [Apply -> Seq(Workflow!Step)]
      /\ pc \in [Apply -> Workflow!Step \cup Workflow!Ended \cup {"status", "wait"}]
    BY DEF DeployInv, Workflow!TypeOK
<1>2. CommandMoves(a)
    BY CommandsMove
<1>3. PICK plan \in Seq(Workflow!Step) : plan = Workflow!Plan(profile) /\ Orderly(profile, plan)
    BY <1>1, PlanIsOrderly DEF Orderly
<1>4. PICK to : /\ pc' = [pc EXCEPT ![a] = to]
                /\ (to = "failed" /\ pc[a] # "off") \/ Leads(pc[a], to)
    BY <1>2 DEF CommandMoves
<1>5. profile' = profile /\ Workflow!Plan(profile)' = plan /\ pc'[a] = to
    BY <1>1, <1>2, <1>3, <1>4 DEF CommandMoves
<1>6. \A b \in Apply \ {a} : pc'[b] = pc[b] /\ steps'[b] = steps[b]
    BY <1>1, <1>2, <1>4 DEF CommandMoves, Workflow!Reports
<1>7. ASSUME NEW b \in Apply \ {a} PROVE \E k \in 0 .. Len(plan) : Reported(b, k)'
    <2>1. PICK k \in 0 .. Len(plan) : Reported(b, k)
        BY <1>1, <1>3 DEF PlanInv
    <2> QED
        BY <1>3, <1>5, <1>6, <2>1 DEF Reported
<1>8. \E l \in 0 .. Len(plan) :
          /\ steps'[a] = SubSeq(plan, 1, l)
          /\ pc[a] = "off" => l = 0
          /\ pc[a] = "status" => l > 0 /\ plan[l] = "revision"
          /\ pc[a] = "wait" => l > 0 /\ plan[l] = "upgrade"
          /\ pc[a] \in Workflow!Step =>
                /\ l > 0
                /\ plan[l] = pc[a] \/ (pc[a] \in {"fetch", "register"} /\ plan[l] = "register")
    <2>1. PICK k \in 0 .. Len(plan) : Reported(a, k)
        BY <1>1, <1>3 DEF PlanInv
    <2>2. CASE pc[a] \in {"off", "status", "wait"}
        <3>1. steps' = steps
            BY <1>2, <2>2 DEF CommandMoves
        <3> QED
            BY <1>3, <2>1, <2>2, <3>1 DEF Reported, Workflow!Step
    <2>3. CASE pc[a] \notin {"off", "status", "wait"}
        <3>1. pc[a] \in Workflow!Step /\ Workflow!Reports(a, pc[a])
            BY <1>2, <2>3 DEF CommandMoves
        <3>2. k \in 0 .. Len(Workflow!Plan(profile))
            BY <1>3, <2>1
        <3>3. \E l \in 1 .. Len(Workflow!Plan(profile)) :
                 /\ steps'[a] = SubSeq(Workflow!Plan(profile), 1, l)
                 /\ \/ Workflow!Plan(profile)[l] = pc[a]
                    \/ pc[a] \in {"fetch", "register"} /\ Workflow!Plan(profile)[l] = "register"
            BY <1>1, <2>1, <3>1, <3>2, ReportsNext
        <3>4. PICK l \in 1 .. Len(plan) :
                 /\ steps'[a] = SubSeq(plan, 1, l)
                 /\ plan[l] = pc[a] \/ (pc[a] \in {"fetch", "register"} /\ plan[l] = "register")
            BY <1>3, <3>3
        <3>5. l \in 0 .. Len(plan) /\ l > 0
            BY <1>3
        <3> QED
            BY <2>3, <3>4, <3>5
    <2> QED
        BY <2>2, <2>3
<1>9. \E k \in 0 .. Len(plan) : Reported(a, k)'
    <2>1. PICK l \in 0 .. Len(plan) :
              /\ steps'[a] = SubSeq(plan, 1, l)
              /\ pc[a] = "off" => l = 0
              /\ pc[a] = "status" => l > 0 /\ plan[l] = "revision"
              /\ pc[a] = "wait" => l > 0 /\ plan[l] = "upgrade"
              /\ pc[a] \in Workflow!Step =>
                    /\ l > 0
                    /\ plan[l] = pc[a] \/ (pc[a] \in {"fetch", "register"} /\ plan[l] = "register")
        BY <1>8
    <2>2. l > 0 /\ plan[l] # "rollout" => l < Len(plan) /\ plan[l + 1] = After(profile, plan[l])
        BY <1>3, <2>1 DEF Orderly
    <2>3. pc[a] = "off" => plan[1] = "preflight" /\ 0 < Len(plan) /\ to = "preflight"
        BY <1>3, <1>4 DEF Orderly, Leads, Workflow!Step
    <2>4. CASE to = "failed"
        BY <1>3, <1>5, <2>1, <2>4 DEF Reported, Workflow!Step
    <2>6. CASE pc[a] = "off"
        <3>1. l = 0 /\ to = "preflight" /\ l < Len(plan) /\ plan[l + 1] = to
            BY <2>1, <2>3, <2>6
        <3> QED
            BY <1>3, <1>5, <2>1, <3>1 DEF Reported, Workflow!Step
    <2>5. CASE pc[a] # "off" /\ Leads(pc[a], to)
        BY <1>5, <2>1, <2>2, <2>5 DEF Reported, Leads, After, Workflow!Step
    <2> QED
        BY <1>4, <2>4, <2>5, <2>6
<1> QED
    BY <1>3, <1>5, <1>7, <1>9 DEF PlanInv

LEMMA CardinalityOfWorkflow == \A S : Workflow!Cardinality(S) = Cardinality(S)
BY DEF Workflow!Cardinality, Cardinality

\* The orders in which the nodes may be listed.
LEMMA OrdersOfNodes ==
    ASSUME NEW order \in Workflow!SetToSeqs(Node)
    PROVE  /\ order \in Seq(Node) /\ order # <<>>
           /\ \A n \in Node : \E i \in 1 .. Len(order) : order[i] = n
<1>1. PICK k \in 1 .. 16 : k = Cardinality(Node)
    BY DeployAssumption
<1>2. order \in [1 .. k -> Node] /\ \A i, j \in 1 .. k : i # j => order[i] # order[j]
    BY <1>1, CardinalityOfWorkflow DEF Workflow!SetToSeqs
<1>3. order \in Seq(Node) /\ Len(order) = k
    BY <1>2
<1>4. IsFiniteSet(1 .. k) /\ Cardinality(1 .. k) = k
    <2>1. 1 \in Int /\ k \in Int
        BY <1>1
    <2>2. IsFiniteSet(1 .. k) /\ Cardinality(1 .. k) = IF 1 > k THEN 0 ELSE k - 1 + 1
        BY <2>1, FS_Interval
    <2> QED
        BY <1>1, <2>2
<1>5. order \in Injection(1 .. k, Node)
    BY <1>2 DEF Injection, IsInjective
<1>6. order \in Surjection(1 .. k, Node)
    BY <1>1, <1>4, <1>5, DeployAssumption, FS_Surjection, FS_Injection
<1> QED
    BY <1>1, <1>3, <1>6 DEF Surjection

\* Every variable of the workflow keeps its type.
LEMMA CommandTyped ==
    ASSUME DeployInv, NEW a \in Apply, Workflow!Command(a)
    PROVE  Workflow!TypeOK'
<1>1. Workflow!TypeOK /\ profile \in Profile /\ ArtifactInv
    BY DEF DeployInv
<1>2. CommandMoves(a)
    BY CommandsMove
<1>3. /\ UNCHANGED <<tree, head, torn, edits>>
      /\ faults' \in 0 .. MaxFaults
    BY <1>1, <1>2, DeployAssumption DEF Workflow!TypeOK, CommandMoves, Workflow!Fault
<1>4. pc' \in [Apply -> Workflow!Step \cup Workflow!Ended \cup {"status", "wait"}]
    BY <1>1, <1>2 DEF Workflow!TypeOK, CommandMoves, Leads, After, Workflow!Step, Workflow!Ended
<1>5. steps' \in [Apply -> Seq(Workflow!Step)]
    <2>1. \/ steps' = steps
          \/ /\ pc[a] \in Workflow!Step
             /\ \/ steps' = [steps EXCEPT ![a] = steps[a]]
                \/ steps' = [steps EXCEPT ![a] = Append(steps[a], pc[a])]
        BY <1>2 DEF CommandMoves, Workflow!Reports
    <2>2. steps \in [Apply -> Seq(Workflow!Step)]
        BY <1>1 DEF Workflow!TypeOK
    <2>3. pc[a] \in Workflow!Step => Append(steps[a], pc[a]) \in Seq(Workflow!Step)
        BY <2>2
    <2> QED
        BY <2>1, <2>2, <2>3
<1> DEFINE Images ==
              /\ local \in Workflow!Image \cup {Workflow!NoImage}
              /\ remote \in Workflow!Image \cup {Workflow!NoImage}
              /\ repoDigests \in [Workflow!Image -> SUBSET Workflow!Repo]
           Clusters ==
              /\ ctr \in [Node -> SUBSET Workflow!Image] /\ cri \in [Node -> SUBSET Workflow!Image]
              /\ release \in Workflow!Release /\ stable \in Workflow!Release
           Applies ==
              /\ archive \in [Apply -> Workflow!Image \cup {Workflow!NoImage}]
              /\ digest \in [Apply -> Workflow!Digest \cup {Workflow!NoDigest}]
              /\ left \in [Apply -> Seq(Node)] /\ registered \in [Apply -> SUBSET Node]
              /\ built \in [Apply -> Workflow!Image \cup {Workflow!NoImage}] /\ shared \subseteq Apply
<1>6. Images /\ Clusters /\ Applies /\ tree \in Source
    BY <1>1 DEF Workflow!TypeOK
<1>7. Images' /\ Clusters' /\ Applies'
    <2> USE DEF Workflow!source, Workflow!docker, Workflow!cluster, Workflow!apply
    <2>1. CASE Workflow!Start(a)
        BY <1>6, <2>1 DEF Workflow!Start
    <2>2. CASE Workflow!Preflight(a) \/ Workflow!Lint(a) \/ Workflow!Test(a) \/ Workflow!Template(a)
               \/ Workflow!Rollout(a)
        BY <1>6, <2>2 DEF Workflow!Preflight, Workflow!Lint, Workflow!Test, Workflow!Template,
           Workflow!Rollout, Workflow!Reads
    <2>3. CASE Workflow!Revision(a) \/ Workflow!Status(a)
        BY <1>6, <2>3 DEF Workflow!Revision, Workflow!Status
    <2>4. CASE Workflow!Upgrade(a)
        <3>1. /\ release' \in Workflow!Release /\ stable' \in Workflow!Release
            BY <1>6, <2>4 DEF Workflow!Upgrade, Workflow!Release, Workflow!Digest, Workflow!NoDigest
        <3> QED
            BY <1>6, <2>4, <3>1 DEF Workflow!Upgrade
    <2>5. CASE Workflow!UpgradeEnds(a)
        <3>1. release' \in Workflow!Release
            BY <1>6, <2>5 DEF Workflow!UpgradeEnds, Workflow!Release
        <3> QED
            BY <1>6, <2>5, <3>1 DEF Workflow!UpgradeEnds
    <2>6. CASE Workflow!Build(a)
        <3>1. local' \in Workflow!Image \cup {Workflow!NoImage}
            BY <1>6, <2>6 DEF Workflow!Build, Workflow!Image
        <3>2. built' \in [Apply -> Workflow!Image \cup {Workflow!NoImage}]
            BY <1>6, <2>6, <3>1 DEF Workflow!Build
        <3> QED
            BY <1>6, <2>6, <3>1, <3>2 DEF Workflow!Build
    <2>7. CASE Workflow!Save(a)
        BY <1>6, <2>7 DEF Workflow!Save
    <2>8. CASE Workflow!DoPush(a)
        <3>1. remote' \in Workflow!Image \cup {Workflow!NoImage}
            BY <1>6, <2>8 DEF Workflow!DoPush
        <3>2. repoDigests' \in [Workflow!Image -> SUBSET Workflow!Repo]
            <4>1. \/ repoDigests' = repoDigests
                  \/ repoDigests' = [repoDigests EXCEPT ![local] = @ \cup {"own"}]
                BY <2>8 DEF Workflow!DoPush
            <4> QED
                BY <1>6, <4>1 DEF Workflow!Repo
        <3> QED
            BY <1>6, <2>8, <3>1, <3>2 DEF Workflow!DoPush
    <2>9. CASE Workflow!ReadRepoDigests(a)
        <3>1. local \in Workflow!Image \/ local = Workflow!NoImage
            BY <1>6
        <3>2. \A d \in Workflow!OwnRepository(local) : d \in Workflow!Digest \cup {Workflow!NoDigest}
            BY <3>1 DEF Workflow!OwnRepository, Workflow!Digest, Workflow!NoDigest, Workflow!Repo
        <3>3. digest' \in [Apply -> Workflow!Digest \cup {Workflow!NoDigest}]
            BY <1>6, <2>9, <3>2 DEF Workflow!ReadRepoDigests
        <3> QED
            BY <1>6, <2>9, <3>3 DEF Workflow!ReadRepoDigests
    <2>10. CASE Workflow!CraneDigest(a)
        <3>1. [repo |-> "own", image |-> remote] \in Workflow!Digest \cup {Workflow!NoDigest}
            BY <1>6 DEF Workflow!Digest, Workflow!NoDigest, Workflow!Repo
        <3>2. digest' \in [Apply -> Workflow!Digest \cup {Workflow!NoDigest}]
            BY <1>6, <2>10, <3>1 DEF Workflow!CraneDigest
        <3> QED
            BY <1>6, <2>10, <3>2 DEF Workflow!CraneDigest
    <2>11. CASE Workflow!Nodes(a)
        <3>1. \A order \in Workflow!SetToSeqs(Node) : order \in Seq(Node)
            BY OrdersOfNodes
        <3>2. left' \in [Apply -> Seq(Node)]
            BY <1>6, <2>11, <3>1 DEF Workflow!Nodes
        <3> QED
            BY <1>6, <2>11, <3>2 DEF Workflow!Nodes
    <2>12. CASE Workflow!Fetch(a)
        <3>1. digest[a].image \in Workflow!Image
            BY <1>1, <2>12 DEF ArtifactInv, Pinned, Workflow!Fetch, Workflow!At, Workflow!Digest
        <3>2. ctr' \in [Node -> SUBSET Workflow!Image]
            <4>1. \/ ctr' = ctr
                  \/ ctr' = [ctr EXCEPT ![Head(left[a])] = @ \cup {digest[a].image}]
                BY <2>12 DEF Workflow!Fetch
            <4>2. ctr \in [Node -> SUBSET Workflow!Image]
                BY <1>6
            <4>3. PICK i \in Workflow!Image : i = digest[a].image
                BY <3>1
            <4>4. PICK h : h = Head(left[a])
                OBVIOUS
            <4> QED
                BY <4>1, <4>2, <4>3, <4>4
        <3> QED
            BY <1>6, <2>12, <3>2 DEF Workflow!Fetch
    <2>13. CASE Workflow!Register(a)
        <3>1. digest[a].image \in Workflow!Image
            BY <1>1, <2>13 DEF ArtifactInv, Pinned, Workflow!Register, Workflow!At, Workflow!Digest
        <3>2. cri' \in [Node -> SUBSET Workflow!Image]
            <4>1. \/ cri' = cri
                  \/ cri' = [cri EXCEPT ![Head(left[a])] = @ \cup {digest[a].image}]
                BY <2>13 DEF Workflow!Register
            <4>2. cri \in [Node -> SUBSET Workflow!Image]
                BY <1>6
            <4>3. PICK i \in Workflow!Image : i = digest[a].image
                BY <3>1
            <4>4. PICK h : h = Head(left[a])
                OBVIOUS
            <4> QED
                BY <4>1, <4>2, <4>3, <4>4
        <3>3. registered' \in [Apply -> SUBSET Node] /\ left' \in [Apply -> Seq(Node)]
            <4>1. left[a] # <<>>
                BY <2>13 DEF DeployInv, NodesInv, Workflow!Register, Workflow!At
            <4>2. left[a] \in Seq(Node) /\ Head(left[a]) \in Node /\ Tail(left[a]) \in Seq(Node)
                BY <1>6, <4>1
            <4>3. \/ left' = left /\ registered' = registered
                  \/ /\ registered' = [registered EXCEPT ![a] = @ \cup {Head(left[a])}]
                     /\ left' = [left EXCEPT ![a] = Tail(left[a])]
                BY <2>13 DEF Workflow!Register
            <4>4. PICK h \in Node, t \in Seq(Node) : h = Head(left[a]) /\ t = Tail(left[a])
                BY <4>2
            <4>5. left \in [Apply -> Seq(Node)] /\ registered \in [Apply -> SUBSET Node]
                BY <1>6
            <4>6. CASE left' = left /\ registered' = registered
                BY <4>5, <4>6
            <4>7. CASE /\ registered' = [registered EXCEPT ![a] = @ \cup {h}]
                       /\ left' = [left EXCEPT ![a] = t]
                BY <4>5, <4>7
            <4> QED
                BY <4>3, <4>4, <4>6, <4>7
        <3> QED
            BY <1>6, <2>13, <3>2, <3>3 DEF Workflow!Register
    <2> QED
        BY <2>1, <2>2, <2>3, <2>4, <2>5, <2>6, <2>7, <2>8, <2>9, <2>10, <2>11, <2>12, <2>13
           DEF Workflow!Command
<1> QED
    BY <1>3, <1>4, <1>5, <1>6, <1>7, <1>1 DEF Workflow!TypeOK

\* What a command needs is there when it is reached.
LEMMA ArtifactStep ==
    ASSUME DeployInv, NEW a \in Apply, Workflow!Command(a)
    PROVE  ArtifactInv'
<1>1. ArtifactInv /\ profile \in Profile /\ Workflow!TypeOK
    BY DEF DeployInv
<1>2. /\ pc \in [Apply -> Workflow!Step \cup Workflow!Ended \cup {"status", "wait"}]
      /\ tree \in Source
      /\ DOMAIN built = Apply /\ DOMAIN archive = Apply /\ DOMAIN digest = Apply
    BY <1>1 DEF Workflow!TypeOK
<1>3. PICK to : /\ pc' = [pc EXCEPT ![a] = to] /\ profile' = profile
                /\ to = "failed" \/ Leads(pc[a], to)
    BY CommandsMove DEF CommandMoves
<1>4. pc'[a] = to /\ \A b \in Apply \ {a} : pc'[b] = pc[b]
    BY <1>2, <1>3
<1> SUFFICES ASSUME NEW b \in Apply
             PROVE  /\ pc'[b] \in Built => built'[b] \in Workflow!Image /\ local' \in Workflow!Image
                    /\ pc'[b] = "push" /\ profile.pushMode = "host-crane" => archive'[b] \in Workflow!Image
                    /\ pc'[b] = "craneDigest" => remote' \in Workflow!Image
                    /\ pc'[b] \in Pinned => digest'[b] \in Workflow!Digest
    BY <1>3 DEF ArtifactInv
<1>5. /\ pc[b] \in Built => built[b] \in Workflow!Image /\ local \in Workflow!Image
      /\ pc[b] = "push" /\ profile.pushMode = "host-crane" => archive[b] \in Workflow!Image
      /\ pc[b] = "craneDigest" => remote \in Workflow!Image
      /\ pc[b] \in Pinned => digest[b] \in Workflow!Digest
    BY <1>1 DEF ArtifactInv
<1> USE DEF Workflow!docker, Workflow!apply, Workflow!At, Leads, After, Built, Pinned, Deploying
<1>6. CASE Quiet(a)
    <2>1. /\ to \in Built => to \in Deploying /\ pc[a] \in Deploying
          /\ UNCHANGED <<local, remote, archive, digest, built>>
        <3>1. /\ pc[a] \in {"off", "preflight", "revision", "status", "lint", "test", "template",
                           "upgrade", "wait", "rollout"}
              /\ UNCHANGED <<local, remote, archive, digest, built>>
            BY <1>6, QuietLeaves
        <3>2. to \in Built => to \in Deploying /\ pc[a] \in Deploying
            BY <1>3, <3>1 DEF Workflow!Step
        <3> QED
            BY <3>1, <3>2
    <2>2. CASE b = a
        BY <1>4, <1>5, <2>1, <2>2
    <2>3. CASE b # a
        BY <1>4, <1>5, <2>1, <2>3
    <2> QED
        BY <2>2, <2>3
<1>7. CASE Workflow!Build(a)
    <2>1. CASE Workflow!Fails(a) /\ UNCHANGED <<local, built>>
        BY <1>2, <1>3, <1>4, <1>5, <1>7, <2>1 DEF Workflow!Build, Workflow!Fails, Workflow!Goes
    <2>2. CASE \E n \in 0 .. 1 : local' = [src |-> tree, n |-> n]
        <3>1. local' \in Workflow!Image
            BY <1>2, <2>2 DEF Workflow!Image
        <3>2. CASE b # a
            BY <1>2, <1>3, <1>4, <1>5, <1>7, <3>1, <3>2 DEF Workflow!Build
        <3>3. CASE b = a
            BY <1>2, <1>3, <1>4, <1>5, <1>7, <3>1, <3>3 DEF Workflow!Build, Workflow!Fails, Workflow!Goes
        <3> QED
            BY <3>2, <3>3
    <2> QED
        BY <1>7, <2>1, <2>2 DEF Workflow!Build
<1>8. CASE Workflow!Save(a)
    BY <1>2, <1>3, <1>4, <1>5, <1>8 DEF Workflow!Save, Workflow!Fails, Workflow!Goes
<1>9. CASE Workflow!DoPush(a)
    <2>1. remote' = remote \/ remote' \in Workflow!Image
        BY <1>1, <1>5, <1>9 DEF Workflow!DoPush, ArtifactInv, Profile
    <2>2. pc'[a] = "craneDigest" => remote' \in Workflow!Image
        BY <1>1, <1>2, <1>9 DEF Workflow!DoPush, ArtifactInv, Profile, Workflow!Fails, Workflow!Goes
    <2> QED
        BY <1>2, <1>3, <1>4, <1>5, <1>9, <2>1, <2>2 DEF Workflow!DoPush
<1>10. CASE Workflow!ReadRepoDigests(a)
    <2>1. local \in Workflow!Image
        BY <1>1, <1>10 DEF Workflow!ReadRepoDigests, ArtifactInv
    <2>2. \A d \in Workflow!OwnRepository(local) : d \in Workflow!Digest
        BY <2>1 DEF Workflow!OwnRepository, Workflow!Digest, Workflow!Repo
    <2> QED
        BY <1>2, <1>3, <1>4, <1>5, <1>10, <2>2 DEF Workflow!ReadRepoDigests, Workflow!Fails,
           Workflow!Refuses, Workflow!Goes
<1>11. CASE Workflow!CraneDigest(a)
    <2>1. [repo |-> "own", image |-> remote] \in Workflow!Digest
        BY <1>1, <1>11 DEF Workflow!CraneDigest, ArtifactInv, Workflow!Digest, Workflow!Repo
    <2> QED
        BY <1>2, <1>3, <1>4, <1>5, <1>11, <2>1 DEF Workflow!CraneDigest, Workflow!Fails, Workflow!Goes
<1>12. CASE Workflow!Nodes(a)
    BY <1>3, <1>4, <1>5, <1>12 DEF Workflow!Nodes
<1>13. CASE Workflow!Fetch(a)
    BY <1>3, <1>4, <1>5, <1>13 DEF Workflow!Fetch
<1>14. CASE Workflow!Register(a)
    BY <1>3, <1>4, <1>5, <1>14 DEF Workflow!Register
<1> QED
    BY <1>6, <1>7, <1>8, <1>9, <1>10, <1>11, <1>12, <1>13, <1>14 DEF Workflow!Command, Quiet

\* Whoever is not alone is known not to be, and what is said of the others holds for
\* them as long as nobody starts beside them.
LEMMA AloneStep ==
    ASSUME DeployInv, NEW a \in Apply, Workflow!Command(a)
    PROVE  AloneInv'
<1>1. AloneInv /\ profile \in Profile /\ Workflow!TypeOK
    BY DEF DeployInv
<1>2. /\ pc \in [Apply -> Workflow!Step \cup Workflow!Ended \cup {"status", "wait"}]
      /\ DOMAIN built = Apply /\ DOMAIN archive = Apply /\ DOMAIN digest = Apply
    BY <1>1 DEF Workflow!TypeOK
<1>3. PICK to : /\ pc' = [pc EXCEPT ![a] = to] /\ profile' = profile
                /\ (to = "failed" /\ pc[a] # "off") \/ Leads(pc[a], to)
    BY CommandsMove DEF CommandMoves
<1>4. pc'[a] = to /\ \A b \in Apply \ {a} : pc'[b] = pc[b]
    BY <1>2, <1>3
<1>5. CASE Workflow!Start(a)
    <2>1. /\ pc[a] = "off" /\ to = "preflight"
          /\ UNCHANGED <<local, remote, archive, digest, built>>
          /\ LET beside == {b \in Apply : pc[b] \notin Workflow!Ended} IN
             shared' = IF beside = {} THEN shared ELSE shared \cup beside \cup {a}
        BY <1>2, <1>5, <1>4 DEF Workflow!Start, Workflow!docker, Workflow!Goes
    <2>2. \A b, c \in Apply : b # c /\ {pc'[b], pc'[c]} \cap Workflow!Ended = {} => b \in shared'
        <3> SUFFICES ASSUME NEW b \in Apply, NEW c \in Apply, b # c,
                            pc'[b] \notin Workflow!Ended, pc'[c] \notin Workflow!Ended
                     PROVE  b \in shared'
            OBVIOUS
        <3>1. CASE b = a
            BY <1>4, <2>1, <3>1
        <3>2. CASE c = a
            BY <1>4, <2>1, <3>2
        <3>3. CASE b # a /\ c # a
            BY <1>1, <1>4, <2>1, <3>3 DEF AloneInv
        <3> QED
            BY <3>1, <3>2, <3>3
    <2>3. shared \subseteq shared'
        BY <2>1
    <2>4. \A b \in Apply : pc'[b] = pc[b] \/ (b = a /\ pc'[b] = "preflight")
        BY <1>4, <2>1
    <2> QED
        BY <1>1, <1>3, <2>1, <2>2, <2>3, <2>4 DEF AloneInv, Pinned, Deploying
<1>6. CASE ~Workflow!Start(a)
    <2>1. /\ pc[a] \notin Workflow!Ended /\ shared' = shared
          /\ \A b \in Apply \ {a} : archive'[b] = archive[b] /\ digest'[b] = digest[b] /\ built'[b] = built[b]
        <3> USE DEF Workflow!docker, Workflow!apply, Workflow!At, Workflow!Ended
        <3>1. CASE Quiet(a)
            <4>1. /\ UNCHANGED <<archive, digest, built>>
                  /\ UNCHANGED shared \/ pc[a] = "off"
                  /\ pc[a] \in {"off", "preflight", "revision", "status", "lint", "test", "template",
                                "upgrade", "wait", "rollout"}
                BY <3>1, QuietLeaves
            <4>2. pc[a] # "off"
                BY <1>6, <3>1 DEF Quiet, Workflow!Preflight, Workflow!Revision, Workflow!Status,
                   Workflow!Lint, Workflow!Test, Workflow!Template, Workflow!Upgrade,
                   Workflow!UpgradeEnds, Workflow!Rollout, Workflow!Reads
            <4> QED
                BY <4>1, <4>2
        <3>2. CASE Workflow!Build(a) \/ Workflow!Save(a)
            BY <1>2, <3>2 DEF Workflow!Build, Workflow!Save
        <3>3. CASE Workflow!DoPush(a) \/ Workflow!ReadRepoDigests(a) \/ Workflow!CraneDigest(a)
            BY <1>2, <3>3 DEF Workflow!DoPush, Workflow!ReadRepoDigests, Workflow!CraneDigest
        <3>4. CASE Workflow!Nodes(a) \/ Workflow!Fetch(a) \/ Workflow!Register(a)
            BY <1>2, <3>4 DEF Workflow!Nodes, Workflow!Fetch, Workflow!Register
        <3> QED
            BY <3>1, <3>2, <3>3, <3>4 DEF Workflow!Command, Quiet
    <2>2. \A b, c \in Apply : b # c /\ {pc'[b], pc'[c]} \cap Workflow!Ended = {} => b \in shared'
        <3>1. \A b \in Apply : pc'[b] \notin Workflow!Ended => pc[b] \notin Workflow!Ended
            BY <1>4, <2>1
        <3> QED
            BY <1>1, <2>1, <3>1 DEF AloneInv
    <2>3. ASSUME NEW b \in Apply \ shared, b # a
          PROVE  pc'[b] = pc[b] /\ pc[b] \in Workflow!Ended
        BY <1>1, <1>4, <2>1, <2>3 DEF AloneInv
    <2>4. ASSUME NEW b \in Apply \ shared, b # a
          PROVE  /\ pc'[b] \notin {"save", "push", "repoDigests", "craneDigest"}
                 /\ pc'[b] \in Pinned => digest'[b] = [repo |-> "own", image |-> built'[b]]
        BY <1>1, <2>1, <2>3, <2>4 DEF AloneInv, Workflow!Ended
    <2>5. ASSUME a \notin shared
          PROVE  /\ pc'[a] \in {"save", "repoDigests"} => local' = built'[a]
                 /\ pc'[a] = "push" =>
                       (IF profile.pushMode = "host-crane" THEN archive'[a] ELSE local') = built'[a]
                 /\ pc'[a] = "craneDigest" => remote' = built'[a]
                 /\ pc'[a] \in Pinned => digest'[a] = [repo |-> "own", image |-> built'[a]]
        <3>1. /\ pc[a] \in {"save", "repoDigests"} => local = built[a]
              /\ pc[a] = "push" =>
                    (IF profile.pushMode = "host-crane" THEN archive[a] ELSE local) = built[a]
              /\ pc[a] = "craneDigest" => remote = built[a]
              /\ pc[a] \in Pinned => digest[a] = [repo |-> "own", image |-> built[a]]
            BY <1>1, <2>5 DEF AloneInv
        <3> USE DEF Workflow!docker, Workflow!apply, Workflow!At, Leads, After, Pinned, Deploying,
                    Workflow!Fails, Workflow!Refuses, Workflow!Goes
        <3>2. CASE Quiet(a)
            <4>1. /\ UNCHANGED <<local, remote, archive, digest, built>>
                  /\ pc[a] \in {"off", "preflight", "revision", "status", "lint", "test", "template",
                                "upgrade", "wait", "rollout"}
                BY <3>2, QuietLeaves
            <4>2. /\ to \notin {"save", "push", "repoDigests", "craneDigest"}
                  /\ to \in Pinned => pc[a] \in Pinned
                BY <1>3, <4>1 DEF Workflow!Step
            <4> QED
                BY <1>4, <3>1, <4>1, <4>2
        <3>3. CASE Workflow!Build(a)
            BY <1>2, <1>4, <3>3 DEF Workflow!Build, Workflow!AfterBuild
        <3>4. CASE Workflow!Save(a)
            BY <1>2, <1>3, <1>4, <3>1, <3>4 DEF Workflow!Save, Workflow!Step
        <3>5. CASE Workflow!DoPush(a)
            BY <1>2, <1>4, <3>1, <3>5 DEF Workflow!DoPush, Workflow!AfterPush
        <3>6. CASE Workflow!ReadRepoDigests(a)
            <4>1. \A d \in Workflow!OwnRepository(local) : d = [repo |-> "own", image |-> local]
                BY DEF Workflow!OwnRepository
            <4> QED
                BY <1>2, <1>4, <3>1, <3>6, <4>1 DEF Workflow!ReadRepoDigests, Workflow!AfterDigest
        <3>7. CASE Workflow!CraneDigest(a)
            BY <1>2, <1>4, <3>1, <3>7 DEF Workflow!CraneDigest, Workflow!AfterDigest
        <3>8. CASE Workflow!Nodes(a)
            BY <1>2, <1>4, <3>1, <3>8 DEF Workflow!Nodes
        <3>9. CASE Workflow!Fetch(a)
            BY <1>2, <1>4, <3>1, <3>9 DEF Workflow!Fetch
        <3>10. CASE Workflow!Register(a)
            BY <1>2, <1>4, <3>1, <3>10 DEF Workflow!Register
        <3> QED
            BY <3>2, <3>3, <3>4, <3>5, <3>6, <3>7, <3>8, <3>9, <3>10 DEF Workflow!Command, Quiet
    <2> QED
        BY <1>3, <2>1, <2>2, <2>4, <2>5 DEF AloneInv
<1> QED
    BY <1>5, <1>6

\* A node leaves the list of the apply when it has been registered, and the list ends
\* when all have.
LEMMA NodesStep ==
    ASSUME DeployInv, NEW a \in Apply, Workflow!Command(a)
    PROVE  NodesInv'
<1>1. NodesInv /\ profile \in Profile /\ Workflow!TypeOK
    BY DEF DeployInv
<1>2. /\ pc \in [Apply -> Workflow!Step \cup Workflow!Ended \cup {"status", "wait"}]
      /\ left \in [Apply -> Seq(Node)] /\ registered \in [Apply -> SUBSET Node]
      /\ DOMAIN digest = Apply /\ cri \in [Node -> SUBSET Workflow!Image]
    BY <1>1 DEF Workflow!TypeOK
<1>3. PICK to : /\ pc' = [pc EXCEPT ![a] = to] /\ profile' = profile
                /\ to = "failed" \/ Leads(pc[a], to)
    BY CommandsMove DEF CommandMoves
<1>4. pc'[a] = to /\ \A b \in Apply \ {a} : pc'[b] = pc[b]
    BY <1>2, <1>3
<1> DEFINE Good(b) ==
              /\ pc[b] \in {"fetch", "register"} =>
                    /\ left[b] # <<>>
                    /\ \A n \in Node \ registered[b] : \E i \in 1 .. Len(left[b]) : left[b][i] = n
              /\ profile.kindPrepull /\ pc[b] \in Deploying => Node \subseteq registered[b]
              /\ pc[b] \notin Pinned \cup {"failed"} => registered[b] = {}
              /\ \A n \in registered[b] : digest[b].image \in cri[n]
<1>5. \A b \in Apply : Good(b)
    BY <1>1 DEF NodesInv
<1> SUFFICES ASSUME NEW b \in Apply PROVE Good(b)'
    BY DEF NodesInv
<1>6. CASE b # a
    <2>1. /\ left'[b] = left[b] /\ registered'[b] = registered[b] /\ digest'[b] = digest[b]
          /\ \A n \in Node : cri[n] \subseteq cri'[n]
        <3> USE DEF Workflow!docker, Workflow!apply, Workflow!cluster
        <3>1. CASE Quiet(a)
            BY <3>1, QuietLeaves
        <3>2. CASE Workflow!Build(a) \/ Workflow!Save(a) \/ Workflow!DoPush(a)
            BY <3>2 DEF Workflow!Build, Workflow!Save, Workflow!DoPush
        <3>3. CASE Workflow!ReadRepoDigests(a) \/ Workflow!CraneDigest(a)
            BY <1>2, <1>6, <3>3 DEF Workflow!ReadRepoDigests, Workflow!CraneDigest
        <3>4. CASE Workflow!Nodes(a) \/ Workflow!Fetch(a)
            BY <1>2, <1>6, <3>4 DEF Workflow!Nodes, Workflow!Fetch
        <3>5. CASE Workflow!Register(a)
            <4>1. \/ cri' = cri /\ left' = left /\ registered' = registered
                  \/ /\ cri' = [cri EXCEPT ![Head(left[a])] = @ \cup {digest[a].image}]
                     /\ left' = [left EXCEPT ![a] = Tail(left[a])]
                     /\ registered' = [registered EXCEPT ![a] = @ \cup {Head(left[a])}]
                BY <3>5 DEF Workflow!Register
            <4>2. digest' = digest
                BY <3>5 DEF Workflow!Register
            <4>3. left'[b] = left[b] /\ registered'[b] = registered[b] /\ digest'[b] = digest[b]
                BY <1>2, <1>6, <4>1, <4>2
            <4>4. PICK h, i : h = Head(left[a]) /\ i = digest[a].image
                OBVIOUS
            <4>5. cri' = cri \/ cri' = [cri EXCEPT ![h] = @ \cup {i}]
                BY <4>1, <4>4
            <4>6. \A n \in Node : cri[n] \subseteq cri'[n]
                BY <1>2, <4>5
            <4> QED
                BY <4>3, <4>6
        <3> QED
            BY <3>1, <3>2, <3>3, <3>4, <3>5 DEF Workflow!Command, Quiet
    <2>2. pc'[b] = pc[b] /\ registered[b] \subseteq Node
        BY <1>2, <1>4, <1>6
    <2> QED
        BY <1>3, <1>5, <2>1, <2>2
<1>7. CASE b = a
    <2>1. Good(a)
        BY <1>5
    <2> HIDE DEF Good
    <2> USE DEF Workflow!docker, Workflow!apply, Workflow!cluster, Workflow!At, Leads, After,
                Pinned, Deploying, Workflow!Fails, Workflow!Refuses, Workflow!Goes
    <2>2. CASE Quiet(a)
        <3>1. /\ UNCHANGED <<left, registered, digest, cri>>
              /\ pc[a] \in {"off", "preflight", "revision", "status", "lint", "test", "template",
                            "upgrade", "wait", "rollout"}
            BY <2>2, QuietLeaves
        <3>2. /\ to \notin {"fetch", "register"}
              /\ to \in Deploying <=> (pc[a] \in Deploying /\ to # "failed")
              /\ to \in Pinned \cup {"failed"} \/ pc[a] \notin Pinned \cup {"failed"}
            BY <1>3, <3>1 DEF Workflow!Step
        <3> QED
            BY <1>3, <1>4, <1>7, <2>1, <3>1, <3>2 DEF Good
    <2>3. CASE Workflow!Build(a) \/ Workflow!Save(a) \/ Workflow!DoPush(a)
        <3>1. UNCHANGED <<left, registered, digest, cri>> /\ pc[a] \in {"build", "save", "push"}
            BY <2>3 DEF Workflow!Build, Workflow!Save, Workflow!DoPush
        <3>2. to \notin Pinned
            BY <1>3, <3>1
        <3> QED
            BY <1>3, <1>4, <1>7, <2>1, <3>1, <3>2 DEF Good
    <2>4. CASE Workflow!ReadRepoDigests(a) \/ Workflow!CraneDigest(a)
        <3>1. /\ UNCHANGED <<left, registered, cri>>
              /\ pc[a] \in {"repoDigests", "craneDigest"}
              /\ to \in {"failed", IF profile.kindPrepull THEN "nodes" ELSE "template"}
            BY <1>2, <1>4, <2>4 DEF Workflow!ReadRepoDigests, Workflow!CraneDigest, Workflow!AfterDigest
        <3>2. registered[a] = {}
            BY <2>1, <3>1 DEF Good
        <3> QED
            BY <1>3, <1>4, <1>7, <3>1, <3>2 DEF Good
    <2>5. CASE Workflow!Nodes(a)
        <3>1. UNCHANGED <<registered, cri, digest>> /\ pc[a] = "nodes"
            BY <2>5 DEF Workflow!Nodes
        <3>2. \/ to = "failed"
              \/ to = "fetch" /\ \E order \in Workflow!SetToSeqs(Node) : left' = [left EXCEPT ![a] = order]
            BY <1>2, <1>4, <2>5 DEF Workflow!Nodes
        <3>3. CASE to = "failed"
            BY <1>3, <1>4, <1>7, <2>1, <3>1, <3>3 DEF Good
        <3>4. CASE to = "fetch" /\ \E order \in Workflow!SetToSeqs(Node) : left' = [left EXCEPT ![a] = order]
            <4>1. /\ left'[a] # <<>>
                  /\ \A n \in Node : \E i \in 1 .. Len(left'[a]) : left'[a][i] = n
                BY <1>2, <3>4, OrdersOfNodes
            <4> QED
                BY <1>3, <1>4, <1>7, <2>1, <3>1, <3>4, <4>1 DEF Good
        <3> QED
            BY <3>2, <3>3, <3>4
    <2>6. CASE Workflow!Fetch(a)
        <3>1. UNCHANGED <<left, registered, cri, digest>> /\ pc[a] = "fetch"
            BY <2>6 DEF Workflow!Fetch
        <3>2. to \in {"failed", "register"}
            BY <1>2, <1>4, <2>6 DEF Workflow!Fetch
        <3> QED
            BY <1>3, <1>4, <1>7, <2>1, <3>1, <3>2 DEF Good
    <2>7. CASE Workflow!Register(a)
        <3>1. digest' = digest /\ pc[a] = "register"
            BY <2>7 DEF Workflow!Register
        <3>2. CASE Workflow!Fails(a) /\ UNCHANGED <<cri, registered, left>>
            <4>1. to = "failed"
                BY <1>2, <1>4, <3>2
            <4> QED
                BY <1>3, <1>4, <1>7, <2>1, <3>1, <3>2, <4>1 DEF Good
        <3>3. CASE ~(Workflow!Fails(a) /\ UNCHANGED <<cri, registered, left>>)
            <4>1. /\ cri' = [cri EXCEPT ![Head(left[a])] = @ \cup {digest[a].image}]
                  /\ registered' = [registered EXCEPT ![a] = @ \cup {Head(left[a])}]
                  /\ left' = [left EXCEPT ![a] = Tail(left[a])]
                  /\ pc' = [pc EXCEPT ![a] = IF Len(left[a]) = 1 THEN "template" ELSE "fetch"]
                BY <2>7, <3>3 DEF Workflow!Register
            <4>2. /\ left[a] # <<>>
                  /\ \A n \in Node \ registered[a] : \E i \in 1 .. Len(left[a]) : left[a][i] = n
                  /\ \A n \in registered[a] : digest[a].image \in cri[n]
                BY <2>1, <3>1 DEF Good
            <4>0. PICK s \in Seq(Node) : s = left[a] /\ s # <<>>
                BY <1>2, <4>2
            <4>3. PICK h \in Node, t \in Seq(Node), r \in SUBSET Node :
                      s = left[a] /\ h = Head(left[a]) /\ t = Tail(left[a]) /\ r = registered[a]
                <5>1. Head(s) \in Node /\ Tail(s) \in Seq(Node)
                    BY <4>0
                <5> QED
                    BY <1>2, <4>0, <5>1
            <4>4. s # <<>> /\ h = s[1] /\ Len(t) = Len(s) - 1 /\ \A i \in 1 .. Len(t) : t[i] = s[i + 1]
                <5>1. h = Head(s) /\ t = Tail(s)
                    BY <4>0, <4>3
                <5> QED
                    BY <4>0, <5>1
            <4>10. Len(s) \in Nat \ {0} /\ Len(t) \in Nat
                BY <4>0, <4>4
            <4>5. /\ registered'[a] = r \cup {h} /\ left'[a] = t
                  /\ to = IF Len(s) = 1 THEN "template" ELSE "fetch"
                BY <1>2, <1>4, <4>1, <4>3
            <4>6. \A n \in r \cup {h} : digest[a].image \in cri'[n]
                BY <1>2, <4>1, <4>2, <4>3
            <4>7. \A n \in Node \ (r \cup {h}) : \E i \in 1 .. Len(t) : t[i] = n
                <5> SUFFICES ASSUME NEW n \in Node \ (r \cup {h}) PROVE \E i \in 1 .. Len(t) : t[i] = n
                    OBVIOUS
                <5>1. PICK i \in 1 .. Len(s) : s[i] = n
                    BY <4>2, <4>3
                <5>2. i # 1 /\ i - 1 \in 1 .. Len(t)
                    BY <4>4, <5>1
                <5> QED
                    <6>1. t[i - 1] = s[(i - 1) + 1] /\ (i - 1) + 1 = i
                        BY <4>4, <4>10, <5>2
                    <6> QED
                        BY <5>1, <5>2, <6>1
            <4>8. CASE Len(s) = 1
                <5>1. Node \subseteq r \cup {h}
                    BY <4>4, <4>7, <4>8
                <5> QED
                    BY <1>3, <1>4, <1>7, <3>1, <4>5, <4>6, <4>8, <5>1 DEF Good
            <4>9. CASE Len(s) # 1
                <5>1. t # <<>>
                    BY <4>4, <4>9, <4>10
                <5> QED
                    BY <1>3, <1>4, <1>7, <3>1, <4>5, <4>6, <4>7, <4>9, <5>1 DEF Good
            <4> QED
                BY <4>8, <4>9
        <3> QED
            BY <3>2, <3>3
    <2> QED
        BY <1>7, <2>2, <2>3, <2>4, <2>5, <2>6, <2>7 DEF Workflow!Command, Quiet
<1> QED
    BY <1>6, <1>7

\* Between two looks of an apply nobody else changes the tree, or it is torn.
LEMMA SourceStep ==
    ASSUME DeployInv, NEW a \in Apply, Workflow!Command(a)
    PROVE  SourceInv'
<1>1. SourceInv /\ profile \in Profile /\ Workflow!TypeOK
    BY DEF DeployInv
<1>2. /\ pc \in [Apply -> Workflow!Step \cup Workflow!Ended \cup {"status", "wait"}]
      /\ DOMAIN archive = Apply /\ DOMAIN digest = Apply
    BY <1>1 DEF Workflow!TypeOK
<1>3. PICK to : /\ pc' = [pc EXCEPT ![a] = to] /\ UNCHANGED <<profile, tree, head, torn>>
                /\ to = "failed" \/ Leads(pc[a], to)
    BY CommandsMove DEF CommandMoves
<1>4. pc'[a] = to /\ \A b \in Apply \ {a} : pc'[b] = pc[b]
    BY <1>2, <1>3
<1> SUFFICES ASSUME ~torn
             PROVE  /\ local'.src = tag /\ remote'.src = tag
                    /\ \A b \in Apply :
                          /\ archive'[b].src = tag /\ digest'[b].image.src = tag
                          /\ pc'[b] = "status" => head = tag
                          /\ pc'[b] \in {"lint", "test", "build"} => tree = tag
    BY <1>3 DEF SourceInv
<1>5. /\ local.src = tag /\ remote.src = tag
      /\ \A b \in Apply :
            /\ archive[b].src = tag /\ digest[b].image.src = tag
            /\ pc[b] = "status" => head = tag
            /\ pc[b] \in {"lint", "test", "build"} => tree = tag
    BY <1>1 DEF SourceInv
<1> USE DEF Workflow!docker, Workflow!apply, Workflow!At, Workflow!Fails, Workflow!Refuses, Workflow!Goes
<1>6. /\ to = "status" => head = tag
      /\ to \in {"lint", "test", "build"} => tree = tag
    <2>1. CASE Workflow!Revision(a) \/ Workflow!Status(a)
        BY <1>2, <1>4, <1>5, <2>1 DEF Workflow!Revision, Workflow!Status, Workflow!Clean
    <2>2. CASE ~(Workflow!Revision(a) \/ Workflow!Status(a))
        <3>1. pc[a] \notin {"revision", "status"}
            BY <2>2 DEF Workflow!Command, Workflow!Start, Workflow!Preflight, Workflow!Lint,
               Workflow!Test, Workflow!Build, Workflow!Save, Workflow!DoPush,
               Workflow!ReadRepoDigests, Workflow!CraneDigest, Workflow!Nodes, Workflow!Fetch,
               Workflow!Register, Workflow!Template, Workflow!Upgrade, Workflow!UpgradeEnds,
               Workflow!Rollout, Workflow!Reads
        <3>2. /\ to # "status"
              /\ to \in {"lint", "test", "build"} => pc[a] \in {"lint", "test"} \/ pc[a] = "revision"
            BY <1>3, <3>1 DEF Leads, After, Workflow!Step
        <3> QED
            BY <1>5, <3>1, <3>2
    <2> QED
        BY <2>1, <2>2
<1>7. \A b \in Apply : /\ pc'[b] = "status" => head = tag
                       /\ pc'[b] \in {"lint", "test", "build"} => tree = tag
    BY <1>4, <1>5, <1>6
<1>8. /\ local'.src = tag /\ remote'.src = tag
      /\ \A b \in Apply : archive'[b].src = tag /\ digest'[b].image.src = tag
    <2>1. CASE Quiet(a)
        BY <1>5, <2>1, QuietLeaves
    <2>2. CASE Workflow!Build(a)
        <3>1. local'.src = tag
            BY <1>5, <2>2 DEF Workflow!Build
        <3> QED
            BY <1>5, <2>2, <3>1 DEF Workflow!Build
    <2>3. CASE Workflow!Save(a)
        BY <1>2, <1>5, <2>3 DEF Workflow!Save
    <2>4. CASE Workflow!DoPush(a)
        BY <1>5, <2>4 DEF Workflow!DoPush
    <2>5. CASE Workflow!ReadRepoDigests(a)
        <3>1. \A d \in Workflow!OwnRepository(local) : d.image.src = tag
            BY <1>5 DEF Workflow!OwnRepository
        <3> QED
            BY <1>2, <1>5, <2>5, <3>1 DEF Workflow!ReadRepoDigests
    <2>6. CASE Workflow!CraneDigest(a)
        BY <1>2, <1>5, <2>6 DEF Workflow!CraneDigest
    <2>7. CASE Workflow!Nodes(a) \/ Workflow!Fetch(a) \/ Workflow!Register(a)
        BY <1>5, <2>7 DEF Workflow!Nodes, Workflow!Fetch, Workflow!Register
    <2> QED
        BY <2>1, <2>2, <2>3, <2>4, <2>5, <2>6, <2>7 DEF Workflow!Command, Quiet
<1> QED
    BY <1>7, <1>8

LEMMA CommandStep ==
    ASSUME DeployInv, NEW a \in Apply, Workflow!Command(a)
    PROVE  DeployInv'
<1>1. profile \in Profile /\ profile' = profile
    BY CommandsMove DEF CommandMoves, DeployInv
<1> QED
    BY <1>1, CommandTyped, PlanStep, ArtifactStep, AloneStep, NodesStep, SourceStep DEF DeployInv

\* The developer: the tree and HEAD are the deployment's business only while it looks
\* at them.
LEMMA DeveloperStep ==
    ASSUME DeployInv, Workflow!Works \/ Workflow!PushedElsewhere
    PROVE  DeployInv'
<1>1. Workflow!TypeOK /\ profile \in Profile /\ PlanInv /\ ArtifactInv /\ AloneInv /\ NodesInv /\ SourceInv
    BY DEF DeployInv
<1>2. /\ UNCHANGED <<profile, local, remote, ctr, cri, release, stable, pc, steps>>
      /\ UNCHANGED <<archive, digest, left, built, registered, shared, faults>>
      /\ edits' = edits + 1 /\ edits < MaxEdits
      /\ UNCHANGED <<tree, head, torn>> \/ (Workflow!Works /\ UNCHANGED repoDigests)
      /\ UNCHANGED repoDigests \/ repoDigests' = [repoDigests EXCEPT ![local] = @ \cup {"other"}]
    BY DEF Workflow!Works, Workflow!PushedElsewhere, Workflow!source, Workflow!docker,
       Workflow!cluster, Workflow!apply, Workflow!Edit
<1>3. Workflow!TypeOK'
    <2>1. edits' \in 0 .. MaxEdits
        BY <1>1, <1>2, DeployAssumption DEF Workflow!TypeOK
    <2>2. repoDigests' \in [Workflow!Image -> SUBSET Workflow!Repo]
        <3>1. repoDigests \in [Workflow!Image -> SUBSET Workflow!Repo]
            BY <1>1 DEF Workflow!TypeOK
        <3> QED
            BY <1>2, <3>1 DEF Workflow!Repo
    <2>3. tree' \in Source /\ head' \in Source /\ torn' \in BOOLEAN
        <3>1. tree \in Source /\ head \in Source /\ torn \in BOOLEAN
            BY <1>1 DEF Workflow!TypeOK
        <3>2. CASE Workflow!Works
            BY <3>1, <3>2 DEF Workflow!Works
        <3> QED
            BY <1>2, <3>1, <3>2
    <2> QED
        BY <1>1, <1>2, <2>1, <2>2, <2>3 DEF Workflow!TypeOK
<1>4. PlanInv'
    BY <1>1, <1>2 DEF PlanInv, Reported
<1>5. ArtifactInv' /\ AloneInv'
    BY <1>1, <1>2 DEF ArtifactInv, AloneInv
<1>6. NodesInv'
    BY <1>1, <1>2 DEF NodesInv
<1>7. SourceInv'
    <2>1. CASE UNCHANGED <<tree, head, torn>>
        BY <1>1, <1>2, <2>1 DEF SourceInv
    <2>2. CASE Workflow!Works
        <3>1. torn' = (torn \/ \E a \in Apply : pc[a] \in {"status", "lint", "test", "build"})
            BY <2>2 DEF Workflow!Works, Workflow!BetweenLookAndBuild
        <3> QED
            BY <1>1, <1>2, <3>1 DEF SourceInv
    <2> QED
        BY <1>2, <2>1, <2>2
<1> QED
    BY <1>1, <1>2, <1>3, <1>4, <1>5, <1>6, <1>7 DEF DeployInv

LEMMA LookedStep ==
    ASSUME DeployInv, \A a \in Apply : pc[a] = "off", Looked
    PROVE  DeployInv'
<1>1. Workflow!TypeOK /\ profile \in Profile /\ PlanInv /\ ArtifactInv /\ AloneInv /\ NodesInv /\ SourceInv
    BY DEF DeployInv
<1>2. /\ profile' \in Profile /\ tree' \in Source /\ head' \in Source
      /\ UNCHANGED <<local, repoDigests, remote, ctr, cri, release, stable, pc, steps>>
      /\ UNCHANGED <<archive, digest, left, built, registered, shared, torn, faults, edits>>
    BY DEF Looked, Profile
<1>3. Workflow!TypeOK'
    BY <1>1, <1>2 DEF Workflow!TypeOK
<1>4. PlanInv'
    <2> SUFFICES ASSUME NEW a \in Apply
                 PROVE  (\E k \in 0 .. Len(Workflow!Plan(profile)) : Reported(a, k))'
        BY DEF PlanInv
    <2>1. PICK k \in 0 .. Len(Workflow!Plan(profile)) : Reported(a, k)
        BY <1>1 DEF PlanInv
    <2>2. k = 0 /\ steps[a] = SubSeq(Workflow!Plan(profile), 1, 0)
        BY <2>1 DEF Reported
    <2>3. PICK old \in Seq(Workflow!Step), new \in Seq(Workflow!Step) :
              /\ old = Workflow!Plan(profile) /\ new = Workflow!Plan(profile')
              /\ Orderly(profile', new)
        BY <1>1, <1>2, PlanIsOrderly DEF Orderly
    <2>4. SubSeq(old, 1, 0) = SubSeq(new, 1, 0)
        OBVIOUS
    <2>5. 0 \in 0 .. Len(new)
        OBVIOUS
    <2>6. pc'[a] = "off" /\ steps'[a] = SubSeq(new, 1, 0)
        BY <1>2, <2>2, <2>3, <2>4
    <2>7. Reported(a, 0)'
        BY <2>3, <2>6 DEF Reported, Workflow!Step
    <2> QED
        BY <2>3, <2>5, <2>7
<1>5. ArtifactInv' /\ AloneInv'
    BY <1>2 DEF ArtifactInv, AloneInv, Built, Pinned, Deploying, Workflow!Ended
<1>6. NodesInv'
    BY <1>1, <1>2 DEF NodesInv, Pinned, Deploying
<1>7. SourceInv'
    BY <1>1, <1>2 DEF SourceInv
<1> QED
    BY <1>2, <1>3, <1>4, <1>5, <1>6, <1>7 DEF DeployInv

-----------------------------------------------------------------------------
\* Before the preflight nothing was planned, built, pushed or prepared.
LEMMA InitDeploy == HostInit => DeployInv
<1> SUFFICES ASSUME HostInit PROVE DeployInv
    OBVIOUS
<1>1. /\ profile = [pushMode |-> "docker", kindPrepull |-> FALSE, test |-> FALSE]
      /\ tree = tag /\ head = tag
    BY DEF HostInit
<1>2. /\ local = Workflow!NoImage /\ remote = Workflow!NoImage
      /\ repoDigests = [i \in Workflow!Image |-> {}]
      /\ ctr = [n \in Node |-> {}] /\ cri = [n \in Node |-> {}]
      /\ release = Workflow!NoRelease /\ stable = Workflow!NoRelease
      /\ pc = [a \in Apply |-> "off"] /\ steps = [a \in Apply |-> <<>>]
      /\ archive = [a \in Apply |-> Workflow!NoImage] /\ digest = [a \in Apply |-> Workflow!NoDigest]
      /\ left = [a \in Apply |-> <<>>] /\ built = [a \in Apply |-> Workflow!NoImage]
      /\ registered = [a \in Apply |-> {}] /\ shared = {}
      /\ torn = FALSE /\ faults = 0 /\ edits = 0
    BY DEF HostInit, Workflow!Init
<1>3. Workflow!TypeOK
    <2>1. 0 \in 0 .. MaxFaults /\ 0 \in 0 .. MaxEdits /\ tag \in Source
        BY DeployAssumption
    <2>2. release \in Workflow!Release /\ stable \in Workflow!Release
        BY <1>2 DEF Workflow!Release, Workflow!NoRelease
    <2>3. steps \in [Apply -> Seq(Workflow!Step)] /\ left \in [Apply -> Seq(Node)]
        BY <1>2
    <2>4. pc \in [Apply -> Workflow!Step \cup Workflow!Ended \cup {"status", "wait"}]
        BY <1>2 DEF Workflow!Ended
    <2> QED
        BY <1>1, <1>2, <2>1, <2>2, <2>3, <2>4 DEF Workflow!TypeOK
<1>4. profile \in Profile
    BY <1>1 DEF Profile
<1>5. PlanInv
    <2> SUFFICES ASSUME NEW a \in Apply
                 PROVE  \E k \in 0 .. Len(Workflow!Plan(profile)) : Reported(a, k)
        BY DEF PlanInv
    <2>1. PICK plan \in Seq(Workflow!Step) : plan = Workflow!Plan(profile)
        BY <1>4, PlanIsOrderly DEF Orderly
    <2>2. <<>> = SubSeq(plan, 1, 0) /\ 0 \in 0 .. Len(plan)
        OBVIOUS
    <2>3. Reported(a, 0)
        BY <1>2, <2>1, <2>2 DEF Reported, Workflow!Step
    <2> QED
        BY <2>1, <2>2, <2>3
<1>6. ArtifactInv /\ AloneInv
    BY <1>2 DEF ArtifactInv, AloneInv, Built, Pinned, Deploying, Workflow!Ended
<1>7. NodesInv
    BY <1>2 DEF NodesInv, Pinned, Deploying
<1>8. SourceInv
    BY <1>2 DEF SourceInv, Workflow!NoImage, Workflow!NoDigest
<1> QED
    BY <1>3, <1>4, <1>5, <1>6, <1>7, <1>8 DEF DeployInv

\* Every step of the Doctor, of an apply and of the developer.
LEMMA DeployStep ==
    ASSUME EInv, StartedOnReady, DeployInv, [HostNext]_hostVars
    PROVE  DeployInv'
<1>1. CASE UNCHANGED workflowVars
    <2> USE <1>1 DEF workflowVars, DeployInv
    <2>1. Workflow!TypeOK'
        BY DEF Workflow!TypeOK
    <2>2. PlanInv'
        BY DEF PlanInv, Reported
    <2>3. ArtifactInv' /\ AloneInv'
        BY DEF ArtifactInv, AloneInv
    <2>4. NodesInv' /\ SourceInv'
        BY DEF NodesInv, SourceInv
    <2> QED
        BY <2>1, <2>2, <2>3, <2>4
<1>2. CASE Report /\ Looked
    <2>1. answer = "none"
        BY <1>2 DEF Report, EInv, Stages
    <2>2. \A a \in Apply : pc[a] = "off"
        BY <2>1 DEF StartedOnReady
    <2> QED
        BY <1>2, <2>2, LookedStep
<1>3. CASE Workflow!Next
    BY <1>3, CommandStep, DeveloperStep DEF Workflow!Next
<1> QED
    BY <1>1, <1>2, <1>3 DEF HostNext, hostVars, Deploy

\* The inductive invariant of the workflow.
THEOREM DeployInvariance == HostSpec => []DeployInv
<1>1. HostSpec => []EInv
    BY DeploymentUsesDoctor, DoctorInvariance, PTL
<1>2. EInv /\ StartedOnReady /\ [HostNext]_hostVars => StartedOnReady'
    BY StartedStep
<1>3. EInv /\ StartedOnReady /\ DeployInv /\ [HostNext]_hostVars => DeployInv'
    BY DeployStep
<1> QED
    BY <1>1, <1>2, <1>3, InitStarted, InitDeploy, PTL DEF HostSpec

\* An apply carries out the plan that was shown, in its order and no further than it
\* got; alone it deploys what it built; a release that may not pull finds its image on
\* every node; and what is deployed comes from the commit of its tag, unless the tree
\* was changed under a build (workflow.go:162-180, 227-351).
THEOREM DeploymentsArePlanned == HostSpec => []DeploysAsPlanned
<1>1. DeployInv => DeploysAsPlanned
    <2> SUFFICES ASSUME DeployInv PROVE DeploysAsPlanned
        OBVIOUS
    <2>1. PlanInv /\ AloneInv /\ NodesInv /\ SourceInv /\ profile \in Profile
        BY DEF DeployInv
    <2>2. Workflow!FollowsPlan
        <3> SUFFICES ASSUME NEW a \in Apply PROVE Workflow!IsPrefix(steps[a], Workflow!Plan(profile))
            BY DEF Workflow!FollowsPlan
        <3>1. PICK plan \in Seq(Workflow!Step) : plan = Workflow!Plan(profile)
            BY <2>1, PlanIsOrderly DEF Orderly
        <3>2. PICK k \in 0 .. Len(plan) : steps[a] = SubSeq(plan, 1, k)
            BY <2>1, <3>1 DEF PlanInv, Reported
        <3>3. PICK t \in Seq(Workflow!Step) : t = SubSeq(plan, 1, k) /\ Len(t) = k
            <4>1. SubSeq(plan, 1, k) \in Seq(Workflow!Step) /\ Len(SubSeq(plan, 1, k)) = k
                OBVIOUS
            <4> QED
                BY <4>1
        <3>4. SubSeq(t, 1, Len(t)) = SubSeq(plan, 1, Len(t)) /\ Len(t) <= Len(plan)
            BY <3>3
        <3> QED
            BY <3>1, <3>2, <3>3, <3>4 DEF Workflow!IsPrefix
    <2>3. Workflow!PinnedIsBuilt
        BY <2>1 DEF AloneInv, Pinned, Deploying, Workflow!PinnedIsBuilt
    <2>4. Workflow!NeverIsPrepared
        BY <2>1 DEF NodesInv, Deploying, Workflow!NeverIsPrepared
    <2>5. Workflow!TagNamesSource
        BY <2>1 DEF SourceInv, Workflow!TagNamesSource
    <2> QED
        BY <2>2, <2>3, <2>4, <2>5 DEF DeploysAsPlanned
<1> QED
    BY <1>1, DeployInvariance, PTL

\* The Doctor's gate is given back and its report rests on evidence in a deployment as
\* anywhere, and the variables of both hold values of their types (doctor.go:261-305,
\* prompt.go:161-181, workflow.go:205-212).
THEOREM ReportsAreSound == HostSpec => []ReportSound
<1>1. EInv => NobodyStuck
    <2> SUFFICES ASSUME EInv, caller = "running", world["disk"] # Hangs, ~AllGone
                 PROVE  \E c \in Tasks(tool) : \/ worker[c] = "checking" /\ Returns(c)
                                               \/ worker[c] = "waiting" /\ HasRoom
        BY DEF NobodyStuck
    <2>1. PICK c \in Tasks(tool) : worker[c] # "gone"
        BY DEF AllGone
    <2>2. worker[c] \in {"waiting", "checking"}
        BY <2>1, TasksAreChecks DEF EInv, IInv, TypeOK, Written, Position
    <2>3. CASE Working # {}
        <3>1. PICK d \in Check : worker[d] = "checking"
            BY <2>3 DEF Working
        <3>2. d \in Tasks(tool) /\ Returns(d)
            BY <3>1 DEF EInv, Stages, Returns
        <3> QED
            BY <3>1, <3>2
    <2>4. CASE Working = {}
        <3>1. worker[c] = "waiting"
            BY <2>2, <2>4, TasksAreChecks DEF Working
        <3>2. HasRoom
            BY <2>4, FS_EmptySet, DoctorAssumption DEF HasRoom
        <3> QED
            BY <3>1, <3>2
    <2> QED
        BY <2>3, <2>4
<1>2. EInv => TypeOK
    BY DEF EInv, IInv
<1>3. DeployInv => Workflow!TypeOK
    BY DEF DeployInv
<1>4. HostSpec => []EInv /\ []GateRespected /\ []ReportComplete /\ []AnswersRestOnEvidence
    BY DeploymentUsesDoctor, DoctorInvariance, GateHolds, ReportsComplete, AnswersRest, PTL
<1>5. TypeOK /\ Workflow!TypeOK /\ GateRespected /\ NobodyStuck /\ ReportComplete
      /\ AnswersRestOnEvidence => ReportSound
    BY DEF ReportSound
<1> QED
    BY <1>1, <1>2, <1>3, <1>4, <1>5, DeployInvariance, PTL

-----------------------------------------------------------------------------
(* The runs of the agent *)

\* What a run knows of the machine and of the zone was true during the run.
SuccessInv ==
    /\ stage # "off" => targetIP(net) \in targets
    /\ stage \notin {"off", "target"} => ip \in targets
    /\ HeldBy(records) \subseteq held
    /\ stage = "target" => result = "none"
    /\ result = "ok" => ip \in held \cap targets

\* Without trouble kubectl is there as long as it is needed, and with a session the
\* run has still to log out.
SmoothInv ==
    /\ timeUp => trouble \/ stage = "off"
    /\ cancelled => stage = "wait"
    /\ stage \in {"off", "target", "password"} => kubectl = "off"
    /\ stage \in Calls \cup {"forward"} => kubectl = "up" \/ trouble
    /\ session => trouble \/ stage \in Calls \ {"login"}

RunInv == ReconcileTypeOK /\ SuccessInv /\ SmoothInv

-----------------------------------------------------------------------------
\* The address of a machine is one (network.go).
LEMMA TargetTyped == \A n \in Net : targetIP(n) \in IP \cup {NoIP}
<1> SUFFICES ASSUME NEW n \in Net, Cardinality(n.addrs) = 1
             PROVE  (CHOOSE a \in n.addrs : TRUE) \in IP
    BY DEF targetIP
<1>1. n.addrs # {}
    BY FS_EmptySet
<1>2. n.addrs \subseteq IP
    BY ReconcileAssumption
<1> QED
    BY <1>1, <1>2

LEMMA InitRun == ReconcileInit => RunInv
<1> SUFFICES ASSUME ReconcileInit PROVE RunInv
    OBVIOUS
<1>1. noise \in 0..MaxNoise /\ failures \in 0..MaxFailures /\ changes \in 0..MaxChanges
    BY ReconcileAssumption DEF ReconcileInit
<1>2. lines \in Seq(Line) /\ Len(lines) <= LineCap
    BY ReconcileAssumption DEF ReconcileInit
<1>3. os \in Seq(Line) /\ chunk \in Seq(Line) /\ buf \in Seq(Line)
    BY DEF ReconcileInit
<1>4. ReconcileTypeOK
    BY <1>1, <1>2, <1>3 DEF ReconcileInit, ReconcileTypeOK, Calls
<1>5. SuccessInv /\ SmoothInv
    BY DEF ReconcileInit, SuccessInv, SmoothInv, HeldBy, Calls
<1> QED
    BY <1>4, <1>5 DEF RunInv

-----------------------------------------------------------------------------
(* Bounds *)

\* Faults and changes stay within their bounds.
LEMMA FaultTyped ==
    ASSUME ReconcileTypeOK, Fault \/ Smooth PROVE failures' \in 0..MaxFailures /\ trouble' \in BOOLEAN
<1>1. failures' = failures \/ (failures < MaxFailures /\ failures' = failures + 1)
    BY DEF Fault, Smooth
<1>2. failures \in 0..MaxFailures
    BY DEF ReconcileTypeOK
<1>3. failures' \in 0..MaxFailures
    BY <1>1, <1>2, ReconcileAssumption
<1>4. trouble' \in BOOLEAN
    BY DEF Fault, Smooth, ReconcileTypeOK
<1> QED
    BY <1>3, <1>4

LEMMA ChangeTyped == ASSUME ReconcileTypeOK, Change PROVE changes' \in 0..MaxChanges
<1>1. changes \in 0..MaxChanges /\ changes < MaxChanges /\ changes' = changes + 1
    BY DEF ReconcileTypeOK, Change
<1> QED
    BY <1>1, ReconcileAssumption

\* What a call to Technitium leaves as it is, and the addresses it may set.
LEMMA RecordsTyped ==
    ASSUME NEW a \in IP PROVE {Current(a)} \subseteq Record /\ HeldBy({Current(a)}) = {a}
BY DEF Current, Record, HeldBy

-----------------------------------------------------------------------------
(* kubectl and the way of its output *)

LEMMA PipeStep ==
    ASSUME RunInv, Plumbing \/ PrintPort \/ PrintNoise \/ KubectlEnds PROVE RunInv'
<1> USE DEF RunInv
<1>1. UNCHANGED <<net, technitium, run, timeUp, session, cancelled, targets, held, changes>>
    BY DEF Plumbing, CopierReads, ScannerReads, ScannerOffers, PrintPort, PrintNoise, Prints, KubectlEnds
<1>2. SuccessInv'
    BY <1>1 DEF SuccessInv, technitium, run
<1>3. CASE KubectlEnds
    <2>1. failures' \in 0..MaxFailures /\ trouble' \in BOOLEAN
        BY <1>3, FaultTyped DEF KubectlEnds
    <2>2. ReconcileTypeOK'
        BY <1>1, <1>3, <2>1 DEF KubectlEnds, ReconcileTypeOK, technitium, run
    <2>3. SmoothInv'
        BY <1>1, <1>3 DEF KubectlEnds, SmoothInv, ReconcileTypeOK, Done, Smooth, Fault, Calls, run
    <2> QED
        BY <1>2, <2>2, <2>3
<1>4. CASE Plumbing \/ PrintPort \/ PrintNoise
    <2>1. UNCHANGED <<kubectl, trouble, failures>>
        BY <1>4 DEF Plumbing, CopierReads, ScannerReads, ScannerOffers, PrintPort, PrintNoise, Prints
    <2>2. SmoothInv'
        BY <1>1, <2>1 DEF SmoothInv, run
    <2>3. /\ os' \in Seq(Line) /\ chunk' \in Seq(Line) /\ buf' \in Seq(Line)
          /\ lines' \in Seq(Line) /\ Len(lines') <= LineCap
        <3>1. CASE PrintPort \/ PrintNoise
            <4>1. UNCHANGED <<chunk, buf, lines>>
                BY <3>1 DEF PrintPort, PrintNoise, Prints
            <4>2. PICK line \in Line : os' = Append(os, line)
                BY <3>1 DEF PrintPort, PrintNoise, Prints, Line
            <4>3. os' \in Seq(Line)
                <5>1. os \in Seq(Line)
                    BY DEF ReconcileTypeOK
                <5> QED
                    BY <4>2, <5>1
            <4> QED
                BY <4>1, <4>3 DEF ReconcileTypeOK
        <3>2. CASE CopierReads
            <4>1. (chunk' = os /\ os' = <<>>) \/ UNCHANGED <<chunk, os>>
                BY <3>2 DEF CopierReads
            <4>2. UNCHANGED <<buf, lines>>
                BY <3>2 DEF CopierReads
            <4>3. os \in Seq(Line) /\ chunk \in Seq(Line) /\ <<>> \in Seq(Line)
                BY DEF ReconcileTypeOK
            <4>4. os' \in Seq(Line) /\ chunk' \in Seq(Line)
                BY <4>1, <4>3
            <4> QED
                BY <4>2, <4>4 DEF ReconcileTypeOK
        <3>3. CASE ScannerReads
            BY <3>3 DEF ScannerReads, ReconcileTypeOK
        <3>4. CASE ScannerOffers
            <4>1. UNCHANGED <<os, chunk>> /\ buf \in Seq(Line) /\ buf # <<>> /\ lines \in Seq(Line)
                BY <3>4 DEF ScannerOffers, ReconcileTypeOK
            <4>2. Head(buf) \in Line /\ Tail(buf) \in Seq(Line)
                BY <4>1
            <4>3. CASE Len(lines) < LineCap /\ lines' = Append(lines, Head(buf)) /\ buf' = Tail(buf)
                <5>1. lines' \in Seq(Line) /\ Len(lines') = Len(lines) + 1 /\ Len(lines) \in Nat
                    BY <4>1, <4>2, <4>3
                <5>2. Len(lines') <= LineCap
                    BY <4>3, <5>1, ReconcileAssumption
                <5>3. os \in Seq(Line) /\ chunk \in Seq(Line)
                    BY DEF ReconcileTypeOK
                <5> QED
                    BY <4>1, <4>2, <4>3, <5>1, <5>2, <5>3
            <4>4. CASE buf' \in {<<>>, Tail(buf)} /\ UNCHANGED lines
                <5>1. <<>> \in Seq(Line)
                    OBVIOUS
                <5>2. buf' \in Seq(Line)
                    BY <4>2, <4>4, <5>1
                <5> QED
                    BY <4>1, <4>4, <5>2 DEF ReconcileTypeOK
            <4> QED
                BY <3>4, <4>3, <4>4 DEF ScannerOffers
        <3> QED
            BY <1>4, <3>1, <3>2, <3>3, <3>4 DEF Plumbing
    <2>4. noise' \in 0..MaxNoise /\ banner' \in BOOLEAN
        <3>1. noise' = noise \/ (noise < MaxNoise /\ noise' = noise + 1)
            BY <1>4 DEF Plumbing, CopierReads, ScannerReads, ScannerOffers, PrintPort, PrintNoise
        <3>2. noise' \in 0..MaxNoise
            BY <3>1, ReconcileAssumption DEF ReconcileTypeOK
        <3>3. banner' \in BOOLEAN
            BY <1>4 DEF Plumbing, CopierReads, ScannerReads, ScannerOffers, PrintPort, PrintNoise, ReconcileTypeOK
        <3> QED
            BY <3>2, <3>3
    <2>5. copier' \in {"off", "read", "write", "end"} /\ scanner' \in {"off", "scan", "gone"}
        BY <1>4 DEF Plumbing, CopierReads, ScannerReads, ScannerOffers, PrintPort, PrintNoise, Prints, ReconcileTypeOK
    <2>6. ReconcileTypeOK'
        BY <1>1, <2>1, <2>3, <2>4, <2>5 DEF ReconcileTypeOK, technitium, run
    <2> QED
        BY <1>2, <2>2, <2>6
<1> QED
    BY <1>3, <1>4

-----------------------------------------------------------------------------
(* The run *)

\* Up to the port: a run starts with what it sees now, and holds an address from its
\* lookup on.
LEMMA BeginStep ==
    ASSUME RunInv, StartRun \/ FindTarget \/ StartForward PROVE RunInv'
<1> USE DEF RunInv
<1>1. CASE StartRun
    <2>1. targetIP(net) \in IP \cup {NoIP} /\ HeldBy(records) \subseteq IP
        BY TargetTyped DEF ReconcileTypeOK, HeldBy
    <2>2. ReconcileTypeOK'
        BY <1>1, <2>1 DEF StartRun, ReconcileTypeOK, technitium, pipe
    <2>3. SuccessInv'
        BY <1>1 DEF StartRun, SuccessInv, technitium
    <2>4. SmoothInv'
        BY <1>1 DEF StartRun, SmoothInv, pipe, Calls
    <2> QED
        BY <2>2, <2>3, <2>4
<1>2. CASE FindTarget
    <2>1. targetIP(net) \in IP \cup {NoIP}
        BY TargetTyped DEF ReconcileTypeOK
    <2>2. ReconcileTypeOK'
        BY <1>2, <2>1 DEF FindTarget, ReconcileTypeOK, technitium, pipe
    <2>3. SuccessInv'
        BY <1>2 DEF FindTarget, SuccessInv, technitium
    <2>4. SmoothInv'
        BY <1>2 DEF FindTarget, SmoothInv, pipe, Calls
    <2> QED
        BY <2>2, <2>3, <2>4
<1>3. CASE StartForward
    <2>1. failures' \in 0..MaxFailures /\ trouble' \in BOOLEAN
        BY <1>3, FaultTyped DEF StartForward
    <2>2. ReconcileTypeOK'
        BY <1>3, <2>1 DEF StartForward, ReconcileTypeOK, technitium
    <2>3. SuccessInv'
        BY <1>3 DEF StartForward, SuccessInv, technitium
    <2>4. SmoothInv'
        BY <1>3 DEF StartForward, SmoothInv, Smooth, Fault, Calls
    <2> QED
        BY <2>2, <2>3, <2>4
<1> QED
    BY <1>1, <1>2, <1>3

\* The port appears, or the loop ends without it; the end waits for kubectl.
LEMMA ForwardStep ==
    ASSUME RunInv, AwaitPort \/ Stop \/ WaitReturns PROVE RunInv'
<1> USE DEF RunInv
<1>1. CASE AwaitPort
    <2>1. failures' \in 0..MaxFailures /\ trouble' \in BOOLEAN
        BY <1>1, FaultTyped DEF AwaitPort
    <2>2. lines' \in Seq(Line) /\ Len(lines') <= LineCap
        <3>1. lines \in Seq(Line) /\ Len(lines) <= LineCap
            BY DEF ReconcileTypeOK
        <3>2. CASE lines # <<>> /\ lines' = Tail(lines)
            <4>1. lines' \in Seq(Line) /\ Len(lines') = Len(lines) - 1 /\ Len(lines) \in Nat
                BY <3>1, <3>2
            <4> QED
                BY <3>1, <4>1, ReconcileAssumption
        <3>3. CASE UNCHANGED lines
            BY <3>1, <3>3
        <3> QED
            BY <1>1, <3>2, <3>3 DEF AwaitPort
    <2>3. stage = "forward" /\ stage' \in {"forward", "login", "stop"} /\ result' \in {result, "error"}
        BY <1>1 DEF AwaitPort, Return
    <2>4. UNCHANGED <<net, technitium, ip, timeUp, session, kubectl, os, copier, chunk, scanner, buf,
                      cancelled, banner, noise, targets, held, changes>>
        BY <1>1 DEF AwaitPort
    <2>5. trouble => trouble'
        BY <1>1 DEF AwaitPort, Smooth, Fault
    <2>6. ReconcileTypeOK'
        BY <2>1, <2>2, <2>3, <2>4 DEF ReconcileTypeOK, technitium, Calls
    <2>7. SuccessInv'
        BY <2>3, <2>4 DEF SuccessInv, technitium
    <2>8. SmoothInv'
        BY <2>3, <2>4, <2>5, <1>1 DEF SmoothInv, Calls, ReconcileTypeOK
    <2> QED
        BY <2>6, <2>7, <2>8
<1>2. CASE Stop
    <2>1. ReconcileTypeOK'
        BY <1>2 DEF Stop, ReconcileTypeOK, technitium
    <2>2. SuccessInv'
        BY <1>2 DEF Stop, SuccessInv, technitium
    <2>3. SmoothInv'
        BY <1>2 DEF Stop, SmoothInv, Calls
    <2> QED
        BY <2>1, <2>2, <2>3
<1>3. CASE WaitReturns
    <2>1. <<>> \in Seq(Line) /\ Len(<<>>) <= LineCap /\ 0 \in 0..MaxNoise
        BY ReconcileAssumption
    <2>2. ReconcileTypeOK'
        BY <1>3, <2>1 DEF WaitReturns, ReconcileTypeOK, technitium
    <2>3. SuccessInv'
        BY <1>3 DEF WaitReturns, SuccessInv, technitium
    <2>4. SmoothInv'
        BY <1>3 DEF WaitReturns, SmoothInv, Calls
    <2> QED
        BY <2>2, <2>3, <2>4
<1> QED
    BY <1>1, <1>2, <1>3

\* What every call to Technitium has in common: it is answered only while kubectl is
\* there, and it fails only in trouble.
LEMMA CallStep ==
    ASSUME RunInv, Login \/ ListZones \/ CreateZone \/ GetRecords \/ AddRecord \/ Logout
    PROVE  /\ stage \in Calls /\ OutsidePipe
           /\ Smooth \/ Fault
           /\ (trouble => trouble')
           /\ trouble' \/ (kubectl = "up" /\ ~timeUp)
<1> USE DEF RunInv
<1>1. stage \in Calls /\ OutsidePipe
    BY DEF Login, ListZones, CreateZone, GetRecords, AddRecord, Logout, Calls
<1>2. Smooth \/ Fault
    BY DEF Login, LoginFails, ListZones, CreateZone, GetRecords, AddRecord, Logout,
           Answered, GivesUp, Failed
<1>3. trouble => trouble'
    BY <1>2 DEF Smooth, Fault
<1>4. (kubectl = "up" /\ ~timeUp) \/ trouble
    BY <1>1 DEF SmoothInv, Calls
<1> QED
    BY <1>1, <1>2, <1>3, <1>4

LEMMA TechnitiumStep ==
    ASSUME RunInv, Login \/ ListZones \/ CreateZone \/ GetRecords \/ AddRecord \/ Logout
    PROVE  RunInv'
<1> USE DEF RunInv
<1>1. stage \in Calls /\ (trouble => trouble') /\ (trouble' \/ (kubectl = "up" /\ ~timeUp))
    BY CallStep
<1>2. UNCHANGED <<net, ip, timeUp, pipe, targets, changes>>
    BY CallStep DEF OutsidePipe
<1>3. failures' \in 0..MaxFailures /\ trouble' \in BOOLEAN
    BY CallStep, FaultTyped
<1>4. ip \in IP /\ ip \in targets /\ cancelled = FALSE
    BY <1>1 DEF ReconcileTypeOK, SuccessInv, SmoothInv, Calls
<1>5. /\ stage' \in (Calls \ {"login"}) \cup {"stop"}
      /\ (stage' = "stop" => ~session' \/ trouble')
      /\ session' \in BOOLEAN
      /\ result' \in {result, "ok", "error"}
    <2>1. CASE Login
        BY <2>1, <1>1 DEF Login, LoginFails, Return, Answered, Failed, Smooth, Fault, Calls, ReconcileTypeOK,
                          SmoothInv
    <2>2. CASE ListZones \/ CreateZone \/ GetRecords \/ AddRecord
        BY <2>2 DEF ListZones, CreateZone, GetRecords, AddRecord, GivesUp, Return, Calls, ReconcileTypeOK
    <2>3. CASE Logout
        BY <2>3, <1>1 DEF Logout, Failed, Smooth, Fault, Calls, ReconcileTypeOK
    <2> QED
        BY <2>1, <2>2, <2>3
<1>6. /\ zone' \in BOOLEAN /\ records' \subseteq Record /\ late' \subseteq IP /\ held' \subseteq IP
      /\ HeldBy(records)' \subseteq held'
      /\ held \subseteq held'
      /\ (result' = "ok" => ip \in held')
    <2>1. CASE Login \/ ListZones \/ CreateZone \/ Logout
        <3>1. UNCHANGED <<records, late, held>> /\ zone' \in {zone, TRUE}
            BY <2>1 DEF Login, ListZones, CreateZone, Logout, technitium
        <3>2. result' \in {result, "error"}
            BY <2>1 DEF Login, LoginFails, ListZones, CreateZone, Logout, GivesUp, Return
        <3> QED
            BY <3>1, <3>2 DEF ReconcileTypeOK, SuccessInv, HeldBy
    <2>2. CASE GetRecords
        <3>1. UNCHANGED <<technitium, held>>
            BY <2>2 DEF GetRecords
        <3>2. result' \in {result, "error"} \/ Current(ip) \in records
            BY <2>2 DEF GetRecords, GivesUp, Return, IsCurrent
        <3>3. Current(ip) \in records => ip \in held
            BY <1>4 DEF SuccessInv, HeldBy
        <3> QED
            BY <3>1, <3>2, <3>3 DEF ReconcileTypeOK, SuccessInv, HeldBy, technitium
    <2>3. CASE AddRecord
        <3>1. zone' = zone /\ late' \in {late, late \cup {ip}}
            BY <2>3 DEF AddRecord
        <3>2. CASE SetRecords({Current(ip)})
            BY <3>1, <3>2, <1>4, RecordsTyped DEF SetRecords, ReconcileTypeOK
        <3>3. CASE UNCHANGED <<records, held>> /\ result' \in {result, "error"}
            BY <3>1, <3>3, <1>4 DEF ReconcileTypeOK, SuccessInv, HeldBy
        <3> QED
            BY <2>3, <3>2, <3>3 DEF AddRecord, GivesUp, Return
    <2> QED
        BY <2>1, <2>2, <2>3
<1>7. ReconcileTypeOK'
    BY <1>1, <1>2, <1>3, <1>4, <1>5, <1>6 DEF ReconcileTypeOK, pipe, Calls
<1>8. SuccessInv'
    BY <1>1, <1>2, <1>4, <1>5, <1>6 DEF SuccessInv, Calls
<1>9. SmoothInv'
    BY <1>1, <1>2, <1>4, <1>5 DEF SmoothInv, Calls, pipe
<1> QED
    BY <1>7, <1>8, <1>9

-----------------------------------------------------------------------------
(* The world *)

LEMMA WorldStep == ASSUME RunInv, Surroundings PROVE RunInv'
<1> USE DEF RunInv
<1>1. CASE TimeIsUp
    <2>1. failures' \in 0..MaxFailures /\ trouble' \in BOOLEAN
        BY <1>1, FaultTyped DEF TimeIsUp
    <2>2. ReconcileTypeOK'
        BY <1>1, <2>1 DEF TimeIsUp, ReconcileTypeOK, technitium, run, pipe
    <2>3. SuccessInv'
        BY <1>1 DEF TimeIsUp, SuccessInv, technitium, run
    <2>4. SmoothInv'
        BY <1>1 DEF TimeIsUp, SmoothInv, Fault, Calls, run, pipe
    <2> QED
        BY <2>2, <2>3, <2>4
<1>2. CASE LandsLate
    <2>1. PICK a \in late :
              /\ late' = late \ {a}
              /\ SetRecords({Current(a)}) \/ UNCHANGED <<records, held>>
        BY <1>2 DEF LandsLate
    <2>2. a \in IP
        BY <2>1 DEF ReconcileTypeOK
    <2>3. records' \subseteq Record /\ held' \subseteq IP /\ held \subseteq held'
          /\ HeldBy(records)' \subseteq held'
        BY <2>1, <2>2, RecordsTyped DEF SetRecords, ReconcileTypeOK, SuccessInv, HeldBy
    <2>4. UNCHANGED <<net, zone, run, timeUp, session, pipe, targets, trouble, failures, changes>>
        BY <1>2 DEF LandsLate
    <2>5. ReconcileTypeOK'
        BY <2>1, <2>3, <2>4 DEF ReconcileTypeOK, run, pipe
    <2>6. SuccessInv'
        BY <2>3, <2>4 DEF SuccessInv, run
    <2>7. SmoothInv'
        BY <2>4 DEF SmoothInv, run, pipe
    <2> QED
        BY <2>5, <2>6, <2>7
<1>3. CASE NetChanges
    <2>1. changes' \in 0..MaxChanges
        BY <1>3, ChangeTyped DEF NetChanges
    <2>2. net' \in Net /\ targetIP(net)' \in IP \cup {NoIP}
        BY <1>3, TargetTyped DEF NetChanges, targetIP
    <2>3. targets' = targets \cup {targetIP(net)'}
        BY <1>3 DEF NetChanges, targetIP
    <2>4. UNCHANGED <<technitium, run, timeUp, session, pipe, held, trouble, failures>>
        BY <1>3 DEF NetChanges
    <2>5. ReconcileTypeOK'
        BY <2>1, <2>2, <2>3, <2>4 DEF ReconcileTypeOK, technitium, run, pipe
    <2>6. SuccessInv'
        BY <2>3, <2>4 DEF SuccessInv, technitium, run, HeldBy
    <2>7. SmoothInv'
        BY <2>4 DEF SmoothInv, run, pipe
    <2> QED
        BY <2>5, <2>6, <2>7
<1>4. CASE ZoneEdited
    <2>1. changes' \in 0..MaxChanges
        BY <1>4, ChangeTyped DEF ZoneEdited
    <2>2. UNCHANGED <<net, late, run, timeUp, session, pipe, targets, trouble, failures>>
        BY <1>4 DEF ZoneEdited
    <2>3. zone' \in BOOLEAN /\ records' \subseteq Record /\ held' \subseteq IP /\ held \subseteq held'
          /\ HeldBy(records)' \subseteq held'
        BY <1>4 DEF ZoneEdited, SetRecords, ReconcileTypeOK, HeldBy
    <2>4. ReconcileTypeOK'
        BY <2>1, <2>2, <2>3 DEF ReconcileTypeOK, run, pipe
    <2>5. SuccessInv'
        BY <2>2, <2>3 DEF SuccessInv, run
    <2>6. SmoothInv'
        BY <2>2 DEF SmoothInv, run, pipe
    <2> QED
        BY <2>4, <2>5, <2>6
<1> QED
    BY <1>1, <1>2, <1>3, <1>4 DEF Surroundings

-----------------------------------------------------------------------------
(* The results *)

\* The inductive invariant of the runs, one after the other: what an address in the
\* hands of a run says about the machine and the zone, and who still needs kubectl.
THEOREM RunInvariance == ReconcileSpec => []RunInv
<1>1. ASSUME RunInv, [ReconcileNext]_reconcileVars PROVE RunInv'
    <2>1. CASE ReconcileNext
        BY <1>1, <2>1, BeginStep, ForwardStep, TechnitiumStep, PipeStep, WorldStep DEF ReconcileNext, RunStep
    <2>2. CASE UNCHANGED reconcileVars
        BY <1>1, <2>2 DEF reconcileVars, technitium, run, pipe, RunInv, ReconcileTypeOK, SuccessInv, SmoothInv,
                          HeldBy, targetIP
    <2> QED
        BY <1>1, <2>1, <2>2
<1> QED
    BY <1>1, InitRun, PTL DEF ReconcileSpec

\* A run of kuchdesk-host-agent that reports success did what it says with an address
\* of this machine, leaves no port-forward, and without a failure no session.
THEOREM RunsAreSound == ReconcileSpec => []RunsSound
<1>1. RunInv => RunsSound
    BY DEF RunInv, SuccessInv, SmoothInv, RunsSound, SuccessIsReal, NoForwardLeft, LoggedOut, Calls
<1> QED
    BY <1>1, RunInvariance, PTL
=============================================================================
