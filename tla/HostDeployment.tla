---------------------------- MODULE HostDeployment ----------------------------
(***************************************************************************)
(* A deployment from a Mac: the Doctor's preflight of DoctorReport, and    *)
(* the commands of DeployWorkflow, which nobody starts before a preflight  *)
(* was ready.  What the Doctor does for its other callers is here too.     *)
(*                                                                         *)
(* Each apply runs a preflight of its own; the one that is modelled check  *)
(* by check stands for them all, and the step "preflight" of an apply for  *)
(* its repetition.                                                         *)
(***************************************************************************)
EXTENDS DoctorReport

CONSTANTS Apply, Source, tag, Node, MaxFaults, MaxEdits

ASSUME DeployAssumption ==
    /\ tag \in Source
    /\ IsFiniteSet(Node) /\ Cardinality(Node) \in 1..16
    /\ MaxFaults \in Nat /\ MaxEdits \in Nat

VARIABLES profile, tree, head, local, repoDigests, remote, ctr, cri, release, stable,
          pc, steps, archive, digest, left, built, registered, shared, torn, faults, edits

Workflow == INSTANCE DeployWorkflow

workflowVars == <<profile, tree, head, local, repoDigests, remote, ctr, cri, release, stable,
                  pc, steps, archive, digest, left, built, registered, shared, torn, faults, edits>>
hostVars == <<vars, workflowVars>>

\* Nobody looks at the profile, the tree or HEAD before the preflight is over.
HostInit ==
    /\ Init /\ Workflow!Init
    /\ profile = [pushMode |-> "docker", kindPrepull |-> FALSE, test |-> FALSE]
    /\ tree = tag /\ head = tag

\* When it is, they are what they are.
Looked ==
    /\ profile' \in [pushMode : {"docker", "host-crane"}, kindPrepull : BOOLEAN, test : BOOLEAN]
    /\ tree' \in Source /\ head' \in Source
    /\ UNCHANGED <<local, repoDigests, remote, ctr, cri, release, stable, pc, steps,
                   archive, digest, left, built, registered, shared, torn, faults, edits>>

DeployIgnoringReport == caller = "answered" /\ tool = "preflight" /\ Workflow!Next

\* Apply goes on after Check when the preflight is ready; in a context that has ended
\* no command starts.
Deploy == answer = "ready" /\ ~ended /\ Workflow!Next

HostNext ==
    \/ (Called \/ (\E c \in Check : Step(c)) \/ Cancel) /\ UNCHANGED workflowVars
    \/ Report /\ IF tool = "preflight" THEN Looked ELSE UNCHANGED workflowVars
    \/ Deploy /\ UNCHANGED vars

HostSpec == HostInit /\ [][HostNext]_hostVars

-----------------------------------------------------------------------------
\* The variables of both hold values of their types.  At most Slots checks are at work
\* at once, and none waits for a place that is never given back.  A report has an outcome
\* for every check, no goroutine is left that could still write one, and what lets
\* somebody go on, a preflight, a verification or a healthy report, rests on what its
\* checks have seen in this very call (doctor.go:261-305, prompt.go:161-181,
\* workflow.go:205-212).
ReportSound ==
    /\ TypeOK /\ Workflow!TypeOK
    /\ GateRespected /\ NobodyStuck
    /\ ReportComplete /\ AnswersRestOnEvidence

\* No command of a deployment runs before every check of its preflight was seen well
\* (workflow.go:217-226).
PreflightFirst == (\E a \in Apply : pc[a] # "off") => \A c \in Fixed : SeenWell(c)

\* What is carried out is the plan that was shown, step by step; and what is deployed is
\* what was built, from the source the tag names, on nodes that have it
\* (workflow.go:162-180, 227-351).
DeploysAsPlanned ==
    /\ Workflow!FollowsPlan
    /\ Workflow!PinnedIsBuilt /\ Workflow!NeverIsPrepared /\ Workflow!TagNamesSource
=============================================================================
