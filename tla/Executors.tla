------------------------------ MODULE Executors ------------------------------
(***************************************************************************)
(* The two bounded executors of this code: the host agent's runner         *)
(* (AsyncRunner) and the agent's queue of workload jobs (WorkloadJobs).    *)
(*                                                                         *)
(* They run in different processes and share nothing, so a behaviour is    *)
(* one of one of them, `part`, while the other stays as it began: what     *)
(* holds of these behaviours holds of the two side by side.                *)
(***************************************************************************)
EXTENDS AsyncRunner

CONSTANTS Request, NoRequest, MaxRunning   \* of WorkloadJobs

VARIABLES
    part,
    jobState, httpStatus, jobOrder, jobKeys, jobRefs, jobGate, slots, open, jpc, keyOf, item, result,
    jobCtx

queueVars == <<jobState, httpStatus, jobOrder, jobKeys, jobRefs, jobGate, slots, open, jpc, keyOf,
               item, result, jobCtx>>

Queue == INSTANCE WorkloadJobs WITH
    state <- jobState, order <- jobOrder, keys <- jobKeys, refs <- jobRefs, gate <- jobGate,
    ctx <- jobCtx

ExecutorsInit == part \in {"runner", "queue"} /\ Init /\ Queue!JobsInit

\* Users submit workload jobs, and what they submit returns.
Submits == \E r \in Request, k \in Key : Queue!Submit(r, k)
Returns == \E r \in Request, s \in {"ok", "failed", "panic"} : Queue!RunReturns(r, s)

ExecutorsNext ==
    /\ \/ part = "runner" /\ Next /\ UNCHANGED queueVars
       \/ part = "queue" /\ (Queue!QueueNext \/ Submits \/ Returns) /\ UNCHANGED vars
       \/ part = "queue" /\ Queue!CloseReturns /\ UNCHANGED <<vars, queueVars>>
    /\ UNCHANGED part

ExecutorsSpec == ExecutorsInit /\ [][ExecutorsNext]_<<part, vars, queueVars>>

-----------------------------------------------------------------------------
\* The queue of workload jobs is an executor of its own, keyed by the object that is
\* changed (workloadjobs.go:43-209); the runner's steps do not touch it.
QueueImplementsExecutor ==
    /\ Queue!Executor!ExecInit
    /\ [][part = "queue" /\ Queue!Executor!ExecNext]_(Queue!Executor!execVars)
=============================================================================
