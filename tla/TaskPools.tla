------------------------------ MODULE TaskPools ------------------------------
(***************************************************************************)
(* Two places where this code hands work to goroutines that wait for each  *)
(* other: the pool of access reviews of a capabilities request             *)
(* (AccessReviews), and the host agent's runner (AsyncRunner); here under  *)
(* the fairness of the Go scheduler, to see that both come to an end.      *)
(*                                                                         *)
(* They run in different processes and share nothing, so a behaviour is    *)
(* one of one of them, `part`, while the other stays as it began: what     *)
(* holds of these behaviours holds of the two side by side.                *)
(***************************************************************************)
EXTENDS AccessReviews

CONSTANTS Job, Key, NoKey, NoSlot, MaxConcurrent, MaxRecords, TaskErr   \* of AsyncRunner

VARIABLES
    part,
    state, order, keys, refs, gate, active, closer, runnerCtx, position, key, ctx, err, slot, deferred

runnerVars == <<state, order, keys, refs, gate, active, closer, runnerCtx, position, key, ctx, err,
                slot, deferred>>

Runner == INSTANCE AsyncRunner WITH pc <- position

PoolsInit ==
    /\ part \in {"reviews", "runner"}
    /\ ReviewsInit /\ Runner!Init
    /\ part # "reviews" => rbac = {} /\ ~namespace

PoolsNext ==
    /\ \/ part = "reviews" /\ ReviewsNext /\ UNCHANGED runnerVars
       \/ part = "runner" /\ Runner!Next /\ UNCHANGED reviewsVars
    /\ UNCHANGED part

\* The goroutines of a request are scheduled, and a call to the API server returns.
ReviewsGoOn ==
    /\ WF_reviewsVars(part = "reviews" /\ Handler)
    /\ \A w \in Worker : WF_reviewsVars(part = "reviews" /\ WorkerStep(w))

\* The runner has nothing to go on with where it is not the runner's behaviour.
PoolsFairness == ReviewsGoOn /\ Runner!Fairness

PoolsSpec == PoolsInit /\ [][PoolsNext]_<<part, reviewsVars, runnerVars>> /\ PoolsFairness

-----------------------------------------------------------------------------
\* A capabilities request ends, whatever fails and whoever leaves (manager.go:186-203).
ReviewsEnd == part = "reviews" => RequestEnds

\* Every accepted job of the runner gets an outcome, and Close returns, whether a task
\* fails, panics or ends only after its context has ended (runner.go:162-228).
EveryJobSettles == Runner!EveryJobSettles
=============================================================================
