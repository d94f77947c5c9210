--------------------------- MODULE KeyedExecutor ---------------------------
(***************************************************************************)
(* What a bounded executor promises its callers, without goroutines,       *)
(* contexts, slots or gates: at most MaxConcurrent tasks at a time, never  *)
(* two with the same key, at most MaxRecords records, an outcome that does *)
(* not change, and a finished record kept until its room is needed.        *)
(* AsyncRunner implements it.                                              *)
(***************************************************************************)
EXTENDS Naturals, FiniteSets

CONSTANTS Job, Key, NoKey, MaxConcurrent, MaxRecords

VARIABLES
    status,    \* what Status reports of each job
    executing, \* the jobs whose task is running
    keyOf,     \* the key each job was submitted with
    accepted,  \* the jobs ever accepted: an id is never used twice
    open       \* whether submissions are still accepted

execVars == <<status, executing, keyOf, accepted, open>>

Unfinished == {"queued", "running"}
Outcome    == {"succeeded", "failed", "canceled", "timed_out"}

Kept == {i \in Job : status[i] # "absent"}

ExecInit ==
    /\ status = [i \in Job |-> "absent"]
    /\ executing = {}
    /\ keyOf = [i \in Job |-> NoKey]
    /\ accepted = {}
    /\ open = TRUE

\* A job enters; finished records leave only when there is no room for it.
Accept(i, k, forgotten) ==
    /\ open
    /\ i \notin accepted
    /\ \A j \in forgotten : status[j] \in Outcome
    /\ Cardinality(Kept \ forgotten) < MaxRecords
    /\ forgotten # {} => Cardinality(Kept) >= MaxRecords
    /\ status' = [j \in Job |-> IF j = i THEN "queued"
                                ELSE IF j \in forgotten THEN "absent"
                                ELSE status[j]]
    /\ keyOf' = [keyOf EXCEPT ![i] = k]
    /\ accepted' = accepted \cup {i}
    /\ UNCHANGED <<executing, open>>

Begin(i) ==
    /\ status[i] = "queued"
    /\ Cardinality(executing) < MaxConcurrent
    /\ keyOf[i] # NoKey => \A j \in executing : keyOf[j] # keyOf[i]
    /\ status' = [status EXCEPT ![i] = "running"]
    /\ executing' = executing \cup {i}
    /\ UNCHANGED <<keyOf, accepted, open>>

End(i) ==
    /\ i \in executing
    /\ executing' = executing \ {i}
    /\ UNCHANGED <<status, keyOf, accepted, open>>

\* A job that never began can only have been cancelled or have timed out.
Settle(i, o) ==
    /\ i \notin executing
    /\ status[i] \in Unfinished
    /\ status[i] = "queued" => o \in {"canceled", "timed_out"}
    /\ status' = [status EXCEPT ![i] = o]
    /\ UNCHANGED <<executing, keyOf, accepted, open>>

Shut ==
    /\ open
    /\ open' = FALSE
    /\ UNCHANGED <<status, executing, keyOf, accepted>>

ExecNext ==
    \/ \E i \in Job, k \in Key \cup {NoKey}, forgotten \in SUBSET Kept :
           Accept(i, k, forgotten)
    \/ \E i \in Job : Begin(i) \/ End(i)
    \/ \E i \in Job, o \in Outcome : Settle(i, o)
    \/ Shut

ExecSpec == ExecInit /\ [][ExecNext]_execVars

=============================================================================
