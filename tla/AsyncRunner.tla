---------------------------- MODULE AsyncRunner ----------------------------
(***************************************************************************)
(* The in-process executor of the host agent, host-agent/internal/async.   *)
(*                                                                         *)
(* Submit records a job and starts a goroutine for it; the goroutine takes *)
(* one of MaxConcurrent active slots, then (when the job has a key) the    *)
(* token of the key's gate, runs the task, records the outcome and gives   *)
(* everything back in the order of Go's deferred calls.  Callers cancel    *)
(* jobs, deadlines expire, the parent context ends, and Close waits for    *)
(* every goroutine.                                                        *)
(*                                                                         *)
(* A job is identified with its random id, so an element of Job is         *)
(* submitted at most once.  A keySlot object is identified with the job    *)
(* whose acquireKey allocated it: a deleted and re-created slot of the     *)
(* same key is a different object, as in the code.                         *)
(*                                                                         *)
(* A definition that stands just before another one with a longer name     *)
(* made from it (ActiveFreeOffByOne, DropReferenceOnly, ...) is a slip the *)
(* code could have made: it is not used here, and shows in a run of its    *)
(* own that a property notices it.                                         *)
(***************************************************************************)
EXTENDS Naturals, FiniteSets, Sequences, Filtering

CONSTANTS Job,            \* operation ids
          Key,            \* nonempty operation keys
          NoKey,          \* the empty key ""
          NoSlot,         \* nil *keySlot
          MaxConcurrent,  \* capacity of the channel r.active
          MaxRecords,     \* r.maxRecords
          TaskErr         \* the errors tasks return: a task may itself run into
                          \* a deadline or a cancellation of its own

ASSUME RunnerAssumption ==
    /\ NoKey \notin Key
    /\ NoSlot \notin Job
    /\ MaxConcurrent \in Nat \ {0}
    /\ MaxRecords \in Nat
    /\ MaxRecords >= MaxConcurrent
    /\ TaskErr # {} /\ TaskErr \subseteq {"nil", "Canceled", "DeadlineExceeded", "other"}

VARIABLES
    state,     \* r.jobs[id].State, or "absent" when the map has no record
    order,     \* r.order
    keys,      \* r.keys: the slot of a key, NoSlot when the map has no entry
    refs,      \* keySlot.refs
    gate,      \* number of tokens in keySlot.gate, a channel of capacity 1
    active,    \* number of tokens in r.active
    closer,    \* Close: "open" (not called), "waiting" (in wg.Wait), "returned"
    runnerCtx, \* r.ctx
    \* per job: its goroutine and what its caller does
    pc,        \* where the goroutine of run is
    key,       \* the argument key
    ctx,       \* ctx.Err() of the job's context, "nil" while it is live
    err,       \* the local variable err, "panic" while a panic unwinds
    slot,      \* the local variable slot of acquireKey and releaseKey
    deferred   \* the releases the goroutine has deferred

vars == <<state, order, keys, refs, gate, active, closer, runnerCtx,
          pc, key, ctx, err, slot, deferred>>

Live     == {"queued", "running"}
Terminal == {"succeeded", "failed", "canceled", "timed_out"}
State    == {"absent"} \cup Live \cup Terminal
CtxErr   == {"nil", "Canceled", "DeadlineExceeded"}

(***************************************************************************)
(* The goroutine's positions.  "idle" is a job not yet submitted, "done" a *)
(* goroutine that has returned.                                            *)
(*   active       select on r.active (run, first select)                   *)
(*   acquireKey   acquireKey up to its unlock                              *)
(*   gate         select on slot.gate                                      *)
(*   putBack      token received but ctx has ended: releaseKeyReference    *)
(*   putToken     ... and the token sent back                              *)
(*   forget       ctx ended while waiting: releaseKeyReference             *)
(*   check        the ctx.Err test and the Running record                  *)
(*   task         inside task(ctx)                                         *)
(*   finish       r.finish before the deferred calls                       *)
(*   releaseKey, returnToken, releaseActive, recover, exit   deferred      *)
(***************************************************************************)
Position == {"idle", "active", "acquireKey", "gate", "putBack", "putToken",
             "forget", "check", "task", "finish", "releaseKey",
             "returnToken", "releaseActive", "recover", "exit", "done"}

Resources == {"active", "key"}

\* The types; r.order is typed with what it must list, in RecordsAgree.
TypeOK ==
    /\ state \in [Job -> State]
    /\ keys \in [Key -> Job \cup {NoSlot}]
    /\ refs \in [Job -> Nat]
    /\ gate \in [Job -> 0..1]
    /\ active \in 0..MaxConcurrent
    /\ closer \in {"open", "waiting", "returned"}
    /\ runnerCtx \in {"nil", "Canceled"}
    /\ pc \in [Job -> Position]
    /\ key \in [Job -> Key \cup {NoKey}]
    /\ ctx \in [Job -> CtxErr]
    /\ err \in [Job -> CtxErr \cup {"other", "panic"}]
    /\ slot \in [Job -> Job \cup {NoSlot}]
    /\ deferred \in [Job -> SUBSET Resources]

-----------------------------------------------------------------------------
Recorded == {i \in Job : state[i] # "absent"}       \* the keys of r.jobs
Executing == {i \in Job : pc[i] = "task"}

\* The goroutines r.wg does not wait for.
ReturnedEarly == {i \in Job : pc[i] \in {"idle", "releaseActive", "exit", "done"}}
Returned == {i \in Job : pc[i] \in {"idle", "done"}}

\* The channel r.active has room.
ActiveFreeOffByOne == active <= MaxConcurrent
ActiveFree == active < MaxConcurrent

\* The switch of finish.
StateOf(e) ==
    CASE e = "DeadlineExceeded" -> "timed_out"
      [] e = "Canceled"         -> "canceled"
      [] e = "nil"              -> "succeeded"
      [] OTHER                  -> "failed"

\* Go runs deferred calls last in, first out: key, active slot, recover, cancel.
UnwindWithoutRecover(i, held, e) ==
    CASE "key" \in held  -> "releaseKey"
      [] held = {"active"} -> "releaseActive"
      [] OTHER             -> "exit"

Unwind(i, held, e) ==
    CASE "key" \in held            -> "releaseKey"
      [] held = {"active"}         -> "releaseActive"
      [] held = {} /\ e = "panic"  -> "recover"
      [] OTHER                     -> "exit"

\* cancelAll and the parent's cancellation reach every live derived context.
EndContexts ==
    ctx' = [i \in Job |-> IF i \notin Returned /\ ctx[i] = "nil"
                          THEN "Canceled" ELSE ctx[i]]

\* j entered r.order before i.
Before(j, i) ==
    \E m, n \in 1..Len(order) : m < n /\ order[m] = j /\ order[n] = i

PrunableInAnyState == {i \in Recorded : i = order[1]}

PrunableAllEnded == {i \in Recorded : state[i] \in Terminal}

\* What pruneCompleted deletes: the oldest terminal records, as many as bring
\* the map below its limit.
Prunable ==
    LET ended == {i \in Recorded : state[i] \in Terminal}
    IN  {i \in ended : Cardinality({j \in ended : Before(j, i)}) + MaxRecords
                           <= Cardinality(Recorded)}

OrderUnpruned(pruned) == order

\* r.order as pruneCompleted leaves it.
Unpruned(pruned) == Keeping(order, Job \ pruned)

Init ==
    /\ state = [i \in Job |-> "absent"]
    /\ order = <<>>
    /\ keys = [k \in Key |-> NoSlot]
    /\ refs = [i \in Job |-> 0]
    /\ gate = [i \in Job |-> 0]
    /\ active = 0
    /\ closer = "open"
    /\ runnerCtx = "nil"
    /\ pc = [i \in Job |-> "idle"]
    /\ key = [i \in Job |-> NoKey]
    /\ ctx = [i \in Job |-> "nil"]
    /\ err = [i \in Job |-> "nil"]
    /\ slot = [i \in Job |-> NoSlot]
    /\ deferred = [i \in Job |-> {}]

-----------------------------------------------------------------------------
\* Submit, under r.mu.  A refusal (closed, ended, or full of live records)
\* changes nothing, so only the accepting path is an action.
Submit(i, k) ==
    LET pruned == IF Cardinality(Recorded) >= MaxRecords THEN Prunable ELSE {}
    IN  /\ pc[i] = "idle"
        /\ closer = "open"
        /\ runnerCtx = "nil"
        /\ Cardinality(Recorded \ pruned) < MaxRecords
        /\ state' = [j \in Job |-> IF j = i THEN "queued"
                                   ELSE IF j \in pruned THEN "absent"
                                   ELSE state[j]]
        /\ order' = Append(Unpruned(pruned), i)
        /\ key' = [key EXCEPT ![i] = k]
        /\ pc' = [pc EXCEPT ![i] = "active"]
        /\ UNCHANGED <<keys, refs, gate, active, closer, runnerCtx, ctx, err,
                       slot, deferred>>

\* The first select of run: both branches may be ready, and Go picks either.
TakeActive(i) ==
    /\ pc[i] = "active"
    /\ ActiveFree
    /\ active' = active + 1
    /\ deferred' = [deferred EXCEPT ![i] = {"active"}]
    /\ pc' = [pc EXCEPT ![i] = IF key[i] = NoKey THEN "check" ELSE "acquireKey"]
    /\ UNCHANGED <<state, order, keys, refs, gate, closer, runnerCtx, key, ctx,
                   err, slot>>

EndsWaitingForSlot(i) ==
    /\ pc[i] = "active"
    /\ ctx[i] # "nil"
    /\ err' = [err EXCEPT ![i] = ctx[i]]
    /\ pc' = [pc EXCEPT ![i] = "finish"]
    /\ UNCHANGED <<state, order, keys, refs, gate, active, closer, runnerCtx,
                   key, ctx, slot, deferred>>

\* acquireKey, the part under r.mu: find or create the key's slot.
AcquireKey(i) ==
    LET k == key[i]
        s == IF keys[k] = NoSlot THEN i ELSE keys[k]
    IN  /\ pc[i] = "acquireKey"
        /\ keys' = [keys EXCEPT ![k] = s]
        /\ gate' = IF keys[k] = NoSlot THEN [gate EXCEPT ![i] = 1] ELSE gate
        /\ refs' = [refs EXCEPT ![s] = @ + 1]
        /\ slot' = [slot EXCEPT ![i] = s]
        /\ pc' = [pc EXCEPT ![i] = "gate"]
        /\ UNCHANGED <<state, order, active, closer, runnerCtx, key, ctx, err,
                       deferred>>

TakeTokenPeeking(i) ==
    /\ pc[i] = "gate"
    /\ gate[slot[i]] = 1
    /\ ctx[i] = "nil"
    /\ deferred' = [deferred EXCEPT ![i] = @ \cup {"key"}]
    /\ pc' = [pc EXCEPT ![i] = "check"]
    /\ UNCHANGED <<state, order, keys, refs, gate, active, closer, runnerCtx,
                   key, ctx, err, slot>>

\* The select of acquireKey, token branch, with the ctx.Err test behind it.
TakeToken(i) ==
    /\ pc[i] = "gate"
    /\ gate[slot[i]] = 1
    /\ gate' = [gate EXCEPT ![slot[i]] = 0]
    /\ err' = [err EXCEPT ![i] = ctx[i]]
    /\ \/ /\ ctx[i] = "nil"
          /\ deferred' = [deferred EXCEPT ![i] = @ \cup {"key"}]
          /\ pc' = [pc EXCEPT ![i] = "check"]
       \/ /\ ctx[i] # "nil"
          /\ pc' = [pc EXCEPT ![i] = "putBack"]
          /\ UNCHANGED deferred
    /\ UNCHANGED <<state, order, keys, refs, active, closer, runnerCtx, key,
                   ctx, slot>>

\* The select of acquireKey, ctx.Done branch.
EndsWaitingForKey(i) ==
    /\ pc[i] = "gate"
    /\ ctx[i] # "nil"
    /\ err' = [err EXCEPT ![i] = ctx[i]]
    /\ pc' = [pc EXCEPT ![i] = "forget"]
    /\ UNCHANGED <<state, order, keys, refs, gate, active, closer, runnerCtx,
                   key, ctx, slot, deferred>>

DropReferenceAndSlot(k) ==
    /\ keys[k] # NoSlot
    /\ refs' = [refs EXCEPT ![keys[k]] = @ - 1]
    /\ keys' = [keys EXCEPT ![k] = NoSlot]

DropReferenceOnly(k) ==
    /\ refs' = [refs EXCEPT ![keys[k]] = @ - 1]
    /\ UNCHANGED keys

\* Under r.mu: one reference less, and no map entry without references.
DropReference(k) ==
    LET s == keys[k]
    IN  /\ refs' = [refs EXCEPT ![s] = @ - 1]
        /\ keys' = IF refs[s] = 1 THEN [keys EXCEPT ![k] = NoSlot] ELSE keys

\* The two calls of releaseKeyReference in acquireKey.
ReleaseKeyReference(i) ==
    /\ pc[i] \in {"putBack", "forget"}
    /\ DropReference(key[i])
    /\ pc' = [pc EXCEPT ![i] = IF pc[i] = "putBack" THEN "putToken" ELSE "finish"]
    /\ UNCHANGED <<state, order, gate, active, closer, runnerCtx, key, ctx, err,
                   slot, deferred>>

\* releaseKey, deferred by run, up to its unlock.
ReleaseKey(i) ==
    /\ pc[i] = "releaseKey"
    /\ DropReference(key[i])
    /\ slot' = [slot EXCEPT ![i] = keys[key[i]]]
    /\ deferred' = [deferred EXCEPT ![i] = @ \ {"key"}]
    /\ pc' = [pc EXCEPT ![i] = "returnToken"]
    /\ UNCHANGED <<state, order, gate, active, closer, runnerCtx, key, ctx, err>>

\* slot.gate <- struct{}{}, in acquireKey and at the end of releaseKey.
SendToken(i) ==
    /\ pc[i] \in {"putToken", "returnToken"}
    /\ gate[slot[i]] = 0
    /\ gate' = [gate EXCEPT ![slot[i]] = 1]
    /\ pc' = [pc EXCEPT ![i] = IF pc[i] = "putToken" THEN "finish"
                               ELSE Unwind(i, deferred[i], err[i])]
    /\ UNCHANGED <<state, order, keys, refs, active, closer, runnerCtx, key,
                   ctx, err, slot, deferred>>

\* The last ctx.Err test before the task, and the Running record.  A context
\* that ends between the two, or after them, does not stop the task from running.
CheckContext(i) ==
    /\ pc[i] = "check"
    /\ err' = [err EXCEPT ![i] = ctx[i]]
    /\ \/ /\ ctx[i] = "nil"
          /\ state' = [state EXCEPT ![i] = "running"]
          /\ pc' = [pc EXCEPT ![i] = "task"]
       \/ /\ ctx[i] # "nil"
          /\ pc' = [pc EXCEPT ![i] = "finish"]
          /\ UNCHANGED state
    /\ UNCHANGED <<order, keys, refs, gate, active, closer, runnerCtx, key, ctx,
                   slot, deferred>>

\* task(ctx) returns e; an ended context replaces its error.
TaskReturns(i, e) ==
    /\ pc[i] = "task"
    /\ err' = [err EXCEPT ![i] = IF ctx[i] # "nil" THEN ctx[i] ELSE e]
    /\ pc' = [pc EXCEPT ![i] = "finish"]
    /\ UNCHANGED <<state, order, keys, refs, gate, active, closer, runnerCtx,
                   key, ctx, slot, deferred>>

\* task(ctx) panics: the deferred releases run before the recover records it.
TaskPanics(i) ==
    /\ pc[i] = "task"
    /\ err' = [err EXCEPT ![i] = "panic"]
    /\ pc' = [pc EXCEPT ![i] = Unwind(i, deferred[i], "panic")]
    /\ UNCHANGED <<state, order, keys, refs, gate, active, closer, runnerCtx,
                   key, ctx, slot, deferred>>

Finish(i) ==
    /\ pc[i] \in {"finish", "recover"}
    /\ state' = [state EXCEPT ![i] = StateOf(err[i])]
    /\ pc' = [pc EXCEPT ![i] = IF pc[i] = "finish"
                               THEN Unwind(i, deferred[i], err[i]) ELSE "exit"]
    /\ UNCHANGED <<order, keys, refs, gate, active, closer, runnerCtx, key, ctx,
                   err, slot, deferred>>

ReleaseActive(i) ==
    /\ pc[i] = "releaseActive"
    /\ active' = active - 1
    /\ deferred' = [deferred EXCEPT ![i] = {}]
    /\ pc' = [pc EXCEPT ![i] = Unwind(i, {}, err[i])]
    /\ UNCHANGED <<state, order, keys, refs, gate, closer, runnerCtx, key, ctx,
                   err, slot>>

\* The deferred cancel and wg.Done.  The goroutine's local variables are gone,
\* and nobody asks any more why the context ended.
Exit(i) ==
    /\ pc[i] = "exit"
    /\ ctx' = [ctx EXCEPT ![i] = "Canceled"]
    /\ err' = [err EXCEPT ![i] = "nil"]
    /\ slot' = [slot EXCEPT ![i] = NoSlot]
    /\ pc' = [pc EXCEPT ![i] = "done"]
    /\ UNCHANGED <<state, order, keys, refs, gate, active, closer, runnerCtx,
                   key, deferred>>

-----------------------------------------------------------------------------
\* context.WithTimeout: the timer runs until the deferred cancel stops it.
Deadline(i) ==
    /\ i \notin Returned
    /\ ctx[i] = "nil"
    /\ ctx' = [ctx EXCEPT ![i] = "DeadlineExceeded"]
    /\ UNCHANGED <<state, order, keys, refs, gate, active, closer, runnerCtx,
                   pc, key, err, slot, deferred>>

\* Cancel reads the record under r.mu and cancels after the unlock.  Every record
\* is live when it is made, so the reading may lie anywhere between that and the
\* cancellation: the job may have ended, been pruned, or not have started.
Cancel(i) ==
    /\ pc[i] # "idle"
    /\ ctx[i] = "nil"
    /\ ctx' = [ctx EXCEPT ![i] = "Canceled"]
    /\ UNCHANGED <<state, order, keys, refs, gate, active, closer, runnerCtx,
                   pc, key, err, slot, deferred>>

\* The context NewRunner was given ends (the process is told to stop).
ParentEnds ==
    /\ runnerCtx = "nil"
    /\ runnerCtx' = "Canceled"
    /\ EndContexts
    /\ UNCHANGED <<state, order, keys, refs, gate, active, closer, pc, key, err,
                   slot, deferred>>

\* Close under r.mu, and its return from wg.Wait.
Close ==
    /\ closer = "open"
    /\ closer' = "waiting"
    /\ runnerCtx' = "Canceled"
    /\ EndContexts
    /\ UNCHANGED <<state, order, keys, refs, gate, active, pc, key, err, slot,
                   deferred>>

CloseReturns ==
    /\ closer = "waiting"
    /\ Returned = Job
    /\ closer' = "returned"
    /\ UNCHANGED <<state, order, keys, refs, gate, active, runnerCtx, pc, key,
                   ctx, err, slot, deferred>>

\* The only state with nothing left to do.
Closed == closer = "returned" /\ UNCHANGED vars

\* What the goroutine of a job does by itself.
Goroutine(i) ==
    \/ TakeActive(i)  \/ EndsWaitingForSlot(i)
    \/ AcquireKey(i)  \/ TakeToken(i)  \/ EndsWaitingForKey(i)
    \/ ReleaseKeyReference(i)  \/ ReleaseKey(i)  \/ SendToken(i)
    \/ CheckContext(i)  \/ Finish(i)
    \/ ReleaseActive(i)  \/ Exit(i)

TaskEnds(i) == TaskPanics(i) \/ \E e \in TaskErr : TaskReturns(i, e)

Caller(i) ==
    \/ \E k \in Key \cup {NoKey} : Submit(i, k)
    \/ Cancel(i)

Next ==
    \/ \E i \in Job : Goroutine(i) \/ TaskEnds(i) \/ Caller(i) \/ Deadline(i)
    \/ ParentEnds \/ Close \/ CloseReturns \/ Closed

Spec == Init /\ [][Next]_vars

\* The Go scheduler runs every goroutine that can move; every submitted job has
\* a positive timeout; a task returns once its context has ended; the caller of
\* Close is scheduled.  Nothing makes a task return before that.
Fairness ==
    /\ \A i \in Job : /\ WF_vars(Goroutine(i))
                      /\ WF_vars(Deadline(i))
                      /\ WF_vars(ctx[i] # "nil" /\ TaskEnds(i))
    /\ WF_vars(CloseReturns)

FairSpec == Spec /\ Fairness

-----------------------------------------------------------------------------
\* What a job holds.
HoldsToken(i)     == "key" \in deferred[i]
                     \/ pc[i] \in {"putBack", "putToken", "returnToken"}
HoldsReference(i) == "key" \in deferred[i] \/ pc[i] \in {"gate", "putBack", "forget"}

\* The record of a job whose goroutine has not yet called finish.
BeforeFinish(i) == pc[i] \notin {"idle", "exit", "done"}
                   /\ (pc[i] \in {"releaseKey", "returnToken", "releaseActive"}
                          => err[i] = "panic")

\* "operations with the same nonempty key are serialized" (runner.go, Runner):
\* two tasks of one key never run at the same time, although a key's slot is
\* deleted before its token is returned and may be re-created in between.
KeyExclusion ==
    \A i, j \in Executing : i # j /\ key[i] = key[j] => key[i] = NoKey

\* A slot has one token: in its gate or with one job, so a waiter at an empty
\* gate always waits for somebody.  A slot counts its users, and the map knows
\* exactly the slots somebody uses.
SlotAccounting ==
    /\ \A i \in Job : HoldsReference(i) =>
          /\ keys[key[i]] = slot[i]
          /\ gate[slot[i]] = 0 <=> \E j \in Job : HoldsToken(j) /\ slot[j] = slot[i]
    /\ \A i, j \in Job : HoldsToken(i) /\ HoldsToken(j) /\ slot[i] = slot[j] => i = j
    /\ \A i \in Job : HoldsToken(i) => gate[slot[i]] = 0
    /\ \A s \in Job :
          refs[s] = Cardinality({i \in Job : HoldsReference(i) /\ slot[i] = s})
    /\ \A k \in Key : keys[k] # NoSlot => refs[keys[k]] > 0

\* No more than MaxConcurrent tasks run, whichever of the return paths of run
\* gave active slots back, or kept one while its goroutine waited for a key.
ConcurrencyBound == Cardinality(Executing) <= MaxConcurrent

RecordBound == Cardinality(Recorded) <= MaxRecords

\* r.order lists exactly the recorded jobs, once each, and they never exceed
\* maxRecords: pruning keeps map and slice in step.
RecordsAgree ==
    /\ order \in Seq(Recorded)
    /\ Recorded \subseteq {order[n] : n \in 1..Len(order)}
    /\ Len(order) = Cardinality(Recorded)
    /\ RecordBound

\* Pruning never removes the record of a job whose goroutine will still write
\* it: run and finish dereference r.jobs[id] without looking for nil.
RecordKept == \A i \in Job : BeforeFinish(i) => state[i] \in Live

\* An outcome, once reported, is never replaced by another one; the record may
\* only be pruned.  Cancel and deadlines race with finish.
OutcomeFinal ==
    [][\A i \in Job : state[i] \in Terminal => state'[i] \in {state[i], "absent"}]_vars

\* A finished record leaves only to make room for one new job, and the oldest
\* finished one leaves first.
OldestPruned ==
    [][\A i \in Job : state[i] # "absent" /\ state'[i] = "absent" =>
          /\ Cardinality(Recorded) = MaxRecords
          /\ \A j \in Recorded \ {i} :
                /\ state'[j] # "absent"
                /\ Before(j, i) => state[j] \in Live]_vars

\* After Close has returned nothing runs, holds or waits for anything, and every
\* record has its outcome.
QuietAfterClose ==
    closer = "returned" =>
        /\ active = 0
        /\ \A k \in Key : keys[k] = NoSlot
        /\ \A i \in Job : pc[i] \in {"idle", "done"} /\ state[i] \notin Live

\* Every accepted job gets an outcome, although jobs of one key may hold every
\* active slot while they wait for each other; and Close returns.
EveryJobSettles ==
    /\ \A i \in Job : pc[i] = "active" ~> state[i] \notin Live
    /\ closer = "waiting" ~> closer = "returned"

\* The runner is a keyed executor: status is what the records say, and a task
\* executes while its goroutine is inside task(ctx).
Executor == INSTANCE KeyedExecutor WITH
    status    <- state,
    executing <- Executing,
    keyOf     <- key,
    accepted  <- {i \in Job : pc[i] # "idle"},
    open      <- closer = "open" /\ runnerCtx = "nil"

ImplementsExecutor == Executor!ExecSpec

=============================================================================
