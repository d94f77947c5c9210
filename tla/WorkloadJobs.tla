---------------------------- MODULE WorkloadJobs ----------------------------
(***************************************************************************)
(* The agent's queue of workload jobs (kuchdesk-agent/internal/management/ *)
(* workloadjobs.go): bounded records, a few slots, one gate per key.  It   *)
(* is the younger twin of the host agent's runner (module AsyncRunner):    *)
(* every job has a deadline and a key, and keeps the HTTP status of the    *)
(* operation it ran.  What a job runs is left to the module that extends   *)
(* this one: while jpc[r] = "run" it is inside run(ctx).                   *)
(*                                                                         *)
(* A job is the request that submits it.  An entry of q.keys is named      *)
(* after the job that made it.  A definition standing before another one   *)
(* with a longer name made from it is a slip the code could have made;     *)
(* nothing here uses it.                                                   *)
(***************************************************************************)
EXTENDS Naturals, Sequences, FiniteSets, Filtering

CONSTANTS
    Request, NoRequest,   \* those that reach one process, so finitely many
    Key, NoKey,
    MaxRunning,  \* places in q.slots, 4
    MaxRecords   \* 64

ASSUME JobsAssumption ==
    /\ IsFiniteSet(Request) /\ NoRequest \notin Request /\ NoKey \notin Key
    /\ MaxRunning \in Nat \ {0} /\ MaxRecords \in Nat \ {0}

VARIABLES
    \* q.jobs, q.order
    state, httpStatus, order,
    \* q.keys and its entries
    keys, refs, gate,
    slots,      \* tokens in q.slots
    open,       \* neither Close was called nor the parent context has ended
    \* one goroutine per job
    jpc, keyOf, item, result,
    ctx         \* the context of a request's job, or of the request itself

records    == <<state, httpStatus, order>>
keyEntries == <<keys, refs, gate>>
locals     == <<keyOf, item, result>>
jobsVars   == <<records, keyEntries, slots, open, jpc, locals, ctx>>

Live     == {"queued", "running"}
Outcome  == {"succeeded", "failed", "canceled", "timed_out"}
Status   == {"none", "ok", "failed"}   \* HTTPStatus: 0, 2xx, any other
Position == {"idle", "slot", "acquire", "gate", "taken", "putBack", "check",
             "run", "finish", "finishEnded", "release", "token", "giveSlot", "recover", "done"}

JobsTypeOK ==
    /\ state \in [Request -> Live \cup Outcome \cup {"absent"}]
    /\ httpStatus \in [Request -> Status]
    /\ order \in Seq(Request) /\ Len(order) <= MaxRecords
    /\ keys \in [Key -> Request \cup {NoRequest}]
    /\ refs \in [Request -> 0 .. Cardinality(Request)] /\ gate \in [Request -> 0..1]
    /\ slots \in 0..MaxRunning /\ open \in BOOLEAN
    /\ jpc \in [Request -> Position] /\ keyOf \in [Request -> Key \cup {NoKey}]
    /\ item \in [Request -> Request \cup {NoRequest}]
    /\ ctx \in [Request -> {"live", "canceled", "timed_out"}]
    /\ result \in [Request -> Status \cup {"panic"}]

JobsInit ==
    /\ state = [r \in Request |-> "absent"] /\ httpStatus = [r \in Request |-> "none"]
    /\ order = <<>>
    /\ keys = [k \in Key |-> NoRequest]
    /\ refs = [r \in Request |-> 0] /\ gate = [r \in Request |-> 0]
    /\ slots = 0 /\ open = TRUE
    /\ jpc = [r \in Request |-> "idle"] /\ keyOf = [r \in Request |-> NoKey]
    /\ item = [r \in Request |-> NoRequest] /\ ctx = [r \in Request |-> "live"]
    /\ result = [r \in Request |-> "none"]

Recorded == {r \in Request : state[r] # "absent"}

Ended(r) == ctx[r] # "live"

Goes(r, from, to) == jpc[r] = from /\ jpc' = [jpc EXCEPT ![r] = to]

-----------------------------------------------------------------------------
(* Submit *)

\* The oldest ended job, when the records are full.
Prunable ==
    IF Cardinality(Recorded) < MaxRecords THEN {}
    ELSE LET ended == {n \in DOMAIN order : state[order[n]] \in Outcome}
         IN  {order[n] : n \in {m \in ended : \A o \in ended : m <= o}}

CanSubmit ==
    /\ open
    /\ Cardinality(Recorded \ Prunable) < MaxRecords

Submit(r, k) ==
    /\ CanSubmit /\ Goes(r, "idle", "slot")
    /\ state' = [i \in Request |-> IF i = r THEN "queued"
                                   ELSE IF i \in Prunable THEN "absent" ELSE state[i]]
    /\ httpStatus' = [i \in Request |-> IF i \in Prunable THEN "none" ELSE httpStatus[i]]
    /\ order' = Append(Keeping(order, Request \ Prunable), r)
    /\ keyOf' = [keyOf EXCEPT ![r] = k]
    /\ UNCHANGED <<keyEntries, slots, open, item, result, ctx>>

-----------------------------------------------------------------------------
(* execute, up to run *)

Outside == UNCHANGED <<keyOf, open, ctx>>

TakeSlot(r) ==
    /\ Goes(r, "slot", "acquire") /\ slots < MaxRunning /\ slots' = slots + 1
    /\ Outside /\ UNCHANGED <<records, keyEntries, item, result>>

\* finish, for a job whose context has ended, and for one that has run.
StateOf(r) ==
    IF Ended(r) /\ result[r] # "panic" THEN ctx[r]
    ELSE IF result[r] = "ok" THEN "succeeded" ELSE "failed"

Record(r, status) ==
    /\ state' = [state EXCEPT ![r] = StateOf(r)]
    /\ httpStatus' = [httpStatus EXCEPT ![r] = status]
    /\ UNCHANGED order

\* What a goroutine leaves behind: its context cancelled, its locals gone.
Exits(r) ==
    /\ ctx' = [ctx EXCEPT ![r] = "canceled"]
    /\ item' = [item EXCEPT ![r] = NoRequest] /\ result' = [result EXCEPT ![r] = "none"]
    /\ UNCHANGED <<keyOf, open>>

EndsWaitingForSlot(r) ==
    /\ Goes(r, "slot", "done") /\ Ended(r) /\ Record(r, "none")
    /\ Exits(r) /\ UNCHANGED <<keyEntries, slots>>

\* acquire up to its unlock: the key's entry is made when there is none.
Acquire(r) ==
    /\ Goes(r, "acquire", "gate")
    /\ LET entry == IF keys[keyOf[r]] = NoRequest THEN r ELSE keys[keyOf[r]] IN
        /\ item' = [item EXCEPT ![r] = entry]
        /\ keys' = [keys EXCEPT ![keyOf[r]] = entry]
        /\ refs' = [refs EXCEPT ![entry] = @ + 1]
        /\ gate' = [gate EXCEPT ![entry] = IF keys[keyOf[r]] = NoRequest THEN 1 ELSE @]
    /\ Outside /\ UNCHANGED <<records, slots, result>>

\* The token comes; it is put back when the context has ended meanwhile.
TakeToken(r) ==
    /\ Goes(r, "gate", IF Ended(r) THEN "taken" ELSE "check")
    /\ gate[item[r]] = 1 /\ gate' = [gate EXCEPT ![item[r]] = 0]
    /\ Outside /\ UNCHANGED <<records, keys, refs, slots, item, result>>

DropReferenceAndEntry(r) ==
    /\ keys[keyOf[r]] # NoRequest
    /\ refs' = [refs EXCEPT ![keys[keyOf[r]]] = @ - 1]
    /\ keys' = [keys EXCEPT ![keyOf[r]] = NoRequest]

\* A reference is given back; the last one takes the entry out of the map.
DropReference(r) ==
    LET entry == keys[keyOf[r]]
    IN  /\ refs' = [refs EXCEPT ![entry] = @ - 1]
        /\ keys' = [keys EXCEPT ![keyOf[r]] = IF refs[entry] = 1 THEN NoRequest ELSE @]

EndsWaitingForToken(r) ==
    /\ Goes(r, "gate", "finishEnded") /\ Ended(r) /\ DropReference(r)
    /\ Outside /\ UNCHANGED <<records, gate, slots, item, result>>

ReleaseReference(r) ==
    /\ Goes(r, "taken", "putBack") /\ DropReference(r)
    /\ Outside /\ UNCHANGED <<records, gate, slots, item, result>>

PutBack(r) ==
    /\ Goes(r, "putBack", "finishEnded")
    /\ gate[item[r]] = 0 /\ gate' = [gate EXCEPT ![item[r]] = 1]
    /\ Outside /\ UNCHANGED <<records, keys, refs, slots, item, result>>

\* The job never ran.
FinishEnded(r) ==
    /\ Goes(r, "finishEnded", "giveSlot") /\ Record(r, "none")
    /\ Outside /\ UNCHANGED <<keyEntries, slots, item, result>>

\* The context is looked at once more; then the job runs.
Check(r) ==
    /\ \/ Goes(r, "check", "run") /\ ~Ended(r)
          /\ state' = [state EXCEPT ![r] = "running"] /\ UNCHANGED <<httpStatus, order>>
       \/ Goes(r, "check", "release") /\ Ended(r) /\ Record(r, "none")
    /\ Outside /\ UNCHANGED <<keyEntries, slots, item, result>>

-----------------------------------------------------------------------------
(* execute, after run *)

\* run returns the status of its operation, or panics.
RunReturns(r, status) ==
    /\ Goes(r, "run", IF status = "panic" THEN "release" ELSE "finish")
    /\ result' = [result EXCEPT ![r] = status]
    /\ UNCHANGED <<records, keyEntries, slots, open, keyOf, item, ctx>>

FinishWithoutStatus(r) ==
    /\ Goes(r, "finish", "release")
    /\ Record(r, IF Ended(r) THEN "none" ELSE result[r])
    /\ Outside /\ UNCHANGED <<keyEntries, slots, item, result>>

\* finish: what became of the context counts more than what the operation returned.
Finish(r) ==
    /\ Goes(r, "finish", "release") /\ Record(r, result[r])
    /\ Outside /\ UNCHANGED <<keyEntries, slots, item, result>>

\* release, in two steps: the reference under the lock, then the token.
Release(r) ==
    /\ Goes(r, "release", "token") /\ DropReference(r)
    /\ item' = [item EXCEPT ![r] = keys[keyOf[r]]]
    /\ Outside /\ UNCHANGED <<records, gate, slots, result>>

ReturnToken(r) ==
    /\ Goes(r, "token", "giveSlot")
    /\ gate[item[r]] = 0 /\ gate' = [gate EXCEPT ![item[r]] = 1]
    /\ Outside /\ UNCHANGED <<records, keys, refs, slots, item, result>>

GiveSlot(r) ==
    /\ slots' = slots - 1 /\ UNCHANGED <<records, keyEntries>>
    /\ \/ Goes(r, "giveSlot", "recover") /\ result[r] = "panic"
          /\ Outside /\ UNCHANGED <<item, result>>
       \/ Goes(r, "giveSlot", "done") /\ result[r] # "panic" /\ Exits(r)

\* A panic is recorded last, by the outermost deferred function.
Recover(r) ==
    /\ Goes(r, "recover", "done") /\ Record(r, "failed")
    /\ Exits(r) /\ UNCHANGED <<keyEntries, slots>>

-----------------------------------------------------------------------------
(* Contexts *)

EndContext(r, how) ==
    /\ ctx' = [ctx EXCEPT ![r] = how]
    /\ UNCHANGED <<records, keyEntries, slots, open, jpc, locals>>

Submitted(r) == jpc[r] \notin {"idle", "done"} /\ ~Ended(r)

\* The 30 seconds given to a job when it is submitted.
Deadline(r) == Submitted(r) /\ EndContext(r, "timed_out")

\* Cancel looks at the record under the lock and cancels the job after it.
Cancel(r) == Submitted(r) /\ EndContext(r, "canceled")

\* Close, or the end of the parent context.  Close then waits for the jobs.
Shut ==
    /\ open /\ open' = FALSE
    /\ ctx' = [r \in Request |-> IF Submitted(r) THEN "canceled" ELSE ctx[r]]
    /\ UNCHANGED <<records, keyEntries, slots, jpc, locals>>

CloseReturns == ~open /\ \A r \in Request : jpc[r] \in {"idle", "done"}

Execute(r) ==
    \/ TakeSlot(r) \/ EndsWaitingForSlot(r) \/ Acquire(r) \/ TakeToken(r)
    \/ EndsWaitingForToken(r) \/ ReleaseReference(r) \/ PutBack(r) \/ FinishEnded(r)
    \/ Check(r) \/ Finish(r) \/ Release(r) \/ ReturnToken(r) \/ GiveSlot(r) \/ Recover(r)

QueueNext ==
    \/ \E r \in Request : Execute(r) \/ Deadline(r) \/ Cancel(r)
    \/ Shut

\* The queue by itself: users submit, and what they submit returns.
JobsSpec ==
    JobsInit /\ [][\/ QueueNext
                   \/ \E r \in Request : \/ \E k \in Key : Submit(r, k)
                                        \/ \E s \in {"ok", "failed", "panic"} : RunReturns(r, s)]_jobsVars

-----------------------------------------------------------------------------
Executing == {r \in Request : jpc[r] = "run"}

Executor == INSTANCE KeyedExecutor WITH
    Job           <- Request,
    MaxConcurrent <- MaxRunning,
    status        <- state,
    executing     <- Executing,
    accepted      <- {r \in Request : jpc[r] # "idle"},
    open          <- open

\* The queue is a bounded executor: one task at a time of a key, however its
\* entry is deleted and made again while tokens are under way, a few tasks in
\* all, an outcome that stays, and a record that is dropped for room only, when
\* its job is over, and no more of them than there has to be.
ImplementsExecutor == Executor!ExecSpec
=============================================================================
