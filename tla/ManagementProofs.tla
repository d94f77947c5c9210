-------------------------- MODULE ManagementProofs --------------------------
(***************************************************************************)
(* What management mode promises, for every number of requests, objects,   *)
(* slots, records and versions.                                            *)
(*                                                                         *)
(* First the queue of workload jobs by itself: it is a bounded executor    *)
(* (KeyedExecutor).  The argument is that of AsyncRunnerProofs: every job  *)
(* holds what its position says, so that slots counts the jobs that have   *)
(* one, an entry of q.keys counts its users, and its token is in the gate  *)
(* or with one of them.                                                    *)
(*                                                                         *)
(* Then the requests: what a handler, a job or a session has done so far   *)
(* follows from where it is, whatever the others do in between.            *)
(*                                                                         *)
(* Last the catalog of what a user may do, for every set of resources and  *)
(* rules, any number of workers and any number of failing calls.           *)
(***************************************************************************)
EXTENDS ClusterManagement, AccessReviews, FilteringProofs

-----------------------------------------------------------------------------
(* The queue *)

HoldsReference(r) == jpc[r] \in {"gate", "taken", "check", "run", "finish", "release"}

HoldsToken(r) ==
    jpc[r] \in {"taken", "putBack", "check", "run", "finish", "release", "token"}

Holders == {r \in Request : jpc[r] \notin {"idle", "slot", "recover", "done"}}

Users(s) == {r \in Request : HoldsReference(r) /\ item[r] = s}

\* s has been made an entry, or never will be.
Allocated(s) == s \in Request /\ jpc[s] \notin {"idle", "slot", "acquire"}

BeforeRun == {"slot", "acquire", "gate", "taken", "putBack", "check", "finishEnded"}

\* The record, the key and the result of a job at each position.
RecordInv(r) ==
    /\ jpc[r] # "idle" => keyOf[r] \in Key
    /\ jpc[r] = "idle" => state[r] = "absent" /\ result[r] = "none"
    /\ jpc[r] \in BeforeRun => state[r] = "queued" /\ result[r] = "none"
    /\ jpc[r] \in {"taken", "putBack", "finishEnded"} => Ended(r)
    /\ jpc[r] = "run" => state[r] = "running" /\ result[r] = "none"
    /\ jpc[r] = "finish" => state[r] = "running" /\ result[r] \in {"ok", "failed"}
    /\ jpc[r] = "recover" => state[r] = "running" /\ result[r] = "panic"
    /\ jpc[r] \in {"release", "token", "giveSlot"} =>
           IF result[r] = "panic" THEN state[r] = "running"
                                  ELSE state[r] \in Outcome \cup {"absent"}
    /\ jpc[r] = "done" => state[r] \in Outcome \cup {"absent"}
    /\ state[r] \in Live \cup {"absent"} => httpStatus[r] = "none"

CountInv == slots = Cardinality(Holders)

\* Entries of q.keys: one token each, in the gate or with one user; the reference
\* count counts the users; the map holds those in use.
EntryInv ==
    /\ \A r \in Request : item[r] # NoRequest => Allocated(item[r])
    /\ \A k \in Key : keys[k] # NoRequest => Allocated(keys[k])
    /\ \A k, l \in Key : keys[k] = keys[l] /\ keys[k] # NoRequest => k = l
    /\ \A r \in Request : HoldsReference(r) \/ HoldsToken(r) => item[r] # NoRequest
    /\ \A r \in Request : HoldsReference(r) => keys[keyOf[r]] = item[r]
    /\ \A r \in Request : HoldsToken(r) => gate[item[r]] = 0
    /\ \A r, s \in Request : HoldsToken(r) /\ HoldsToken(s) /\ item[r] = item[s] => r = s
    /\ \A s \in Request : refs[s] = Cardinality(Users(s))
    /\ \A k \in Key : keys[k] # NoRequest => refs[keys[k]] > 0

OrderInv == Lists(order, Recorded) /\ Cardinality(Recorded) <= MaxRecords

JobsInv ==
    /\ JobsTypeOK
    /\ \A r \in Request : RecordInv(r)
    /\ CountInv
    /\ EntryInv
    /\ OrderInv

-----------------------------------------------------------------------------
(* The requests *)

\* Where the handler of r is, and whether r is a job or a session.
HandlerInv(r) ==
    /\ hpc[r] = "idle" <=> method[r] = "none"
    /\ hpc[r] # "idle" => target[r] \in Key
    /\ jpc[r] # "idle" => method[r] \in AsJob /\ hpc[r] \in {"read", "write", "answered"}
    /\ hpc[r] = "read" => method[r] \in Reading
    /\ hpc[r] = "write" => method[r] \notin Session
    /\ hpc[r] \in InSession <=> method[r] \in Session /\ hpc[r] \notin {"read", "answered"}
    /\ jpc[r] \in BeforeRun \cup {"run"} => hpc[r] \in {"read", "write"}

\* What r has changed, and what it may still change.
EffectInv(r) ==
    /\ hpc[r] \in {"idle", "read", "write"} => effects[r] = <<>> /\ r \notin late
    /\ r \in late => effects[r] = <<>> /\ method[r] \notin Session
    /\ (hpc[r] = "write" \/ r \in late) /\ method[r] \in Reading => read[r] = confirmed[r]
    /\ method[r] \in Session /\ dial[r] \in {"none"} \cup Upgrade => effects[r] = <<>>
    /\ Len(effects[r]) <= 1
    /\ method[r] \notin Session =>
          \A n \in DOMAIN effects[r] : effects[r][n] = confirmed[r]
    /\ effects[r] # <<>> /\ method[r] \notin Session \cup {"run"} /\ confirmed[r] # Absent
          => object[target[r]] # confirmed[r]

\* What a job is about to report, and reports.
ReportInv(r) ==
    /\ jpc[r] = "finish" /\ result[r] = "ok" => dryRun[r] \/ effects[r] # <<>>
    /\ state[r] = "succeeded" \/ httpStatus[r] = "ok" => dryRun[r] \/ effects[r] # <<>>
    /\ state[r] \in Outcome /\ httpStatus[r] = "none" => effects[r] = <<>> /\ r \notin late

\* The tunnel of a session.
SessionInv(r) ==
    /\ method[r] \notin Session \/ hpc[r] \in {"read", "slot"} => dial[r] = "none"
    /\ hpc[r] \notin {"pump", "closing"} => pumps[r] = {}
    /\ hpc[r] \in {"connect", "upgrade", "pump", "closing"} => Forward(r)
    /\ hpc[r] = "closing" => stopped[r]
    /\ Exec(r) /\ hpc[r] \in {"leave", "answered"} => dial[r] \in {"none", "down"}
    /\ Forward(r) /\ hpc[r] \in {"leave", "answered"} => stopped[r] \/ dial[r] = "none"
    /\ hpc[r] \in InSession \ {"slot"} => dial[r] # "none"

RequestInv(r) == HandlerInv(r) /\ EffectInv(r) /\ ReportInv(r) /\ SessionInv(r)

WithSlot(m) == {r \in Request : method[r] = m /\ hpc[r] \in InSession \ {"slot"}}

HeldInv == \A m \in Session : held[m] = Cardinality(WithSlot(m))

\* Every version is one that others made, or one that a request made.
Changers == {r \in Request : effects[r] # <<>>}

VersionInv == newest <= MaxVersion + Cardinality(Changers)

\* Of those who confirmed the same version of an object one at most has changed it.
OnceInv ==
    \A r, s \in Request :
        /\ r # s /\ effects[r] # <<>> /\ effects[s] # <<>>
        /\ {method[r], method[s]} \cap (Session \cup {"run"}) = {}
        /\ confirmed[r] # Absent /\ target[r] = target[s]
        => confirmed[r] # confirmed[s]

ManagementInv ==
    /\ JobsInv
    /\ WritesTypeOK /\ SessionsTypeOK
    /\ \A r \in Request : RequestInv(r)
    /\ HeldInv
    /\ VersionInv
    /\ OnceInv

-----------------------------------------------------------------------------
(* The queue: its steps, by themselves and among those of the requests *)

Returns(r) == \E s \in {"ok", "failed", "panic"} : RunReturns(r, s)

Ends(r) == \E how \in {"canceled", "timed_out"} : EndContext(r, how)

JobStep ==
    \/ QueueNext
    \/ \E r \in Request : (\E k \in Key : Submit(r, k)) \/ Returns(r) \/ Ends(r)

\* A goroutine writes the variables of its own job only.
LEMMA GoroutineFrame ==
    ASSUME JobsTypeOK, NEW r \in Request, Execute(r) \/ Returns(r)
    PROVE  /\ \A i \in Request \ {r} :
                 /\ jpc'[i] = jpc[i] /\ item'[i] = item[i] /\ result'[i] = result[i]
                 /\ state'[i] = state[i] /\ httpStatus'[i] = httpStatus[i] /\ ctx'[i] = ctx[i]
           /\ UNCHANGED <<keyOf, order, open>>
           /\ jpc[r] # "idle" /\ jpc'[r] # "idle"
           /\ Ended(r) => ctx'[r] # "live"
<1> USE DEF JobsTypeOK, Goes, Outside, Exits, Record, Ended
<1>1. CASE TakeSlot(r) \/ TakeToken(r) \/ PutBack(r)
  BY <1>1 DEF TakeSlot, TakeToken, PutBack, records
<1>2. CASE EndsWaitingForSlot(r) \/ FinishEnded(r) \/ Check(r)
  BY <1>2 DEF EndsWaitingForSlot, FinishEnded, Check
<1>3. CASE Finish(r) \/ ReturnToken(r) \/ GiveSlot(r) \/ Recover(r) \/ Returns(r)
  BY <1>3 DEF Finish, ReturnToken, GiveSlot, Recover, Returns, RunReturns, records, keyEntries
<1>4. CASE Acquire(r) \/ EndsWaitingForToken(r) \/ ReleaseReference(r) \/ Release(r)
  BY <1>4 DEF Acquire, EndsWaitingForToken, ReleaseReference, Release, records
<1> QED
  BY <1>1, <1>2, <1>3, <1>4 DEF Execute

\* A step of something else than a goroutine or a user.
LEMMA ContextFrame ==
    ASSUME JobsTypeOK,
           \/ \E r \in Request : Deadline(r) \/ Cancel(r) \/ Ends(r)
           \/ Shut \/ UNCHANGED jobsVars
    PROVE  /\ UNCHANGED <<records, keyEntries, slots, jpc, locals>>
           /\ ctx' \in [Request -> {"live", "canceled", "timed_out"}] /\ open' \in BOOLEAN
           /\ \A r \in Request : Ended(r) => Ended(r)'
<1>1. CASE \E r \in Request : Deadline(r) \/ Cancel(r) \/ Ends(r)
  BY <1>1 DEF Deadline, Cancel, Ends, EndContext, JobsTypeOK, Ended
<1>2. CASE Shut
  BY <1>2 DEF Shut, JobsTypeOK, Ended, Submitted
<1>3. CASE UNCHANGED jobsVars
  BY <1>3 DEF jobsVars, JobsTypeOK, Ended
<1> QED
  BY <1>1, <1>2, <1>3

\* The record of a job fits its position, whoever moves.
LEMMA RecordFits ==
    ASSUME JobsTypeOK, \A r \in Request : RecordInv(r), JobStep \/ UNCHANGED jobsVars
    PROVE  \A r \in Request : RecordInv(r)'
<1> SUFFICES ASSUME NEW i \in Request PROVE RecordInv(i)'
  OBVIOUS
<1> USE DEF Live, Outcome
<1>1. ASSUME NEW r \in Request, NEW k \in Key, Submit(r, k) PROVE RecordInv(i)'
  <2>1. /\ jpc[r] = "idle" /\ jpc' = [jpc EXCEPT ![r] = "slot"]
        /\ keyOf' = [keyOf EXCEPT ![r] = k]
        /\ UNCHANGED <<item, result, ctx>>
    BY <1>1 DEF Submit, Goes
  <2>2. /\ state'[i] = IF i = r THEN "queued" ELSE IF i \in Prunable THEN "absent" ELSE state[i]
        /\ httpStatus'[i] = IF i \in Prunable THEN "none" ELSE httpStatus[i]
    BY <1>1 DEF Submit
  <2>3. i \in Prunable => state[i] \in Outcome
    BY DEF Prunable
  <2>4. RecordInv(i) /\ RecordInv(r)
    OBVIOUS
  <2>5. CASE i = r
    BY <2>1, <2>2, <2>3, <2>4, <2>5 DEF RecordInv, JobsTypeOK, BeforeRun, Ended
  <2>6. CASE i # r
    <3>1. jpc'[i] = jpc[i] /\ keyOf'[i] = keyOf[i] /\ result'[i] = result[i] /\ ctx'[i] = ctx[i]
      BY <2>1, <2>6 DEF JobsTypeOK
    <3> QED
      BY <2>2, <2>3, <2>4, <2>6, <3>1 DEF RecordInv, BeforeRun, Ended
  <2> QED
    BY <2>5, <2>6
<1>2. ASSUME NEW r \in Request, Execute(r) \/ Returns(r) PROVE RecordInv(i)'
  <2>1. CASE i # r
    <3>1. RecordInv(i)
      OBVIOUS
    <3>2. /\ jpc'[i] = jpc[i] /\ result'[i] = result[i] /\ keyOf'[i] = keyOf[i]
          /\ state'[i] = state[i] /\ httpStatus'[i] = httpStatus[i] /\ ctx'[i] = ctx[i]
      BY <1>2, <2>1, GoroutineFrame
    <3> QED
      BY <3>1, <3>2 DEF RecordInv, Ended
  <2>2. CASE i = r
    <3> USE DEF RecordInv, BeforeRun, Ended, Goes, Outside, Record, JobsTypeOK, StateOf, Status
    <3>0. RecordInv(i) /\ keyOf' = keyOf /\ keyOf[i] \in Key
      BY <1>2, <2>2, GoroutineFrame
    <3>1. CASE TakeSlot(i) \/ Acquire(i) \/ TakeToken(i)
      BY <3>0, <3>1 DEF TakeSlot, Acquire, TakeToken, records
    <3>2. CASE EndsWaitingForToken(i) \/ ReleaseReference(i) \/ PutBack(i)
      BY <3>0, <3>2 DEF EndsWaitingForToken, ReleaseReference, PutBack, records
    <3>3. CASE EndsWaitingForSlot(i) \/ FinishEnded(i) \/ Check(i)
      BY <3>0, <3>3 DEF EndsWaitingForSlot, FinishEnded, Check, Exits
    <3>4. CASE Returns(i)
      BY <3>0, <3>4 DEF Returns, RunReturns, records
    <3>5. CASE Finish(i)
      BY <3>0, <3>5 DEF Finish
    <3>6. CASE Release(i) \/ ReturnToken(i)
      BY <3>0, <3>6 DEF Release, ReturnToken, records
    <3>7. CASE GiveSlot(i) \/ Recover(i)
      BY <3>0, <3>7 DEF GiveSlot, Recover, Exits, records
    <3> QED
      BY <1>2, <2>2, <3>1, <3>2, <3>3, <3>4, <3>5, <3>6, <3>7 DEF Execute
  <2> QED
    BY <2>1, <2>2
<1>3. CASE \/ \E r \in Request : Deadline(r) \/ Cancel(r) \/ Ends(r)
           \/ Shut \/ UNCHANGED jobsVars
  <2>1. RecordInv(i)
    OBVIOUS
  <2>2. UNCHANGED <<records, jpc, locals>> /\ (Ended(i) => Ended(i)')
    BY <1>3, ContextFrame
  <2> QED
    BY <2>1, <2>2 DEF RecordInv, Ended, records, locals
<1> QED
  BY <1>1, <1>2, <1>3 DEF JobStep, QueueNext

-----------------------------------------------------------------------------
(* The queue: what its goroutines hold *)

\* slots counts the jobs that have a place.
LEMMA CountStep ==
    ASSUME JobsTypeOK, CountInv, JobStep \/ UNCHANGED jobsVars
    PROVE  CountInv' /\ slots' \in 0 .. MaxRunning
<1> USE DEF JobsTypeOK, CountInv
<1>1. IsFiniteSet(Holders) /\ Cardinality(Holders) \in Nat
  BY FS_Subset, FS_CardinalityType, JobsAssumption DEF Holders
<1>2. ASSUME NEW r \in Request, TakeSlot(r) PROVE CountInv' /\ slots' \in 0 .. MaxRunning
  <2>1. r \notin Holders /\ Holders' = Holders \cup {r}
    BY <1>2 DEF TakeSlot, Goes, Holders
  <2>2. slots < MaxRunning /\ slots' = slots + 1
    BY <1>2 DEF TakeSlot
  <2>3. Cardinality(Holders') = Cardinality(Holders) + 1
    BY <1>1, <2>1, FS_AddElement
  <2> QED
    BY <1>1, <2>2, <2>3, JobsAssumption
<1>3. ASSUME NEW r \in Request, GiveSlot(r) PROVE CountInv' /\ slots' \in 0 .. MaxRunning
  <2>1. r \in Holders /\ Holders' = Holders \ {r}
    BY <1>3 DEF GiveSlot, Goes, Holders
  <2>2. slots' = slots - 1
    BY <1>3 DEF GiveSlot
  <2>3. slots # 0
    BY <1>1, <2>1, FS_EmptySet
  <2>4. Cardinality(Holders') = Cardinality(Holders) - 1
    BY <1>1, <2>1, FS_RemoveElement
  <2> QED
    BY <1>1, <2>2, <2>3, <2>4, JobsAssumption
<1>4. ASSUME NEW r \in Request, Execute(r) \/ Returns(r), ~TakeSlot(r), ~GiveSlot(r)
      PROVE  slots' = slots /\ Holders' = Holders
  <2>1. slots' = slots /\ (jpc'[r] \in {"idle", "slot", "recover", "done"}
                           <=> jpc[r] \in {"idle", "slot", "recover", "done"})
    BY <1>4 DEF Goes, Execute, EndsWaitingForSlot, Acquire, TakeToken, EndsWaitingForToken,
       ReleaseReference, PutBack, FinishEnded, Check, Finish, Release, ReturnToken, Recover,
       Returns, RunReturns
  <2>2. \A i \in Request \ {r} : jpc'[i] = jpc[i]
    BY <1>4, GoroutineFrame
  <2> QED
    BY <2>1, <2>2 DEF Holders
<1>5. ASSUME NEW r \in Request, NEW k \in Key, Submit(r, k)
      PROVE  slots' = slots /\ Holders' = Holders
  BY <1>5 DEF Submit, Goes, Holders
<1>6. ASSUME \/ \E r \in Request : Deadline(r) \/ Cancel(r) \/ Ends(r)
             \/ Shut \/ UNCHANGED jobsVars
      PROVE  slots' = slots /\ Holders' = Holders
  BY <1>6, ContextFrame DEF Holders
<1>7. slots' = slots /\ Holders' = Holders => CountInv' /\ slots' \in 0 .. MaxRunning
  OBVIOUS
<1> QED
  BY <1>2, <1>3, <1>4, <1>5, <1>6, <1>7 DEF JobStep, QueueNext

\* Steps that leave entries, references and tokens as they are.
LEMMA EntryFrame ==
    ASSUME EntryInv, JobsTypeOK, UNCHANGED <<keys, refs, gate>>,
           \A i \in Request :
               /\ HoldsReference(i)' <=> HoldsReference(i)
               /\ HoldsToken(i)' <=> HoldsToken(i)
               /\ HoldsReference(i) => keyOf'[i] = keyOf[i]
               /\ \/ item'[i] = item[i]
                  \/ item'[i] = NoRequest /\ ~HoldsReference(i) /\ ~HoldsToken(i)
               /\ Allocated(i) => Allocated(i)'
    PROVE  EntryInv'
<1>1. \A s \in Request : Users(s)' = Users(s)
  BY JobsAssumption DEF Users
<1>2. \A i \in Request : HoldsReference(i) \/ HoldsToken(i) => item'[i] = item[i]
  OBVIOUS
<1>3. \A i \in Request : (item[i] # NoRequest => Allocated(item[i]))'
  BY DEF EntryInv, Allocated
<1>4. \A k \in Key : (keys[k] # NoRequest => Allocated(keys[k]))'
  BY DEF EntryInv, Allocated
<1> QED
  BY <1>1, <1>2, <1>3, <1>4 DEF EntryInv

\* A job gives its reference up, and the entry goes with the last one.  Its item
\* is the entry already when it writes it.
LEMMA EntryDrop ==
    ASSUME EntryInv, JobsTypeOK, NEW r \in Request, HoldsReference(r), keyOf[r] \in Key,
           DropReference(r), ~HoldsReference(r)', item' = item, UNCHANGED <<gate, keyOf>>,
           \A i \in Request \ {r} : HoldsReference(i)' <=> HoldsReference(i),
           \A i \in Request : HoldsToken(i)' <=> HoldsToken(i),
           \A i \in Request : Allocated(i) => Allocated(i)'
    PROVE  EntryInv' /\ refs' \in [Request -> Int]
<1>0. PICK s \in Request : s = item[r]
  BY DEF EntryInv, Allocated
<1>1. s # NoRequest /\ keys[keyOf[r]] = s
  BY <1>0, JobsAssumption DEF EntryInv, JobsTypeOK
<1>2. r \in Users(s) /\ Users(s)' = Users(s) \ {r}
  BY <1>0 DEF Users
<1>3. \A t \in Request : t # s => Users(t)' = Users(t)
  BY <1>0 DEF Users
<1>4. refs[s] = Cardinality(Users(s)) /\ refs[s] \in Nat /\ IsFiniteSet(Users(s))
  <2>1. IsFiniteSet(Users(s))
    BY FS_Subset, JobsAssumption DEF Users
  <2> QED
    BY <1>1, <2>1, FS_CardinalityType DEF EntryInv
<1>5. IsFiniteSet(Users(s) \ {r}) /\ Cardinality(Users(s) \ {r}) = refs[s] - 1
  BY <1>2, <1>4, FS_RemoveElement
<1>6. refs[s] = 1 => Users(s)' = {}
  BY <1>2, <1>4, <1>5, FS_EmptySet
<1>7. refs[s] > 0
  BY <1>2, <1>4, FS_EmptySet
<1>8. /\ \A t \in Request : t # s => refs'[t] = refs[t]
      /\ refs'[s] = refs[s] - 1 /\ refs' \in [Request -> Int]
      /\ \A l \in Key : keys'[l] = IF l = keyOf[r] /\ refs[s] = 1 THEN NoRequest ELSE keys[l]
  <2>1. /\ refs' = [refs EXCEPT ![s] = refs[s] - 1]
        /\ keys' = [keys EXCEPT ![keyOf[r]] = IF refs[s] = 1 THEN NoRequest ELSE keys[keyOf[r]]]
    BY <1>1 DEF DropReference
  <2>2. refs \in [Request -> Int] /\ keys \in [Key -> Request \cup {NoRequest}]
    BY JobsAssumption, FS_CardinalityType DEF JobsTypeOK
  <2> QED
    BY <1>1, <1>4, <2>1, <2>2
<1>9. ASSUME NEW i \in Request, HoldsReference(i)' PROVE keys'[keyOf[i]] = item[i]
  <2>1. HoldsReference(i) /\ i # r /\ keys[keyOf[i]] = item[i] /\ item[i] # NoRequest
    BY <1>9 DEF EntryInv
  <2>2. CASE keyOf[i] = keyOf[r]
    <3>1. i \in Users(s)'
      BY <1>0, <1>1, <1>9, <2>1, <2>2 DEF Users
    <3> QED
      BY <1>6, <1>8, <2>1, <2>2, <3>1
  <2>3. CASE keyOf[i] # keyOf[r]
    <3>1. keys'[keyOf[i]] = keys[keyOf[i]]
      BY <2>3 DEF DropReference, JobsTypeOK
    <3> QED
      BY <2>1, <3>1
  <2> QED
    BY <2>2, <2>3
<1>10. \A t \in Request : refs'[t] = Cardinality(Users(t)')
  <2>1. \A t \in Request : refs[t] = Cardinality(Users(t))
    BY DEF EntryInv
  <2>2. ASSUME NEW t \in Request PROVE refs'[t] = Cardinality(Users(t)')
    <3>1. CASE t = s
      BY <1>2, <1>5, <1>8, <3>1
    <3>2. CASE t # s
      BY <1>3, <1>8, <2>1, <3>2
    <3> QED
      BY <3>1, <3>2
  <2> QED
    BY <2>2
<1>11. \A k \in Key : keys'[k] # NoRequest => keys'[k] = keys[k] /\ refs'[keys'[k]] > 0
  <2> SUFFICES ASSUME NEW k \in Key, keys'[k] # NoRequest
               PROVE  keys'[k] = keys[k] /\ refs'[keys[k]] > 0
    OBVIOUS
  <2>1. keys'[k] = keys[k] /\ keys[k] \in Request /\ refs[keys[k]] > 0
    BY <1>8 DEF EntryInv, Allocated
  <2>2. CASE k = keyOf[r]
    <3>1. refs[s] # 1 /\ keys[k] = s
      BY <1>1, <1>8, <2>1, <2>2
    <3> QED
      BY <1>4, <1>7, <1>8, <2>1, <3>1
  <2>3. CASE k # keyOf[r]
    <3>1. keys[k] # s
      BY <1>1, <2>3 DEF EntryInv
    <3> QED
      BY <1>8, <2>1, <3>1
  <2> QED
    BY <2>2, <2>3
<1>12. \A i \in Request : (item[i] # NoRequest => Allocated(item[i]))'
  BY DEF EntryInv, Allocated
<1>13. \A k \in Key : (keys[k] # NoRequest => Allocated(keys[k]))'
  BY <1>11 DEF EntryInv, Allocated
<1>14. \A k, l \in Key : keys'[k] = keys'[l] /\ keys'[k] # NoRequest => k = l
  BY <1>11 DEF EntryInv
<1>15. \A i \in Request : HoldsReference(i)' \/ HoldsToken(i)' => item'[i] # NoRequest
  BY DEF EntryInv
<1>16. \A i \in Request : HoldsToken(i)' => gate'[item'[i]] = 0
  BY DEF EntryInv
<1>17. \A i, j \in Request : HoldsToken(i)' /\ HoldsToken(j)' /\ item'[i] = item'[j] => i = j
  BY DEF EntryInv
<1>18. \A k \in Key : keys'[k] # NoRequest => refs'[keys'[k]] > 0
  BY <1>11
<1>19. \A i \in Request : HoldsReference(i)' => keys'[keyOf'[i]] = item'[i]
  BY <1>9
<1> QED
  BY <1>8, <1>10, <1>12, <1>13, <1>14, <1>15, <1>16, <1>17, <1>18, <1>19 DEF EntryInv

\* acquire: the key's entry, found or made, gets a user.
LEMMA EntryAcquire ==
    ASSUME EntryInv, JobsTypeOK, NEW r \in Request, RecordInv(r), Acquire(r)
    PROVE  EntryInv' /\ refs' \in [Request -> Int] /\ gate' \in [Request -> 0..1]
<1>1. PICK s \in Request : s = IF keys[keyOf[r]] = NoRequest THEN r ELSE keys[keyOf[r]]
  BY DEF JobsTypeOK, RecordInv, Acquire, Goes
<1>2. keyOf[r] \in Key /\ jpc[r] = "acquire" /\ ~HoldsReference(r) /\ ~HoldsToken(r)
  BY DEF Acquire, Goes, RecordInv, HoldsReference, HoldsToken
<1>3. /\ keys' = [keys EXCEPT ![keyOf[r]] = s]
      /\ gate' = [gate EXCEPT ![s] = IF keys[keyOf[r]] = NoRequest THEN 1 ELSE @]
      /\ refs' = [refs EXCEPT ![s] = @ + 1]
      /\ item' = [item EXCEPT ![r] = s]
      /\ jpc' = [jpc EXCEPT ![r] = "gate"]
      /\ UNCHANGED keyOf
  BY <1>1 DEF Acquire, Goes, Outside
<1>4. HoldsReference(r)' /\ ~HoldsToken(r)'
  BY <1>2, <1>3 DEF HoldsReference, HoldsToken, JobsTypeOK
<1>5. \A i \in Request \ {r} : /\ HoldsReference(i)' <=> HoldsReference(i)
                               /\ HoldsToken(i)' <=> HoldsToken(i)
                               /\ item'[i] = item[i]
  BY <1>3 DEF HoldsReference, HoldsToken, JobsTypeOK
<1>6. (\A t \in Request : Allocated(t) => Allocated(t)') /\ Allocated(r)'
  BY <1>3 DEF Allocated, JobsTypeOK
<1>7. ~Allocated(r) /\ s # NoRequest /\ item'[r] = s /\ keys'[keyOf[r]] = s
  BY <1>2, <1>3, JobsAssumption DEF Allocated, JobsTypeOK
<1>8. /\ \A i \in Request : item[i] # r
      /\ \A k \in Key : keys[k] # r
  BY <1>7, JobsAssumption DEF EntryInv, Allocated
<1>9. Allocated(s)'
  <2>1. CASE keys[keyOf[r]] = NoRequest
    BY <1>1, <1>6, <2>1
  <2>2. CASE keys[keyOf[r]] # NoRequest
    BY <1>1, <1>2, <1>6, <2>2 DEF EntryInv
  <2> QED
    BY <2>1, <2>2
<1>10. \A i \in Request : (item[i] # NoRequest => Allocated(item[i]))'
  <2> SUFFICES ASSUME NEW i \in Request, item'[i] # NoRequest PROVE Allocated(item[i])'
    OBVIOUS
  <2>1. CASE i = r
    BY <1>7, <1>9, <2>1 DEF Allocated
  <2>2. CASE i # r
    BY <1>5, <1>6, <2>2 DEF EntryInv, Allocated
  <2> QED
    BY <2>1, <2>2
<1>11. \A k \in Key : keys'[k] = IF k = keyOf[r] THEN s ELSE keys[k]
  BY <1>2, <1>3 DEF JobsTypeOK
<1>12. \A k \in Key : (keys[k] # NoRequest => Allocated(keys[k]))'
  <2> SUFFICES ASSUME NEW k \in Key, keys'[k] # NoRequest PROVE Allocated(keys[k])'
    OBVIOUS
  <2>1. CASE k = keyOf[r]
    BY <1>9, <1>11, <2>1 DEF Allocated
  <2>2. CASE k # keyOf[r]
    BY <1>6, <1>11, <2>2 DEF EntryInv, Allocated
  <2> QED
    BY <2>1, <2>2
<1>13. \A k, l \in Key : keys'[k] = keys'[l] /\ keys'[k] # NoRequest => k = l
  BY <1>1, <1>2, <1>8, <1>11 DEF EntryInv
<1>14. \A i \in Request : HoldsReference(i)' => keys'[keyOf[i]] = item'[i]
  <2> SUFFICES ASSUME NEW i \in Request, HoldsReference(i)' PROVE keys'[keyOf[i]] = item'[i]
    OBVIOUS
  <2>1. CASE i = r
    BY <1>7, <2>1
  <2>2. CASE i # r
    <3>1. HoldsReference(i) /\ item'[i] = item[i] /\ keys[keyOf[i]] = item[i] /\ item[i] # NoRequest
      BY <1>5, <2>2 DEF EntryInv
    <3>2. CASE keyOf[i] = keyOf[r]
      BY <1>1, <1>7, <3>1, <3>2
    <3>3. CASE keyOf[i] # keyOf[r]
      BY <1>3, <3>1, <3>3 DEF JobsTypeOK
    <3> QED
      BY <3>2, <3>3
  <2> QED
    BY <2>1, <2>2
<1>15. \A i \in Request : HoldsToken(i)' =>
           HoldsToken(i) /\ i # r /\ item'[i] = item[i] /\ item[i] # r
  BY <1>2, <1>4, <1>5, <1>8
<1>16. \A t \in Request : t # r => gate'[t] = gate[t]
  BY <1>1, <1>3 DEF JobsTypeOK
<1>17. \A i \in Request : HoldsToken(i)' => gate'[item'[i]] = 0
  BY <1>15, <1>16, JobsAssumption DEF EntryInv, JobsTypeOK
<1>18. \A t \in Request : Users(t)' = IF t = s THEN Users(t) \cup {r} ELSE Users(t)
  BY <1>2, <1>4, <1>5, <1>7 DEF Users
<1>19. r \notin Users(s) /\ IsFiniteSet(Users(s))
  BY <1>2, FS_Subset, JobsAssumption DEF Users
<1>20. Cardinality(Users(s) \cup {r}) = Cardinality(Users(s)) + 1
  BY <1>19, FS_AddElement
<1>21. \A t \in Request : refs[t] \in Nat /\ refs'[t] = IF t = s THEN refs[t] + 1 ELSE refs[t]
  <2>1. Cardinality(Request) \in Nat
    BY FS_CardinalityType, JobsAssumption
  <2> QED
    BY <1>3, <2>1 DEF JobsTypeOK
<1>22. \A t \in Request : refs'[t] = Cardinality(Users(t)')
  <2>1. \A t \in Request : refs[t] = Cardinality(Users(t))
    BY DEF EntryInv
  <2>2. ASSUME NEW t \in Request PROVE refs'[t] = Cardinality(Users(t)')
    <3>1. CASE t = s
      BY <1>18, <1>20, <1>21, <2>1, <3>1
    <3>2. CASE t # s
      BY <1>18, <1>21, <2>1, <3>2
    <3> QED
      BY <3>1, <3>2
  <2> QED
    BY <2>2
<1>23. \A k \in Key : keys'[k] # NoRequest => refs'[keys'[k]] > 0
  <2> SUFFICES ASSUME NEW k \in Key, keys'[k] # NoRequest PROVE refs'[keys'[k]] > 0
    OBVIOUS
  <2>1. CASE k = keyOf[r]
    BY <1>11, <1>21, <2>1
  <2>2. CASE k # keyOf[r]
    <3>1. keys'[k] = keys[k] /\ keys[k] \in Request /\ refs[keys[k]] > 0
      BY <1>11, <2>2 DEF EntryInv, JobsTypeOK
    <3> QED
      BY <1>21, <3>1
  <2> QED
    BY <2>1, <2>2
<1>24. \A i \in Request : HoldsReference(i)' \/ HoldsToken(i)' => item'[i] # NoRequest
  BY <1>4, <1>5, <1>7 DEF EntryInv
<1>25. \A i, j \in Request : HoldsToken(i)' /\ HoldsToken(j)' /\ item'[i] = item'[j] => i = j
  BY <1>15 DEF EntryInv
<1>26. refs' \in [Request -> Int] /\ gate' \in [Request -> 0..1]
  BY <1>3, <1>21 DEF JobsTypeOK
<1> QED
  BY <1>3, <1>10, <1>12, <1>13, <1>14, <1>17, <1>22, <1>23, <1>24, <1>25, <1>26 DEF EntryInv

\* The token of an entry leaves its gate for one waiter ...
LEMMA EntryTake ==
    ASSUME EntryInv, JobsTypeOK, NEW r \in Request, TakeToken(r)
    PROVE  EntryInv' /\ gate' \in [Request -> 0..1]
<1>1. /\ jpc[r] = "gate" /\ HoldsReference(r) /\ ~HoldsToken(r)
      /\ jpc' = [jpc EXCEPT ![r] = IF Ended(r) THEN "taken" ELSE "check"]
      /\ UNCHANGED <<keys, refs, item, keyOf>>
  BY DEF TakeToken, Goes, Outside, HoldsReference, HoldsToken
<1>2. PICK s \in Request : s = item[r]
  BY <1>1 DEF EntryInv, Allocated
<1>3. gate[s] = 1 /\ gate' = [gate EXCEPT ![s] = 0]
  BY <1>2 DEF TakeToken
<1>4. \A i \in Request : /\ HoldsReference(i)' <=> HoldsReference(i)
                         /\ HoldsToken(i)' <=> HoldsToken(i) \/ i = r
                         /\ Allocated(i) => Allocated(i)'
  BY <1>1 DEF HoldsReference, HoldsToken, Allocated, JobsTypeOK
<1>5. \A t \in Request : Users(t)' = Users(t)
  BY <1>1, <1>4 DEF Users
<1>6. \A i \in Request : HoldsToken(i) => item[i] # s
  BY <1>3 DEF EntryInv
<1>7. \A t \in Request : gate'[t] = IF t = s THEN 0 ELSE gate[t]
  BY <1>3 DEF JobsTypeOK
<1>8. \A i \in Request : (item[i] # NoRequest => Allocated(item[i]))'
  BY <1>1, <1>4 DEF EntryInv, Allocated
<1>9. \A k \in Key : (keys[k] # NoRequest => Allocated(keys[k]))'
  BY <1>1, <1>4 DEF EntryInv, Allocated
<1>10. \A i \in Request : HoldsReference(i)' \/ HoldsToken(i)' => item'[i] # NoRequest
  BY <1>1, <1>4 DEF EntryInv
<1>11. \A i \in Request : HoldsToken(i)' => gate'[item'[i]] = 0
  BY <1>1, <1>2, <1>4, <1>7, <1>10 DEF EntryInv, JobsTypeOK
<1>12. \A i, j \in Request : HoldsToken(i)' /\ HoldsToken(j)' /\ item'[i] = item'[j] => i = j
  BY <1>1, <1>2, <1>4, <1>6 DEF EntryInv
<1>13. gate' \in [Request -> 0..1]
  BY <1>3 DEF JobsTypeOK
<1> QED
  BY <1>1, <1>4, <1>5, <1>8, <1>9, <1>10, <1>11, <1>12, <1>13 DEF EntryInv

\* ... and comes back from the only job that has it.
LEMMA EntryReturn ==
    ASSUME EntryInv, JobsTypeOK, NEW r \in Request, PutBack(r) \/ ReturnToken(r)
    PROVE  EntryInv' /\ gate' \in [Request -> 0..1]
<1>1. /\ jpc[r] \in {"putBack", "token"} /\ ~HoldsReference(r) /\ HoldsToken(r)
      /\ jpc' = [jpc EXCEPT ![r] = IF jpc[r] = "token" THEN "giveSlot" ELSE "finishEnded"]
      /\ UNCHANGED <<keys, refs, item, keyOf>>
  BY DEF PutBack, ReturnToken, Goes, Outside, HoldsReference, HoldsToken
<1>2. PICK s \in Request : s = item[r]
  BY <1>1 DEF EntryInv, Allocated
<1>3. gate' = [gate EXCEPT ![s] = 1]
  BY <1>2 DEF PutBack, ReturnToken
<1>4. \A i \in Request : /\ HoldsReference(i)' <=> HoldsReference(i)
                         /\ HoldsToken(i)' <=> HoldsToken(i) /\ i # r
                         /\ Allocated(i) => Allocated(i)'
  BY <1>1 DEF HoldsReference, HoldsToken, Allocated, JobsTypeOK
<1>5. \A t \in Request : Users(t)' = Users(t)
  BY <1>1, <1>4 DEF Users
<1>6. \A i \in Request : HoldsToken(i) /\ i # r => item[i] # s
  BY <1>1, <1>2 DEF EntryInv
<1>7. \A t \in Request : gate'[t] = IF t = s THEN 1 ELSE gate[t]
  BY <1>3 DEF JobsTypeOK
<1>8. \A i \in Request : (item[i] # NoRequest => Allocated(item[i]))'
  BY <1>1, <1>4 DEF EntryInv, Allocated
<1>9. \A k \in Key : (keys[k] # NoRequest => Allocated(keys[k]))'
  BY <1>1, <1>4 DEF EntryInv, Allocated
<1>10. \A i \in Request : HoldsReference(i)' \/ HoldsToken(i)' => item'[i] # NoRequest
  BY <1>1, <1>4 DEF EntryInv
<1>11. \A i \in Request : HoldsToken(i)' => gate'[item'[i]] = 0
  <2> SUFFICES ASSUME NEW i \in Request, HoldsToken(i)' PROVE gate'[item[i]] = 0
    BY <1>1
  <2>1. HoldsToken(i) /\ item[i] # s /\ gate[item[i]] = 0 /\ item[i] \in Request
    BY <1>4, <1>6 DEF EntryInv, Allocated
  <2> QED
    BY <1>7, <2>1
<1>12. \A i, j \in Request : HoldsToken(i)' /\ HoldsToken(j)' /\ item'[i] = item'[j] => i = j
  BY <1>1, <1>4 DEF EntryInv
<1>13. gate' \in [Request -> 0..1]
  BY <1>3 DEF JobsTypeOK
<1> QED
  BY <1>1, <1>4, <1>5, <1>8, <1>9, <1>10, <1>11, <1>12, <1>13 DEF EntryInv

\* Every step keeps the entries in order.
LEMMA EntryStep ==
    ASSUME EntryInv, JobsTypeOK, \A r \in Request : RecordInv(r), JobStep \/ UNCHANGED jobsVars
    PROVE  EntryInv' /\ refs' \in [Request -> Int] /\ gate' \in [Request -> 0..1]
<1>0. refs \in [Request -> Int] /\ gate \in [Request -> 0..1]
  <2>1. Cardinality(Request) \in Nat
    BY FS_CardinalityType, JobsAssumption
  <2> QED
    BY <2>1 DEF JobsTypeOK
<1>1. ASSUME NEW r \in Request, NEW k \in Key, Submit(r, k)
      PROVE  EntryInv' /\ UNCHANGED <<refs, gate>>
  <2>1. /\ UNCHANGED <<keys, refs, gate, item>>
        /\ jpc[r] = "idle" /\ jpc' = [jpc EXCEPT ![r] = "slot"]
        /\ keyOf' = [keyOf EXCEPT ![r] = k]
    BY <1>1 DEF Submit, Goes, keyEntries
  <2>2. \A i \in Request : /\ HoldsReference(i)' <=> HoldsReference(i)
                           /\ HoldsToken(i)' <=> HoldsToken(i)
                           /\ HoldsReference(i) => keyOf'[i] = keyOf[i]
                           /\ Allocated(i) => Allocated(i)'
    BY <2>1 DEF HoldsReference, HoldsToken, Allocated, JobsTypeOK
  <2> QED
    BY <2>1, <2>2, EntryFrame
<1>2. ASSUME NEW r \in Request,
             \/ TakeSlot(r) \/ EndsWaitingForSlot(r) \/ FinishEnded(r) \/ Check(r)
             \/ Finish(r) \/ GiveSlot(r) \/ Recover(r) \/ Returns(r)
      PROVE  EntryInv' /\ UNCHANGED <<refs, gate>>
  <2>1. UNCHANGED <<keys, refs, gate, keyOf>>
    BY <1>2 DEF TakeSlot, EndsWaitingForSlot, FinishEnded, Check, Finish, GiveSlot, Recover,
       Returns, RunReturns, Outside, Exits, keyEntries
  <2>2. \/ /\ jpc[r] \in {"slot", "finishEnded", "giveSlot", "recover"}
           /\ jpc'[r] \in {"acquire", "done", "giveSlot", "recover"}
           /\ jpc'[r] = "acquire" => jpc[r] = "slot"
           /\ item'[r] = item[r] \/ item'[r] = NoRequest
        \/ /\ jpc[r] \in {"check", "run", "finish"}
           /\ jpc'[r] \in {"run", "finish", "release"} /\ item'[r] = item[r]
    BY <1>2 DEF TakeSlot, EndsWaitingForSlot, FinishEnded, Check, Finish, GiveSlot, Recover,
       Returns, RunReturns, Outside, Exits, Goes, JobsTypeOK
  <2>3. \A i \in Request \ {r} : jpc'[i] = jpc[i] /\ item'[i] = item[i]
    BY <1>2, GoroutineFrame DEF Execute
  <2>4. \A i \in Request :
            /\ HoldsReference(i)' <=> HoldsReference(i)
            /\ HoldsToken(i)' <=> HoldsToken(i)
            /\ \/ item'[i] = item[i]
               \/ item'[i] = NoRequest /\ ~HoldsReference(i) /\ ~HoldsToken(i)
            /\ Allocated(i) => Allocated(i)'
    BY <2>2, <2>3 DEF HoldsReference, HoldsToken, Allocated
  <2> QED
    BY <2>1, <2>4, EntryFrame
<1>3. ASSUME NEW r \in Request, EndsWaitingForToken(r) \/ ReleaseReference(r) \/ Release(r)
      PROVE  EntryInv' /\ refs' \in [Request -> Int] /\ UNCHANGED gate
  <2>1. /\ jpc[r] \in {"gate", "taken", "release"} /\ HoldsReference(r) /\ DropReference(r)
        /\ jpc' = [jpc EXCEPT ![r] = CASE jpc[r] = "gate" -> "finishEnded"
                                       [] jpc[r] = "taken" -> "putBack"
                                       [] OTHER -> "token"]
        /\ item' = item \/ item' = [item EXCEPT ![r] = keys[keyOf[r]]]
        /\ UNCHANGED <<gate, keyOf>>
    BY <1>3 DEF EndsWaitingForToken, ReleaseReference, Release, Goes, Outside, HoldsReference
  <2>2. keyOf[r] \in Key /\ keys[keyOf[r]] = item[r]
    BY <2>1 DEF RecordInv, EntryInv
  <2>3. item' = item
    BY <2>1, <2>2 DEF JobsTypeOK
  <2>4. /\ ~HoldsReference(r)'
        /\ \A i \in Request \ {r} : HoldsReference(i)' <=> HoldsReference(i)
        /\ \A i \in Request : HoldsToken(i)' <=> HoldsToken(i)
        /\ \A i \in Request : Allocated(i) => Allocated(i)'
    BY <2>1 DEF HoldsReference, HoldsToken, Allocated, JobsTypeOK
  <2> QED
    BY <2>1, <2>2, <2>3, <2>4, EntryDrop
<1>4. ASSUME \/ \E r \in Request : Deadline(r) \/ Cancel(r) \/ Ends(r)
             \/ Shut \/ UNCHANGED jobsVars
      PROVE  EntryInv' /\ UNCHANGED <<refs, gate>>
  <2>1. UNCHANGED <<keys, refs, gate, item, keyOf, jpc>>
    BY <1>4, ContextFrame DEF keyEntries, locals
  <2> QED
    BY <2>1, EntryFrame DEF HoldsReference, HoldsToken, Allocated
<1>5. ASSUME NEW r \in Request, Acquire(r)
      PROVE  EntryInv' /\ refs' \in [Request -> Int] /\ gate' \in [Request -> 0..1]
  BY <1>5, EntryAcquire
<1>6. ASSUME NEW r \in Request, TakeToken(r) \/ PutBack(r) \/ ReturnToken(r)
      PROVE  EntryInv' /\ gate' \in [Request -> 0..1] /\ UNCHANGED refs
  BY <1>6, EntryTake, EntryReturn DEF TakeToken, PutBack, ReturnToken
<1> QED
  BY <1>0, <1>1, <1>2, <1>3, <1>4, <1>5, <1>6 DEF JobStep, QueueNext, Execute

-----------------------------------------------------------------------------
(* The queue: its records *)

\* Only a job that goes on changes its record, and never to "absent".
LEMMA RecordStep ==
    ASSUME JobsTypeOK, \A r \in Request : RecordInv(r), JobStep \/ UNCHANGED jobsVars,
           ~ \E r \in Request, k \in Key : Submit(r, k)
    PROVE  /\ order' = order
           /\ \A i \in Request : \/ state'[i] = state[i]
                                 \/ state[i] \in Live /\ state'[i] \in Live \cup Outcome
<1>1. ASSUME NEW r \in Request, Execute(r) \/ Returns(r)
      PROVE  \/ state'[r] = state[r]
             \/ state[r] \in Live /\ state'[r] \in Live \cup Outcome
  <2>1. RecordInv(r)
    OBVIOUS
  <2>2. CASE EndsWaitingForSlot(r) \/ FinishEnded(r) \/ Check(r) \/ Finish(r) \/ Recover(r)
    <3>1. state[r] \in Live
      BY <2>1, <2>2 DEF EndsWaitingForSlot, FinishEnded, Check, Finish, Recover, RecordInv,
         BeforeRun, Live, Goes
    <3>2. state' = [state EXCEPT ![r] = StateOf(r)] \/ state' = [state EXCEPT ![r] = "running"]
      BY <2>2 DEF EndsWaitingForSlot, FinishEnded, Check, Finish, Recover, Record
    <3>3. StateOf(r) \in Outcome
      BY DEF StateOf, Ended, JobsTypeOK, Outcome
    <3> QED
      BY <3>1, <3>2, <3>3 DEF JobsTypeOK, Live
  <2>3. CASE ~ (EndsWaitingForSlot(r) \/ FinishEnded(r) \/ Check(r) \/ Finish(r) \/ Recover(r))
    BY <1>1, <2>3 DEF Execute, TakeSlot, Acquire, TakeToken, EndsWaitingForToken, PutBack,
       ReleaseReference, Release, ReturnToken, GiveSlot, Returns, RunReturns, records
  <2> QED
    BY <2>2, <2>3
<1>2. ASSUME \/ \E r \in Request : Deadline(r) \/ Cancel(r) \/ Ends(r)
             \/ Shut \/ UNCHANGED jobsVars
      PROVE  UNCHANGED <<order, state>>
  BY <1>2, ContextFrame DEF records
<1>3. ASSUME NEW r \in Request, Execute(r) \/ Returns(r)
      PROVE  order' = order /\ \A i \in Request \ {r} : state'[i] = state[i]
  BY <1>3, GoroutineFrame
<1> QED
  BY <1>1, <1>2, <1>3 DEF JobStep, QueueNext

\* What Submit does to the records, and to the list of them.
LEMMA SubmitRecords ==
    ASSUME JobsTypeOK, OrderInv, NEW r \in Request, NEW k, Submit(r, k), state[r] = "absent"
    PROVE  OrderInv'
<1>1. /\ state' = [i \in Request |-> IF i = r THEN "queued"
                                     ELSE IF i \in Prunable THEN "absent" ELSE state[i]]
      /\ order' = Append(Keeping(order, Request \ Prunable), r)
      /\ Cardinality(Recorded \ Prunable) < MaxRecords
  BY DEF Submit, CanSubmit
<1>2. PICK pruned : pruned = Prunable
  OBVIOUS
<1>3. Recorded' = (Recorded \ pruned) \cup {r} /\ r \notin Recorded
  BY <1>1, <1>2 DEF Recorded
<1>4. Lists(Keeping(order, Request \ pruned), Recorded \cap (Request \ pruned))
  BY KeepingLists DEF OrderInv
<1>5. Recorded \cap (Request \ pruned) = Recorded \ pruned
  BY DEF Recorded
<1>6. Lists(Append(Keeping(order, Request \ pruned), r), (Recorded \ pruned) \cup {r})
  BY <1>3, <1>4, <1>5, AppendLists
<1>7. IsFiniteSet(Recorded \ pruned)
  BY FS_Subset, JobsAssumption DEF Recorded
<1>8. Cardinality((Recorded \ pruned) \cup {r}) = Cardinality(Recorded \ pruned) + 1
  BY <1>3, <1>7, FS_AddElement
<1>9. Cardinality(Recorded \ pruned) < MaxRecords /\ Cardinality(Recorded \ pruned) \in Nat
  BY <1>1, <1>2, <1>7, FS_CardinalityType
<1>10. Cardinality((Recorded \ pruned) \cup {r}) <= MaxRecords
  BY <1>8, <1>9, JobsAssumption
<1>11. order' = Append(Keeping(order, Request \ pruned), r)
  BY <1>1, <1>2
<1>12. Lists(order, Recorded)'
  BY <1>3, <1>6, <1>11 DEF Lists
<1>13. (Cardinality(Recorded) <= MaxRecords)'
  BY <1>3, <1>10
<1> QED
  BY <1>12, <1>13 DEF OrderInv

\* q.order lists what is recorded, and there is room for it.
LEMMA OrderStep ==
    ASSUME JobsTypeOK, \A r \in Request : RecordInv(r), OrderInv, JobStep \/ UNCHANGED jobsVars
    PROVE  OrderInv'
<1>1. ASSUME NEW r \in Request, NEW k \in Key, Submit(r, k) PROVE OrderInv'
  <2>1. state[r] = "absent"
    BY <1>1 DEF Submit, Goes, RecordInv
  <2> QED
    BY <1>1, <2>1, SubmitRecords
<1>2. CASE ~ \E r \in Request, k \in Key : Submit(r, k)
  <2>1. order' = order /\ Recorded' = Recorded
    BY <1>2, RecordStep DEF Recorded, Live, Outcome
  <2> QED
    BY <2>1 DEF OrderInv, Lists
<1> QED
  BY <1>1, <1>2

LEMMA JobsTypeStep ==
    ASSUME JobsInv, JobStep \/ UNCHANGED jobsVars, EntryInv', OrderInv',
           refs' \in [Request -> Int], gate' \in [Request -> 0..1], slots' \in 0 .. MaxRunning
    PROVE  JobsTypeOK'
<1> DEFINE
      RecordsTyped == /\ state \in [Request -> Live \cup Outcome \cup {"absent"}]
                      /\ httpStatus \in [Request -> Status]
                      /\ jpc \in [Request -> Position]
      EntriesTyped == /\ keyOf \in [Request -> Key \cup {NoKey}]
                      /\ keys \in [Key -> Request \cup {NoRequest}]
                      /\ item \in [Request -> Request \cup {NoRequest}]
                      /\ open \in BOOLEAN
      LocalsTyped  == /\ ctx \in [Request -> {"live", "canceled", "timed_out"}]
                      /\ result \in [Request -> Status \cup {"panic"}]
<1> USE DEF JobsInv
<1>1. refs' \in [Request -> 0 .. Cardinality(Request)]
  <2> SUFFICES ASSUME NEW s \in Request PROVE refs'[s] \in 0 .. Cardinality(Request)
    OBVIOUS
  <2>1. refs'[s] = Cardinality(Users(s)') /\ Users(s)' \subseteq Request
    BY DEF EntryInv, Users
  <2>2. /\ Cardinality(Users(s)') <= Cardinality(Request)
        /\ Cardinality(Users(s)') \in Nat /\ Cardinality(Request) \in Nat
    BY <2>1, FS_Subset, FS_CardinalityType, JobsAssumption
  <2> QED
    BY <2>1, <2>2
<1>2. order' \in Seq(Request) /\ Len(order') <= MaxRecords
  <2>1. Lists(order', Recorded') /\ Cardinality(Recorded') <= MaxRecords
    BY DEF OrderInv, Lists
  <2>2. Len(order') = Cardinality(Recorded')
    BY <2>1, ListLength
  <2>3. order' \in Seq(Request)
    BY <2>1 DEF Lists, Recorded
  <2> QED
    BY <2>1, <2>2, <2>3
<1>3. RecordsTyped'
  <2> USE DEF JobsTypeOK, Live, Outcome, Status, Position, Goes, Record, StateOf, Ended, RecordInv
  <2>1. ASSUME NEW r \in Request, NEW k \in Key, Submit(r, k) PROVE RecordsTyped'
    BY <2>1 DEF Submit
  <2>2. ASSUME NEW r \in Request, Execute(r) \/ Returns(r) PROVE RecordsTyped'
    <3>1. \E p \in Position : jpc' = [jpc EXCEPT ![r] = p]
      BY <2>2 DEF Execute, TakeSlot, EndsWaitingForSlot, Acquire, TakeToken, EndsWaitingForToken,
         ReleaseReference, PutBack, FinishEnded, Check, Finish, Release, ReturnToken, GiveSlot,
         Recover, Returns, RunReturns
    <3>2. \/ state' = state
          \/ \E s \in Live \cup Outcome : state' = [state EXCEPT ![r] = s]
      <4>1. StateOf(r) \in Outcome
        BY DEF StateOf
      <4> QED
        BY <2>2, <4>1 DEF Execute, TakeSlot, EndsWaitingForSlot, Acquire, TakeToken,
           EndsWaitingForToken, ReleaseReference, PutBack, FinishEnded, Check, Finish, Release,
           ReturnToken, GiveSlot, Recover, Returns, RunReturns, records
    <3>3. \/ httpStatus' = httpStatus
          \/ \E s \in Status : httpStatus' = [httpStatus EXCEPT ![r] = s]
      <4>1. Finish(r) => result[r] \in Status
        BY DEF Finish
      <4> QED
        BY <2>2, <4>1 DEF Execute, TakeSlot, EndsWaitingForSlot, Acquire, TakeToken,
           EndsWaitingForToken, ReleaseReference, PutBack, FinishEnded, Check, Finish, Release,
           ReturnToken, GiveSlot, Recover, Returns, RunReturns, records
    <3>4. jpc' \in [Request -> Position]
      BY <3>1
    <3>5. state' \in [Request -> Live \cup Outcome \cup {"absent"}]
      BY <3>2
    <3>6. httpStatus' \in [Request -> Status]
      BY <3>3
    <3> QED
      BY <3>4, <3>5, <3>6
  <2>3. CASE \/ \E r \in Request : Deadline(r) \/ Cancel(r) \/ Ends(r)
             \/ Shut \/ UNCHANGED jobsVars
    BY <2>3, ContextFrame DEF records
  <2> QED
    BY <2>1, <2>2, <2>3 DEF JobStep, QueueNext
<1>4. EntriesTyped'
  <2> USE DEF JobsTypeOK, Goes, Outside, Exits, keyEntries
  <2>1. ASSUME NEW r \in Request, NEW k \in Key, Submit(r, k) PROVE EntriesTyped'
    BY <2>1 DEF Submit
  <2>2. ASSUME NEW r \in Request,
               \/ TakeSlot(r) \/ EndsWaitingForSlot(r) \/ TakeToken(r) \/ PutBack(r)
               \/ FinishEnded(r) \/ Check(r) \/ Finish(r) \/ Recover(r) \/ Returns(r)
               \/ ReturnToken(r) \/ GiveSlot(r)
        PROVE EntriesTyped'
    BY <2>2 DEF TakeSlot, EndsWaitingForSlot, TakeToken, PutBack, FinishEnded, Check, Finish,
       Recover, Returns, RunReturns, ReturnToken, GiveSlot
  <2>3. ASSUME NEW r \in Request, EndsWaitingForToken(r) \/ ReleaseReference(r) \/ Release(r)
        PROVE EntriesTyped'
    <3>1. keyOf[r] \in Key
      BY <2>3 DEF EndsWaitingForToken, ReleaseReference, Release, RecordInv
    <3>2. keys' = [keys EXCEPT ![keyOf[r]] = NoRequest] \/ keys' = keys
      BY <2>3, <3>1 DEF EndsWaitingForToken, ReleaseReference, Release, DropReference
    <3>3. item' = item \/ item' = [item EXCEPT ![r] = keys[keyOf[r]]]
      BY <2>3 DEF EndsWaitingForToken, ReleaseReference, Release
    <3>4. UNCHANGED <<keyOf, open>>
      BY <2>3 DEF EndsWaitingForToken, ReleaseReference, Release
    <3> QED
      BY <3>1, <3>2, <3>3, <3>4
  <2>4. ASSUME NEW r \in Request, Acquire(r) PROVE EntriesTyped'
    <3>1. keyOf[r] \in Key
      BY <2>4 DEF Acquire, RecordInv
    <3> QED
      BY <2>4, <3>1 DEF Acquire
  <2>5. CASE \/ \E r \in Request : Deadline(r) \/ Cancel(r) \/ Ends(r)
             \/ Shut \/ UNCHANGED jobsVars
    BY <2>5, ContextFrame DEF locals
  <2> QED
    BY <2>1, <2>2, <2>3, <2>4, <2>5 DEF JobStep, QueueNext, Execute
<1>5. LocalsTyped'
  <2> USE DEF JobsTypeOK, Outside, Exits, Status
  <2>1. ASSUME NEW r \in Request, NEW k \in Key, Submit(r, k) PROVE LocalsTyped'
    BY <2>1 DEF Submit
  <2>2. ASSUME NEW r \in Request, Execute(r) \/ Returns(r) PROVE LocalsTyped'
    <3>1. ctx' = ctx \/ ctx' = [ctx EXCEPT ![r] = "canceled"]
      BY <2>2 DEF Execute, TakeSlot, EndsWaitingForSlot, TakeToken, PutBack, FinishEnded, Check,
         Finish, Recover, Returns, RunReturns, ReturnToken, GiveSlot, EndsWaitingForToken,
         ReleaseReference, Release, Acquire
    <3>2. \/ result' = result
          \/ \E s \in Status \cup {"panic"} : result' = [result EXCEPT ![r] = s]
      BY <2>2 DEF Execute, TakeSlot, EndsWaitingForSlot, TakeToken, PutBack, FinishEnded, Check,
         Finish, Recover, Returns, RunReturns, ReturnToken, GiveSlot, EndsWaitingForToken,
         ReleaseReference, Release, Acquire
    <3>3. result' \in [Request -> Status \cup {"panic"}]
      BY <3>2
    <3>4. ctx' \in [Request -> {"live", "canceled", "timed_out"}]
      BY <3>1
    <3> QED
      BY <3>3, <3>4
  <2>3. CASE \/ \E r \in Request : Deadline(r) \/ Cancel(r) \/ Ends(r)
             \/ Shut \/ UNCHANGED jobsVars
    BY <2>3, ContextFrame DEF locals
  <2> QED
    BY <2>1, <2>2, <2>3 DEF JobStep, QueueNext
<1> QED
  BY <1>1, <1>2, <1>3, <1>4, <1>5 DEF JobsTypeOK

\* Every step of the queue, taken by itself or by a request, keeps its invariant.
LEMMA JobsStep == JobsInv /\ (JobStep \/ UNCHANGED jobsVars) => JobsInv'
<1> SUFFICES ASSUME JobsInv, JobStep \/ UNCHANGED jobsVars PROVE JobsInv'
  OBVIOUS
<1>1. /\ JobsTypeOK /\ CountInv /\ EntryInv /\ OrderInv
      /\ \A r \in Request : RecordInv(r)
  BY DEF JobsInv
<1>2. \A r \in Request : RecordInv(r)'
  BY <1>1, RecordFits
<1>3. CountInv' /\ slots' \in 0 .. MaxRunning
  BY <1>1, CountStep
<1>4. EntryInv' /\ refs' \in [Request -> Int] /\ gate' \in [Request -> 0..1]
  BY <1>1, EntryStep
<1>5. OrderInv'
  BY <1>1, OrderStep
<1>6. JobsTypeOK'
  BY <1>3, <1>4, <1>5, JobsTypeStep
<1> QED
  BY <1>2, <1>3, <1>4, <1>5, <1>6 DEF JobsInv

LEMMA JobsStart == JobsInit => JobsInv
<1> SUFFICES ASSUME JobsInit PROVE JobsInv
  OBVIOUS
<1>1. JobsTypeOK
  <2>1. Cardinality(Request) \in Nat
    BY FS_CardinalityType, JobsAssumption
  <2>2. order \in Seq(Request) /\ Len(order) <= MaxRecords
    BY JobsAssumption DEF JobsInit
  <2> QED
    BY <2>1, <2>2, JobsAssumption DEF JobsInit, JobsTypeOK, Position, Status
<1>2. Holders = {} /\ Recorded = {} /\ \A s \in Request : Users(s) = {}
  BY DEF JobsInit, Holders, Recorded, Users, HoldsReference
<1>3. CountInv /\ EntryInv
  BY <1>2, FS_EmptySet DEF JobsInit, CountInv, EntryInv, HoldsReference, HoldsToken
<1>4. OrderInv
  BY <1>2, FS_EmptySet, JobsAssumption DEF JobsInit, OrderInv, Lists
<1>5. \A r \in Request : RecordInv(r)
  BY DEF JobsInit, RecordInv, BeforeRun, Live
<1> QED
  BY <1>1, <1>3, <1>4, <1>5 DEF JobsInv

\* The queue alone: no slot, record or entry is ever counted wrong.
THEOREM QueueInvariance == JobsSpec => []JobsInv
<1>1. JobsInv /\ [JobStep]_jobsVars => JobsInv'
  BY JobsStep
<1>2. QueueNext \/ (\E r \in Request : \/ \E k \in Key : Submit(r, k)
                                      \/ \E s \in {"ok", "failed", "panic"} : RunReturns(r, s))
      => JobStep
  BY DEF JobStep, Returns
<1> QED
  BY <1>1, <1>2, JobsStart, PTL DEF JobsSpec

-----------------------------------------------------------------------------
(* The queue: it is a bounded executor *)

\* The abstract module counts as this one does.
LEMMA SameCardinality == \A S : Executor!Cardinality(S) = Cardinality(S)
BY DEF Executor!Cardinality, Cardinality

\* A token is with one job, so one job of a key is past its gate.
LEMMA OneOfAKey ==
    ASSUME JobsInv, NEW r \in Request, NEW s \in Request, keyOf[r] = keyOf[s],
           jpc[r] \in {"check", "run"}, jpc[s] \in {"check", "run"}
    PROVE  r = s
<1>1. HoldsReference(r) /\ HoldsToken(r) /\ HoldsReference(s) /\ HoldsToken(s)
  BY DEF HoldsReference, HoldsToken
<1> QED
  BY <1>1 DEF JobsInv, EntryInv

\* The step in which a job begins to run is one the executor allows.
LEMMA BeginImplements ==
    ASSUME JobsInv, NEW r \in Request, Check(r), ~Ended(r)
    PROVE  Executor!Begin(r)
<1>1. /\ jpc[r] = "check" /\ jpc' = [jpc EXCEPT ![r] = "run"]
      /\ state' = [state EXCEPT ![r] = "running"] /\ UNCHANGED <<keyOf, open>>
  BY DEF Check, Goes, Outside
<1>2. state[r] = "queued"
  BY <1>1 DEF JobsInv, RecordInv, BeforeRun
<1>3. r \notin Executing /\ Executing \cup {r} \subseteq Holders
  BY <1>1 DEF Executing, Holders
<1>4. IsFiniteSet(Executing) /\ IsFiniteSet(Holders)
  BY FS_Subset, JobsAssumption DEF Executing, Holders
<1>5. Cardinality(Executing \cup {r}) = Cardinality(Executing) + 1
  BY <1>3, <1>4, FS_AddElement
<1>6. Cardinality(Executing \cup {r}) <= Cardinality(Holders)
  BY <1>3, <1>4, FS_Subset
<1>7. Cardinality(Executing) \in Nat /\ Cardinality(Holders) \in Nat
  BY <1>4, FS_CardinalityType
<1>8. Cardinality(Holders) <= MaxRunning /\ MaxRunning \in Nat
  BY JobsAssumption DEF JobsInv, JobsTypeOK, CountInv
<1>9. Cardinality(Executing) < MaxRunning
  BY <1>5, <1>6, <1>7, <1>8
<1>10. \A s \in Executing : keyOf[s] # keyOf[r]
  BY <1>1, OneOfAKey DEF Executing
<1>11. Executing' = Executing \cup {r}
  BY <1>1 DEF Executing, JobsInv, JobsTypeOK
<1>12. {s \in Request : jpc'[s] # "idle"} = {s \in Request : jpc[s] # "idle"}
  BY <1>1 DEF JobsInv, JobsTypeOK
<1> QED
  BY <1>1, <1>2, <1>9, <1>10, <1>11, <1>12, SameCardinality DEF Executor!Begin

\* Every step of the queue is a step of the executor or none.
LEMMA JobsImplement ==
    JobsInv /\ (JobStep \/ UNCHANGED jobsVars) => [Executor!ExecNext]_(Executor!execVars)
<1> SUFFICES ASSUME JobsInv, JobStep \/ UNCHANGED jobsVars
             PROVE  Executor!ExecNext \/ UNCHANGED Executor!execVars
  OBVIOUS
<1> DEFINE accepted == {s \in Request : jpc[s] # "idle"}
<1>0. JobsTypeOK /\ \A r \in Request : RecordInv(r)
  BY DEF JobsInv
<1>1. ASSUME NEW r \in Request, NEW k \in Key, Submit(r, k) PROVE Executor!ExecNext
  <2>0. PICK pruned : pruned = Prunable
    OBVIOUS
  <2>1. /\ jpc[r] = "idle" /\ jpc' = [jpc EXCEPT ![r] = "slot"]
        /\ state' = [i \in Request |-> IF i = r THEN "queued"
                                       ELSE IF i \in pruned THEN "absent" ELSE state[i]]
        /\ keyOf' = [keyOf EXCEPT ![r] = k]
        /\ open /\ open' = open
        /\ Cardinality(Recorded \ pruned) < MaxRecords
    BY <1>1, <2>0 DEF Submit, CanSubmit, Goes
  <2>2. pruned \subseteq Request /\ \A i \in pruned : state[i] \in Outcome
    BY <1>0, <2>0 DEF Prunable, JobsTypeOK
  <2>3. pruned # {} => Cardinality(Recorded) >= MaxRecords
    <3>1. Cardinality(Recorded) \in Nat
      BY FS_Subset, FS_CardinalityType, JobsAssumption DEF Recorded
    <3> QED
      BY <2>0, <3>1, JobsAssumption DEF Prunable
  <2>4. Executing' = Executing /\ accepted' = accepted \cup {r} /\ r \notin accepted
    BY <1>0, <2>1 DEF Executing, JobsTypeOK
  <2>5. pruned \in SUBSET Executor!Kept /\ Executor!Kept = Recorded
    BY <2>2 DEF Executor!Kept, Recorded, Outcome
  <2>6. Executor!Accept(r, k, pruned)
    BY <2>1, <2>2, <2>3, <2>4, <2>5, SameCardinality DEF Executor!Accept, Executor!Outcome, Outcome
  <2> QED
    BY <2>5, <2>6 DEF Executor!ExecNext
<1>2. ASSUME NEW r \in Request, Check(r), ~Ended(r) PROVE Executor!ExecNext
  BY <1>2, BeginImplements DEF Executor!ExecNext
<1>3. ASSUME NEW r \in Request, Returns(r) PROVE Executor!ExecNext
  <2>1. /\ jpc[r] = "run" /\ jpc'[r] \in {"release", "finish"}
        /\ \A s \in Request \ {r} : jpc'[s] = jpc[s]
        /\ UNCHANGED <<state, keyOf, open>>
    BY <1>0, <1>3 DEF Returns, RunReturns, Goes, records, JobsTypeOK
  <2>2. r \in Executing /\ Executing' = Executing \ {r} /\ accepted' = accepted
    BY <2>1 DEF Executing
  <2>3. Executor!End(r)
    BY <2>1, <2>2 DEF Executor!End
  <2> QED
    BY <2>3 DEF Executor!ExecNext
<1>4. ASSUME NEW r \in Request,
             \/ EndsWaitingForSlot(r) \/ FinishEnded(r) \/ Finish(r) \/ Recover(r)
             \/ Check(r) /\ Ended(r)
      PROVE  Executor!ExecNext
  <2>1. /\ jpc[r] \in {"slot", "finishEnded", "finish", "recover", "check"}
        /\ jpc'[r] \in {"done", "giveSlot", "release"}
        /\ state' = [state EXCEPT ![r] = StateOf(r)] /\ UNCHANGED <<keyOf, open>>
    BY <1>0, <1>4 DEF EndsWaitingForSlot, FinishEnded, Finish, Recover, Check, Goes, Record,
       Outside, Exits, JobsTypeOK
  <2>2. \A s \in Request \ {r} : jpc'[s] = jpc[s]
    BY <1>0, <1>4, GoroutineFrame DEF Execute
  <2>3. r \notin Executing /\ Executing' = Executing /\ accepted' = accepted
    BY <2>1, <2>2 DEF Executing
  <2>4. RecordInv(r) /\ ctx[r] \in {"live", "canceled", "timed_out"}
    BY <1>0 DEF JobsTypeOK
  <2>5. jpc[r] \in {"slot", "check", "finishEnded"} => Ended(r)
    BY <1>4, <2>4 DEF EndsWaitingForSlot, FinishEnded, Finish, Recover, Check, RecordInv, Goes
  <2>6. /\ state[r] \in Live
        /\ state[r] = "queued" => StateOf(r) \in {"canceled", "timed_out"}
        /\ StateOf(r) \in Outcome
    BY <2>1, <2>4, <2>5 DEF RecordInv, BeforeRun, StateOf, Ended, Live, Outcome
  <2>7. Executor!Settle(r, StateOf(r))
    BY <2>1, <2>3, <2>6 DEF Executor!Settle, Executor!Unfinished, Live
  <2> QED
    BY <2>6, <2>7 DEF Executor!ExecNext, Executor!Outcome, Outcome
<1>5. ASSUME NEW r \in Request,
             \/ TakeSlot(r) \/ Acquire(r) \/ TakeToken(r) \/ EndsWaitingForToken(r)
             \/ ReleaseReference(r) \/ PutBack(r) \/ Release(r) \/ ReturnToken(r) \/ GiveSlot(r)
      PROVE  UNCHANGED Executor!execVars
  <2>1. /\ jpc[r] \notin {"run", "idle"} /\ jpc'[r] \notin {"run", "idle"}
        /\ UNCHANGED <<state, keyOf, open>>
    BY <1>0, <1>5 DEF TakeSlot, Acquire, TakeToken, EndsWaitingForToken, ReleaseReference,
       PutBack, Release, ReturnToken, GiveSlot, Goes, Outside, Exits, records, JobsTypeOK
  <2>2. \A s \in Request \ {r} : jpc'[s] = jpc[s]
    BY <1>0, <1>5, GoroutineFrame DEF Execute
  <2> QED
    BY <2>1, <2>2 DEF Executor!execVars, Executing
<1>6. CASE \/ \E r \in Request : Deadline(r) \/ Cancel(r) \/ Ends(r)
           \/ UNCHANGED jobsVars
  <2>1. UNCHANGED <<state, jpc, keyOf, open>>
    BY <1>6 DEF Deadline, Cancel, Ends, EndContext, jobsVars, records, locals
  <2> QED
    BY <2>1 DEF Executor!execVars, Executing
<1>7. CASE Shut
  <2>1. open /\ open' = FALSE /\ UNCHANGED <<state, jpc, keyOf>>
    BY <1>7 DEF Shut, records, locals
  <2>2. Executing' = Executing /\ accepted' = accepted
    BY <2>1 DEF Executing
  <2> QED
    BY <2>1, <2>2 DEF Executor!ExecNext, Executor!Shut
<1> QED
  BY <1>1, <1>2, <1>3, <1>4, <1>5, <1>6, <1>7 DEF JobStep, QueueNext, Execute

\* The queue of workload jobs implements the keyed executor: at most MaxRunning jobs
\* at a time and one of a key, an outcome that stays, a record dropped for room only
\* (workloadjobs.go:43-209).
THEOREM QueueIsExecutor == JobsSpec => ImplementsExecutor
<1>1. JobsInit => Executor!ExecInit
  BY DEF JobsInit, Executor!ExecInit, Executing
<1>2. JobsInv /\ [JobStep]_jobsVars => [Executor!ExecNext]_(Executor!execVars)
  BY JobsImplement
<1>3. QueueNext \/ (\E r \in Request : \/ \E k \in Key : Submit(r, k)
                                      \/ \E s \in {"ok", "failed", "panic"} : RunReturns(r, s))
      => JobStep
  BY DEF JobStep, Returns
<1> QED
  BY <1>1, <1>2, <1>3, QueueInvariance, PTL DEF JobsSpec, ImplementsExecutor, Executor!ExecSpec

-----------------------------------------------------------------------------
(* The requests: what a step of another one leaves as it was *)

\* The variables of i, apart from those of its job.
Unmoved(i) ==
    /\ method'[i] = method[i] /\ target'[i] = target[i] /\ confirmed'[i] = confirmed[i]
    /\ dryRun'[i] = dryRun[i] /\ hpc'[i] = hpc[i] /\ read'[i] = read[i]
    /\ (i \in late') <=> (i \in late)
    /\ effects'[i] = effects[i]
    /\ dial'[i] = dial[i] /\ stopped'[i] = stopped[i] /\ pumps'[i] = pumps[i]

\* The job of i, whose record may be pruned.
JobUnmoved(i) ==
    /\ jpc'[i] = jpc[i] /\ result'[i] = result[i]
    /\ \/ state'[i] = state[i] /\ httpStatus'[i] = httpStatus[i]
       \/ state'[i] = "absent" /\ httpStatus'[i] = "none"

\* No object comes back to a version it had.
Advances == \A k \in Key : object'[k] \in {object[k], Absent, newest + 1}

LEMMA OthersKeep ==
    ASSUME WritesTypeOK, NEW i \in Request, RequestInv(i), Unmoved(i), JobUnmoved(i), Advances
    PROVE  RequestInv(i)'
<1> USE DEF RequestInv, Unmoved, JobUnmoved
<1>1. HandlerInv(i)'
  BY DEF HandlerInv
<1>2. EffectInv(i)'
  <2>1. /\ effects[i] # <<>> /\ method[i] \notin Session \cup {"run"} /\ confirmed[i] # Absent
        => object'[target[i]] # confirmed[i]
    <3> SUFFICES ASSUME effects[i] # <<>>, method[i] \notin Session \cup {"run"},
                        confirmed[i] # Absent
                 PROVE  object'[target[i]] # confirmed[i]
      OBVIOUS
    <3>1. target[i] \in Key /\ object[target[i]] # confirmed[i]
      BY DEF HandlerInv, EffectInv
    <3>2. confirmed[i] \in 0 .. newest /\ newest \in Nat
      BY JobsAssumption, VersionAssumption DEF WritesTypeOK
    <3> QED
      BY <3>1, <3>2 DEF Advances
  <2> QED
    BY <2>1 DEF EffectInv
<1>3. ReportInv(i)'
  BY DEF ReportInv, Outcome
<1>4. SessionInv(i)'
  BY DEF SessionInv, Forward, Exec
<1> QED
  BY <1>1, <1>2, <1>3, <1>4

\* Changes are counted, and told apart, as before.
LEMMA CountersKeep ==
    ASSUME HeldInv, held' = held,
           \A i \in Request : \/ method'[i] = method[i] /\ hpc'[i] = hpc[i]
                              \/ /\ method[i] \notin Session \/ hpc[i] \notin InSession \ {"slot"}
                                 /\ method'[i] \notin Session \/ hpc'[i] \notin InSession \ {"slot"}
                              \/ /\ method'[i] = method[i]
                                 /\ {hpc[i], hpc'[i]} \subseteq InSession \ {"slot"}
    PROVE  HeldInv'
<1>1. \A m \in Session : WithSlot(m)' = WithSlot(m)
  BY DEF WithSlot
<1> QED
  BY <1>1 DEF HeldInv

LEMMA VersionKeep ==
    ASSUME VersionInv, WritesTypeOK, Changers \subseteq Changers',
           newest' = newest \/ (newest < MaxVersion /\ newest' = newest + 1)
    PROVE  VersionInv'
<1>1. IsFiniteSet(Changers')
  BY FS_Subset, JobsAssumption DEF Changers
<1>2. /\ Cardinality(Changers) <= Cardinality(Changers')
      /\ Cardinality(Changers) \in Nat /\ Cardinality(Changers') \in Nat
  BY <1>1, FS_Subset, FS_CardinalityType
<1>3. newest \in Int /\ MaxVersion \in Nat
  BY VersionAssumption DEF WritesTypeOK
<1> QED
  BY <1>2, <1>3 DEF VersionInv

LEMMA OnceKeep ==
    ASSUME OnceInv,
           \A i \in Request :
               effects'[i] # <<>> =>
                   \/ method'[i] \in Session
                   \/ /\ effects[i] # <<>> /\ method'[i] = method[i]
                      /\ confirmed'[i] = confirmed[i] /\ target'[i] = target[i]
    PROVE  OnceInv'
<1> SUFFICES ASSUME NEW r \in Request, NEW s \in Request, r # s,
                    effects'[r] # <<>>, effects'[s] # <<>>,
                    {method'[r], method'[s]} \cap (Session \cup {"run"}) = {},
                    confirmed'[r] # Absent, target'[r] = target'[s]
             PROVE  confirmed'[r] # confirmed'[s]
  BY DEF OnceInv
<1> QED
  BY DEF OnceInv

\* The bounds of versions follow from their count.
LEMMA NewestTyped ==
    ASSUME VersionInv', newest' \in Nat \ {0}
    PROVE  newest' \in 1 .. MaxVersion + Cardinality(Request)
<1>1. /\ Cardinality(Changers') <= Cardinality(Request)
      /\ Cardinality(Changers') \in Nat /\ Cardinality(Request) \in Nat
  BY FS_Subset, FS_CardinalityType, JobsAssumption DEF Changers
<1> QED
  BY <1>1, VersionAssumption DEF VersionInv

\* What a job's operation, or a handler that has none, does to the jobs of others.
LEMMA ReturnKeeps ==
    ASSUME JobsTypeOK, NEW r \in Request, Returns(r) \/ UNCHANGED jobsVars
    PROVE  \A i \in Request \ {r} : JobUnmoved(i)
<1>1. CASE Returns(r)
  BY <1>1, GoroutineFrame DEF JobUnmoved
<1>2. CASE UNCHANGED jobsVars
  BY <1>2 DEF JobUnmoved, jobsVars, records, locals
<1> QED
  BY <1>1, <1>2

LEMMA SubmitKeeps ==
    ASSUME JobsTypeOK, NEW r \in Request, NEW k, Submit(r, k)
    PROVE  \A i \in Request \ {r} : JobUnmoved(i)
<1> SUFFICES ASSUME NEW i \in Request \ {r} PROVE JobUnmoved(i)
  OBVIOUS
<1>1. /\ state'[i] = IF i \in Prunable THEN "absent" ELSE state[i]
      /\ httpStatus'[i] = IF i \in Prunable THEN "none" ELSE httpStatus[i]
  BY DEF Submit
<1>2. jpc'[i] = jpc[i] /\ result'[i] = result[i]
  BY DEF Submit, Goes, JobsTypeOK
<1> QED
  BY <1>1, <1>2 DEF JobUnmoved

-----------------------------------------------------------------------------
(* The requests: steps of nobody, and steps of the queue *)

\* What has to be shown of a step, besides the queue's part.
Kept ==
    /\ WritesTypeOK /\ SessionsTypeOK
    /\ \A r \in Request : RequestInv(r)
    /\ HeldInv /\ VersionInv /\ OnceInv

LEMMA SeqOfMore == ASSUME NEW S, NEW T, S \subseteq T, NEW s \in Seq(S) PROVE s \in Seq(T)
OBVIOUS

\* Versions stay versions when there are more.
LEMMA TypesGrow ==
    ASSUME WritesTypeOK, newest' \in {newest, newest + 1}
    PROVE  /\ newest \in Nat \ {0} /\ newest' \in Nat \ {0}
           /\ object \in [Key -> 0 .. newest'] /\ confirmed \in [Request -> 0 .. newest']
           /\ read \in [Request -> 0 .. newest'] /\ effects \in [Request -> Seq(0 .. newest')]
<1>1. newest \in Nat \ {0} /\ newest' \in Nat \ {0}
  BY JobsAssumption, VersionAssumption DEF WritesTypeOK
<1>2. \A v \in 0 .. newest : v \in 0 .. newest'
  BY <1>1
<1>3. \A s \in Seq(0 .. newest) : s \in Seq(0 .. newest')
  BY <1>2, SeqOfMore
<1>4. effects \in [Request -> Seq(0 .. newest')]
  BY <1>3 DEF WritesTypeOK
<1>5. object \in [Key -> 0 .. newest'] /\ confirmed \in [Request -> 0 .. newest']
  BY <1>2 DEF WritesTypeOK
<1>6. read \in [Request -> 0 .. newest']
  BY <1>2 DEF WritesTypeOK
<1> QED
  BY <1>1, <1>4, <1>5, <1>6

\* Another client edits, recreates or deletes an object.
LEMMA EditKeeps ==
    ASSUME ManagementInv, NEW k \in Key, Edit(k), UNCHANGED sessionVars
    PROVE  Kept'
<1> USE DEF ManagementInv
<1>1. /\ UNCHANGED <<kind, method, target, confirmed, dryRun, hpc, read, late, effects>>
      /\ UNCHANGED <<held, dial, stopped, pumps>>
      /\ UNCHANGED <<jpc, result, state, httpStatus>>
  BY DEF Edit, sessionVars, jobsVars, request, records, locals
<1>2. newest < MaxVersion /\ newest \in Nat \ {0}
  BY TypesGrow DEF Edit
<1>3. \/ newest' = newest + 1 /\ object' = [object EXCEPT ![k] = newest + 1]
      \/ newest' = newest /\ object' = [object EXCEPT ![k] = Absent]
  BY DEF Edit
<1>4. /\ newest' \in {newest, newest + 1} /\ newest' \in Nat \ {0}
      /\ object' \in [Key -> 0 .. newest'] /\ Advances
  BY <1>2, <1>3 DEF Advances, Absent, WritesTypeOK
<1>5. \A i \in Request : Unmoved(i) /\ JobUnmoved(i)
  BY <1>1 DEF Unmoved, JobUnmoved
<1>6. \A i \in Request : RequestInv(i)'
  BY <1>4, <1>5, OthersKeep
<1>7. Changers' = Changers
  BY <1>1 DEF Changers
<1>8. VersionInv'
  BY <1>2, <1>4, <1>7, VersionKeep
<1>9. HeldInv'
  BY <1>1, CountersKeep
<1>10. OnceInv'
  BY <1>1, OnceKeep
<1>11. newest' \in 1 .. MaxVersion + Cardinality(Request)
  BY <1>4, <1>8, NewestTyped
<1>12. /\ confirmed' \in [Request -> 0 .. newest'] /\ read' \in [Request -> 0 .. newest']
       /\ effects' \in [Request -> Seq(0 .. newest')]
  BY <1>1, <1>4, TypesGrow
<1>13. WritesTypeOK'
  BY <1>1, <1>4, <1>11, <1>12 DEF WritesTypeOK
<1>14. SessionsTypeOK'
  BY <1>1 DEF SessionsTypeOK
<1> QED
  BY <1>6, <1>8, <1>9, <1>10, <1>13, <1>14 DEF Kept

\* A goroutine of the queue changes the record of its own job, as the operation
\* of the job has earned.
LEMMA ExecuteReports ==
    ASSUME ManagementInv, NEW r \in Request, Execute(r), UNCHANGED <<writeVars, sessionVars>>
    PROVE  RequestInv(r)'
<1>1. /\ JobsTypeOK /\ RecordInv(r) /\ HandlerInv(r) /\ EffectInv(r) /\ ReportInv(r)
      /\ SessionInv(r)
  BY DEF ManagementInv, JobsInv, RequestInv
<1>2. /\ UNCHANGED <<method, target, confirmed, dryRun, hpc, read, late, effects, object>>
      /\ UNCHANGED <<held, dial, stopped, pumps>>
  BY DEF writeVars, sessionVars, request, cluster
<1>3. jpc[r] # "idle" /\ jpc'[r] # "idle"
  BY <1>1, GoroutineFrame
<1>4. jpc'[r] \in BeforeRun \cup {"run"} => jpc[r] \in BeforeRun
  BY <1>1 DEF Execute, TakeSlot, EndsWaitingForSlot, Acquire, TakeToken, EndsWaitingForToken,
     ReleaseReference, PutBack, FinishEnded, Check, Finish, Release, ReturnToken, GiveSlot,
     Recover, Goes, JobsTypeOK, BeforeRun
<1>5. HandlerInv(r)'
  BY <1>1, <1>2, <1>3, <1>4 DEF HandlerInv
<1>6. EffectInv(r)' /\ SessionInv(r)'
  BY <1>1, <1>2 DEF EffectInv, SessionInv, Exec, Forward
<1>7. jpc'[r] # "finish"
  BY <1>1 DEF Execute, TakeSlot, EndsWaitingForSlot, Acquire, TakeToken, EndsWaitingForToken,
     ReleaseReference, PutBack, FinishEnded, Check, Finish, Release, ReturnToken, GiveSlot,
     Recover, Goes, JobsTypeOK
<1>8. /\ state'[r] = "succeeded" \/ httpStatus'[r] = "ok" => dryRun[r] \/ effects[r] # <<>>
      /\ state'[r] \in Outcome /\ httpStatus'[r] = "none" => effects[r] = <<>> /\ r \notin late
  <2>1. CASE EndsWaitingForSlot(r) \/ FinishEnded(r) \/ Check(r)
    <3>1. effects[r] = <<>> /\ r \notin late
      BY <1>1, <2>1 DEF EndsWaitingForSlot, FinishEnded, Check, Goes, HandlerInv, EffectInv,
         BeforeRun
    <3>2. httpStatus[r] = "none" /\ result[r] = "none"
      BY <1>1, <2>1 DEF EndsWaitingForSlot, FinishEnded, Check, Goes, RecordInv, BeforeRun, Live
    <3>3. httpStatus'[r] = "none" /\ state'[r] # "succeeded"
      BY <1>1, <2>1, <3>2 DEF EndsWaitingForSlot, FinishEnded, Check, Record, StateOf, Ended,
         JobsTypeOK
    <3> QED
      BY <3>1, <3>3
  <2>2. CASE Finish(r)
    <3>1. jpc[r] = "finish" /\ result[r] \in {"ok", "failed"}
      BY <1>1, <2>2 DEF Finish, Goes, RecordInv
    <3>2. httpStatus'[r] = result[r] /\ state'[r] = StateOf(r)
      BY <1>1, <2>2 DEF Finish, Record, JobsTypeOK
    <3>3. StateOf(r) = "succeeded" => result[r] = "ok"
      BY <1>1, <3>1 DEF StateOf, Ended, JobsTypeOK
    <3> QED
      BY <1>1, <3>1, <3>2, <3>3 DEF ReportInv
  <2>3. CASE Recover(r)
    <3>1. result[r] = "panic"
      BY <1>1, <2>3 DEF Recover, Goes, RecordInv
    <3>2. httpStatus'[r] = "failed" /\ state'[r] = "failed"
      BY <1>1, <2>3, <3>1 DEF Recover, Record, StateOf, JobsTypeOK
    <3> QED
      BY <3>2
  <2>4. CASE ~ (EndsWaitingForSlot(r) \/ FinishEnded(r) \/ Check(r) \/ Finish(r) \/ Recover(r))
    <3>1. UNCHANGED <<state, httpStatus>>
      BY <2>4 DEF Execute, TakeSlot, Acquire, TakeToken, EndsWaitingForToken, PutBack,
         ReleaseReference, Release, ReturnToken, GiveSlot, records
    <3> QED
      BY <1>1, <3>1 DEF ReportInv
  <2> QED
    BY <2>1, <2>2, <2>3, <2>4
<1>9. ReportInv(r)'
  BY <1>2, <1>7, <1>8 DEF ReportInv
<1> QED
  BY <1>5, <1>6, <1>9 DEF RequestInv

LEMMA QueueKeeps ==
    ASSUME ManagementInv, QueueNext \/ \E r \in Request : Ends(r),
           UNCHANGED <<writeVars, sessionVars>>
    PROVE  Kept'
<1> USE DEF ManagementInv
<1>1. /\ UNCHANGED <<kind, object, newest, late, effects>>
      /\ UNCHANGED <<method, target, confirmed, dryRun, hpc, read>>
      /\ UNCHANGED <<held, dial, stopped, pumps>>
  BY DEF writeVars, sessionVars, request, cluster
<1>2. Advances /\ \A i \in Request : Unmoved(i)
  BY <1>1 DEF Advances, Unmoved
<1>3. ASSUME NEW r \in Request, Execute(r), NEW i \in Request PROVE RequestInv(i)'
  <2>1. CASE i = r
    BY <1>3, <2>1, ExecuteReports
  <2>2. CASE i # r
    <3>1. JobUnmoved(i)
      BY <1>3, <2>2, GoroutineFrame DEF JobsInv, JobUnmoved
    <3> QED
      BY <1>2, <3>1, OthersKeep
  <2> QED
    BY <2>1, <2>2
<1>4. ASSUME \/ \E r \in Request : Deadline(r) \/ Cancel(r) \/ Ends(r)
             \/ Shut,
             NEW i \in Request
      PROVE  RequestInv(i)'
  <2>1. JobUnmoved(i)
    BY <1>4, ContextFrame DEF JobsInv, JobUnmoved, records, locals
  <2> QED
    BY <1>2, <2>1, OthersKeep
<1>5. \A i \in Request : RequestInv(i)'
  BY <1>3, <1>4 DEF QueueNext
<1>6. HeldInv'
  BY <1>1, CountersKeep
<1>7. VersionInv' /\ OnceInv'
  BY <1>1 DEF VersionInv, OnceInv, Changers
<1>8. WritesTypeOK' /\ SessionsTypeOK'
  BY <1>1 DEF WritesTypeOK, SessionsTypeOK
<1> QED
  BY <1>5, <1>6, <1>7, <1>8 DEF Kept

-----------------------------------------------------------------------------
(* The requests: they arrive, and are handled *)

\* A request arrives: nothing has been done for it yet.
LEMMA ArriveKeeps ==
    ASSUME ManagementInv, UNCHANGED sessionVars, JobsInv',
           NEW r \in Request, NEW k \in Key, NEW m \in Method, NEW c \in 0 .. newest,
           NEW d \in BOOLEAN, ArriveAtOnce(r, k, m, c, d) \/ ArriveAsJob(r, k, m, c, d)
    PROVE  Kept'
<1>1. /\ hpc[r] = "idle" /\ m \in Methods[kind[k]]
      /\ method' = [method EXCEPT ![r] = m] /\ target' = [target EXCEPT ![r] = k]
      /\ confirmed' = [confirmed EXCEPT ![r] = c] /\ dryRun' = [dryRun EXCEPT ![r] = d]
      /\ UNCHANGED <<kind, object, newest, late, effects, read>>
      /\ UNCHANGED <<held, dial, stopped, pumps>>
  BY DEF ArriveAtOnce, ArriveAsJob, Asks, Newcomer, cluster, sessionVars
<1>2. /\ WritesTypeOK /\ SessionsTypeOK /\ JobsTypeOK /\ RequestInv(r) /\ RecordInv(r)
  BY DEF ManagementInv, JobsInv
<1>3. /\ method[r] = "none" /\ jpc[r] = "idle" /\ effects[r] = <<>> /\ r \notin late
      /\ dial[r] = "none" /\ pumps[r] = {}
  BY <1>1, <1>2 DEF RequestInv, HandlerInv, EffectInv, SessionInv, AsJob, Session
<1>4. /\ \E p \in {"read", "write", "answered"} : hpc' = [hpc EXCEPT ![r] = p]
      /\ hpc'[r] # "answered" => hpc'[r] = First(m)
      /\ hpc'[r] = "answered" => m \in AsJob
      /\ jpc'[r] # "idle" => m \in AsJob /\ hpc'[r] # "answered"
  <2>1. \/ hpc' = [hpc EXCEPT ![r] = First(m)] /\ (UNCHANGED jpc \/ m \in AsJob)
        \/ hpc' = [hpc EXCEPT ![r] = "answered"] /\ UNCHANGED jpc /\ m \in AsJob
    BY DEF ArriveAtOnce, ArriveAsJob, Moves, jobsVars
  <2>2. First(m) \in {"read", "write"}
    BY DEF First
  <2>3. \/ hpc'[r] = First(m) /\ (UNCHANGED jpc \/ m \in AsJob)
        \/ hpc'[r] = "answered" /\ UNCHANGED jpc /\ m \in AsJob
    BY <1>2, <2>1 DEF WritesTypeOK
  <2> QED
    BY <1>3, <2>1, <2>2, <2>3
<1>5. \A i \in Request \ {r} : Unmoved(i) /\ JobUnmoved(i)
  <2>1. \A i \in Request \ {r} : JobUnmoved(i)
    BY <1>2, ReturnKeeps, SubmitKeeps DEF ArriveAtOnce, ArriveAsJob
  <2>2. \A i \in Request \ {r} : Unmoved(i)
    BY <1>1, <1>2, <1>4 DEF Unmoved, WritesTypeOK
  <2> QED
    BY <2>1, <2>2
<1>6. Advances /\ newest' \in {newest, newest + 1}
  BY <1>1 DEF Advances
<1>7. /\ method'[r] = m /\ target'[r] = k /\ confirmed'[r] = c /\ dryRun'[r] = d
      /\ hpc'[r] \in {"read", "write", "answered"}
  BY <1>1, <1>2, <1>4 DEF WritesTypeOK
<1>8. m \in Method /\ m # "none"
  BY DEF Method, Methods
<1>9. RequestInv(r)'
  <2>1. HandlerInv(r)'
    BY <1>3, <1>4, <1>7, <1>8 DEF HandlerInv, First, Reading, Session, AsJob, InSession, BeforeRun
  <2>2. EffectInv(r)'
    BY <1>1, <1>3, <1>4, <1>7 DEF EffectInv, First
  <2>3. ReportInv(r)'
    <3>1. jpc'[r] \in {"idle", "slot"}
      BY <1>2, <1>3 DEF ArriveAtOnce, ArriveAsJob, Submit, Goes, JobsTypeOK, jobsVars
    <3>2. RecordInv(r)'
      BY DEF JobsInv
    <3> QED
      BY <3>1, <3>2 DEF ReportInv, RecordInv, BeforeRun, Live, Outcome
  <2>4. SessionInv(r)'
    BY <1>1, <1>3, <1>7 DEF SessionInv, Exec, Forward, InSession
  <2> QED
    BY <2>1, <2>2, <2>3, <2>4 DEF RequestInv
<1>10. \A i \in Request : RequestInv(i)'
  BY <1>2, <1>5, <1>6, <1>9, OthersKeep DEF ManagementInv
<1>11. HeldInv'
  <2>1. hpc[r] \notin InSession /\ hpc'[r] \notin InSession
    BY <1>1, <1>7 DEF InSession
  <2>2. \A i \in Request \ {r} : method'[i] = method[i] /\ hpc'[i] = hpc[i]
    BY <1>5 DEF Unmoved
  <2> QED
    BY <1>1, <2>1, <2>2, CountersKeep DEF ManagementInv
<1>12. VersionInv' /\ OnceInv'
  <2>1. Changers' = Changers
    BY <1>1 DEF Changers
  <2>2. \A i \in Request : effects'[i] # <<>> => i # r /\ effects[i] # <<>>
    BY <1>1, <1>3
  <2>3. \A i \in Request \ {r} :
            method'[i] = method[i] /\ confirmed'[i] = confirmed[i] /\ target'[i] = target[i]
    BY <1>5 DEF Unmoved
  <2> QED
    BY <1>1, <2>1, <2>2, <2>3, OnceKeep DEF VersionInv, ManagementInv
<1>13. WritesTypeOK' /\ SessionsTypeOK'
  BY <1>1, <1>2, <1>4, <1>8 DEF WritesTypeOK, SessionsTypeOK
<1> QED
  BY <1>10, <1>11, <1>12, <1>13 DEF Kept

\* What is left to show of a step of r that leaves the others alone.
LEMMA OwnStep ==
    ASSUME ManagementInv, NEW r \in Request, RequestInv(r)', Advances,
           newest' \in {newest, newest + 1},
           \A i \in Request \ {r} : Unmoved(i) /\ JobUnmoved(i)
    PROVE  \A i \in Request : RequestInv(i)'
BY OthersKeep DEF ManagementInv

\* The handler of r answers, or its job returns: the record of the job is written
\* later.
LEMMA ReturnReports ==
    ASSUME JobsInv, JobsInv', NEW r \in Request, NEW status \in {"ok", "failed", "panic"},
           Return(r, status), jpc[r] \in {"idle", "run"}, HandlerInv(r), ReportInv(r),
           status = "ok" /\ jpc[r] = "run" => dryRun'[r] \/ effects'[r] # <<>>,
           method' = method, target' = target, WritesTypeOK, hpc[r] \in {"read", "write"}
    PROVE  /\ HandlerInv(r)' /\ ReportInv(r)' /\ hpc'[r] = "answered"
           /\ \A i \in Request \ {r} : JobUnmoved(i) /\ hpc'[i] = hpc[i]
           /\ Returns(r) \/ UNCHANGED jobsVars
           /\ hpc' = [hpc EXCEPT ![r] = "answered"]
<1>1. hpc' = [hpc EXCEPT ![r] = "answered"] /\ (Returns(r) \/ UNCHANGED jobsVars)
  BY DEF Return, Moves, Returns
<1>2. hpc'[r] = "answered" /\ \A i \in Request \ {r} : JobUnmoved(i) /\ hpc'[i] = hpc[i]
  BY <1>1, ReturnKeeps DEF JobsInv, WritesTypeOK
<1>3. CASE jpc[r] = "run"
  <2>1. /\ jpc'[r] \in {"finish", "release"} /\ result'[r] = status
        /\ state'[r] = state[r] /\ httpStatus'[r] = httpStatus[r]
        /\ jpc'[r] = "finish" => status # "panic"
    BY <1>3 DEF Return, RunReturns, Goes, records, JobsInv, JobsTypeOK
  <2>2. state[r] = "running" /\ httpStatus[r] = "none"
    BY <1>3 DEF JobsInv, RecordInv, Live
  <2>3. HandlerInv(r)'
    BY <1>2, <1>3, <2>1 DEF HandlerInv, BeforeRun, InSession, Session, AsJob
  <2>4. ReportInv(r)'
    BY <1>3, <2>1, <2>2 DEF ReportInv, Outcome
  <2> QED
    BY <1>1, <1>2, <2>3, <2>4
<1>4. CASE jpc[r] = "idle"
  <2>1. UNCHANGED jobsVars
    BY <1>4 DEF Return
  <2>2. /\ jpc'[r] = "idle" /\ state'[r] = "absent" /\ httpStatus'[r] = "none"
    BY <1>4, <2>1 DEF JobsInv, RecordInv, jobsVars, records, Live
  <2>3. HandlerInv(r)'
    BY <1>2, <1>4, <2>2 DEF HandlerInv, BeforeRun, InSession, Session
  <2>4. ReportInv(r)'
    BY <2>2 DEF ReportInv, Outcome
  <2> QED
    BY <1>1, <1>2, <2>1, <2>3, <2>4
<1> QED
  BY <1>3, <1>4

\* The answer without a write: the read or the comparison failed, the call did, the
\* handler panicked, or a dry run ended in the agent.
LEMMA AnswerKeeps ==
    ASSUME ManagementInv, JobsInv', UNCHANGED sessionVars, NEW r \in Request,
           NEW status \in {"ok", "failed", "panic"}, At(r, "read") \/ At(r, "write"),
           Return(r, status), UNCHANGED <<kind, cluster, request>>,
           status = "ok" => jpc[r] = "idle",
           NEW v \in 0 .. newest, read' = read \/ read' = [read EXCEPT ![r] = v]
    PROVE  Kept'
<1>1. /\ UNCHANGED <<kind, object, newest, late, effects, method, target, confirmed, dryRun>>
      /\ UNCHANGED <<held, dial, stopped, pumps>>
  BY DEF cluster, request, sessionVars
<1>2. /\ WritesTypeOK /\ SessionsTypeOK /\ JobsInv /\ RequestInv(r)
      /\ hpc[r] \in {"read", "write"} /\ jpc[r] \in {"idle", "run"}
  BY DEF ManagementInv, At
<1>3. /\ HandlerInv(r)' /\ ReportInv(r)' /\ hpc'[r] = "answered"
      /\ \A i \in Request \ {r} : JobUnmoved(i) /\ hpc'[i] = hpc[i]
      /\ hpc' = [hpc EXCEPT ![r] = "answered"]
  BY <1>1, <1>2, ReturnReports DEF RequestInv
<1>4. EffectInv(r)'
  BY <1>1, <1>2, <1>3 DEF RequestInv, EffectInv
<1>5. SessionInv(r)'
  <2>1. dial[r] = "none" /\ pumps[r] = {}
    BY <1>2 DEF RequestInv, HandlerInv, SessionInv
  <2> QED
    BY <1>1, <1>3, <2>1 DEF SessionInv, Exec, Forward, InSession
<1>6. \A i \in Request \ {r} : Unmoved(i) /\ JobUnmoved(i)
  BY <1>1, <1>2, <1>3 DEF Unmoved, WritesTypeOK
<1>7. Advances
  BY <1>1 DEF Advances
<1>8. \A i \in Request : RequestInv(i)'
  BY <1>1, <1>3, <1>4, <1>5, <1>6, <1>7, OwnStep DEF RequestInv
<1>9. HeldInv'
  BY <1>1, <1>2, <1>3, CountersKeep DEF ManagementInv, InSession
<1>10. VersionInv' /\ OnceInv'
  BY <1>1 DEF ManagementInv, VersionInv, OnceInv, Changers
<1>11. WritesTypeOK' /\ SessionsTypeOK'
  <2>1. read' \in [Request -> 0 .. newest]
    BY <1>2 DEF WritesTypeOK
  <2>2. hpc' \in [Request -> {"idle", "read", "write", "slot", "dial", "connect", "upgrade",
                              "pump", "closing", "leave", "answered"}]
    BY <1>2, <1>3 DEF WritesTypeOK
  <2> QED
    BY <1>1, <1>2, <2>1, <2>2 DEF WritesTypeOK, SessionsTypeOK
<1> QED
  BY <1>8, <1>9, <1>10, <1>11 DEF Kept

\* The handler has read the version that was confirmed, and goes on.
LEMMA GoOnKeeps ==
    ASSUME ManagementInv, UNCHANGED <<jobsVars, sessionVars>>, NEW r \in Request,
           At(r, "read"), Sees(r), object[target[r]] = confirmed[r],
           NEW next \in {"write", "slot"}, Moves(r, next),
           next = "slot" <=> method[r] \in Session
    PROVE  Kept'
<1>1. /\ UNCHANGED <<kind, object, newest, late, effects, method, target, confirmed, dryRun>>
      /\ UNCHANGED <<held, dial, stopped, pumps>>
      /\ UNCHANGED <<jpc, result, state, httpStatus>>
      /\ read' = [read EXCEPT ![r] = object[target[r]]]
      /\ hpc' = [hpc EXCEPT ![r] = next]
  BY DEF cluster, request, sessionVars, jobsVars, records, locals, Sees, Moves
<1>2. /\ WritesTypeOK /\ SessionsTypeOK /\ RequestInv(r)
      /\ hpc[r] = "read" /\ jpc[r] \in {"idle", "run"}
  BY DEF ManagementInv, At
<1>3. hpc'[r] = next /\ read'[r] = confirmed[r] /\ confirmed[r] \in 0 .. newest
  BY <1>1, <1>2 DEF WritesTypeOK
<1>4. HandlerInv(r)'
  <2>1. HandlerInv(r)
    BY <1>2 DEF RequestInv
  <2>2. CASE next = "slot"
    <3>1. method[r] \in Session /\ jpc[r] = "idle"
      BY <2>1, <2>2 DEF HandlerInv, Session, AsJob
    <3> QED
      BY <1>1, <1>2, <1>3, <2>1, <2>2, <3>1 DEF HandlerInv, InSession, BeforeRun
  <2>3. CASE next = "write"
    <3>1. method[r] \notin Session
      BY <2>3
    <3> QED
      BY <1>1, <1>2, <1>3, <2>1, <2>3, <3>1 DEF HandlerInv, InSession, BeforeRun
  <2> QED
    BY <2>2, <2>3
<1>5. EffectInv(r)'
  BY <1>1, <1>2, <1>3 DEF RequestInv, EffectInv
<1>6. ReportInv(r)'
  BY <1>1, <1>2 DEF RequestInv, ReportInv
<1>7. SessionInv(r)'
  BY <1>1, <1>2, <1>3 DEF RequestInv, SessionInv, Exec, Forward, InSession
<1>8. \A i \in Request \ {r} : Unmoved(i) /\ JobUnmoved(i)
  BY <1>1, <1>2 DEF Unmoved, JobUnmoved, WritesTypeOK
<1>9. Advances
  BY <1>1 DEF Advances
<1>10. \A i \in Request : RequestInv(i)'
  BY <1>1, <1>4, <1>5, <1>6, <1>7, <1>8, <1>9, OwnStep DEF RequestInv
<1>11. HeldInv'
  <2>1. hpc[r] \notin InSession \ {"slot"} /\ hpc'[r] \notin InSession \ {"slot"}
    BY <1>2, <1>3 DEF InSession
  <2>2. \A i \in Request \ {r} : hpc'[i] = hpc[i]
    BY <1>8 DEF Unmoved
  <2> QED
    BY <1>1, <2>1, <2>2, CountersKeep DEF ManagementInv
<1>12. VersionInv' /\ OnceInv'
  BY <1>1 DEF ManagementInv, VersionInv, OnceInv, Changers
<1>13. WritesTypeOK' /\ SessionsTypeOK'
  <2>1. object[target[r]] \in 0 .. newest
    BY <1>3
  <2>2. read' \in [Request -> 0 .. newest]
    BY <1>1, <1>2, <2>1 DEF WritesTypeOK
  <2> QED
    BY <1>1, <1>2, <2>2 DEF WritesTypeOK, SessionsTypeOK
<1> QED
  BY <1>10, <1>11, <1>12, <1>13 DEF Kept

LEMMA ReadsKeep ==
    ASSUME ManagementInv, JobsInv', UNCHANGED sessionVars, NEW r \in Request, Reads(r)
    PROVE  Kept'
<1>1. /\ At(r, "read") /\ Sees(r) /\ WritesTypeOK /\ HandlerInv(r)
  BY DEF ManagementInv, RequestInv, Reads, ScaleReads, CronJobReads, ReplaceReads, ExecReads,
     ForwardReads, ReadsFirst
<1>2. object[target[r]] \in 0 .. newest
  BY <1>1 DEF At, HandlerInv, WritesTypeOK
<1>3. \/ /\ object[target[r]] = confirmed[r] /\ UNCHANGED jobsVars
         /\ \/ Moves(r, "write") /\ method[r] \in {"scale", "run", "replace"}
            \/ Moves(r, "slot") /\ method[r] \in Session
      \/ Return(r, "failed")
      \/ Return(r, "ok") /\ method[r] = "replace"
  BY DEF Reads, ScaleReads, CronJobReads, ReplaceReads, ExecReads, ForwardReads, ReadsFirst,
     Session
<1>4. CASE object[target[r]] = confirmed[r] /\ UNCHANGED jobsVars
           /\ Moves(r, "write") /\ method[r] \in {"scale", "run", "replace"}
  <2>1. "write" = "slot" <=> method[r] \in Session
    BY <1>4 DEF Session
  <2> QED
    BY <1>1, <1>4, <2>1, GoOnKeeps
<1>5. CASE object[target[r]] = confirmed[r] /\ UNCHANGED jobsVars
           /\ Moves(r, "slot") /\ method[r] \in Session
  BY <1>1, <1>5, GoOnKeeps
<1>6. CASE Return(r, "failed")
  BY <1>1, <1>2, <1>6, AnswerKeeps DEF Sees
<1>7. CASE Return(r, "ok") /\ method[r] = "replace"
  <2>1. jpc[r] = "idle"
    BY <1>1, <1>7 DEF HandlerInv, AsJob
  <2> QED
    BY <1>1, <1>2, <1>7, <2>1, AnswerKeeps DEF Sees
<1> QED
  BY <1>3, <1>4, <1>5, <1>6, <1>7

LEMMA FailuresKeep ==
    ASSUME ManagementInv, JobsInv', UNCHANGED sessionVars, NEW r \in Request,
           CallFails(r) \/ RunPanics(r)
    PROVE  Kept'
<1>1. /\ At(r, "read") \/ At(r, "write")
      /\ \E status \in {"failed", "panic"} : Return(r, status)
      /\ UNCHANGED <<kind, cluster, request>> /\ read' = read
  BY DEF CallFails, RunPanics
<1>2. 0 \in 0 .. newest
  BY JobsAssumption, VersionAssumption DEF ManagementInv, WritesTypeOK
<1> QED
  BY <1>1, <1>2, AnswerKeeps

\* What an accepted write does: it changes the version that was confirmed, to a
\* new one or to none.
LEMMA ChangeDoes ==
    ASSUME ManagementInv, NEW r \in Request, Accepted(r), Change(r), UNCHANGED request,
           effects[r] = <<>>, hpc[r] # "idle", method[r] \notin Session,
           method[r] \in Reading => read[r] = confirmed[r]
    PROVE  /\ newest' \in {newest, newest + 1} /\ newest' \in Nat \ {0}
           /\ Advances /\ object' \in [Key -> 0 .. newest']
           /\ effects' = IF dryRun[r] THEN effects ELSE [effects EXCEPT ![r] = <<confirmed[r]>>]
           /\ effects' \in [Request -> Seq(0 .. newest')]
           /\ ~dryRun[r] /\ method[r] # "run" /\ confirmed[r] # Absent
              => object'[target[r]] # confirmed[r]
           /\ VersionInv' /\ OnceInv'
<1>1. /\ WritesTypeOK /\ target[r] \in Key /\ confirmed[r] \in 0 .. newest /\ newest \in Nat \ {0}
      /\ UNCHANGED <<method, target, confirmed, dryRun>>
  BY JobsAssumption, VersionAssumption
     DEF ManagementInv, RequestInv, HandlerInv, WritesTypeOK, request
<1>2. IF method[r] = "run" THEN read[r] = confirmed[r] ELSE object[target[r]] = confirmed[r]
  BY DEF Accepted, Condition, Reading
<1>3. effects' = IF dryRun[r] THEN effects ELSE [effects EXCEPT ![r] = <<confirmed[r]>>]
  <2>1. Append(effects[r], confirmed[r]) = <<confirmed[r]>>
    <3>1. Append(<<>>, confirmed[r]) = <<confirmed[r]>>
      OBVIOUS
    <3> QED
      BY <3>1
  <2> QED
    BY <1>2, <2>1 DEF Change
<1>4. \/ UNCHANGED <<object, newest>> /\ (dryRun[r] \/ method[r] = "run")
      \/ object' = [object EXCEPT ![target[r]] = Absent] /\ newest' = newest /\ ~dryRun[r]
      \/ object' = [object EXCEPT ![target[r]] = newest + 1] /\ newest' = newest + 1 /\ ~dryRun[r]
  BY DEF Change
<1>5. newest' \in {newest, newest + 1} /\ newest' \in Nat \ {0}
  BY <1>1, <1>4
<1>6. Advances
  BY <1>1, <1>4 DEF Advances, WritesTypeOK
<1>7. object' \in [Key -> 0 .. newest']
  BY <1>1, <1>4, <1>5, TypesGrow DEF Absent
<1>8. ~dryRun[r] /\ method[r] # "run" /\ confirmed[r] # Absent => object'[target[r]] # confirmed[r]
  BY <1>1, <1>4 DEF WritesTypeOK
<1>9. effects' \in [Request -> Seq(0 .. newest')]
  <2>1. effects \in [Request -> Seq(0 .. newest')] /\ confirmed[r] \in 0 .. newest'
    BY <1>1, <1>5, TypesGrow
  <2>2. <<confirmed[r]>> \in Seq(0 .. newest')
    BY <2>1
  <2> QED
    BY <1>3, <2>1, <2>2
<1>10. \A i \in Request \ {r} : effects'[i] = effects[i]
  BY <1>1, <1>3 DEF WritesTypeOK
<1>11. VersionInv'
  <2>1. CASE dryRun[r]
    BY <1>3, <1>4, <2>1 DEF ManagementInv, VersionInv, Changers
  <2>2. CASE ~dryRun[r]
    <3>1. effects'[r] # <<>>
      BY <1>1, <1>3, <2>2 DEF WritesTypeOK
    <3>2. r \notin Changers /\ Changers' = Changers \cup {r}
      BY <1>10, <3>1 DEF Changers
    <3>3. IsFiniteSet(Changers)
      BY FS_Subset, JobsAssumption DEF Changers
    <3>4. Cardinality(Changers') = Cardinality(Changers) + 1 /\ Cardinality(Changers) \in Nat
      BY <3>2, <3>3, FS_AddElement, FS_CardinalityType
    <3> QED
      BY <1>1, <1>5, <3>4, VersionAssumption DEF ManagementInv, VersionInv
  <2> QED
    BY <2>1, <2>2
<1>12. OnceInv'
  <2>1. ASSUME NEW s \in Request \ {r}, effects[s] # <<>>, ~dryRun[r],
               {method[r], method[s]} \cap (Session \cup {"run"}) = {},
               target[s] = target[r], confirmed[s] # Absent
        PROVE  confirmed[s] # confirmed[r]
    <3>1. object[target[s]] # confirmed[s]
      BY <2>1 DEF ManagementInv, RequestInv, EffectInv
    <3> QED
      BY <1>2, <2>1, <3>1
  <2>2. dryRun[r] => effects'[r] = <<>>
    BY <1>3
  <2> SUFFICES ASSUME NEW a \in Request, NEW b \in Request, a # b,
                      effects'[a] # <<>>, effects'[b] # <<>>,
                      {method[a], method[b]} \cap (Session \cup {"run"}) = {},
                      confirmed[a] # Absent, target[a] = target[b]
               PROVE  confirmed[a] # confirmed[b]
    BY <1>1 DEF OnceInv
  <2>3. CASE a = r
    BY <1>10, <2>1, <2>2, <2>3
  <2>4. CASE b = r
    BY <1>10, <2>1, <2>2, <2>4
  <2>5. CASE a # r /\ b # r
    BY <1>10, <2>5 DEF ManagementInv, OnceInv
  <2> QED
    BY <2>3, <2>4, <2>5
<1> QED
  BY <1>3, <1>5, <1>6, <1>7, <1>8, <1>9, <1>11, <1>12

\* What follows for the cluster once the changed version is not the confirmed one.
LEMMA ChangeKeepsEffect ==
    ASSUME ManagementInv, NEW r \in Request, Accepted(r), Change(r), UNCHANGED request,
           hpc[r] # "idle", UNCHANGED <<read, dial>>, effects[r] = <<>>, method[r] \notin Session,
           method[r] \in Reading => read[r] = confirmed[r],
           hpc'[r] = "answered", r \notin late'
    PROVE  EffectInv(r)'
<1>1. /\ UNCHANGED <<method, target, confirmed, dryRun>>
      /\ effects' = IF dryRun[r] THEN effects ELSE [effects EXCEPT ![r] = <<confirmed[r]>>]
      /\ ~dryRun[r] /\ method[r] # "run" /\ confirmed[r] # Absent
         => object'[target[r]] # confirmed[r]
  BY ChangeDoes DEF request
<1>2. effects'[r] = IF dryRun[r] THEN <<>> ELSE <<confirmed[r]>>
  BY <1>1 DEF ManagementInv, WritesTypeOK
<1>3. CASE dryRun[r]
  BY <1>1, <1>2, <1>3 DEF EffectInv
<1>4. CASE ~dryRun[r]
  <2>1. /\ effects'[r] = <<confirmed[r]>> /\ Len(effects'[r]) = 1
        /\ \A n \in DOMAIN effects'[r] : effects'[r][n] = confirmed[r]
    BY <1>2, <1>4
  <2>2. method'[r] = method[r] /\ target'[r] = target[r] /\ confirmed'[r] = confirmed[r]
    BY <1>1
  <2> QED
    BY <1>1, <1>4, <2>1, <2>2 DEF EffectInv
<1> QED
  BY <1>3, <1>4

\* A write is answered, refused, or given up on while it may still land.
LEMMA WritesKeep ==
    ASSUME ManagementInv, JobsInv', UNCHANGED sessionVars, NEW r \in Request, Writes(r)
    PROVE  Kept'
<1>1. /\ UNCHANGED <<kind, method, target, confirmed, dryRun, read>>
      /\ UNCHANGED <<held, dial, stopped, pumps>> /\ UNCHANGED request
      /\ hpc[r] = "write" /\ jpc[r] \in {"idle", "run"}
  BY DEF Writes, At, sessionVars, request
<1>2. /\ WritesTypeOK /\ SessionsTypeOK /\ JobsInv
      /\ HandlerInv(r) /\ EffectInv(r) /\ ReportInv(r) /\ SessionInv(r)
  BY DEF ManagementInv, RequestInv
<1>3. /\ effects[r] = <<>> /\ r \notin late /\ method[r] \notin Session
      /\ method[r] \in Reading => read[r] = confirmed[r]
  BY <1>1, <1>2 DEF HandlerInv, EffectInv
<1>4. PICK status \in {"ok", "failed", "panic"} :
          /\ Return(r, status)
          /\ \/ Accepted(r) /\ Change(r) /\ UNCHANGED late
             \/ status = "failed" /\ UNCHANGED cluster
             \/ status = "failed" /\ late' = late \cup {r} /\ UNCHANGED <<object, newest, effects>>
  BY DEF Writes
<1>5. /\ newest' \in {newest, newest + 1} /\ newest' \in Nat \ {0} /\ Advances
      /\ object' \in [Key -> 0 .. newest'] /\ effects' \in [Request -> Seq(0 .. newest')]
      /\ VersionInv' /\ OnceInv' /\ late' \subseteq Request
      /\ \A i \in Request \ {r} : effects'[i] = effects[i] /\ ((i \in late') <=> (i \in late))
      /\ status = "ok" => dryRun'[r] \/ effects'[r] # <<>>
  <2>1. CASE Accepted(r) /\ Change(r) /\ UNCHANGED late
    <3>1. /\ newest' \in {newest, newest + 1} /\ newest' \in Nat \ {0} /\ Advances
          /\ object' \in [Key -> 0 .. newest'] /\ effects' \in [Request -> Seq(0 .. newest')]
          /\ VersionInv' /\ OnceInv'
          /\ effects' = IF dryRun[r] THEN effects ELSE [effects EXCEPT ![r] = <<confirmed[r]>>]
      BY <1>1, <1>3, <2>1, ChangeDoes
    <3>2. \A i \in Request \ {r} : effects'[i] = effects[i]
      BY <1>2, <3>1 DEF WritesTypeOK
    <3>3. dryRun'[r] \/ effects'[r] # <<>>
      BY <1>1, <1>2, <3>1 DEF WritesTypeOK
    <3> QED
      BY <1>2, <2>1, <3>1, <3>2, <3>3 DEF WritesTypeOK
  <2>2. CASE /\ status = "failed" /\ UNCHANGED <<object, newest, effects>>
             /\ late' \in {late, late \cup {r}}
    <3>1. VersionInv' /\ OnceInv'
      BY <1>1, <2>2 DEF ManagementInv, VersionInv, OnceInv, Changers
    <3>2. newest \in Nat \ {0}
      BY <1>2, JobsAssumption, VersionAssumption DEF WritesTypeOK
    <3> QED
      BY <1>2, <2>2, <3>1, <3>2 DEF WritesTypeOK, Advances
  <2> QED
    BY <1>4, <2>1, <2>2 DEF cluster
<1>6. /\ HandlerInv(r)' /\ ReportInv(r)' /\ hpc'[r] = "answered"
      /\ \A i \in Request \ {r} : JobUnmoved(i) /\ hpc'[i] = hpc[i]
      /\ hpc' = [hpc EXCEPT ![r] = "answered"]
  BY <1>1, <1>2, <1>4, <1>5, ReturnReports
<1>7. EffectInv(r)'
  <2>1. CASE Accepted(r) /\ Change(r) /\ UNCHANGED late
    BY <1>1, <1>3, <1>6, <2>1, ChangeKeepsEffect
  <2>2. CASE UNCHANGED <<object, newest, effects>>
    BY <1>1, <1>2, <1>3, <1>6, <2>2 DEF EffectInv
  <2> QED
    BY <1>4, <2>1, <2>2 DEF cluster
<1>8. SessionInv(r)'
  <2>1. dial[r] = "none" /\ pumps[r] = {}
    BY <1>1, <1>2, <1>3 DEF SessionInv
  <2> QED
    BY <1>1, <1>6, <2>1 DEF SessionInv, Exec, Forward, InSession
<1>9. \A i \in Request \ {r} : Unmoved(i) /\ JobUnmoved(i)
  BY <1>1, <1>5, <1>6 DEF Unmoved
<1>10. \A i \in Request : RequestInv(i)'
  BY <1>5, <1>6, <1>7, <1>8, <1>9, OwnStep DEF RequestInv
<1>11. HeldInv'
  BY <1>1, <1>6, CountersKeep DEF ManagementInv, InSession
<1>12. WritesTypeOK' /\ SessionsTypeOK'
  <2>1. newest' \in 1 .. MaxVersion + Cardinality(Request)
    BY <1>5, NewestTyped
  <2>2. hpc' \in [Request -> {"idle", "read", "write", "slot", "dial", "connect", "upgrade",
                              "pump", "closing", "leave", "answered"}]
    BY <1>2, <1>6 DEF WritesTypeOK
  <2>3. confirmed' \in [Request -> 0 .. newest'] /\ read' \in [Request -> 0 .. newest']
    BY <1>1, <1>2, <1>5, TypesGrow
  <2>4. SessionsTypeOK'
    BY <1>1, <1>2 DEF SessionsTypeOK
  <2> QED
    BY <1>1, <1>2, <1>5, <2>1, <2>2, <2>3, <2>4 DEF WritesTypeOK
<1> QED
  BY <1>5, <1>10, <1>11, <1>12 DEF Kept

\* A write nobody waits for lands after all, or is refused.
LEMMA LandsKeep ==
    ASSUME ManagementInv, UNCHANGED sessionVars, NEW r \in Request, LandsLate(r)
    PROVE  Kept'
<1>1. /\ UNCHANGED <<kind, method, target, confirmed, dryRun, hpc, read>>
      /\ UNCHANGED <<held, dial, stopped, pumps>> /\ UNCHANGED request
      /\ UNCHANGED <<jpc, result, state, httpStatus>>
      /\ r \in late /\ late' = late \ {r}
  BY DEF LandsLate, sessionVars, request, jobsVars, records, locals
<1>2. /\ WritesTypeOK /\ SessionsTypeOK
      /\ HandlerInv(r) /\ EffectInv(r) /\ ReportInv(r) /\ SessionInv(r)
  BY DEF ManagementInv, RequestInv
<1>3. /\ effects[r] = <<>> /\ method[r] \notin Session /\ hpc[r] = "answered"
      /\ method[r] \in Reading => read[r] = confirmed[r]
  BY <1>1, <1>2 DEF HandlerInv, EffectInv, WritesTypeOK, InSession
<1>4. CASE Accepted(r) /\ Change(r)
  <2>1. /\ newest' \in {newest, newest + 1} /\ newest' \in Nat \ {0} /\ Advances
        /\ object' \in [Key -> 0 .. newest'] /\ effects' \in [Request -> Seq(0 .. newest')]
        /\ VersionInv' /\ OnceInv'
        /\ effects' = IF dryRun[r] THEN effects ELSE [effects EXCEPT ![r] = <<confirmed[r]>>]
    BY <1>1, <1>3, <1>4, ChangeDoes
  <2>2. \A i \in Request \ {r} : effects'[i] = effects[i]
    BY <1>2, <2>1 DEF WritesTypeOK
  <2>3. EffectInv(r)'
    BY <1>1, <1>3, <1>4, ChangeKeepsEffect
  <2>4. ReportInv(r)'
    <3>1. ~ (state[r] \in Outcome /\ httpStatus[r] = "none")
      BY <1>1, <1>2 DEF ReportInv
    <3> QED
      BY <1>1, <1>2, <1>3, <3>1 DEF ReportInv
  <2>5. HandlerInv(r)' /\ SessionInv(r)'
    BY <1>1, <1>2 DEF HandlerInv, SessionInv, Exec, Forward
  <2>6. \A i \in Request \ {r} : Unmoved(i) /\ JobUnmoved(i)
    BY <1>1, <2>2 DEF Unmoved, JobUnmoved
  <2>7. \A i \in Request : RequestInv(i)'
    BY <2>1, <2>3, <2>4, <2>5, <2>6, OwnStep DEF RequestInv
  <2>8. HeldInv'
    BY <1>1, CountersKeep DEF ManagementInv
  <2>9. WritesTypeOK'
    <3>1. newest' \in 1 .. MaxVersion + Cardinality(Request)
      BY <2>1, NewestTyped
    <3>2. confirmed' \in [Request -> 0 .. newest'] /\ read' \in [Request -> 0 .. newest']
      BY <1>1, <1>2, <2>1, TypesGrow
    <3> QED
      BY <1>1, <1>2, <2>1, <3>1, <3>2 DEF WritesTypeOK
  <2>10. SessionsTypeOK'
    BY <1>1, <1>2 DEF SessionsTypeOK
  <2> QED
    BY <2>1, <2>7, <2>8, <2>9, <2>10 DEF Kept
<1>5. CASE UNCHANGED <<object, newest, effects>>
  <2>1. Advances /\ \A i \in Request \ {r} : Unmoved(i) /\ JobUnmoved(i)
    BY <1>1, <1>5 DEF Advances, Unmoved, JobUnmoved
  <2>2. RequestInv(r)'
    BY <1>1, <1>2, <1>5 DEF RequestInv, HandlerInv, EffectInv, ReportInv, SessionInv, Exec, Forward
  <2>3. \A i \in Request : RequestInv(i)'
    BY <1>5, <2>1, <2>2, OwnStep
  <2>4. HeldInv'
    BY <1>1, CountersKeep DEF ManagementInv
  <2>5. VersionInv' /\ OnceInv'
    BY <1>1, <1>5 DEF ManagementInv, VersionInv, OnceInv, Changers
  <2>6. WritesTypeOK' /\ SessionsTypeOK'
    BY <1>1, <1>2, <1>5 DEF WritesTypeOK, SessionsTypeOK
  <2> QED
    BY <2>3, <2>4, <2>5, <2>6 DEF Kept
<1> QED
  BY <1>4, <1>5 DEF LandsLate

-----------------------------------------------------------------------------
(* The requests: sessions *)

\* What a step of a session leaves alone, and what is left to show of it.
LEMMA SessionFrame ==
    ASSUME ManagementInv, Outer, NEW r \in Request, method[r] \in Session,
           \A i \in Request \ {r} :
               /\ hpc'[i] = hpc[i] /\ effects'[i] = effects[i]
               /\ dial'[i] = dial[i] /\ stopped'[i] = stopped[i] /\ pumps'[i] = pumps[i],
           {hpc[r], hpc'[r]} \subseteq InSession \cup {"answered"},
           EffectInv(r)', SessionInv(r)',
           hpc' \in [Request -> InSession \cup {"idle", "read", "write", "answered"}],
           effects' \in [Request -> Seq(0 .. newest)], effects[r] # <<>> => effects'[r] # <<>>,
           HeldInv', SessionsTypeOK'
    PROVE  Kept'
<1>1. /\ UNCHANGED <<kind, object, newest, late, read, method, target, confirmed, dryRun>>
      /\ UNCHANGED <<jpc, result, state, httpStatus>>
  BY DEF Outer, request, jobsVars, records, locals
<1>2. /\ WritesTypeOK /\ HandlerInv(r) /\ JobsInv /\ RecordInv(r)
  BY DEF ManagementInv, RequestInv, JobsInv
<1>3. jpc[r] = "idle" /\ state[r] = "absent" /\ httpStatus[r] = "none"
  BY <1>2 DEF HandlerInv, AsJob, Session, RecordInv, Live
<1>4. HandlerInv(r)'
  BY <1>1, <1>2, <1>3 DEF HandlerInv, InSession, BeforeRun
<1>5. ReportInv(r)'
  BY <1>1, <1>3 DEF ReportInv, Outcome
<1>6. Advances /\ \A i \in Request \ {r} : Unmoved(i) /\ JobUnmoved(i)
  BY <1>1 DEF Advances, Unmoved, JobUnmoved
<1>7. \A i \in Request : RequestInv(i)'
  BY <1>1, <1>4, <1>5, <1>6, OwnStep DEF RequestInv
<1>8. VersionInv'
  <2>1. Changers \subseteq Changers'
    BY DEF Changers
  <2> QED
    BY <1>1, <1>2, <2>1, VersionKeep DEF ManagementInv
<1>9. OnceInv'
  BY <1>1, OnceKeep DEF ManagementInv
<1>10. WritesTypeOK'
  BY <1>1, <1>2 DEF WritesTypeOK, InSession
<1> QED
  BY <1>7, <1>8, <1>9, <1>10 DEF Kept

\* A slot is taken, or there is none.
LEMMA TakesSlotKeeps ==
    ASSUME ManagementInv, NEW r \in Request, TakesSlot(r)
    PROVE  Kept'
<1>1. /\ Outer /\ hpc[r] = "slot" /\ UNCHANGED <<effects, stopped, pumps, method>>
      /\ \/ /\ held[method[r]] < MaxSessions
            /\ hpc' = [hpc EXCEPT ![r] = "dial"] /\ dial' = [dial EXCEPT ![r] = "websocket"]
            /\ held' = [held EXCEPT ![method[r]] = @ + 1]
         \/ hpc' = [hpc EXCEPT ![r] = "answered"] /\ UNCHANGED <<held, dial>>
  BY DEF TakesSlot, Moved, At, Moves, Outer, request
<1>2. /\ WritesTypeOK /\ SessionsTypeOK /\ HandlerInv(r) /\ EffectInv(r) /\ SessionInv(r)
  BY DEF ManagementInv, RequestInv
<1>3. /\ method[r] \in Session /\ dial[r] = "none" /\ pumps[r] = {} /\ effects[r] = <<>>
  BY <1>1, <1>2 DEF HandlerInv, InSession, SessionInv, EffectInv
<1>4. /\ hpc'[r] \in {"dial", "answered"}
      /\ dial'[r] = IF hpc'[r] = "dial" THEN "websocket" ELSE "none"
      /\ \A i \in Request \ {r} : hpc'[i] = hpc[i] /\ dial'[i] = dial[i]
  BY <1>1, <1>2, <1>3 DEF WritesTypeOK, SessionsTypeOK
<1>5. EffectInv(r)'
  <2>1. UNCHANGED <<late, object, read, target, confirmed>>
    BY <1>1 DEF Outer, request
  <2> QED
    BY <1>1, <1>2, <1>3, <1>4, <2>1 DEF EffectInv
<1>6. SessionInv(r)'
  BY <1>1, <1>2, <1>3, <1>4 DEF SessionInv, Exec, Forward, InSession
<1>7. held' \in [Session -> 0 .. MaxSessions]
  BY <1>1, <1>2, <1>3, SessionsAssumption DEF SessionsTypeOK
<1>8. HeldInv'
  <2>1. CASE hpc'[r] = "answered"
    <3>1. held' = held
      BY <1>1, <1>2, <2>1 DEF WritesTypeOK
    <3> QED
      BY <1>1, <1>4, <2>1, <3>1, CountersKeep DEF ManagementInv, InSession
  <2>2. CASE hpc'[r] = "dial"
    <3>1. held' = [held EXCEPT ![method[r]] = @ + 1]
      BY <1>1, <1>2, <2>2 DEF WritesTypeOK
    <3>2. PICK m \in Session : m = method[r]
      BY <1>3
    <3>3. r \notin WithSlot(m) /\ WithSlot(m)' = WithSlot(m) \cup {r}
      BY <1>1, <1>4, <2>2, <3>2 DEF WithSlot, InSession
    <3>4. IsFiniteSet(WithSlot(m))
      BY FS_Subset, JobsAssumption DEF WithSlot
    <3>5. Cardinality(WithSlot(m) \cup {r}) = Cardinality(WithSlot(m)) + 1
      BY <3>3, <3>4, FS_AddElement
    <3>6. \A n \in Session \ {m} : WithSlot(n)' = WithSlot(n)
      BY <1>1, <1>4, <3>2 DEF WithSlot
    <3>7. \A n \in Session : held'[n] = IF n = m THEN held[n] + 1 ELSE held[n]
      BY <1>2, <3>1, <3>2 DEF SessionsTypeOK
    <3>8. \A n \in Session : held[n] = Cardinality(WithSlot(n))
      BY DEF ManagementInv, HeldInv
    <3>9. ASSUME NEW n \in Session PROVE held'[n] = Cardinality(WithSlot(n)')
      <4>1. CASE n = m
        BY <3>3, <3>5, <3>7, <3>8, <4>1
      <4>2. CASE n # m
        BY <3>6, <3>7, <3>8, <4>2
      <4> QED
        BY <4>1, <4>2
    <3> QED
      BY <3>9 DEF HeldInv
  <2> QED
    BY <1>4, <2>1, <2>2
<1>9. SessionsTypeOK'
  BY <1>1, <1>2, <1>7 DEF SessionsTypeOK, Upgrade
<1>10. hpc' \in [Request -> InSession \cup {"idle", "read", "write", "answered"}]
  BY <1>1, <1>2 DEF WritesTypeOK, InSession
<1>11. effects' \in [Request -> Seq(0 .. newest)]
  BY <1>1, <1>2 DEF WritesTypeOK
<1>12. hpc[r] \in InSession /\ hpc'[r] \in InSession \cup {"answered"}
  BY <1>1, <1>4 DEF InSession
<1> QED
  BY <1>1, <1>3, <1>4, <1>5, <1>6, <1>8, <1>9, <1>10, <1>11, <1>12, SessionFrame

\* The handler answers and gives its slot back.
LEMMA LeavesKeeps ==
    ASSUME ManagementInv, NEW r \in Request, Leaves(r)
    PROVE  Kept'
<1>1. /\ Outer /\ hpc[r] = "leave" /\ hpc' = [hpc EXCEPT ![r] = "answered"]
      /\ held' = [held EXCEPT ![method[r]] = @ - 1]
      /\ UNCHANGED <<effects, dial, stopped, pumps, method>>
  BY DEF Leaves, Moved, At, Moves, Outer, request
<1>2. /\ WritesTypeOK /\ SessionsTypeOK /\ HandlerInv(r) /\ EffectInv(r) /\ SessionInv(r)
  BY DEF ManagementInv, RequestInv
<1>3. PICK m \in Session : m = method[r]
  BY <1>1, <1>2 DEF HandlerInv, InSession
<1>4. hpc'[r] = "answered" /\ \A i \in Request \ {r} : hpc'[i] = hpc[i]
  BY <1>1, <1>2 DEF WritesTypeOK
<1>5. EffectInv(r)'
  <2>1. UNCHANGED <<late, object, read, target, confirmed>>
    BY <1>1 DEF Outer, request
  <2> QED
    BY <1>1, <1>2, <1>4, <2>1 DEF EffectInv
<1>6. SessionInv(r)'
  BY <1>1, <1>2, <1>3, <1>4 DEF SessionInv, Exec, Forward, InSession
<1>7. r \in WithSlot(m) /\ WithSlot(m)' = WithSlot(m) \ {r}
  BY <1>1, <1>3, <1>4 DEF WithSlot, InSession
<1>8. IsFiniteSet(WithSlot(m)) /\ Cardinality(WithSlot(m)) \in Nat
  BY FS_Subset, FS_CardinalityType, JobsAssumption DEF WithSlot
<1>9. /\ Cardinality(WithSlot(m) \ {r}) = Cardinality(WithSlot(m)) - 1
      /\ Cardinality(WithSlot(m)) # 0
  BY <1>7, <1>8, FS_RemoveElement, FS_EmptySet
<1>10. \A n \in Session \ {m} : WithSlot(n)' = WithSlot(n)
  BY <1>1, <1>3, <1>4 DEF WithSlot
<1>11. \A n \in Session : held'[n] = IF n = m THEN held[n] - 1 ELSE held[n]
  BY <1>1, <1>2, <1>3 DEF SessionsTypeOK
<1>12. \A n \in Session : held[n] = Cardinality(WithSlot(n))
  BY DEF ManagementInv, HeldInv
<1>13. HeldInv'
  <2>1. ASSUME NEW n \in Session PROVE held'[n] = Cardinality(WithSlot(n)')
    <3>1. CASE n = m
      BY <1>7, <1>9, <1>11, <1>12, <3>1
    <3>2. CASE n # m
      BY <1>10, <1>11, <1>12, <3>2
    <3> QED
      BY <3>1, <3>2
  <2> QED
    BY <2>1 DEF HeldInv
<1>14. SessionsTypeOK'
  <2>1. held[m] \in 0 .. MaxSessions /\ held[m] # 0
    BY <1>2, <1>9, <1>12 DEF SessionsTypeOK
  <2>2. held' = [held EXCEPT ![m] = held[m] - 1]
    BY <1>1, <1>3
  <2>3. held[m] - 1 \in 0 .. MaxSessions
    BY <2>1, SessionsAssumption
  <2>4. held' \in [Session -> 0 .. MaxSessions]
    BY <1>2, <2>2, <2>3 DEF SessionsTypeOK
  <2> QED
    BY <1>1, <1>2, <2>4 DEF SessionsTypeOK
<1>15. hpc' \in [Request -> InSession \cup {"idle", "read", "write", "answered"}]
  BY <1>1, <1>2 DEF WritesTypeOK, InSession
<1>16. effects' \in [Request -> Seq(0 .. newest)]
  BY <1>1, <1>2 DEF WritesTypeOK
<1>17. hpc[r] \in InSession /\ hpc'[r] \in InSession \cup {"answered"}
  BY <1>1, <1>4 DEF InSession
<1> QED
  BY <1>1, <1>3, <1>4, <1>5, <1>6, <1>13, <1>14, <1>15, <1>16, <1>17, SessionFrame

\* The handler goes on, and on its way out stops what it has begun.
LEMMA HandlerKeeps ==
    ASSUME ManagementInv, NEW r \in Request,
           \/ ExecEnds(r) \/ ForwardReady(r) \/ ForwardFails(r) \/ Connects(r) \/ ConnectFails(r)
           \/ Upgrades(r) \/ UpgradeFails(r) \/ ClosesBoth(r) \/ WorkersEnded(r)
    PROVE  Kept'
<1> DEFINE Inside == InSession \ {"slot"}
<1>1. PICK p \in Inside : hpc' = [hpc EXCEPT ![r] = p]
  BY DEF ExecEnds, ForwardReady, ForwardFails, Connects, ConnectFails, Upgrades, UpgradeFails,
     ClosesBoth, WorkersEnded, Moved, Moves, InSession
<1>2. /\ Outer /\ UNCHANGED <<effects, held, method>> /\ hpc[r] \in Inside
  BY DEF ExecEnds, ForwardReady, ForwardFails, Connects, ConnectFails, Upgrades, UpgradeFails,
     ClosesBoth, WorkersEnded, Moved, At, InSession, Stops, Outer, request, sessionVars
<1>3. /\ WritesTypeOK /\ SessionsTypeOK /\ HandlerInv(r) /\ EffectInv(r) /\ SessionInv(r)
  BY DEF ManagementInv, RequestInv
<1>4. method[r] \in Session /\ dial[r] # "none" /\ p \in InSession
  BY <1>2, <1>3 DEF HandlerInv, InSession, SessionInv
<1>5. hpc'[r] = p /\ \A i \in Request \ {r} : hpc'[i] = hpc[i]
  BY <1>1, <1>3 DEF WritesTypeOK
<1>6. /\ dial' = dial \/ (dial' = [dial EXCEPT ![r] = "down"])
      /\ stopped' = stopped \/ (stopped' = [stopped EXCEPT ![r] = TRUE])
      /\ pumps' = pumps \/ (pumps' = [pumps EXCEPT ![r] = Pump])
  BY DEF ExecEnds, ForwardReady, ForwardFails, Connects, ConnectFails, Upgrades, UpgradeFails,
     ClosesBoth, WorkersEnded, Stops, sessionVars
<1>7. /\ dial'[r] \in {dial[r], "down"}
      /\ \A i \in Request \ {r} :
            dial'[i] = dial[i] /\ stopped'[i] = stopped[i] /\ pumps'[i] = pumps[i]
  BY <1>3, <1>6 DEF SessionsTypeOK
<1>8. EffectInv(r)'
  <2>1. UNCHANGED <<late, object, read, target, confirmed>>
    BY <1>2 DEF Outer, request
  <2>2. p \notin {"idle", "read", "write"}
    BY <1>4 DEF InSession
  <2> QED
    BY <1>2, <1>3, <1>4, <1>5, <1>7, <2>1, <2>2 DEF EffectInv, Upgrade
<1>9. SessionInv(r)'
  <2> USE <1>2, <1>3, <1>4 DEF SessionInv, Exec, Forward, InSession, Moved, At, Moves, Outer,
          request, WritesTypeOK, SessionsTypeOK, Stops
  <2>1. CASE ExecEnds(r)
    BY <2>1 DEF ExecEnds
  <2>2. CASE ForwardReady(r)
    BY <2>2 DEF ForwardReady, sessionVars
  <2>3. CASE ForwardFails(r)
    BY <2>3 DEF ForwardFails
  <2>4. CASE Connects(r)
    BY <2>4 DEF Connects, sessionVars
  <2>5. CASE ConnectFails(r)
    BY <2>5 DEF ConnectFails
  <2>6. CASE Upgrades(r)
    BY <2>6 DEF Upgrades
  <2>7. CASE UpgradeFails(r)
    BY <2>7 DEF UpgradeFails
  <2>8. CASE ClosesBoth(r)
    BY <2>8 DEF ClosesBoth
  <2>9. CASE WorkersEnded(r)
    BY <2>9 DEF WorkersEnded, sessionVars
  <2> QED
    BY <2>1, <2>2, <2>3, <2>4, <2>5, <2>6, <2>7, <2>8, <2>9
<1>10. HeldInv'
  BY <1>2, <1>5, CountersKeep DEF ManagementInv
<1>11. SessionsTypeOK'
  <2>1. dial' \in [Request -> {"none", "up", "down"} \cup Upgrade]
    BY <1>3, <1>6 DEF SessionsTypeOK
  <2>2. stopped' \in [Request -> BOOLEAN]
    BY <1>3, <1>6 DEF SessionsTypeOK
  <2>3. pumps' \in [Request -> SUBSET Pump]
    BY <1>3, <1>6 DEF SessionsTypeOK
  <2> QED
    BY <1>2, <1>3, <2>1, <2>2, <2>3 DEF SessionsTypeOK
<1>12. hpc' \in [Request -> InSession \cup {"idle", "read", "write", "answered"}]
  BY <1>1, <1>3 DEF WritesTypeOK, InSession
<1>13. effects' \in [Request -> Seq(0 .. newest)]
  BY <1>2, <1>3 DEF WritesTypeOK
<1> QED
  BY <1>2, <1>4, <1>5, <1>7, <1>8, <1>9, <1>10, <1>11, <1>12, <1>13, SessionFrame

\* The connection: the pod is reached once at most, and before that has done nothing.
LEMMA ConnectionKeeps ==
    ASSUME ManagementInv, NEW r \in Request, Connection(r)
    PROVE  Kept'
<1>1. /\ Outer /\ UNCHANGED <<hpc, held, stopped, pumps, method>>
      /\ dial[r] \in Upgrade \cup {"up"}
      /\ \E d \in {"up", "down", "spdy"} :
            /\ dial' = [dial EXCEPT ![r] = d]
            /\ d = "spdy" => dial[r] = "websocket"
            /\ \/ UNCHANGED effects
                  /\ d # "up"
               \/ /\ effects' = [effects EXCEPT ![r] = Append(@, object[target[r]])]
                  /\ d = "up" /\ dial[r] \in Upgrade
  BY DEF Connection, Reaches, FallsBack, DialFails, LineEnds, Line, Outer, request, Upgrade
<1>2. /\ WritesTypeOK /\ SessionsTypeOK /\ HandlerInv(r) /\ EffectInv(r) /\ SessionInv(r)
  BY DEF ManagementInv, RequestInv
<1>3. /\ method[r] \in Session /\ hpc[r] \notin {"read", "slot"}
      /\ target[r] \in Key /\ object[target[r]] \in 0 .. newest
  BY <1>1, <1>2 DEF SessionInv, HandlerInv, Upgrade, Session, WritesTypeOK
<1>4. PICK d \in {"up", "down", "spdy"} :
          /\ dial' = [dial EXCEPT ![r] = d]
          /\ d = "spdy" => dial[r] = "websocket"
          /\ \/ UNCHANGED effects
                /\ d # "up"
             \/ /\ effects' = [effects EXCEPT ![r] = Append(@, object[target[r]])]
                /\ d = "up" /\ dial[r] \in Upgrade
  BY <1>1
<1>5. dial'[r] = d /\ \A i \in Request \ {r} : dial'[i] = dial[i]
  BY <1>2, <1>4 DEF SessionsTypeOK
<1>6. /\ effects' \in [Request -> Seq(0 .. newest)]
      /\ \A i \in Request \ {r} : effects'[i] = effects[i]
      /\ \/ effects'[r] = effects[r] /\ d # "up"
         \/ Len(effects'[r]) = 1 /\ effects'[r] # <<>> /\ d = "up"
  <2>1. CASE UNCHANGED effects /\ d # "up"
    BY <1>2, <2>1 DEF WritesTypeOK
  <2>2. CASE /\ effects' = [effects EXCEPT ![r] = Append(@, object[target[r]])]
             /\ d = "up" /\ dial[r] \in Upgrade
    <3>1. effects[r] = <<>>
      BY <1>2, <1>3, <2>2 DEF EffectInv
    <3>2. PICK v \in 0 .. newest : v = object[target[r]]
      BY <1>3
    <3>3. /\ Append(<<>>, v) \in Seq(0 .. newest) /\ Len(Append(<<>>, v)) = 1
          /\ Append(<<>>, v) # <<>>
      OBVIOUS
    <3>4. effects' = [effects EXCEPT ![r] = Append(<<>>, v)]
      BY <2>2, <3>1, <3>2
    <3> QED
      BY <1>2, <2>2, <3>3, <3>4 DEF WritesTypeOK
  <2> QED
    BY <1>4, <2>1, <2>2
<1>7. EffectInv(r)'
  <2>1. UNCHANGED <<late, object, read, target, confirmed>>
    BY <1>1 DEF Outer, request
  <2>2. hpc[r] \notin {"idle", "read", "write"}
    BY <1>2, <1>3 DEF HandlerInv, Session
  <2>3. r \notin late
    BY <1>2, <1>3 DEF EffectInv
  <2>4. Len(effects'[r]) <= 1
    <3>1. CASE effects'[r] = effects[r]
      BY <1>2, <3>1 DEF EffectInv
    <3>2. CASE Len(effects'[r]) = 1
      BY <3>2
    <3> QED
      BY <1>6, <3>1, <3>2
  <2>5. d \in {"none"} \cup Upgrade => effects'[r] = <<>>
    BY <1>2, <1>3, <1>4, <1>6 DEF EffectInv, Upgrade
  <2> QED
    BY <1>1, <1>2, <1>3, <1>5, <2>1, <2>2, <2>3, <2>4, <2>5 DEF EffectInv
<1>8. SessionInv(r)'
  BY <1>1, <1>2, <1>3, <1>4, <1>5 DEF SessionInv, Exec, Forward, Upgrade
<1>9. HeldInv'
  BY <1>1, CountersKeep DEF ManagementInv
<1>10. SessionsTypeOK'
  BY <1>1, <1>2, <1>4 DEF SessionsTypeOK, Upgrade
<1>11. /\ hpc \in [Request -> InSession \cup {"idle", "read", "write", "answered"}]
       /\ hpc[r] \in InSession \cup {"answered"}
  BY <1>2, <1>3 DEF WritesTypeOK, InSession, HandlerInv, Session
<1>12. effects[r] # <<>> => effects'[r] # <<>>
  BY <1>6
<1> QED
  BY <1>1, <1>3, <1>5, <1>6, <1>7, <1>8, <1>9, <1>10, <1>11, <1>12, SessionFrame

\* A pump ends.
LEMMA PumpEndsKeep ==
    ASSUME ManagementInv, NEW r \in Request, NEW p \in Pump, PumpEnds(r, p)
    PROVE  Kept'
<1>1. /\ Outer /\ UNCHANGED <<hpc, effects, held, dial, stopped, method>> /\ p \in pumps[r]
      /\ pumps' = [pumps EXCEPT ![r] = @ \ {p}]
  BY DEF PumpEnds, Outer, request
<1>2. /\ WritesTypeOK /\ SessionsTypeOK /\ HandlerInv(r) /\ EffectInv(r) /\ SessionInv(r)
  BY DEF ManagementInv, RequestInv
<1>3. hpc[r] \in {"pump", "closing"} /\ method[r] \in Session
  BY <1>1, <1>2 DEF SessionInv, HandlerInv, InSession
<1>4. \A i \in Request \ {r} : pumps'[i] = pumps[i]
  BY <1>1, <1>2 DEF SessionsTypeOK
<1>5. EffectInv(r)'
  BY <1>1, <1>2 DEF EffectInv, Outer, request
<1>6. SessionInv(r)'
  BY <1>1, <1>2, <1>3 DEF SessionInv, Exec, Forward
<1>7. HeldInv'
  BY <1>1, CountersKeep DEF ManagementInv
<1>8. SessionsTypeOK'
  BY <1>1, <1>2 DEF SessionsTypeOK
<1>9. /\ hpc' \in [Request -> InSession \cup {"idle", "read", "write", "answered"}]
      /\ effects' \in [Request -> Seq(0 .. newest)]
      /\ {hpc[r], hpc'[r]} \subseteq InSession \cup {"answered"}
      /\ effects[r] # <<>> => effects'[r] # <<>>
  BY <1>1, <1>2, <1>3 DEF WritesTypeOK, InSession
<1> QED
  BY <1>1, <1>3, <1>4, <1>5, <1>6, <1>7, <1>8, <1>9, SessionFrame

-----------------------------------------------------------------------------
(* The whole of management mode *)

\* To the queue, every step is one of its own, a submission, the return of an
\* operation, the end of a context, or nothing.
LEMMA NextJobStep ==
    ASSUME Next
    PROVE  JobStep \/ UNCHANGED jobsVars
<1>1. ASSUME NEW r \in Request, NEW status \in {"ok", "failed", "panic"}, Return(r, status)
      PROVE  JobStep \/ UNCHANGED jobsVars
  BY <1>1 DEF Return, JobStep, Returns
<1>2. ASSUME NEW r \in Request, NEW m, NEW next, ReadsFirst(r, m, next)
      PROVE  JobStep \/ UNCHANGED jobsVars
  BY <1>1, <1>2 DEF ReadsFirst
<1>3. ASSUME NEW r \in Request, Handle(r) PROVE JobStep \/ UNCHANGED jobsVars
  <2>1. CASE Reads(r)
    BY <1>1, <1>2, <2>1 DEF Reads, ScaleReads, CronJobReads, ReplaceReads, ExecReads, ForwardReads
  <2>2. CASE Writes(r)
    BY <1>1, <2>2 DEF Writes
  <2>3. CASE CallFails(r) \/ RunPanics(r)
    BY <1>1, <2>3 DEF CallFails, RunPanics
  <2> QED
    BY <1>3, <2>1, <2>2, <2>3 DEF Handle
<1>4. ASSUME WritesNext PROVE JobStep \/ UNCHANGED jobsVars
  BY <1>3, <1>4 DEF WritesNext, LandsLate, Edit, ArriveAtOnce, ArriveAsJob, JobStep
<1>5. ASSUME NEW r \in Request, HandleSession(r) \/ Connection(r) \/ \E p \in Pump : PumpEnds(r, p)
      PROVE  UNCHANGED jobsVars
  BY <1>5 DEF HandleSession, TakesSlot, ExecEnds, ForwardReady, ForwardFails, Connects,
     ConnectFails, Upgrades, UpgradeFails, ClosesBoth, WorkersEnded, Leaves, Moved, Connection,
     Reaches, FallsBack, DialFails, LineEnds, Line, PumpEnds, Outer
<1>6. ASSUME NEW r \in Request, TimesOut(r) PROVE JobStep
  BY <1>6 DEF TimesOut, JobStep, Ends
<1> QED
  BY <1>4, <1>5, <1>6 DEF Next, SessionsNext

LEMMA ManagementStep == ManagementInv /\ [Next]_vars => ManagementInv'
<1> SUFFICES ASSUME ManagementInv, [Next]_vars PROVE ManagementInv'
  OBVIOUS
<1>1. JobsInv'
  <2>1. UNCHANGED vars => UNCHANGED jobsVars
    BY DEF vars
  <2> QED
    BY <2>1, NextJobStep, JobsStep DEF ManagementInv
<1>2. CASE WritesNext /\ UNCHANGED sessionVars
  <2> SUFFICES Kept'
    BY <1>1 DEF Kept, ManagementInv
  <2>1. CASE \E r \in Request : Handle(r)
    BY <1>1, <1>2, <2>1, ReadsKeep, WritesKeep, FailuresKeep DEF Handle
  <2>2. CASE \E r \in Request : LandsLate(r)
    BY <1>2, <2>2, LandsKeep
  <2>3. CASE \E r \in Request, k \in Key, m \in Method, c \in 0 .. newest, d \in BOOLEAN :
                 ArriveAtOnce(r, k, m, c, d) \/ ArriveAsJob(r, k, m, c, d)
    BY <1>1, <1>2, <2>3, ArriveKeeps
  <2>4. CASE \E k \in Key : Edit(k)
    BY <1>2, <2>4, EditKeeps
  <2>5. CASE QueueNext /\ UNCHANGED writeVars
    <3>1. UNCHANGED <<writeVars, sessionVars>>
      BY <1>2, <2>5
    <3> QED
      BY <2>5, <3>1, QueueKeeps
  <2> QED
    BY <1>2, <2>1, <2>2, <2>3, <2>4, <2>5 DEF WritesNext
<1>3. CASE SessionsNext
  <2> SUFFICES Kept'
    BY <1>1 DEF Kept, ManagementInv
  <2>1. CASE \E r \in Request : HandleSession(r)
    BY <2>1, TakesSlotKeeps, HandlerKeeps, LeavesKeeps DEF HandleSession
  <2>2. CASE \E r \in Request : Connection(r)
    BY <2>2, ConnectionKeeps
  <2>3. CASE \E r \in Request : TimesOut(r)
    <3>1. (\E r \in Request : Ends(r)) /\ UNCHANGED <<writeVars, sessionVars>>
      BY <2>3 DEF TimesOut, Ends
    <3> QED
      BY <3>1, QueueKeeps
  <2>4. CASE \E r \in Request : \E p \in Pump : PumpEnds(r, p)
    BY <2>4, PumpEndsKeep
  <2> QED
    BY <1>3, <2>1, <2>2, <2>3, <2>4 DEF SessionsNext
<1>4. CASE UNCHANGED vars
  <2>1. UNCHANGED <<jobsVars, writeVars, sessionVars>>
    BY <1>4 DEF vars
  <2>2. /\ UNCHANGED <<jpc, result, state, httpStatus, kind, object, newest, late, effects>>
        /\ UNCHANGED <<method, target, confirmed, dryRun, hpc, read>>
        /\ UNCHANGED <<held, dial, stopped, pumps>>
    BY <2>1 DEF jobsVars, writeVars, sessionVars, request, cluster, records, locals
  <2>3. \A r \in Request : RequestInv(r)'
    <3>1. Advances /\ \A r \in Request : Unmoved(r) /\ JobUnmoved(r)
      BY <2>2 DEF Advances, Unmoved, JobUnmoved
    <3> QED
      BY <3>1, OthersKeep DEF ManagementInv
  <2>4. HeldInv' /\ VersionInv' /\ OnceInv'
    BY <2>2 DEF ManagementInv, HeldInv, WithSlot, VersionInv, OnceInv, Changers
  <2>5. WritesTypeOK' /\ SessionsTypeOK'
    BY <2>2 DEF ManagementInv, WritesTypeOK, SessionsTypeOK
  <2> QED
    BY <1>1, <2>3, <2>4, <2>5 DEF ManagementInv
<1> QED
  BY <1>2, <1>3, <1>4 DEF Next

LEMMA ManagementStart == Init => ManagementInv
<1> SUFFICES ASSUME Init PROVE ManagementInv
  OBVIOUS
<1>1. JobsInv
  BY JobsStart DEF Init
<1>2. /\ JobsInit /\ WritesInit /\ SessionsInit
      /\ IsFiniteSet(Request) /\ Cardinality(Request) \in Nat
  BY JobsAssumption, FS_CardinalityType DEF Init
<1>3. WritesTypeOK
  <2>1. newest \in 1 .. MaxVersion + Cardinality(Request) /\ object \in [Key -> 0 .. newest]
    BY <1>2, VersionAssumption DEF WritesInit
  <2>2. effects \in [Request -> Seq(0 .. newest)]
    BY <1>2 DEF WritesInit
  <2> QED
    BY <1>2, <2>1, <2>2, VersionAssumption DEF WritesInit, WritesTypeOK
<1>4. SessionsTypeOK
  BY <1>2, SessionsAssumption DEF SessionsInit, SessionsTypeOK
<1>5. ASSUME NEW r \in Request PROVE RequestInv(r)
  <2>1. /\ jpc[r] = "idle" /\ state[r] = "absent" /\ httpStatus[r] = "none"
        /\ hpc[r] = "idle" /\ method[r] = "none" /\ effects[r] = <<>> /\ r \notin late
        /\ dial[r] = "none" /\ pumps[r] = {}
    BY <1>2 DEF JobsInit, WritesInit, SessionsInit
  <2>2. HandlerInv(r)
    BY <2>1 DEF HandlerInv, InSession, Session, BeforeRun
  <2>3. EffectInv(r)
    BY <2>1 DEF EffectInv, Reading, Session
  <2>4. ReportInv(r)
    BY <2>1 DEF ReportInv, Outcome
  <2>5. SessionInv(r)
    BY <2>1 DEF SessionInv, InSession, Exec, Forward, Session
  <2> QED
    BY <2>2, <2>3, <2>4, <2>5 DEF RequestInv
<1>6. HeldInv
  <2>1. ASSUME NEW m \in Session PROVE held[m] = Cardinality(WithSlot(m))
    <3>1. WithSlot(m) = {}
      BY <1>2 DEF WithSlot, WritesInit, InSession
    <3> QED
      BY <1>2, <3>1, FS_EmptySet DEF SessionsInit
  <2> QED
    BY <2>1 DEF HeldInv
<1>7. VersionInv /\ OnceInv
  <2>1. Changers = {}
    BY <1>2 DEF Changers, WritesInit
  <2>2. VersionInv
    BY <1>2, <2>1, FS_EmptySet, VersionAssumption DEF VersionInv, WritesInit
  <2> QED
    BY <1>2, <2>2 DEF OnceInv, WritesInit
<1> QED
  BY <1>1, <1>3, <1>4, <1>5, <1>6, <1>7 DEF ManagementInv

\* What a handler, a job and a session have done follows from where they are,
\* whatever the queue, the other requests and the cluster's other clients do
\* (manager.go:382-474, workloadjobs.go:43-209, pod_exec.go:35-166,
\* port_forward.go:58-215).
THEOREM ManagementInvariance == Spec => []ManagementInv
<1> QED
  BY ManagementStart, ManagementStep, PTL DEF Spec

\* A change is made to the version its user confirmed and to no other; of several
\* users who looked at one version one at most changes it; and nothing is done
\* twice (manager.go:382-474, workload_action.go:36-62, batch_jobs.go:47-97,
\* dnsconfig/manager.go:119-151).
THEOREM ChangesAreConfirmed == Spec => []EffectsSound
<1>1. ManagementInv => EffectsSound
  BY DEF ManagementInv, JobsInv, RequestInv, EffectInv, OnceInv, EffectsSound, TypeOK,
     EffectsConfirmed, DoneOnce
<1> QED
  BY <1>1, ManagementInvariance, PTL

\* The record of an ended job is true of the cluster (workloadjobs.go:85-114, 161-176).
THEOREM RecordsAreTrue == Spec => []JobReportsTruly
<1>1. ManagementInv => JobReportsTruly
  BY DEF ManagementInv, RequestInv, ReportInv, JobReportsTruly, Recorded
<1> QED
  BY <1>1, ManagementInvariance, PTL

\* Slots are those of the sessions that use them, and a session that is over left
\* no tunnel open (pod_exec.go:69-80, port_forward.go:66-125, 166-215).
THEOREM SessionsLeaveNothing == Spec => []SessionsCleanUp
<1>1. ManagementInv => SessionsCleanUp
  <2> SUFFICES ASSUME ManagementInv PROVE SessionsCleanUp
    OBVIOUS
  <2>1. \A m \in Session :
            held[m] = Cardinality({r \in Request : method[r] = m
                                      /\ hpc[r] \in InSession \ {"slot"}})
    BY DEF ManagementInv, HeldInv, WithSlot
  <2>2. ASSUME NEW r \in Request, hpc[r] = "answered", dial[r] # "none"
        PROVE  pumps[r] = {} /\ IF Forward(r) THEN stopped[r] ELSE dial[r] = "down"
    <3>1. SessionInv(r)
      BY DEF ManagementInv, RequestInv
    <3> QED
      BY <2>2, <3>1 DEF SessionInv, Exec, Forward, Session
  <2> QED
    BY <2>1, <2>2 DEF SessionsCleanUp
<1> QED
  BY <1>1, ManagementInvariance, PTL

-----------------------------------------------------------------------------
(* The catalog of capabilities.  As long as no review has failed and the client *)
(* is there, each review is still to be sent, with a worker, or decided         *)
(* (PoolInv); the handler goes on only when none is to be sent or with a        *)
(* worker.                                                                      *)

Before == {"groups", "list", "rules", "fallback"}

\* Kubernetes has given, or could have given, the decision that allowed holds.
Decided(r) == IF r \in allowed THEN r \in seenAllowed ELSE r \in seenDenied

\* The present rules are among those the history has seen.
WorldInv ==
    /\ \A r \in Review : Authorizes(rbac, r) => r \in seenAllowed
    /\ \A r \in Review : ~Authorizes(rbac, r) => r \in seenDenied

\* What is untouched before the pool starts, and what is over when it has ended.
PhaseInv ==
    /\ pc \in Before => allowed = {} /\ ~byRules /\ ~firstErr /\ ~cancelled /\ todo = {}
    /\ pc = "rules" => namespace
    /\ byRules => namespace /\ pc \in {"answer", "answered"}
    /\ answer # "none" <=> pc = "answered"
    /\ pc \notin {"send", "wait"} => \A w \in Worker : wpc[w] \in {"off", "exit"}
    /\ pc \in Before => \A w \in Worker : wpc[w] = "off"
    /\ \A w \in Worker : task[w] # {} => wpc[w] = "review"

PoolInv ==
    /\ cancelled => firstErr
    /\ ~byRules => allowed \subseteq seenAllowed
    /\ pc = "wait" => todo = {} \/ firstErr \/ gone
    /\ pc \in {"send", "wait"} =>
           \/ firstErr \/ gone \/ \E w \in Worker : wpc[w] = "fail"
           \/ \A r \in Reviews(resources) :
                  r \in todo \/ Decided(r) \/ \E w \in Worker : r \in task[w]

CatalogInv ==
    pc = "answer" \/ answer = "ok" =>
        \A r \in Reviews(resources) : (byRules /\ ~r.resource.namespaced) \/ Decided(r)

ReviewsInv == ReviewsTypeOK /\ WorldInv /\ PhaseInv /\ PoolInv /\ CatalogInv

\* For a resource of the namespace, the rules review and Kubernetes agree.
LEMMA RulesAgree ==
    ASSUME NEW rules \in SUBSET Rule, namespace,
           NEW r \in Review, r.resource.namespaced
    PROVE  allowedByRules(rules, r) <=> Authorizes(rules, r)
<1>1. ASSUME NEW rule \in rules, rule.names = {} \/ "*" \in rule.names
      PROVE  rule.names = {}
    BY <1>1, ReviewsAssumption
<1> QED
    BY <1>1 DEF allowedByRules, Authorizes, RuleMatchesAnyScope, Any

\* A worker exists, and none beyond the number started is on.
LEMMA NoWorkerForNoReview ==
    ASSUME NEW n \in 0..MaxWorkers,
           n = IF Cardinality({}) < MaxWorkers THEN Cardinality({}) ELSE MaxWorkers
    PROVE  \A w \in Worker : ~(w <= n)
BY ReviewsAssumption, FS_EmptySet DEF Worker

\* What is decided stays decided: the histories only grow, and a verb is added to
\* allowed only when Kubernetes allows it.
LEMMA DecidedStays ==
    ASSUME seenAllowed \subseteq seenAllowed', seenDenied \subseteq seenDenied',
           allowed \subseteq allowed', allowed' \subseteq allowed \cup seenAllowed'
    PROVE  \A r \in Review : Decided(r) => Decided(r)'
BY DEF Decided

-----------------------------------------------------------------------------
\* The inductive invariant holds at the start of a request.
LEMMA ReviewsStart == ReviewsInit => ReviewsInv
<1> SUFFICES ASSUME ReviewsInit PROVE ReviewsInv
    OBVIOUS
<1>1. ReviewsTypeOK
  <2>1. seenAllowed \subseteq Review /\ seenDenied \subseteq Review
      BY Zenon DEF ReviewsInit
  <2>2. faults \in 0..MaxFaults /\ edits \in 0..MaxEdits
      BY ReviewsAssumption DEF ReviewsInit
  <2>3. wpc \in [Worker -> {"off", "receive", "review", "fail", "exit"}]
        /\ task \in [Worker -> SUBSET Review]
      BY DEF ReviewsInit
  <2> QED
      BY <2>1, <2>2, <2>3 DEF ReviewsInit, ReviewsTypeOK
<1>2. WorldInv
    BY DEF ReviewsInit, WorldInv, Authorizes
<1>3. PhaseInv /\ PoolInv /\ CatalogInv
    BY DEF ReviewsInit, PhaseInv, PoolInv, CatalogInv, Before
<1> QED
    BY <1>1, <1>2, <1>3 DEF ReviewsInv

\* Types are kept by every step.
LEMMA ReviewsTypeStep == ReviewsTypeOK /\ [ReviewsNext]_reviewsVars => ReviewsTypeOK'
<1> SUFFICES ASSUME ReviewsTypeOK, [ReviewsNext]_reviewsVars PROVE ReviewsTypeOK'
    OBVIOUS
<1> USE ReviewsAssumption DEF ReviewsTypeOK, handler, pool, world
<1>1. CASE Groups
    BY <1>1 DEF Groups, Fault, Answers
<1>2. CASE ListVersion
    BY <1>2 DEF ListVersion, Fault, Served
<1>3. CASE Listed
    BY <1>3 DEF Listed
<1>4. CASE ReviewRules
  <2>1. allowed' \subseteq Review
      BY <1>4 DEF ReviewRules, Reviews
  <2>2. /\ pc' \in {"answer", "fallback"} /\ byRules' \in BOOLEAN /\ faults' \in 0..MaxFaults
        /\ UNCHANGED <<namespace, versions, resources, todo, answer, pool, world, gone>>
    <3>1. \/ pc' = "answer" /\ byRules' = TRUE /\ UNCHANGED faults
          \/ Fault /\ pc' = "fallback" /\ UNCHANGED byRules
        BY <1>4, Zenon DEF ReviewRules
    <3>2. UNCHANGED <<namespace, versions, resources, todo, answer, pool, world, gone>>
        BY <1>4, Zenon DEF ReviewRules
    <3>3. faults' \in 0..MaxFaults
        BY <3>1 DEF Fault
    <3>4. pc' \in {"answer", "fallback"} /\ byRules' \in BOOLEAN
        BY <3>1
    <3> QED
        BY <3>2, <3>3, <3>4
  <2> QED
      BY <2>1, <2>2
<1>5. CASE StartPool
    BY <1>5 DEF StartPool, Reviews
<1>6. CASE StopSending
    BY <1>6 DEF StopSending
<1>7. CASE WaitReturns
    BY <1>7 DEF WaitReturns, Answers
<1>8. CASE WriteCatalog
    BY <1>8 DEF WriteCatalog, Answers
<1>9. ASSUME NEW w \in Worker, Send(w) PROVE ReviewsTypeOK'
    BY <1>9 DEF Send
<1>10. ASSUME NEW w \in Worker, ReviewReturns(w) PROVE ReviewsTypeOK'
    BY <1>10 DEF ReviewReturns, Fault
<1>11. ASSUME NEW w \in Worker, Fail(w) PROVE ReviewsTypeOK'
    BY <1>11 DEF Fail
<1>12. ASSUME NEW w \in Worker, WorkerEnds(w) PROVE ReviewsTypeOK'
    BY <1>12 DEF WorkerEnds
<1>13. CASE Leave
    BY <1>13 DEF Leave
<1>14. CASE EditRules
    BY <1>14 DEF EditRules
<1>15. CASE UNCHANGED reviewsVars
    BY <1>15 DEF reviewsVars
<1> QED
    BY <1>1, <1>2, <1>3, <1>4, <1>5, <1>6, <1>7, <1>8, <1>9, <1>10, <1>11, <1>12,
       <1>13, <1>14, <1>15 DEF ReviewsNext, Handler, WorkerStep

\* Only an edit of the rules changes the histories, and it adds the new decisions.
LEMMA WorldStep == ReviewsInv /\ [ReviewsNext]_reviewsVars => WorldInv' /\ seenAllowed \subseteq seenAllowed'
                                                    /\ seenDenied \subseteq seenDenied'
<1> SUFFICES ASSUME ReviewsInv, [ReviewsNext]_reviewsVars
             PROVE  WorldInv' /\ seenAllowed \subseteq seenAllowed' /\ seenDenied \subseteq seenDenied'
    OBVIOUS
<1>1. namespace' = namespace
    BY DEF ReviewsNext, Handler, WorkerStep, Groups, ListVersion, Listed, ReviewRules, StartPool,
           StopSending, WaitReturns, WriteCatalog, Send, ReviewReturns, Fail, WorkerEnds,
           Leave, EditRules, reviewsVars, handler
<1>2. CASE EditRules
    BY <1>1, <1>2 DEF EditRules, WorldInv, Authorizes
<1>3. CASE UNCHANGED world
    BY <1>1, <1>3 DEF ReviewsInv, WorldInv, Authorizes, world
<1>4. EditRules \/ UNCHANGED world
    BY DEF ReviewsNext, Handler, WorkerStep, Groups, ListVersion, Listed, ReviewRules, StartPool,
           StopSending, WaitReturns, WriteCatalog, Send, ReviewReturns, Fail, WorkerEnds,
           Leave, reviewsVars, world
<1> QED
    BY <1>2, <1>3, <1>4

\* The phases of the handler.
LEMMA PhaseStep == ReviewsInv /\ [ReviewsNext]_reviewsVars => PhaseInv'
<1> SUFFICES ASSUME ReviewsInv, [ReviewsNext]_reviewsVars PROVE PhaseInv'
    OBVIOUS
<1> USE DEF ReviewsInv, PhaseInv, ReviewsTypeOK, Before, handler, pool, world
<1>1. CASE Groups
    BY <1>1 DEF Groups, Answers
<1>2. CASE ListVersion
    BY <1>2 DEF ListVersion
<1>3. CASE Listed
    BY <1>3 DEF Listed
<1>4. CASE ReviewRules
    BY <1>4 DEF ReviewRules
<1>5. CASE StartPool
  <2>1. CASE Reviews(resources) = {}
      BY <1>5, <2>1, NoWorkerForNoReview DEF StartPool
  <2>2. CASE Reviews(resources) # {}
      BY <1>5, <2>2 DEF StartPool
  <2> QED
      BY <2>1, <2>2
<1>6. CASE StopSending
    BY <1>6 DEF StopSending
<1>7. CASE WaitReturns
    BY <1>7 DEF WaitReturns, Answers
<1>8. CASE WriteCatalog
    BY <1>8 DEF WriteCatalog, Answers
<1>9. ASSUME NEW w \in Worker, Send(w) PROVE PhaseInv'
    BY <1>9 DEF Send
<1>10. ASSUME NEW w \in Worker, ReviewReturns(w) PROVE PhaseInv'
    BY <1>10 DEF ReviewReturns
<1>11. ASSUME NEW w \in Worker, Fail(w) PROVE PhaseInv'
    BY <1>11 DEF Fail
<1>12. ASSUME NEW w \in Worker, WorkerEnds(w) PROVE PhaseInv'
    BY <1>12 DEF WorkerEnds
<1>13. CASE Leave
    BY <1>13 DEF Leave
<1>14. CASE EditRules
    BY <1>14 DEF EditRules
<1>15. CASE UNCHANGED reviewsVars
    BY <1>15 DEF reviewsVars
<1> QED
    BY <1>1, <1>2, <1>3, <1>4, <1>5, <1>6, <1>7, <1>8, <1>9, <1>10, <1>11, <1>12,
       <1>13, <1>14, <1>15 DEF ReviewsNext, Handler, WorkerStep

\* The results of the pool.
LEMMA PoolStep == ReviewsInv /\ [ReviewsNext]_reviewsVars => PoolInv' /\ CatalogInv'
<1> SUFFICES ASSUME ReviewsInv, [ReviewsNext]_reviewsVars PROVE PoolInv' /\ CatalogInv'
    OBVIOUS
<1> DEFINE StillDecided == \A r \in Review : Decided(r) => Decided(r)'
<1>a. seenAllowed \subseteq seenAllowed' /\ seenDenied \subseteq seenDenied'
    BY WorldStep
<1>b. UNCHANGED allowed => StillDecided
    BY <1>a, DecidedStays
<1>c. namespace' = namespace
    BY DEF ReviewsNext, Handler, WorkerStep, Groups, ListVersion, Listed, ReviewRules, StartPool,
           StopSending, WaitReturns, WriteCatalog, Send, ReviewReturns, Fail, WorkerEnds,
           Leave, EditRules, reviewsVars, handler
<1>d. resources' = resources => Reviews(resources)' = Reviews(resources)
    BY <1>c DEF Reviews
<1>e. \A r \in Reviews(resources) : r \in Review
    BY DEF Reviews
<1> USE DEF ReviewsInv, PhaseInv, ReviewsTypeOK, Before, handler, pool, world, PoolInv, CatalogInv
<1>1. CASE Groups
    BY <1>1 DEF Groups, Answers
<1>2. CASE ListVersion
    BY <1>2 DEF ListVersion
<1>3. CASE Listed
    BY <1>3 DEF Listed
<1>5. CASE StartPool
    BY <1>5, <1>b, <1>d DEF StartPool
<1>6. CASE StopSending
    BY <1>6, <1>b, <1>d, <1>e DEF StopSending, Done
<1>7. CASE WaitReturns
    BY <1>7, <1>b, <1>d, <1>e DEF WaitReturns, Answers
<1>8. CASE WriteCatalog
    BY <1>8, <1>b, <1>d, <1>e DEF WriteCatalog, Answers
<1>9. ASSUME NEW w \in Worker, Send(w) PROVE PoolInv' /\ CatalogInv'
    BY <1>9, <1>b, <1>d, <1>e DEF Send
<1>11. ASSUME NEW w \in Worker, Fail(w) PROVE PoolInv' /\ CatalogInv'
    BY <1>11, <1>b, <1>d, <1>e DEF Fail
<1>12. ASSUME NEW w \in Worker, WorkerEnds(w) PROVE PoolInv' /\ CatalogInv'
    BY <1>12, <1>b, <1>d, <1>e DEF WorkerEnds
<1>13. CASE Leave
    BY <1>13, <1>b, <1>d, <1>e DEF Leave
<1>14. CASE EditRules
    BY <1>14, <1>a, <1>b, <1>d, <1>e DEF EditRules
<1>15. CASE UNCHANGED reviewsVars
    BY <1>15, <1>b, <1>d, <1>e DEF reviewsVars
<1>4. CASE ReviewRules
  <2>1. CASE byRules' = TRUE /\ pc' = "answer"
            /\ allowed' = {r \in Reviews(resources) : allowedByRules(RulesOf, r)}
    <3>1. namespace /\ WorldInv /\ RulesOf \in SUBSET Rule
        BY <1>4 DEF ReviewRules, RulesOf
    <3>2. UNCHANGED <<resources, rbac, seenAllowed, seenDenied, firstErr, cancelled, answer>>
          /\ answer = "none"
        BY <1>4, Zenon DEF ReviewRules
    <3>3. ASSUME NEW r \in Reviews(resources), r.resource.namespaced
          PROVE  Decided(r)'
      <4>1. r \in Review /\ (allowedByRules(RulesOf, r) <=> Authorizes(rbac, r))
          BY <3>1, <3>3, <1>e, RulesAgree DEF RulesOf
      <4>2. r \in allowed' <=> Authorizes(rbac, r)
          BY <2>1, <4>1
      <4> QED
          BY <3>1, <3>2, <4>1, <4>2 DEF WorldInv, Decided
    <3>4. CatalogInv'
        BY <2>1, <3>3, <1>d, <3>2
    <3> QED
        BY <2>1, <3>2, <3>4
  <2>2. CASE pc' = "fallback" /\ UNCHANGED <<byRules, allowed>>
    <3>1. UNCHANGED <<seenAllowed, firstErr, cancelled, answer, todo>>
        BY <1>4, Zenon DEF ReviewRules
    <3> QED
        BY <1>4, <2>2, <3>1 DEF ReviewRules
  <2> QED
      BY <1>4, <2>1, <2>2, Zenon DEF ReviewRules
<1>10. ASSUME NEW w \in Worker, ReviewReturns(w) PROVE PoolInv' /\ CatalogInv'
  <2>1. ~byRules /\ ~byRules' /\ pc \in {"send", "wait"} /\ UNCHANGED <<pc, resources, todo, answer>>
      BY <1>10 DEF ReviewReturns
  <2>2. CASE wpc' = [wpc EXCEPT ![w] = "fail"]
      BY <1>10, <2>1, <2>2 DEF ReviewReturns
  <2>3. CASE /\ allowed' = allowed \cup {r \in task[w] : Authorizes(rbac, r)}
             /\ wpc' = [wpc EXCEPT ![w] = "receive"]
    <3>1. allowed' \subseteq allowed \cup seenAllowed'
        BY <1>a, <2>3 DEF WorldInv
    <3>2. StillDecided
        BY <1>a, <2>3, <3>1, DecidedStays
    <3>3. ASSUME NEW r \in task[w] PROVE Decided(r)'
        BY <1>a, <2>1, <2>3 DEF WorldInv, Decided
    <3>4. ASSUME NEW v \in Worker \ {w} PROVE task'[v] = task[v] /\ wpc'[v] = wpc[v]
        BY <1>10, <2>3 DEF ReviewReturns
    <3>5. UNCHANGED <<firstErr, cancelled, gone>>
        BY <1>10 DEF ReviewReturns
    <3>6. (~byRules => allowed \subseteq seenAllowed)'
        BY <1>a, <2>1, <3>1
    <3> QED
        BY <1>10, <1>d, <1>e, <2>1, <2>3, <3>2, <3>3, <3>4, <3>5, <3>6 DEF ReviewReturns
  <2> QED
      BY <1>10, <2>2, <2>3 DEF ReviewReturns
<1> QED
    BY <1>1, <1>2, <1>3, <1>4, <1>5, <1>6, <1>7, <1>8, <1>9, <1>10, <1>11, <1>12,
       <1>13, <1>14, <1>15 DEF ReviewsNext, Handler, WorkerStep

-----------------------------------------------------------------------------
\* The inductive invariant holds in every state of the request.
THEOREM ReviewsInvariance == ReviewsSpec => []ReviewsInv
<1>1. ReviewsInv /\ [ReviewsNext]_reviewsVars => ReviewsInv'
    BY ReviewsTypeStep, WorldStep, PhaseStep, PoolStep DEF ReviewsInv
<1> QED
    BY <1>1, ReviewsStart, PTL DEF ReviewsSpec

\* The handler's variables keep their types, and no more workers are started than
\* the limit or the number of reviews allows.
THEOREM ReviewsTyped == ReviewsSpec => []ReviewsTypeOK
<1>1. ReviewsInv => ReviewsTypeOK
    BY DEF ReviewsInv
<1> QED
    BY <1>1, ReviewsInvariance, PTL

\* A catalog is given only when every verb in it has been decided by Kubernetes:
\* no failing or cancelled review is passed off as a refusal.
THEOREM CatalogIsTruthful == ReviewsSpec => []CatalogTruthful
<1>1. ReviewsInv => CatalogTruthful
    BY DEF ReviewsInv, CatalogInv, CatalogTruthful, Decided
<1> QED
    BY <1>1, ReviewsInvariance, PTL

\* No worker outlives the loop that waits for it: none writes a result while the
\* catalog is written, or after the answer.
THEOREM NoWorkerOutlives == ReviewsSpec => []NoWorkerLeft
<1>1. ReviewsInv => NoWorkerLeft
    BY DEF ReviewsInv, PhaseInv, NoWorkerLeft
<1> QED
    BY <1>1, ReviewsInvariance, PTL

\* The three together, as they are checked.
THEOREM ReviewsAreSound == ReviewsSpec => []ReviewsSound
BY ReviewsTyped, CatalogIsTruthful, NoWorkerOutlives, PTL DEF ReviewsSound
=============================================================================
