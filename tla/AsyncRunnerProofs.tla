------------------------- MODULE AsyncRunnerProofs -------------------------
(***************************************************************************)
(* What AsyncRunner guarantees for every number of jobs and keys and every *)
(* limit.  The argument: each job's own variables stay consistent          *)
(* (LocalInv); therefore active counts the jobs that deferred its release  *)
(* (ActiveInv), and each slot has one token and counts its users (SlotInv).*)
(* The bounds and the mutual exclusion follow.  The order lists every      *)
(* record once, because the loop that prunes it keeps all but the oldest   *)
(* that have ended (FilteringProofs).                                      *)
(***************************************************************************)
EXTENDS AsyncRunner, FilteringProofs

Submitted == {i \in Job : pc[i] # "idle"}

BeforeTask == {"active", "acquireKey", "gate", "putBack", "putToken", "forget", "check"}

\* The resources a goroutine holds at each position.
DeferredInv(i) ==
    /\ pc[i] \in {"idle", "active", "recover", "exit", "done"} => deferred[i] = {}
    /\ pc[i] \in {"acquireKey", "gate", "putBack", "putToken", "forget",
                  "returnToken", "releaseActive"} => deferred[i] = {"active"}
    /\ pc[i] \in {"check", "task"} =>
           deferred[i] = IF key[i] = NoKey THEN {"active"} ELSE Resources
    /\ pc[i] = "finish" => deferred[i] \in {{}, {"active"}, Resources}
    /\ pc[i] = "releaseKey" => deferred[i] = Resources
    /\ pc[i] \in {"acquireKey", "gate", "putBack", "putToken", "forget",
                  "returnToken"} \/ "key" \in deferred[i] => key[i] \in Key

\* The record and the error of a job at each position.
RecordInv(i) ==
    /\ pc[i] = "idle" => state[i] = "absent"
    /\ pc[i] \in BeforeTask => state[i] = "queued"
    /\ pc[i] \in {"putBack", "putToken", "forget"} => err[i] \in {"Canceled", "DeadlineExceeded"}
    /\ pc[i] = "task" => state[i] = "running"
    /\ pc[i] = "finish" => /\ state[i] \in Live
                           /\ err[i] # "panic"
                           /\ state[i] = "queued" => err[i] \in {"Canceled", "DeadlineExceeded"}
    /\ pc[i] = "recover" => err[i] = "panic" /\ state[i] = "running"
    /\ pc[i] \in {"exit", "done"} => state[i] \in Terminal \cup {"absent"}
    /\ pc[i] \in {"releaseKey", "returnToken", "releaseActive"} =>
           IF err[i] = "panic" THEN state[i] = "running"
                               ELSE state[i] \in Terminal \cup {"absent"}

LocalInv == \A i \in Job : DeferredInv(i) /\ RecordInv(i)

FiniteInv == IsFiniteSet(Submitted)

Holders == {i \in Job : "active" \in deferred[i]}

ActiveInv == active = Cardinality(Holders)

Users(s) == {i \in Job : HoldsReference(i) /\ slot[i] = s}

\* s has been allocated: the job that allocated it is past acquireKey.
Allocated(s) == s \in Job /\ pc[s] \notin {"idle", "active", "acquireKey"}

SlotInv ==
    /\ \A i \in Job : slot[i] # NoSlot => Allocated(slot[i])
    /\ \A k \in Key : keys[k] # NoSlot => Allocated(keys[k])
    /\ \A k, l \in Key : keys[k] = keys[l] /\ keys[k] # NoSlot => k = l
    /\ \A i \in Job : HoldsReference(i) \/ HoldsToken(i) => slot[i] # NoSlot
    /\ \A i \in Job : HoldsReference(i) => keys[key[i]] = slot[i]
    /\ \A i \in Job : HoldsToken(i) => gate[slot[i]] = 0
    /\ \A i, j \in Job : HoldsToken(i) /\ HoldsToken(j) /\ slot[i] = slot[j] => i = j
    /\ \A i \in Job : HoldsReference(i) /\ gate[slot[i]] = 0 =>
           \E j \in Job : HoldsToken(j) /\ slot[j] = slot[i]
    /\ \A s \in Job : refs[s] = Cardinality(Users(s))
    /\ \A k \in Key : keys[k] # NoSlot => refs[keys[k]] > 0

-----------------------------------------------------------------------------
LEMMA LocalInit == Init => LocalInv
BY DEF Init, LocalInv, DeferredInv, RecordInv, BeforeTask

\* A step that leaves the variables of every other job alone preserves LocalInv
\* when it preserves it for the job that moves.
LEMMA LocalFrame ==
    ASSUME LocalInv, NEW i \in Job, DeferredInv(i)', RecordInv(i)',
           \A j \in Job \ {i} : /\ pc'[j] = pc[j] /\ key'[j] = key[j]
                                /\ err'[j] = err[j] /\ deferred'[j] = deferred[j]
                                /\ state'[j] = state[j]
    PROVE  LocalInv'
<1> SUFFICES ASSUME NEW j \in Job \ {i} PROVE DeferredInv(j)' /\ RecordInv(j)'
  BY DEF LocalInv
<1>. QED
  BY DEF LocalInv, DeferredInv, RecordInv

LEMMA LocalStutter ==
    ASSUME LocalInv, UNCHANGED <<pc, key, err, deferred, state>>
    PROVE  LocalInv'
BY DEF LocalInv, DeferredInv, RecordInv

\* Whatever a goroutine does next when it unwinds, what it holds fits.
LEMMA UnwindFits ==
    ASSUME NEW i \in Job, NEW held \in {{}, {"active"}, Resources}, NEW e
    PROVE  /\ held = Resources => Unwind(i, held, e) = "releaseKey"
           /\ held = {"active"} => Unwind(i, held, e) = "releaseActive"
           /\ held = {} => Unwind(i, held, e) = IF e = "panic" THEN "recover" ELSE "exit"
<1>1. "key" \in Resources /\ "key" \notin {"active"} /\ {"active"} # {} /\ Resources # {"active"}
  BY DEF Resources
<1>. QED
  BY <1>1 DEF Unwind

\* No step makes a job's own variables inconsistent.
LEMMA LocalStep == TypeOK /\ LocalInv /\ [Next]_vars => LocalInv'
<1> SUFFICES ASSUME TypeOK, LocalInv, [Next]_vars PROVE LocalInv'
  OBVIOUS
<1>1. ASSUME NEW i \in Job, NEW k \in Key \cup {NoKey}, Submit(i, k)
      PROVE  LocalInv'
  <2>1. /\ pc' = [pc EXCEPT ![i] = "active"] /\ key' = [key EXCEPT ![i] = k]
        /\ UNCHANGED <<err, deferred>> /\ pc[i] = "idle"
    BY <1>1 DEF Submit
  <2>2. state'[i] = "queued"
    BY <1>1 DEF Submit
  <2>3. \A j \in Job : j # i => \/ state'[j] = state[j]
                                \/ (state[j] \in Terminal /\ state'[j] = "absent")
    BY <1>1 DEF Submit, Prunable
  <2>4. DeferredInv(i)' /\ RecordInv(i)'
    BY <2>1, <2>2 DEF TypeOK, LocalInv, DeferredInv, RecordInv, BeforeTask
  <2>5. ASSUME NEW j \in Job \ {i} PROVE DeferredInv(j)' /\ RecordInv(j)'
    <3>1. pc'[j] = pc[j] /\ key'[j] = key[j] /\ err'[j] = err[j] /\ deferred'[j] = deferred[j]
      BY <2>1 DEF TypeOK
    <3>. QED
      BY <2>3, <3>1 DEF LocalInv, DeferredInv, RecordInv, BeforeTask, Live, Terminal
  <2>. QED
    BY <2>4, <2>5 DEF LocalInv
<1>2. ASSUME NEW i \in Job, Goroutine(i) \/ TaskEnds(i)
      PROVE  LocalInv'
  <2>1. \A j \in Job \ {i} : /\ pc'[j] = pc[j] /\ key'[j] = key[j]
                             /\ err'[j] = err[j] /\ deferred'[j] = deferred[j]
                             /\ state'[j] = state[j]
    BY <1>2 DEF TypeOK, Goroutine, TakeActive, EndsWaitingForSlot, AcquireKey, TakeToken,
                EndsWaitingForKey, ReleaseKeyReference, ReleaseKey, SendToken, CheckContext,
                Finish, ReleaseActive, Exit, TaskEnds, TaskPanics, TaskReturns
  <2>2. DeferredInv(i) /\ RecordInv(i)
    BY DEF LocalInv
  <2> USE RunnerAssumption DEF TypeOK, DeferredInv, RecordInv, BeforeTask
  <2>3. CASE TakeActive(i)
    BY <2>1, <2>2, <2>3, LocalFrame DEF TakeActive
  <2>4. CASE EndsWaitingForSlot(i)
    BY <2>1, <2>2, <2>4, LocalFrame DEF EndsWaitingForSlot, CtxErr, Live
  <2>5. CASE AcquireKey(i)
    BY <2>1, <2>2, <2>5, LocalFrame DEF AcquireKey
  <2>6. CASE TakeToken(i)
    <3>1. {"active"} \cup {"key"} = Resources
      BY DEF Resources
    <3>2. deferred'[i] = IF ctx[i] = "nil" THEN Resources ELSE {"active"}
      BY <2>2, <2>6, <3>1 DEF TakeToken
    <3>3. key[i] \in Key /\ key'[i] = key[i] /\ state'[i] = "queued" /\ key[i] # NoKey
      BY <2>2, <2>6 DEF TakeToken
    <3>4. /\ pc'[i] = IF ctx[i] = "nil" THEN "check" ELSE "putBack"
          /\ err'[i] = ctx[i] /\ ctx[i] \in CtxErr
      BY <2>6 DEF TakeToken
    <3>. QED
      BY <2>1, <3>2, <3>3, <3>4, LocalFrame DEF CtxErr
  <2>7. CASE EndsWaitingForKey(i)
    BY <2>1, <2>2, <2>7, LocalFrame DEF EndsWaitingForKey, CtxErr
  <2>8. CASE ReleaseKeyReference(i)
    BY <2>1, <2>2, <2>8, LocalFrame DEF ReleaseKeyReference, CtxErr, Live
  <2>9. CASE ReleaseKey(i)
    <3>1. Resources \ {"key"} = {"active"}
      BY DEF Resources
    <3>2. deferred'[i] = {"active"} /\ pc'[i] = "returnToken"
      BY <2>2, <2>9, <3>1 DEF ReleaseKey
    <3>3. key[i] \in Key /\ key'[i] = key[i] /\ state'[i] = state[i] /\ err'[i] = err[i]
      BY <2>2, <2>9 DEF ReleaseKey, Resources
    <3>. QED
      BY <2>1, <2>2, <2>9, <3>2, <3>3, LocalFrame DEF ReleaseKey
  <2>10. CASE SendToken(i)
    BY <2>1, <2>2, <2>10, LocalFrame, UnwindFits DEF SendToken, CtxErr, Live
  <2>11. CASE CheckContext(i)
    BY <2>1, <2>2, <2>11, LocalFrame DEF CheckContext, CtxErr, Live
  <2>12. CASE Finish(i)
    BY <2>1, <2>2, <2>12, LocalFrame, UnwindFits DEF Finish, StateOf, Terminal
  <2>13. CASE ReleaseActive(i)
    BY <2>1, <2>2, <2>13, LocalFrame, UnwindFits DEF ReleaseActive
  <2>14. CASE Exit(i)
    BY <2>1, <2>2, <2>14, LocalFrame DEF Exit
  <2>15. CASE TaskEnds(i)
    <3>1. deferred[i] \in {{"active"}, Resources} /\ state[i] = "running"
      BY <2>2, <2>15 DEF TaskEnds, TaskPanics, TaskReturns
    <3>2. /\ deferred[i] = Resources => "key" \in deferred[i]
          /\ deferred[i] = {"active"} => "key" \notin deferred[i]
      BY DEF Resources
    <3>3. CASE TaskPanics(i)
      BY <2>1, <2>2, <3>1, <3>2, <3>3, LocalFrame, UnwindFits DEF TaskPanics
    <3>4. ASSUME NEW e \in TaskErr, TaskReturns(i, e) PROVE LocalInv'
      BY <2>1, <2>2, <3>1, <3>2, <3>4, LocalFrame DEF TaskReturns, Live, CtxErr
    <3>. QED
      BY <2>15, <3>3, <3>4 DEF TaskEnds
  <2>. QED
    BY <1>2, <2>3, <2>4, <2>5, <2>6, <2>7, <2>8, <2>9, <2>10, <2>11, <2>12, <2>13,
       <2>14, <2>15 DEF Goroutine
<1>3. ASSUME NEW i \in Job, Cancel(i) \/ Deadline(i) PROVE LocalInv'
  BY <1>3, LocalStutter DEF Cancel, Deadline
<1>4. CASE ParentEnds \/ Close \/ CloseReturns \/ Closed \/ UNCHANGED vars
  BY <1>4, LocalStutter DEF ParentEnds, Close, CloseReturns, Closed, vars
<1>. QED
  BY <1>1, <1>2, <1>3, <1>4 DEF Next, Caller

-----------------------------------------------------------------------------
\* Only finitely many jobs have been submitted.
LEMMA FiniteStep ==
    ASSUME TypeOK, LocalInv, FiniteInv, [Next]_vars
    PROVE  FiniteInv'
<1>1. ASSUME NEW i \in Job, NEW k \in Key \cup {NoKey}, Submit(i, k)
      PROVE  FiniteInv'
  <2>1. Submitted' = Submitted \cup {i}
    BY <1>1 DEF Submit, Submitted, TypeOK
  <2>. QED
    BY <2>1, FS_AddElement DEF FiniteInv
<1>2. ASSUME NEW i \in Job, Goroutine(i) \/ TaskEnds(i) PROVE pc[i] # "idle" /\ \A j \in Job \ {i} : pc'[j] = pc[j]
  BY <1>2 DEF TypeOK, Goroutine, TakeActive, EndsWaitingForSlot, AcquireKey, TakeToken,
     EndsWaitingForKey, ReleaseKeyReference, ReleaseKey, SendToken, CheckContext,
     Finish, ReleaseActive, Exit, TaskEnds, TaskPanics, TaskReturns
<1>3. ASSUME NEW i \in Job, Goroutine(i) \/ TaskEnds(i) PROVE FiniteInv'
  <2>1. Submitted' \subseteq Submitted
    BY <1>2, <1>3 DEF Submitted
  <2>. QED
    BY <2>1, FS_Subset DEF FiniteInv
<1>4. ASSUME UNCHANGED pc PROVE FiniteInv'
  BY <1>4 DEF FiniteInv, Submitted
<1>5. ASSUME NEW i \in Job, Cancel(i) \/ Deadline(i) PROVE FiniteInv'
  BY <1>4, <1>5 DEF Cancel, Deadline
<1>6. CASE ParentEnds \/ Close \/ CloseReturns \/ Closed \/ UNCHANGED vars
  BY <1>4, <1>6 DEF ParentEnds, Close, CloseReturns, Closed, vars
<1>. QED
  BY <1>1, <1>3, <1>5, <1>6 DEF Next, Caller

LEMMA HoldersFinite == ASSUME FiniteInv, LocalInv
                       PROVE  IsFiniteSet(Holders) /\ \A s : IsFiniteSet(Users(s))
<1>1. Holders \subseteq Submitted
  BY DEF Holders, Submitted, LocalInv, DeferredInv
<1>2. \A s : Users(s) \subseteq Submitted
  BY DEF Users, HoldsReference, Submitted, LocalInv, DeferredInv
<1>. QED
  BY <1>1, <1>2, FS_Subset DEF FiniteInv

\* Every step keeps the tokens in r.active equal to the releases still deferred.
LEMMA ActiveStep ==
    ASSUME TypeOK, FiniteInv, LocalInv, ActiveInv, [Next]_vars
    PROVE  ActiveInv'
<1> USE DEF TypeOK, ActiveInv
<1>1. ASSUME NEW i \in Job, TakeActive(i) PROVE ActiveInv'
  <2>1. i \notin Holders /\ Holders' = Holders \cup {i}
    BY <1>1 DEF TakeActive, Holders, LocalInv, DeferredInv
  <2>. QED
    BY <1>1, <2>1, HoldersFinite, FS_AddElement DEF TakeActive
<1>2. ASSUME NEW i \in Job, ReleaseActive(i) PROVE ActiveInv'
  <2>1. i \in Holders /\ Holders' = Holders \ {i}
    BY <1>2 DEF ReleaseActive, Holders, LocalInv, DeferredInv
  <2>. QED
    BY <1>2, <2>1, HoldersFinite, FS_RemoveElement DEF ReleaseActive
<1>3. ASSUME active' = active, Holders' = Holders PROVE ActiveInv'
  BY <1>3
<1>4. ASSUME NEW i \in Job, Goroutine(i) \/ TaskEnds(i), ~TakeActive(i), ~ReleaseActive(i)
      PROVE  active' = active /\ Holders' = Holders
  BY <1>4 DEF Holders, Goroutine, EndsWaitingForSlot, AcquireKey, TakeToken,
     EndsWaitingForKey, ReleaseKeyReference, ReleaseKey, SendToken, CheckContext,
     Finish, Exit, TaskEnds, TaskPanics, TaskReturns
<1>5. ASSUME NEW i \in Job, Caller(i) \/ Deadline(i)
      PROVE  active' = active /\ Holders' = Holders
  BY <1>5 DEF Holders, Caller, Submit, Cancel, Deadline
<1>6. ASSUME ParentEnds \/ Close \/ CloseReturns \/ Closed \/ UNCHANGED vars
      PROVE  active' = active /\ Holders' = Holders
  BY <1>6 DEF Holders, ParentEnds, Close, CloseReturns, Closed, vars
<1>. QED
  BY <1>1, <1>2, <1>3, <1>4, <1>5, <1>6 DEF Next

-----------------------------------------------------------------------------
\* Steps that leave slots, references and tokens as they are.
LEMMA SlotFrame ==
    ASSUME SlotInv, TypeOK, UNCHANGED <<keys, refs, gate>>,
           \A j \in Job : HoldsReference(j)' <=> HoldsReference(j),
           \A j \in Job : HoldsToken(j)' <=> HoldsToken(j),
           \A j \in Job : HoldsReference(j) => key'[j] = key[j],
           \A j \in Job : \/ slot'[j] = slot[j]
                          \/ slot'[j] = NoSlot /\ ~HoldsReference(j) /\ ~HoldsToken(j),
           \A s \in Job : Allocated(s) => Allocated(s)'
    PROVE  SlotInv'
<1>1. \A s \in Job : Users(s)' = Users(s)
  BY RunnerAssumption DEF Users
<1>2. \A j \in Job : HoldsReference(j) \/ HoldsToken(j) => slot'[j] = slot[j]
  OBVIOUS
<1>3. \A j \in Job : (slot[j] # NoSlot => Allocated(slot[j]))'
  BY DEF SlotInv, Allocated
<1>4. \A k \in Key : (keys[k] # NoSlot => Allocated(keys[k]))'
  BY DEF SlotInv, Allocated
<1>. QED
  BY <1>1, <1>2, <1>3, <1>4 DEF SlotInv

\* A job gives its reference up, and the slot goes with the last one.
LEMMA SlotDrop ==
    ASSUME SlotInv, TypeOK, NEW i \in Job, NEW s \in Job, slot[i] = s, IsFiniteSet(Users(s)),
           HoldsReference(i), ~HoldsReference(i)', key[i] \in Key,
           DropReference(key[i]), UNCHANGED <<gate, key, slot>>,
           \A j \in Job \ {i} : HoldsReference(j)' <=> HoldsReference(j),
           \A j \in Job : HoldsToken(j)' <=> HoldsToken(j),
           \A r \in Job : Allocated(r) => Allocated(r)'
    PROVE  SlotInv'
<1>1. keys[key[i]] = s /\ s # NoSlot
  BY RunnerAssumption DEF SlotInv, TypeOK
<1>2. i \in Users(s) /\ Users(s)' = Users(s) \ {i}
  BY DEF Users
<1>3. \A t \in Job : t # s => Users(t)' = Users(t)
  BY DEF Users
<1>4. refs[s] = Cardinality(Users(s)) /\ refs[s] \in Nat
  BY <1>1 DEF SlotInv, TypeOK
<1>5. /\ IsFiniteSet(Users(s) \ {i})
      /\ Cardinality(Users(s) \ {i}) = refs[s] - 1
  BY <1>2, <1>4, FS_RemoveElement
<1>6. refs[s] = 1 => Users(s)' = {}
  BY <1>2, <1>4, <1>5, FS_EmptySet
<1>7. refs[s] > 0
  BY <1>2, <1>4, FS_EmptySet
<1>8. /\ \A t \in Job : t # s => refs'[t] = refs[t]
      /\ refs'[s] = refs[s] - 1
      /\ \A l \in Key : l # key[i] => keys'[l] = keys[l]
      /\ keys'[key[i]] = IF refs[s] = 1 THEN NoSlot ELSE s
  BY <1>1 DEF DropReference, TypeOK
<1>9. ASSUME NEW j \in Job, HoldsReference(j)' PROVE keys'[key[j]] = slot[j]
  <2>1. HoldsReference(j) /\ j # i /\ keys[key[j]] = slot[j]
    BY <1>9 DEF SlotInv
  <2>2. CASE key[j] = key[i]
    <3>1. j \in Users(s)' /\ slot[j] = s
      BY <1>1, <1>9, <2>1, <2>2 DEF Users
    <3>. QED
      BY <1>6, <1>8, <2>2, <3>1
  <2>3. CASE key[j] # key[i]
    <3>1. keys'[key[j]] = keys[key[j]]
      BY <2>3 DEF DropReference, TypeOK
    <3>. QED
      BY <2>1, <3>1
  <2>. QED
    BY <2>2, <2>3
<1>10. \A t \in Job : refs'[t] = Cardinality(Users(t)')
  BY <1>2, <1>3, <1>5, <1>8 DEF SlotInv
<1>11. \A k \in Key : keys'[k] # NoSlot => keys'[k] = keys[k] /\ refs'[keys'[k]] > 0
  BY <1>1, <1>4, <1>7, <1>8, RunnerAssumption DEF SlotInv, TypeOK
<1>12. \A j \in Job : (slot[j] # NoSlot => Allocated(slot[j]))'
  BY DEF SlotInv, Allocated
<1>13. \A k \in Key : (keys[k] # NoSlot => Allocated(keys[k]))'
  BY <1>11 DEF SlotInv, Allocated
<1>. QED
  BY <1>9, <1>10, <1>11, <1>12, <1>13 DEF SlotInv

\* The first half of acquireKey: the key's slot, found or made, gets a user.
LEMMA SlotAcquire ==
    ASSUME SlotInv, TypeOK, LocalInv, FiniteInv, NEW i \in Job, AcquireKey(i)
    PROVE  SlotInv'
<1>1. PICK s \in Job : s = IF keys[key[i]] = NoSlot THEN i ELSE keys[key[i]]
  BY RunnerAssumption DEF TypeOK, LocalInv, DeferredInv, AcquireKey
<1>2. /\ key[i] \in Key /\ deferred[i] = {"active"} /\ pc[i] = "acquireKey"
      /\ ~HoldsReference(i) /\ ~HoldsToken(i)
  BY DEF AcquireKey, LocalInv, DeferredInv, HoldsReference, HoldsToken
<1>3. /\ keys' = [keys EXCEPT ![key[i]] = s]
      /\ gate' = IF keys[key[i]] = NoSlot THEN [gate EXCEPT ![i] = 1] ELSE gate
      /\ refs' = [refs EXCEPT ![s] = @ + 1]
      /\ slot' = [slot EXCEPT ![i] = s]
      /\ pc' = [pc EXCEPT ![i] = "gate"]
      /\ UNCHANGED <<key, deferred>>
  BY <1>1 DEF AcquireKey
<1>4. HoldsReference(i)' /\ ~HoldsToken(i)'
  BY <1>2, <1>3 DEF HoldsReference, HoldsToken, TypeOK
<1>5. \A j \in Job \ {i} : /\ HoldsReference(j)' <=> HoldsReference(j)
                           /\ HoldsToken(j)' <=> HoldsToken(j)
                           /\ slot'[j] = slot[j]
  BY <1>3 DEF HoldsReference, HoldsToken, TypeOK
<1>6. (\A t \in Job : Allocated(t) => Allocated(t)') /\ Allocated(i)'
  BY <1>3 DEF Allocated, TypeOK
<1>7. ~Allocated(i) /\ s # NoSlot /\ slot'[i] = s /\ keys'[key[i]] = s
  BY <1>2, <1>3, RunnerAssumption DEF Allocated, TypeOK
<1>8. /\ \A j \in Job : slot[j] # i
      /\ \A k \in Key : keys[k] # i
  BY <1>7, RunnerAssumption DEF SlotInv, Allocated
<1>9. Allocated(s)'
  <2>1. CASE keys[key[i]] = NoSlot
    BY <1>1, <1>6, <2>1
  <2>2. CASE keys[key[i]] # NoSlot
    BY <1>1, <1>2, <1>6, <2>2 DEF SlotInv
  <2>. QED
    BY <2>1, <2>2
<1>10. \A j \in Job : (slot[j] # NoSlot => Allocated(slot[j]))'
  <2> SUFFICES ASSUME NEW j \in Job, slot'[j] # NoSlot PROVE Allocated(slot[j])'
    OBVIOUS
  <2>1. CASE j = i
    BY <1>7, <1>9, <2>1 DEF Allocated
  <2>2. CASE j # i
    BY <1>5, <1>6, <2>2 DEF SlotInv, Allocated
  <2>. QED
    BY <2>1, <2>2
<1>11. \A k \in Key : keys'[k] = IF k = key[i] THEN s ELSE keys[k]
  BY <1>2, <1>3 DEF TypeOK
<1>12. \A k \in Key : (keys[k] # NoSlot => Allocated(keys[k]))'
  <2> SUFFICES ASSUME NEW k \in Key, keys'[k] # NoSlot PROVE Allocated(keys[k])'
    OBVIOUS
  <2>1. CASE k = key[i]
    BY <1>9, <1>11, <2>1 DEF Allocated
  <2>2. CASE k # key[i]
    BY <1>6, <1>11, <2>2 DEF SlotInv, Allocated
  <2>. QED
    BY <2>1, <2>2
<1>13. \A k, l \in Key : keys'[k] = keys'[l] /\ keys'[k] # NoSlot => k = l
  BY <1>1, <1>2, <1>8, <1>11 DEF SlotInv
<1>14. \A j \in Job : HoldsReference(j)' => keys'[key[j]] = slot'[j]
  <2> SUFFICES ASSUME NEW j \in Job, HoldsReference(j)' PROVE keys'[key[j]] = slot'[j]
    OBVIOUS
  <2>1. CASE j = i
    BY <1>7, <2>1
  <2>2. CASE j # i
    <3>1. HoldsReference(j) /\ slot'[j] = slot[j] /\ keys[key[j]] = slot[j] /\ slot[j] # NoSlot
      BY <1>5, <2>2 DEF SlotInv
    <3>2. key[j] \in Key
      BY <3>1 DEF HoldsReference, LocalInv, DeferredInv
    <3>. QED
      BY <1>1, <1>11, <3>1, <3>2
  <2>. QED
    BY <2>1, <2>2
<1>15. /\ \A j \in Job : HoldsToken(j)' => HoldsToken(j) /\ j # i /\ slot'[j] = slot[j] /\ slot[j] # i
       /\ \A j \in Job : HoldsToken(j) => HoldsToken(j)' /\ slot'[j] = slot[j]
  BY <1>2, <1>4, <1>5, <1>8
<1>16. \A t \in Job : t # i => gate'[t] = gate[t]
  BY <1>3 DEF TypeOK
<1>17. \A j \in Job : HoldsToken(j)' => gate'[slot'[j]] = 0
  BY <1>15, <1>16, RunnerAssumption DEF SlotInv, TypeOK
<1>18. keys[key[i]] # NoSlot /\ gate[s] = 0 => \E j \in Job : HoldsToken(j) /\ slot[j] = s
  <2> SUFFICES ASSUME keys[key[i]] # NoSlot, gate[s] = 0
               PROVE  \E j \in Job : HoldsToken(j) /\ slot[j] = s
    OBVIOUS
  <2>1. keys[key[i]] = s /\ refs[s] > 0 /\ refs[s] = Cardinality(Users(s))
    BY <1>1, <1>2 DEF SlotInv
  <2>2. Users(s) # {}
    BY <2>1, FS_EmptySet
  <2>. QED
    BY <2>2 DEF Users, SlotInv
<1>19. \A j \in Job : HoldsReference(j)' /\ gate'[slot'[j]] = 0 =>
           \E l \in Job : HoldsToken(l)' /\ slot'[l] = slot'[j]
  <2> SUFFICES ASSUME NEW j \in Job, HoldsReference(j)', gate'[slot'[j]] = 0
               PROVE  \E l \in Job : HoldsToken(l)' /\ slot'[l] = slot'[j]
    OBVIOUS
  <2>1. CASE j = i
    <3>1. keys[key[i]] # NoSlot /\ gate' = gate
      BY <1>1, <1>3, <1>7, <2>1 DEF TypeOK
    <3>. QED
      BY <1>7, <1>15, <1>18, <2>1, <3>1
  <2>2. CASE j # i
    <3>1. HoldsReference(j) /\ slot'[j] = slot[j] /\ slot[j] # i /\ slot[j] \in Job
      BY <1>5, <1>8, <2>2 DEF SlotInv, TypeOK
    <3>2. gate[slot[j]] = 0
      BY <1>16, <3>1
    <3>. QED
      BY <1>15, <3>1, <3>2 DEF SlotInv
  <2>. QED
    BY <2>1, <2>2
<1>20. \A t \in Job : Users(t)' = IF t = s THEN Users(t) \cup {i} ELSE Users(t)
  BY <1>2, <1>4, <1>5, <1>7 DEF Users
<1>21. i \notin Users(s) /\ IsFiniteSet(Users(s))
  BY <1>2, HoldersFinite DEF Users
<1>22. Cardinality(Users(s) \cup {i}) = Cardinality(Users(s)) + 1
  BY <1>21, FS_AddElement
<1>23. \A t \in Job : refs'[t] = IF t = s THEN refs[t] + 1 ELSE refs[t]
  BY <1>3 DEF TypeOK
<1>24. \A t \in Job : refs'[t] = Cardinality(Users(t)')
  BY <1>20, <1>22, <1>23 DEF SlotInv
<1>25. \A k \in Key : keys'[k] # NoSlot => refs'[keys'[k]] > 0
  BY <1>11, <1>23, RunnerAssumption DEF SlotInv, TypeOK
<1>26. \A j \in Job : HoldsReference(j)' \/ HoldsToken(j)' => slot'[j] # NoSlot
  BY <1>4, <1>5, <1>7 DEF SlotInv
<1>27. \A j, l \in Job : HoldsToken(j)' /\ HoldsToken(l)' /\ slot'[j] = slot'[l] => j = l
  BY <1>15 DEF SlotInv
<1>. QED
  BY <1>3, <1>10, <1>12, <1>13, <1>14, <1>17, <1>19, <1>24, <1>25, <1>26, <1>27 DEF SlotInv

\* The token of a slot leaves its gate for one waiter ...
LEMMA SlotTake ==
    ASSUME SlotInv, TypeOK, LocalInv, NEW i \in Job, TakeToken(i)
    PROVE  SlotInv'
<1>1. /\ pc[i] = "gate" /\ deferred[i] = {"active"}
      /\ HoldsReference(i) /\ ~HoldsToken(i)
  BY DEF TakeToken, LocalInv, DeferredInv, HoldsReference, HoldsToken
<1>2. slot[i] \in Job /\ gate[slot[i]] = 1
  BY <1>1 DEF TakeToken, SlotInv, TypeOK
<1>3. HoldsReference(i)' /\ HoldsToken(i)'
  BY <1>1 DEF TakeToken, HoldsReference, HoldsToken, TypeOK
<1>4. \A j \in Job \ {i} : /\ HoldsReference(j)' <=> HoldsReference(j)
                           /\ HoldsToken(j)' <=> HoldsToken(j)
  BY DEF TakeToken, HoldsReference, HoldsToken, TypeOK
<1>5. \A s \in Job : Users(s)' = Users(s)
  BY <1>1, <1>3, <1>4 DEF Users, TakeToken
<1>6. \A s \in Job : Allocated(s) => Allocated(s)'
  BY DEF TakeToken, Allocated, TypeOK
<1>7. /\ \A t \in Job : gate'[t] = IF t = slot[i] THEN 0 ELSE gate[t]
      /\ UNCHANGED <<keys, refs, slot, key>>
  BY <1>2 DEF TakeToken, TypeOK
<1>8. \A j \in Job : HoldsToken(j) => slot[j] # slot[i]
  BY <1>2 DEF SlotInv
<1>9. \A j \in Job : (slot[j] # NoSlot => Allocated(slot[j]))'
  BY <1>6, <1>7 DEF SlotInv, Allocated
<1>10. \A k \in Key : (keys[k] # NoSlot => Allocated(keys[k]))'
  BY <1>6, <1>7 DEF SlotInv, Allocated
<1>11. \A j \in Job : HoldsReference(j)' \/ HoldsToken(j)' => slot[j] # NoSlot
  BY <1>1, <1>4 DEF SlotInv
<1>12. \A j \in Job : HoldsToken(j)' => gate'[slot[j]] = 0
  BY <1>4, <1>7, <1>11 DEF SlotInv, TypeOK
<1>13. \A j, l \in Job : HoldsToken(j)' /\ HoldsToken(l)' /\ slot[j] = slot[l] => j = l
  BY <1>4, <1>8 DEF SlotInv
<1>14. \A j \in Job : HoldsReference(j)' /\ gate'[slot[j]] = 0 =>
           \E l \in Job : HoldsToken(l)' /\ slot[l] = slot[j]
  <2> SUFFICES ASSUME NEW j \in Job, HoldsReference(j)', gate'[slot[j]] = 0
               PROVE  \E l \in Job : HoldsToken(l)' /\ slot[l] = slot[j]
    OBVIOUS
  <2>1. CASE slot[j] = slot[i]
    BY <1>3, <2>1
  <2>2. CASE slot[j] # slot[i]
    <3>1. HoldsReference(j) /\ gate[slot[j]] = 0
      BY <1>4, <1>7, <1>11, <2>2 DEF TypeOK
    <3>. QED
      BY <1>1, <1>4, <3>1 DEF SlotInv
  <2>. QED
    BY <2>1, <2>2
<1>15. \A j \in Job : HoldsReference(j)' => HoldsReference(j)
  BY <1>1, <1>4
<1>. QED
  BY <1>5, <1>7, <1>9, <1>10, <1>11, <1>12, <1>13, <1>14, <1>15 DEF SlotInv

\* ... and comes back from the only job that has it.
LEMMA SlotSend ==
    ASSUME SlotInv, TypeOK, LocalInv, NEW i \in Job, SendToken(i)
    PROVE  SlotInv'
<1>1. /\ pc[i] \in {"putToken", "returnToken"} /\ deferred[i] = {"active"}
      /\ ~HoldsReference(i) /\ HoldsToken(i)
  BY DEF SendToken, LocalInv, DeferredInv, HoldsReference, HoldsToken
<1>2. pc'[i] \in {"finish", "releaseActive"} /\ deferred' = deferred
  BY <1>1 DEF SendToken, Unwind, TypeOK
<1>3. ~HoldsReference(i)' /\ ~HoldsToken(i)'
  BY <1>1, <1>2 DEF HoldsReference, HoldsToken
<1>4. \A j \in Job \ {i} : /\ HoldsReference(j)' <=> HoldsReference(j)
                           /\ HoldsToken(j)' <=> HoldsToken(j)
  BY DEF SendToken, HoldsReference, HoldsToken, TypeOK
<1>5. \A s \in Job : Users(s)' = Users(s)
  BY <1>1, <1>3, <1>4 DEF Users, SendToken
<1>6. \A s \in Job : Allocated(s) => Allocated(s)'
  BY <1>1, <1>2 DEF SendToken, Allocated, TypeOK
<1>7. slot[i] \in Job
  BY <1>1 DEF SlotInv, TypeOK
<1>8. /\ \A t \in Job : gate'[t] = IF t = slot[i] THEN 1 ELSE gate[t]
      /\ UNCHANGED <<keys, refs, slot, key>>
  BY <1>7 DEF SendToken, TypeOK
<1>9. \A j \in Job : (slot[j] # NoSlot => Allocated(slot[j]))'
  BY <1>6, <1>8 DEF SlotInv, Allocated
<1>10. \A k \in Key : (keys[k] # NoSlot => Allocated(keys[k]))'
  BY <1>6, <1>8 DEF SlotInv, Allocated
<1>11. \A j \in Job : HoldsReference(j)' \/ HoldsToken(j)' => slot[j] # NoSlot /\ slot[j] \in Job
  BY <1>3, <1>4 DEF SlotInv, TypeOK
<1>12. \A j \in Job : HoldsToken(j)' => gate'[slot[j]] = 0
  BY <1>1, <1>3, <1>4, <1>8, <1>11 DEF SlotInv
<1>13. \A j, l \in Job : HoldsToken(j)' /\ HoldsToken(l)' /\ slot[j] = slot[l] => j = l
  BY <1>3, <1>4 DEF SlotInv
<1>14. \A j \in Job : HoldsReference(j)' /\ gate'[slot[j]] = 0 =>
           \E l \in Job : HoldsToken(l)' /\ slot[l] = slot[j]
  <2> SUFFICES ASSUME NEW j \in Job, HoldsReference(j)', gate'[slot[j]] = 0
               PROVE  \E l \in Job : HoldsToken(l)' /\ slot[l] = slot[j]
    OBVIOUS
  <2>1. slot[j] # slot[i] /\ HoldsReference(j) /\ gate[slot[j]] = 0
    BY <1>3, <1>4, <1>8, <1>11
  <2>2. PICK l \in Job : HoldsToken(l) /\ slot[l] = slot[j]
    BY <2>1 DEF SlotInv
  <2>3. l # i
    BY <2>1, <2>2
  <2>. QED
    BY <1>4, <2>2, <2>3
<1>15. \A j \in Job : HoldsReference(j)' => HoldsReference(j)
  BY <1>3, <1>4
<1>. QED
  BY <1>5, <1>8, <1>9, <1>10, <1>11, <1>12, <1>13, <1>14, <1>15 DEF SlotInv

\* Every step keeps the slots in order.
LEMMA SlotStep ==
    ASSUME SlotInv, TypeOK, LocalInv, FiniteInv, [Next]_vars
    PROVE  SlotInv'
<1>1. ASSUME NEW i \in Job, NEW k \in Key \cup {NoKey}, Submit(i, k)
      PROVE  SlotInv'
  <2>1. /\ UNCHANGED <<keys, refs, gate, slot, deferred>>
        /\ pc[i] = "idle" /\ pc' = [pc EXCEPT ![i] = "active"]
        /\ key' = [key EXCEPT ![i] = k]
    BY <1>1 DEF Submit
  <2>2. ~HoldsReference(i)
    BY <2>1 DEF HoldsReference, LocalInv, DeferredInv
  <2>. QED
    BY <2>1, <2>2, SlotFrame DEF HoldsReference, HoldsToken, Allocated, TypeOK
<1>2. ASSUME NEW i \in Job,
             \/ TakeActive(i) \/ EndsWaitingForSlot(i) \/ EndsWaitingForKey(i)
             \/ CheckContext(i) \/ Finish(i) \/ ReleaseActive(i) \/ TaskEnds(i)
      PROVE  SlotInv'
  <2>1. UNCHANGED <<keys, refs, gate, slot, key>>
    BY <1>2 DEF TakeActive, EndsWaitingForSlot, EndsWaitingForKey, CheckContext, Finish,
                ReleaseActive, TaskEnds, TaskPanics, TaskReturns
  <2>2. \A j \in Job \ {i} : pc'[j] = pc[j] /\ deferred'[j] = deferred[j]
    BY <1>2 DEF TakeActive, EndsWaitingForSlot, EndsWaitingForKey, CheckContext, Finish,
                ReleaseActive, TaskEnds, TaskPanics, TaskReturns, TypeOK
  <2>3. \/ /\ pc[i] \in {"active", "check", "finish", "recover", "releaseActive", "task"}
           /\ pc'[i] \in {"finish", "check", "acquireKey", "task", "releaseKey",
                          "releaseActive", "recover", "exit"}
           /\ pc'[i] = "acquireKey" => pc[i] = "active"
           /\ "key" \in deferred'[i] <=> "key" \in deferred[i]
        \/ pc[i] = "gate" /\ pc'[i] = "forget" /\ deferred'[i] = deferred[i]
    BY <1>2 DEF TakeActive, EndsWaitingForSlot, EndsWaitingForKey, CheckContext, Finish,
                ReleaseActive, TaskEnds, TaskPanics, TaskReturns, TypeOK, Unwind,
                LocalInv, DeferredInv
  <2>4. \A j \in Job : /\ HoldsReference(j)' <=> HoldsReference(j)
                       /\ HoldsToken(j)' <=> HoldsToken(j)
                       /\ Allocated(j) => Allocated(j)'
    BY <2>2, <2>3 DEF HoldsReference, HoldsToken, Allocated
  <2>. QED
    BY <2>1, <2>4, SlotFrame
<1>3. ASSUME NEW i \in Job, Exit(i) PROVE SlotInv'
  <2>1. /\ UNCHANGED <<keys, refs, gate, key, deferred>>
        /\ pc[i] = "exit" /\ pc' = [pc EXCEPT ![i] = "done"]
        /\ slot' = [slot EXCEPT ![i] = NoSlot]
    BY <1>3 DEF Exit
  <2>2. ~HoldsReference(i) /\ ~HoldsToken(i)
    BY <2>1 DEF HoldsReference, HoldsToken, LocalInv, DeferredInv
  <2>. QED
    BY <2>1, <2>2, SlotFrame DEF HoldsReference, HoldsToken, Allocated, TypeOK
<1>4. ASSUME NEW i \in Job, ReleaseKeyReference(i) \/ ReleaseKey(i) PROVE SlotInv'
  <2>1. /\ pc[i] \in {"putBack", "forget", "releaseKey"} /\ key[i] \in Key
        /\ HoldsReference(i) /\ DropReference(key[i]) /\ UNCHANGED <<gate, key>>
        /\ deferred[i] = IF pc[i] = "releaseKey" THEN Resources ELSE {"active"}
    BY <1>4 DEF ReleaseKeyReference, ReleaseKey, LocalInv, DeferredInv, HoldsReference, Resources
  <2>2. slot[i] \in Job /\ keys[key[i]] = slot[i]
    BY <2>1 DEF SlotInv, TypeOK
  <2>3. slot' = slot
    BY <1>4, <2>2 DEF ReleaseKeyReference, ReleaseKey, TypeOK
  <2>4. /\ \A j \in Job \ {i} : pc'[j] = pc[j] /\ deferred'[j] = deferred[j]
        /\ pc'[i] = CASE pc[i] = "putBack" -> "putToken"
                      [] pc[i] = "forget" -> "finish"
                      [] OTHER -> "returnToken"
        /\ "key" \notin deferred'[i]
    BY <1>4, <2>1 DEF ReleaseKeyReference, ReleaseKey, TypeOK
  <2>5. /\ ~HoldsReference(i)'
        /\ \A j \in Job \ {i} : HoldsReference(j)' <=> HoldsReference(j)
        /\ \A j \in Job : HoldsToken(j)' <=> HoldsToken(j)
        /\ \A s \in Job : Allocated(s) => Allocated(s)'
    BY <2>1, <2>4 DEF HoldsReference, HoldsToken, Allocated, Resources
  <2>6. IsFiniteSet(Users(slot[i]))
    BY HoldersFinite
  <2>. QED
    BY <2>1, <2>2, <2>3, <2>5, <2>6, SlotDrop
<1>5. ASSUME NEW i \in Job, Cancel(i) \/ Deadline(i) PROVE SlotInv'
  <2>1. UNCHANGED <<keys, refs, gate, slot, key, pc, deferred>>
    BY <1>5 DEF Cancel, Deadline
  <2>. QED
    BY <2>1, SlotFrame DEF HoldsReference, HoldsToken, Allocated
<1>6. CASE ParentEnds \/ Close \/ CloseReturns \/ Closed \/ UNCHANGED vars
  <2>1. UNCHANGED <<keys, refs, gate, slot, key, pc, deferred>>
    BY <1>6 DEF ParentEnds, Close, CloseReturns, Closed, vars
  <2>. QED
    BY <2>1, SlotFrame DEF HoldsReference, HoldsToken, Allocated
<1>. QED
  BY <1>1, <1>2, <1>3, <1>4, <1>5, <1>6, SlotAcquire, SlotTake, SlotSend
     DEF Next, Caller, Goroutine

-----------------------------------------------------------------------------
CloseInv == closer = "returned" => Returned = Job

IInv == /\ TypeOK
        /\ FiniteInv
        /\ LocalInv
        /\ ActiveInv
        /\ SlotInv
        /\ RecordBound
        /\ CloseInv

LEMMA InvInit == Init => IInv
<1> SUFFICES ASSUME Init PROVE IInv
  OBVIOUS
<1>1. TypeOK
  BY RunnerAssumption DEF Init, TypeOK, State, Position, CtxErr
<1>2. Submitted = {} /\ Holders = {} /\ Recorded = {} /\ \A s : Users(s) = {}
  BY DEF Init, Submitted, Holders, Recorded, Users, HoldsReference
<1>3. FiniteInv /\ ActiveInv /\ RecordBound
  BY <1>2, FS_EmptySet, RunnerAssumption DEF Init, FiniteInv, ActiveInv, RecordBound
<1>4. SlotInv
  BY <1>2, FS_EmptySet DEF Init, SlotInv, HoldsReference, HoldsToken
<1>. QED
  BY <1>1, <1>3, <1>4, LocalInit DEF IInv, CloseInv, Init

LEMMA TypeStep == IInv /\ [Next]_vars => TypeOK'
<1> SUFFICES ASSUME IInv, [Next]_vars PROVE TypeOK'
  OBVIOUS
<1> USE RunnerAssumption DEF IInv
<1>1. ASSUME NEW i \in Job, NEW k \in Key \cup {NoKey}, Submit(i, k)
      PROVE  TypeOK'
  BY <1>1 DEF Submit, TypeOK, State, Live, Position
<1>2. ASSUME NEW i \in Job, TakeActive(i) PROVE TypeOK'
  BY <1>2 DEF TakeActive, TypeOK, ActiveFree, Position, Resources
<1>3. ASSUME NEW i \in Job, AcquireKey(i) PROVE TypeOK'
  <2>1. key[i] \in Key
    BY <1>3 DEF AcquireKey, LocalInv, DeferredInv
  <2>. QED
    BY <1>3, <2>1 DEF AcquireKey, TypeOK, Position
<1>4. ASSUME NEW i \in Job, TakeToken(i) PROVE TypeOK'
  <2>1. HoldsReference(i)
    BY <1>4 DEF TakeToken, HoldsReference
  <2>2. slot[i] \in Job
    BY <2>1 DEF SlotInv, TypeOK
  <2>3. gate' \in [Job -> 0..1] /\ deferred' \in [Job -> SUBSET Resources]
    BY <1>4, <2>2 DEF TakeToken, TypeOK, Resources
  <2>4. pc' \in [Job -> Position] /\ err' \in [Job -> CtxErr \cup {"other", "panic"}]
    BY <1>4 DEF TakeToken, TypeOK, Position
  <2>. QED
    BY <1>4, <2>3, <2>4 DEF TakeToken, TypeOK
<1>5. ASSUME NEW i \in Job, EndsWaitingForSlot(i) \/ EndsWaitingForKey(i) PROVE TypeOK'
  BY <1>5 DEF EndsWaitingForSlot, EndsWaitingForKey, TypeOK, Position, CtxErr
<1>6. ASSUME NEW i \in Job, ReleaseKeyReference(i) \/ ReleaseKey(i) PROVE TypeOK'
  <2>1. HoldsReference(i) /\ key[i] \in Key
    BY <1>6 DEF ReleaseKeyReference, ReleaseKey, HoldsReference, LocalInv, DeferredInv, Resources
  <2>2. keys[key[i]] \in Job /\ refs[keys[key[i]]] \in Nat \ {0}
    BY <2>1 DEF SlotInv, Allocated, TypeOK
  <2>3. refs' \in [Job -> Nat] /\ keys' \in [Key -> Job \cup {NoSlot}]
    BY <1>6, <2>1, <2>2 DEF ReleaseKeyReference, ReleaseKey, DropReference, TypeOK
  <2>4. pc' \in [Job -> Position] /\ slot' \in [Job -> Job \cup {NoSlot}]
        /\ deferred' \in [Job -> SUBSET Resources]
    BY <1>6, <2>2 DEF ReleaseKeyReference, ReleaseKey, TypeOK, Position
  <2>. QED
    BY <1>6, <2>3, <2>4 DEF ReleaseKeyReference, ReleaseKey, TypeOK
<1>7. ASSUME NEW i \in Job, SendToken(i) PROVE TypeOK'
  <2>1. HoldsToken(i)
    BY <1>7 DEF SendToken, HoldsToken
  <2>2. slot[i] \in Job
    BY <2>1 DEF SlotInv, TypeOK
  <2>3. gate' \in [Job -> 0..1]
    BY <1>7, <2>2 DEF SendToken, TypeOK
  <2>4. pc' \in [Job -> Position]
    BY <1>7 DEF SendToken, Unwind, TypeOK, Position
  <2>. QED
    BY <1>7, <2>3, <2>4 DEF SendToken, TypeOK
<1>8. ASSUME NEW i \in Job, CheckContext(i) PROVE TypeOK'
  BY <1>8 DEF CheckContext, TypeOK, Position, CtxErr, State, Live
<1>9. ASSUME NEW i \in Job, Finish(i) PROVE TypeOK'
  BY <1>9 DEF Finish, Unwind, StateOf, TypeOK, Position, State, Terminal
<1>10. ASSUME NEW i \in Job, ReleaseActive(i) PROVE TypeOK'
  <2>1. i \in Holders
    BY <1>10 DEF ReleaseActive, Holders, LocalInv, DeferredInv
  <2>2. active # 0
    BY <2>1, HoldersFinite, FS_EmptySet DEF ActiveInv
  <2>. QED
    BY <1>10, <2>2 DEF ReleaseActive, Unwind, TypeOK, Position, Resources
<1>11. ASSUME NEW i \in Job, Exit(i) PROVE TypeOK'
  BY <1>11 DEF Exit, TypeOK, Position, CtxErr
<1>12. ASSUME NEW i \in Job, TaskEnds(i) PROVE TypeOK'
  BY <1>12 DEF TaskEnds, TaskPanics, TaskReturns, Unwind, TypeOK, Position, CtxErr
<1>13. ASSUME NEW i \in Job, Cancel(i) \/ Deadline(i) PROVE TypeOK'
  BY <1>13 DEF Cancel, Deadline, TypeOK, CtxErr
<1>14. CASE ParentEnds \/ Close
  BY <1>14 DEF ParentEnds, Close, EndContexts, TypeOK, CtxErr
<1>15. CASE CloseReturns \/ Closed \/ UNCHANGED vars
  BY <1>15 DEF CloseReturns, Closed, vars, TypeOK
<1>. QED
  BY <1>1, <1>2, <1>3, <1>4, <1>5, <1>6, <1>7, <1>8, <1>9, <1>10, <1>11, <1>12,
     <1>13, <1>14, <1>15 DEF Next, Caller, Goroutine

\* Only a job with an unfinished goroutine changes its record, and never to "absent".
LEMMA RecordStep ==
    ASSUME IInv, [Next]_vars,
           ~ \E i \in Job, k \in Key \cup {NoKey} : Submit(i, k)
    PROVE  \A j \in Job : \/ state'[j] = state[j]
                          \/ state[j] \in Live /\ state'[j] \in Live \cup Terminal
<1> USE DEF IInv, TypeOK
<1>1. ASSUME NEW i \in Job, CheckContext(i) \/ Finish(i) 
      PROVE  /\ state[i] \in Live
             /\ state' = [state EXCEPT ![i] = state'[i]] /\ state'[i] \in Live \cup Terminal
  BY <1>1 DEF CheckContext, Finish, StateOf, LocalInv, RecordInv, BeforeTask, Live, Terminal
<1>2. ASSUME NEW i \in Job, Goroutine(i) \/ TaskEnds(i), ~CheckContext(i), ~Finish(i)
      PROVE  state' = state
  BY <1>2 DEF Goroutine, TakeActive, EndsWaitingForSlot, AcquireKey, TakeToken,
     EndsWaitingForKey, ReleaseKeyReference, ReleaseKey, SendToken, ReleaseActive, Exit,
     TaskEnds, TaskPanics, TaskReturns
<1>3. ASSUME \/ \E i \in Job : Cancel(i) \/ Deadline(i)
             \/ ParentEnds \/ Close \/ CloseReturns \/ Closed \/ UNCHANGED vars
      PROVE  state' = state
  BY <1>3 DEF Cancel, Deadline, ParentEnds, Close, CloseReturns, Closed, vars
<1>. QED
  BY <1>1, <1>2, <1>3 DEF Next, Caller

LEMMA RecordBoundStep == IInv /\ [Next]_vars => RecordBound'
<1> SUFFICES ASSUME IInv, [Next]_vars PROVE RecordBound'
  OBVIOUS
<1>1. IsFiniteSet(Recorded)
  <2>1. Recorded \subseteq Submitted
    BY DEF IInv, LocalInv, RecordInv, Recorded, Submitted
  <2>. QED
    BY <2>1, FS_Subset DEF IInv, FiniteInv
<1>2. ASSUME NEW i \in Job, NEW k \in Key \cup {NoKey}, Submit(i, k)
      PROVE  RecordBound'
  <2>1. PICK pruned \in SUBSET Recorded :
            /\ Cardinality(Recorded \ pruned) < MaxRecords
            /\ state' = [j \in Job |-> IF j = i THEN "queued"
                                       ELSE IF j \in pruned THEN "absent"
                                       ELSE state[j]]
    BY <1>2 DEF Submit, Prunable
  <2>2. Recorded' = (Recorded \ pruned) \cup {i}
    BY <2>1 DEF Recorded
  <2>3. IsFiniteSet(Recorded \ pruned)
    BY <1>1, FS_Subset
  <2>4. Cardinality(Recorded \ pruned) \in Nat
    BY <2>3, FS_CardinalityType
  <2>5. Cardinality((Recorded \ pruned) \cup {i}) \in
            {Cardinality(Recorded \ pruned), Cardinality(Recorded \ pruned) + 1}
    BY <2>3, FS_AddElement
  <2>6. Cardinality((Recorded \ pruned) \cup {i}) <= MaxRecords
    BY <2>1, <2>4, <2>5, RunnerAssumption
  <2>. QED
    BY <2>2, <2>6 DEF RecordBound
<1>3. ASSUME ~ \E i \in Job, k \in Key \cup {NoKey} : Submit(i, k)
      PROVE  RecordBound'
  <2>1. Recorded' = Recorded
    BY <1>3, RecordStep DEF Recorded, Live, Terminal
  <2>. QED
    BY <2>1 DEF IInv, RecordBound
<1>. QED
  BY <1>2, <1>3

LEMMA CloseStep == IInv /\ [Next]_vars => CloseInv'
<1> SUFFICES ASSUME IInv, [Next]_vars, closer' = "returned" PROVE Returned' = Job
  BY DEF CloseInv
<1>1. Returned = Job
  BY DEF IInv, CloseInv, Next, Caller, Submit, Cancel, Goroutine, TakeActive,
     EndsWaitingForSlot, AcquireKey, TakeToken, EndsWaitingForKey, ReleaseKeyReference,
     ReleaseKey, SendToken, CheckContext, Finish, ReleaseActive, Exit, TaskEnds,
     TaskPanics, TaskReturns, Deadline, ParentEnds, Close, CloseReturns, Closed, vars
<1>2. pc' = pc
  BY <1>1 DEF Returned, Next, Caller, Submit, Cancel, Goroutine, TakeActive,
     EndsWaitingForSlot, AcquireKey, TakeToken, EndsWaitingForKey, ReleaseKeyReference,
     ReleaseKey, SendToken, CheckContext, Finish, ReleaseActive, Exit, TaskEnds,
     TaskPanics, TaskReturns, Deadline, ParentEnds, Close, CloseReturns, Closed, vars
<1>. QED
  BY <1>1, <1>2 DEF Returned

\* The inductive invariant.
THEOREM Invariance == Spec => []IInv
<1>1. IInv /\ [Next]_vars => IInv'
  <2> SUFFICES ASSUME IInv, [Next]_vars PROVE IInv'
    OBVIOUS
  <2>1. TypeOK /\ FiniteInv /\ LocalInv /\ ActiveInv /\ SlotInv
    BY DEF IInv
  <2>. QED
    BY <2>1, TypeStep, FiniteStep, LocalStep, ActiveStep, SlotStep, RecordBoundStep,
       CloseStep DEF IInv
<1>. QED
  BY <1>1, InvInit, PTL DEF Spec

-----------------------------------------------------------------------------
\* Every variable keeps its type: the counters active and refs never go below
\* zero, and no send on a gate finds it full.
THEOREM TypeCorrect == Spec => []TypeOK
<1>1. IInv => TypeOK
  BY DEF IInv
<1>. QED
  BY <1>1, Invariance, PTL

\* Two jobs that have deferred releaseKey for the same key are one job.
LEMMA OneKeyHolder ==
    ASSUME IInv, NEW i \in Job, NEW j \in Job, key[i] = key[j],
           "key" \in deferred[i], "key" \in deferred[j]
    PROVE  i = j
<1>1. slot[i] = keys[key[i]] /\ slot[j] = keys[key[j]]
  BY DEF IInv, SlotInv, HoldsReference
<1>. QED
  BY <1>1 DEF IInv, SlotInv, HoldsToken

\* Operations with the same nonempty key are serialized.
THEOREM KeysSerialized == Spec => []KeyExclusion
<1>1. IInv => KeyExclusion
  <2> SUFFICES ASSUME IInv, NEW i \in Executing, NEW j \in Executing,
                      i # j, key[i] = key[j], key[i] # NoKey
               PROVE  FALSE
    BY DEF KeyExclusion
  <2>1. "key" \in deferred[i] /\ "key" \in deferred[j]
    BY DEF IInv, LocalInv, DeferredInv, Executing, Resources
  <2>. QED
    BY <2>1, OneKeyHolder DEF Executing
<1>. QED
  BY <1>1, Invariance, PTL

\* A slot's token is in its gate or with one job, a slot counts its users, and
\* the map holds the slots in use.
THEOREM SlotsAccounted == Spec => []SlotAccounting
<1>1. IInv => SlotAccounting
  <2> SUFFICES ASSUME IInv PROVE SlotAccounting
    OBVIOUS
  <2>1. \A i \in Job : HoldsReference(i) =>
            (gate[slot[i]] = 0 <=> \E j \in Job : HoldsToken(j) /\ slot[j] = slot[i])
    BY DEF IInv, SlotInv
  <2>. QED
    BY <2>1 DEF IInv, SlotInv, SlotAccounting, Users
<1>. QED
  BY <1>1, Invariance, PTL

\* No more than MaxConcurrent tasks run at a time.
THEOREM ConcurrencyBounded == Spec => []ConcurrencyBound
<1>1. IInv => ConcurrencyBound
  <2> SUFFICES ASSUME IInv PROVE ConcurrencyBound
    OBVIOUS
  <2>1. Executing \subseteq Holders
    BY DEF IInv, LocalInv, DeferredInv, Executing, Holders, Resources
  <2>2. IsFiniteSet(Holders)
    BY HoldersFinite DEF IInv
  <2>3. /\ Cardinality(Executing) <= Cardinality(Holders)
        /\ Cardinality(Executing) \in Nat /\ Cardinality(Holders) \in Nat
    BY <2>1, <2>2, FS_Subset, FS_CardinalityType
  <2>. QED
    BY <2>3, RunnerAssumption DEF IInv, ActiveInv, TypeOK, ConcurrencyBound
<1>. QED
  BY <1>1, Invariance, PTL

\* Pruning keeps r.order in step with r.jobs: it lists what is recorded.
LEMMA OrderStep ==
    ASSUME IInv, Lists(order, Recorded), [Next]_vars
    PROVE  Lists(order, Recorded)'
<1>1. ASSUME NEW i \in Job, NEW k \in Key \cup {NoKey}, Submit(i, k)
      PROVE  Lists(order, Recorded)'
  <2>1. PICK pruned : /\ order' = Append(Keeping(order, Job \ pruned), i)
                      /\ state' = [j \in Job |-> IF j = i THEN "queued"
                                                 ELSE IF j \in pruned THEN "absent"
                                                 ELSE state[j]]
    BY <1>1 DEF Submit, Unpruned
  <2>2. i \notin Recorded
    BY <1>1 DEF Submit, IInv, LocalInv, RecordInv, Recorded
  <2> DEFINE kept == Recorded \cap (Job \ pruned)
  <2>3. Recorded' = kept \cup {i}
    BY <2>1 DEF Recorded
  <2>4. Lists(Keeping(order, Job \ pruned), kept)
    BY KeepingLists
  <2>5. Lists(order', kept \cup {i})
    BY <2>1, <2>2, <2>4, AppendLists
  <2>. QED
    BY <2>3, <2>5 DEF Lists
<1>2. ASSUME ~ \E i \in Job, k \in Key \cup {NoKey} : Submit(i, k)
      PROVE  Lists(order, Recorded)'
  <2>1. Recorded' = Recorded
    BY <1>2, RecordStep DEF Recorded, Live, Terminal
  <2>2. order' = order
    BY <1>2 DEF Next, Caller, Cancel, Goroutine, TakeActive,
       EndsWaitingForSlot, AcquireKey, TakeToken, EndsWaitingForKey, ReleaseKeyReference,
       ReleaseKey, SendToken, CheckContext, Finish, ReleaseActive, Exit, TaskEnds,
       TaskPanics, TaskReturns, Deadline, ParentEnds, Close, CloseReturns, Closed, vars
  <2>. QED
    BY <2>1, <2>2 DEF Lists
<1>. QED
  BY <1>1, <1>2

THEOREM OrderListsRecords == Spec => []Lists(order, Recorded)
<1>1. Init => Lists(order, Recorded)
  BY DEF Init, Lists, Recorded
<1>2. IInv /\ Lists(order, Recorded) /\ [Next]_vars => Lists(order, Recorded)'
  BY OrderStep
<1>. QED
  BY <1>1, <1>2, Invariance, PTL DEF Spec

\* r.order lists exactly the recorded jobs, once each, and there are no more of them
\* than maxRecords (runner.go:143-160, 221-232).
THEOREM RecordsInStep == Spec => []RecordsAgree
<1>1. IInv /\ Lists(order, Recorded) => RecordsAgree
  <2> SUFFICES ASSUME IInv, Lists(order, Recorded) PROVE RecordsAgree
    OBVIOUS
  <2>1. Len(order) = Cardinality(Recorded)
    BY ListLength
  <2>2. order \in Seq(Recorded) /\ \A i \in Recorded : \E n \in 1..Len(order) : order[n] = i
    BY DEF Lists
  <2>3. RecordBound
    BY DEF IInv
  <2>. QED
    BY <2>1, <2>2, <2>3 DEF RecordsAgree
<1>. QED
  BY <1>1, Invariance, OrderListsRecords, PTL

\* A record is pruned only when there is no room, alone, and when no older one of an
\* ended job is there (runner.go:221-232).
LEMMA PruneOldest ==
    ASSUME IInv, Lists(order, Recorded), [Next]_vars,
           NEW i \in Job, state[i] # "absent", state'[i] = "absent"
    PROVE  /\ Cardinality(Recorded) = MaxRecords
           /\ \A j \in Recorded \ {i} : /\ state'[j] # "absent"
                                        /\ Before(j, i) => state[j] \in Live
<1>1. PICK n \in Job, k \in Key \cup {NoKey} : Submit(n, k)
  <2>1. ~ (state'[i] = state[i] \/ state'[i] \in Live \cup Terminal)
    BY DEF Live, Terminal
  <2>. QED
    BY <2>1, RecordStep
<1>2. IsFiniteSet(Recorded) /\ Cardinality(Recorded) \in Nat
  BY ListLength, FS_CardinalityType
<1>3. Cardinality(Recorded) <= MaxRecords
  BY DEF IInv, RecordBound
<1> DEFINE ended == {j \in Recorded : state[j] \in Terminal}
           older(j) == {o \in ended : Before(o, j)}
<1>4. /\ Cardinality(Recorded) >= MaxRecords
      /\ \A j \in Job : j # n /\ state[j] # "absent" /\ state'[j] = "absent" =>
             j \in ended /\ Cardinality(older(j)) + MaxRecords <= Cardinality(Recorded)
      /\ state'[n] = "queued"
  BY <1>1 DEF Submit, Prunable
<1>5. ASSUME NEW j \in Job, state[j] # "absent", state'[j] = "absent"
      PROVE  j \in ended /\ older(j) = {}
  <2>1. j \in ended /\ Cardinality(older(j)) + MaxRecords <= Cardinality(Recorded)
    BY <1>4, <1>5
  <2>2. IsFiniteSet(older(j)) /\ Cardinality(older(j)) \in Nat
    BY <1>2, FS_Subset, FS_CardinalityType
  <2>3. Cardinality(older(j)) = 0
    <3> HIDE DEF older
    <3>. QED
      BY <1>2, <1>3, <2>1, <2>2, RunnerAssumption
  <2>. QED
    BY <2>1, <2>2, <2>3, FS_EmptySet
<1>6. ASSUME NEW j \in Recorded \ {i} PROVE state'[j] # "absent" /\ (Before(j, i) => state[j] \in Live)
  <2>1. i \in Recorded /\ j \in Job /\ state[j] # "absent"
    BY DEF Recorded
  <2>2. PICK l, m \in 1..Len(order) : order[l] = i /\ order[m] = j
    BY <2>1 DEF Lists
  <2>3. l # m /\ l \in Nat /\ m \in Nat
    BY <2>2 DEF Lists
  <2>4. Before(i, j) \/ Before(j, i)
    BY <2>2, <2>3 DEF Before
  <2>5. state[j] \in Live \/ j \in ended
    BY <2>1 DEF IInv, TypeOK, State, Recorded
  <2>. QED
    BY <1>5, <2>1, <2>4, <2>5
<1>7. Cardinality(Recorded) = MaxRecords
  BY <1>2, <1>3, <1>4, RunnerAssumption
<1>. QED
  BY <1>6, <1>7

\* A finished record leaves only to make room for one new job, the oldest one first.
THEOREM PrunesOldest == Spec => OldestPruned
<1>1. IInv /\ Lists(order, Recorded) /\ [Next]_vars =>
          [\A i \in Job : state[i] # "absent" /\ state'[i] = "absent" =>
              /\ Cardinality(Recorded) = MaxRecords
              /\ \A j \in Recorded \ {i} :
                    /\ state'[j] # "absent"
                    /\ Before(j, i) => state[j] \in Live]_vars
  BY PruneOldest
<1>. QED
  BY <1>1, Invariance, OrderListsRecords, PTL DEF Spec, OldestPruned

\* Pruning never removes a record that its goroutine will still write.
THEOREM RecordsKept == Spec => []RecordKept
<1>1. IInv => RecordKept
  BY DEF IInv, RecordKept, BeforeFinish, LocalInv, RecordInv, BeforeTask, Live, TypeOK, Position
<1>. QED
  BY <1>1, Invariance, PTL

\* After Close has returned nothing runs, waits or holds anything.
THEOREM ClosedIsQuiet == Spec => []QuietAfterClose
<1>1. IInv => QuietAfterClose
  <2> SUFFICES ASSUME IInv, closer = "returned"
               PROVE  /\ active = 0
                      /\ \A k \in Key : keys[k] = NoSlot
                      /\ \A i \in Job : pc[i] \in {"idle", "done"} /\ state[i] \notin Live
    BY DEF QuietAfterClose
  <2>1. \A i \in Job : pc[i] \in {"idle", "done"} /\ deferred[i] = {} /\ state[i] \notin Live
    BY DEF IInv, CloseInv, Returned, LocalInv, DeferredInv, RecordInv, Live, Terminal
  <2>2. Holders = {} /\ \A s : Users(s) = {}
    BY <2>1 DEF Holders, Users, HoldsReference
  <2>3. active = 0
    BY <2>2, FS_EmptySet DEF IInv, ActiveInv
  <2>4. \A s \in Job : refs[s] = 0
    BY <2>2, FS_EmptySet DEF IInv, SlotInv
  <2>5. \A k \in Key : keys[k] = NoSlot
    BY <2>4 DEF IInv, SlotInv, Allocated
  <2>. QED
    BY <2>1, <2>3, <2>5
<1>. QED
  BY <1>1, Invariance, PTL

\* A reported outcome never changes; its record may only be pruned.
THEOREM OutcomesFinal == Spec => OutcomeFinal
<1>1. IInv /\ [Next]_vars =>
          [\A i \in Job : state[i] \in Terminal => state'[i] \in {state[i], "absent"}]_vars
  <2> SUFFICES ASSUME IInv, [Next]_vars, NEW i \in Job, state[i] \in Terminal
               PROVE  state'[i] \in {state[i], "absent"}
    OBVIOUS
  <2>1. ASSUME NEW j \in Job, NEW k \in Key \cup {NoKey}, Submit(j, k)
        PROVE  state'[i] \in {state[i], "absent"}
    <3>1. i # j
      BY <2>1 DEF Submit, IInv, LocalInv, RecordInv, Terminal
    <3>. QED
      BY <2>1, <3>1 DEF Submit
  <2>2. CASE ~ \E j \in Job, k \in Key \cup {NoKey} : Submit(j, k)
    BY <2>2, RecordStep DEF Live, Terminal
  <2>. QED
    BY <2>1, <2>2
<1>. QED
  BY <1>1, Invariance, PTL DEF Spec, OutcomeFinal

-----------------------------------------------------------------------------
\* The abstract module counts as this one does.
LEMMA SameCardinality == \A S : Executor!Cardinality(S) = Cardinality(S)
BY DEF Executor!Cardinality, Cardinality

\* The step in which a task begins is one the executor allows.
LEMMA BeginImplements ==
    ASSUME IInv, NEW i \in Job, CheckContext(i), ctx[i] = "nil"
    PROVE  Executor!Begin(i)
<1>1. /\ state[i] = "queued" /\ pc[i] = "check" /\ i \notin Executing /\ i \in Holders
      /\ key[i] # NoKey => "key" \in deferred[i]
  BY DEF CheckContext, IInv, LocalInv, RecordInv, DeferredInv, BeforeTask, Executing,
         Holders, Resources
<1>2. Executing \cup {i} \subseteq Holders
  BY <1>1 DEF IInv, LocalInv, DeferredInv, Executing, Holders, Resources
<1>3. IsFiniteSet(Holders)
  BY HoldersFinite DEF IInv
<1>4. IsFiniteSet(Executing)
  BY <1>2, <1>3, FS_Subset
<1>5. Cardinality(Executing \cup {i}) = Cardinality(Executing) + 1
  BY <1>1, <1>4, FS_AddElement
<1>6. Cardinality(Executing \cup {i}) <= Cardinality(Holders)
  BY <1>2, <1>3, FS_Subset
<1>7. Cardinality(Executing) \in Nat
  BY <1>4, FS_CardinalityType
<1>8. Cardinality(Executing) < MaxConcurrent
  BY <1>5, <1>6, <1>7, RunnerAssumption DEF IInv, ActiveInv, TypeOK
<1>9. key[i] # NoKey => \A j \in Executing : key[j] # key[i]
  <2> SUFFICES ASSUME key[i] # NoKey, NEW j \in Executing, key[j] = key[i] PROVE FALSE
    OBVIOUS
  <2>1. "key" \in deferred[j] /\ j \in Job
    BY DEF IInv, LocalInv, DeferredInv, Executing, Resources
  <2>. QED
    BY <1>1, <2>1, OneKeyHolder
<1>10. /\ state' = [state EXCEPT ![i] = "running"]
       /\ pc' = [pc EXCEPT ![i] = "task"]
       /\ UNCHANGED <<key, closer, runnerCtx>>
  BY DEF CheckContext
<1>11. Executing' = Executing \cup {i}
  BY <1>10 DEF Executing, IInv, TypeOK
<1>12. {j \in Job : pc'[j] # "idle"} = {j \in Job : pc[j] # "idle"}
  BY <1>1, <1>10 DEF IInv, TypeOK
<1>. QED
  BY <1>1, <1>8, <1>9, <1>10, <1>11, <1>12, SameCardinality DEF Executor!Begin

\* Every step of the runner is a step of the executor or none.
LEMMA StepImplements == IInv /\ [Next]_vars => [Executor!ExecNext]_(Executor!execVars)
<1> SUFFICES ASSUME IInv, [Next]_vars
             PROVE  Executor!ExecNext \/ UNCHANGED Executor!execVars
  OBVIOUS
<1> DEFINE accepted == {j \in Job : pc[j] # "idle"}
<1> USE DEF IInv
<1>1. ASSUME NEW i \in Job, NEW k \in Key \cup {NoKey}, Submit(i, k)
      PROVE  Executor!ExecNext
  <2>1. PICK pruned \in SUBSET Recorded :
            /\ \A j \in pruned : state[j] \in Terminal
            /\ pruned # {} => Cardinality(Recorded) >= MaxRecords
            /\ Cardinality(Recorded \ pruned) < MaxRecords
            /\ state' = [j \in Job |-> IF j = i THEN "queued"
                                       ELSE IF j \in pruned THEN "absent"
                                       ELSE state[j]]
    BY <1>1 DEF Submit, Prunable
  <2>2. /\ pc[i] = "idle" /\ pc' = [pc EXCEPT ![i] = "active"]
        /\ key' = [key EXCEPT ![i] = k]
        /\ closer = "open" /\ runnerCtx = "nil" /\ UNCHANGED <<closer, runnerCtx>>
    BY <1>1 DEF Submit
  <2>3. Executing' = Executing /\ accepted' = accepted \cup {i} /\ i \notin accepted
    BY <2>2 DEF Executing, TypeOK
  <2>4. Executor!Accept(i, k, pruned)
    BY <2>1, <2>2, <2>3, SameCardinality DEF Executor!Accept, Executor!Kept, Executor!Outcome, Recorded, Terminal
  <2>5. pruned \in SUBSET Executor!Kept
    BY DEF Executor!Kept, Recorded
  <2>. QED
    BY <2>4, <2>5 DEF Executor!ExecNext
<1>2. ASSUME NEW i \in Job, CheckContext(i), ctx[i] = "nil"
      PROVE  Executor!ExecNext
  BY <1>2, BeginImplements DEF Executor!ExecNext
<1>3. ASSUME NEW i \in Job, TaskEnds(i)
      PROVE  Executor!ExecNext
  <2>1. /\ pc[i] = "task" /\ pc'[i] \notin {"task", "idle"}
        /\ \A j \in Job \ {i} : pc'[j] = pc[j]
        /\ UNCHANGED <<state, key, closer, runnerCtx>>
    BY <1>3 DEF TaskEnds, TaskPanics, TaskReturns, Unwind, TypeOK
  <2>2. i \in Executing /\ Executing' = Executing \ {i} /\ accepted' = accepted
    BY <2>1 DEF Executing
  <2>3. Executor!End(i)
    BY <2>1, <2>2 DEF Executor!End
  <2>. QED
    BY <2>3 DEF Executor!ExecNext
<1>4. ASSUME NEW i \in Job, Finish(i)
      PROVE  Executor!ExecNext
  <2>1. /\ pc[i] \in {"finish", "recover"} /\ pc'[i] \notin {"task", "idle"}
        /\ \A j \in Job \ {i} : pc'[j] = pc[j]
        /\ UNCHANGED <<key, closer, runnerCtx>>
        /\ state' = [state EXCEPT ![i] = StateOf(err[i])]
    BY <1>4 DEF Finish, Unwind, TypeOK
  <2>2. i \notin Executing /\ Executing' = Executing /\ accepted' = accepted
    BY <2>1 DEF Executing
  <2>3. /\ state[i] \in Live
        /\ state[i] = "queued" => StateOf(err[i]) \in {"canceled", "timed_out"}
        /\ StateOf(err[i]) \in Terminal
    BY <2>1 DEF LocalInv, RecordInv, StateOf, Live, Terminal
  <2>4. Executor!Settle(i, StateOf(err[i]))
    BY <2>1, <2>2, <2>3 DEF Executor!Settle, Executor!Unfinished, Live
  <2>. QED
    BY <2>3, <2>4 DEF Executor!ExecNext, Executor!Outcome, Terminal
<1>5. ASSUME NEW i \in Job, Goroutine(i), ~Finish(i), ~(CheckContext(i) /\ ctx[i] = "nil")
      PROVE  UNCHANGED Executor!execVars
  <2>1. /\ pc[i] \notin {"task", "idle"} /\ pc'[i] \notin {"task", "idle"}
        /\ \A j \in Job \ {i} : pc'[j] = pc[j]
        /\ UNCHANGED <<state, key, closer, runnerCtx>>
    BY <1>5 DEF Goroutine, TakeActive, EndsWaitingForSlot, AcquireKey, TakeToken,
       EndsWaitingForKey, ReleaseKeyReference, ReleaseKey, SendToken, CheckContext,
       ReleaseActive, Exit, Unwind, TypeOK
  <2>. QED
    BY <2>1 DEF Executor!execVars, Executing
<1>6. ASSUME NEW i \in Job, Cancel(i) \/ Deadline(i)
      PROVE  UNCHANGED Executor!execVars
  BY <1>6 DEF Cancel, Deadline, Executor!execVars, Executing
<1>7. CASE ParentEnds \/ Close
  <2>1. /\ UNCHANGED <<state, key, pc>>
        /\ ~(closer' = "open" /\ runnerCtx' = "nil")
    BY <1>7 DEF ParentEnds, Close
  <2>2. Executing' = Executing /\ accepted' = accepted
    BY <2>1 DEF Executing
  <2>3. CASE closer = "open" /\ runnerCtx = "nil"
    BY <2>1, <2>2, <2>3 DEF Executor!ExecNext, Executor!Shut
  <2>4. CASE ~(closer = "open" /\ runnerCtx = "nil")
    BY <2>1, <2>2, <2>4 DEF Executor!execVars
  <2>. QED
    BY <2>3, <2>4
<1>8. CASE CloseReturns \/ Closed \/ UNCHANGED vars
  BY <1>8 DEF CloseReturns, Closed, vars, Executor!execVars, Executing
<1>. QED
  BY <1>1, <1>2, <1>3, <1>4, <1>5, <1>6, <1>7, <1>8 DEF Next, Caller

\* The runner implements the keyed executor.
THEOREM Refinement == Spec => ImplementsExecutor
<1>1. Init => Executor!ExecInit
  BY DEF Init, Executor!ExecInit, Executing
<1>. QED
  BY <1>1, StepImplements, Invariance, PTL DEF Spec, ImplementsExecutor, Executor!ExecSpec
=============================================================================
