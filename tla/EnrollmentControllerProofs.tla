---------------------- MODULE EnrollmentControllerProofs ----------------------
(***************************************************************************)
(* For any projects, policies, identities and number of faults and edits:  *)
(* writes are journaled first and sent once, one K8 identity is kept, what *)
(* is served is enrolled, and a role that was taken away is not given      *)
(* back.  The argument: whatever is on disk or in memory, a project's      *)
(* entry remembers the writes that were sent for it (Remembers), and where *)
(* the cycle is tells what it has recorded already (PositionInv).          *)
(***************************************************************************)
EXTENDS EnrollmentController, TLAPS

\* Positions of the cycle: before the loop over the projects, and in project.
Creating     == {"saveIdentityPending", "authorizeIdentity", "createIdentity"}
BeforeLoop   == Creating \cup {"idle", "down", "discover", "recordIdentity"}
Enrolling    == {"saveHumanPending", "authorizeHuman", "enrollHuman"}
BeforeTarget == Enrolling \cup {"project", "readMachine", "readHuman", "readJoined"}
Granting     == {"savePending", "authorizeSet", "set"}
Reconciling  == Granting \cup {"target", "saveSeen", "readBack", "saveGranted"}
AtProject    == BeforeTarget \cup Reconciling
                \cup {"saveRevoked", "rereadMachine", "readOnly", "saveReady"}

\* What an entry of the ledger remembers of the writes s that were sent.
Remembers(e, s) ==
    /\ e.pending = "k8" => e.seen["host"]
    /\ s["human_enrollment"] > 0 => e.pending # "none" \/ e.seen["host"]
    /\ \A t \in Target : s[t] > 0 => e.pending = t \/ e.seen[t]

MemoryInv == \A q \in Project : /\ Remembers(disk.projects[q], sent[q])
                                /\ Remembers(ledger.projects[q], sent[q])

SentOnce == \A q \in Project, w \in Write : sent[q][w] <= 1

IdentityInv ==
    /\ disk.k8 \in {NoId, ledger.k8}
    /\ PolicyK8 # NoId => ledger.k8 \in {NoId, PolicyK8}
    /\ creates > 0 => \A l \in {disk, ledger} : l.identityPending \/ l.k8 # NoId
    /\ creates <= 1

LoopInv ==
    /\ pc \in Creating => /\ PolicyK8 = NoId /\ ledger.k8 = NoId
                          /\ ledger.identityPending /\ creates = 0
    /\ pc \in BeforeLoop => verified = {}
    /\ todo \cap verified = {}
    /\ pc \in AtProject => cur \in Project \ (todo \cup access \cup verified)
    /\ pc \in AtProject /\ p.repair => \A w \in Write : sent[cur][w] = 0

PositionInv ==
    /\ pc \in {"authorizeIdentity", "createIdentity", "authorizeHuman", "enrollHuman",
               "authorizeSet", "set"} => disk = ledger
    /\ pc \in BeforeTarget => tgt = "host"
    /\ pc = "readHuman" => p.repair \/ ~entry.seen["host"]
    /\ pc \in Enrolling => entry.pending = "human_enrollment" /\ sent[cur]["human_enrollment"] = 0
    /\ pc \in Granting \cup {"readBack"} => entry.pending = tgt
    /\ pc \in Granting => /\ sent[cur][tgt] = 0
                          /\ p.repair \/ (items[tgt] = "none" /\ ~entry.seen[tgt])
    /\ pc = "rereadMachine" \/ (pc \in Reconciling /\ tgt = "k8") => ~human /\ entry.seen["host"]
    /\ pc \in {"saveSeen", "saveGranted"} => entry.seen[tgt]
    /\ pc \in {"readOnly", "saveReady"} => entry.seen["host"] /\ entry.seen["k8"]
    /\ pc = "saveReady" => entry.pending = "none" /\ ~entry.revoked

\* ServedIsEnrolled, for the file and for the memory.
Ready(e) == e.pending = "none" /\ ~e.revoked /\ e.seen["host"] /\ e.seen["k8"]

ServedInv == \A q \in access \cup verified : Ready(disk.projects[q]) /\ Ready(ledger.projects[q])

LedgerInv == MemoryInv /\ SentOnce /\ IdentityInv
CycleInv  == LoopInv /\ PositionInv /\ ServedInv
IInv == TypeOK /\ LedgerInv /\ CycleInv

\* The local variables of a cycle.
CycleTyped ==
    /\ p \in Policies /\ todo \subseteq Project /\ cur \in Project \cup {"none"}
    /\ tgt \in Target /\ human \in BOOLEAN /\ items \in [Target -> Role]

-----------------------------------------------------------------------------
LEMMA InitEnrollment == Init => IInv
<1> SUFFICES ASSUME Init PROVE IInv
    OBVIOUS
<1>1. NewEntry \in Entry
    BY DEF NewEntry, Entry, Target
<1>2. ledger \in Ledger /\ disk = ledger
    BY <1>1 DEF Init, Ledger
<1>3. TypeOK
    <2>1. items \in [Target -> Role] /\ roles \in [Project -> [Target -> Role]]
        BY DEF Init, Role
    <2>2. sent \in [Project -> [Write -> 0..2]]
        <3>1. sent = [q \in Project |-> [w \in Write |-> 0]]
            BY DEF Init
        <3> QED
            BY <3>1
    <2>3. policy \in Policies /\ p \in Policies /\ pc \in Position /\ tgt \in Target
        BY DEF Init, Position, Target
    <2>4. faults \in 0..MaxFaults /\ edits \in 0..MaxEdits /\ creates \in 0..2
        <3>1. faults = 0 /\ edits = 0 /\ creates = 0
            BY DEF Init
        <3> QED
            BY <3>1, EnrollmentAssumption
    <2> QED
        BY <1>2, <2>1, <2>2, <2>3, <2>4 DEF Init, TypeOK
<1>4. LedgerInv
    <2>1. \A q \in Project : /\ disk.projects[q] = NewEntry /\ ledger.projects[q] = NewEntry
                             /\ \A w \in Write : sent[q][w] = 0
        BY DEF Init
    <2>2. NewEntry.pending = "none" /\ Target \subseteq Write /\ "human_enrollment" \in Write
        BY DEF NewEntry, Write
    <2>3. MemoryInv
        BY <2>1, <2>2 DEF MemoryInv, Remembers
    <2>4. SentOnce
        BY <2>1 DEF SentOnce
    <2>5. /\ creates = 0 /\ disk = ledger
          /\ ledger = [k8 |-> NoId, identityPending |-> FALSE,
                       projects |-> [q \in Project |-> NewEntry]]
        BY DEF Init
    <2>6. IdentityInv
        BY <2>5 DEF IdentityInv
    <2> QED
        BY <2>3, <2>4, <2>6 DEF LedgerInv
<1>5. CycleInv
    BY DEF Init, CycleInv, LoopInv, PositionInv, ServedInv, Creating, Enrolling, BeforeTarget,
           Granting, Reconciling, AtProject
<1> QED
    BY <1>3, <1>4, <1>5 DEF IInv

-----------------------------------------------------------------------------
(* What actions have in common *)

\* A save, or a failed one, leaves the file as it was or makes it the ledger.
LEMMA SavesKeep ==
    ASSUME IInv, disk' \in {disk, ledger}, UNCHANGED <<ledger, sent, creates>>
    PROVE  LedgerInv' /\ disk' \in Ledger
BY DEF IInv, TypeOK, LedgerInv, MemoryInv, Remembers, SentOnce, IdentityInv

\* The cycle goes on with the next project, or ends.
LEMMA ReturnsKeep ==
    ASSUME IInv, disk' \in {disk, ledger}, UNCHANGED ledger,
           \/ SkipProject /\ pc \in AtProject
           \/ EndCycle
    PROVE  CycleInv' /\ CycleTyped' /\ pc' \in Position /\ access' \subseteq Project
           /\ verified' \subseteq Project
<1>0. ForgetProject => /\ cur' \in Project \cup {"none"} /\ tgt' \in Target
                       /\ human' \in BOOLEAN /\ items' \in [Target -> Role]
    BY DEF ForgetProject, Target, Role
<1>1. CASE SkipProject /\ pc \in AtProject
    <2>1. pc' = "next" /\ ForgetProject /\ UNCHANGED <<p, todo, verified, access>>
        BY <1>1 DEF SkipProject, Goto
    <2>2. LoopInv' /\ PositionInv'
        BY <2>1 DEF IInv, CycleInv, LoopInv, PositionInv, Creating, Enrolling, BeforeTarget,
                    Granting, Reconciling, AtProject, BeforeLoop
    <2>3. ServedInv'
        BY <2>1 DEF IInv, CycleInv, ServedInv
    <2> QED
        BY <1>0, <2>1, <2>2, <2>3 DEF CycleInv, CycleTyped, IInv, TypeOK, Position
<1>2. CASE EndCycle
    <2>1. /\ pc' = "idle" /\ access' = verified /\ verified' = {}
          /\ ForgetProject /\ todo' = {} /\ p' = p
        BY <1>2 DEF EndCycle, ForgetCycle, Goto
    <2>2. LoopInv' /\ PositionInv'
        BY <2>1 DEF IInv, CycleInv, LoopInv, PositionInv, Creating, Enrolling, BeforeTarget,
                    Granting, Reconciling, AtProject, BeforeLoop
    <2>3. ServedInv'
        BY <2>1 DEF IInv, CycleInv, ServedInv
    <2> QED
        BY <1>0, <2>1, <2>2, <2>3 DEF CycleInv, CycleTyped, IInv, TypeOK, Position
<1> QED
    BY <1>1, <1>2

\* A new entry of the current project that still remembers what was sent.
LEMMA UpdateKeeps ==
    ASSUME IInv, pc \in AtProject, NEW e \in Entry, Update(e), Remembers(e, sent[cur]),
           UNCHANGED <<disk, sent, creates, access, verified>>
    PROVE  /\ LedgerInv' /\ ServedInv'
           /\ ledger' \in Ledger /\ ledger'.projects[cur] = e
<1>1. cur \in Project /\ cur \notin access \cup verified
    BY DEF IInv, CycleInv, LoopInv
<1>2. ledger \in Ledger
    BY DEF IInv, TypeOK
<1>3. /\ ledger'.projects = [ledger.projects EXCEPT ![cur] = e]
      /\ ledger'.k8 = ledger.k8 /\ ledger'.identityPending = ledger.identityPending
      /\ ledger' \in Ledger
    BY <1>1, <1>2 DEF Update, Ledger
<1>4. /\ ledger'.projects[cur] = e
      /\ \A q \in Project \ {cur} : ledger'.projects[q] = ledger.projects[q]
    BY <1>1, <1>2, <1>3 DEF Ledger
<1>5. MemoryInv'
    BY <1>4 DEF IInv, LedgerInv, MemoryInv, Remembers
<1>6. SentOnce' /\ IdentityInv'
    BY <1>3 DEF IInv, LedgerInv, SentOnce, IdentityInv
<1>7. ServedInv'
    BY <1>1, <1>4 DEF IInv, CycleInv, ServedInv, TypeOK
<1> QED
    BY <1>3, <1>4, <1>5, <1>6, <1>7 DEF LedgerInv

\* A write that was not sent before is counted once, and not at all under repair.
LEMMA SendsKeep ==
    ASSUME IInv, cur \in Project, NEW w \in Write, sent[cur][w] = 0, Sends(w)
    PROVE  /\ sent' \in [Project -> [Write -> 0..2]] /\ SentOnce'
           /\ p.repair => sent' = sent
           /\ \A q \in Project, v \in Write : sent'[q][v] = sent[q][v] \/ (q = cur /\ v = w)
<1>1. sent \in [Project -> [Write -> 0..2]]
    BY DEF IInv, TypeOK
<1>2. sent' = [sent EXCEPT ![cur] = [sent[cur] EXCEPT ![w] = IF p.repair THEN 0 ELSE 1]]
    BY <1>1 DEF Sends
<1> QED
    BY <1>1, <1>2 DEF IInv, LedgerInv, SentOnce

\* Another K8 identity, or its marker, leaves the entries of the projects alone.
LEMMA IdentityKeeps ==
    ASSUME IInv, ledger' \in Ledger, ledger'.projects = ledger.projects,
           UNCHANGED <<disk, sent, access, verified>>
    PROVE  MemoryInv' /\ SentOnce' /\ ServedInv'
BY DEF IInv, LedgerInv, MemoryInv, Remembers, SentOnce, CycleInv, ServedInv, Ready

LEMMA RequestTyped ==
    ASSUME NEW q \in Project, NEW w \in Write, NEW exists \in BOOLEAN, NEW byHuman \in BOOLEAN
    PROVE  <<q, w, exists, byHuman>> \in Request
BY DEF Request

-----------------------------------------------------------------------------
(* Up to the loop over the projects *)

LEMMA StartCycleStep == ASSUME IInv, StartCycle PROVE IInv'
<1>1. UNCHANGED <<file, ledger, todo, cur, tgt, human, items, upstream, history, faults, edits>>
      /\ verified' = {} /\ p' = policy /\ pc' \in {"discover", "idle"} /\ access' \in {access, {}}
    BY DEF StartCycle, Goto
<1>2. LedgerInv'
    BY <1>1, SavesKeep DEF file, history
<1>3. LoopInv' /\ PositionInv'
    BY <1>1 DEF LoopInv, PositionInv, Creating, Enrolling, BeforeTarget, Granting, Reconciling,
                AtProject, BeforeLoop
<1>4. ServedInv'
    BY <1>1 DEF IInv, CycleInv, ServedInv, Ready, file
<1>5. TypeOK'
    BY <1>1 DEF IInv, TypeOK, Position, file, upstream, history
<1> QED
    BY <1>2, <1>3, <1>4, <1>5 DEF IInv, CycleInv

LEMMA DiscoverStep == ASSUME IInv, Discover PROVE IInv'
<1> DEFINE known == KnownId
           matches == IF known # NoId THEN idents \cap {known} ELSE idents
<1>1. pc = "discover" /\ UNCHANGED <<file, upstream, history, edits>> /\ verified = {}
    BY DEF Discover, IInv, CycleInv, LoopInv, BeforeLoop
<1>2. faults' \in 0..MaxFaults
    <2>1. faults' = faults \/ (faults < MaxFaults /\ faults' = faults + 1)
        BY DEF Discover, Fault
    <2> QED
        BY <2>1, EnrollmentAssumption DEF IInv, TypeOK
<1>3. CASE EndCycle /\ UNCHANGED ledger
    <2>1. LedgerInv' /\ CycleInv' /\ CycleTyped' /\ pc' \in Position
          /\ access' \subseteq Project /\ verified' \subseteq Project
        BY <1>1, <1>3, SavesKeep, ReturnsKeep DEF file, history
    <2>2. TypeOK'
        BY <1>1, <1>2, <1>3, <2>1 DEF IInv, TypeOK, file, upstream, history, CycleTyped
    <2> QED
        BY <2>1, <2>2 DEF IInv
<1>4. CASE /\ known = NoId /\ ~ledger.identityPending
           /\ ledger' = [ledger EXCEPT !.identityPending = TRUE]
           /\ Goto("saveIdentityPending") /\ UNCHANGED <<cycle, verified, access, faults>>
    <2>1. /\ ledger' \in Ledger /\ ledger'.projects = ledger.projects
          /\ ledger'.k8 = ledger.k8 /\ ledger'.identityPending
        BY <1>4 DEF IInv, TypeOK, Ledger
    <2>2. PolicyK8 = NoId /\ ledger.k8 = NoId
        BY <1>4 DEF KnownId
    <2>3. creates = 0 /\ creates' = 0
        BY <1>1, <1>4, <2>2 DEF IInv, TypeOK, LedgerInv, IdentityInv, history
    <2>4. MemoryInv' /\ SentOnce' /\ ServedInv'
        BY <1>1, <1>4, <2>1, IdentityKeeps DEF file, history
    <2>5. IdentityInv'
        BY <1>1, <2>1, <2>3 DEF IInv, LedgerInv, IdentityInv, file
    <2>6. LoopInv' /\ PositionInv'
        BY <1>1, <1>4, <2>1, <2>2, <2>3 DEF LoopInv, PositionInv, Goto, cycle, Creating, Enrolling,
            BeforeTarget, Granting, Reconciling, AtProject, BeforeLoop
    <2>7. TypeOK'
        BY <1>1, <1>2, <1>4, <2>1 DEF IInv, TypeOK, Position, Goto, file, upstream, history, cycle
    <2> QED
        BY <2>4, <2>5, <2>6, <2>7 DEF IInv, LedgerInv, CycleInv
<1>5. ASSUME NEW i \in matches,
             ledger' = [ledger EXCEPT !.k8 = i, !.identityPending = FALSE],
             Goto("recordIdentity"), UNCHANGED <<cycle, verified, access, faults>>
      PROVE  IInv'
    <2>1. i \in K8Id
        BY <1>5 DEF IInv, TypeOK
    <2>2. /\ ledger' \in Ledger /\ ledger'.projects = ledger.projects /\ ledger'.k8 = i
        BY <1>5, <2>1 DEF IInv, TypeOK, Ledger
    <2>3. known # NoId => i = known
        BY <1>5
    <2>4. i # NoId
        BY <2>1, EnrollmentAssumption
    <2>5. MemoryInv' /\ SentOnce' /\ ServedInv'
        BY <1>1, <1>5, <2>2, IdentityKeeps DEF file, history
    <2>6. IdentityInv'
        BY <1>1, <2>2, <2>3, <2>4 DEF IInv, LedgerInv, IdentityInv, KnownId, file, history
    <2>7. LoopInv' /\ PositionInv'
        BY <1>1, <1>5 DEF LoopInv, PositionInv, Goto, cycle, Creating, Enrolling,
            BeforeTarget, Granting, Reconciling, AtProject, BeforeLoop
    <2>8. TypeOK'
        BY <1>1, <1>2, <1>5, <2>2 DEF IInv, TypeOK, Position, Goto, file, upstream, history, cycle
    <2> QED
        BY <2>5, <2>6, <2>7, <2>8 DEF IInv, LedgerInv, CycleInv
<1> HIDE DEF known, matches
<1> QED
    BY <1>3, <1>4, <1>5 DEF Discover, known, matches

LEMMA SaveIdentityStep ==
    ASSUME IInv, SaveIdentityPending \/ RecordIdentity PROVE IInv'
<1>1. /\ pc \in {"saveIdentityPending", "recordIdentity"} /\ disk' \in {disk, ledger}
      /\ UNCHANGED <<policy, ledger, upstream, history, edits>>
      /\ verified = {}
    BY DEF SaveIdentityPending, RecordIdentity, SaveThen, IInv, CycleInv, LoopInv, BeforeLoop, Creating
<1>2. faults' \in 0..MaxFaults
    <2>1. faults' = faults \/ (faults < MaxFaults /\ faults' = faults + 1)
        BY DEF SaveIdentityPending, RecordIdentity, SaveThen, Fault
    <2> QED
        BY <2>1, EnrollmentAssumption DEF IInv, TypeOK
<1>3. LedgerInv' /\ disk' \in Ledger
    BY <1>1, SavesKeep DEF history
<1>4. CASE EndCycle
    <2>1. CycleInv' /\ CycleTyped' /\ pc' \in Position
          /\ access' \subseteq Project /\ verified' \subseteq Project
        BY <1>1, <1>4, ReturnsKeep
    <2>2. TypeOK'
        BY <1>1, <1>2, <1>3, <2>1 DEF IInv, TypeOK, upstream, history, CycleTyped
    <2> QED
        BY <1>3, <2>1, <2>2 DEF IInv
<1>5. CASE /\ pc = "saveIdentityPending" /\ disk' = ledger
           /\ Goto("authorizeIdentity") /\ UNCHANGED <<cycle, verified, access>>
    <2>1. LoopInv' /\ PositionInv'
        BY <1>1, <1>5 DEF IInv, CycleInv, LoopInv, PositionInv, Goto, cycle, history, Creating,
            Enrolling, BeforeTarget, Granting, Reconciling, AtProject, BeforeLoop
    <2>2. ServedInv'
        BY <1>1, <1>5 DEF IInv, CycleInv, ServedInv
    <2>3. TypeOK'
        BY <1>1, <1>2, <1>3, <1>5 DEF IInv, TypeOK, Position, Goto, upstream, history, cycle
    <2> QED
        BY <1>3, <2>1, <2>2, <2>3 DEF IInv, CycleInv
<1>6. CASE /\ Goto("next") /\ todo' = Project
           /\ UNCHANGED <<p, cur, tgt, human, items, verified, access>>
    <2>1. LoopInv' /\ PositionInv'
        BY <1>1, <1>6 DEF IInv, CycleInv, LoopInv, PositionInv, Goto, Creating,
            Enrolling, BeforeTarget, Granting, Reconciling, AtProject, BeforeLoop
    <2>2. ServedInv'
        BY <1>1, <1>6 DEF IInv, CycleInv, ServedInv
    <2>3. TypeOK'
        BY <1>1, <1>2, <1>3, <1>6 DEF IInv, TypeOK, Position, Goto, upstream, history
    <2> QED
        BY <1>3, <2>1, <2>2, <2>3 DEF IInv, CycleInv
<1> QED
    BY <1>4, <1>5, <1>6 DEF SaveIdentityPending, RecordIdentity, SaveThen

LEMMA AuthorizeIdentityStep == ASSUME IInv, AuthorizeIdentity PROVE IInv'
<1>1. pc = "authorizeIdentity" /\ UNCHANGED <<file, ledger, upstream, history, faults, edits>>
    BY DEF AuthorizeIdentity
<1>2. LedgerInv'
    BY <1>1, SavesKeep DEF file, history
<1>3. CASE EndCycle
    <2>1. CycleInv' /\ CycleTyped' /\ pc' \in Position
          /\ access' \subseteq Project /\ verified' \subseteq Project
        BY <1>1, <1>3, ReturnsKeep DEF file
    <2>2. TypeOK'
        BY <1>1, <2>1 DEF IInv, TypeOK, file, upstream, history, CycleTyped
    <2> QED
        BY <1>2, <2>1, <2>2 DEF IInv
<1>4. CASE Goto("createIdentity") /\ UNCHANGED <<cycle, verified, access>>
    <2>1. LoopInv' /\ PositionInv'
        BY <1>1, <1>4 DEF IInv, CycleInv, LoopInv, PositionInv, Goto, cycle, file, history, Creating,
            Enrolling, BeforeTarget, Granting, Reconciling, AtProject, BeforeLoop
    <2>2. ServedInv'
        BY <1>1, <1>4 DEF IInv, CycleInv, ServedInv, file
    <2>3. TypeOK'
        BY <1>1, <1>4 DEF IInv, TypeOK, Position, Goto, file, upstream, history, cycle
    <2> QED
        BY <1>2, <2>1, <2>2, <2>3 DEF IInv, CycleInv
<1> QED
    BY <1>3, <1>4 DEF AuthorizeIdentity

LEMMA CreateIdentityStep == ASSUME IInv, CreateIdentity PROVE IInv'
<1>1. /\ pc = "createIdentity" /\ UNCHANGED <<file, joined, roles, sent, edits>>
      /\ verified = {} /\ PolicyK8 = NoId /\ ledger.k8 = NoId /\ ledger.identityPending
      /\ disk = ledger /\ creates = 0
    <2>1. pc = "createIdentity" /\ UNCHANGED <<file, joined, roles, sent, edits>>
        BY DEF CreateIdentity
    <2>2. disk = ledger
        BY <2>1 DEF IInv, CycleInv, PositionInv
    <2>3. /\ verified = {} /\ PolicyK8 = NoId /\ ledger.k8 = NoId /\ ledger.identityPending
          /\ creates = 0
        BY <2>1 DEF IInv, CycleInv, LoopInv, BeforeLoop, Creating
    <2> QED
        BY <2>1, <2>2, <2>3
<1>2. creates' = 1
    <2>1. creates' = IF creates < 2 THEN creates + 1 ELSE creates
        BY DEF CreateIdentity
    <2> QED
        BY <1>1, <2>1
<1>3. CASE EndCycle /\ UNCHANGED <<idents, ledger>> /\ late' \in {late, late \cup {<<"none", "identity", FALSE, FALSE>>}}
           /\ (UNCHANGED faults \/ Fault)
    <2>1. faults' \in 0..MaxFaults
        BY <1>3, EnrollmentAssumption DEF IInv, TypeOK, Fault
    <2>2. CycleInv' /\ CycleTyped' /\ pc' \in Position
          /\ access' \subseteq Project /\ verified' \subseteq Project
        BY <1>1, <1>3, ReturnsKeep DEF file
    <2>3. MemoryInv' /\ SentOnce'
        BY <1>1, <1>3 DEF IInv, LedgerInv, MemoryInv, Remembers, SentOnce, file
    <2>4. IdentityInv'
        BY <1>1, <1>2, <1>3 DEF IInv, LedgerInv, IdentityInv, file
    <2>5. late' \subseteq Request
        BY <1>3 DEF IInv, TypeOK, Request
    <2>6. TypeOK'
        BY <1>1, <1>2, <1>3, <2>1, <2>2, <2>5 DEF IInv, TypeOK, file, CycleTyped
    <2> QED
        BY <2>2, <2>3, <2>4, <2>6 DEF IInv, LedgerInv
<1>4. ASSUME NEW i \in K8Id \ idents, idents' = idents \cup {i},
             ledger' = [ledger EXCEPT !.k8 = i, !.identityPending = FALSE],
             Goto("recordIdentity"), UNCHANGED <<cycle, verified, access, late, faults>>
      PROVE  IInv'
    <2>1. /\ ledger' \in Ledger /\ ledger'.projects = ledger.projects /\ ledger'.k8 = i
        BY <1>4 DEF IInv, TypeOK, Ledger
    <2>2. i # NoId
        BY EnrollmentAssumption
    <2>3. MemoryInv' /\ SentOnce' /\ ServedInv'
        BY <1>1, <1>4, <2>1, IdentityKeeps DEF file
    <2>4. IdentityInv'
        BY <1>1, <1>2, <2>1, <2>2 DEF IdentityInv, file
    <2>5. LoopInv' /\ PositionInv'
        BY <1>1, <1>4 DEF LoopInv, PositionInv, Goto, cycle, Creating, Enrolling,
            BeforeTarget, Granting, Reconciling, AtProject, BeforeLoop
    <2>6. TypeOK'
        BY <1>1, <1>2, <1>4, <2>1 DEF IInv, TypeOK, Position, Goto, file, cycle
    <2> QED
        BY <2>3, <2>4, <2>5, <2>6 DEF IInv, LedgerInv, CycleInv
<1> QED
    BY <1>3, <1>4 DEF CreateIdentity

-----------------------------------------------------------------------------
(* The loop over the projects *)

LEMMA LoopEndsStep == ASSUME IInv, LoopEnds PROVE IInv'
<1>1. EndCycle /\ UNCHANGED <<file, ledger, upstream, history, edits>>
    BY DEF LoopEnds
<1>2. faults' \in 0..MaxFaults
    BY EnrollmentAssumption DEF LoopEnds, IInv, TypeOK, Fault
<1>3. LedgerInv' /\ CycleInv' /\ CycleTyped' /\ pc' \in Position
      /\ access' \subseteq Project /\ verified' \subseteq Project
    BY <1>1, SavesKeep, ReturnsKeep DEF file, history
<1>4. TypeOK'
    BY <1>1, <1>2, <1>3 DEF IInv, TypeOK, file, upstream, history, CycleTyped
<1> QED
    BY <1>3, <1>4 DEF IInv

\* A project that is begun is withdrawn, and under repair its writes count anew.
LEMMA NextProjectStep == ASSUME IInv, NEW q \in Project, NextProject(q) PROVE IInv'
<1>1. /\ pc = "next" /\ q \in todo
      /\ UNCHANGED <<file, ledger, upstream, creates, faults, edits>>
    BY DEF NextProject
<1>2. CASE EndCycle /\ UNCHANGED sent
    <2>1. LedgerInv' /\ CycleInv' /\ CycleTyped' /\ pc' \in Position
          /\ access' \subseteq Project /\ verified' \subseteq Project
        BY <1>1, <1>2, SavesKeep, ReturnsKeep DEF file
    <2>2. TypeOK'
        BY <1>1, <1>2, <2>1 DEF IInv, TypeOK, file, upstream, CycleTyped
    <2> QED
        BY <2>1, <2>2 DEF IInv
<1>3. CASE /\ todo' = todo \ {q} /\ p' \in {p, policy}
           /\ UNCHANGED <<pc, cur, tgt, human, items, verified, access, sent>>
    <2>1. LedgerInv'
        BY <1>1, <1>3, SavesKeep DEF file
    <2>2. LoopInv' /\ PositionInv'
        BY <1>1, <1>3 DEF IInv, CycleInv, LoopInv, PositionInv, Creating, Enrolling,
            BeforeTarget, Granting, Reconciling, AtProject, BeforeLoop
    <2>3. ServedInv'
        BY <1>1, <1>3 DEF IInv, CycleInv, ServedInv, file
    <2>4. TypeOK'
        BY <1>1, <1>3 DEF IInv, TypeOK, file, upstream
    <2> QED
        BY <2>1, <2>2, <2>3, <2>4 DEF IInv, CycleInv
<1>4. CASE /\ p' = policy /\ todo' = todo \ {q} /\ Withdraw(q)
           /\ cur' = q /\ tgt' = "host" /\ human' = FALSE
           /\ items' = [t \in Target |-> "none"] /\ Goto("project")
           /\ sent' = (IF policy.repair THEN [sent EXCEPT ![q] = [w \in Write |-> 0]] ELSE sent)
           /\ UNCHANGED verified
    <2>1. items' \in [Target -> Role]
        BY <1>4 DEF Role
    <2>2. /\ sent' \in [Project -> [Write -> 0..2]]
          /\ \A r \in Project, w \in Write : sent'[r][w] \in {sent[r][w], 0}
          /\ policy.repair => \A w \in Write : sent'[q][w] = 0
        <3>1. sent \in [Project -> [Write -> 0..2]]
            BY DEF IInv, TypeOK
        <3>2. [w \in Write |-> 0] \in [Write -> 0..2]
            OBVIOUS
        <3> QED
            BY <1>4, <3>1, <3>2
    <2>3. MemoryInv'
        <3>1. \A r \in Project, w \in Write : sent'[r][w] > 0 => sent[r][w] > 0
            BY <2>2
        <3>2. Target \subseteq Write /\ "human_enrollment" \in Write
            BY DEF Write
        <3> QED
            BY <1>1, <3>1, <3>2 DEF IInv, LedgerInv, MemoryInv, Remembers, file
    <2>4. SentOnce'
        BY <2>2 DEF IInv, LedgerInv, SentOnce
    <2>5. IdentityInv'
        BY <1>1 DEF IInv, LedgerInv, IdentityInv, file
    <2>6. q \notin verified
        BY <1>1 DEF IInv, CycleInv, LoopInv
    <2>7. LoopInv'
        BY <1>1, <1>4, <2>2, <2>6 DEF IInv, CycleInv, LoopInv, Goto, Withdraw, Creating, Enrolling,
            BeforeTarget, Granting, Reconciling, AtProject, BeforeLoop
    <2>8. PositionInv'
        BY <1>4 DEF PositionInv, Goto, Creating, Enrolling,
            BeforeTarget, Granting, Reconciling, AtProject, BeforeLoop
    <2>9. ServedInv'
        BY <1>1, <1>4 DEF IInv, CycleInv, ServedInv, Withdraw, file
    <2>10. TypeOK'
        BY <1>1, <1>4, <2>1, <2>2 DEF IInv, TypeOK, Position, Target, Goto, Withdraw, file, upstream
    <2> QED
        BY <2>3, <2>4, <2>5, <2>7, <2>8, <2>9, <2>10 DEF IInv, LedgerInv, CycleInv
<1> QED
    BY <1>2, <1>3, <1>4 DEF NextProject

-----------------------------------------------------------------------------
(* project, up to the memberships *)

\* Steps that decide, without a call or a save.
LEMMA BeginProjectStep == ASSUME IInv, BeginProject PROVE IInv'
<1>1. pc = "project" /\ UNCHANGED <<file, ledger, upstream, history, faults, edits>>
      /\ pc \in AtProject
    BY DEF BeginProject, AtProject, BeforeTarget
<1>2. LedgerInv'
    BY <1>1, SavesKeep DEF file, history
<1>3. CASE SkipProject
    <2>1. CycleInv' /\ CycleTyped' /\ pc' \in Position
          /\ access' \subseteq Project /\ verified' \subseteq Project
        BY <1>1, <1>3, ReturnsKeep DEF file
    <2>2. TypeOK'
        BY <1>1, <2>1 DEF IInv, TypeOK, file, upstream, history, CycleTyped
    <2> QED
        BY <1>2, <2>1, <2>2 DEF IInv
<1>4. CASE Goto("readMachine") /\ UNCHANGED <<cycle, verified, access>>
    <2>1. LoopInv' /\ PositionInv'
        BY <1>1, <1>4 DEF IInv, CycleInv, LoopInv, PositionInv, Goto, cycle, history, Creating,
            Enrolling, BeforeTarget, Granting, Reconciling, AtProject, BeforeLoop
    <2>2. ServedInv'
        BY <1>1, <1>4 DEF IInv, CycleInv, ServedInv, file
    <2>3. TypeOK'
        BY <1>1, <1>4 DEF IInv, TypeOK, Position, Goto, file, upstream, history, cycle
    <2> QED
        BY <1>2, <2>1, <2>2, <2>3 DEF IInv, CycleInv
<1> QED
    BY <1>3, <1>4 DEF BeginProject

\* A write is let through when the file has its marker, or the project is left.
LEMMA AuthorizeStep == ASSUME IInv, AuthorizeHuman \/ AuthorizeSet PROVE IInv'
<1>1. /\ pc \in {"authorizeHuman", "authorizeSet"} /\ pc \in AtProject
      /\ UNCHANGED <<file, ledger, upstream, history, faults, edits>>
    BY DEF AuthorizeHuman, AuthorizeSet, AtProject, BeforeTarget, Enrolling, Reconciling, Granting
<1>2. LedgerInv'
    BY <1>1, SavesKeep DEF file, history
<1>3. CASE SkipProject
    <2>1. CycleInv' /\ CycleTyped' /\ pc' \in Position
          /\ access' \subseteq Project /\ verified' \subseteq Project
        BY <1>1, <1>3, ReturnsKeep DEF file
    <2>2. TypeOK'
        BY <1>1, <2>1 DEF IInv, TypeOK, file, upstream, history, CycleTyped
    <2> QED
        BY <1>2, <2>1, <2>2 DEF IInv
<1>4. CASE /\ Goto(IF pc = "authorizeHuman" THEN "enrollHuman" ELSE "set")
           /\ UNCHANGED <<cycle, verified, access>>
    <2>1. LoopInv' /\ PositionInv'
        BY <1>1, <1>4 DEF IInv, CycleInv, LoopInv, PositionInv, Goto, cycle, file, history, entry,
            Creating, Enrolling, BeforeTarget, Granting, Reconciling, AtProject, BeforeLoop
    <2>2. ServedInv'
        BY <1>1, <1>4 DEF IInv, CycleInv, ServedInv, file
    <2>3. TypeOK'
        BY <1>1, <1>4 DEF IInv, TypeOK, Position, Goto, file, upstream, history, cycle
    <2> QED
        BY <1>2, <2>1, <2>2, <2>3 DEF IInv, CycleInv
<1> QED
    BY <1>3, <1>4 DEF AuthorizeHuman, AuthorizeSet

\* A project that fails, or whose cycle ends, leaves the ledger as it is.
LEMMA FailKeeps ==
    ASSUME IInv, pc \in AtProject, FailProject, UNCHANGED <<disk, ledger, sent, creates>>
    PROVE  /\ LedgerInv' /\ CycleInv' /\ CycleTyped' /\ pc' \in Position
           /\ access' \subseteq Project /\ verified' \subseteq Project
BY SavesKeep, ReturnsKeep DEF FailProject

\* Reading the memberships never changes what is known of the writes.
LEMMA ReadMachineStep == ASSUME IInv, ReadMachine PROVE IInv'
<1>1. /\ pc = "readMachine" /\ pc \in AtProject /\ tgt = "host" /\ cur \in Project
      /\ cur \notin todo \cup access \cup verified
      /\ UNCHANGED <<file, upstream, history, edits>>
    BY DEF ReadMachine, AtProject, BeforeTarget, IInv, CycleInv, LoopInv, PositionInv
<1>2. faults' \in 0..MaxFaults
    <2>1. faults' = faults \/ (faults < MaxFaults /\ faults' = faults + 1)
        BY DEF ReadMachine, Fault
    <2> QED
        BY <2>1, EnrollmentAssumption DEF IInv, TypeOK
<1>3. CASE FailProject /\ UNCHANGED ledger
    <2>1. LedgerInv' /\ CycleInv' /\ CycleTyped' /\ pc' \in Position
          /\ access' \subseteq Project /\ verified' \subseteq Project
        BY <1>1, <1>3, FailKeeps DEF file, history
    <2>2. TypeOK'
        BY <1>1, <1>2, <1>3, <2>1 DEF IInv, TypeOK, file, upstream, history, CycleTyped
    <2> QED
        BY <2>1, <2>2 DEF IInv
<1>4. CASE Read /\ Keep /\ Goto("target") /\ UNCHANGED ledger
    <2>1. items' \in [Target -> Role]
        BY <1>1, <1>4 DEF Read, IInv, TypeOK
    <2>2. LedgerInv'
        BY <1>1, <1>4, SavesKeep DEF file, history
    <2>3. LoopInv' /\ PositionInv'
        BY <1>1, <1>4 DEF IInv, CycleInv, LoopInv, PositionInv, Goto, Keep, history,
            Creating, Enrolling, BeforeTarget, Granting, Reconciling, AtProject, BeforeLoop
    <2>4. ServedInv'
        BY <1>1, <1>4 DEF IInv, CycleInv, ServedInv, file, Keep
    <2>5. TypeOK'
        BY <1>1, <1>2, <1>4, <2>1 DEF IInv, TypeOK, Position, Goto, Keep, file, upstream, history
    <2> QED
        BY <2>2, <2>3, <2>4, <2>5 DEF IInv, CycleInv
<1>5. CASE /\ Update([entry EXCEPT !.revoked = TRUE])
           /\ Goto("saveRevoked") /\ Keep /\ UNCHANGED items
    <2>1. PICK e \in Entry : Update(e) /\ Remembers(e, sent[cur])
        <3>1. entry \in Entry /\ Remembers(entry, sent[cur])
            BY <1>1 DEF entry, IInv, TypeOK, Ledger, LedgerInv, MemoryInv
        <3>2. [entry EXCEPT !.revoked = TRUE] \in Entry
              /\ Remembers([entry EXCEPT !.revoked = TRUE], sent[cur])
            BY <3>1 DEF Entry, Remembers
        <3> QED
            BY <1>5, <3>2
    <2>2. LedgerInv' /\ ServedInv' /\ ledger' \in Ledger
        BY <1>1, <1>5, <2>1, UpdateKeeps DEF file, history, Keep
    <2>3. LoopInv' /\ PositionInv'
        BY <1>1, <1>5 DEF IInv, CycleInv, LoopInv, PositionInv, Goto, Keep, history,
            Creating, Enrolling, BeforeTarget, Granting, Reconciling, AtProject, BeforeLoop
    <2>4. TypeOK'
        BY <1>1, <1>2, <1>5, <2>2 DEF IInv, TypeOK, Position, Goto, Keep, file, upstream, history
    <2> QED
        BY <2>2, <2>3, <2>4 DEF IInv, CycleInv
<1>6. CASE /\ ~(entry.seen["host"] /\ ~p.repair)
           /\ Goto("readHuman") /\ Keep /\ UNCHANGED <<items, ledger>>
    <2>1. LedgerInv'
        BY <1>1, <1>6, SavesKeep DEF file, history
    <2>2. LoopInv'
        BY <1>1, <1>6 DEF IInv, CycleInv, LoopInv, Goto, Keep, history,
            Creating, Enrolling, BeforeTarget, Granting, Reconciling, AtProject, BeforeLoop
    <2>3. PositionInv'
        BY <1>1, <1>6 DEF PositionInv, Goto, Keep, entry,
            Creating, Enrolling, BeforeTarget, Granting, Reconciling, AtProject, BeforeLoop
    <2>4. ServedInv'
        BY <1>1, <1>6 DEF IInv, CycleInv, ServedInv, file, Keep
    <2>5. TypeOK'
        BY <1>1, <1>2, <1>6 DEF IInv, TypeOK, Position, Goto, Keep, file, upstream, history
    <2> QED
        BY <2>1, <2>2, <2>3, <2>4, <2>5 DEF IInv, CycleInv
<1> QED
    BY <1>3, <1>4, <1>5, <1>6 DEF ReadMachine, FailProject

LEMMA ReadHumanStep == ASSUME IInv, ReadHuman PROVE IInv'
<1>1. /\ pc = "readHuman" /\ pc \in AtProject /\ tgt = "host" /\ cur \in Project
      /\ cur \notin todo \cup access \cup verified
      /\ UNCHANGED <<file, upstream, history, edits>>
    BY DEF ReadHuman, AtProject, BeforeTarget, IInv, CycleInv, LoopInv, PositionInv
<1>2. faults' \in 0..MaxFaults
    <2>1. faults' = faults \/ (faults < MaxFaults /\ faults' = faults + 1)
        BY DEF ReadHuman, Fault
    <2> QED
        BY <2>1, EnrollmentAssumption DEF IInv, TypeOK
<1>3. CASE FailProject /\ UNCHANGED ledger
    <2>1. LedgerInv' /\ CycleInv' /\ CycleTyped' /\ pc' \in Position
          /\ access' \subseteq Project /\ verified' \subseteq Project
        BY <1>1, <1>3, FailKeeps DEF file, history
    <2>2. TypeOK'
        BY <1>1, <1>2, <1>3, <2>1 DEF IInv, TypeOK, file, upstream, history, CycleTyped
    <2> QED
        BY <2>1, <2>2 DEF IInv
<1>4. CASE /\ Read /\ human' = TRUE /\ Goto("target")
           /\ UNCHANGED <<p, todo, cur, tgt, verified, access, ledger>>
    <2>1. items' \in [Target -> Role]
        BY <1>1, <1>4 DEF Read, IInv, TypeOK
    <2>2. LedgerInv'
        BY <1>1, <1>4, SavesKeep DEF file, history
    <2>3. LoopInv' /\ PositionInv'
        BY <1>1, <1>4 DEF IInv, CycleInv, LoopInv, PositionInv, Goto, history,
            Creating, Enrolling, BeforeTarget, Granting, Reconciling, AtProject, BeforeLoop
    <2>4. ServedInv'
        BY <1>1, <1>4 DEF IInv, CycleInv, ServedInv, file
    <2>5. TypeOK'
        BY <1>1, <1>2, <1>4, <2>1 DEF IInv, TypeOK, Position, Goto, file, upstream, history
    <2> QED
        BY <2>2, <2>3, <2>4, <2>5 DEF IInv, CycleInv
<1>5. CASE /\ entry.pending = "none" \/ p.repair
           /\ Update([entry EXCEPT !.pending = "human_enrollment"])
           /\ Goto("saveHumanPending") /\ Keep /\ UNCHANGED items
    <2>1. entry \in Entry /\ Remembers(entry, sent[cur])
        BY <1>1 DEF entry, IInv, TypeOK, Ledger, LedgerInv, MemoryInv
    <2>2. p.repair => \A w \in Write : sent[cur][w] = 0
        BY <1>1 DEF IInv, CycleInv, LoopInv
    <2>3. sent[cur] \in [Write -> 0..2]
        BY <1>1 DEF IInv, TypeOK
    <2>4. sent[cur]["human_enrollment"] = 0
        <3>1. p.repair \/ ~entry.seen["host"]
            BY <1>1 DEF IInv, CycleInv, PositionInv
        <3>2. "human_enrollment" \in Write
            BY DEF Write
        <3> QED
            BY <1>5, <2>1, <2>2, <2>3, <3>1, <3>2 DEF Remembers
    <2> DEFINE e == [entry EXCEPT !.pending = "human_enrollment"]
    <2>5. e \in Entry /\ e.pending = "human_enrollment" /\ e.seen = entry.seen
        BY <2>1 DEF Entry, Write
    <2>6. Remembers(e, sent[cur])
        <3>1. \A t \in Target : sent[cur][t] > 0 => entry.seen[t]
            <4>1. Target \subseteq Write /\ "none" \notin Target
                BY DEF Write, Target
            <4> QED
                BY <1>5, <2>1, <2>2, <4>1 DEF Remembers
        <3> HIDE DEF e
        <3> QED
            BY <2>5, <3>1 DEF Remembers
    <2> HIDE DEF e
    <2>7. LedgerInv' /\ ServedInv' /\ ledger' \in Ledger /\ ledger'.projects[cur] = e
        BY <1>1, <1>5, <2>5, <2>6, UpdateKeeps DEF file, history, Keep, e
    <2>8. LoopInv'
        BY <1>1, <1>5 DEF IInv, CycleInv, LoopInv, Goto, Keep, history,
            Creating, Enrolling, BeforeTarget, Granting, Reconciling, AtProject, BeforeLoop
    <2>9. PositionInv'
        BY <1>1, <1>5, <2>4, <2>5, <2>7 DEF PositionInv, Goto, Keep, history, entry,
            Creating, Enrolling, BeforeTarget, Granting, Reconciling, AtProject, BeforeLoop
    <2>10. TypeOK'
        BY <1>1, <1>2, <1>5, <2>7 DEF IInv, TypeOK, Position, Goto, Keep, file, upstream, history
    <2> QED
        BY <2>7, <2>8, <2>9, <2>10 DEF IInv, CycleInv
<1> QED
    BY <1>3, <1>4, <1>5 DEF ReadHuman, FailProject

LEMMA EnrollHumanStep == ASSUME IInv, EnrollHuman PROVE IInv'
<1>1. /\ pc = "enrollHuman" /\ pc \in AtProject /\ tgt = "host" /\ cur \in Project
      /\ cur \notin todo \cup access \cup verified
      /\ UNCHANGED <<file, ledger, idents, roles, creates, edits>>
      /\ Sends("human_enrollment")
    BY DEF EnrollHuman, AtProject, BeforeTarget, Enrolling, IInv, CycleInv, LoopInv, PositionInv
<1>2. faults' \in 0..MaxFaults
    <2>1. faults' = faults \/ (faults < MaxFaults /\ faults' = faults + 1)
        BY DEF EnrollHuman, Fault
    <2> QED
        BY <2>1, EnrollmentAssumption DEF IInv, TypeOK
<1>3. /\ disk = ledger /\ entry.pending = "human_enrollment"
      /\ sent[cur]["human_enrollment"] = 0
    BY <1>1 DEF IInv, CycleInv, PositionInv, Enrolling
<1>4. /\ sent' \in [Project -> [Write -> 0..2]] /\ SentOnce' /\ (p.repair => sent' = sent)
      /\ \A q \in Project, v \in Write : sent'[q][v] = sent[q][v]
                                         \/ (q = cur /\ v = "human_enrollment")
    <2>1. "human_enrollment" \in Write
        BY DEF Write
    <2> QED
        BY <1>1, <1>3, <2>1, SendsKeep
<1>5. LedgerInv'
    <2>1. MemoryInv'
        <3>1. disk' = disk /\ ledger' = ledger
            BY <1>1 DEF file
        <3>2. Target \subseteq Write /\ "human_enrollment" \in Write /\ "human_enrollment" \notin Target
            BY DEF Write, Target
        <3> QED
            BY <1>3, <1>4, <3>1, <3>2 DEF IInv, LedgerInv, MemoryInv, Remembers, entry
    <2>2. IdentityInv'
        BY <1>1 DEF IInv, LedgerInv, IdentityInv, file
    <2> QED
        BY <1>4, <2>1, <2>2 DEF LedgerInv
<1>6. CASE /\ FailProject /\ UNCHANGED joined
           /\ late' \in {late, late \cup {<<cur, "human_enrollment", FALSE, TRUE>>}}
    <2>1. CycleInv' /\ CycleTyped' /\ pc' \in Position
          /\ access' \subseteq Project /\ verified' \subseteq Project
        BY <1>1, <1>6, ReturnsKeep DEF FailProject, file
    <2>2. late' \subseteq Request
        <3>1. "human_enrollment" \in Write
            BY DEF Write
        <3>2. <<cur, "human_enrollment", FALSE, TRUE>> \in Request
            BY <1>1, <3>1, RequestTyped
        <3> QED
            BY <1>6, <3>2 DEF IInv, TypeOK
    <2>3. TypeOK'
        BY <1>1, <1>2, <1>4, <1>6, <2>1, <2>2 DEF IInv, TypeOK, file, CycleTyped
    <2> QED
        BY <1>5, <2>1, <2>3 DEF IInv
<1>7. CASE /\ joined' = joined \cup {cur} /\ Goto("readJoined")
           /\ UNCHANGED <<cycle, verified, access, late>>
    <2>1. LoopInv'
        BY <1>1, <1>4, <1>7 DEF IInv, CycleInv, LoopInv, Goto, cycle,
            Creating, Enrolling, BeforeTarget, Granting, Reconciling, AtProject, BeforeLoop
    <2>2. PositionInv'
        BY <1>1, <1>7 DEF PositionInv, Goto, cycle,
            Creating, Enrolling, BeforeTarget, Granting, Reconciling, AtProject, BeforeLoop
    <2>3. ServedInv'
        BY <1>1, <1>7 DEF IInv, CycleInv, ServedInv, file
    <2>4. TypeOK'
        BY <1>1, <1>2, <1>4, <1>7 DEF IInv, TypeOK, Position, Goto, file, cycle
    <2> QED
        BY <1>5, <2>1, <2>2, <2>3, <2>4 DEF IInv, CycleInv
<1> QED
    BY <1>6, <1>7 DEF EnrollHuman

\* The later readings: with the human's session after the enrollment, and by the
\* machine itself once it has the admin role.
LEMMA ReadAgainStep == ASSUME IInv, ReadJoined \/ RereadMachine PROVE IInv'
<1>1. /\ pc \in {"readJoined", "rereadMachine"} /\ pc \in AtProject /\ cur \in Project
      /\ pc = "readJoined" => tgt = "host"
      /\ pc = "rereadMachine" => ~human /\ entry.seen["host"]
      /\ UNCHANGED <<file, ledger, upstream, history, edits>>
    BY DEF ReadJoined, RereadMachine, AtProject, BeforeTarget, IInv, CycleInv, LoopInv, PositionInv
<1>2. faults' \in 0..MaxFaults
    <2>1. faults' = faults \/ (faults < MaxFaults /\ faults' = faults + 1)
        BY DEF ReadJoined, RereadMachine, Fault
    <2> QED
        BY <2>1, EnrollmentAssumption DEF IInv, TypeOK
<1>3. CASE FailProject
    <2>1. LedgerInv' /\ CycleInv' /\ CycleTyped' /\ pc' \in Position
          /\ access' \subseteq Project /\ verified' \subseteq Project
        BY <1>1, <1>3, FailKeeps DEF file, history
    <2>2. TypeOK'
        BY <1>1, <1>2, <1>3, <2>1 DEF IInv, TypeOK, file, upstream, history, CycleTyped
    <2> QED
        BY <2>1, <2>2 DEF IInv
<1>4. CASE /\ Read /\ Goto("target") /\ UNCHANGED <<p, todo, cur, verified, access>>
           /\ \/ pc = "readJoined" /\ human' = TRUE /\ tgt' = tgt
              \/ pc = "rereadMachine" /\ human' = human /\ tgt' = "k8"
    <2>1. items' \in [Target -> Role] /\ tgt' \in Target /\ human' \in BOOLEAN
        BY <1>1, <1>4 DEF Read, IInv, TypeOK, Target
    <2>2. LedgerInv'
        BY <1>1, <1>4, SavesKeep DEF file, history
    <2>3. LoopInv'
        BY <1>1, <1>4 DEF IInv, CycleInv, LoopInv, Goto, history,
            Creating, Enrolling, BeforeTarget, Granting, Reconciling, AtProject, BeforeLoop
    <2>4. PositionInv'
        BY <1>1, <1>4 DEF PositionInv, Goto, entry,
            Creating, Enrolling, BeforeTarget, Granting, Reconciling, AtProject, BeforeLoop
    <2>5. ServedInv'
        BY <1>1, <1>4 DEF IInv, CycleInv, ServedInv, file
    <2>6. TypeOK'
        BY <1>1, <1>2, <1>4, <2>1 DEF IInv, TypeOK, Position, Goto, file, upstream, history
    <2> QED
        BY <2>2, <2>3, <2>4, <2>5, <2>6 DEF IInv, CycleInv
<1> QED
    BY <1>3, <1>4 DEF ReadJoined, RereadMachine, FailProject

-----------------------------------------------------------------------------
(* The two memberships *)

LEMMA ReconcileStep == ASSUME IInv, Reconcile PROVE IInv'
<1>1. /\ pc = "target" /\ pc \in AtProject /\ cur \in Project /\ tgt \in Target
      /\ cur \notin todo \cup access \cup verified
      /\ tgt = "k8" => ~human /\ entry.seen["host"]
      /\ UNCHANGED <<file, upstream, history, faults, edits>>
    <2>1. pc = "target" /\ UNCHANGED <<file, upstream, history, faults, edits>>
        BY DEF Reconcile
    <2>2. pc \in AtProject /\ pc \in Reconciling
        BY <2>1 DEF AtProject, Reconciling
    <2> QED
        BY <2>1, <2>2 DEF IInv, TypeOK, CycleInv, LoopInv, PositionInv
<1>2. /\ entry \in Entry /\ Remembers(entry, sent[cur])
      /\ sent[cur] \in [Write -> 0..2] /\ Target \subseteq Write
      /\ "none" \notin Target /\ "human_enrollment" \notin Target
      /\ tgt \in Write /\ "human_enrollment" \in Write /\ (tgt = "host" \/ tgt = "k8")
    BY <1>1 DEF entry, IInv, TypeOK, Ledger, LedgerInv, MemoryInv, Write, Target
<1>3. p.repair => \A w \in Write : sent[cur][w] = 0
    BY <1>1 DEF IInv, CycleInv, LoopInv
<1>4. CASE SkipProject /\ UNCHANGED ledger
    <2>1. LedgerInv' /\ CycleInv' /\ CycleTyped' /\ pc' \in Position
          /\ access' \subseteq Project /\ verified' \subseteq Project
        BY <1>1, <1>4, SavesKeep, ReturnsKeep DEF file, history
    <2>2. TypeOK'
        BY <1>1, <1>4, <2>1 DEF IInv, TypeOK, file, upstream, history, CycleTyped
    <2> QED
        BY <2>1, <2>2 DEF IInv
<1>5. ASSUME NEW e \in Entry, Update(e), Remembers(e, sent[cur]),
             UNCHANGED <<cycle, verified, access>>,
             \/ Goto("saveRevoked")
             \/ Goto("saveSeen") /\ e.seen[tgt] /\ (tgt = "k8" => e.seen["host"])
             \/ /\ Goto("savePending") /\ e.pending = tgt /\ (tgt = "k8" => e.seen["host"])
                /\ sent[cur][tgt] = 0
                /\ p.repair \/ (items[tgt] = "none" /\ ~e.seen[tgt])
      PROVE  IInv'
    <2>1. LedgerInv' /\ ServedInv' /\ ledger' \in Ledger /\ ledger'.projects[cur] = e
        BY <1>1, <1>5, UpdateKeeps DEF file, history
    <2>2. pc' \in {"saveRevoked", "saveSeen", "savePending"}
        BY <1>5 DEF Goto
    <2>3. LoopInv'
        BY <1>1, <1>5, <2>2 DEF IInv, CycleInv, LoopInv, cycle, history,
            Creating, Enrolling, BeforeTarget, Granting, Reconciling, AtProject, BeforeLoop
    <2>4. PositionInv'
        BY <1>1, <1>5, <2>1 DEF PositionInv, Goto, cycle, history, entry,
            Creating, Enrolling, BeforeTarget, Granting, Reconciling, AtProject, BeforeLoop
    <2>5. TypeOK'
        BY <1>1, <1>5, <2>1, <2>2 DEF IInv, TypeOK, Position, file, upstream, history, cycle
    <2> QED
        BY <2>1, <2>3, <2>4, <2>5 DEF IInv, CycleInv
<1>6. ASSUME Update([entry EXCEPT !.seen[tgt] = TRUE,
                                  !.pending = IF @ = tgt THEN "none" ELSE @]),
             Goto("saveSeen"), UNCHANGED <<cycle, verified, access>>
      PROVE  IInv'
    <2> DEFINE e == [entry EXCEPT !.seen[tgt] = TRUE,
                                  !.pending = IF @ = tgt THEN "none" ELSE @]
    <2>1. /\ e \in Entry /\ e.pending = (IF entry.pending = tgt THEN "none" ELSE entry.pending)
          /\ e.seen = [entry.seen EXCEPT ![tgt] = TRUE]
        BY <1>1, <1>2 DEF Entry
    <2>2. e.seen[tgt] /\ \A t \in Target : entry.seen[t] => e.seen[t]
        BY <1>1, <1>2, <2>1 DEF Entry
    <2> HIDE DEF e
    <2>3. "host" \in Target /\ "none" # "k8"
        BY DEF Target
    <2>4. tgt = "k8" => e.seen["host"]
        BY <1>1, <2>2, <2>3
    <2>5. Remembers(e, sent[cur])
        BY <1>1, <1>2, <2>1, <2>2, <2>3, <2>4 DEF Remembers
    <2> QED
        BY <1>5, <1>6, <2>1, <2>2, <2>4, <2>5 DEF e
<1>7. ASSUME Update([entry EXCEPT !.revoked = TRUE]),
             Goto("saveRevoked"), UNCHANGED <<cycle, verified, access>>
      PROVE  IInv'
    <2>1. [entry EXCEPT !.revoked = TRUE] \in Entry
          /\ Remembers([entry EXCEPT !.revoked = TRUE], sent[cur])
        BY <1>2 DEF Entry, Remembers
    <2> QED
        BY <1>5, <1>7, <2>1
<1>8. ASSUME Update([entry EXCEPT !.pending = tgt]), ~TakenAway, ~Unsettled,
             Goto("savePending"), UNCHANGED <<cycle, verified, access>>
      PROVE  IInv'
    <2> DEFINE e == [entry EXCEPT !.pending = tgt]
    <2>1. e \in Entry /\ e.pending = tgt /\ e.seen = entry.seen
        BY <1>1, <1>2 DEF Entry
    <2> HIDE DEF e
    <2>2. p.repair \/ (items[tgt] = "none" /\ ~e.seen[tgt])
        BY <1>8, <2>1 DEF TakenAway
    <2>3. tgt = "k8" => e.seen["host"]
        BY <1>1, <2>1
    <2>4. \A t \in Target : sent[cur][t] > 0 => entry.seen[t]
        BY <1>2, <1>3, <1>8 DEF Remembers, Unsettled
    <2>5. sent[cur][tgt] = 0
        BY <1>1, <1>2, <1>3, <2>1, <2>2, <2>4
    <2>6. Remembers(e, sent[cur])
        BY <1>1, <1>2, <2>1, <2>3, <2>4 DEF Remembers
    <2> QED
        BY <1>5, <1>8, <2>1, <2>2, <2>3, <2>5, <2>6 DEF e
<1> QED
    BY <1>4, <1>6, <1>7, <1>8 DEF Reconcile

\* The saves of a project: the next position finds in the file what it needs.
LEMMA SaveStep ==
    ASSUME IInv, SaveRevoked \/ SaveHumanPending \/ SaveSeen \/ SavePending \/ SaveGranted \/ SaveReady
    PROVE  IInv'
<1>1. /\ pc \in {"saveRevoked", "saveHumanPending", "saveSeen", "savePending", "saveGranted",
                 "saveReady"}
      /\ disk' \in {disk, ledger} /\ UNCHANGED <<policy, ledger, upstream, history, edits>>
    BY DEF SaveRevoked, SaveHumanPending, SaveSeen, SavePending, SaveGranted, SaveReady, SaveThen
<1>2. /\ pc \in AtProject /\ cur \in Project /\ cur \notin todo \cup access \cup verified
      /\ tgt \in Target
    BY <1>1 DEF IInv, TypeOK, CycleInv, LoopInv, AtProject, BeforeTarget, Enrolling, Reconciling,
                Granting
<1>3. faults' \in 0..MaxFaults
    <2>1. faults' = faults \/ (faults < MaxFaults /\ faults' = faults + 1)
        BY DEF SaveRevoked, SaveHumanPending, SaveSeen, SavePending, SaveGranted, SaveReady,
               SaveThen, Fault
    <2> QED
        BY <2>1, EnrollmentAssumption DEF IInv, TypeOK
<1>4. LedgerInv' /\ disk' \in Ledger
    BY <1>1, SavesKeep DEF history
<1>5. CASE SkipProject
    <2>1. CycleInv' /\ CycleTyped' /\ pc' \in Position
          /\ access' \subseteq Project /\ verified' \subseteq Project
        BY <1>1, <1>2, <1>5, ReturnsKeep
    <2>2. TypeOK'
        BY <1>1, <1>3, <1>4, <2>1 DEF IInv, TypeOK, upstream, history, CycleTyped
    <2> QED
        BY <1>4, <2>1, <2>2 DEF IInv
<1>6. ASSUME disk' = ledger, UNCHANGED <<p, todo, cur, items, verified, access>>,
             tgt' \in Target, human' \in BOOLEAN,
             \/ /\ pc = "saveHumanPending" /\ Goto("authorizeHuman")
                /\ UNCHANGED <<tgt, human>>
             \/ pc = "savePending" /\ Goto("authorizeSet") /\ UNCHANGED <<tgt, human>>
             \/ /\ pc \in {"saveSeen", "saveGranted"} /\ tgt = "k8" /\ Goto("readOnly")
                /\ UNCHANGED <<tgt, human>>
             \/ /\ pc = "saveSeen" /\ tgt = "host" /\ ~human /\ Goto("target")
                /\ tgt' = "k8" /\ UNCHANGED human
             \/ /\ pc \in {"saveSeen", "saveGranted"} /\ tgt = "host" /\ human' = FALSE
                /\ Goto("rereadMachine") /\ UNCHANGED tgt
      PROVE  IInv'
    <2>1. pc' \in AtProject /\ pc' \notin BeforeLoop /\ pc' \in Position /\ pc' \notin Creating
        BY <1>6 DEF Goto, AtProject, BeforeTarget, Enrolling, Reconciling, Granting, BeforeLoop,
                    Creating, Position
    <2>2. LoopInv'
        BY <1>1, <1>2, <1>6, <2>1 DEF IInv, CycleInv, LoopInv, history
    <2>3. PositionInv'
        BY <1>1, <1>6 DEF IInv, CycleInv, PositionInv, Goto, history, entry,
            Creating, Enrolling, BeforeTarget, Granting, Reconciling, AtProject, BeforeLoop
    <2>4. ServedInv'
        BY <1>1, <1>6 DEF IInv, CycleInv, ServedInv
    <2>5. TypeOK'
        BY <1>1, <1>3, <1>4, <1>6, <2>1 DEF IInv, TypeOK, upstream, history
    <2> QED
        BY <1>4, <2>2, <2>3, <2>4, <2>5 DEF IInv, CycleInv
<1>7. CASE SaveReady /\ disk' = ledger /\ Goto("next") /\ verified' = verified \cup {cur}
           /\ ForgetProject /\ UNCHANGED <<p, todo, access>>
    <2>1. pc = "saveReady"
        BY <1>7 DEF SaveReady
    <2>2. entry.pending = "none" /\ ~entry.revoked /\ entry.seen["host"] /\ entry.seen["k8"]
        BY <2>1 DEF IInv, CycleInv, PositionInv
    <2>3. ServedInv'
        BY <1>1, <1>7, <2>2 DEF IInv, CycleInv, ServedInv, Ready, entry
    <2>4. LoopInv' /\ PositionInv'
        BY <1>2, <1>7 DEF IInv, CycleInv, LoopInv, PositionInv, Goto,
            Creating, Enrolling, BeforeTarget, Granting, Reconciling, AtProject, BeforeLoop
    <2>5. TypeOK'
        BY <1>1, <1>2, <1>3, <1>4, <1>7 DEF IInv, TypeOK, Position, Goto, upstream, history,
            ForgetProject, Target, Role
    <2> QED
        BY <1>4, <2>3, <2>4, <2>5 DEF IInv, CycleInv
<1>8. tgt \in Target /\ human \in BOOLEAN /\ "k8" \in Target
    BY DEF IInv, TypeOK, Target
<1> QED
    BY <1>5, <1>6, <1>7, <1>8 DEF SaveRevoked, SaveHumanPending, SaveSeen, SavePending, SaveGranted,
        SaveReady, SaveThen, AfterTarget, cycle

LEMMA SetMembershipStep == ASSUME IInv, SetMembership PROVE IInv'
<1>1. /\ pc = "set" /\ UNCHANGED <<file, ledger, idents, joined, creates, edits>> /\ Sends(tgt)
      /\ pc \in AtProject /\ pc \in Reconciling /\ pc \in Granting
    BY DEF SetMembership, AtProject, Reconciling, Granting
<1>2. cur \in Project /\ cur \notin todo \cup access \cup verified /\ tgt \in Target
    BY <1>1 DEF IInv, TypeOK, CycleInv, LoopInv
<1>3. /\ disk = ledger /\ entry.pending = tgt /\ sent[cur][tgt] = 0
      /\ tgt = "k8" => ~human /\ entry.seen["host"]
    BY <1>1 DEF IInv, CycleInv, PositionInv
<1>4. tgt \in Write /\ Target \subseteq Write /\ "human_enrollment" \in Write /\ "none" \notin Target
    BY <1>2 DEF Write, Target
<1>5. faults' \in 0..MaxFaults
    <2>1. faults' = faults \/ (faults < MaxFaults /\ faults' = faults + 1)
        BY DEF SetMembership, Fault
    <2> QED
        BY <2>1, EnrollmentAssumption DEF IInv, TypeOK
<1>6. /\ sent' \in [Project -> [Write -> 0..2]] /\ SentOnce' /\ (p.repair => sent' = sent)
      /\ \A q \in Project, v \in Write : sent'[q][v] = sent[q][v] \/ (q = cur /\ v = tgt)
    BY <1>1, <1>2, <1>3, <1>4, SendsKeep
<1>7. LedgerInv'
    <2>1. MemoryInv'
        <3>1. disk' = disk /\ ledger' = ledger
            BY <1>1 DEF file
        <3> QED
            BY <1>2, <1>3, <1>4, <1>6, <3>1 DEF IInv, LedgerInv, MemoryInv, Remembers, entry
    <2>2. IdentityInv'
        BY <1>1 DEF IInv, LedgerInv, IdentityInv, file
    <2> QED
        BY <1>6, <2>1, <2>2 DEF LedgerInv
<1>8. CASE /\ FailProject /\ UNCHANGED roles
           /\ late' \in {late, late \cup {<<cur, tgt, items[tgt] # "none", human>>}}
    <2>1. CycleInv' /\ CycleTyped' /\ pc' \in Position
          /\ access' \subseteq Project /\ verified' \subseteq Project
        BY <1>1, <1>8, ReturnsKeep DEF FailProject, file
    <2>2. late' \subseteq Request
        <3>1. <<cur, tgt, items[tgt] # "none", human>> \in Request
            <4>1. human \in BOOLEAN
                BY DEF IInv, TypeOK
            <4> QED
                BY <1>2, <1>4, <4>1, RequestTyped
        <3> QED
            BY <1>8, <3>1 DEF IInv, TypeOK
    <2>3. TypeOK'
        BY <1>1, <1>5, <1>6, <1>8, <2>1, <2>2 DEF IInv, TypeOK, file, CycleTyped
    <2> QED
        BY <1>7, <2>1, <2>3 DEF IInv
<1>9. CASE /\ roles' = [roles EXCEPT ![cur][tgt] = "exact"]
           /\ Goto("readBack") /\ UNCHANGED <<cycle, verified, access, late>>
    <2>1. roles' \in [Project -> [Target -> Role]]
        BY <1>2, <1>9 DEF IInv, TypeOK, Role
    <2>2. LoopInv'
        BY <1>1, <1>6, <1>9 DEF IInv, CycleInv, LoopInv, Goto, cycle,
            Creating, Enrolling, BeforeTarget, Granting, Reconciling, AtProject, BeforeLoop
    <2>3. PositionInv'
        BY <1>1, <1>3, <1>9 DEF PositionInv, Goto, cycle, entry,
            Creating, Enrolling, BeforeTarget, Granting, Reconciling, AtProject, BeforeLoop
    <2>4. ServedInv'
        BY <1>1, <1>9 DEF IInv, CycleInv, ServedInv, file
    <2>5. TypeOK'
        BY <1>1, <1>5, <1>6, <1>9, <2>1 DEF IInv, TypeOK, Position, Goto, file, cycle
    <2> QED
        BY <1>7, <2>2, <2>3, <2>4, <2>5 DEF IInv, CycleInv
<1> QED
    BY <1>8, <1>9 DEF SetMembership, FailProject

\* The two readings that settle what is pending.
LEMMA SettleStep == ASSUME IInv, ReadBack \/ ReadOnly PROVE IInv'
<1>1. /\ pc \in {"readBack", "readOnly"} /\ UNCHANGED <<file, upstream, history, edits>>
      /\ pc \in AtProject
    BY DEF ReadBack, ReadOnly, AtProject, Reconciling
<1>2. cur \in Project /\ cur \notin todo \cup access \cup verified /\ tgt \in Target
    BY <1>1 DEF IInv, TypeOK, CycleInv, LoopInv
<1>3. faults' \in 0..MaxFaults
    <2>1. faults' = faults \/ (faults < MaxFaults /\ faults' = faults + 1)
        BY DEF ReadBack, ReadOnly, Fault
    <2> QED
        BY <2>1, EnrollmentAssumption DEF IInv, TypeOK
<1>4. /\ entry \in Entry /\ Remembers(entry, sent[cur]) /\ sent[cur] \in [Write -> 0..2]
      /\ Target = {"host", "k8"} /\ (tgt = "host" \/ tgt = "k8")
    BY <1>2 DEF entry, IInv, TypeOK, Ledger, LedgerInv, MemoryInv, Target
<1>5. CASE FailProject /\ UNCHANGED ledger
    <2>1. LedgerInv' /\ CycleInv' /\ CycleTyped' /\ pc' \in Position
          /\ access' \subseteq Project /\ verified' \subseteq Project
        BY <1>1, <1>5, FailKeeps DEF file, history
    <2>2. TypeOK'
        BY <1>1, <1>3, <1>5, <2>1 DEF IInv, TypeOK, file, upstream, history, CycleTyped
    <2> QED
        BY <2>1, <2>2 DEF IInv
<1>6. CASE /\ pc = "readBack" /\ Read /\ Keep /\ Goto("saveGranted")
           /\ Update([entry EXCEPT !.seen[tgt] = TRUE, !.pending = "none"])
    <2> DEFINE e == [entry EXCEPT !.seen[tgt] = TRUE, !.pending = "none"]
    <2>1. e \in Entry /\ e.pending = "none" /\ e.seen = [entry.seen EXCEPT ![tgt] = TRUE]
        BY <1>2, <1>4 DEF Entry
    <2>2. e.seen[tgt] /\ \A t \in Target : entry.seen[t] => e.seen[t]
        BY <1>2, <1>4, <2>1 DEF Entry
    <2> HIDE DEF e
    <2>3. pc \in Reconciling /\ pc \in Granting \cup {"readBack"}
        BY <1>6 DEF Reconciling
    <2>4. entry.pending = tgt /\ (tgt = "k8" => ~human /\ entry.seen["host"])
        BY <2>3 DEF IInv, CycleInv, PositionInv
    <2>5. e.seen["host"]
        BY <1>4, <2>2, <2>4
    <2>6. Remembers(e, sent[cur])
        BY <1>4, <2>1, <2>2, <2>4, <2>5 DEF Remembers
    <2>7. LedgerInv' /\ ServedInv' /\ ledger' \in Ledger /\ ledger'.projects[cur] = e
        BY <1>1, <1>6, <2>1, <2>6, UpdateKeeps DEF file, history, Keep, e
    <2>8. items' \in [Target -> Role]
        BY <1>2, <1>6 DEF Read, IInv, TypeOK
    <2>9. LoopInv'
        BY <1>1, <1>6 DEF IInv, CycleInv, LoopInv, Goto, Keep, history,
            Creating, Enrolling, BeforeTarget, Granting, Reconciling, AtProject, BeforeLoop
    <2>10. PositionInv'
        BY <1>6, <2>2, <2>4, <2>5, <2>7 DEF PositionInv, Goto, Keep, entry,
            Creating, Enrolling, BeforeTarget, Granting, Reconciling, AtProject, BeforeLoop
    <2>11. TypeOK'
        BY <1>1, <1>3, <1>6, <2>7, <2>8 DEF IInv, TypeOK, Position, Goto, Keep, file, upstream, history
    <2> QED
        BY <2>7, <2>9, <2>10, <2>11 DEF IInv, CycleInv
<1>7. CASE /\ pc = "readOnly" /\ Goto("saveReady") /\ UNCHANGED <<cycle, verified, access>>
           /\ Update([entry EXCEPT !.pending = "none", !.revoked = FALSE])
    <2> DEFINE e == [entry EXCEPT !.pending = "none", !.revoked = FALSE]
    <2>1. e \in Entry /\ e.pending = "none" /\ e.revoked = FALSE /\ e.seen = entry.seen
        BY <1>4 DEF Entry
    <2> HIDE DEF e
    <2>2. entry.seen["host"] /\ entry.seen["k8"]
        BY <1>7 DEF IInv, CycleInv, PositionInv
    <2>3. Remembers(e, sent[cur])
        BY <1>4, <2>1, <2>2 DEF Remembers
    <2>4. LedgerInv' /\ ServedInv' /\ ledger' \in Ledger /\ ledger'.projects[cur] = e
        BY <1>1, <1>7, <2>1, <2>3, UpdateKeeps DEF file, history, e
    <2>5. LoopInv'
        BY <1>1, <1>7 DEF IInv, CycleInv, LoopInv, Goto, cycle, history,
            Creating, Enrolling, BeforeTarget, Granting, Reconciling, AtProject, BeforeLoop
    <2>6. PositionInv'
        BY <1>7, <2>1, <2>2, <2>4 DEF PositionInv, Goto, cycle, entry,
            Creating, Enrolling, BeforeTarget, Granting, Reconciling, AtProject, BeforeLoop
    <2>7. TypeOK'
        BY <1>1, <1>3, <1>7, <2>4 DEF IInv, TypeOK, Position, Goto, file, upstream, history, cycle
    <2> QED
        BY <2>4, <2>5, <2>6, <2>7 DEF IInv, CycleInv
<1> QED
    BY <1>5, <1>6, <1>7 DEF ReadBack, ReadOnly, FailProject

-----------------------------------------------------------------------------
(* Administrators, operators, late requests and crashes *)

\* Whatever happens to the policy file and upstream, the cycle and its ledger stay.
LEMMA OutsideKeeps ==
    ASSUME IInv, UNCHANGED <<disk, ledger, pc, cycle, verified, access, history>>
    PROVE  LedgerInv' /\ CycleInv'
BY DEF IInv, LedgerInv, MemoryInv, Remembers, SentOnce, IdentityInv, CycleInv, LoopInv, PositionInv,
       ServedInv, Ready, entry, cycle, history

LEMMA OutsideStep ==
    ASSUME IInv, Operator \/ \E r \in late : LandsLate(r) PROVE IInv'
<1>1. /\ UNCHANGED <<disk, ledger, pc, cycle, verified, access, history, faults>>
      /\ policy' \in Policies
      /\ edits' = edits \/ (edits < MaxEdits /\ edits' = edits + 1)
    <2>1. CASE Operator
        BY <2>1 DEF Operator, EditPolicy, OperatorSets, OperatorRemovesHuman, OperatorIdentity, Edit,
                    file, IInv, TypeOK
    <2>2. ASSUME NEW r \in late, LandsLate(r)
          PROVE  UNCHANGED <<policy, disk, ledger, pc, cycle, verified, access, history, faults, edits>>
        BY <2>2 DEF LandsLate, file
    <2> QED
        BY <2>1, <2>2 DEF IInv, TypeOK
<1>2. edits' \in 0..MaxEdits
    BY <1>1, EnrollmentAssumption DEF IInv, TypeOK
<1>3. roles' \in [Project -> [Target -> Role]] /\ idents' \subseteq K8Id
      /\ joined' \subseteq Project /\ late' \subseteq Request
    <2>0. roles \in [Project -> [Target -> Role]] /\ idents \subseteq K8Id
          /\ joined \subseteq Project /\ late \subseteq Request /\ "none" \in Role /\ "exact" \in Role
        BY DEF IInv, TypeOK, Role
    <2>1. CASE EditPolicy \/ \E q \in Project : OperatorRemovesHuman(q)
        BY <2>0, <2>1 DEF EditPolicy, OperatorRemovesHuman, upstream
    <2>2. ASSUME NEW q \in Project, NEW t \in Target, NEW r \in Role, OperatorSets(q, t, r)
          PROVE  roles' \in [Project -> [Target -> Role]] /\ UNCHANGED <<idents, joined, late>>
        BY <2>0, <2>2 DEF OperatorSets
    <2>3. ASSUME NEW i \in K8Id, OperatorIdentity(i)
          PROVE  /\ roles' \in [Project -> [Target -> Role]] /\ idents' \subseteq K8Id
                 /\ UNCHANGED <<joined, late>>
        BY <2>0, <2>3 DEF OperatorIdentity
    <2>4. ASSUME NEW r \in late, LandsLate(r)
          PROVE  /\ roles' \in [Project -> [Target -> Role]] /\ idents' \subseteq K8Id
                 /\ joined' \subseteq Project /\ late' \subseteq Request
        <3>1. r \in Request /\ late' = late \ {r}
            BY <2>0, <2>4 DEF LandsLate
        <3>2. CASE r[2] = "identity"
            BY <2>0, <2>4, <3>1, <3>2 DEF LandsLate, Target
        <3>3. CASE r[2] # "identity"
            <4>1. r \in Project \X Write \X BOOLEAN \X BOOLEAN
                <5>1. r = <<"none", "identity", FALSE, FALSE>> => r[2] = "identity"
                    OBVIOUS
                <5> QED
                    BY <3>1, <3>3, <5>1 DEF Request
            <4>2. r[1] \in Project
                BY <4>1
            <4> QED
                BY <2>0, <2>4, <3>1, <3>3, <4>2 DEF LandsLate
        <3> QED
            BY <3>2, <3>3
    <2> QED
        BY <2>0, <2>1, <2>2, <2>3, <2>4 DEF Operator
<1>4. TypeOK'
    BY <1>1, <1>2, <1>3 DEF IInv, TypeOK, cycle, history
<1> QED
    BY <1>1, <1>4, OutsideKeeps DEF IInv

\* What a crash leaves is the file.
LEMMA CrashStep == ASSUME IInv, Crash \/ Restart PROVE IInv'
<1>1. CASE Crash
    <2>1. faults' \in 0..MaxFaults
        BY <1>1, EnrollmentAssumption DEF Crash, Fault, IInv, TypeOK
    <2>2. LedgerInv'
        BY <1>1 DEF Crash, IInv, LedgerInv, MemoryInv, SentOnce, IdentityInv, file, history, Remembers
    <2>3. LoopInv' /\ PositionInv'
        BY <1>1 DEF Crash, Goto, ForgetCycle, ForgetProject, LoopInv, PositionInv,
            Creating, Enrolling, BeforeTarget, Granting, Reconciling, AtProject, BeforeLoop
    <2>4. ServedInv'
        BY <1>1 DEF Crash, ServedInv
    <2>5. items' \in [Target -> Role]
        BY <1>1 DEF Crash, ForgetCycle, ForgetProject, Role
    <2>6. TypeOK'
        BY <1>1, <2>1, <2>5 DEF Crash, ForgetCycle, ForgetProject, IInv, TypeOK, Position, Target,
            Goto, file, upstream, history
    <2> QED
        BY <2>2, <2>3, <2>4, <2>6 DEF IInv, CycleInv
<1>2. CASE Restart
    <2>1. LedgerInv'
        BY <1>2, SavesKeep DEF Restart, file, history
    <2>2. LoopInv' /\ PositionInv'
        BY <1>2 DEF Restart, Goto, IInv, CycleInv, LoopInv, PositionInv,
            Creating, Enrolling, BeforeTarget, Granting, Reconciling, AtProject, BeforeLoop
    <2>3. ServedInv'
        BY <1>2 DEF Restart, IInv, CycleInv, ServedInv, file
    <2>4. TypeOK'
        BY <1>2 DEF Restart, IInv, TypeOK, Position, Goto, file, upstream, history
    <2> QED
        BY <2>1, <2>2, <2>3, <2>4 DEF IInv, CycleInv
<1> QED
    BY <1>1, <1>2

-----------------------------------------------------------------------------
(* What single steps do *)

LEMMA NextStep == ASSUME IInv, Next PROVE IInv'
BY StartCycleStep, DiscoverStep, SaveIdentityStep, AuthorizeIdentityStep, CreateIdentityStep,
   LoopEndsStep, NextProjectStep, BeginProjectStep, AuthorizeStep, ReadMachineStep, ReadHumanStep,
   EnrollHumanStep, ReadAgainStep, ReconcileStep, SaveStep, SetMembershipStep, SettleStep,
   OutsideStep, CrashStep
   DEF Next, Controller

\* The file is only ever replaced by the ledger in memory.
LEMMA FileStep == ASSUME Next PROVE disk' \in {disk, ledger}
<1>1. CASE Controller
    <2>1. CASE \/ SaveIdentityPending \/ RecordIdentity \/ SaveRevoked \/ SaveHumanPending \/ SaveSeen
               \/ SavePending \/ SaveGranted \/ SaveReady
        BY <2>1 DEF SaveIdentityPending, RecordIdentity, SaveRevoked, SaveHumanPending, SaveSeen,
                    SavePending, SaveGranted, SaveReady, SaveThen
    <2>2. CASE ~(\/ SaveIdentityPending \/ RecordIdentity \/ SaveRevoked \/ SaveHumanPending \/ SaveSeen
                 \/ SavePending \/ SaveGranted \/ SaveReady)
        <3>1. UNCHANGED file
            BY <1>1, <2>2 DEF Controller, StartCycle, Discover, AuthorizeIdentity, CreateIdentity,
                NextProject, LoopEnds, BeginProject, ReadMachine, ReadHuman, AuthorizeHuman, EnrollHuman,
                ReadJoined, Reconcile, RereadMachine, AuthorizeSet, SetMembership, ReadBack, ReadOnly
        <3> QED
            BY <3>1 DEF file
    <2> QED
        BY <2>1, <2>2
<1>2. CASE Operator \/ Crash \/ Restart \/ \E r \in late : LandsLate(r)
    BY <1>2 DEF Operator, EditPolicy, OperatorSets, OperatorRemovesHuman, OperatorIdentity, Crash,
                Restart, LandsLate, file
<1> QED
    BY <1>1, <1>2 DEF Next

\* A role is given only by SetMembership, an operator or a request that lands late.
LEMMA RolesStep ==
    ASSUME IInv, Next PROVE UNCHANGED roles \/ SetMembership \/ edits' # edits \/ late' # late
<1>1. CASE Controller /\ ~SetMembership
    <2>1. UNCHANGED roles
        BY <1>1 DEF Controller, StartCycle, Discover, AuthorizeIdentity, CreateIdentity,
            NextProject, LoopEnds, BeginProject, ReadMachine, ReadHuman, AuthorizeHuman, EnrollHuman,
            ReadJoined, Reconcile, RereadMachine, AuthorizeSet, ReadBack, ReadOnly,
            SaveIdentityPending, RecordIdentity, SaveRevoked, SaveHumanPending, SaveSeen,
            SavePending, SaveGranted, SaveReady, upstream
    <2> QED
        BY <2>1
<1>2. CASE Operator
    <2>1. edits' = edits + 1
        BY <1>2 DEF Operator, EditPolicy, OperatorSets, OperatorRemovesHuman, OperatorIdentity, Edit
    <2> QED
        BY <2>1, EnrollmentAssumption DEF IInv, TypeOK
<1>3. CASE Crash \/ Restart
    BY <1>3 DEF Crash, Restart, upstream
<1>4. CASE \E r \in late : LandsLate(r)
    BY <1>4 DEF LandsLate
<1> QED
    BY <1>1, <1>2, <1>3, <1>4 DEF Next

-----------------------------------------------------------------------------
(* Theorems *)

\* The inductive invariant of the controller: entries remember what was sent, and the
\* position of a cycle what was recorded.
THEOREM EnrollmentInvariance == Spec => []IInv
<1>1. ASSUME IInv, UNCHANGED vars PROVE IInv'
    <2>1. LedgerInv' /\ CycleInv'
        BY <1>1, OutsideKeeps DEF vars, cycle, history
    <2>2. TypeOK'
        BY <1>1 DEF vars, IInv, TypeOK
    <2> QED
        BY <2>1, <2>2 DEF IInv
<1>2. IInv /\ [Next]_vars => IInv'
    BY <1>1, NextStep
<1> QED
    BY InitEnrollment, <1>2, PTL DEF Spec

\* Every write is in the ledger file before it is sent, is sent once until repair is
\* asked for, and the viewer role is given by the machine identity, for any number of
\* projects, faults, crashes and edits (controller.go:115-247, 256-395).
THEOREM WritesAreSound == Spec => []WritesSound
<1>1. ASSUME IInv PROVE WritesSound
    <2>1. WritesAreJournaled
        <3>1. pc = "createIdentity" => disk = ledger /\ ledger.identityPending
            BY <1>1 DEF IInv, CycleInv, LoopInv, PositionInv, Creating
        <3>2. pc = "enrollHuman" => disk = ledger /\ entry.pending = "human_enrollment"
            BY <1>1 DEF IInv, CycleInv, PositionInv, Enrolling
        <3>3. pc = "set" => disk = ledger /\ entry.pending = tgt
            BY <1>1 DEF IInv, CycleInv, PositionInv, Granting
        <3> QED
            BY <3>1, <3>2, <3>3 DEF WritesAreJournaled, entry
    <2>2. NotReplayed
        BY <1>1 DEF IInv, LedgerInv, SentOnce, IdentityInv, NotReplayed
    <2>3. ViewerGivenByMachine
        BY <1>1 DEF IInv, CycleInv, PositionInv, ViewerGivenByMachine, Reconciling, Granting, entry
    <2> QED
        BY <1>1, <2>1, <2>2, <2>3 DEF IInv, WritesSound
<1> QED
    BY <1>1, EnrollmentInvariance, PTL

\* A project the bridge serves, or will at the end of the cycle, is enrolled in the
\* ledger's file and in memory (controller.go:115-247).
THEOREM ServedAreEnrolled == Spec => []ServedIsEnrolled
<1>1. ASSUME IInv PROVE ServedIsEnrolled
    BY <1>1 DEF IInv, CycleInv, ServedInv, Ready, ServedIsEnrolled, Target
<1> QED
    BY <1>1, EnrollmentInvariance, PTL

\* The K8 identity the ledger's file names is never replaced.
THEOREM IdentityIsPinned == Spec => IdentityPinned
<1>1. ASSUME IInv, [Next]_vars PROVE [disk.k8 # NoId => disk'.k8 = disk.k8]_vars
    <2>1. disk' \in {disk, ledger}
        BY <1>1, FileStep DEF vars
    <2> QED
        BY <1>1, <2>1 DEF IInv, LedgerInv, IdentityInv
<1> QED
    BY <1>1, EnrollmentInvariance, PTL DEF Spec, IdentityPinned

\* What the controller grants without repair was absent and is not in the ledger as
\* seen: a role an operator took away or changed is not given back, even when that
\* happened after the controller's reading (controller.go:256-395).
THEOREM RevocationsArePreserved == Spec => RevocationsPreserved
<1> DEFINE Granted == \A q \in Project, t \in Target :
               /\ roles[q][t] # "exact" /\ roles'[q][t] = "exact"
               /\ edits' = edits /\ late' = late
               => p.repair \/ (roles[q][t] = "none" /\ ~disk.projects[q].seen[t])
<1>1. ASSUME IInv, Next PROVE Granted
    <2>1. CASE UNCHANGED roles
        BY <2>1
    <2>2. CASE edits' # edits \/ late' # late
        BY <2>2
    <2>3. CASE SetMembership
        <3>1. /\ pc = "set" /\ pc \in Granting /\ pc \in AtProject
              /\ UNCHANGED roles \/ /\ roles' = [roles EXCEPT ![cur][tgt] = "exact"]
                                    /\ (items[tgt] # "none") = (roles[cur][tgt] # "none")
            BY <2>3 DEF SetMembership, Accepted, Granting, AtProject, Reconciling
        <3>2. /\ disk = ledger /\ cur \in Project /\ tgt \in Target
              /\ p.repair \/ (items[tgt] = "none" /\ ~entry.seen[tgt])
            BY <1>1, <3>1 DEF IInv, TypeOK, CycleInv, LoopInv, PositionInv
        <3>3. roles \in [Project -> [Target -> Role]]
            BY <1>1 DEF IInv, TypeOK
        <3>4. \A q \in Project, t \in Target :
                  roles'[q][t] # roles[q][t] => q = cur /\ t = tgt /\ (items[t] # "none") = (roles[q][t] # "none")
            BY <3>1, <3>2, <3>3
        <3> QED
            BY <3>2, <3>4 DEF entry
    <2> QED
        BY <1>1, <2>1, <2>2, <2>3, RolesStep
<1>2. ASSUME IInv, [Next]_vars PROVE [Granted]_vars
    BY <1>1, <1>2
<1> QED
    BY <1>2, EnrollmentInvariance, PTL DEF Spec, RevocationsPreserved
=============================================================================
