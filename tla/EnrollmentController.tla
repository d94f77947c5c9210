------------------------ MODULE EnrollmentController ------------------------
(***************************************************************************)
(* The enrollment controller of the host bridge,                           *)
(* host-agent/internal/enrollment: it gives the host identity the admin    *)
(* role and the Kubernetes identity the viewer role in every project that  *)
(* the local policy allows, and publishes the projects whose roles it has  *)
(* verified.                                                               *)
(*                                                                         *)
(* One controller runs cycles.  Around it the administrator edits the      *)
(* policy file, operators change memberships upstream, requests are lost   *)
(* or land late, the ledger file cannot be written, and the process        *)
(* crashes and restarts from the ledger.                                   *)
(*                                                                         *)
(* Every call to the backend, every save of the ledger and every reading   *)
(* of the policy is a step of its own; what lies between two of them is    *)
(* local to the controller and belongs to the step before.                 *)
(*                                                                         *)
(* A definition standing before another one with a longer name made from   *)
(* it is a slip the code could have made; nothing here uses it.            *)
(***************************************************************************)
EXTENDS Naturals, FiniteSets

CONSTANTS
    Project,      \* the projects discovery returns
    K8Id,         \* ids an identity with the configured K8 name may have
    NoId,         \* no K8 identity known
    PolicyK8,     \* policy.K8IdentityID: an element of K8Id, or NoId
    Policies,     \* the contents the policy file may have
    MaxFaults,    \* bound: failed calls, failed saves, timeouts and crashes
    MaxEdits      \* bound: changes made by administrators and operators

Target == {"host", "k8"}
Write  == {"human_enrollment"} \cup Target

\* What a target has in a project: nothing; exactly its one permanent role; or
\* roles that are not exact. For the host these may carry the admin role's rights
\* all the same (it is temporary, or one of several), may only read, or neither.
Role   == {"none", "exact", "wider", "reader", "other"}
HostOnly == {"wider", "reader"}

ASSUME EnrollmentAssumption ==
    /\ NoId \notin K8Id
    /\ PolicyK8 \in K8Id \cup {NoId}
    /\ \A q \in Policies : /\ q.valid \in BOOLEAN /\ q.apply \in BOOLEAN
                           /\ q.repair \in BOOLEAN /\ q.create \in BOOLEAN
                           /\ q.allows \subseteq Project
    /\ MaxFaults \in Nat /\ MaxEdits \in Nat

VARIABLES
    \* local files
    policy,    \* the policy file; valid means well formed and of this binding
    disk,      \* ledger.json
    \* the process
    ledger,    \* c.ledger
    pc,        \* where the cycle is, "idle" between cycles, "down" after a crash
    p,         \* the policy the cycle has read
    todo,      \* discovered projects the loop of Cycle has not reached
    cur,       \* the project being reconciled
    tgt,       \* the membership being reconciled: first "host", then "k8"
    human,     \* the reads and writes of cur use the human session
    items,     \* the memberships last read, as the role of each target
    verified,  \* the local map verified of Cycle
    access,    \* Access.verified
    \* upstream
    idents,    \* identities with the configured K8 name
    joined,    \* projects the human is a member of
    roles,     \* the role of each target in each project
    late,      \* requests given up by the controller that may still land
    \* history and bounds
    sent,      \* per project, the writes sent since repair was last in force
    creates,   \* number of CreateIdentity requests sent
    faults, edits

file  == <<policy, disk>>
cycle == <<p, todo, cur, tgt, human, items>>
upstream == <<idents, joined, roles, late>>
history  == <<sent, creates>>
vars == <<policy, disk, ledger, pc, p, todo, cur, tgt, human, items, verified,
          access, idents, joined, roles, late, sent, creates, faults, edits>>

Entry == [seen : [Target -> BOOLEAN], pending : Write \cup {"none"}, revoked : BOOLEAN]
NewEntry == [seen |-> [t \in Target |-> FALSE], pending |-> "none", revoked |-> FALSE]

Ledger == [k8 : K8Id \cup {NoId}, identityPending : BOOLEAN,
           projects : [Project -> Entry]]

\* A request upstream: which write, whether the membership was there when it was
\* prepared (PATCH) or not (POST), and whether the human session sends it.
Request == (Project \X Write \X BOOLEAN \X BOOLEAN)
               \cup {<<"none", "identity", FALSE, FALSE>>}

Position == {"idle", "down", "discover", "saveIdentityPending", "authorizeIdentity",
             "createIdentity", "recordIdentity", "next", "project", "readMachine",
             "saveRevoked", "readHuman", "saveHumanPending", "authorizeHuman",
             "enrollHuman", "readJoined", "target", "saveSeen", "rereadMachine",
             "savePending", "authorizeSet", "set", "readBack", "saveGranted",
             "readOnly", "saveReady"}

TypeOK ==
    /\ policy \in Policies /\ p \in Policies
    /\ disk \in Ledger /\ ledger \in Ledger
    /\ pc \in Position
    /\ todo \subseteq Project /\ verified \subseteq Project /\ access \subseteq Project
    /\ cur \in Project \cup {"none"}
    /\ tgt \in Target /\ human \in BOOLEAN /\ items \in [Target -> Role]
    /\ idents \subseteq K8Id /\ joined \subseteq Project
    /\ roles \in [Project -> [Target -> Role]]
    /\ late \subseteq Request
    /\ sent \in [Project -> [Write -> 0..2]]
    /\ creates \in 0..2 /\ faults \in 0..MaxFaults /\ edits \in 0..MaxEdits

entry == ledger.projects[cur]

\* Access.Projects, read by the bridge for every request: the policy is read again.
Served == IF policy.valid THEN access \cap policy.allows ELSE {}

-----------------------------------------------------------------------------
Init ==
    /\ policy \in Policies
    /\ p = policy
    /\ ledger = [k8 |-> NoId, identityPending |-> FALSE,
                 projects |-> [q \in Project |-> NewEntry]]
    /\ disk = ledger
    /\ pc = "idle"
    /\ todo = {} /\ cur = "none" /\ tgt = "host" /\ human = FALSE
    /\ items = [t \in Target |-> "none"]
    /\ verified = {} /\ access = {}
    /\ idents \in SUBSET K8Id
    /\ joined = {}
    /\ roles = [q \in Project |-> [t \in Target |-> "none"]]
    /\ late = {}
    /\ sent = [q \in Project |-> [w \in Write |-> 0]]
    /\ creates = 0 /\ faults = 0 /\ edits = 0

Goto(l) == pc' = l

\* The local variables of project and of Cycle, gone when it returns.
ForgetProject ==
    /\ cur' = "none" /\ tgt' = "host" /\ human' = FALSE
    /\ items' = [t \in Target |-> "none"]

ForgetCycle == ForgetProject /\ todo' = {} /\ p' = p

EndCycleMerging ==
    /\ Goto("idle")
    /\ access' = access \cup verified
    /\ verified' = {}
    /\ ForgetCycle

\* Cycle returns: its deferred function publishes what was verified.
EndCycle ==
    /\ Goto("idle")
    /\ access' = verified
    /\ verified' = {}
    /\ ForgetCycle

\* project returns without making the project ready, and Cycle goes on.
SkipProject == Goto("next") /\ ForgetProject /\ UNCHANGED <<p, todo, verified, access>>

\* project returns an error: Cycle goes on, or stops when it was rate limited.
FailProject == SkipProject \/ EndCycle

Fault == faults < MaxFaults /\ faults' = faults + 1

\* The ledger's entry of the current project becomes e.
Update(e) == ledger' = [ledger EXCEPT !.projects[cur] = e]

SaveThenRegardless(done, failed) ==
    \/ disk' = ledger /\ done /\ UNCHANGED faults
    \/ Fault /\ disk' \in {disk, ledger} /\ done

\* Store.Save: written; or failed, before or after the rename.
SaveThen(done, failed) ==
    \/ disk' = ledger /\ done /\ UNCHANGED faults
    \/ Fault /\ disk' \in {disk, ledger} /\ failed

\* authorizeWrite reads the policy file again.
Authorized(q) ==
    /\ policy.valid /\ policy.apply
    /\ p.repair => policy.repair
    /\ q \in policy.allows

AuthorizedToCreate ==
    /\ policy.valid /\ policy.apply
    /\ p.repair => policy.repair
    /\ policy.create

-----------------------------------------------------------------------------
\* The beginning of Cycle, up to the first call: read the policy.
StartCycle ==
    /\ pc = "idle"
    /\ verified' = {}
    /\ p' = policy
    /\ \/ policy.valid /\ Goto("discover") /\ UNCHANGED access
       \/ ~policy.valid /\ Goto("idle") /\ access' = {}
    /\ UNCHANGED <<file, ledger, todo, cur, tgt, human, items, upstream, history,
                   faults, edits>>

\* Projects and Identities, and the choice of the K8 identity.
KnownIdOfPolicy == PolicyK8

\* The K8 identity the cycle looks for: the policy's, else the ledger's.
KnownId == IF PolicyK8 # NoId THEN PolicyK8 ELSE ledger.k8

Discover ==
    LET known   == KnownId
        matches == IF known # NoId THEN idents \cap {known} ELSE idents
    IN  /\ pc = "discover"
        /\ \/ \* a failed call, an ambiguous name, or nothing that may be created
              /\ \/ Fault
                 \/ /\ \/ Cardinality(matches) > 1
                       \/ /\ matches = {}
                          /\ known # NoId \/ ~p.create \/ ledger.identityPending \/ ~p.apply
                    /\ UNCHANGED faults
              /\ EndCycle
              /\ UNCHANGED ledger
           \/ \* create it: the marker first
              /\ matches = {} /\ known = NoId
              /\ p.create /\ ~ledger.identityPending /\ p.apply
              /\ ledger' = [ledger EXCEPT !.identityPending = TRUE]
              /\ Goto("saveIdentityPending")
              /\ UNCHANGED <<cycle, verified, access, faults>>
           \/ \* adopt it
              /\ Cardinality(matches) = 1
              /\ \E i \in matches :
                     ledger' = [ledger EXCEPT !.k8 = i, !.identityPending = FALSE]
              /\ Goto("recordIdentity")
              /\ UNCHANGED <<cycle, verified, access, faults>>
        /\ UNCHANGED <<file, upstream, history, edits>>

SaveIdentityPending ==
    /\ pc = "saveIdentityPending"
    /\ SaveThen(Goto("authorizeIdentity") /\ UNCHANGED <<cycle, verified, access>>, EndCycle)
    /\ UNCHANGED <<policy, ledger, upstream, history, edits>>

AuthorizeIdentity ==
    /\ pc = "authorizeIdentity"
    /\ IF AuthorizedToCreate THEN Goto("createIdentity") /\ UNCHANGED <<cycle, verified, access>>
                             ELSE EndCycle
    /\ UNCHANGED <<file, ledger, upstream, history, faults, edits>>

\* CreateIdentity: the response, or an error with the request maybe under way.
CreateIdentity ==
    /\ pc = "createIdentity"
    /\ creates' = IF creates < 2 THEN creates + 1 ELSE creates
    /\ \/ \E i \in K8Id \ idents :
              /\ idents' = idents \cup {i}
              /\ ledger' = [ledger EXCEPT !.k8 = i, !.identityPending = FALSE]
              /\ Goto("recordIdentity")
              /\ UNCHANGED <<cycle, verified, access, late, faults>>
       \/ /\ Fault
          /\ late' \in {late, late \cup {<<"none", "identity", FALSE, FALSE>>}}
          /\ EndCycle
          /\ UNCHANGED <<idents, ledger>>
       \/ /\ K8Id \subseteq idents    \* the bound K8Id is reached: refused
          /\ EndCycle
          /\ UNCHANGED <<idents, ledger, late, faults>>
    /\ UNCHANGED <<file, joined, roles, sent, edits>>

RecordIdentity ==
    /\ pc = "recordIdentity"
    /\ SaveThen(/\ Goto("next")
                /\ todo' = Project
                /\ UNCHANGED <<p, cur, tgt, human, items, verified, access>>,
                EndCycle)
    /\ UNCHANGED <<policy, ledger, upstream, history, edits>>

WithdrawNothing(q) == access' = access

\* Access.Withdraw
Withdraw(q) == access' = access \ {q}

\* One round of the loop over the projects, up to the call of project.
NextProject(q) ==
    /\ pc = "next"
    /\ q \in todo
    /\ \/ \* the policy read before does not allow it
          /\ q \notin p.allows
          /\ todo' = todo \ {q}
          /\ UNCHANGED <<pc, p, cur, tgt, human, items, verified, access, sent>>
       \/ \* the policy is read again
          /\ q \in p.allows
          /\ \/ /\ ~policy.valid
                /\ EndCycle
                /\ UNCHANGED sent
             \/ /\ policy.valid
                /\ p' = policy
                /\ todo' = todo \ {q}
                /\ \/ /\ q \notin policy.allows
                      /\ UNCHANGED <<pc, cur, tgt, human, items, verified, access, sent>>
                   \/ /\ q \in policy.allows
                      /\ Withdraw(q)
                      /\ cur' = q /\ tgt' = "host" /\ human' = FALSE
                      /\ items' = [t \in Target |-> "none"]
                      /\ Goto("project")
                      /\ sent' = IF policy.repair THEN [sent EXCEPT ![q] = [w \in Write |-> 0]]
                                                  ELSE sent
                      /\ UNCHANGED verified
    /\ UNCHANGED <<file, ledger, upstream, creates, faults, edits>>

LoopEnds ==
    /\ pc = "next"
    /\ \/ todo = {} /\ UNCHANGED faults
       \/ Fault    \* the cycle's two minutes are over
    /\ EndCycle
    /\ UNCHANGED <<file, ledger, upstream, history, edits>>

-----------------------------------------------------------------------------
BeginProjectForGood ==
    /\ pc = "project"
    /\ IF entry.revoked THEN SkipProject
       ELSE Goto("readMachine") /\ UNCHANGED <<cycle, verified, access>>
    /\ UNCHANGED <<file, ledger, upstream, history, faults, edits>>

\* project: a recorded revocation is preserved.
BeginProject ==
    /\ pc = "project"
    /\ IF entry.revoked /\ ~p.repair THEN SkipProject
       ELSE Goto("readMachine") /\ UNCHANGED <<cycle, verified, access>>
    /\ UNCHANGED <<file, ledger, upstream, history, faults, edits>>

\* Memberships: what the machine identity may read depends on its own role.
MachineReads    == roles[cur]["host"] \in {"exact", "wider", "reader"}
MachineRefused  == ~MachineReads
HumanReads      == cur \in joined

Read == items' = roles[cur]

Keep == UNCHANGED <<p, todo, cur, tgt, human, verified, access>>

ReadMachine ==
    /\ pc = "readMachine"
    /\ \/ /\ MachineReads
          /\ Read /\ Keep /\ Goto("target")
          /\ UNCHANGED <<ledger, faults>>
       \/ /\ MachineRefused
          /\ \/ /\ entry.seen["host"] /\ ~p.repair
                /\ Update([entry EXCEPT !.revoked = TRUE])
                /\ Goto("saveRevoked") /\ Keep /\ UNCHANGED items
             \/ /\ ~(entry.seen["host"] /\ ~p.repair)
                /\ ~p.apply
                /\ SkipProject /\ UNCHANGED ledger
             \/ /\ ~(entry.seen["host"] /\ ~p.repair)
                /\ p.apply
                /\ Goto("readHuman") /\ Keep /\ UNCHANGED <<items, ledger>>
          /\ UNCHANGED faults
       \/ Fault /\ FailProject /\ UNCHANGED ledger
    /\ UNCHANGED <<file, upstream, history, edits>>

SaveRevoked ==
    /\ pc = "saveRevoked"
    /\ SaveThen(SkipProject, SkipProject)
    /\ UNCHANGED <<policy, ledger, upstream, history, edits>>

\* An ambiguous previous enrollment is observed before any retry.
ReadHuman ==
    /\ pc = "readHuman"
    /\ \/ /\ HumanReads
          /\ Read /\ human' = TRUE /\ Goto("target")
          /\ UNCHANGED <<p, todo, cur, tgt, verified, access, ledger, faults>>
       \/ /\ ~HumanReads
          /\ entry.pending # "none" /\ ~p.repair
          /\ SkipProject /\ UNCHANGED <<ledger, faults>>
       \/ /\ ~HumanReads
          /\ entry.pending = "none" \/ p.repair
          /\ Update([entry EXCEPT !.pending = "human_enrollment"])
          /\ Goto("saveHumanPending") /\ Keep /\ UNCHANGED <<items, faults>>
       \/ Fault /\ FailProject /\ UNCHANGED ledger
    /\ UNCHANGED <<file, upstream, history, edits>>

SaveHumanPending ==
    /\ pc = "saveHumanPending"
    /\ SaveThen(Goto("authorizeHuman") /\ UNCHANGED <<cycle, verified, access>>, SkipProject)
    /\ UNCHANGED <<policy, ledger, upstream, history, edits>>

AuthorizeHuman ==
    /\ pc = "authorizeHuman"
    /\ IF Authorized(cur) THEN Goto("enrollHuman") /\ UNCHANGED <<cycle, verified, access>>
                          ELSE SkipProject
    /\ UNCHANGED <<file, ledger, upstream, history, faults, edits>>

Sends(w) == sent' = [sent EXCEPT ![cur][w] = IF p.repair \/ @ = 2 THEN @ ELSE @ + 1]

EnrollHuman ==
    /\ pc = "enrollHuman"
    /\ Sends("human_enrollment")
    /\ \/ /\ joined' = joined \cup {cur}
          /\ Goto("readJoined") /\ UNCHANGED <<cycle, verified, access, late, faults>>
       \/ /\ Fault
          /\ late' \in {late, late \cup {<<cur, "human_enrollment", FALSE, TRUE>>}}
          /\ FailProject /\ UNCHANGED joined
    /\ UNCHANGED <<file, ledger, idents, roles, creates, edits>>

ReadJoined ==
    /\ pc = "readJoined"
    /\ \/ /\ HumanReads
          /\ Read /\ human' = TRUE /\ Goto("target")
          /\ UNCHANGED <<p, todo, cur, tgt, verified, access, faults>>
       \/ ~HumanReads /\ SkipProject /\ UNCHANGED faults
       \/ Fault /\ FailProject
    /\ UNCHANGED <<file, ledger, upstream, history, edits>>

-----------------------------------------------------------------------------
TakenAwayIfPresent == items[tgt] # "none" /\ ~p.repair

\* The membership was there, or is there with other roles: an operator changed it.
TakenAway == (entry.seen[tgt] \/ items[tgt] # "none") /\ ~p.repair

\* A grant was begun and its outcome is not known.
Unsettled == entry.pending \in Target /\ ~p.repair

\* The loop over the two targets, the local decision for one of them.
Reconcile ==
    LET exact   == items[tgt] = "exact"
        revoked == ~exact /\ TakenAway
        blocked == ~exact /\ ~TakenAway /\ Unsettled
    IN  /\ pc = "target"
        /\ \/ /\ exact
              /\ Update([entry EXCEPT !.seen[tgt] = TRUE,
                                      !.pending = IF @ = tgt THEN "none" ELSE @])
              /\ Goto("saveSeen") /\ UNCHANGED <<cycle, verified, access>>
           \/ /\ revoked
              /\ Update([entry EXCEPT !.revoked = TRUE])
              /\ Goto("saveRevoked") /\ UNCHANGED <<cycle, verified, access>>
           \/ /\ blocked \/ (~exact /\ ~revoked /\ ~p.apply)
              /\ SkipProject /\ UNCHANGED ledger
           \/ /\ ~exact /\ ~revoked /\ ~blocked /\ p.apply
              /\ Update([entry EXCEPT !.pending = tgt])
              /\ Goto("savePending") /\ UNCHANGED <<cycle, verified, access>>
        /\ UNCHANGED <<file, upstream, history, faults, edits>>

\* After the host membership, the machine identity must read the project itself.
AfterTarget ==
    \/ /\ tgt = "k8"
       /\ Goto("readOnly") /\ UNCHANGED <<cycle, verified, access>>
    \/ /\ tgt = "host" /\ ~human
       /\ tgt' = "k8" /\ Goto("target")
       /\ UNCHANGED <<p, todo, cur, human, items, verified, access>>
    \/ /\ tgt = "host" /\ human
       /\ human' = FALSE /\ Goto("rereadMachine")
       /\ UNCHANGED <<p, todo, cur, tgt, items, verified, access>>

SaveSeen ==
    /\ pc = "saveSeen"
    /\ SaveThen(AfterTarget, SkipProject)
    /\ UNCHANGED <<policy, ledger, upstream, history, edits>>

RereadMachine ==
    /\ pc = "rereadMachine"
    /\ \/ /\ MachineReads
          /\ Read /\ tgt' = "k8" /\ Goto("target")
          /\ UNCHANGED <<p, todo, cur, human, verified, access, faults>>
       \/ MachineRefused /\ SkipProject /\ UNCHANGED faults
       \/ Fault /\ FailProject
    /\ UNCHANGED <<file, ledger, upstream, history, edits>>

SavePending ==
    /\ pc = "savePending"
    /\ SaveThen(Goto("authorizeSet") /\ UNCHANGED <<cycle, verified, access>>, SkipProject)
    /\ UNCHANGED <<policy, ledger, upstream, history, edits>>

AuthorizeSet ==
    /\ pc = "authorizeSet"
    /\ IF Authorized(cur) THEN Goto("set") /\ UNCHANGED <<cycle, verified, access>>
                          ELSE SkipProject
    /\ UNCHANGED <<file, ledger, upstream, history, faults, edits>>

\* The K8 identity that memberships are about: it is in the ledger file before
\* the first project is reconciled, and stays.
Enrolled == IF PolicyK8 # NoId THEN PolicyK8 ELSE disk.k8

\* The sender of a write is allowed it: the human session where the human is
\* enrolled, the machine identity where its own roles are those of an admin.
Allowed(q, byHuman) ==
    IF byHuman THEN q \in joined ELSE roles[q]["host"] \in {"exact", "wider"}

\* Creating what exists and patching what does not are refused upstream, and so
\* are a membership of an identity that is gone and a write of the wrong sender.
Accepted(q, t, exists, byHuman) ==
    /\ exists = (roles[q][t] # "none")
    /\ t = "k8" => Enrolled \in idents
    /\ Allowed(q, byHuman)

SetMembership ==
    /\ pc = "set"
    /\ Sends(tgt)
    /\ \/ /\ Accepted(cur, tgt, items[tgt] # "none", human)
          /\ roles' = [roles EXCEPT ![cur][tgt] = "exact"]
          /\ Goto("readBack") /\ UNCHANGED <<cycle, verified, access, late, faults>>
       \/ /\ ~Accepted(cur, tgt, items[tgt] # "none", human)
          /\ SkipProject /\ UNCHANGED <<roles, late, faults>>
       \/ /\ Fault
          /\ late' \in {late, late \cup {<<cur, tgt, items[tgt] # "none", human>>}}
          /\ FailProject /\ UNCHANGED roles
    /\ UNCHANGED <<file, ledger, idents, joined, creates, edits>>

\* Read back exact roles before granting access or moving to the next write.
ReadBack ==
    /\ pc = "readBack"
    /\ \/ /\ IF human THEN HumanReads ELSE MachineReads
          /\ IF roles[cur][tgt] = "exact"
             THEN /\ Update([entry EXCEPT !.seen[tgt] = TRUE, !.pending = "none"])
                  /\ Read /\ Keep /\ Goto("saveGranted")
             ELSE SkipProject /\ UNCHANGED ledger
          /\ UNCHANGED faults
       \/ /\ IF human THEN ~HumanReads ELSE MachineRefused
          /\ SkipProject /\ UNCHANGED <<ledger, faults>>
       \/ Fault /\ FailProject /\ UNCHANGED ledger
    /\ UNCHANGED <<file, upstream, history, edits>>

SaveGranted ==
    /\ pc = "saveGranted"
    /\ SaveThen(\/ /\ tgt = "k8"
                   /\ Goto("readOnly") /\ UNCHANGED <<cycle, verified, access>>
                \/ /\ tgt = "host"
                   /\ human' = FALSE /\ Goto("rereadMachine")
                   /\ UNCHANGED <<p, todo, cur, tgt, items, verified, access>>,
                SkipProject)
    /\ UNCHANGED <<policy, ledger, upstream, history, edits>>

\* ReadOnlyIdentity: the K8 identity has no privilege beyond its role.
ReadOnly ==
    /\ pc = "readOnly"
    /\ \/ /\ Update([entry EXCEPT !.pending = "none", !.revoked = FALSE])
          /\ Goto("saveReady") /\ UNCHANGED <<cycle, verified, access, faults>>
       \/ Fault /\ FailProject /\ UNCHANGED ledger
    /\ UNCHANGED <<file, upstream, history, edits>>

SaveReady ==
    /\ pc = "saveReady"
    /\ SaveThen(/\ Goto("next") /\ ForgetProject
                /\ verified' = verified \cup {cur}
                /\ UNCHANGED <<p, todo, access>>,
                SkipProject)
    /\ UNCHANGED <<policy, ledger, upstream, history, edits>>

-----------------------------------------------------------------------------
Edit == edits < MaxEdits /\ edits' = edits + 1

\* The administrator replaces the policy file.
EditPolicy ==
    /\ Edit
    /\ policy' \in Policies \ {policy}
    /\ UNCHANGED <<disk, ledger, pc, cycle, verified, access, upstream, history, faults>>

\* An operator changes a membership, or takes the human out of a project.
OperatorSets(q, t, r) ==
    /\ Edit
    /\ roles[q][t] # r
    /\ t = "k8" => r \notin HostOnly
    /\ t = "k8" => Enrolled \in idents
    /\ roles' = [roles EXCEPT ![q][t] = r]
    /\ UNCHANGED <<file, ledger, pc, cycle, verified, access, idents, joined, late,
                   history, faults>>

OperatorRemovesHuman(q) ==
    /\ Edit
    /\ q \in joined
    /\ joined' = joined \ {q}
    /\ UNCHANGED <<file, ledger, pc, cycle, verified, access, idents, roles, late,
                   history, faults>>

\* An operator creates or deletes an identity; its memberships go with it.
OperatorIdentity(i) ==
    /\ Edit
    /\ \/ /\ i \notin idents
          /\ idents' = idents \cup {i}
          /\ UNCHANGED roles
       \/ /\ i \in idents
          /\ idents' = idents \ {i}
          /\ roles' = [q \in Project |->
                          IF i = Enrolled THEN [roles[q] EXCEPT !.k8 = "none"] ELSE roles[q]]
    /\ UNCHANGED <<file, ledger, pc, cycle, verified, access, joined, late, history, faults>>

\* A request that was given up lands after all.
LandsLate(r) ==
    /\ r \in late
    /\ late' = late \ {r}
    /\ \/ /\ r[2] = "identity"
          /\ \E i \in K8Id \ idents : idents' = idents \cup {i}
          /\ UNCHANGED <<joined, roles>>
       \/ /\ r[2] = "human_enrollment"
          /\ joined' = joined \cup {r[1]}
          /\ UNCHANGED <<idents, roles>>
       \/ /\ r[2] \in Target
          /\ Accepted(r[1], r[2], r[3], r[4])
          /\ roles' = [roles EXCEPT ![r[1]][r[2]] = "exact"]
          /\ UNCHANGED <<idents, joined>>
    /\ UNCHANGED <<file, ledger, pc, cycle, verified, access, history, faults, edits>>

\* The process dies at any point; what it had in memory is gone.
Crash ==
    /\ pc # "down"
    /\ Fault
    /\ Goto("down")
    /\ access' = {} /\ verified' = {}
    /\ ledger' = disk
    /\ ForgetCycle
    /\ UNCHANGED <<file, upstream, history, edits>>

\* NewController: a valid policy, and the ledger of the file.
Restart ==
    /\ pc = "down"
    /\ policy.valid
    /\ Goto("idle")
    /\ p' = policy
    /\ UNCHANGED <<file, ledger, todo, cur, tgt, human, items, verified, access,
                   upstream, history, faults, edits>>

Controller ==
    \/ StartCycle \/ Discover \/ SaveIdentityPending \/ AuthorizeIdentity
    \/ CreateIdentity \/ RecordIdentity
    \/ (\E q \in Project : NextProject(q)) \/ LoopEnds
    \/ BeginProject \/ ReadMachine \/ SaveRevoked \/ ReadHuman \/ SaveHumanPending
    \/ AuthorizeHuman \/ EnrollHuman \/ ReadJoined \/ Reconcile \/ SaveSeen
    \/ RereadMachine \/ SavePending \/ AuthorizeSet \/ SetMembership \/ ReadBack
    \/ SaveGranted \/ ReadOnly \/ SaveReady

Operator ==
    \/ EditPolicy
    \/ \E q \in Project, t \in Target, r \in Role : OperatorSets(q, t, r)
    \/ \E q \in Project : OperatorRemovesHuman(q)
    \/ \E i \in K8Id : OperatorIdentity(i)

Next ==
    \/ Controller \/ Operator \/ Crash \/ Restart
    \/ \E r \in late : LandsLate(r)

Spec == Init /\ [][Next]_vars

\* Run starts a cycle again and again, every call of a cycle ends (each has a
\* timeout, the cycle has two minutes), and the service manager restarts the process.
FairSpec == Spec /\ WF_vars(Controller) /\ WF_vars(Restart)

-----------------------------------------------------------------------------
(* Safety *)

\* Every write upstream is in the ledger file before it is sent, so a crash
\* after it leaves a marker (the saves before authorizeWrite).
WritesAreJournaled ==
    /\ pc = "createIdentity" => disk.identityPending
    /\ pc = "enrollHuman" => disk.projects[cur].pending = "human_enrollment"
    /\ pc = "set" => disk.projects[cur].pending = tgt

\* An ambiguous write is not replayed: whatever is lost, and whenever the process
\* dies, each write is sent once per project until repair is asked for, and one
\* identity is created (the checks of Pending and IdentityPending).
NotReplayed == creates <= 1 /\ \A q \in Project, w \in Write : sent[q][w] <= 1

\* The viewer role is given by the machine identity itself, once the ledger file
\* has its own role as seen, never by the human session.
ViewerGivenByMachine ==
    pc = "set" /\ tgt = "k8" => ~human /\ disk.projects[cur].seen["host"]

\* The four together: every write is journaled first, sent once and sent by whom it
\* has to be.
WritesSound == TypeOK /\ WritesAreJournaled /\ NotReplayed /\ ViewerGivenByMachine

\* One K8 identity: once the ledger file names it, no other one takes its place,
\* whatever operators create or delete and whatever save fails.
IdentityPinned == [][disk.k8 # NoId => disk'.k8 = disk.k8]_vars

\* A project the bridge serves, or will at the end of the cycle, is enrolled in
\* the ledger, in memory and in the file: both roles seen, nothing pending, no
\* revocation.
ServedIsEnrolled ==
    \A q \in access \cup verified : \A e \in {disk.projects[q], ledger.projects[q]} :
        e.pending = "none" /\ ~e.revoked /\ \A t \in Target : e.seen[t]

\* A role taken away or changed by an operator is not given back without repair:
\* what the controller itself grants was absent and is not in the ledger as seen,
\* even when the membership changed after it was read.
RevocationsPreserved ==
    [][\A q \in Project, t \in Target :
          /\ roles[q][t] # "exact" /\ roles'[q][t] = "exact"
          /\ edits' = edits /\ late' = late
          => p.repair \/ (roles[q][t] = "none" /\ ~disk.projects[q].seen[t])]_vars

-----------------------------------------------------------------------------
(* Liveness *)

\* A project one of whose roles stays away is in the end no longer served,
\* whatever the policy says and whatever fails.
RevokedIsWithdrawn ==
    \A q \in Project :
        <>[](\E t \in Target : roles[q][t] # "exact") => <>[](q \notin Served)

\* The host identity reads the project's memberships without the right to change
\* them. The human session is used only where that read is refused, so repair has
\* the machine identity itself send the write, cycle after cycle, and it is refused.
HostLeftAsReader(q) == roles[q]["host"] = "reader"

\* Asking for repair gets a project out of every state that faults and operators
\* can leave but one: while the policy allows it and asks for repair, it is served
\* again and again, unless the host was left with roles that only read (project).
RepairRecovers ==
    \A q \in Project :
        <>[](/\ policy.valid /\ policy.apply /\ policy.repair /\ q \in policy.allows
             /\ IF KnownId # NoId THEN KnownId \in idents ELSE Cardinality(idents) = 1
             /\ ~HostLeftAsReader(q))
        => []<>(q \in Served)
=============================================================================
