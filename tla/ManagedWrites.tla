--------------------------- MODULE ManagedWrites ----------------------------
(***************************************************************************)
(* Writes to the cluster in management mode (kuchdesk-agent/internal/      *)
(* management, and internal/dnsconfig for the managed CoreDNS aliases).    *)
(* A user looks at an object, sends the version seen back with the change, *)
(* and the change may only be made to that very version.  Meanwhile other  *)
(* clients edit, delete and recreate the object, and a write may land      *)
(* although its answer is lost, or land only after the agent has given up. *)
(*                                                                         *)
(* The API server gives out versions from one counter, so a version tells  *)
(* an object from its replacement of the same name as its UID does; UIDs   *)
(* are left out.  No version (0) stands for no object.  "update" is a PUT, *)
(* a merge patch or an apply patch, which differ in their documents only.  *)
(*                                                                         *)
(* Scale and restart run at once or, as jobs, in the queue of              *)
(* WorkloadJobs; the handlers of exec and port-forward go on in            *)
(* PodSessions after the read they begin with.                             *)
(***************************************************************************)
EXTENDS WorkloadJobs

CONSTANTS
    MaxVersion, \* bounds the edits of others
    DryRuns     \* bounds the methods of which dry runs are asked

ASSUME VersionAssumption == MaxVersion \in Nat \ {0}

VARIABLES
    \* the cluster
    kind, object, newest,
    \* requests: what they ask, where their handlers are, what they read
    method, target, confirmed, dryRun, hpc, read,
    late,     \* writes the agent gave up on that the API server may still get
    effects   \* of each request, the versions its changes were made to

request   == <<method, target, confirmed, dryRun>>
cluster   == <<object, newest, late, effects>>
writeVars == <<kind, cluster, request, hpc, read>>

\* What is asked of an object, by its kind; the generic routes, which serve
\* every kind, are asked where the handlers of the kind would not hide them.
Methods == [workload  |-> {"scale", "restart"},
            cronjob   |-> {"run"},
            configmap |-> {"replace", "update"},
            pod       |-> {"exec", "forward"},
            other     |-> {"post", "update", "delete"}]
Method  == UNION {Methods[o] : o \in DOMAIN Methods}
Session == {"exec", "forward"}
AsJob   == {"scale", "restart"}

\* The handlers that read the object themselves before they act.
Reading == {"scale", "run", "replace"} \cup Session

Absent == 0

WritesTypeOK ==
    /\ kind \in [Key -> DOMAIN Methods] /\ object \in [Key -> 0 .. newest]
    /\ newest \in 1 .. MaxVersion + Cardinality(Request)
    /\ method \in [Request -> Method \cup {"none"}]
    /\ target \in [Request -> Key \cup {NoKey}]
    /\ confirmed \in [Request -> 0 .. newest] /\ dryRun \in [Request -> BOOLEAN]
    /\ hpc \in [Request -> {"idle", "read", "write", "slot", "dial", "connect", "upgrade",
                            "pump", "closing", "leave", "answered"}]
    /\ read \in [Request -> 0 .. newest] /\ late \subseteq Request
    /\ effects \in [Request -> Seq(0 .. newest)]

WritesInit ==
    /\ kind \in [Key -> DOMAIN Methods] /\ object = [k \in Key |-> 1] /\ newest = 1
    /\ method = [r \in Request |-> "none"] /\ target = [r \in Request |-> NoKey]
    /\ confirmed = [r \in Request |-> 0] /\ dryRun = [r \in Request |-> FALSE]
    /\ hpc = [r \in Request |-> "idle"] /\ read = [r \in Request |-> 0]
    /\ late = {} /\ effects = [r \in Request |-> <<>>]

At(r, position) == hpc[r] = position /\ jpc[r] \in {"idle", "run"}

Moves(r, position) == hpc' = [hpc EXCEPT ![r] = position]

\* The handler answers; a job's run returns the status instead.
Return(r, status) ==
    /\ Moves(r, "answered")
    /\ IF jpc[r] = "run" THEN RunReturns(r, status) ELSE UNCHANGED jobsVars

-----------------------------------------------------------------------------
(* Requests arrive *)

\* Requests are named in the order in which they arrive.
Newcomer(r) == hpc[r] = "idle" /\ r = CHOOSE s \in Request : hpc[s] = "idle"

\* Version c was seen, and confirmed, by the user; a create confirms none.
Asks(r, k, m, c, d) ==
    /\ Newcomer(r) /\ m \in Methods[kind[k]]
    /\ (c = Absent) <=> (m = "post")
    /\ d => m \in DryRuns \ Session
    /\ method' = [method EXCEPT ![r] = m] /\ target' = [target EXCEPT ![r] = k]
    /\ confirmed' = [confirmed EXCEPT ![r] = c] /\ dryRun' = [dryRun EXCEPT ![r] = d]
    /\ UNCHANGED <<kind, cluster, read>>

First(m) == IF m \in Reading THEN "read" ELSE "write"

ArriveAtOnce(r, k, m, c, d) ==
    Asks(r, k, m, c, d) /\ Moves(r, First(m)) /\ UNCHANGED jobsVars

\* Answered with the id of the job; or refused, when there is no room for it.
ArriveAsJob(r, k, m, c, d) ==
    /\ m \in AsJob /\ Asks(r, k, m, c, d)
    /\ \/ Submit(r, k) /\ Moves(r, First(m))
       \/ ~CanSubmit /\ Moves(r, "answered") /\ UNCHANGED jobsVars

-----------------------------------------------------------------------------
(* The handlers *)

Sees(r) ==
    /\ read' = [read EXCEPT ![r] = object[target[r]]]
    /\ UNCHANGED <<kind, cluster, request>>

\* A handler of method m reads the object and compares it with what the user
\* confirmed; only then it goes on.
ReadsFirst(r, m, next) ==
    /\ method[r] = m /\ At(r, "read") /\ ~Ended(r) /\ Sees(r)
    /\ IF object[target[r]] = confirmed[r]
       THEN Moves(r, next) /\ UNCHANGED jobsVars
       ELSE Return(r, "failed")

ScaleReadsUnchecked(r) ==
    /\ method[r] = "scale" /\ At(r, "read") /\ ~Ended(r) /\ Sees(r)
    /\ object[target[r]] # Absent /\ Moves(r, "write") /\ UNCHANGED jobsVars

ScaleReads(r)   == ReadsFirst(r, "scale", "write")
CronJobReads(r) == ReadsFirst(r, "run", "write")
ExecReads(r)    == ReadsFirst(r, "exec", "slot")
ForwardReads(r) == ReadsFirst(r, "forward", "slot")

\* The dry run of a replacement of the aliases ends in the agent; the dry runs
\* of the others go to the API server.
ReplaceReads(r) ==
    \/ ReadsFirst(r, "replace", "write") /\ ~(dryRun[r] /\ object[target[r]] = confirmed[r])
    \/ /\ method[r] = "replace" /\ At(r, "read") /\ ~Ended(r) /\ Sees(r)
       /\ dryRun[r] /\ object[target[r]] = confirmed[r] /\ Return(r, "ok")

\* The version a write asks the API server to check: what the handler has
\* read, or what the user sent.
Condition(r) == IF method[r] \in Reading THEN read[r] ELSE confirmed[r]

\* A Job made by hand is a new object: nothing is checked on its CronJob.
Accepted(r) == method[r] = "run" \/ object[target[r]] = Condition(r)

\* What the API server does with an accepted write.
Change(r) ==
    LET k == target[r] IN
    IF dryRun[r] THEN UNCHANGED <<object, newest, effects>>
    ELSE /\ effects' = [effects EXCEPT ![r] =
                            Append(@, IF method[r] = "run" THEN read[r] ELSE object[k])]
         /\ CASE method[r] = "run"    -> UNCHANGED <<object, newest>>
              [] method[r] = "delete" -> /\ object' = [object EXCEPT ![k] = Absent]
                                         /\ UNCHANGED newest
              [] OTHER                -> /\ object' = [object EXCEPT ![k] = newest + 1]
                                         /\ newest' = newest + 1

Writes(r) ==
    /\ At(r, "write") /\ ~Ended(r)
    /\ \/ Accepted(r) /\ Change(r) /\ UNCHANGED late
          /\ \E status \in {"ok", "failed"} : Return(r, status)
       \/ ~Accepted(r) /\ Return(r, "failed") /\ UNCHANGED cluster
       \/ Return(r, "failed") /\ late' = late \cup {r} /\ UNCHANGED <<object, newest, effects>>
    /\ UNCHANGED <<kind, request, read>>

\* No answer, a refusal, or a context that has ended before the call is made: a
\* job's, or that of a client who has hung up.
CallFails(r) ==
    /\ At(r, "read") \/ At(r, "write")
    /\ Return(r, "failed") /\ UNCHANGED <<kind, cluster, request, read>>

RunPanics(r) ==
    /\ At(r, "read") \/ At(r, "write")
    /\ jpc[r] = "run" /\ Return(r, "panic") /\ UNCHANGED <<kind, cluster, request, read>>

Reads(r) ==
    ScaleReads(r) \/ CronJobReads(r) \/ ReplaceReads(r) \/ ExecReads(r) \/ ForwardReads(r)

Handle(r) == Reads(r) \/ Writes(r) \/ CallFails(r) \/ RunPanics(r)

-----------------------------------------------------------------------------
(* The cluster and the clients *)

LandsLate(r) ==
    /\ r \in late /\ late' = late \ {r}
    /\ IF Accepted(r) THEN Change(r) ELSE UNCHANGED <<object, newest, effects>>
    /\ UNCHANGED <<jobsVars, kind, request, hpc, read>>

\* Another client edits, recreates or deletes the object.
Edit(k) ==
    /\ newest < MaxVersion
    /\ \/ object' = [object EXCEPT ![k] = newest + 1] /\ newest' = newest + 1
       \/ /\ object[k] # Absent /\ object' = [object EXCEPT ![k] = Absent]
          /\ UNCHANGED newest
    /\ UNCHANGED <<jobsVars, kind, request, hpc, read, late, effects>>

WritesNext ==
    \/ \E r \in Request : Handle(r) \/ LandsLate(r)
    \/ \E r \in Request, k \in Key, m \in Method, c \in 0 .. newest, d \in BOOLEAN :
           ArriveAtOnce(r, k, m, c, d) \/ ArriveAsJob(r, k, m, c, d)
    \/ \E k \in Key : Edit(k)
    \/ QueueNext /\ UNCHANGED writeVars
=============================================================================
