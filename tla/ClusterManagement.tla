------------------------- MODULE ClusterManagement --------------------------
(***************************************************************************)
(* Management mode as a whole: the handlers of ManagedWrites, the queue of *)
(* WorkloadJobs they submit to and the sessions of PodSessions, on one     *)
(* cluster.  A request is a job, a write handled at once or a session.     *)
(***************************************************************************)
EXTENDS PodSessions

vars == <<jobsVars, writeVars, sessionVars>>

Init == JobsInit /\ WritesInit /\ SessionsInit

Next ==
    \/ WritesNext /\ UNCHANGED sessionVars
    \/ SessionsNext

\* Goroutines are scheduled, timers fire, a call to the API server returns
\* (an answer, an error, or the end of the context), an attempt to dial has
\* a timeout, and reads of a closed connection return.  Nothing makes users
\* hang up, commands end, or traffic stop.
Fairness ==
    /\ \A r \in Request :
        /\ WF_vars(Execute(r) /\ UNCHANGED <<writeVars, sessionVars>>)
        /\ WF_vars(Deadline(r) /\ UNCHANGED <<writeVars, sessionVars>>)
        /\ WF_vars(Handle(r) /\ UNCHANGED sessionVars)
        /\ WF_vars(HandleSession(r))
        /\ WF_vars(TimesOut(r))
        /\ WF_vars(DialFails(r))
        /\ WF_vars(stopped[r] /\ LineEnds(r))
        /\ \A p \in Pump : WF_vars(hpc[r] = "closing" /\ PumpEnds(r, p))

Spec == Init /\ [][Next]_vars /\ Fairness

-----------------------------------------------------------------------------
\* The variables of management mode hold values of their types: no slot is
\* given back that was not taken, no token put where one already is.
TypeOK == JobsTypeOK /\ WritesTypeOK /\ SessionsTypeOK

\* A change is made to the version its user confirmed and to no other, though
\* others edit the object meanwhile and writes land late; so of several users
\* who looked at the same version one at most changes it.  (manager.go:382-474,
\* workload_action.go:36-62, batch_jobs.go:47-97, dnsconfig/manager.go:119-151.)
EffectsConfirmed ==
    /\ \A r \in Request : method[r] \notin Session =>
          \A n \in DOMAIN effects[r] : effects[r][n] = confirmed[r]
    /\ \A r, s \in Request :
          /\ r # s /\ effects[r] # <<>> /\ effects[s] # <<>>
          /\ {method[r], method[s]} \cap (Session \cup {"run"}) = {}
          /\ confirmed[r] # Absent /\ target[r] = target[s]
          => confirmed[r] # confirmed[s]

\* What a request asks is done once at most: no write is sent again when its
\* answer is lost, and a command that reached a pod is not repeated over the
\* other protocol (pod_exec.go:153-155, workloadjobs.go:29-30).
DoneOnce == \A r \in Request : Len(effects[r]) <= 1

\* The three together.
EffectsSound == TypeOK /\ EffectsConfirmed /\ DoneOnce

\* What the record of an ended job says is true of the cluster: a job that
\* succeeded, or has a status of success though it was cancelled, did change
\* the object (a dry run excepted), and a job that ended with no status never
\* sent anything, not even something that may still land (workloadjobs.go:95-113).
JobReportsTruly ==
    \A r \in Recorded :
        /\ state[r] = "succeeded" \/ httpStatus[r] = "ok" => dryRun[r] \/ effects[r] # <<>>
        /\ state[r] \in Outcome /\ httpStatus[r] = "none" => effects[r] = <<>> /\ r \notin late

\* Slots are held by the sessions that use them, and a session that is over
\* left no tunnel open: its stop channel is closed, whichever of its steps
\* failed (pod_exec.go:69-80, port_forward.go:66-125, 166-215).
SessionsCleanUp ==
    /\ \A m \in Session :
          held[m] = Cardinality({r \in Request : method[r] = m
                                    /\ hpc[r] \in InSession \ {"slot"}})
    /\ \A r \in Request : hpc[r] = "answered" /\ dial[r] # "none" =>
          pumps[r] = {} /\ IF Forward(r) THEN stopped[r] ELSE dial[r] = "down"

Settled(r) ==
    /\ hpc[r] = "answered" \/ jpc[r] = "done"
    /\ dial[r] \in {"none", "down"}

\* Every request ends, job or not, and its tunnel with it, even when the
\* commands and the traffic in a pod never end; and Close returns.
RequestsEnd ==
    /\ \A r \in Request : hpc[r] # "idle" ~> Settled(r)
    /\ ~open ~> CloseReturns
=============================================================================
