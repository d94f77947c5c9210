---------------------------- MODULE AccessReviews ----------------------------
(***************************************************************************)
(* GET /v1/manage/capabilities of kuchdesk-agent: the catalog of what the  *)
(* cluster serves and of what the agent may do with it                     *)
(* (internal/management/manager.go, capabilities).  The verbs are decided  *)
(* by one review of the namespace's rules or, when that is incomplete, by  *)
(* one access review per verb, shared out to a pool of workers over an     *)
(* unbuffered channel.                                                     *)
(*                                                                         *)
(* One request, from an administrator's changes of the rules before it to  *)
(* its answer; the client may go away and any call to the API server may   *)
(* fail.  A slip stands before the definition it is a mistake in.          *)
(***************************************************************************)
EXTENDS Naturals, FiniteSets

CONSTANTS
    APIResource,  \* [group, base, sub, namespaced, verbs], sub "" for none
    Versions,     \* what each group version lists: a set of sets of APIResource
    Rule,         \* RBAC: [verbs, groups, resources, names, bound]
    MaxWorkers,   \* 8 in the code
    MaxFaults,    \* bound: failing calls
    MaxEdits      \* bound: changes of the rules during the request

Worker == 1..MaxWorkers
Review == UNION {{[resource |-> a, verb |-> v] : v \in a.verbs} : a \in APIResource}

ASSUME ReviewsAssumption ==
    /\ MaxWorkers \in Nat \ {0} /\ MaxFaults \in Nat /\ MaxEdits \in Nat
    /\ Versions \subseteq SUBSET APIResource
    /\ \A a \in APIResource : a.namespaced \in BOOLEAN
    /\ \A rule \in Rule : "*" \notin rule.names   \* RBAC has no wildcard for names

VARIABLES
    rbac,       \* the rules bound to the agent's ServiceAccount
    namespace,  \* the request names a namespace
    pc,         \* the handler
    versions,   \* group versions still to be listed
    resources,  \* resources listed
    todo,       \* reviews not yet handed to a worker
    allowed,    \* allowedByResource: the verbs found to be allowed
    byRules,    \* rulesComplete
    wpc, task,  \* per worker: where it is, and its review
    firstErr, cancelled, gone,   \* gone: the request's context has ended
    answer,
    seenAllowed, seenDenied,     \* history: decisions Kubernetes could have given since the request came
    faults, edits

handler == <<namespace, pc, versions, resources, todo, byRules, answer>>
pool    == <<wpc, task, firstErr, cancelled>>
world   == <<rbac, seenAllowed, seenDenied, edits>>
reviewsVars == <<handler, pool, world, allowed, gone, faults>>

-----------------------------------------------------------------------------
(* What Kubernetes decides *)

Any(set, x) == x \in set \/ "*" \in set

RuleMatchesAnyScope(rule, r) ==
    LET a == r.resource IN
    /\ rule.names = {}
    /\ Any(rule.verbs, r.verb) /\ Any(rule.groups, a.group)
    /\ \/ [base |-> a.base, sub |-> a.sub] \in rule.resources
       \/ [base |-> "*", sub |-> ""] \in rule.resources
       \/ a.sub # "" /\ [base |-> "*", sub |-> a.sub] \in rule.resources

\* A rule bound by a RoleBinding reaches the resources of its namespace only.
Authorizes(rules, r) ==
    \E rule \in rules : /\ rule.bound = "cluster" \/ (namespace /\ r.resource.namespaced)
                        /\ RuleMatchesAnyScope(rule, r)

\* SelfSubjectRulesReview of a namespace: all that is bound there or everywhere.
RulesOf == rbac

-----------------------------------------------------------------------------
(* The handler's own decisions *)

\* allowedByRules: rules for named objects are passed over.
allowedByRules(rules, r) ==
    \E rule \in rules :
        /\ rule.names = {} \/ "*" \in rule.names
        /\ r.verb \in rule.verbs \/ "*" \in rule.verbs
        /\ r.resource.group \in rule.groups \/ "*" \in rule.groups
        /\ \/ [base |-> "*", sub |-> ""] \in rule.resources
           \/ [base |-> r.resource.base, sub |-> r.resource.sub] \in rule.resources
           \/ /\ r.resource.sub # ""
              /\ [base |-> "*", sub |-> r.resource.sub] \in rule.resources

Served(list) == {a \in list : a.base # "secrets"}

\* The verbs that are reviewed: those of namespaced resources need a namespace.
Reviews(list) == {r \in Review : r.resource \in list /\ (r.resource.namespaced => namespace)}

Done == cancelled \/ gone      \* ctx.Done() of the pool's context

-----------------------------------------------------------------------------
ReviewsInit ==
    /\ rbac \in SUBSET Rule
    /\ namespace \in BOOLEAN
    /\ pc = "groups" /\ versions = {} /\ resources = {} /\ todo = {}
    /\ allowed = {} /\ byRules = FALSE
    /\ wpc = [w \in Worker |-> "off"] /\ task = [w \in Worker |-> {}]
    /\ firstErr = FALSE /\ cancelled = FALSE /\ gone = FALSE
    /\ answer = "none"
    /\ seenAllowed = {r \in Review : Authorizes(rbac, r)}
    /\ seenDenied = {r \in Review : ~Authorizes(rbac, r)}
    /\ faults = 0 /\ edits = 0

Fault == faults < MaxFaults /\ faults' = faults + 1

Answers(a) == pc' = "answered" /\ answer' = a

\* ServerGroups; the core group's v1 is listed after the groups it names.
Groups ==
    /\ pc = "groups"
    /\ \/ pc' = "list" /\ versions' = Versions /\ UNCHANGED <<answer, faults>>
       \/ Fault /\ Answers("error") /\ UNCHANGED versions
    /\ UNCHANGED <<namespace, resources, todo, byRules, pool, world, allowed, gone>>

\* ServerResourcesForGroupVersion: a version that cannot be listed is left out.
ListVersion ==
    /\ pc = "list"
    /\ \E v \in versions :
        /\ versions' = versions \ {v}
        /\ \/ resources' = resources \cup Served(v) /\ UNCHANGED faults
           \/ Fault /\ UNCHANGED resources
    /\ UNCHANGED <<namespace, pc, todo, byRules, answer, pool, world, allowed, gone>>

\* Everything is listed: ask for the rules when there is a namespace.
Listed ==
    /\ pc = "list" /\ versions = {}
    /\ pc' = IF namespace THEN "rules" ELSE "fallback"
    /\ UNCHANGED <<namespace, versions, resources, todo, byRules, answer, pool, world, allowed, gone, faults>>

ReviewRules ==
    /\ pc = "rules"
    /\ \/ /\ byRules' = TRUE /\ pc' = "answer"
          /\ allowed' = {r \in Reviews(resources) : allowedByRules(RulesOf, r)}
          /\ UNCHANGED faults
       \/ Fault /\ pc' = "fallback" /\ UNCHANGED <<byRules, allowed>>   \* failed or incomplete
    /\ UNCHANGED <<namespace, versions, resources, todo, answer, pool, world, gone>>

\* Start one worker per review, at most MaxWorkers of them.
StartPool ==
    /\ pc = "fallback"
    /\ LET reviews == Reviews(resources) IN
       /\ todo' = reviews
       /\ pc' = IF reviews = {} THEN "answer" ELSE "send"
       /\ \E n \in 0..MaxWorkers :
            /\ n = IF Cardinality(reviews) < MaxWorkers THEN Cardinality(reviews) ELSE MaxWorkers
            /\ wpc' = [w \in Worker |-> IF w <= n THEN "receive" ELSE "off"]
    /\ UNCHANGED <<namespace, versions, resources, byRules, answer, task, firstErr, cancelled,
                   world, allowed, gone, faults>>

\* The select of the sender: hand over a review, or stop when the context is done.
Send(w) ==
    /\ pc = "send" /\ wpc[w] = "receive"
    /\ \E r \in todo :
        /\ todo' = todo \ {r}
        /\ task' = [task EXCEPT ![w] = {r}]
    /\ wpc' = [wpc EXCEPT ![w] = "review"]
    /\ UNCHANGED <<namespace, pc, versions, resources, byRules, answer, firstErr, cancelled,
                   world, allowed, gone, faults>>

StopSendingWhenSentOnly ==
    /\ pc = "send" /\ todo = {}
    /\ pc' = "wait"
    /\ UNCHANGED <<namespace, versions, resources, todo, byRules, answer, pool, world, allowed, gone, faults>>

StopSending ==
    /\ pc = "send" /\ (todo = {} \/ Done)
    /\ pc' = "wait"      \* close(jobs)
    /\ UNCHANGED <<namespace, versions, resources, todo, byRules, answer, pool, world, allowed, gone, faults>>

\* SelfSubjectAccessReview; it fails by itself or because its context has ended.
ReviewReturns(w) ==
    /\ wpc[w] = "review"
    /\ \/ /\ allowed' = allowed \cup {r \in task[w] : Authorizes(rbac, r)}
          /\ wpc' = [wpc EXCEPT ![w] = "receive"]
          /\ UNCHANGED faults
       \/ /\ Fault \/ (Done /\ UNCHANGED faults)
          /\ wpc' = [wpc EXCEPT ![w] = "fail"] /\ UNCHANGED allowed
    /\ task' = [task EXCEPT ![w] = {}]
    /\ UNCHANGED <<handler, firstErr, cancelled, world, gone>>

FailQuietly(w) ==
    /\ wpc[w] = "fail"
    /\ wpc' = [wpc EXCEPT ![w] = "exit"]
    /\ cancelled' = TRUE
    /\ UNCHANGED <<handler, task, firstErr, world, allowed, gone, faults>>

\* once.Do: keep the first error and cancel the other reviews.
Fail(w) ==
    /\ wpc[w] = "fail"
    /\ wpc' = [wpc EXCEPT ![w] = "exit"]
    /\ firstErr' = TRUE /\ cancelled' = TRUE
    /\ UNCHANGED <<handler, task, world, allowed, gone, faults>>

\* The channel is closed: the worker's loop ends.
WorkerEnds(w) ==
    /\ wpc[w] = "receive" /\ pc \notin {"fallback", "send"}
    /\ wpc' = [wpc EXCEPT ![w] = "exit"]
    /\ UNCHANGED <<handler, task, firstErr, cancelled, world, allowed, gone, faults>>

\* workers.Wait and the two returns after it.
WaitReturns ==
    /\ pc = "wait" /\ \A w \in Worker : wpc[w] \in {"off", "exit"}
    /\ \/ firstErr /\ Answers("error")
       \/ ~firstErr /\ gone /\ Answers("empty")
       \/ ~firstErr /\ ~gone /\ pc' = "answer" /\ UNCHANGED answer
    /\ UNCHANGED <<namespace, versions, resources, todo, byRules, pool, world, allowed, gone, faults>>

\* The catalog, with allowedVerbs from allowed.
WriteCatalog ==
    /\ pc = "answer"
    /\ Answers("ok")
    /\ UNCHANGED <<namespace, versions, resources, todo, byRules, pool, world, allowed, gone, faults>>

\* The client hangs up.
Leave ==
    /\ ~gone /\ pc # "answered"
    /\ gone' = TRUE
    /\ UNCHANGED <<handler, pool, world, allowed, faults>>

\* An administrator changes what is bound to the ServiceAccount.
EditRules ==
    /\ edits < MaxEdits /\ pc # "answered"
    /\ edits' = edits + 1
    /\ \E rules \in SUBSET Rule :
        /\ rbac' = rules
        /\ seenAllowed' = seenAllowed \cup {r \in Review : Authorizes(rules, r)}
        /\ seenDenied' = seenDenied \cup {r \in Review : ~Authorizes(rules, r)}
    /\ UNCHANGED <<handler, pool, allowed, gone, faults>>

Handler == Groups \/ ListVersion \/ Listed \/ ReviewRules \/ StartPool \/ StopSending
           \/ WaitReturns \/ WriteCatalog
WorkerStep(w) == Send(w) \/ ReviewReturns(w) \/ Fail(w) \/ WorkerEnds(w)

ReviewsNext == Handler \/ (\E w \in Worker : WorkerStep(w)) \/ Leave \/ EditRules

ReviewsSpec == ReviewsInit /\ [][ReviewsNext]_reviewsVars

-----------------------------------------------------------------------------
ReviewsTypeOK ==
    /\ rbac \subseteq Rule /\ namespace \in BOOLEAN
    /\ pc \in {"groups", "list", "rules", "fallback", "send", "wait", "answer", "answered"}
    /\ versions \subseteq Versions /\ resources \subseteq APIResource
    /\ todo \subseteq Review /\ allowed \subseteq Review
    /\ byRules \in BOOLEAN
    /\ wpc \in [Worker -> {"off", "receive", "review", "fail", "exit"}]
    /\ task \in [Worker -> SUBSET Review]
    /\ firstErr \in BOOLEAN /\ cancelled \in BOOLEAN /\ gone \in BOOLEAN
    /\ answer \in {"none", "ok", "error", "empty"}
    /\ seenAllowed \subseteq Review /\ seenDenied \subseteq Review
    /\ faults \in 0..MaxFaults /\ edits \in 0..MaxEdits

\* A catalog is given only when every verb in it has been decided: one shown as
\* allowed was allowed by Kubernetes at some time of the request, and one shown as
\* not allowed was refused, never merely left unreviewed by a pool that stopped
\* early.  What the rules of a namespace say of a cluster-wide resource is left out.
CatalogTruthful ==
    answer = "ok" => \A r \in Reviews(resources) :
        \/ byRules /\ ~r.resource.namespaced
        \/ (IF r \in allowed THEN r \in seenAllowed ELSE r \in seenDenied)

\* When the handler has answered none of its workers is left: none writes to the
\* results that are being encoded, or asks on for a client that has its answer.
NoWorkerLeft == answer # "none" \/ pc = "answer" => \A w \in Worker : wpc[w] \in {"off", "exit"}

\* The three together (manager.go:164-218).
ReviewsSound == ReviewsTypeOK /\ CatalogTruthful /\ NoWorkerLeft

\* Every request ends, although each worker that fails is one receiver less for a
\* sender on an unbuffered channel.
RequestEnds == <>(pc = "answered")
=============================================================================
