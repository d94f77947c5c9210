---------------------------- MODULE DeployWorkflow ----------------------------
(***************************************************************************)
(* The local deployment workflow of the host agent (internal/deploy,       *)
(* cmd/kuchdesk-deploy and the deploy tools of the MCP server): a list of  *)
(* git, helm, docker, crane and kubectl commands that ends at the first    *)
(* one that fails.                                                         *)
(*                                                                         *)
(* Several applies of one profile, which share the working tree, the local *)
(* image store, the registry's tag, the nodes and the release with each    *)
(* other and with a developer who goes on working.  From the command line  *)
(* they may overlap; those of the MCP server have one key in its runner,   *)
(* and are the behaviours here in which none overlaps.                     *)
(*                                                                         *)
(* An image is the source it was built from and a number that tells two    *)
(* builds apart; its digest in the repository of the profile identifies    *)
(* it.  A slip stands before the definition it is a mistake in.            *)
(***************************************************************************)
EXTENDS Naturals, SequencesExt

CONSTANTS
    Apply,        \* applies, one for each time the workflow is started
    Source, tag,  \* contents of the source, and the commit that imageTag names
    Node,
    MaxFaults, MaxEdits   \* bounds: failing commands; edits, commits and pushes by others

Image   == [src : Source, n : 0..1]
NoImage == [src |-> tag, n |-> 2]
Repo    == {"own", "other"}
Digest  == [repo : Repo, image : Image]
NoDigest == [repo |-> "own", image |-> NoImage]

VARIABLES
    profile,      \* [pushMode, kindPrepull, test]
    tree, head,   \* the working tree, and the commit of HEAD
    local,        \* the local image that has the tag
    repoDigests,  \* per image, the repositories it was pushed to from here
    remote,       \* the image of the tag in the registry
    ctr, cri,     \* per node, the images its containerd, and its kubelet, knows
    release,      \* [image, policy, status, by], status "none", "pending" or "deployed"
    stable,       \* the revision a rollback restores
    \* per apply
    pc, steps,    \* the step it is at; the steps it has reported
    archive, digest,
    left,         \* nodes still to be prepared, in the order of the list
    built,        \* history: the image it built
    registered,   \* history: nodes whose kubelet has taken its digest
    shared,       \* history: applies that have run beside another one
    torn,         \* history: the tree changed between a look at it and the build
    faults, edits

source  == <<tree, head, torn>>
docker  == <<local, repoDigests>>
cluster == <<ctr, cri, release, stable>>
apply   == <<archive, digest, left, built, registered, shared>>
vars == <<profile, source, docker, remote, cluster, pc, steps, apply, faults, edits>>

Release   == [image : Image \cup {NoImage}, status : {"none", "pending", "deployed"}]
NoRelease == [image |-> NoImage, status |-> "none"]

-----------------------------------------------------------------------------
(* The plan *)

Push(p) == IF p.pushMode = "host-crane" THEN <<"save", "push", "craneDigest">>
                                        ELSE <<"push", "repoDigests">>

\* Plan: what the user is shown and confirms.
Plan(p) ==
    <<"preflight", "revision", "lint">> \o (IF p.test THEN <<"test">> ELSE <<>>)
    \o <<"build">> \o Push(p)
    \o (IF p.kindPrepull THEN <<"nodes", "fetch", "register">> ELSE <<>>)
    \o <<"template", "upgrade", "rollout">>

\* run and progress of the next command; some commands have no step of their own.
Goes(a, to) == pc' = [pc EXCEPT ![a] = to]
Reports(a, step) == steps' = [steps EXCEPT ![a] = IF step \in ToSet(@) THEN @ ELSE Append(@, step)]

Ended == {"off", "ok", "failed"}

Init ==
    /\ profile \in [pushMode : {"docker", "host-crane"}, kindPrepull : BOOLEAN, test : BOOLEAN]
    /\ tree \in Source /\ head \in Source
    /\ local = NoImage /\ repoDigests = [i \in Image |-> {}] /\ remote = NoImage
    /\ ctr = [n \in Node |-> {}] /\ cri = [n \in Node |-> {}]
    /\ release = NoRelease /\ stable = NoRelease
    /\ pc = [a \in Apply |-> "off"] /\ steps = [a \in Apply |-> <<>>]
    /\ archive = [a \in Apply |-> NoImage] /\ digest = [a \in Apply |-> NoDigest]
    /\ left = [a \in Apply |-> <<>>] /\ built = [a \in Apply |-> NoImage]
    /\ registered = [a \in Apply |-> {}] /\ shared = {}
    /\ torn = FALSE /\ faults = 0 /\ edits = 0

Fault == faults < MaxFaults /\ faults' = faults + 1

\* The command fails, or the deadline or a cancellation kills it.
Fails(a) == Fault /\ Goes(a, "failed")
Refuses(a) == Goes(a, "failed") /\ UNCHANGED faults

At(a, step) == pc[a] = step /\ Reports(a, step)

\* A command that only reads.
Reads(a, step, to) ==
    /\ At(a, step)
    /\ (Goes(a, to) /\ UNCHANGED faults) \/ Fails(a)
    /\ UNCHANGED <<profile, source, docker, remote, cluster, apply, edits>>

-----------------------------------------------------------------------------
(* Apply, command by command *)

\* The plan was confirmed; from the MCP server, when its turn in the runner comes.
Start(a) ==
    /\ pc[a] = "off"
    /\ Goes(a, "preflight")
    /\ LET beside == {b \in Apply : pc[b] \notin Ended} IN
       shared' = IF beside = {} THEN shared ELSE shared \cup beside \cup {a}
    /\ UNCHANGED <<profile, source, docker, remote, cluster, steps, archive, digest, left, built,
                   registered, faults, edits>>

Preflight(a) == Reads(a, "preflight", "revision")

\* git rev-parse: HEAD is the commit of the tag.
Revision(a) ==
    /\ At(a, "revision")
    /\ \/ head = tag /\ Goes(a, "status") /\ UNCHANGED faults
       \/ head # tag /\ Refuses(a)
       \/ Fails(a)
    /\ UNCHANGED <<profile, source, docker, remote, cluster, apply, edits>>

\* git status says nothing.  Of files that git ignores it never says anything, though
\* docker build may put them into the image; tree and head are without those.
Clean == tree = head

Status(a) ==
    /\ pc[a] = "status"
    /\ \/ Clean /\ Goes(a, "lint") /\ UNCHANGED faults
       \/ ~Clean /\ Refuses(a)
       \/ Fails(a)
    /\ UNCHANGED <<profile, source, docker, remote, cluster, steps, apply, edits>>

Lint(a) == Reads(a, "lint", IF profile.test THEN "test" ELSE "build")
Test(a) == Reads(a, "test", "build")

AfterBuild == IF profile.pushMode = "host-crane" THEN "save" ELSE "push"

\* docker build reads the tree as it is and moves the local tag; the cache may give
\* an image that is known already.
Build(a) ==
    /\ At(a, "build")
    /\ \/ /\ \E n \in 0..1 : local' = [src |-> tree, n |-> n]
          /\ built' = [built EXCEPT ![a] = local']
          /\ Goes(a, AfterBuild) /\ UNCHANGED faults
       \/ Fails(a) /\ UNCHANGED <<local, built>>
    /\ UNCHANGED <<profile, source, repoDigests, remote, cluster, archive, digest, left, registered,
                   shared, edits>>

Save(a) ==
    /\ At(a, "save")
    /\ \/ archive' = [archive EXCEPT ![a] = local] /\ Goes(a, "push") /\ UNCHANGED faults
       \/ Fails(a) /\ UNCHANGED archive
    /\ UNCHANGED <<profile, source, docker, remote, cluster, digest, left, built, registered, shared,
                   edits>>

AfterPush == IF profile.pushMode = "host-crane" THEN "craneDigest" ELSE "repoDigests"

DoPushIgnoringErrors(a) ==
    LET i == IF profile.pushMode = "host-crane" THEN archive[a] ELSE local IN
    /\ At(a, "push")
    /\ \/ Goes(a, AfterPush) /\ UNCHANGED faults /\ remote' = i
          /\ repoDigests' = IF profile.pushMode = "host-crane" THEN repoDigests
                            ELSE [repoDigests EXCEPT ![i] = @ \cup {"own"}]
       \/ Fault /\ Goes(a, AfterPush) /\ UNCHANGED <<remote, repoDigests>>
    /\ UNCHANGED <<profile, source, local, cluster, apply, edits>>

\* docker push of the local tag, or crane push of the archive; one that fails may
\* have got through.
DoPush(a) ==
    LET i == IF profile.pushMode = "host-crane" THEN archive[a] ELSE local IN
    /\ At(a, "push")
    /\ \/ Goes(a, AfterPush) /\ UNCHANGED faults /\ remote' = i
          /\ repoDigests' = IF profile.pushMode = "host-crane" THEN repoDigests
                            ELSE [repoDigests EXCEPT ![i] = @ \cup {"own"}]
       \/ Fails(a) /\ remote' \in {i, remote} /\ UNCHANGED repoDigests
    /\ UNCHANGED <<profile, source, local, cluster, apply, edits>>

AfterDigest == IF profile.kindPrepull THEN "nodes" ELSE "template"

\* The digests of the local image in the repository of the profile.
OwnRepository(i) == {[repo |-> r, image |-> i] : r \in repoDigests[i] \cap {"own"}}

\* docker image inspect of the tag.
ReadRepoDigests(a) ==
    /\ At(a, "repoDigests")
    /\ \/ /\ \E d \in OwnRepository(local) : digest' = [digest EXCEPT ![a] = d]
          /\ Goes(a, AfterDigest) /\ UNCHANGED faults
       \/ OwnRepository(local) = {} /\ Refuses(a) /\ UNCHANGED digest
       \/ Fails(a) /\ UNCHANGED digest
    /\ UNCHANGED <<profile, source, docker, remote, cluster, archive, left, built, registered, shared,
                   edits>>

\* crane digest: what the tag stands for in the registry now.
CraneDigest(a) ==
    /\ At(a, "craneDigest")
    /\ \/ /\ digest' = [digest EXCEPT ![a] = [repo |-> "own", image |-> remote]]
          /\ Goes(a, AfterDigest) /\ UNCHANGED faults
       \/ Fails(a) /\ UNCHANGED digest
    /\ UNCHANGED <<profile, source, docker, remote, cluster, archive, left, built, registered, shared,
                   edits>>

\* prepullKind: list the nodes, then for each fetch the digest and register it.
Nodes(a) ==
    /\ At(a, "nodes")
    /\ \/ /\ \E order \in SetToSeqs(Node) : left' = [left EXCEPT ![a] = order]
          /\ Goes(a, "fetch") /\ UNCHANGED faults
       \/ Fails(a) /\ UNCHANGED left
    /\ UNCHANGED <<profile, source, docker, remote, cluster, archive, digest, built, registered, shared,
                   edits>>

Fetch(a) ==
    /\ At(a, "fetch")
    /\ \/ /\ ctr' = [ctr EXCEPT ![Head(left[a])] = @ \cup {digest[a].image}]
          /\ Goes(a, "register") /\ UNCHANGED faults
       \/ Fails(a) /\ UNCHANGED ctr
    /\ UNCHANGED <<profile, source, docker, remote, cri, release, stable, apply, edits>>

\* crictl pull on that node, then the next node.
Register(a) ==
    LET n == Head(left[a]) IN
    /\ At(a, "register")
    /\ \/ /\ digest[a].image \in ctr[n]
          /\ cri' = [cri EXCEPT ![n] = @ \cup {digest[a].image}]
          /\ registered' = [registered EXCEPT ![a] = @ \cup {n}]
          /\ left' = [left EXCEPT ![a] = Tail(@)]
          /\ Goes(a, IF Len(left[a]) = 1 THEN "template" ELSE "fetch") /\ UNCHANGED faults
       \/ Fails(a) /\ UNCHANGED <<cri, registered, left>>
    /\ UNCHANGED <<profile, source, docker, remote, ctr, release, stable, archive, digest, built,
                   shared, edits>>

Template(a) == Reads(a, "template", "upgrade")

\* helm upgrade --install: refused while another one is recorded as under way.
Upgrade(a) ==
    /\ At(a, "upgrade")
    /\ \/ /\ release.status # "pending"
          /\ release' = [image |-> digest[a].image, status |-> "pending"]
          /\ stable' = release
          /\ Goes(a, "wait") /\ UNCHANGED faults
       \/ release.status = "pending" /\ Refuses(a) /\ UNCHANGED <<release, stable>>
       \/ Fails(a) /\ UNCHANGED <<release, stable>>
    /\ UNCHANGED <<profile, source, docker, remote, ctr, cri, apply, edits>>

\* --wait and --atomic: the pods are ready, or the former revision comes back, or
\* helm is killed with the context before it could do either.
UpgradeEnds(a) ==
    /\ pc[a] = "wait"
    /\ \/ release' = [release EXCEPT !.status = "deployed"] /\ Goes(a, "rollout") /\ UNCHANGED faults
       \/ Fails(a) /\ release' \in {stable, release}
    /\ UNCHANGED <<profile, source, docker, remote, ctr, cri, stable, steps, apply, edits>>

Rollout(a) == Reads(a, "rollout", "ok")

-----------------------------------------------------------------------------
(* The developer *)

Edit == edits < MaxEdits /\ edits' = edits + 1

BetweenLookAndBuild == {"status", "lint", "test", "build"}

\* An edit, a commit, or another revision checked out.
Works ==
    /\ Edit
    /\ \E s \in Source : tree' = s /\ head' \in {head, s} /\ <<tree', head'>> # <<tree, head>>
    /\ torn' = (torn \/ \E a \in Apply : pc[a] \in BetweenLookAndBuild)
    /\ UNCHANGED <<profile, docker, remote, cluster, pc, steps, apply, faults>>

\* The local image is pushed to another repository too.
PushedElsewhere ==
    /\ Edit /\ local # NoImage /\ "other" \notin repoDigests[local]
    /\ repoDigests' = [repoDigests EXCEPT ![local] = @ \cup {"other"}]
    /\ UNCHANGED <<profile, source, local, remote, cluster, pc, steps, apply, faults>>

-----------------------------------------------------------------------------
Command(a) ==
    \/ Start(a) \/ Preflight(a) \/ Revision(a) \/ Status(a) \/ Lint(a) \/ Test(a) \/ Build(a)
    \/ Save(a) \/ DoPush(a) \/ ReadRepoDigests(a) \/ CraneDigest(a)
    \/ Nodes(a) \/ Fetch(a) \/ Register(a)
    \/ Template(a) \/ Upgrade(a) \/ UpgradeEnds(a) \/ Rollout(a)

Next == (\E a \in Apply : Command(a)) \/ Works \/ PushedElsewhere

Spec == Init /\ [][Next]_vars

-----------------------------------------------------------------------------
Step == {"preflight", "revision", "lint", "test", "build", "save", "push", "craneDigest",
         "repoDigests", "nodes", "fetch", "register", "template", "upgrade", "rollout"}

TypeOK ==
    /\ tree \in Source /\ head \in Source /\ torn \in BOOLEAN
    /\ local \in Image \cup {NoImage} /\ remote \in Image \cup {NoImage}
    /\ repoDigests \in [Image -> SUBSET Repo]
    /\ ctr \in [Node -> SUBSET Image] /\ cri \in [Node -> SUBSET Image]
    /\ release \in Release /\ stable \in Release
    /\ pc \in [Apply -> Step \cup Ended \cup {"status", "wait"}]
    /\ steps \in [Apply -> Seq(Step)]
    /\ archive \in [Apply -> Image \cup {NoImage}] /\ digest \in [Apply -> Digest \cup {NoDigest}]
    /\ left \in [Apply -> Seq(Node)] /\ registered \in [Apply -> SUBSET Node]
    /\ built \in [Apply -> Image \cup {NoImage}] /\ shared \subseteq Apply
    /\ faults \in 0..MaxFaults /\ edits \in 0..MaxEdits

\* What is carried out and reported is the plan that was shown and confirmed, step
\* by step and as far as it got.
FollowsPlan == \A a \in Apply : IsPrefix(steps[a], Plan(profile))

\* An apply that runs alone deploys the image it built itself: neither an older one
\* that still has the tag after a push that failed, nor the digest the image has in
\* another repository.
PinnedIsBuilt ==
    \A a \in Apply \ shared : pc[a] \in {"upgrade", "wait", "rollout", "ok"} =>
        digest[a] = [repo |-> "own", image |-> built[a]]

\* With imagePullPolicy=Never the kubelet of every node has the pinned digest before
\* the release asks for it, whichever apply's push the tag stood for.
NeverIsPrepared ==
    \A a \in Apply : profile.kindPrepull /\ pc[a] \in {"wait", "rollout", "ok"} =>
        \A n \in Node : n \in registered[a] /\ digest[a].image \in cri[n]

\* What is deployed was built from the commit that its tag names, applies that share
\* the tag included, unless somebody changed the tree between a look at it and the
\* build.
TagNamesSource ==
    ~torn => \A a \in Apply : pc[a] \in {"wait", "rollout", "ok"} => digest[a].image.src = tag
=============================================================================
