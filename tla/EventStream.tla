----------------------------- MODULE EventStream -----------------------------
(***************************************************************************)
(* Snapshots of the cluster on their way from the informer caches to the   *)
(* clients of GET /v1/events, in kuchdesk-agent: the collector that builds *)
(* and publishes them (internal/agent/collector.go and snapshot.go), the   *)
(* broker that numbers, remembers and fans out events (internal/stream)    *)
(* and the handler that replays and streams them (internal/httpapi).       *)
(*                                                                         *)
(* The cluster is a version number.  A snapshot is the version that one    *)
(* informer cache had when it was listed; dns.config.changed events carry  *)
(* none.  A client reconnects for ever with the id of the last event it    *)
(* got, and the agent process can be restarted, which forgets everything.  *)
(*                                                                         *)
(* A definition standing before another one with a longer name made from   *)
(* it is a slip the code could have made; nothing here uses it.            *)
(***************************************************************************)
EXTENDS Naturals, Sequences, Filtering

CONSTANTS
    Client,
    HistorySize,   \* Broker.historySize
    Buffer,        \* capacity of a subscriber's channel, 16 in the code
    MaxVersion,    \* bound: versions of the cluster
    MaxDNS,        \* bound: dns.config.changed events of one process
    MaxRestarts    \* bound: restarts of the agent

ASSUME StreamAssumption ==
    /\ HistorySize \in Nat \ {0} /\ Buffer \in Nat \ {0}
    /\ MaxVersion \in Nat \ {0} /\ MaxDNS \in Nat /\ MaxRestarts \in Nat

VARIABLES
    cache,     \* the version in the informer caches
    notify,    \* changes of the cache whose event handler has not run
    \* Collector
    trigger,   \* c.trigger holds a token
    run,       \* Run: "syncing", "built", "stored", "published", "up"
    loop,      \* refreshLoop: "wait", "debounce", "built", "stored"
    built,     \* per refresher, the snapshot it has built
    current,   \* c.current, 0 when nil
    ready,     \* c.ready
    \* Broker
    nextID, history,
    chan,      \* per client, the channel of its subscription
    open,      \* clients whose channel is in b.subscribers
    \* the handler of each client's connection
    phase,     \* "off", "snapshot" (still to be sent first), "live"
    out,       \* replayed events not yet written
    latestID, historyGap,  \* what Subscribe returned
    \* the client
    lastId,    \* its Last-Event-ID
    held,      \* the version it shows, 0 for none
    \* history and bounds
    newest,    \* the newest version published by this process
    epoch,     \* restarts so far
    origin,    \* per client, the process that sent what it shows
    dns        \* dns.config.changed events of this process

collector == <<trigger, run, loop, built, current, ready>>
broker    == <<nextID, history, chan, open, newest>>
handler   == <<phase, out, latestID, historyGap>>
client    == <<lastId, held, origin>>
vars == <<cache, notify, collector, broker, handler, client, epoch, dns>>

Refresher == {"run", "loop"}
Version   == 0..MaxVersion
Event     == [id : Nat, ver : Version]     \* ver is 0 in a dns.config.changed event

TypeOK ==
    /\ cache \in 1..MaxVersion /\ notify \in 0..MaxVersion
    /\ trigger \in BOOLEAN /\ ready \in BOOLEAN
    /\ run \in {"syncing", "built", "stored", "published", "up"}
    /\ loop \in {"wait", "debounce", "built", "stored"}
    /\ built \in [Refresher -> Version]
    /\ current \in Version /\ newest \in Version
    /\ nextID \in Nat
    /\ history \in Seq(Event) /\ Len(history) <= HistorySize
    /\ chan \in [Client -> Seq(Event)] /\ \A c \in Client : Len(chan[c]) <= Buffer
    /\ open \subseteq Client
    /\ phase \in [Client -> {"off", "snapshot", "live"}]
    /\ out \in [Client -> Seq(Event)]
    /\ latestID \in [Client -> Nat] /\ historyGap \in [Client -> BOOLEAN]
    /\ lastId \in [Client -> Nat] /\ held \in [Client -> Version]
    /\ epoch \in 0..MaxRestarts /\ origin \in [Client -> 0..MaxRestarts]
    /\ dns \in 0..MaxDNS

\* The caches fill when the process starts, which calls the handlers.
Init ==
    /\ cache = 1 /\ notify = 1
    /\ trigger = FALSE /\ run = "syncing" /\ loop = "wait"
    /\ built = [r \in Refresher |-> 0] /\ current = 0 /\ ready = FALSE
    /\ nextID = 0 /\ history = <<>> /\ newest = 0
    /\ chan = [c \in Client |-> <<>>] /\ open = {}
    /\ phase = [c \in Client |-> "off"] /\ out = [c \in Client |-> <<>>]
    /\ latestID = [c \in Client |-> 0] /\ historyGap = [c \in Client |-> FALSE]
    /\ dns = 0
    /\ lastId = [c \in Client |-> 0] /\ held = [c \in Client |-> 0]
    /\ epoch = 0 /\ origin = [c \in Client |-> 0]

-----------------------------------------------------------------------------
(* Broker *)

\* The newest HistorySize events of h.
Trimmed(h) == IF Len(h) > HistorySize THEN SubSeq(h, Len(h) - HistorySize + 1, Len(h)) ELSE h

PublishSkipping(ver) ==
    LET event == [id |-> nextID + 1, ver |-> ver] IN
    /\ nextID' = nextID + 1
    /\ history' = Trimmed(Append(history, event))
    /\ chan' = [c \in Client |-> IF c \in open /\ Len(chan[c]) < Buffer
                                THEN Append(chan[c], event) ELSE chan[c]]
    /\ newest' = IF ver > newest THEN ver ELSE newest
    /\ UNCHANGED open

\* Publish: number the event, remember it, and offer it to every subscriber; one
\* whose channel is full is dropped and its channel closed.
Publish(ver) ==
    LET event == [id |-> nextID + 1, ver |-> ver]
        fits  == {c \in open : Len(chan[c]) < Buffer}
    IN  /\ nextID' = nextID + 1
        /\ history' = Trimmed(Append(history, event))
        /\ chan' = [c \in Client |-> IF c \in fits THEN Append(chan[c], event) ELSE chan[c]]
        /\ open' = fits
        /\ newest' = IF ver > newest THEN ver ELSE newest

HistoryGapByOne(afterID) ==
    afterID > 0 /\ history # <<>> /\ afterID + 2 < Head(history).id

\* The client has missed events that the history no longer holds.
HistoryGap(afterID) == afterID > 0 /\ history # <<>> /\ afterID + 1 < Head(history).id

Replay(afterID) == Keeping(history, {e \in Event : e.id > afterID})

-----------------------------------------------------------------------------
(* Collector *)

\* The informers see a change; their event handlers run later.
Change ==
    /\ cache < MaxVersion
    /\ cache' = cache + 1
    /\ notify' = notify + 1
    /\ UNCHANGED <<collector, broker, handler, client, epoch, dns>>

\* queueRefresh
Notify ==
    /\ notify > 0
    /\ notify' = notify - 1
    /\ trigger' = TRUE
    /\ UNCHANGED <<cache, run, loop, built, current, ready, broker, handler, client, epoch, dns>>

\* The tick of metricsLoop, or the resync of the informers.  Bound: only the ticks
\* that find the snapshot out of date.
Tick ==
    /\ current # cache
    /\ ~trigger
    /\ trigger' = TRUE
    /\ UNCHANGED <<cache, notify, run, loop, built, current, ready, broker, handler,
                   client, epoch, dns>>

\* buildSnapshot lists the caches.
Build(r) == built' = [built EXCEPT ![r] = cache]

\* Run: caches synchronized, the initial snapshot, ready.
RunBuilds ==
    /\ run = "syncing"
    /\ run' = "built"
    /\ Build("run")
    /\ UNCHANGED <<cache, notify, trigger, loop, current, ready, broker, handler, client,
                   epoch, dns>>

RunStores ==
    /\ run = "built"
    /\ run' = "stored"
    /\ current' = built["run"]
    /\ UNCHANGED <<cache, notify, trigger, loop, built, ready, broker, handler, client,
                   epoch, dns>>

RunPublishes ==
    /\ run = "stored"
    /\ run' = "published"
    /\ Publish(built["run"])
    /\ UNCHANGED <<cache, notify, trigger, loop, built, current, ready, handler, client,
                   epoch, dns>>

RunReady ==
    /\ run = "published"
    /\ run' = "up"
    /\ ready' = TRUE
    /\ UNCHANGED <<cache, notify, trigger, loop, built, current, broker, handler, client,
                   epoch, dns>>

\* refreshLoop: the first trigger starts the timer, the next ones start it again.
TakeTrigger ==
    /\ loop \in {"wait", "debounce"}
    /\ trigger
    /\ trigger' = FALSE
    /\ loop' = "debounce"
    /\ UNCHANGED <<cache, notify, run, built, current, ready, broker, handler, client,
                   epoch, dns>>

TimerFiresRegardless ==
    /\ loop = "debounce"
    /\ Build("loop") /\ loop' = "built"
    /\ UNCHANGED <<cache, notify, trigger, run, current, ready, broker, handler, client,
                   epoch, dns>>

\* The debounce is over; before ready the trigger is dropped.
TimerFires ==
    /\ loop = "debounce"
    /\ \/ ready /\ Build("loop") /\ loop' = "built"
       \/ ~ready /\ loop' = "wait" /\ UNCHANGED built
    /\ UNCHANGED <<cache, notify, trigger, run, current, ready, broker, handler, client,
                   epoch, dns>>

LoopStores ==
    /\ loop = "built"
    /\ loop' = "stored"
    /\ current' = built["loop"]
    /\ UNCHANGED <<cache, notify, trigger, run, built, ready, broker, handler, client,
                   epoch, dns>>

LoopPublishes ==
    /\ loop = "stored"
    /\ loop' = "wait"
    /\ Publish(built["loop"])
    /\ UNCHANGED <<cache, notify, trigger, run, built, current, ready, handler, client,
                   epoch, dns>>

\* replaceDNSConfig, which does not wait for ready.
PublishDNS ==
    /\ dns < MaxDNS
    /\ dns' = dns + 1
    /\ Publish(0)
    /\ UNCHANGED <<cache, notify, collector, handler, client, epoch>>

-----------------------------------------------------------------------------
(* The handler of a client's connection *)

\* A new client, one that fell behind the history, or one with an id of the future
\* gets a snapshot first; the others are replayed what they missed.
SnapshotFirst(afterID) == afterID = 0 \/ HistoryGap(afterID) \/ afterID > nextID

\* events, up to the first write: Subscribe, under the broker's lock.
Connect(c) ==
    /\ ready
    /\ phase[c] = "off"
    /\ phase' = [phase EXCEPT ![c] = IF SnapshotFirst(lastId[c]) THEN "snapshot" ELSE "live"]
    /\ out' = [out EXCEPT ![c] = IF SnapshotFirst(lastId[c]) THEN <<>> ELSE Replay(lastId[c])]
    /\ chan' = [chan EXCEPT ![c] = <<>>]
    /\ open' = open \cup {c}
    /\ latestID' = [latestID EXCEPT ![c] = nextID]
    /\ historyGap' = [historyGap EXCEPT ![c] = HistoryGap(lastId[c])]
    /\ UNCHANGED <<cache, notify, collector, nextID, history, newest, client, epoch, dns>>

Received(c, event) ==
    /\ lastId' = [lastId EXCEPT ![c] = event.id]
    /\ held' = [held EXCEPT ![c] = IF event.ver = 0 THEN @ ELSE event.ver]
    /\ origin' = [origin EXCEPT ![c] = IF event.ver = 0 THEN @ ELSE epoch]

\* The snapshot is read now, and carries the id that Subscribe returned.
SendSnapshot(c) ==
    /\ phase[c] = "snapshot"
    /\ phase' = [phase EXCEPT ![c] = "live"]
    /\ Received(c, [id |-> latestID[c], ver |-> current])
    /\ UNCHANGED <<cache, notify, collector, broker, out, latestID, historyGap, epoch, dns>>

SendReplay(c) ==
    /\ phase[c] = "live"
    /\ out[c] # <<>>
    /\ Received(c, Head(out[c]))
    /\ out' = [out EXCEPT ![c] = Tail(@)]
    /\ UNCHANGED <<cache, notify, collector, broker, phase, latestID, historyGap, epoch, dns>>

SendLive(c) ==
    /\ phase[c] = "live"
    /\ out[c] = <<>> /\ chan[c] # <<>>
    /\ Received(c, Head(chan[c]))
    /\ chan' = [chan EXCEPT ![c] = Tail(@)]
    /\ UNCHANGED <<cache, notify, collector, nextID, history, open, newest, handler, epoch, dns>>

Leaves(c) ==
    /\ phase' = [phase EXCEPT ![c] = "off"]
    /\ open' = open \ {c}
    /\ chan' = [chan EXCEPT ![c] = <<>>]
    /\ out' = [out EXCEPT ![c] = <<>>]
    /\ latestID' = [latestID EXCEPT ![c] = 0]
    /\ historyGap' = [historyGap EXCEPT ![c] = FALSE]
    /\ UNCHANGED <<cache, notify, collector, nextID, history, newest, epoch, dns>>

StreamEndsUnchecked(c) ==
    /\ phase[c] = "live"
    /\ out[c] = <<>> /\ chan[c] = <<>> /\ c \notin open
    /\ Received(c, [id |-> 0, ver |-> 0])
    /\ UNCHANGED <<cache, notify, collector, broker, handler, epoch, dns>>

\* The channel of a dropped subscriber is closed, and drained.
StreamEnds(c) ==
    /\ phase[c] = "live"
    /\ out[c] = <<>> /\ chan[c] = <<>> /\ c \notin open
    /\ Leaves(c)
    /\ UNCHANGED client

\* The connection breaks, in any phase; the client keeps what it has, or is loaded anew.
Disconnect(c) ==
    /\ phase[c] # "off"
    /\ Leaves(c)
    /\ \/ UNCHANGED client
       \/ /\ lastId' = [lastId EXCEPT ![c] = 0]
          /\ held' = [held EXCEPT ![c] = 0]
          /\ origin' = [origin EXCEPT ![c] = epoch]

\* The agent process is replaced.
Restart ==
    /\ epoch < MaxRestarts
    /\ epoch' = epoch + 1
    /\ notify' = 1
    /\ trigger' = FALSE /\ run' = "syncing" /\ loop' = "wait"
    /\ built' = [r \in Refresher |-> 0] /\ current' = 0 /\ ready' = FALSE
    /\ nextID' = 0 /\ history' = <<>> /\ newest' = 0
    /\ chan' = [c \in Client |-> <<>>] /\ open' = {}
    /\ phase' = [c \in Client |-> "off"] /\ out' = [c \in Client |-> <<>>]
    /\ latestID' = [c \in Client |-> 0] /\ historyGap' = [c \in Client |-> FALSE]
    /\ dns' = 0
    /\ UNCHANGED <<cache, client>>

Collector ==
    \/ RunBuilds \/ RunStores \/ RunPublishes \/ RunReady
    \/ TakeTrigger \/ TimerFires \/ LoopStores \/ LoopPublishes

Serve(c) == Connect(c) \/ SendSnapshot(c) \/ SendReplay(c) \/ SendLive(c) \/ StreamEnds(c)

Next ==
    \/ Change \/ Notify \/ Tick \/ Collector \/ PublishDNS \/ Restart
    \/ \E c \in Client : Serve(c) \/ Disconnect(c)

Spec == Init /\ [][Next]_vars

\* The goroutines of the collector run, its timer fires, handlers and ticks come.
\* A client that is cut off connects again (retry: 3000), and however often its
\* connection breaks, some connections last until the next write.
FairSpec ==
    /\ Spec
    /\ WF_vars(Notify) /\ WF_vars(Tick)
    /\ WF_vars(RunBuilds \/ RunStores \/ RunPublishes \/ RunReady)
    /\ WF_vars(TakeTrigger) /\ WF_vars(TimerFires)
    /\ WF_vars(LoopStores \/ LoopPublishes)
    /\ \A c \in Client : /\ WF_vars(Serve(c))
                         /\ SF_vars(SendSnapshot(c) \/ SendReplay(c) \/ SendLive(c))

-----------------------------------------------------------------------------
(* Safety *)

\* What a connected client has yet to be sent, and from which id on.
Queued(c) == out[c] \o chan[c]
From(c)   == IF phase[c] = "snapshot" THEN latestID[c] ELSE lastId[c]

\* No event is lost, repeated or out of order between the history and the channel:
\* the queue holds exactly the ids after the client's, up to the newest one as long
\* as the subscription lives (Subscribe takes both under one lock).
NoEventLost ==
    \A c \in Client : phase[c] # "off" =>
        /\ \A i \in DOMAIN Queued(c) : Queued(c)[i].id = From(c) + i
        /\ c \in open => From(c) + Len(Queued(c)) = nextID

\* With the types of the variables.
EventsSound == TypeOK /\ NoEventLost

Idle(c) == phase[c] = "live" /\ c \in open /\ Queued(c) = <<>>

\* A client with nothing left to receive shows at least the newest snapshot that
\* was published, unless what it shows comes from an earlier process, whose ids
\* the agent takes for its own; it never shows nothing, however early it came.
CaughtUp == \A c \in Client :
    Idle(c) => held[c] > 0 /\ (origin[c] = epoch => held[c] >= newest)

\* Snapshots are published in the order they were built: the initial refresh and
\* the loop never refresh at the same time.
PublishedInOrder ==
    [][\A i \in DOMAIN history' :
         history'[i].id > nextID /\ history'[i].ver # 0 => history'[i].ver >= newest]_vars

\* What README.md says of the clients that fell behind the history: they are sent
\* the newest snapshot, so that replay "cannot roll a client backward".
NeverRolledBack ==
    [][\A c \in Client : phase'[c] = "live" /\ historyGap'[c] => held'[c] >= held[c]]_vars

-----------------------------------------------------------------------------
(* Liveness *)

\* Every change of the cluster is shown by every client in the end, even one whose
\* event came in before the collector was ready and was dropped; a client that
\* still shows what an earlier process sent is left out, as in CaughtUp.
ChangesAreShown == \A c \in Client : \A v \in 1..MaxVersion :
    cache >= v ~> (phase[c] = "live" /\ held[c] >= v) \/ origin[c] # epoch
=============================================================================
