-------------------------- MODULE EventStreamProofs --------------------------
(***************************************************************************)
(* What EventStream promises, for every history size, channel capacity,    *)
(* number of clients and of events: nothing is lost between the history    *)
(* and a channel, a client with nothing left to receive shows the newest   *)
(* snapshot, and snapshots are published in the order they were built.     *)
(*                                                                         *)
(* None of it is inductive.  What the history, the channels and what the   *)
(* clients show have in common is the log of everything this process has   *)
(* published, which the program does not keep; the invariant says that     *)
(* such a log exists, and that the history is its end, a queue a stretch   *)
(* of it, and what a client shows no older than what it has received.      *)
(***************************************************************************)
EXTENDS EventStream, FilteringProofs

-----------------------------------------------------------------------------
(* The inductive invariant *)

\* Run and refreshLoop never refresh at the same time, and what is stored is never
\* older than what is published; a change of the caches is notified once.
CollectorInv ==
    /\ notify <= cache
    /\ ready <=> run = "up"
    /\ loop \in {"built", "stored"} => ready
    /\ current <= cache /\ newest <= current
    /\ run \in {"syncing", "built"} => current = 0
    /\ run = "built" => built["run"] \in 1..cache
    /\ run = "stored" => current > 0 /\ built["run"] = current
    /\ run \in {"published", "up"} => current > 0 /\ nextID > 0
    /\ loop = "built" => built["loop"] \in current..cache
    /\ loop = "stored" => built["loop"] = current

\* log[i] is the version of event i: snapshots are in order, the newest is the newest
\* one published, and the history holds the last events.
LogInv(log) ==
    /\ \A i, j \in 1..nextID : i <= j /\ log[j] # 0 => log[i] <= log[j]
    /\ \A i \in 1..nextID : log[i] <= newest
    /\ newest # 0 => \E i \in 1..nextID : log[i] = newest
    /\ Len(history) <= nextID
    /\ history = <<>> => nextID = 0
    /\ \A i \in 1..Len(history) :
         history[i] = [id  |-> (nextID - Len(history)) + i,
                       ver |-> log[(nextID - Len(history)) + i]]

\* queue is the stretch of the log that comes after from.
Stretch(log, queue, from) ==
    \A i \in 1..Len(queue) : queue[i] = [id |-> from + i, ver |-> log[from + i]]

\* What is on its way to a connected client.
QueueInv(log, c) ==
    /\ c \in open => phase[c] # "off"
    /\ phase[c] # "off" =>
         /\ ready
         /\ phase[c] = "snapshot" => out[c] = <<>> /\ latestID[c] > 0
         /\ phase[c] = "live" => lastId[c] > 0
         /\ From(c) + (Len(out[c]) + Len(chan[c])) <= nextID
         /\ c \in open => From(c) + (Len(out[c]) + Len(chan[c])) = nextID
         /\ Stretch(log, out[c], From(c))
         /\ Stretch(log, chan[c], From(c) + Len(out[c]))

\* What a client shows.
ClientInv(log, c) ==
    /\ lastId[c] > 0 => held[c] > 0
    /\ origin[c] <= epoch
    /\ origin[c] = epoch => /\ lastId[c] <= nextID
                            /\ \A i \in 1..lastId[c] : log[i] <= held[c]

Kept(log) ==
    /\ LogInv(log)
    /\ \A c \in Client : QueueInv(log, c) /\ ClientInv(log, c)

IInv ==
    /\ TypeOK
    /\ CollectorInv
    /\ \E log \in [1..nextID -> Version] : Kept(log)
HasLog == \E log \in [1..nextID -> Version] : Kept(log)

-----------------------------------------------------------------------------
(* The broker's queues *)

\* What Publish makes of the history: its last entries and the new one.
LEMMA TrimmedIs ==
    ASSUME NEW h \in Seq(Event), NEW e \in Event, Len(h) <= HistorySize
    PROVE  LET t == Trimmed(Append(h, e)) IN
           /\ t \in Seq(Event)
           /\ Len(t) \in 1..HistorySize /\ Len(t) <= Len(h) + 1
           /\ \A i \in 1..Len(t) :
                t[i] = IF i = Len(t) THEN e ELSE h[i + ((Len(h) + 1) - Len(t))]
<1> DEFINE a == Append(h, e)
<1>1. /\ a \in Seq(Event) /\ Len(a) = Len(h) + 1 /\ Len(h) \in Nat
      /\ \A i \in 1..Len(a) : a[i] = IF i = Len(a) THEN e ELSE h[i]
      /\ \A i \in 1..Len(a) : a[i] \in Event
  OBVIOUS
<1>2. HistorySize \in Nat /\ HistorySize > 0
  BY StreamAssumption
<1> HIDE DEF a
<1>3. CASE Len(a) <= HistorySize
  <2>1. Trimmed(a) = a
    BY <1>1, <1>2, <1>3 DEF Trimmed
  <2>2. \A i \in 1..Len(a) : i + ((Len(h) + 1) - Len(a)) = i
    BY <1>1
  <2>. QED
    BY <1>1, <1>2, <1>3, <2>1, <2>2 DEF a
<1>4. CASE Len(a) > HistorySize
  <2>1. Len(a) = HistorySize + 1
    BY <1>1, <1>2, <1>4
  <2> DEFINE t == SubSeq(a, 2, Len(a))
  <2>2. Trimmed(a) = t
    BY <1>1, <1>2, <1>4, <2>1 DEF Trimmed
  <2>3. /\ t \in Seq(Event) /\ Len(t) = HistorySize
        /\ \A i \in 1..HistorySize : t[i] = a[i + 1]
    BY <1>1, <1>2, <2>1
  <2> HIDE DEF t
  <2>4. ASSUME NEW i \in 1..HistorySize
        PROVE  t[i] = IF i = HistorySize THEN e ELSE h[i + ((Len(h) + 1) - HistorySize)]
    <3>1. i + 1 \in 1..Len(a) /\ (i + 1 = Len(a) <=> i = HistorySize)
      BY <1>2, <2>1
    <3>2. i + ((Len(h) + 1) - HistorySize) = i + 1
      BY <1>1, <1>2, <2>1
    <3>3. t[i] = a[i + 1]
      BY <2>3
    <3>. QED
      BY <1>1, <3>1, <3>2, <3>3
  <2>5. Len(t) \in 1..HistorySize /\ Len(t) <= Len(h) + 1
    BY <1>1, <1>2, <2>1, <2>3
  <2>. QED
    BY <2>2, <2>3, <2>4, <2>5 DEF a
<1>. QED
  BY <1>1, <1>2, <1>3, <1>4 DEF a

\* The types of what Publish writes.
LEMMA PublishTypes ==
    ASSUME TypeOK, NEW ver \in Version, Publish(ver)
    PROVE  /\ nextID' = nextID + 1
           /\ history' \in Seq(Event) /\ Len(history') <= HistorySize
           /\ chan' \in [Client -> Seq(Event)] /\ \A c \in Client : Len(chan'[c]) <= Buffer
           /\ open' \subseteq open
           /\ newest' \in Version /\ newest <= newest' /\ ver <= newest'
           /\ newest' \in {newest, ver}
<1> DEFINE e == [id |-> nextID + 1, ver |-> ver]
<1>1. e \in Event
  BY DEF TypeOK, Event
<1>2. /\ history \in Seq(Event) /\ Len(history) <= HistorySize /\ chan \in [Client -> Seq(Event)]
      /\ open \subseteq Client /\ newest \in 0..MaxVersion /\ ver \in 0..MaxVersion
      /\ \A c \in Client : Len(chan[c]) <= Buffer
      /\ Buffer \in Nat /\ MaxVersion \in Nat
  BY StreamAssumption DEF TypeOK, Version
<1>3. /\ history' = Trimmed(Append(history, e))
      /\ chan' = [c \in Client |-> IF c \in open /\ Len(chan[c]) < Buffer
                                  THEN Append(chan[c], e) ELSE chan[c]]
      /\ open' \subseteq open
      /\ newest' = IF ver > newest THEN ver ELSE newest
      /\ nextID' = nextID + 1
  BY <1>2 DEF Publish
<1> HIDE DEF e
<1>4. history' \in Seq(Event) /\ Len(history') \in 1..HistorySize
  BY <1>1, <1>2, <1>3, TrimmedIs
<1>5. ASSUME NEW c \in Client PROVE chan'[c] \in Seq(Event) /\ Len(chan'[c]) <= Buffer
  <2>1. /\ chan'[c] = IF c \in open /\ Len(chan[c]) < Buffer
                      THEN Append(chan[c], e) ELSE chan[c]
        /\ chan[c] \in Seq(Event) /\ Len(chan[c]) \in Nat /\ Len(chan[c]) <= Buffer
    BY <1>2, <1>3
  <2>. QED
    BY <1>1, <1>2, <2>1
<1>6. chan' \in [Client -> Seq(Event)]
  BY <1>3, <1>5
<1>7. newest' \in Version /\ newest <= newest' /\ ver <= newest' /\ newest' \in {newest, ver}
  BY <1>2, <1>3 DEF Version
<1>. QED
  BY <1>3, <1>4, <1>5, <1>6, <1>7, StreamAssumption

\* Taking the first event of a stretch.
LEMMA StretchTail ==
    ASSUME NEW log, NEW queue \in Seq(Event), NEW from \in Nat, Stretch(log, queue, from),
           queue # <<>>
    PROVE  /\ Head(queue) = [id |-> from + 1, ver |-> log[from + 1]]
           /\ Tail(queue) \in Seq(Event) /\ Len(Tail(queue)) = Len(queue) - 1
           /\ Len(queue) \in Nat \ {0}
           /\ Stretch(log, Tail(queue), from + 1)
<1>1. /\ Tail(queue) \in Seq(Event) /\ Len(Tail(queue)) = Len(queue) - 1
      /\ Len(queue) \in Nat \ {0} /\ Head(queue) = queue[1]
      /\ \A i \in 1..Len(queue) - 1 : Tail(queue)[i] = queue[i + 1]
  OBVIOUS
<1>2. \A i \in 1..Len(queue) : queue[i] = [id |-> from + i, ver |-> log[from + i]]
  BY DEF Stretch
<1>3. ASSUME NEW i \in 1..Len(Tail(queue))
      PROVE  Tail(queue)[i] = [id |-> (from + 1) + i, ver |-> log[(from + 1) + i]]
  <2>1. i + 1 \in 1..Len(queue) /\ i \in 1..Len(queue) - 1 /\ from + (i + 1) = (from + 1) + i
    BY <1>1
  <2>2. queue[i + 1] = [id |-> from + (i + 1), ver |-> log[from + (i + 1)]]
    BY <1>2, <2>1
  <2>3. Tail(queue)[i] = queue[i + 1]
    BY <1>1, <2>1
  <2>. QED
    BY <2>1, <2>2, <2>3
<1>4. Stretch(log, Tail(queue), from + 1)
  BY <1>3 DEF Stretch
<1>5. 1 \in 1..Len(queue)
  BY <1>1
<1>. QED
  BY <1>1, <1>2, <1>4, <1>5

-----------------------------------------------------------------------------
(* The types of the variables *)

\* What a client receives is well typed when the event is.
LEMMA ReceivedTypes ==
    ASSUME TypeOK, NEW c \in Client, NEW event, event.id \in Nat, event.ver \in Version,
           Received(c, event)
    PROVE  /\ lastId' = [lastId EXCEPT ![c] = event.id] /\ lastId' \in [Client -> Nat]
           /\ held' = [held EXCEPT ![c] = IF event.ver = 0 THEN held[c] ELSE event.ver]
           /\ held' \in [Client -> Version]
           /\ origin' = [origin EXCEPT ![c] = IF event.ver = 0 THEN origin[c] ELSE epoch]
           /\ origin' \in [Client -> 0..MaxRestarts]
BY DEF TypeOK, Received

LEMMA InitTypes == Init => TypeOK
<1> SUFFICES ASSUME Init PROVE TypeOK
  OBVIOUS
<1>1. <<>> \in Seq(Event) /\ Len(<<>>) = 0 /\ 0 \in Version
  BY StreamAssumption DEF Version
<1>2. /\ built \in [Refresher -> Version] /\ current \in Version /\ newest \in Version
      /\ held \in [Client -> Version] /\ lastId \in [Client -> Nat]
      /\ origin \in [Client -> 0..MaxRestarts] /\ epoch \in 0..MaxRestarts
  BY <1>1, StreamAssumption DEF Init
<1>3. /\ history \in Seq(Event) /\ Len(history) <= HistorySize
      /\ chan \in [Client -> Seq(Event)] /\ \A c \in Client : Len(chan[c]) <= Buffer
      /\ out \in [Client -> Seq(Event)]
  BY <1>1, StreamAssumption DEF Init
<1>4. /\ phase \in [Client -> {"off", "snapshot", "live"}]
      /\ latestID \in [Client -> Nat] /\ historyGap \in [Client -> BOOLEAN]
  BY DEF Init
<1>5. /\ cache = 1 /\ notify = 1 /\ nextID = 0 /\ dns = 0 /\ open = {}
      /\ run = "syncing" /\ loop = "wait"
  BY Zenon DEF Init
<1>6. trigger \in BOOLEAN /\ ready \in BOOLEAN
  BY Zenon DEF Init
<1>. QED
  BY <1>2, <1>3, <1>4, <1>5, <1>6, StreamAssumption DEF TypeOK

LEMMA TypeStep == TypeOK /\ notify <= cache /\ [Next]_vars => TypeOK'
<1> SUFFICES ASSUME TypeOK, notify <= cache, [Next]_vars PROVE TypeOK'
  OBVIOUS
<1> USE StreamAssumption
<1>0. /\ cache \in Version /\ current \in Version /\ 0 \in Version
      /\ Refresher = {"run", "loop"} /\ <<>> \in Seq(Event) /\ Len(<<>>) = 0
  BY DEF TypeOK, Version, Refresher
<1>1. CASE Change
  BY <1>1 DEF TypeOK, Change, collector, broker, handler, client
<1>2. CASE Notify
  BY <1>2 DEF TypeOK, Notify, collector, broker, handler, client
<1>3. CASE Tick
  BY <1>3 DEF TypeOK, Tick, collector, broker, handler, client
<1>4. CASE RunBuilds
  BY <1>0, <1>4 DEF TypeOK, RunBuilds, Build, broker, handler, client
<1>5. CASE RunStores
  BY <1>0, <1>5 DEF TypeOK, RunStores, broker, handler, client
<1>6. CASE RunPublishes
  <2>1. built["run"] \in Version /\ Publish(built["run"])
    BY <1>0, <1>6 DEF TypeOK, RunPublishes
  <2>. QED
    BY <1>6, <2>1, PublishTypes DEF TypeOK, RunPublishes, handler, client
<1>7. CASE RunReady
  BY <1>7 DEF TypeOK, RunReady, broker, handler, client
<1>8. CASE TakeTrigger
  BY <1>8 DEF TypeOK, TakeTrigger, broker, handler, client
<1>9. CASE TimerFires
  BY <1>0, <1>9 DEF TypeOK, TimerFires, Build, broker, handler, client
<1>10. CASE LoopStores
  BY <1>0, <1>10 DEF TypeOK, LoopStores, broker, handler, client
<1>11. CASE LoopPublishes
  <2>1. built["loop"] \in Version /\ Publish(built["loop"])
    BY <1>0, <1>11 DEF TypeOK, LoopPublishes
  <2>. QED
    BY <1>11, <2>1, PublishTypes DEF TypeOK, LoopPublishes, handler, client
<1>12. CASE PublishDNS
  <2>1. Publish(0)
    BY <1>12 DEF PublishDNS
  <2>. QED
    BY <1>0, <1>12, <2>1, PublishTypes DEF TypeOK, PublishDNS, collector, handler, client
<1>13. CASE Restart
  <2>1. /\ history' \in Seq(Event) /\ Len(history') <= HistorySize
        /\ chan' \in [Client -> Seq(Event)] /\ \A c \in Client : Len(chan'[c]) <= Buffer
        /\ out' \in [Client -> Seq(Event)]
    BY <1>0, <1>13 DEF Restart
  <2>2. /\ built' \in [Refresher -> Version] /\ current' \in Version /\ newest' \in Version
        /\ lastId' = lastId /\ held' = held /\ origin' = origin /\ cache' = cache
    BY <1>0, <1>13 DEF Restart, client
  <2>3. epoch' \in 0..MaxRestarts /\ notify' \in 0..MaxVersion
    BY <1>13 DEF TypeOK, Restart
  <2>4. /\ phase' \in [Client -> {"off", "snapshot", "live"}]
        /\ latestID' \in [Client -> Nat] /\ historyGap' \in [Client -> BOOLEAN]
    BY <1>13 DEF Restart
  <2>5. nextID' = 0 /\ dns' = 0 /\ open' = {} /\ run' = "syncing" /\ loop' = "wait"
    BY <1>13, Zenon DEF Restart
  <2>6. trigger' \in BOOLEAN /\ ready' \in BOOLEAN
    BY <1>13, Zenon DEF Restart
  <2>. QED
    BY <2>1, <2>2, <2>3, <2>4, <2>5, <2>6 DEF TypeOK
<1>14. ASSUME NEW c \in Client, Connect(c) PROVE TypeOK'
  <2> DEFINE K == {e \in Event : e.id > lastId[c]}
  <2>1. Replay(lastId[c]) \in Seq(Event)
    <3>1. history \in Seq(Event) /\ Len(history) \in Nat
      BY DEF TypeOK
    <3>2. Keeping(history, K) \in Seq(K)
      BY <3>1, KeepingKeeps DEF Keeps
    <3>3. K \subseteq Event
      OBVIOUS
    <3> HIDE DEF K
    <3>4. Keeping(history, K) \in Seq(Event)
      BY <3>2, <3>3
    <3>. QED
      BY <3>4 DEF Replay, K
  <2>2. \A d \in Client : Len(chan'[d]) <= Buffer
    BY <1>14 DEF TypeOK, Connect
  <2>3. out' \in [Client -> Seq(Event)] /\ chan' \in [Client -> Seq(Event)]
    BY <1>0, <1>14, <2>1 DEF TypeOK, Connect
  <2>4. /\ phase' \in [Client -> {"off", "snapshot", "live"}] /\ open' \subseteq Client
        /\ latestID' \in [Client -> Nat]
    BY <1>14 DEF TypeOK, Connect
  <2>5. historyGap' \in [Client -> BOOLEAN]
    <3>1. HistoryGap(lastId[c]) \in BOOLEAN
      BY DEF HistoryGap
    <3>. QED
      BY <1>14, <3>1 DEF TypeOK, Connect
  <2>. QED
    BY <1>14, <2>2, <2>3, <2>4, <2>5 DEF TypeOK, Connect, collector, client
<1>15. ASSUME NEW c \in Client, SendSnapshot(c) PROVE TypeOK'
  <2> DEFINE e == [id |-> latestID[c], ver |-> current]
  <2>1. e.id \in Nat /\ e.ver \in Version /\ Received(c, e)
    BY <1>15 DEF TypeOK, SendSnapshot
  <2> HIDE DEF e
  <2>2. /\ lastId' \in [Client -> Nat] /\ held' \in [Client -> Version]
        /\ origin' \in [Client -> 0..MaxRestarts]
    BY <2>1, ReceivedTypes
  <2>. QED
    BY <1>15, <2>2 DEF TypeOK, SendSnapshot, collector, broker
<1>16. ASSUME NEW c \in Client, SendReplay(c) PROVE TypeOK'
  <2> DEFINE e == Head(out[c])
  <2>1. /\ e \in Event /\ Received(c, e) /\ Tail(out[c]) \in Seq(Event)
        /\ out' = [out EXCEPT ![c] = Tail(out[c])]
    BY <1>16 DEF TypeOK, SendReplay
  <2>2. e.id \in Nat /\ e.ver \in Version
    BY <2>1 DEF Event
  <2> HIDE DEF e
  <2>3. /\ lastId' \in [Client -> Nat] /\ held' \in [Client -> Version]
        /\ origin' \in [Client -> 0..MaxRestarts]
    BY <2>1, <2>2, ReceivedTypes
  <2>. QED
    BY <1>16, <2>1, <2>3 DEF TypeOK, SendReplay, collector, broker
<1>17. ASSUME NEW c \in Client, SendLive(c) PROVE TypeOK'
  <2> DEFINE e == Head(chan[c])
  <2>1. /\ e \in Event /\ Received(c, e) /\ Tail(chan[c]) \in Seq(Event)
        /\ Len(Tail(chan[c])) <= Buffer
        /\ chan' = [chan EXCEPT ![c] = Tail(chan[c])]
    BY <1>17 DEF TypeOK, SendLive
  <2>2. e.id \in Nat /\ e.ver \in Version
    BY <2>1 DEF Event
  <2> HIDE DEF e
  <2>3. /\ lastId' \in [Client -> Nat] /\ held' \in [Client -> Version]
        /\ origin' \in [Client -> 0..MaxRestarts]
    BY <2>1, <2>2, ReceivedTypes
  <2>4. chan' \in [Client -> Seq(Event)] /\ \A d \in Client : Len(chan'[d]) <= Buffer
    BY <2>1 DEF TypeOK
  <2>. QED
    BY <1>17, <2>3, <2>4 DEF TypeOK, SendLive, collector, handler
<1>18. ASSUME NEW c \in Client, Leaves(c),
              \/ UNCHANGED client
              \/ /\ lastId' = [lastId EXCEPT ![c] = 0]
                 /\ held' = [held EXCEPT ![c] = 0]
                 /\ origin' = [origin EXCEPT ![c] = epoch]
       PROVE  TypeOK'
  <2>1. /\ lastId' \in [Client -> Nat] /\ held' \in [Client -> Version]
        /\ origin' \in [Client -> 0..MaxRestarts]
    <3>1. CASE UNCHANGED client
      BY <3>1 DEF TypeOK, client
    <3>2. CASE /\ lastId' = [lastId EXCEPT ![c] = 0]
               /\ held' = [held EXCEPT ![c] = 0]
               /\ origin' = [origin EXCEPT ![c] = epoch]
      BY <1>0, <3>2 DEF TypeOK
    <3>. QED
      BY <1>18, <3>1, <3>2
  <2>2. chan' \in [Client -> Seq(Event)] /\ \A d \in Client : Len(chan'[d]) <= Buffer
    BY <1>0, <1>18 DEF TypeOK, Leaves
  <2>3. /\ out' \in [Client -> Seq(Event)] /\ open' \subseteq Client
        /\ phase' \in [Client -> {"off", "snapshot", "live"}]
        /\ latestID' \in [Client -> Nat] /\ historyGap' \in [Client -> BOOLEAN]
    BY <1>0, <1>18 DEF TypeOK, Leaves
  <2>. QED
    BY <1>18, <2>1, <2>2, <2>3 DEF TypeOK, Leaves, collector
<1>19. CASE UNCHANGED vars
  BY <1>19 DEF TypeOK, vars, collector, broker, handler, client
<1>. QED
  BY <1>1, <1>2, <1>3, <1>4, <1>5, <1>6, <1>7, <1>8, <1>9, <1>10, <1>11, <1>12, <1>13,
     <1>14, <1>15, <1>16, <1>17, <1>18, <1>19
     DEF Next, Collector, Serve, StreamEnds, Disconnect

-----------------------------------------------------------------------------
(* The collector *)

\* What is published is not older than what has been.
LEMMA PublishedLater ==
    ASSUME TypeOK, CollectorInv
    PROVE  /\ RunPublishes => /\ built["run"] \in Version /\ built["run"] >= newest
                              /\ Publish(built["run"])
           /\ LoopPublishes => /\ built["loop"] \in Version /\ built["loop"] >= newest
                               /\ Publish(built["loop"])
           /\ PublishDNS => 0 \in Version /\ Publish(0)
BY StreamAssumption
   DEF TypeOK, CollectorInv, RunPublishes, LoopPublishes, PublishDNS, Refresher, Version

LEMMA CollectorStep == TypeOK /\ CollectorInv /\ [Next]_vars => CollectorInv'
<1> SUFFICES ASSUME TypeOK, CollectorInv, [Next]_vars PROVE CollectorInv'
  OBVIOUS
<1>0. /\ cache \in Nat \ {0} /\ current \in Nat /\ newest \in Nat /\ nextID \in Nat
      /\ notify \in Nat /\ built["run"] \in Nat /\ built["loop"] \in Nat
      /\ Refresher = {"run", "loop"} /\ built \in [Refresher -> Version]
  BY StreamAssumption DEF TypeOK, Version, Refresher
<1>1. CASE Change
  BY <1>0, <1>1 DEF CollectorInv, Change, collector, broker
<1>2. CASE Notify
  BY <1>0, <1>2 DEF CollectorInv, Notify, broker
<1>3. CASE Tick
  BY <1>0, <1>3 DEF CollectorInv, Tick, broker
<1>4. CASE RunBuilds
  BY <1>0, <1>4 DEF CollectorInv, RunBuilds, Build, broker
<1>5. CASE RunStores
  BY <1>0, <1>5 DEF CollectorInv, RunStores, broker
<1>6. CASE RunPublishes
  <2>1. nextID' = nextID + 1 /\ newest' \in {newest, built["run"]}
    BY <1>6, PublishedLater, PublishTypes
  <2>2. newest' <= current /\ nextID' \in Nat
    BY <1>0, <1>6, <2>1 DEF CollectorInv, RunPublishes
  <2>. QED
    BY <1>0, <1>6, <2>1, <2>2 DEF CollectorInv, RunPublishes
<1>7. CASE RunReady
  BY <1>0, <1>7 DEF CollectorInv, RunReady, broker
<1>8. CASE TakeTrigger
  BY <1>0, <1>8 DEF CollectorInv, TakeTrigger, broker
<1>9. CASE TimerFires
  BY <1>0, <1>9 DEF CollectorInv, TimerFires, Build, broker
<1>10. CASE LoopStores
  BY <1>0, <1>10 DEF CollectorInv, LoopStores, broker
<1>11. CASE LoopPublishes
  <2>1. nextID' = nextID + 1 /\ newest' \in {newest, built["loop"]}
    BY <1>11, PublishedLater, PublishTypes
  <2>2. newest' <= current /\ nextID' \in Nat
    BY <1>0, <1>11, <2>1 DEF CollectorInv, LoopPublishes
  <2>. QED
    BY <1>0, <1>11, <2>1, <2>2 DEF CollectorInv, LoopPublishes
<1>12. CASE PublishDNS
  <2>1. nextID' = nextID + 1 /\ newest' \in {newest, 0}
    BY <1>12, PublishedLater, PublishTypes
  <2>2. newest' <= current /\ nextID' \in Nat
    BY <1>0, <2>1 DEF CollectorInv
  <2>. QED
    BY <1>0, <1>12, <2>1, <2>2 DEF CollectorInv, PublishDNS, collector
<1>13. CASE Restart
  <2>1. /\ run' = "syncing" /\ loop' = "wait" /\ current' = 0 /\ newest' = 0 /\ notify' = 1
        /\ cache' = cache
    BY <1>13 DEF Restart
  <2>2. ~ready'
    BY <1>13, Zenon DEF Restart
  <2>. QED
    BY <1>0, <2>1, <2>2 DEF CollectorInv
<1>14. CASE UNCHANGED <<cache, notify, collector, nextID, newest>>
  BY <1>14 DEF CollectorInv, collector
<1>15. ASSUME NEW c \in Client, Serve(c) \/ Disconnect(c)
       PROVE  UNCHANGED <<cache, notify, collector, nextID, newest>>
  BY <1>15 DEF Serve, Disconnect, Connect, SendSnapshot, SendReplay, SendLive, StreamEnds,
               Leaves, broker
<1>16. CASE UNCHANGED vars
  BY <1>14, <1>16 DEF vars, broker
<1>. QED
  BY <1>1, <1>2, <1>3, <1>4, <1>5, <1>6, <1>7, <1>8, <1>9, <1>10, <1>11, <1>12, <1>13,
     <1>14, <1>15, <1>16 DEF Next, Collector

-----------------------------------------------------------------------------
(* The log *)

\* A client that a step does not touch.
LEMMA OthersStay ==
    ASSUME NEW log, NEW c, QueueInv(log, c), ClientInv(log, c),
           ready => ready', nextID' = nextID, epoch' = epoch,
           chan'[c] = chan[c], out'[c] = out[c], phase'[c] = phase[c],
           latestID'[c] = latestID[c], lastId'[c] = lastId[c], held'[c] = held[c],
           origin'[c] = origin[c], c \in open' <=> c \in open
    PROVE  QueueInv(log, c)' /\ ClientInv(log, c)'
BY DEF QueueInv, ClientInv, Stretch, From

\* What an event is when it is published: the new end of the log, the newest entry of
\* the history, and in every channel that has room the next one.
LEMMA PublishExtends ==
    ASSUME TypeOK, HasLog, NEW ver \in Version, ver = 0 \/ ver >= newest, Publish(ver),
           ready => ready', UNCHANGED <<handler, client, epoch>>
    PROVE  HasLog'
<1>1. PICK log \in [1..nextID -> Version] : Kept(log)
  BY DEF HasLog
<1>2. PICK q : q = [i \in 1..nextID + 1 |-> IF i <= nextID THEN log[i] ELSE ver]
  OBVIOUS
<1>3. /\ nextID \in Nat /\ nextID' = nextID + 1 /\ newest \in Nat /\ ver \in Nat
      /\ history \in Seq(Event) /\ Len(history) \in Nat /\ Len(history) <= HistorySize
      /\ newest' = IF ver > newest THEN ver ELSE newest
      /\ \A i \in 1..nextID : log[i] \in Nat
  BY StreamAssumption DEF TypeOK, Publish, Version
<1>4. /\ q \in [1..nextID' -> Version]
      /\ \A i \in 1..nextID : q[i] = log[i]
      /\ q[nextID + 1] = ver
  BY <1>1, <1>2, <1>3
<1> HIDE <1>2
<1>5. LogInv(q)'
  <2> DEFINE e == [id |-> nextID + 1, ver |-> ver]
             h == Trimmed(Append(history, e))
  <2>1. e \in Event
    BY <1>3 DEF Event
  <2>2. history' = h
    BY DEF Publish
  <2> HIDE DEF e
  <2>3. /\ Len(h) \in Nat \ {0} /\ Len(h) <= Len(history) + 1
        /\ \A i \in 1..Len(h) :
             h[i] = IF i = Len(h) THEN e ELSE history[i + ((Len(history) + 1) - Len(h))]
    <3>1. history \in Seq(Event) /\ Len(history) <= HistorySize
      BY <1>3
    <3>2. /\ Len(h) \in 1..HistorySize /\ Len(h) <= Len(history) + 1
          /\ \A i \in 1..Len(h) :
               h[i] = IF i = Len(h) THEN e ELSE history[i + ((Len(history) + 1) - Len(h))]
      BY <2>1, <3>1, TrimmedIs, Zenon
    <3>. QED
      BY <3>2, StreamAssumption
  <2> HIDE DEF h
  <2>4. /\ Len(history) <= nextID
        /\ \A i \in 1..Len(history) :
             history[i] = [id  |-> (nextID - Len(history)) + i,
                           ver |-> log[(nextID - Len(history)) + i]]
    BY <1>1 DEF Kept, LogInv
  <2>5. ASSUME NEW i \in 1..Len(h)
        PROVE  h[i] = [id |-> ((nextID + 1) - Len(h)) + i, ver |-> q[((nextID + 1) - Len(h)) + i]]
    <3>1. CASE i = Len(h)
      <4>1. ((nextID + 1) - Len(h)) + i = nextID + 1
        BY <1>3, <2>3, <3>1
      <4>. QED
        BY <1>4, <2>3, <3>1, <4>1 DEF e
    <3>2. CASE i # Len(h)
      <4> DEFINE k == i + ((Len(history) + 1) - Len(h))
                 n == (nextID - Len(history)) + k
      <4>1. /\ k \in 1..Len(history) /\ n \in 1..nextID
            /\ n = ((nextID + 1) - Len(h)) + i
        BY <1>3, <2>3, <2>4, <3>2
      <4>2. h[i] = history[k]
        BY <2>3, <3>2
      <4> HIDE DEF k
      <4>3. history[k] = [id |-> n, ver |-> log[n]]
        BY <2>4, <4>1
      <4> HIDE DEF n
      <4>4. q[n] = log[n]
        BY <1>4, <4>1
      <4>. QED
        BY <4>1, <4>2, <4>3, <4>4
    <3>. QED
      BY <3>1, <3>2
  <2>6. /\ \A i \in 1..nextID : log[i] <= newest
        /\ newest # 0 => \E i \in 1..nextID : log[i] = newest
        /\ \A i, j \in 1..nextID : i <= j /\ log[j] # 0 => log[i] <= log[j]
    BY <1>1 DEF Kept, LogInv
  <2>7. \A i \in 1..nextID' : q[i] <= newest'
    BY <1>3, <1>4, <2>6
  <2>8. newest' # 0 => \E i \in 1..nextID' : q[i] = newest'
    BY <1>3, <1>4, <2>6
  <2>9. \A i, j \in 1..nextID' : i <= j /\ q[j] # 0 => q[i] <= q[j]
    BY <1>3, <1>4, <2>6
  <2>10. Len(history') <= nextID' /\ history' # <<>>
    BY <1>3, <2>2, <2>3, <2>4
  <2>11. \A i \in 1..Len(history') :
           history'[i] = [id  |-> (nextID' - Len(history')) + i,
                          ver |-> q[(nextID' - Len(history')) + i]]
    BY <1>3, <2>2, <2>5
  <2>. QED
    BY <2>7, <2>8, <2>9, <2>10, <2>11 DEF LogInv
<1>6. ASSUME NEW c \in Client PROVE QueueInv(q, c)' /\ ClientInv(q, c)'
  <2> DEFINE e == [id |-> nextID + 1, ver |-> ver]
  <2>1. QueueInv(log, c) /\ ClientInv(log, c)
    BY <1>1 DEF Kept
  <2>2. /\ out[c] \in Seq(Event) /\ chan[c] \in Seq(Event) /\ open \subseteq Client
        /\ Len(out[c]) \in Nat /\ Len(chan[c]) \in Nat
        /\ lastId[c] \in Nat /\ latestID[c] \in Nat /\ held[c] \in Nat
        /\ From(c) \in Nat /\ origin[c] \in Nat /\ epoch \in Nat
    BY StreamAssumption DEF TypeOK, From, Version
  <2>3. /\ chan'[c] = IF c \in open /\ Len(chan[c]) < Buffer THEN Append(chan[c], e) ELSE chan[c]
        /\ c \in open' <=> c \in open /\ Len(chan[c]) < Buffer
    BY DEF TypeOK, Publish
  <2>4. /\ out' = out /\ phase' = phase /\ latestID' = latestID /\ lastId' = lastId
        /\ held' = held /\ origin' = origin /\ epoch' = epoch /\ From(c)' = From(c)
    BY DEF handler, client, From
  <2> HIDE DEF e
  <2>5. ClientInv(q, c)'
    BY <1>3, <1>4, <2>1, <2>2, <2>4 DEF ClientInv
  <2> DEFINE f == From(c)
             l == Len(out[c])
             m == Len(chan[c])
  <2>6. ASSUME phase[c] # "off"
        PROVE  /\ f + (l + Len(chan'[c])) <= nextID'
               /\ c \in open' => f + (l + Len(chan'[c])) = nextID'
               /\ Stretch(q, out[c], f)
               /\ Stretch(q, chan'[c], f + l)
    <3>1. f \in Nat /\ l \in Nat /\ m \in Nat
      BY <2>2
    <3>2. /\ f + (l + m) <= nextID
          /\ c \in open => f + (l + m) = nextID
          /\ \A i \in 1..l : out[c][i] = [id |-> f + i, ver |-> log[f + i]]
          /\ \A i \in 1..m : chan[c][i] = [id |-> (f + l) + i, ver |-> log[(f + l) + i]]
      BY <2>1, <2>6 DEF QueueInv, Stretch
    <3> HIDE DEF f
    <3>3. Stretch(q, out[c], f)
      <4> HIDE DEF m
      <4>1. \A i \in 1..l : f + i \in 1..nextID
        <5> HIDE DEF l
        <5>. QED
          BY <1>3, <3>1, <3>2
      <4>. QED
        BY <1>4, <3>2, <4>1 DEF Stretch
    <3>4. \A i \in 1..m : (f + l) + i \in 1..nextID
      <4> HIDE DEF l, m
      <4>. QED
        BY <1>3, <3>1, <3>2
    <3>5. Stretch(q, chan[c], f + l)
      <4> HIDE DEF l
      <4>. QED
        BY <1>4, <3>2, <3>4 DEF Stretch
    <3>6. CASE chan'[c] = chan[c] /\ c \notin open'
      <4>1. f + (l + m) <= nextID'
        <5> HIDE DEF l, m
        <5>. QED
          BY <1>3, <3>1, <3>2
      <4>. QED
        BY <3>3, <3>5, <3>6, <4>1
    <3>7. CASE chan'[c] = Append(chan[c], e) /\ c \in open
      <4> DEFINE a == Append(chan[c], e)
      <4>1. /\ Len(a) = m + 1
            /\ \A i \in 1..m : a[i] = chan[c][i]
            /\ a[m + 1] = e
        BY <2>2
      <4> HIDE DEF a
      <4>2. (f + l) + (m + 1) = nextID + 1 /\ f + (l + (m + 1)) = nextID'
        <5> HIDE DEF l, m
        <5>. QED
          BY <1>3, <3>1, <3>2, <3>7
      <4>3. e = [id |-> (f + l) + (m + 1), ver |-> q[(f + l) + (m + 1)]]
        BY <1>4, <4>2 DEF e
      <4>4. ASSUME NEW i \in 1..m + 1
            PROVE  a[i] = [id |-> (f + l) + i, ver |-> q[(f + l) + i]]
        <5>1. CASE i = m + 1
          BY <4>1, <4>3, <5>1
        <5>2. CASE i \in 1..m
          BY <3>5, <4>1, <5>2 DEF Stretch
        <5>. QED
          BY <3>1, <5>1, <5>2
      <4>5. Stretch(q, a, f + l)
        BY <4>1, <4>4 DEF Stretch
      <4>6. f + (l + Len(a)) = nextID'
        BY <4>1, <4>2
      <4>7. f + (l + Len(a)) <= nextID'
        BY <1>3, <4>6
      <4>. QED
        BY <3>3, <3>7, <4>5, <4>6, <4>7 DEF a
    <3>. QED
      BY <2>3, <3>6, <3>7
  <2>7. /\ c \in open => phase[c] # "off"
        /\ phase[c] # "off" => /\ ready
                               /\ phase[c] = "snapshot" => out[c] = <<>> /\ latestID[c] > 0
                               /\ phase[c] = "live" => lastId[c] > 0
    BY <2>1 DEF QueueInv
  <2>8. QueueInv(q, c)'
    BY <2>3, <2>4, <2>6, <2>7 DEF QueueInv, Stretch
  <2>. QED
    BY <2>5, <2>8
<1>7. Kept(q)'
  BY <1>5, <1>6 DEF Kept
<1>. QED
  BY <1>4, <1>7 DEF HasLog

\* What Subscribe replays: exactly the events after the client's last one.
LEMMA ReplayIsStretch ==
    ASSUME TypeOK, NEW log, LogInv(log), nextID > 0, NEW c \in Client,
           ~SnapshotFirst(lastId[c])
    PROVE  /\ lastId[c] > 0
           /\ lastId[c] + Len(Replay(lastId[c])) = nextID
           /\ Stretch(log, Replay(lastId[c]), lastId[c])
<1> DEFINE a == lastId[c]
           l == Len(history)
           K == {e \in Event : e.id > a}
           d == a - (nextID - l)
<1>1. /\ a \in Nat /\ nextID \in Nat /\ history \in Seq(Event) /\ l \in Nat
      /\ l <= nextID /\ history # <<>> /\ l > 0
  BY DEF TypeOK, LogInv
<1>2. \A n \in 1..l : history[n] = [id |-> (nextID - l) + n, ver |-> log[(nextID - l) + n]]
  BY DEF LogInv
<1>3. a > 0 /\ a <= nextID /\ ~(a + 1 < Head(history).id)
  BY <1>1 DEF SnapshotFirst, HistoryGap
<1>4. Head(history).id = (nextID - l) + 1
  <2>1. Head(history) = history[1] /\ 1 \in 1..l
    BY <1>1
  <2>2. history[1] = [id |-> (nextID - l) + 1, ver |-> log[(nextID - l) + 1]]
    BY <1>2, <2>1
  <2>. QED
    BY <2>1, <2>2
<1>5. d \in 0..l
  BY <1>1, <1>3, <1>4
<1>6. \A n \in 1..l : history[n] \in K <=> n > d
  <2>1. ASSUME NEW n \in 1..l
        PROVE  history[n] \in Event /\ history[n].id = (nextID - l) + n
    <3>1. history[n] \in Event
      BY <1>1
    <3>2. history[n] = [id |-> (nextID - l) + n, ver |-> log[(nextID - l) + n]]
      BY <1>2
    <3>. QED
      BY <3>1, <3>2
  <2> HIDE DEF l
  <2>. QED
    BY <1>1, <2>1
<1> HIDE DEF K, d
<1>7. /\ Len(Keeping(history, K)) = l - d
      /\ \A i \in 1..l - d : Keeping(history, K)[i] = history[d + i]
  BY <1>1, <1>5, <1>6, KeepingSuffix
<1>8. Replay(a) = Keeping(history, K)
  BY DEF Replay, K
<1> DEFINE r == Keeping(history, K)
<1> HIDE DEF r, l, a
<1>9. a + Len(r) = nextID
  BY <1>1, <1>5, <1>7 DEF d, r
<1>10. Stretch(log, r, a)
  <2>1. ASSUME NEW i \in 1..Len(r) PROVE r[i] = [id |-> a + i, ver |-> log[a + i]]
    <3>1. d + i \in 1..l /\ (nextID - l) + (d + i) = a + i /\ i \in 1..l - d
      BY <1>1, <1>5, <1>7 DEF d, r
    <3>2. r[i] = history[d + i]
      BY <1>7, <3>1 DEF r
    <3>. QED
      BY <1>2, <3>1, <3>2
  <2>. QED
    BY <2>1 DEF Stretch
<1>. QED
  BY <1>3, <1>8, <1>9, <1>10 DEF a, r

LEMMA ConnectKeeps ==
    ASSUME TypeOK, CollectorInv, HasLog, NEW c \in Client, Connect(c)
    PROVE  HasLog'
<1>1. PICK log \in [1..nextID -> Version] : Kept(log)
  BY DEF HasLog
<1>2. /\ UNCHANGED <<nextID, history, newest, lastId, held, origin, epoch, ready>>
      /\ ready /\ nextID > 0 /\ nextID \in Nat
  BY DEF Connect, CollectorInv, client, collector, TypeOK
<1>3. LogInv(log) /\ LogInv(log)'
  BY <1>1, <1>2 DEF Kept, LogInv
<1>4. ASSUME NEW b \in Client, b # c PROVE QueueInv(log, b)' /\ ClientInv(log, b)'
  <2>1. /\ chan'[b] = chan[b] /\ out'[b] = out[b] /\ phase'[b] = phase[b]
        /\ latestID'[b] = latestID[b]
        /\ b \in open' <=> b \in open
    BY <1>4 DEF TypeOK, Connect
  <2>2. QueueInv(log, b) /\ ClientInv(log, b)
    BY <1>1 DEF Kept
  <2>3. /\ nextID' = nextID /\ epoch' = epoch /\ lastId'[b] = lastId[b]
        /\ held'[b] = held[b] /\ origin'[b] = origin[b]
        /\ ready => ready'
    BY <1>2
  <2>. QED
    BY <2>1, <2>2, <2>3, OthersStay
<1>5. ClientInv(log, c)'
  BY <1>1, <1>2 DEF Kept, ClientInv
<1>6. QueueInv(log, c)'
  <2>1. /\ chan'[c] = <<>> /\ latestID'[c] = nextID
        /\ phase'[c] = IF SnapshotFirst(lastId[c]) THEN "snapshot" ELSE "live"
        /\ out'[c] = IF SnapshotFirst(lastId[c]) THEN <<>> ELSE Replay(lastId[c])
    BY DEF TypeOK, Connect
  <2>2. lastId[c] \in Nat /\ Len(<<>>) = 0
    BY DEF TypeOK
  <2>3. CASE SnapshotFirst(lastId[c])
    BY <1>2, <2>1, <2>2, <2>3 DEF QueueInv, Stretch, From
  <2>4. CASE ~SnapshotFirst(lastId[c])
    <3>1. /\ lastId[c] > 0 /\ lastId[c] + Len(Replay(lastId[c])) = nextID
          /\ Stretch(log, Replay(lastId[c]), lastId[c])
      BY <1>2, <1>3, <2>4, ReplayIsStretch
    <3> DEFINE r == Replay(lastId[c])
    <3>2. out'[c] = r /\ phase'[c] = "live" /\ lastId'[c] = lastId[c] /\ nextID' = nextID
      BY <1>2, <2>1, <2>4
    <3>3. lastId[c] + (Len(r) + 0) = nextID
      <4>1. Len(r) \in Nat
        <5>1. history \in Seq(Event) /\ Len(history) \in Nat
          BY DEF TypeOK
        <5>. QED
          BY <5>1, KeepingKeeps DEF Keeps, Replay
      <4> HIDE DEF r
      <4>. QED
        BY <2>2, <3>1, <4>1 DEF r
    <3> HIDE DEF r
    <3>4. Stretch(log, r, lastId[c])
      BY <3>1 DEF r
    <3>5. Stretch(log, <<>>, lastId[c] + Len(r))
      BY <2>2 DEF Stretch
    <3>. QED
      BY <1>2, <2>1, <2>2, <3>1, <3>2, <3>3, <3>4, <3>5 DEF QueueInv, From, Stretch
  <2>. QED
    BY <2>3, <2>4
<1>7. \A b \in Client : QueueInv(log, b)' /\ ClientInv(log, b)'
  BY <1>4, <1>5, <1>6
<1>. QED
  BY <1>1, <1>2, <1>3, <1>7 DEF HasLog, Kept

\* A client that receives the event after its last one, which may be a snapshot.
LEMMA ReceivedNext ==
    ASSUME TypeOK, NEW log \in [1..nextID -> Version], LogInv(log), NEW c \in Client,
           ClientInv(log, c), lastId[c] > 0, lastId[c] + 1 <= nextID,
           NEW event, event = [id |-> lastId[c] + 1, ver |-> log[lastId[c] + 1]],
           Received(c, event), UNCHANGED <<nextID, epoch>>
    PROVE  ClientInv(log, c)' /\ lastId'[c] = lastId[c] + 1
<1> DEFINE n == lastId[c] + 1
<1>1. /\ lastId[c] \in Nat /\ held[c] \in Nat /\ epoch \in Nat /\ origin[c] \in Nat
      /\ nextID \in Nat /\ n \in 1..nextID
      /\ \A i \in 1..nextID : log[i] \in Nat
  BY StreamAssumption DEF TypeOK, Version
<1>2. event.id = n /\ event.ver = log[n] /\ event.id \in Nat /\ event.ver \in Version
  BY <1>1
<1>3. /\ lastId'[c] = n
      /\ held'[c] = IF log[n] = 0 THEN held[c] ELSE log[n]
      /\ origin'[c] = IF log[n] = 0 THEN origin[c] ELSE epoch
  BY <1>2 DEF TypeOK, Received
<1>4. /\ held[c] > 0 /\ origin[c] <= epoch
      /\ origin[c] = epoch => \A i \in 1..lastId[c] : log[i] <= held[c]
  BY DEF ClientInv
<1>5. \A i \in 1..nextID : i <= n /\ log[n] # 0 => log[i] <= log[n]
  BY <1>1 DEF LogInv
<1>6. CASE log[n] = 0
  <2>1. ASSUME origin[c] = epoch, NEW i \in 1..n PROVE log[i] <= held[c]
    <3>1. CASE i = n
      BY <1>1, <1>6, <3>1
    <3>2. CASE i \in 1..lastId[c]
      BY <1>4, <2>1, <3>2
    <3>. QED
      BY <1>1, <3>1, <3>2
  <2>. QED
    BY <1>1, <1>3, <1>4, <1>6, <2>1 DEF ClientInv
<1>7. CASE log[n] # 0
  <2>1. \A i \in 1..n : log[i] <= log[n]
    BY <1>1, <1>5, <1>7
  <2>. QED
    BY <1>1, <1>3, <1>4, <1>7, <2>1 DEF ClientInv
<1>. QED
  BY <1>3, <1>6, <1>7

LEMMA SendSnapshotKeeps ==
    ASSUME TypeOK, CollectorInv, HasLog, NEW c \in Client, SendSnapshot(c)
    PROVE  HasLog'
<1>1. PICK log \in [1..nextID -> Version] : Kept(log)
  BY DEF HasLog
<1> DEFINE e == [id |-> latestID[c], ver |-> current]
<1>2. /\ UNCHANGED <<nextID, history, newest, epoch, ready, chan, out, latestID, open>>
      /\ phase[c] = "snapshot" /\ phase' = [phase EXCEPT ![c] = "live"] /\ Received(c, e)
  BY DEF SendSnapshot, collector, broker
<1>3. LogInv(log) /\ LogInv(log)'
  BY <1>1, <1>2 DEF Kept, LogInv
<1>4. QueueInv(log, c) /\ ClientInv(log, c)
  BY <1>1 DEF Kept
<1>5. current > 0 /\ newest <= current /\ current \in Nat /\ newest \in Nat
  BY <1>2, <1>4, StreamAssumption DEF CollectorInv, QueueInv, TypeOK, Version
<1>6. /\ lastId'[c] = latestID[c] /\ held'[c] = current /\ origin'[c] = epoch
      /\ phase'[c] = "live"
  BY <1>2, <1>5 DEF TypeOK, Received
<1>7. ASSUME NEW b \in Client, b # c PROVE QueueInv(log, b)' /\ ClientInv(log, b)'
  <2>1. /\ chan'[b] = chan[b] /\ out'[b] = out[b] /\ phase'[b] = phase[b]
        /\ latestID'[b] = latestID[b] /\ lastId'[b] = lastId[b] /\ held'[b] = held[b]
        /\ origin'[b] = origin[b] /\ nextID' = nextID /\ epoch' = epoch
        /\ ready => ready'
        /\ b \in open' <=> b \in open
    BY <1>2, <1>7 DEF TypeOK, Received
  <2>2. QueueInv(log, b) /\ ClientInv(log, b)
    BY <1>1 DEF Kept
  <2>. QED
    BY <2>1, <2>2, OthersStay
<1>8. latestID[c] \in Nat /\ nextID \in Nat /\ latestID[c] > 0 /\ latestID[c] <= nextID
  BY <1>2, <1>4 DEF TypeOK, QueueInv, From
<1>9. \A i \in 1..latestID[c] : log[i] <= current
  <2>1. \A i \in 1..nextID : log[i] <= newest /\ log[i] \in Nat
    BY <1>1, <1>3, StreamAssumption DEF LogInv, Version
  <2>. QED
    BY <1>5, <1>8, <2>1
<1>10. ClientInv(log, c)'
  <2>1. epoch \in Nat
    BY DEF TypeOK
  <2>. QED
    BY <1>2, <1>5, <1>6, <1>8, <1>9, <2>1 DEF ClientInv
<1>11. QueueInv(log, c)'
  <2>1. From(c) = latestID[c] /\ From(c)' = latestID[c]
    BY <1>2, <1>6 DEF From
  <2>2. /\ ready
        /\ latestID[c] + (Len(out[c]) + Len(chan[c])) <= nextID
        /\ c \in open => latestID[c] + (Len(out[c]) + Len(chan[c])) = nextID
        /\ Stretch(log, out[c], latestID[c])
        /\ Stretch(log, chan[c], latestID[c] + Len(out[c]))
    BY <1>2, <1>4, <2>1 DEF QueueInv
  <2>3. /\ chan' = chan /\ out' = out /\ open' = open /\ nextID' = nextID /\ ready' = ready
        /\ phase'[c] = "live" /\ lastId'[c] = latestID[c]
    BY <1>2, <1>6
  <2>. QED
    BY <1>8, <2>1, <2>2, <2>3 DEF QueueInv, Stretch
<1>12. \A b \in Client : QueueInv(log, b)' /\ ClientInv(log, b)'
  BY <1>7, <1>10, <1>11
<1>. QED
  BY <1>1, <1>2, <1>3, <1>12 DEF HasLog, Kept

\* The next event of the replay, or of the channel.
LEMMA SendNextKeeps ==
    ASSUME TypeOK, HasLog, NEW c \in Client, SendReplay(c) \/ SendLive(c)
    PROVE  HasLog'
<1>1. PICK log \in [1..nextID -> Version] : Kept(log)
  BY DEF HasLog
<1>2. /\ UNCHANGED <<nextID, history, newest, epoch, ready, phase, latestID, open>>
      /\ phase[c] = "live"
  BY DEF SendReplay, SendLive, collector, broker, handler
<1>3. LogInv(log) /\ LogInv(log)'
  BY <1>1, <1>2 DEF Kept, LogInv
<1>4. QueueInv(log, c) /\ ClientInv(log, c)
  BY <1>1 DEF Kept
<1>5. ASSUME NEW b \in Client, b # c PROVE QueueInv(log, b)' /\ ClientInv(log, b)'
  <2>1. /\ chan'[b] = chan[b] /\ out'[b] = out[b] /\ phase'[b] = phase[b]
        /\ latestID'[b] = latestID[b] /\ lastId'[b] = lastId[b] /\ held'[b] = held[b]
        /\ origin'[b] = origin[b] /\ nextID' = nextID /\ epoch' = epoch
        /\ ready => ready'
        /\ b \in open' <=> b \in open
    BY <1>2, <1>5 DEF TypeOK, Received, SendReplay, SendLive, handler, broker
  <2>2. QueueInv(log, b) /\ ClientInv(log, b)
    BY <1>1 DEF Kept
  <2>. QED
    BY <2>1, <2>2, OthersStay
<1> DEFINE f == lastId[c]
           l == Len(out[c])
           m == Len(chan[c])
<1>6. /\ f \in Nat \ {0} /\ l \in Nat /\ m \in Nat /\ nextID \in Nat
      /\ out[c] \in Seq(Event) /\ chan[c] \in Seq(Event)
      /\ Len(<<>>) = 0
  BY <1>2, <1>4 DEF TypeOK, QueueInv
<1>7. /\ f + (l + m) <= nextID
      /\ c \in open => f + (l + m) = nextID
      /\ Stretch(log, out[c], f) /\ Stretch(log, chan[c], f + l)
      /\ ready /\ From(c) = f
      /\ From(c)' = lastId'[c] /\ phase'[c] = "live"
  BY <1>2, <1>4 DEF QueueInv, From
<1>8. CASE SendReplay(c)
  <2> DEFINE e == Head(out[c])
             r == Tail(out[c])
  <2>1. /\ out[c] # <<>> /\ Received(c, e) /\ out'[c] = r /\ chan'[c] = chan[c]
    BY <1>8 DEF TypeOK, SendReplay, broker
  <2>2. /\ e = [id |-> f + 1, ver |-> log[f + 1]] /\ r \in Seq(Event) /\ Len(r) = l - 1
        /\ l > 0 /\ Stretch(log, r, f + 1)
    <3>1. /\ out[c] \in Seq(Event) /\ f \in Nat /\ Stretch(log, out[c], f)
          /\ out[c] # <<>>
      BY <1>6, <1>7, <2>1
    <3> HIDE DEF f
    <3>2. /\ e = [id |-> f + 1, ver |-> log[f + 1]] /\ r \in Seq(Event) /\ Len(r) = l - 1
          /\ l \in Nat \ {0} /\ Stretch(log, r, f + 1)
      BY <3>1, StretchTail
    <3>. QED
      BY <3>2
  <2> HIDE DEF e, r
  <2>3. f + 1 <= nextID
    <3> HIDE DEF f, l, m
    <3>. QED
      BY <1>6, <1>7, <2>2
  <2>4. ClientInv(log, c)' /\ lastId'[c] = f + 1
    <3>1. /\ lastId[c] > 0 /\ lastId[c] + 1 <= nextID /\ UNCHANGED <<nextID, epoch>>
          /\ e = [id |-> lastId[c] + 1, ver |-> log[lastId[c] + 1]]
      BY <1>2, <1>6, <2>2, <2>3
    <3>. QED
      BY <1>3, <1>4, <2>1, <3>1, ReceivedNext
  <2>5. /\ f + 1 > 0 /\ (f + 1) + Len(r) = f + l
        /\ (f + 1) + (Len(r) + m) <= nextID
        /\ c \in open => (f + 1) + (Len(r) + m) = nextID
    <3> HIDE DEF f, l, m
    <3>. QED
      BY <1>6, <1>7, <2>2
  <2>6. Stretch(log, chan[c], (f + 1) + Len(r))
    BY <1>7, <2>5
  <2>7. QueueInv(log, c)'
    <3>1. /\ open' = open /\ nextID' = nextID /\ ready' = ready /\ lastId'[c] = f + 1
          /\ phase'[c] = "live" /\ From(c)' = f + 1
      BY <1>2, <1>7, <2>4
    <3>. QED
      BY <1>7, <2>1, <2>2, <2>5, <2>6, <3>1 DEF QueueInv, Stretch
  <2>. QED
    BY <1>1, <1>2, <1>3, <1>5, <2>4, <2>7 DEF HasLog, Kept
<1>9. CASE SendLive(c)
  <2> DEFINE e == Head(chan[c])
             r == Tail(chan[c])
  <2>1. /\ chan[c] # <<>> /\ Received(c, e) /\ chan'[c] = r /\ out'[c] = out[c]
        /\ out[c] = <<>>
    BY <1>9 DEF TypeOK, SendLive, handler
  <2>2. l = 0 /\ f + l = f
    BY <1>6, <2>1
  <2>3. /\ e = [id |-> f + 1, ver |-> log[f + 1]] /\ r \in Seq(Event) /\ Len(r) = m - 1
        /\ m > 0 /\ Stretch(log, r, f + 1)
    <3>1. /\ chan[c] \in Seq(Event) /\ f \in Nat /\ Stretch(log, chan[c], f)
          /\ chan[c] # <<>>
      BY <1>6, <1>7, <2>1, <2>2
    <3> HIDE DEF f
    <3>2. /\ e = [id |-> f + 1, ver |-> log[f + 1]] /\ r \in Seq(Event) /\ Len(r) = m - 1
          /\ m \in Nat \ {0} /\ Stretch(log, r, f + 1)
      BY <3>1, StretchTail
    <3>. QED
      BY <3>2
  <2> HIDE DEF e, r
  <2>4. f + 1 <= nextID
    <3> HIDE DEF f, l, m
    <3>. QED
      BY <1>6, <1>7, <2>2, <2>3
  <2>5. ClientInv(log, c)' /\ lastId'[c] = f + 1
    <3>1. /\ lastId[c] > 0 /\ lastId[c] + 1 <= nextID /\ UNCHANGED <<nextID, epoch>>
          /\ e = [id |-> lastId[c] + 1, ver |-> log[lastId[c] + 1]]
      BY <1>2, <1>6, <2>3, <2>4
    <3>. QED
      BY <1>3, <1>4, <2>1, <3>1, ReceivedNext
  <2>6. /\ f + 1 > 0 /\ (f + 1) + l = f + 1
        /\ (f + 1) + (l + Len(r)) <= nextID
        /\ c \in open => (f + 1) + (l + Len(r)) = nextID
    <3>1. Len(r) \in Nat
      BY <2>3
    <3>2. f \in Nat /\ l = 0 /\ m \in Nat /\ nextID \in Nat /\ Len(r) = m - 1
      BY <1>6, <2>2, <2>3
    <3>3. f + (l + m) <= nextID /\ (c \in open => f + (l + m) = nextID)
      BY <1>7
    <3> HIDE DEF f, l, m
    <3>. QED
      BY <3>1, <3>2, <3>3
  <2>7. Stretch(log, out[c], f + 1) /\ Stretch(log, r, (f + 1) + l)
    <3>1. Stretch(log, out[c], f + 1)
      BY <2>2 DEF Stretch
    <3>. QED
      BY <2>3, <2>6, <3>1
  <2>8. QueueInv(log, c)'
    <3>1. /\ open' = open /\ nextID' = nextID /\ ready' = ready /\ lastId'[c] = f + 1
          /\ phase'[c] = "live" /\ From(c)' = f + 1
      BY <1>2, <1>7, <2>5
    <3>. QED
      BY <1>7, <2>1, <2>6, <2>7, <3>1 DEF QueueInv, Stretch
  <2>. QED
    BY <1>1, <1>2, <1>3, <1>5, <2>5, <2>8 DEF HasLog, Kept
<1>. QED
  BY <1>8, <1>9

LEMMA LeavesKeeps ==
    ASSUME TypeOK, HasLog, NEW c \in Client, StreamEnds(c) \/ Disconnect(c)
    PROVE  HasLog'
<1>1. PICK log \in [1..nextID -> Version] : Kept(log)
  BY DEF HasLog
<1>2. /\ Leaves(c)
      /\ \/ UNCHANGED client
         \/ /\ lastId' = [lastId EXCEPT ![c] = 0]
            /\ held' = [held EXCEPT ![c] = 0]
            /\ origin' = [origin EXCEPT ![c] = epoch]
  BY DEF StreamEnds, Disconnect
<1>3. UNCHANGED <<nextID, history, newest, epoch, ready>>
  BY <1>2 DEF Leaves, collector
<1>4. LogInv(log)'
  BY <1>1, <1>3 DEF Kept, LogInv
<1>5. /\ phase'[c] = "off" /\ c \notin open'
      /\ epoch \in Nat /\ nextID \in Nat
  BY <1>2 DEF TypeOK, Leaves
<1>6. QueueInv(log, c)'
  BY <1>5 DEF QueueInv
<1>7. QueueInv(log, c) /\ ClientInv(log, c)
  BY <1>1 DEF Kept
<1>8. ClientInv(log, c)'
  <2>1. CASE UNCHANGED client
    BY <1>3, <1>7, <2>1 DEF ClientInv, client
  <2>2. CASE /\ lastId' = [lastId EXCEPT ![c] = 0]
             /\ held' = [held EXCEPT ![c] = 0]
             /\ origin' = [origin EXCEPT ![c] = epoch]
    BY <1>3, <1>5, <2>2 DEF ClientInv, TypeOK
  <2>. QED
    BY <1>2, <2>1, <2>2
<1>9. ASSUME NEW b \in Client, b # c PROVE QueueInv(log, b)' /\ ClientInv(log, b)'
  <2>1. lastId'[b] = lastId[b] /\ held'[b] = held[b] /\ origin'[b] = origin[b]
    BY <1>2, <1>9 DEF TypeOK, client
  <2>2. /\ chan'[b] = chan[b] /\ out'[b] = out[b] /\ phase'[b] = phase[b]
        /\ latestID'[b] = latestID[b] /\ nextID' = nextID /\ epoch' = epoch
        /\ ready => ready'
        /\ b \in open' <=> b \in open
    BY <1>2, <1>3, <1>9 DEF TypeOK, Leaves
  <2>3. QueueInv(log, b) /\ ClientInv(log, b)
    BY <1>1 DEF Kept
  <2>. QED
    BY <2>1, <2>2, <2>3, OthersStay
<1>10. \A b \in Client : QueueInv(log, b)' /\ ClientInv(log, b)'
  BY <1>6, <1>8, <1>9
<1>. QED
  BY <1>1, <1>3, <1>4, <1>10 DEF HasLog, Kept

\* A new process has published nothing; what the clients show comes from earlier ones.
LEMMA RestartKeeps ==
    ASSUME TypeOK, HasLog, Restart
    PROVE  HasLog'
<1>1. PICK log \in [1..nextID -> Version] : Kept(log)
  BY DEF HasLog
<1>2. PICK q : q = [i \in 1..0 |-> 0]
  OBVIOUS
<1>3. /\ nextID' = 0 /\ history' = <<>> /\ newest' = 0 /\ open' = {} /\ epoch' = epoch + 1
      /\ lastId' = lastId /\ held' = held /\ origin' = origin
      /\ \A c \in Client : phase'[c] = "off"
  BY DEF Restart, client
<1>4. q \in [1..nextID' -> Version]
  BY <1>2, <1>3
<1>5. LogInv(q)'
  BY <1>3 DEF LogInv
<1>6. ASSUME NEW c \in Client PROVE QueueInv(q, c)' /\ ClientInv(q, c)'
  <2>1. origin[c] <= epoch /\ origin[c] \in Nat /\ epoch \in Nat
        /\ (lastId[c] > 0 => held[c] > 0)
    BY <1>1 DEF Kept, ClientInv, TypeOK
  <2>2. origin[c] < epoch + 1
    BY <2>1
  <2>3. QueueInv(q, c)'
    BY <1>3, Zenon DEF QueueInv
  <2>4. ClientInv(q, c)'
    BY <1>3, <2>1, <2>2 DEF ClientInv
  <2>. QED
    BY <2>3, <2>4
<1>. QED
  BY <1>4, <1>5, <1>6 DEF HasLog, Kept

\* Steps that leave broker, handlers and clients alone.
LEMMA QuietKeeps ==
    ASSUME HasLog, ready => ready', UNCHANGED <<broker, handler, client, epoch>>
    PROVE  HasLog'
<1>1. PICK log \in [1..nextID -> Version] : Kept(log)
  BY DEF HasLog
<1>2. LogInv(log)'
  BY <1>1 DEF Kept, LogInv, broker
<1>3. ASSUME NEW c \in Client PROVE QueueInv(log, c)' /\ ClientInv(log, c)'
  <2>1. /\ chan'[c] = chan[c] /\ out'[c] = out[c] /\ phase'[c] = phase[c]
        /\ latestID'[c] = latestID[c] /\ lastId'[c] = lastId[c] /\ held'[c] = held[c]
        /\ origin'[c] = origin[c] /\ nextID' = nextID /\ epoch' = epoch
        /\ ready => ready'
        /\ c \in open' <=> c \in open
    BY DEF broker, handler, client
  <2>2. QueueInv(log, c) /\ ClientInv(log, c)
    BY <1>1 DEF Kept
  <2>. QED
    BY <2>1, <2>2, OthersStay
<1>4. log \in [1..nextID' -> Version]
  BY <1>1 DEF broker
<1>. QED
  BY <1>2, <1>3, <1>4 DEF HasLog, Kept

LEMMA LogStep == TypeOK /\ CollectorInv /\ HasLog /\ [Next]_vars => HasLog'
<1> SUFFICES ASSUME TypeOK, CollectorInv, HasLog, [Next]_vars PROVE HasLog'
  OBVIOUS
<1>1. CASE Change \/ Notify \/ Tick \/ RunBuilds \/ RunStores \/ RunReady \/ TakeTrigger
           \/ TimerFires \/ LoopStores \/ UNCHANGED vars
  <2>1. UNCHANGED <<broker, handler, client, epoch>> /\ (ready => ready')
    BY <1>1 DEF Change, Notify, Tick, RunBuilds, RunStores, RunReady, TakeTrigger, TimerFires,
                LoopStores, vars, collector
  <2>. QED
    BY <2>1, QuietKeeps
<1>2. CASE RunPublishes
  <2>1. UNCHANGED <<handler, client, epoch>> /\ (ready => ready')
    BY <1>2 DEF RunPublishes
  <2>. QED
    BY <1>2, <2>1, PublishedLater, PublishExtends
<1>3. CASE LoopPublishes
  <2>1. UNCHANGED <<handler, client, epoch>> /\ (ready => ready')
    BY <1>3 DEF LoopPublishes
  <2>. QED
    BY <1>3, <2>1, PublishedLater, PublishExtends
<1>4. CASE PublishDNS
  <2>1. UNCHANGED <<handler, client, epoch>> /\ (ready => ready')
    BY <1>4 DEF PublishDNS, collector
  <2>. QED
    BY <1>4, <2>1, PublishedLater, PublishExtends
<1>. QED
  BY <1>1, <1>2, <1>3, <1>4, RestartKeeps, ConnectKeeps, SendSnapshotKeeps, SendNextKeeps,
     LeavesKeeps DEF Next, Collector, Serve

LEMMA InitHasLog == Init => CollectorInv /\ HasLog
<1> SUFFICES ASSUME Init PROVE CollectorInv /\ HasLog
  OBVIOUS
<1>1. /\ cache = 1 /\ notify = 1 /\ nextID = 0 /\ history = <<>> /\ newest = 0 /\ open = {}
      /\ epoch = 0 /\ run = "syncing" /\ loop = "wait" /\ current = 0
      /\ \A c \in Client : /\ phase[c] = "off" /\ lastId[c] = 0 /\ held[c] = 0
                           /\ origin[c] = 0
  BY Zenon DEF Init
<1>2. ~ready
  BY Zenon DEF Init
<1>3. PICK q : q = [i \in 1..0 |-> 0]
  OBVIOUS
<1>4. q \in [1..nextID -> Version]
  BY <1>1, <1>3
<1>5. LogInv(q)
  BY <1>1 DEF LogInv
<1>6. ASSUME NEW c \in Client PROVE QueueInv(q, c) /\ ClientInv(q, c)
  <2>1. QueueInv(q, c)
    BY <1>1, Zenon DEF QueueInv
  <2>2. ClientInv(q, c)
    BY <1>1 DEF ClientInv
  <2>. QED
    BY <2>1, <2>2
<1>7. HasLog
  BY <1>4, <1>5, <1>6 DEF HasLog, Kept
<1>8. CollectorInv
  BY <1>1, <1>2 DEF CollectorInv
<1>. QED
  BY <1>7, <1>8

-----------------------------------------------------------------------------
(* What follows *)

LEMMA NotifiedOnce == TypeOK /\ CollectorInv => notify <= cache
BY DEF CollectorInv

THEOREM LogInvariance == Spec => []IInv
<1>1. Init => IInv
  BY InitTypes, InitHasLog DEF IInv, HasLog
<1>2. IInv /\ [Next]_vars => IInv'
  BY NotifiedOnce, TypeStep, CollectorStep, LogStep DEF IInv, HasLog
<1>. QED
  BY <1>1, <1>2, PTL DEF Spec

\* A queue of the log, read as Queued does.
LEMMA QueueOfLog ==
    ASSUME TypeOK, NEW log, NEW c \in Client, QueueInv(log, c), phase[c] # "off"
    PROVE  /\ Queued(c) \in Seq(Event) /\ From(c) \in Nat
           /\ Len(Queued(c)) = Len(out[c]) + Len(chan[c])
           /\ \A i \in DOMAIN Queued(c) : Queued(c)[i].id = From(c) + i
           /\ c \in open => From(c) + Len(Queued(c)) = nextID
<1> DEFINE f == From(c)
           o == out[c]
           h == chan[c]
           l == Len(o)
           m == Len(h)
<1>1. /\ o \in Seq(Event) /\ h \in Seq(Event) /\ l \in Nat /\ m \in Nat /\ f \in Nat
  BY DEF TypeOK, From
<1>2. /\ Stretch(log, o, f) /\ Stretch(log, h, f + l)
      /\ c \in open => f + (l + m) = nextID
  BY DEF QueueInv
<1>3. /\ o \o h \in Seq(Event) /\ Len(o \o h) = l + m /\ DOMAIN (o \o h) = 1..l + m
      /\ \A i \in 1..l + m : (o \o h)[i] = IF i <= l THEN o[i] ELSE h[i - l]
  <2> HIDE DEF o, h
  <2>. QED
    BY <1>1
<1>4. ASSUME NEW i \in 1..l + m PROVE (o \o h)[i].id = f + i
  <2>1. CASE i <= l
    <3>1. i \in 1..l
      <4> HIDE DEF l, m
      <4>. QED
        BY <1>1, <2>1
    <3>2. o[i] = [id |-> f + i, ver |-> log[f + i]]
      BY <1>2, <3>1 DEF Stretch
    <3>3. (o \o h)[i] = o[i]
      BY <1>3, <2>1
    <3>. QED
      BY <3>2, <3>3
  <2>2. CASE i > l
    <3>1. i - l \in 1..m /\ (f + l) + (i - l) = f + i
      <4> HIDE DEF f, l, m
      <4>. QED
        BY <1>1, <2>2
    <3>2. h[i - l] = [id |-> (f + l) + (i - l), ver |-> log[(f + l) + (i - l)]]
      BY <1>2, <3>1 DEF Stretch
    <3>3. (o \o h)[i] = h[i - l]
      <4>1. ~(i <= l)
        <5> HIDE DEF l, m
        <5>. QED
          BY <1>1, <2>2
      <4>. QED
        BY <1>3, <4>1
    <3>. QED
      BY <3>1, <3>2, <3>3
  <2>. QED
    BY <1>1, <2>1, <2>2
<1>. QED
  BY <1>1, <1>2, <1>3, <1>4 DEF Queued

\* No event is lost, repeated or out of order between the history of the broker and the
\* channel of a client, whatever the sizes of both, and however the client comes, goes
\* and falls behind (stream/broker.go Publish and Subscribe).
THEOREM NothingIsLost == Spec => []EventsSound
<1>1. IInv => EventsSound
  <2> SUFFICES ASSUME IInv, NEW c \in Client, phase[c] # "off"
               PROVE  /\ \A i \in DOMAIN Queued(c) : Queued(c)[i].id = From(c) + i
                      /\ c \in open => From(c) + Len(Queued(c)) = nextID
    BY DEF IInv, EventsSound, NoEventLost
  <2>1. PICK log \in [1..nextID -> Version] : Kept(log)
    BY DEF IInv
  <2>. QED
    BY <2>1, QueueOfLog DEF IInv, Kept
<1>. QED
  BY <1>1, LogInvariance, PTL

\* A client with nothing left to receive shows the newest snapshot this process has
\* published, unless what it shows is of an earlier process; and it shows something.
THEOREM IdleIsCaughtUp == Spec => []CaughtUp
<1>1. IInv => CaughtUp
  <2> SUFFICES ASSUME IInv, NEW c \in Client, Idle(c)
               PROVE  held[c] > 0 /\ (origin[c] = epoch => held[c] >= newest)
    BY DEF CaughtUp
  <2>1. PICK log \in [1..nextID -> Version] : Kept(log)
    BY DEF IInv
  <2>2. /\ phase[c] = "live" /\ c \in open /\ Queued(c) = <<>>
        /\ QueueInv(log, c) /\ ClientInv(log, c) /\ LogInv(log)
        /\ lastId[c] \in Nat /\ newest \in Nat /\ held[c] \in Nat
    BY <2>1, StreamAssumption DEF IInv, Kept, Idle, TypeOK, Version
  <2>3. From(c) + Len(Queued(c)) = nextID /\ From(c) = lastId[c] /\ Len(Queued(c)) = 0
    BY <2>2, QueueOfLog DEF IInv, From
  <2>4. lastId[c] = nextID
    BY <2>2, <2>3
  <2>5. lastId[c] > 0 /\ held[c] > 0
    BY <2>2 DEF QueueInv, ClientInv
  <2>6. ASSUME origin[c] = epoch PROVE held[c] >= newest
    <3>1. \A i \in 1..nextID : log[i] <= held[c]
      BY <2>2, <2>4, <2>6 DEF ClientInv
    <3>2. newest # 0 => \E i \in 1..nextID : log[i] = newest
      BY <2>2 DEF LogInv
    <3>. QED
      BY <2>2, <3>1, <3>2
  <2>. QED
    BY <2>5, <2>6
<1>. QED
  BY <1>1, LogInvariance, PTL

\* Snapshots are published in the order they were built (collector.go: Run publishes the
\* first one before ready, and refreshLoop refreshes only after it).
THEOREM PublishesInOrder == Spec => PublishedInOrder
<1>1. IInv /\ IInv' /\ [Next]_vars =>
        [\A i \in DOMAIN history' :
           history'[i].id > nextID /\ history'[i].ver # 0 => history'[i].ver >= newest]_vars
  <2> SUFFICES ASSUME IInv, IInv', [Next]_vars, NEW i \in DOMAIN history',
                      history'[i].id > nextID, history'[i].ver # 0
               PROVE  history'[i].ver >= newest
    OBVIOUS
  <2>1. /\ TypeOK /\ CollectorInv /\ nextID \in Nat /\ newest \in Nat
        /\ history \in Seq(Event)
    <3>1. TypeOK /\ CollectorInv
      BY DEF IInv
    <3>. QED
      BY <3>1, StreamAssumption DEF TypeOK, Version
  <2>2. history' \in Seq(Event) /\ nextID' \in Nat
    BY DEF IInv, TypeOK
  <2>3. Len(history') \in Nat /\ i \in 1..Len(history')
    BY <2>2
  <2>4. PICK q \in [1..nextID' -> Version] : Kept(q)'
    BY DEF IInv
  <2>5. /\ Len(history') <= nextID'
        /\ history'[i].id = (nextID' - Len(history')) + i
    <3>1. history'[i] = [id  |-> (nextID' - Len(history')) + i,
                         ver |-> q[(nextID' - Len(history')) + i]]
      BY <2>4, <2>3 DEF Kept, LogInv
    <3>2. Len(history') <= nextID'
      BY <2>4 DEF Kept, LogInv
    <3>. QED
      BY <3>1, <3>2
  <2>6. nextID' > nextID
    BY <2>1, <2>5, <2>2, <2>3
  <2>7. RunPublishes \/ LoopPublishes \/ PublishDNS
    <3>1. nextID' # nextID /\ nextID' # 0
      BY <2>1, <2>6, <2>2
    <3>. QED
      BY <3>1 DEF Next, Collector, Serve, Change, Notify, Tick, RunBuilds, RunStores,
       RunReady, TakeTrigger, TimerFires, LoopStores, Restart, Connect, SendSnapshot,
       SendReplay, SendLive, StreamEnds, Disconnect, Leaves, broker, vars
  <2>8. PICK ver \in Version : (ver = 0 \/ ver >= newest) /\ Publish(ver)
    BY <2>1, <2>7, PublishedLater
  <2>9. nextID' = nextID + 1 /\ i = Len(history')
    BY <2>1, <2>5, <2>8, <2>2, <2>3 DEF Publish
  <2>10. history'[i].ver = ver
    <3> DEFINE e == [id |-> nextID + 1, ver |-> ver]
    <3>1. e \in Event /\ history \in Seq(Event) /\ Len(history) <= HistorySize
      BY <2>1 DEF Event, TypeOK
    <3>2. history' = Trimmed(Append(history, e))
      BY <2>8 DEF Publish
    <3> HIDE DEF e
    <3>3. history'[Len(history')] = e
      <4> DEFINE h == Trimmed(Append(history, e))
      <4>1. /\ Len(h) \in 1..HistorySize
            /\ \A j \in 1..Len(h) :
                 h[j] = IF j = Len(h) THEN e ELSE history[j + ((Len(history) + 1) - Len(h))]
        BY <3>1, TrimmedIs, Zenon
      <4> HIDE DEF h
      <4>2. Len(h) \in 1..Len(h)
        BY <4>1, StreamAssumption
      <4>. QED
        BY <3>2, <4>1, <4>2 DEF h
    <3>. QED
      BY <2>9, <3>3 DEF e
  <2>. QED
    BY <2>8, <2>10
<1>. QED
  BY <1>1, LogInvariance, PTL DEF Spec, PublishedInOrder
=============================================================================
