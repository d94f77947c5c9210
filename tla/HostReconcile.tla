---------------------------- MODULE HostReconcile ----------------------------
(***************************************************************************)
(* kuchdesk-host-agent (cmd/kuchdesk-host-agent): launchd starts it again  *)
(* and again, and each run finds the machine's LAN address and makes the   *)
(* wildcard record of one DNS zone of Technitium point at it, through a    *)
(* kubectl port-forward of its own.                                        *)
(*                                                                         *)
(* Around a run the network changes, others edit the zone, calls fail, are *)
(* lost or land late, the run's time is up and kubectl prints and exits as *)
(* it likes.  Its output goes through the operating system's pipe, the     *)
(* copying goroutine of os/exec and an io.Pipe to a scanner, which offers  *)
(* the lines to forwardAPI.                                                *)
(*                                                                         *)
(* A slip stands before the definition it is a mistake in.                 *)
(***************************************************************************)
EXTENDS Naturals, Sequences, FiniteSets

CONSTANTS
    IP, NoIP,
    Net,          \* the machine's network: [device, addrs], addrs the private addresses
    LineCap,      \* capacity of lines, 8 in the code
    MaxNoise,     \* bound: other lines that kubectl prints in a run
    MaxFailures,    \* bound: failing calls, exits of kubectl, and times that are up
    MaxChanges    \* bound: changes of the network and of the zone by others

ASSUME ReconcileAssumption ==
    /\ NoIP \notin IP
    /\ \A n \in Net : n.device \in {"none", "tunnel", "down", "lan"} /\ n.addrs \subseteq IP
    /\ LineCap \in Nat \ {0} /\ MaxNoise \in Nat /\ MaxFailures \in Nat /\ MaxChanges \in Nat

VARIABLES
    net,
    \* Technitium
    zone, records,  \* the zone exists; its wildcard's A records
    late,           \* records/add calls that have been given up on and may still arrive
    \* the run
    stage, ip, result,
    timeUp,         \* the context of -timeout has ended
    session,        \* Technitium has a session of this run
    \* the port-forward
    kubectl, os,    \* the process, and its output in the operating system's pipe
    copier, chunk,  \* the goroutine of os/exec, and what it writes into the io.Pipe
    scanner, buf,   \* the goroutine of forwardAPI, and the lines it has read
    lines, cancelled,
    banner, noise,  \* what kubectl has printed
    \* history of the run, and bounds
    targets,        \* addresses that were the machine's during the run
    held,           \* addresses the zone had with the right TTL during the run
    trouble,        \* something failed in this run
    failures, changes

technitium == <<zone, records, late>>
run  == <<stage, ip, result>>
pipe == <<kubectl, os, copier, chunk, scanner, buf, lines, cancelled, banner, noise>>
reconcileVars == <<net, technitium, run, timeUp, session, pipe, targets, held, trouble, failures, changes>>

Record  == [ip : IP, ttl : {"ttl", "other"}]
Line    == {"port", "noise"}
Calls   == {"login", "zones", "create", "records", "add", "logout"}
Current(a) == [ip |-> a, ttl |-> "ttl"]

-----------------------------------------------------------------------------
(* network.go *)

targetIPOfAnyInterface(n) ==
    IF n.device \in {"lan", "tunnel"} /\ Cardinality(n.addrs) = 1
    THEN CHOOSE a \in n.addrs : TRUE ELSE NoIP

\* lanIP: the one private address of the default route's interface, if that is up
\* and no tunnel.
targetIP(n) ==
    IF n.device = "lan" /\ Cardinality(n.addrs) = 1
    THEN CHOOSE a \in n.addrs : TRUE ELSE NoIP

-----------------------------------------------------------------------------
ReconcileInit ==
    /\ net \in Net /\ zone \in BOOLEAN
    /\ records = {} /\ late = {}
    /\ stage = "off" /\ ip = NoIP /\ result = "none" /\ timeUp = FALSE /\ session = FALSE
    /\ kubectl = "off" /\ os = <<>> /\ copier = "off" /\ chunk = <<>>
    /\ scanner = "off" /\ buf = <<>> /\ lines = <<>> /\ cancelled = FALSE
    /\ banner = FALSE /\ noise = 0
    /\ targets = {} /\ held = {} /\ trouble = FALSE /\ failures = 0 /\ changes = 0

HeldBy(rs) == {a \in IP : Current(a) \in rs}

\* Technitium's records become rs.
SetRecords(rs) == records' = rs /\ held' = held \cup HeldBy(rs)

Fault  == failures < MaxFailures /\ failures' = failures + 1 /\ trouble' = TRUE
Smooth == UNCHANGED <<failures, trouble>>
Done   == cancelled \/ timeUp       \* ctx.Done() of forwardAPI

\* launchd starts a run when none is there.
StartRun ==
    /\ stage = "off"
    /\ stage' = "target" /\ result' = "none" /\ timeUp' = FALSE /\ session' = FALSE
    /\ targets' = {targetIP(net)} /\ held' = HeldBy(records) /\ trouble' = FALSE
    /\ UNCHANGED <<net, technitium, ip, pipe, failures, changes>>

\* targetIP; the run ends at once without one.
FindTarget ==
    /\ stage = "target"
    /\ \/ /\ ~timeUp /\ targetIP(net) # NoIP
          /\ ip' = targetIP(net) /\ stage' = "password" /\ UNCHANGED result
       \/ /\ timeUp \/ targetIP(net) = NoIP
          /\ ip' = NoIP /\ stage' = "off" /\ result' = "error"
    /\ UNCHANGED <<net, technitium, timeUp, session, pipe, targets, held, failures, trouble, changes>>

\* adminPassword, and the start of the port-forward with its two goroutines.
StartForward ==
    /\ stage = "password"
    /\ \/ /\ ~timeUp
          /\ stage' = "forward" /\ kubectl' = "up" /\ copier' = "read" /\ scanner' = "scan"
          /\ UNCHANGED result /\ Smooth
       \/ /\ (timeUp /\ Smooth) \/ Fault
          /\ stage' = "off" /\ result' = "error" /\ UNCHANGED <<kubectl, copier, scanner>>
    /\ UNCHANGED <<net, technitium, ip, timeUp, session, os, chunk, buf, lines, cancelled,
                   banner, noise, targets, held, changes>>

-----------------------------------------------------------------------------
(* kubectl and the way of its output *)

Prints(line) ==
    /\ kubectl = "up"
    /\ os' = Append(os, line)
    /\ UNCHANGED <<net, technitium, run, timeUp, session, kubectl, copier, chunk, scanner, buf,
                   lines, cancelled, targets, held, trouble, failures, changes>>

\* "Forwarding from ...", once.
PrintPort == ~banner /\ banner' = TRUE /\ UNCHANGED noise /\ Prints("port")

\* A connection handled or lost, or an error; fewer than fill lines before the port.
PrintNoise ==
    noise < MaxNoise /\ (banner \/ noise + 1 < LineCap) /\ noise' = noise + 1 /\ UNCHANGED banner /\ Prints("noise")

\* kubectl is killed once its context has ended, or exits by itself.
KubectlEnds ==
    /\ kubectl = "up"
    /\ kubectl' = "dead"
    /\ (Done /\ Smooth) \/ Fault
    /\ UNCHANGED <<net, technitium, run, timeUp, session, os, copier, chunk, scanner, buf, lines,
                   cancelled, banner, noise, targets, held, changes>>

\* io.Copy of os/exec: read what is there, then write it; ends at the end of the file.
CopierReads ==
    /\ copier = "read"
    /\ \/ os # <<>> /\ chunk' = os /\ os' = <<>> /\ copier' = "write"
       \/ os = <<>> /\ kubectl = "dead" /\ copier' = "end" /\ UNCHANGED <<chunk, os>>
    /\ UNCHANGED <<net, technitium, run, timeUp, session, kubectl, scanner, buf, lines, cancelled,
                   banner, noise, targets, held, trouble, failures, changes>>

\* The io.Pipe has no buffer: a write returns when the scanner has read it.
ScannerReads ==
    /\ copier = "write" /\ scanner = "scan" /\ buf = <<>>
    /\ buf' = chunk /\ chunk' = <<>> /\ copier' = "read"
    /\ UNCHANGED <<net, technitium, run, timeUp, session, kubectl, os, scanner, lines, cancelled,
                   banner, noise, targets, held, trouble, failures, changes>>

\* The select with the line that was read: send it, return, or drop it.
ScannerOffers ==
    /\ scanner = "scan" /\ buf # <<>>
    /\ \/ Len(lines) < LineCap /\ lines' = Append(lines, Head(buf)) /\ buf' = Tail(buf)
          /\ UNCHANGED scanner
       \/ Done /\ scanner' = "gone" /\ buf' = <<>> /\ UNCHANGED lines
       \/ Len(lines) = LineCap /\ ~Done /\ buf' = Tail(buf) /\ UNCHANGED <<lines, scanner>>
    /\ UNCHANGED <<net, technitium, run, timeUp, session, kubectl, os, copier, chunk, cancelled,
                   banner, noise, targets, held, trouble, failures, changes>>

-----------------------------------------------------------------------------
(* forwardAPI's loop and its end *)

Return(r) == result' = r

\* The line with the port cannot come any more: kubectl has exited, and nobody has
\* closed the io.Pipe to tell.
PortMissed ==
    /\ kubectl = "dead"
    /\ os = <<>> /\ chunk = <<>> /\ buf = <<>> /\ lines = <<>>

AwaitPort ==
    /\ stage = "forward"
    /\ \/ /\ lines # <<>> /\ lines' = Tail(lines)
          /\ stage' = IF Head(lines) = "port" THEN "login" ELSE "forward"
          /\ UNCHANGED result /\ Smooth
       \/ /\ \/ (timeUp \/ PortMissed) /\ Smooth
             \/ Fault                           \* parent.Done(), or the timer of 10 seconds
          /\ stage' = "stop" /\ Return("error") /\ UNCHANGED lines
    /\ UNCHANGED <<net, technitium, ip, timeUp, session, kubectl, os, copier, chunk, scanner, buf,
                   cancelled, banner, noise, targets, held, changes>>

\* stop: cancel, and wait for kubectl and for the copier.
Stop ==
    /\ stage = "stop"
    /\ cancelled' = TRUE /\ stage' = "wait"
    /\ UNCHANGED <<net, technitium, ip, result, timeUp, session, kubectl, os, copier, chunk,
                   scanner, buf, lines, banner, noise, targets, held, trouble, failures, changes>>

\* cmd.Wait returns; the pipe is closed and the process ends with all that it has.
WaitReturns ==
    /\ stage = "wait" /\ kubectl = "dead" /\ copier = "end"
    /\ stage' = "off"
    /\ kubectl' = "off" /\ os' = <<>> /\ copier' = "off" /\ chunk' = <<>> /\ scanner' = "off"
    /\ buf' = <<>> /\ lines' = <<>> /\ cancelled' = FALSE /\ banner' = FALSE /\ noise' = 0
    /\ UNCHANGED <<net, technitium, ip, result, timeUp, session, targets, held, trouble, failures, changes>>

-----------------------------------------------------------------------------
(* The calls to Technitium through the port-forward *)

OutsidePipe == UNCHANGED <<net, ip, timeUp, pipe, targets, changes>>

Answered == kubectl = "up" /\ ~timeUp /\ Smooth
Failed   == ((kubectl # "up" \/ timeUp) /\ Smooth) \/ Fault

\* The login's answer is lost, or it is refused: stop, with nothing to log out.
LoginFails ==
    /\ Failed /\ stage' = "stop" /\ Return("error") /\ session' \in {session, TRUE}

Login ==
    /\ stage = "login"
    /\ \/ Answered /\ stage' = "zones" /\ session' = TRUE /\ UNCHANGED result
       \/ LoginFails
    /\ UNCHANGED <<technitium, held>> /\ OutsidePipe

\* Any later call that fails: the deferred logout, and then stop.
GivesUp == Failed /\ stage' = "logout" /\ Return("error")

ListZonesOnly ==
    /\ stage = "zones"
    /\ \/ Answered /\ stage' = "records" /\ UNCHANGED result
       \/ GivesUp
    /\ UNCHANGED <<technitium, session, held>> /\ OutsidePipe

\* The zone is created when it is not listed.
ListZones ==
    /\ stage = "zones"
    /\ \/ Answered /\ stage' = (IF zone THEN "records" ELSE "create") /\ UNCHANGED result
       \/ GivesUp
    /\ UNCHANGED <<technitium, session, held>> /\ OutsidePipe

CreateZone ==
    /\ stage = "create"
    /\ \/ Answered /\ zone' = TRUE /\ stage' = "records" /\ UNCHANGED result
       \/ GivesUp /\ zone' \in {zone, TRUE}
    /\ UNCHANGED <<records, late, session, held>> /\ OutsidePipe

SkipsAnyRecord(rs) == \E a \in IP : Current(a) \in rs

\* An A record with the right TTL and address is left as it is.
IsCurrent(rs) == Current(ip) \in rs

\* records/get; it fails when the zone is gone.
GetRecords ==
    /\ stage = "records"
    /\ \/ /\ Answered /\ zone
          /\ IF IsCurrent(records) THEN stage' = "logout" /\ Return("ok")
                                   ELSE stage' = "add" /\ UNCHANGED result
       \/ kubectl = "up" /\ ~timeUp /\ ~zone /\ Smooth /\ stage' = "logout" /\ Return("error")
       \/ GivesUp
    /\ UNCHANGED <<technitium, session, held>> /\ OutsidePipe

\* records/add with overwrite: this record replaces the others of its name.
AddRecord ==
    /\ stage = "add"
    /\ \/ /\ Answered /\ zone /\ stage' = "logout" /\ Return("ok")
          /\ SetRecords({Current(ip)}) /\ UNCHANGED late
       \/ /\ kubectl = "up" /\ ~timeUp /\ ~zone /\ Smooth /\ stage' = "logout" /\ Return("error")
          /\ UNCHANGED <<records, late, held>>
       \/ /\ GivesUp
          /\ \/ UNCHANGED <<records, late, held>>
             \/ zone /\ kubectl = "up" /\ SetRecords({Current(ip)}) /\ UNCHANGED late
             \/ kubectl = "up" /\ late' = late \cup {ip} /\ UNCHANGED <<records, held>>
    /\ UNCHANGED <<zone, session>> /\ OutsidePipe

\* The deferred logout has a context of its own; its outcome is ignored.
Logout ==
    /\ stage = "logout"
    /\ stage' = "stop"
    /\ \/ kubectl = "up" /\ session' = FALSE /\ Smooth
       \/ ((kubectl # "up" /\ Smooth) \/ Fault) /\ session' \in {session, FALSE}
    /\ UNCHANGED <<result, technitium, held>> /\ OutsidePipe

-----------------------------------------------------------------------------
(* The world *)

\* -timeout is over.
TimeIsUp ==
    /\ stage # "off" /\ ~timeUp
    /\ Fault /\ timeUp' = TRUE
    /\ UNCHANGED <<net, technitium, run, session, pipe, targets, held, changes>>

\* A call of an earlier moment, or of an earlier run, arrives.
LandsLate ==
    /\ \E a \in late :
        /\ late' = late \ {a}
        /\ IF zone THEN SetRecords({Current(a)}) ELSE UNCHANGED <<records, held>>
    /\ UNCHANGED <<net, zone, run, timeUp, session, pipe, targets, trouble, failures, changes>>

Change == changes < MaxChanges /\ changes' = changes + 1

NetChanges ==
    /\ Change
    /\ net' \in Net /\ targets' = targets \cup {targetIP(net')}
    /\ UNCHANGED <<technitium, run, timeUp, session, pipe, held, trouble, failures>>

\* Another administrator of Technitium.
ZoneEdited ==
    /\ Change
    /\ \/ zone' = FALSE /\ records' = {} /\ UNCHANGED held
       \/ zone /\ UNCHANGED zone /\ \E r \in Record : SetRecords({r})
    /\ UNCHANGED <<net, late, run, timeUp, session, pipe, targets, trouble, failures>>

-----------------------------------------------------------------------------
RunStep == StartRun \/ FindTarget \/ StartForward \/ AwaitPort \/ Login \/ ListZones
           \/ CreateZone \/ GetRecords \/ AddRecord \/ Logout \/ Stop \/ WaitReturns
Plumbing == CopierReads \/ ScannerReads \/ ScannerOffers
Surroundings == TimeIsUp \/ LandsLate \/ NetChanges \/ ZoneEdited

ReconcileNext == RunStep \/ Plumbing \/ PrintPort \/ PrintNoise \/ KubectlEnds \/ Surroundings

ReconcileSpec == ReconcileInit /\ [][ReconcileNext]_reconcileVars

\* launchd starts runs, the goroutines are scheduled, calls return (8 seconds),
\* the timer and the time of a run end what waits for them, kubectl announces its
\* port while it is up, and a context that has ended kills it.
FairSpec ==
    /\ ReconcileSpec
    /\ WF_reconcileVars(RunStep) /\ WF_reconcileVars(PrintPort)
    /\ WF_reconcileVars(CopierReads) /\ WF_reconcileVars(ScannerReads) /\ WF_reconcileVars(ScannerOffers)
    /\ WF_reconcileVars(Done /\ KubectlEnds)

-----------------------------------------------------------------------------
ReconcileTypeOK ==
    /\ net \in Net /\ zone \in BOOLEAN /\ records \subseteq Record /\ late \subseteq IP
    /\ stage \in {"off", "target", "password", "forward", "stop", "wait"} \cup Calls
    /\ ip \in IP \cup {NoIP} /\ (stage \notin {"off", "target"} => ip \in IP)
    /\ result \in {"none", "ok", "error"}
    /\ timeUp \in BOOLEAN /\ session \in BOOLEAN
    /\ kubectl \in {"off", "up", "dead"} /\ copier \in {"off", "read", "write", "end"}
    /\ scanner \in {"off", "scan", "gone"}
    /\ os \in Seq(Line) /\ chunk \in Seq(Line) /\ buf \in Seq(Line)
    /\ lines \in Seq(Line) /\ Len(lines) <= LineCap
    /\ cancelled \in BOOLEAN /\ banner \in BOOLEAN /\ noise \in 0..MaxNoise
    /\ targets \subseteq IP \cup {NoIP} /\ held \subseteq IP /\ trouble \in BOOLEAN
    /\ failures \in 0..MaxFailures /\ changes \in 0..MaxChanges

\* A run that reports success has found the zone with, or has given it, an address
\* that was the machine's LAN address at some moment of this run, never that of a
\* tunnel and never one that only an earlier run has looked up.
SuccessIsReal == result = "ok" => ip \in held \cap targets

\* When the run is over its port-forward is, whichever step failed.
NoForwardLeft == stage = "off" => kubectl = "off"

\* A run in which nothing failed leaves no session in Technitium: it logs out while
\* the port-forward is still there.
LoggedOut == stage = "off" /\ ~trouble => ~session

\* The three of a run that is over, or has succeeded, and the types.
RunsSound == ReconcileTypeOK /\ SuccessIsReal /\ NoForwardLeft /\ LoggedOut

\* The copier of os/exec writes to an io.Pipe that nobody reads any more.
Stuck == stage = "wait" /\ copier = "write" /\ scanner = "gone"

\* Once the network and the zone rest, and calls get through, the wildcard points at
\* the machine's address and stays there, late calls included; but for a run that
\* is stuck, after which launchd starts no other.
TargetReachesDNS ==
    <>[](Stuck \/ targetIP(net) = NoIP \/ (zone /\ Current(targetIP(net)) \in records))

\* -timeout is the "maximum time for one reconciliation": every run ends.
RunsEnd == stage # "off" ~> stage = "off"
=============================================================================
