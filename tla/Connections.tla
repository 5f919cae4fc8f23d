---------------------------- MODULE Connections ----------------------------
(***************************************************************************)
(* Connection monitoring: ConnectionMonitor and BeaconDetector of          *)
(* aegorx/network/conn_monitor.py, and the OutboundFirewall of             *)
(* aegorx/firewall.py, which scans through a ConnectionMonitor of its own  *)
(* with empty lists; one object of either kind is watched here.  The times *)
(* of a history are kept as ages in seconds, and a loop scans at most once *)
(* a second.                                                               *)
(***************************************************************************)
EXTENDS Integers, Sequences, FiniteSets, FiniteSetsExt

CONSTANTS Hosts,          \* remote addresses
          BeaconWindow,   \* BeaconDetector.window
          MinSamples,     \* BeaconDetector.min_samples
          MaxConns        \* bound: connections opened

ASSUME ConnAssumption == BeaconWindow \in Nat

VARIABLES nOpen,       \* established connections: [id, host, port]
          nOpened,
          nWatch,      \* the object that scans: its lists, loop and history of ages by host
          nAlerts      \* [id, why]

connVars == <<nOpen, nOpened, nWatch, nAlerts>>

\* Ports by list: in HIGH_RISK_PORTS and SUSPICIOUS_OUTBOUND_PORTS (4444), in HIGH_RISK_PORTS
\* alone (3389), suspicious but safe (443), DNS (53), in neither (80).
Ports == {"both", "risky", "tls", "dns", "plain"}
HighRisk(port) == port \in {"both", "risky"}
FirewallPorts == {"both", "tls", "dns"}
SafePorts == {"tls", "dns", "plain"}

ConnInit ==
  /\ nOpen = {} /\ nOpened = 0 /\ nAlerts = {}
  /\ nWatch = [kind |-> "none", loop |-> "off", due |-> FALSE, blocked |-> {}, allowed |-> {},
               ages |-> [h \in Hosts |-> <<>>]]

ConnTypeOK ==
  /\ \A c \in nOpen : c.id \in 1..nOpened /\ c.host \in Hosts /\ c.port \in Ports
  /\ \A h \in Hosts : nWatch.ages[h] \in Seq(0..BeaconWindow)
  /\ nWatch.kind \in {"none", "monitor", "firewall"} /\ nWatch.loop \in {"off", "on", "dead"}

\* start of a monitor or of a firewall; a firewall does nothing while _thread is set.
StartWatch(kind) ==
  /\ nWatch.kind \in {"none", kind} /\ nWatch.loop = "off"
  /\ nWatch' = [nWatch EXCEPT !.kind = kind, !.loop = "on"]
  /\ UNCHANGED <<nOpen, nOpened, nAlerts>>

StopWatch ==
  /\ nWatch.loop \in {"on", "dead"}
  /\ nWatch' = [nWatch EXCEPT !.loop = "off"]
  /\ UNCHANGED <<nOpen, nOpened, nAlerts>>

\* set_ip_blocklist, add_blocked_ip, remove_blocked_ip of both; allow_ip of the monitor.
EditLists(h) ==
  /\ nWatch.kind # "none"
  /\ \/ \E S \in {nWatch.blocked \cup {h}, nWatch.blocked \ {h}} : nWatch' = [nWatch EXCEPT !.blocked = S]
     \/ nWatch.kind = "monitor" /\ nWatch' = [nWatch EXCEPT !.allowed = @ \cup {h}]
  /\ UNCHANGED <<nOpen, nOpened, nAlerts>>

(* External: connections and time.                                         *)
Connect(h, port) ==
  /\ nOpened < MaxConns /\ nOpened' = nOpened + 1
  /\ nOpen' = nOpen \cup {[id |-> nOpened', host |-> h, port |-> port]}
  /\ UNCHANGED <<nWatch, nAlerts>>

Disconnect(c) ==
  /\ nOpen' = nOpen \ {c}
  /\ UNCHANGED <<nOpened, nWatch, nAlerts>>

\* A second passes; what is older than the window is pruned by the next record.
Aged(ages) ==
  LET upTo[n \in 0..Len(ages)] ==
        IF n = 0 THEN <<>>
        ELSE IF ages[n] < BeaconWindow THEN Append(upTo[n - 1], ages[n] + 1) ELSE upTo[n - 1]
  IN  upTo[Len(ages)]
Elapse ==
  /\ nWatch' = [nWatch EXCEPT !.due = TRUE, !.ages = [h \in Hosts |-> Aged(@[h])]]
  /\ UNCHANGED <<nOpen, nOpened, nAlerts>>

(* BeaconDetector.record: regular means that the average interval is at    *)
(* least a second and the standard deviation below 0.3 of the average.     *)
IsBeacon(ages) ==
  /\ Len(ages) >= MinSamples
  /\ LET n == Len(ages) - 1
         total == ages[1] - ages[n + 1]
         Off(i) == n * (ages[i] - ages[i + 1]) - total
     IN  total >= n /\ 100 * MapThenSumSet(LAMBDA i : Off(i) * Off(i), 1..n) < 9 * n * total * total

(* scan_once.  Listed hosts and high-risk ports are reported without a     *)
(* record of the time; every other connection open at a scan is recorded,  *)
(* so the j-th to a host sees j new times.  The firewall's own monitor has *)
(* no lists.                                                               *)
Listed(list) == IF nWatch.kind = "monitor" THEN list ELSE {}
Quiet(c) == c.host \notin Listed(nWatch.allowed \cup nWatch.blocked) /\ ~HighRisk(c.port)
QuietTo(h) == {c \in nOpen : Quiet(c) /\ c.host = h}
Ages(h, j) == nWatch.ages[h] \o [i \in 1..j |-> 0]
Reason(c) ==
  IF c.host \in Listed(nWatch.allowed) THEN "none"
  ELSE IF c.host \in Listed(nWatch.blocked) THEN "blocked_ip"
  ELSE IF HighRisk(c.port) THEN "high_risk_port"
  ELSE IF IsBeacon(Ages(c.host, Cardinality({d \in QuietTo(c.host) : d.id <= c.id}))) THEN "beacon"
  ELSE "none"
Found == {c \in nOpen : Reason(c) # "none"}
Scanned == [nWatch EXCEPT !.due = FALSE, !.ages = [h \in Hosts |-> Ages(h, Cardinality(QuietTo(h)))]]

MonitorScan ==
  /\ nWatch.kind = "monitor" /\ nWatch.loop = "on" /\ nWatch.due
  /\ nAlerts' = nAlerts \cup {[id |-> c.id, why |-> Reason(c)] : c \in Found}
  /\ nWatch' = Scanned
  /\ UNCHANGED <<nOpen, nOpened>>

(* OutboundFirewall.scan checks what its monitor found (_check_connection).*)
(* The loop has no try: an alert callback that raises ends the thread, and *)
(* _thread is still set.                                                   *)
Blocks(c) ==
  \/ c.host \in nWatch.blocked
  \/ c.port \in FirewallPorts \ SafePorts
  \/ c.port = "dns"

FirewallScan ==
  /\ nWatch.kind = "firewall" /\ nWatch.loop = "on" /\ nWatch.due
  /\ LET hits == {c \in Found : Blocks(c)} IN
     /\ nAlerts' = nAlerts \cup {[id |-> c.id, why |-> "blocked"] : c \in hits}
     /\ \E l \in IF hits = {} THEN {"on"} ELSE {"on", "dead"} : nWatch' = [Scanned EXCEPT !.loop = l]
  /\ UNCHANGED <<nOpen, nOpened>>

ConnNext ==
  \/ \E h \in Hosts, port \in Ports : Connect(h, port)
  \/ \E c \in nOpen : Disconnect(c)
  \/ \E h \in Hosts : EditLists(h)
  \/ Elapse \/ MonitorScan \/ FirewallScan \/ StopWatch
  \/ StartWatch("monitor") \/ StartWatch("firewall")

-----------------------------------------------------------------------------
(* An open connection to a host that is listed as blocked and not as       *)
(* allowed has not been reported by the monitor's loop yet (scan_once).    *)
ConnectionOverdue(i) ==
  /\ nWatch.kind = "monitor" /\ nWatch.loop = "on"
  /\ \E c \in nOpen : c.id = i /\ c.host \in nWatch.blocked \ nWatch.allowed
  /\ [id |-> i, why |-> "blocked_ip"] \notin nAlerts
=============================================================================
