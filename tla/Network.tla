------------------------------- MODULE Network -------------------------------
(****************************************************************************)
(* Network protection (aegorx/network): the service holds a blocklist of    *)
(* domains in memory (dns_filter.py), loaded from two files; threads of the *)
(* service refresh it from threat feeds (protector.py, threat_feeds.py),    *)
(* block and unblock domains, and put the list into the hosts file          *)
(* (enforcement.py).  `aegorx network block | unblock | update` are         *)
(* processes of their own on the same two files.                            *)
(* Which enforcer a process has depends on its platform and its rights: one *)
(* that writes the hosts file, or one with a chain (iptables) or an anchor  *)
(* (pf) of its own, whose install takes no domain of the list.              *)
(*                                                                          *)
(* A method of DNSFilter holds the filter's lock from the change in memory  *)
(* to the rename of the file: it is one step.                               *)
(****************************************************************************)
EXTENDS Naturals

CONSTANTS
  Domains,
  Named,        \* domains some threat feed may name
  Callers,      \* threads that call NetworkProtector
  OpsOf,        \* the methods each of them calls
  FeedLoops,    \* threads that may be feed loops
  Nothing,
  Enforcers,    \* what get_enforcer may answer on these hosts
  MaxStarts, MaxCalls,   \* bounds: start(); commands and calls but stop()
  MaxFaults              \* bound: failing file operations and killed services

Ops == {"start", "stop", "block", "unblock", "update"}

ASSUME NetworkAssumption ==
  /\ Named \subseteq Domains
  /\ OpsOf \in [Callers -> SUBSET Ops]
  /\ Callers \cap FeedLoops = {}
  /\ Nothing \notin Domains \cup FeedLoops
  /\ Enforcers \subseteq {"hosts", "chain"} /\ Enforcers # {}
  /\ {MaxStarts, MaxCalls, MaxFaults} \subseteq Nat

VARIABLES
  primary, custom,  \* network-blocklist.json, network-custom-blocklist.json
  hosts,            \* the block of the hosts file
  enforcer,         \* the kind this host has
  up, blocked,      \* the service, and its self._blocked_domains
  cmd,              \* the command that runs and what it loaded
  pc, op, dom, list,  \* locals of each thread
  updating, feedStop, connStop,  \* the three events
  watching,         \* whether a loop of the connection monitor runs
  kept,             \* history: domains blocked and not unblocked since
  unseen,           \* history: those of them blocked while the other of a
                    \* command and the service had already loaded its list
  wanted,           \* history: the last of start() and stop()
  disturbed,        \* history: whether two threads ever enforced at a time, or
                    \* a file operation failed, in this process
  starts, calls, faults

files   == <<primary, custom, hosts, enforcer>>
locals  == <<pc, op, dom, list>>
flags   == <<updating, feedStop, connStop, watching>>
ghosts  == <<kept, unseen, wanted, disturbed>>
bounds  == <<starts, calls, faults>>
vars    == <<files, up, blocked, cmd, locals, flags, ghosts, bounds>>

Threads == Callers \cup FeedLoops
NoCommand == [op |-> "none", mem |-> {}]

Init ==
  /\ primary = {} /\ custom = {} /\ hosts = {} /\ enforcer \in Enforcers
  /\ up = FALSE /\ blocked = {} /\ cmd = NoCommand
  /\ pc = [t \in Threads |-> "idle"] /\ op = [t \in Threads |-> "none"]
  /\ dom = [t \in Threads |-> Nothing] /\ list = [t \in Threads |-> {}]
  /\ updating = FALSE /\ feedStop = FALSE /\ connStop = FALSE
  /\ watching = FALSE
  /\ kept = {} /\ unseen = {} /\ wanted = "off" /\ disturbed = FALSE
  /\ starts = 0 /\ calls = 0 /\ faults = 0

----------------------------------------------------------------------------
(* The files of DNSFilter.                                                  *)

\* What a new DNSFilter takes from the two files.
Loaded == primary \cup custom

\* Seeded fault: what another file of the two has is forgotten.
BugCustomOfNew(mem) == mem \ (primary \cup custom)

\* _persist_custom: whatever the primary file does not have.
CustomOf(mem) == mem \ primary

\* A file operation raises after the change in memory.
SaveFails ==
  /\ faults < MaxFaults /\ faults' = faults + 1
  /\ disturbed' = TRUE

\* Another thread renames the temporary file of the same name first.
Overtaken(t) ==
  /\ \E u \in Threads \ {t} : pc[u] = pc[t]
  /\ disturbed' = TRUE /\ UNCHANGED faults

\* The user's order o about d; shared if two processes hold lists of their own.
Remember(o, d, shared) ==
  /\ kept' = IF o = "block" THEN kept \cup {d} ELSE kept \ {d}
  /\ unseen' = IF o = "block" /\ shared THEN unseen \cup {d} ELSE unseen \ {d}

Goto(t, label) == pc' = [pc EXCEPT ![t] = label]

\* A call returns, or raises; a feed loop goes on to wait.
Return(t) ==
  /\ Goto(t, IF t \in FeedLoops THEN "wait" ELSE "idle")
  /\ op' = [op EXCEPT ![t] = IF t \in FeedLoops THEN "update" ELSE "none"]
  /\ dom' = [dom EXCEPT ![t] = Nothing]
  /\ list' = [list EXCEPT ![t] = {}]

----------------------------------------------------------------------------
(* The service and its calls.                                               *)

\* With no command at work everybody who has a list now has this one.
Boot ==
  /\ ~up
  /\ up' = TRUE /\ blocked' = Loaded
  /\ unseen' = IF cmd = NoCommand THEN unseen \ Loaded ELSE unseen
  /\ UNCHANGED <<files, cmd, locals, flags, kept, wanted, disturbed, bounds>>

\* The process is killed, or main returns: its threads are daemons.
Kill ==
  /\ up /\ faults < MaxFaults /\ faults' = faults + 1
  /\ up' = FALSE /\ blocked' = {}
  /\ pc' = [t \in Threads |-> "idle"] /\ op' = [t \in Threads |-> "none"]
  /\ dom' = [t \in Threads |-> Nothing] /\ list' = [t \in Threads |-> {}]
  /\ updating' = FALSE /\ feedStop' = FALSE /\ connStop' = FALSE
  /\ watching' = FALSE /\ wanted' = "off" /\ disturbed' = FALSE
  /\ UNCHANGED <<files, cmd, kept, unseen, starts, calls>>

Enter(t, o, label) ==
  /\ up /\ t \in Callers /\ pc[t] = "idle" /\ o \in OpsOf[t]
  /\ op' = [op EXCEPT ![t] = o]
  /\ Goto(t, label)

\* start() as far as enforcement.  self._thread, which it tests, is never set:
\* there is no guard.  All loops of the connection monitor look at one event.
CallStart(t) ==
  /\ starts < MaxStarts /\ starts' = starts + 1
  /\ calls < MaxCalls /\ calls' = calls + 1
  /\ Enter(t, "start", "list")
  /\ wanted' = "on"
  /\ watching' = TRUE /\ connStop' = FALSE
  /\ UNCHANGED <<files, up, blocked, cmd, dom, list, updating, feedStop, kept,
                 unseen, disturbed, faults>>

\* Seeded fault: the event of the feed loop is not set.
BugCallStop(t) ==
  /\ Enter(t, "stop", "join")
  /\ wanted' = "off" /\ connStop' = TRUE
  /\ UNCHANGED <<files, up, blocked, cmd, dom, list, updating, feedStop,
                 watching, kept, unseen, disturbed, bounds>>

CallStop(t) ==
  /\ Enter(t, "stop", "join")
  /\ wanted' = "off" /\ feedStop' = TRUE /\ connStop' = TRUE
  /\ UNCHANGED <<files, up, blocked, cmd, dom, list, updating, watching, kept,
                 unseen, disturbed, bounds>>

\* Seeded fault: a name that is empty after normalization is not refused.
BugCallBlock(t, o, d) ==
  /\ calls < MaxCalls /\ calls' = calls + 1
  /\ o \in {"block", "unblock"}
  /\ Enter(t, o, "change")
  /\ UNCHANGED <<files, up, blocked, cmd, dom, list, flags, ghosts, starts,
                 faults>>

CallBlock(t, o, d) ==
  /\ calls < MaxCalls /\ calls' = calls + 1
  /\ o \in {"block", "unblock"}
  /\ Enter(t, o, "change")
  /\ dom' = [dom EXCEPT ![t] = d]
  /\ UNCHANGED <<files, up, blocked, cmd, list, flags, ghosts, starts,
                 faults>>

CallUpdate(t) ==
  /\ calls < MaxCalls /\ calls' = calls + 1
  /\ Enter(t, "update", "test")
  /\ UNCHANGED <<files, up, blocked, cmd, dom, list, flags, ghosts,
                 starts, faults>>

----------------------------------------------------------------------------
(* start and stop.                                                          *)

\* The first refresh of a feed loop comes before it looks at its event.
StartFeed(t) ==
  /\ pc[t] = "feed"
  /\ feedStop' = FALSE
  /\ \E l \in FeedLoops : pc[l] = "idle"
  /\ LET l == CHOOSE l \in FeedLoops : pc[l] = "idle" IN
     /\ pc' = [pc EXCEPT ![l] = "test", ![t] = "idle"]
     /\ op' = [op EXCEPT ![l] = "update", ![t] = "none"]
  /\ UNCHANGED <<files, up, blocked, cmd, dom, list, updating, connStop,
                 watching, ghosts, bounds>>

\* The joins give up after two seconds: a loop inside update_feeds lasts longer,
\* one that waits on its event ends at once when that is set.
Join(t) ==
  /\ pc[t] = "join"
  /\ feedStop => \A l \in FeedLoops : pc[l] # "wait"
  /\ Return(t)
  /\ UNCHANGED <<files, up, blocked, cmd, flags, ghosts, bounds>>

----------------------------------------------------------------------------
(* block_domain and unblock_domain.                                         *)

\* DNSFilter.block and unblock; nothing follows if they say False.
Change(t) ==
  LET d == dom[t]
      after == IF op[t] = "block" THEN blocked \cup {d} ELSE blocked \ {d} IN
  /\ pc[t] = "change"
  /\ \/ /\ after = blocked
        /\ Return(t)
        /\ UNCHANGED <<custom, blocked, kept, unseen, disturbed, faults>>
     \/ /\ after # blocked
        /\ blocked' = after
        /\ \/ /\ custom' = CustomOf(after)
              /\ Remember(op[t], d, cmd # NoCommand)
              /\ Goto(t, "list")
              /\ UNCHANGED <<op, dom, list, disturbed, faults>>
           \/ /\ SaveFails
              /\ kept' = kept \ {d}
              /\ Return(t)
              /\ UNCHANGED <<custom, unseen>>
  /\ UNCHANGED <<primary, hosts, enforcer, up, cmd, flags, wanted, starts,
                 calls>>

----------------------------------------------------------------------------
(* update_feeds.                                                            *)

\* The flag is tested and set in two steps.
TestUpdating(t) ==
  /\ pc[t] = "test"
  /\ \/ updating /\ Return(t)
     \/ ~updating /\ Goto(t, "set") /\ UNCHANGED <<op, dom, list>>
  /\ UNCHANGED <<files, up, blocked, cmd, flags, ghosts, bounds>>

SetUpdating(t) ==
  /\ pc[t] = "set"
  /\ updating' = TRUE
  /\ Goto(t, "import")
  /\ UNCHANGED <<files, up, blocked, cmd, op, dom, list, feedStop, connStop,
                 watching, ghosts, bounds>>

\* update_threat_intel: every source may fail; whatever is new is added, and
\* the primary file then takes all that is blocked.  If that file, or the one
\* with the time of the update, which two refreshes may write at once, cannot be
\* written, nothing is enforced.
Import(t) ==
  /\ pc[t] = "import"
  /\ \E fetched \in SUBSET Named :
       LET new == ~(fetched \subseteq blocked)
           saved == IF new THEN blocked \cup fetched ELSE primary IN
       /\ blocked' = blocked \cup fetched
       /\ \/ /\ primary' = saved
             /\ Goto(t, "list")
             /\ UNCHANGED <<updating, op, dom, list, disturbed, faults>>
          \/ /\ \/ primary' \in {primary, saved} /\ SaveFails
                \/ primary' = saved /\ Overtaken(t)
             /\ updating' = FALSE
             /\ Return(t)
  /\ UNCHANGED <<custom, hosts, enforcer, up, cmd, feedStop, connStop, watching,
                 kept, unseen, wanted, starts, calls>>

----------------------------------------------------------------------------
(* enforcer.sync(dns.domains()).                                            *)

\* Seeded fault: an empty list is nothing to enforce.
BugListDomains(t) ==
  /\ pc[t] = "list"
  /\ list' = [list EXCEPT ![t] = IF blocked = {} THEN hosts ELSE blocked]
  /\ disturbed' = (disturbed \/ \E u \in Threads : pc[u] = "write")
  /\ Goto(t, "write")
  /\ UNCHANGED <<files, up, blocked, cmd, op, dom, flags, kept, unseen, wanted,
                 bounds>>

ListDomains(t) ==
  /\ pc[t] = "list"
  /\ list' = [list EXCEPT ![t] = blocked]
  /\ disturbed' = (disturbed \/ \E u \in Threads : pc[u] = "write")
  /\ Goto(t, "write")
  /\ UNCHANGED <<files, up, blocked, cmd, op, dom, flags, kept, unseen, wanted,
                 bounds>>

\* The old block of the hosts file is replaced; the other enforcers empty their
\* chain, or load an anchor that names an empty table, and leave that file.  An
\* error makes sync return False; nobody looks at it.
\* The end of an update clears the flag.
WriteHosts(t) ==
  /\ pc[t] = "write"
  /\ \/ /\ hosts' = IF enforcer = "hosts" THEN list[t] ELSE hosts
        /\ UNCHANGED <<disturbed, faults>>
     \/ UNCHANGED hosts /\ (SaveFails \/ (enforcer = "hosts" /\ Overtaken(t)))
  /\ updating' = (updating /\ op[t] # "update")
  /\ \/ op[t] = "start" /\ Goto(t, "feed") /\ UNCHANGED <<op, dom, list>>
     \/ op[t] # "start" /\ Return(t)
  /\ UNCHANGED <<primary, custom, enforcer, up, blocked, cmd, feedStop, connStop,
                 watching, kept, unseen, wanted, starts, calls>>

----------------------------------------------------------------------------
(* The two loops.                                                           *)

\* The interval passes, or the event is set.
FeedTurn(l) ==
  /\ pc[l] = "wait"
  /\ \/ ~feedStop /\ Goto(l, "test") /\ UNCHANGED op
     \/ feedStop /\ Goto(l, "idle") /\ op' = [op EXCEPT ![l] = "none"]
  /\ UNCHANGED <<files, up, blocked, cmd, dom, list, flags, ghosts,
                 bounds>>

\* scan_once leaves nothing behind but counters and callbacks.
EndConn ==
  /\ watching /\ connStop
  /\ watching' = FALSE
  /\ UNCHANGED <<files, up, blocked, cmd, locals, updating, feedStop, connStop,
                 ghosts, bounds>>

----------------------------------------------------------------------------
(* Commands, whether the service is up or not.  They do not enforce, and    *)
(* the service does not reload.                                             *)

BeginCommand(o) ==
  /\ cmd = NoCommand
  /\ calls < MaxCalls /\ calls' = calls + 1
  /\ o \in {"block", "unblock", "update"}
  /\ cmd' = [op |-> o, mem |-> Loaded]
  /\ UNCHANGED <<files, up, blocked, locals, flags, ghosts, starts, faults>>

CommandChange(d) ==
  LET after == IF cmd.op = "block" THEN cmd.mem \cup {d} ELSE cmd.mem \ {d} IN
  /\ cmd.op \in {"block", "unblock"}
  /\ \/ after = cmd.mem /\ UNCHANGED <<custom, kept, unseen>>
     \/ after # cmd.mem /\ custom' = CustomOf(after) /\ Remember(cmd.op, d, up)
  /\ cmd' = NoCommand
  /\ UNCHANGED <<primary, hosts, enforcer, up, blocked, locals, flags, wanted,
                 disturbed, bounds>>

CommandUpdate ==
  /\ cmd.op = "update"
  /\ \E fetched \in SUBSET Named :
       primary' = IF fetched \subseteq cmd.mem THEN primary
                  ELSE cmd.mem \cup fetched
  /\ cmd' = NoCommand
  /\ UNCHANGED <<custom, hosts, enforcer, up, blocked, locals, flags, ghosts,
                 bounds>>

Call(t) ==
  \/ CallStart(t) \/ CallStop(t) \/ CallUpdate(t)
  \/ \E o \in Ops, d \in Domains : CallBlock(t, o, d)

Step(t) ==
  \/ StartFeed(t) \/ Join(t) \/ Change(t)
  \/ TestUpdating(t) \/ SetUpdating(t) \/ Import(t)
  \/ ListDomains(t) \/ WriteHosts(t)

Next ==
  \/ Boot \/ Kill
  \/ \E t \in Callers : Call(t)
  \/ \E t \in Threads : Step(t)
  \/ \E l \in FeedLoops : FeedTurn(l)
  \/ EndConn
  \/ \E o \in Ops : BeginCommand(o)
  \/ \E d \in Domains : CommandChange(d)
  \/ CommandUpdate

\* The threads of the service run; nobody has to call, boot or kill it.
Spec ==
  /\ Init /\ [][Next]_vars
  /\ \A t \in Threads : WF_vars(Step(t))
  /\ \A l \in FeedLoops : WF_vars(FeedTurn(l))
  /\ WF_vars(EndConn)

----------------------------------------------------------------------------
(* Properties.                                                              *)

TypeOK ==
  /\ primary \subseteq Domains /\ custom \subseteq Domains
  /\ hosts \subseteq Domains /\ blocked \subseteq Domains
  /\ enforcer \in Enforcers
  /\ up \in BOOLEAN
  /\ cmd \in [op : {"none", "block", "unblock", "update"},
              mem : SUBSET Domains]
  /\ pc \in [Threads -> {"idle", "feed", "join", "change", "test", "set",
                         "import", "list", "write", "wait"}]
  /\ op \in [Threads -> Ops \cup {"none"}]
  /\ dom \in [Threads -> Domains \cup {Nothing}]
  /\ list \in [Threads -> SUBSET Domains]
  /\ updating \in BOOLEAN /\ feedStop \in BOOLEAN /\ connStop \in BOOLEAN
  /\ watching \in BOOLEAN
  /\ kept \subseteq Domains /\ unseen \subseteq Domains
  /\ wanted \in {"on", "off"}
  /\ disturbed \in BOOLEAN
  /\ starts \in 0..MaxStarts /\ calls \in 0..MaxCalls
  /\ faults \in 0..MaxFaults

\* CHANGELOG.md:23 "JSON persistence" of the blocklist: what a user blocked and
\* nobody unblocked is loaded by the next process, however refreshes move
\* domains from one file to the other, whatever write fails or is cut off, and
\* whatever the commands do beside the service, as long as every list that was
\* held at the time had the domain.
BlocksSurvive == kept \ unseen \subseteq Loaded

\* dns_filter.py:192 "Add a domain to the custom blocklist. Returns True if newly
\* added.": the same of every domain for which block said True.  The service
\* and a command each save the list they loaded, over what the other one added.
BlockedIsListed == kept \subseteq Loaded

Quiet == \A t \in Threads : pc[t] \in {"idle", "wait"}

\* The service was started, nothing is under way, and since it came up no file
\* operation failed and no two threads enforced at a time.
Enforcing == up /\ wanted = "on" /\ Quiet /\ ~disturbed

\* enforcement.py:14 "reconcile current rules with the DNSFilter blocklist":
\* between calls the hosts file has what the started service blocks, where that
\* file is what the host enforces with; and a refresh that fails does not end
\* the refreshes for good: the flag is set only while some thread is inside
\* update_feeds and will clear it.
EnforcedIsCurrent ==
  /\ Enforcing /\ enforcer = "hosts" => hosts = blocked
  /\ updating =>
       \E t \in Threads : op[t] = "update" /\ pc[t] \in {"import", "list", "write"}

\* enforcement.py:3 "Translates the DNSFilter blocklist into actual network
\* blocking", by the hosts file on every platform (5-7).  A service with the
\* rights for iptables or pf does not touch it.
ListIsEnforced == Enforcing => hosts = blocked

\* After stop() every background loop ends, also one whose join timed out and
\* one that a start() in between let go on.
StopEndsLoops ==
  wanted = "off" ~> \/ wanted = "on"
                    \/ ~watching /\ \A l \in FeedLoops : pc[l] = "idle"
=============================================================================
