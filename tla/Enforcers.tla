----------------------------- MODULE Enforcers -----------------------------
(***************************************************************************)
(* What makes the operating system drop traffic: the outbound enforcers of *)
(* aegorx/firewall.py ("iptables", "pf", "netsh", "hosts") and the         *)
(* iptables enforcer of aegorx/network/enforcement.py ("dns-iptables"),    *)
(* with a chain of its own that it fills one address at a time.  A call is *)
(* a list of commands (iptables, pfctl, netsh, file operations) that       *)
(* change the system one by one.  The exit status of a command is not      *)
(* looked at: a refused one has no effect and the call goes on; a timeout  *)
(* or an OSError makes the call return False; the process may be killed    *)
(* between two commands.                                                   *)
(***************************************************************************)
EXTENDS Integers, Sequences, FiniteSets, SequencesExt

CONSTANTS Targets,        \* addresses and ports one may block
          SafeTargets,    \* SAFE_OUTBOUND_PORTS: never blocked by install
          Platforms,      \* "iptables", "dns-iptables", "pf", "netsh", "hosts"
          MaxFaults,      \* bound: refused commands, timeouts and kills
          MaxCalls        \* bound: calls of install, remove, add and drop

ASSUME EnfAssumption ==
  IsFiniteSet(Targets) /\ Platforms \subseteq {"iptables", "dns-iptables", "pf", "netsh", "hosts"}

VARIABLES ePlatform,
          eChain,      \* iptables: target -> number of DROP rules; the chain exists or not
          eHooks,      \* jumps from OUTPUT to the chain
          eDoubled,    \* history: a refused -C ever let a second jump be inserted
          eAnchor,     \* pf: the anchor file, the rules pfctl loaded, the line in pf.conf
          eRules,      \* netsh: targets with a block rule
          eHosts,      \* hosts file: the user's lines are there, the section's targets
          eBlocked,    \* SinkholeOutboundEnforcer._blocked
          eCall,       \* the call under way or the last one
          eFaults, eCalls

enfVars == <<ePlatform, eChain, eHooks, eAnchor, eRules, eHosts, eDoubled, eBlocked, eCall, eFaults, eCalls>>
sysVars == <<eChain, eHooks, eAnchor, eRules, eHosts>>

NoRules == [t \in Targets |-> 0]
Blockable(S) == S \ SafeTargets
Cmd(d) == [do |-> d, on |-> {}]
CmdOn(d, S) == [do |-> d, on |-> S]
Each(d, S) == LET s == SetToSeq(S) IN [i \in 1..Len(s) |-> CmdOn(d, {s[i]})]

EnsureChain == <<Cmd("new-chain"), Cmd("check-hook")>>

\* IptablesEnforcer takes nothing of the list it is to install.
Appended(plat, S) == IF plat = "iptables" THEN Blockable(S) ELSE {}

(* The commands of a call, by platform.  "add" and "drop" are add_ip and   *)
(* remove_ip of IptablesEnforcer.  The sinkhole's add_block and            *)
(* remove_block are installs of its new set, and return True without a     *)
(* write when _blocked has that set already; clear_all is its remove.      *)
Commands(plat, op, S) ==
  CASE plat \in {"iptables", "dns-iptables"} /\ op = "install" ->
         EnsureChain \o <<Cmd("flush")>> \o Each("append", Appended(plat, S))
    [] plat \in {"iptables", "dns-iptables"} /\ op = "remove" -> <<Cmd("unhook"), Cmd("delete-chain")>>
    [] plat = "dns-iptables" /\ op = "add" -> EnsureChain \o Each("append", S)
    [] plat = "dns-iptables" /\ op = "drop" -> Each("delete", S)
    [] plat = "pf" /\ op = "install" -> <<CmdOn("write-anchor", Blockable(S)), Cmd("add-conf"), Cmd("reload")>>
    [] plat = "pf" /\ op = "remove" -> <<Cmd("unlink-anchor"), Cmd("drop-conf"), Cmd("reload")>>
    [] plat = "netsh" /\ op = "install" -> Each("add-rule", Blockable(S))
    [] plat = "netsh" /\ op = "remove" -> <<Cmd("delete-rules")>>
    [] plat = "hosts" /\ (op = "remove" \/ S # eBlocked) -> <<Cmd("truncate"), CmdOn("fill", IF op = "install" THEN S ELSE {})>>
    [] OTHER -> <<>>

Idle == [op |-> "none", set |-> {}, todo |-> <<>>, state |-> "done", clean |-> TRUE, early |-> FALSE, kept |-> TRUE]

EnfInit ==
  /\ ePlatform = "none"
  /\ eChain = [exists |-> FALSE, rules |-> NoRules] /\ eHooks = 0
  /\ eAnchor = [file |-> {}, loaded |-> {}, conf |-> FALSE]
  /\ eRules = {} /\ eHosts = [user |-> TRUE, section |-> {}]
  /\ eDoubled = FALSE /\ eBlocked = {} /\ eCall = Idle /\ eFaults = 0 /\ eCalls = 0

EnfTypeOK ==
  /\ ePlatform \in Platforms \cup {"none"}
  /\ eChain.rules \in [Targets -> Nat] /\ eHooks \in Nat
  /\ eAnchor.file \cup eAnchor.loaded \cup eRules \cup eHosts.section \cup eBlocked \subseteq Targets
  /\ eCall.state \in {"running", "done", "failed", "killed"}

(* get_outbound_enforcer picks by platform; a call begins.  The sinkhole   *)
(* sets _blocked before it writes the file.                                *)
CallEnforcer(plat, op, S) ==
  /\ eCall.state # "running" /\ eCalls < MaxCalls
  /\ ePlatform \in {"none", plat} /\ ePlatform' = plat
  /\ op \in {"add", "drop"} => plat = "dns-iptables" /\ \E t \in Targets : S = {t}
  /\ op = "remove" => S = {}
  /\ LET todo == Commands(plat, op, S) IN
     eCall' = [op |-> op, set |-> S, todo |-> todo, state |-> "running", clean |-> TRUE,
               early |-> plat = "hosts" /\ todo = <<>>, kept |-> eHosts.user]
  /\ eBlocked' = IF plat = "hosts" THEN S ELSE eBlocked
  /\ eCalls' = eCalls + 1
  /\ UNCHANGED <<sysVars, eDoubled, eFaults>>

Running(d) == eCall.state = "running" /\ eCall.todo # <<>> /\ eCall.todo[1].do = d
Next1 == eCall' = [eCall EXCEPT !.todo = Tail(@)]
Ran == Next1 /\ UNCHANGED <<ePlatform, eDoubled, eBlocked, eFaults, eCalls>>
Target == CHOOSE t \in eCall.todo[1].on : TRUE

(* iptables: -N and -A, -F, -D, -X on a chain; -X needs it empty and       *)
(* unreferenced.  -C decides whether -I follows.                           *)
NewChain ==
  /\ Running("new-chain")
  /\ eChain' = IF eChain.exists THEN eChain ELSE [exists |-> TRUE, rules |-> NoRules]
  /\ Ran /\ UNCHANGED <<eHooks, eAnchor, eRules, eHosts>>

CheckHook ==
  /\ Running("check-hook")
  /\ eCall' = [eCall EXCEPT !.todo = (IF eHooks = 0 THEN <<Cmd("hook")>> ELSE <<>>) \o Tail(@)]
  /\ UNCHANGED <<ePlatform, sysVars, eDoubled, eBlocked, eFaults, eCalls>>

InsertHook ==
  /\ Running("hook")
  /\ eHooks' = IF eChain.exists THEN eHooks + 1 ELSE eHooks
  /\ Ran /\ UNCHANGED <<eChain, eAnchor, eRules, eHosts>>

\* Seeded fault: an install does not clear what an earlier one left.
BugFlushChain ==
  /\ Running("flush")
  /\ UNCHANGED eChain
  /\ Ran /\ UNCHANGED <<eHooks, eAnchor, eRules, eHosts>>

FlushChain ==
  /\ Running("flush")
  /\ eChain' = [eChain EXCEPT !.rules = NoRules]
  /\ Ran /\ UNCHANGED <<eHooks, eAnchor, eRules, eHosts>>

AppendOrDelete ==
  /\ Running("append") \/ Running("delete")
  /\ eChain' = [eChain EXCEPT !.rules[Target] =
       IF Running("delete") THEN (IF @ = 0 THEN 0 ELSE @ - 1)
       ELSE IF eChain.exists THEN @ + 1 ELSE @]
  /\ Ran /\ UNCHANGED <<eHooks, eAnchor, eRules, eHosts>>

Unhook ==
  /\ Running("unhook")
  /\ eHooks' = IF eHooks = 0 THEN 0 ELSE eHooks - 1
  /\ Ran /\ UNCHANGED <<eChain, eAnchor, eRules, eHosts>>

DeleteChain ==
  /\ Running("delete-chain")
  /\ eChain' = IF eHooks = 0 /\ eChain.rules = NoRules THEN [eChain EXCEPT !.exists = FALSE] ELSE eChain
  /\ Ran /\ UNCHANGED <<eHooks, eAnchor, eRules, eHosts>>

(* pf: only the anchor is loaded, never pf.conf; loading a file that is    *)
(* not there leaves the rules that were loaded.                            *)
PfCommand ==
  /\ \/ Running("write-anchor") /\ eAnchor' = [eAnchor EXCEPT !.file = eCall.todo[1].on]
     \/ Running("unlink-anchor") /\ eAnchor' = [eAnchor EXCEPT !.file = {}]
     \/ Running("add-conf") /\ eAnchor' = [eAnchor EXCEPT !.conf = TRUE]
     \/ Running("drop-conf") /\ eAnchor' = [eAnchor EXCEPT !.conf = FALSE]
     \/ Running("reload") /\ eAnchor' = IF eCall.op = "remove" THEN eAnchor
                                        ELSE [eAnchor EXCEPT !.loaded = eAnchor.file]
  /\ Ran /\ UNCHANGED <<eChain, eHooks, eRules, eHosts>>

(* netsh: rules are added by name.  remove deletes by the whole line of    *)
(* the listing, "Rule Name: ...", which names no rule.                     *)
NetshCommand ==
  /\ \/ Running("add-rule") /\ eRules' = eRules \cup eCall.todo[1].on
     \/ Running("delete-rules") /\ UNCHANGED eRules
  /\ Ran /\ UNCHANGED <<eChain, eHooks, eAnchor, eHosts>>

(* _flush: the hosts file is read, opened for writing (which empties it)   *)
(* and written back with the new section: the user's lines are lost for    *)
(* good when that write does not happen.                                   *)
HostsCommand ==
  /\ \/ Running("truncate") /\ eHosts' = [user |-> FALSE, section |-> {}]
     \/ Running("fill") /\ eHosts' = [user |-> eCall.kept, section |-> eCall.todo[1].on]
  /\ Ran /\ UNCHANGED <<eChain, eHooks, eAnchor, eRules>>

EndCall ==
  /\ eCall.state = "running" /\ eCall.todo = <<>>
  /\ eCall' = [eCall EXCEPT !.state = "done"]
  /\ UNCHANGED <<ePlatform, sysVars, eDoubled, eBlocked, eFaults, eCalls>>

IsFileCommand(d) == d \in {"write-anchor", "unlink-anchor", "add-conf", "drop-conf", "truncate", "fill"}

(* Faults: a command is refused, times out or raises, or the process dies  *)
(* (a new sinkhole object starts with an empty _blocked).                  *)
Refused ==
  /\ eCall.state = "running" /\ eCall.todo # <<>> /\ ~IsFileCommand(eCall.todo[1].do)
  /\ eCall' = [eCall EXCEPT !.todo = (IF Running("check-hook") THEN <<Cmd("hook")>> ELSE <<>>) \o Tail(@),
                            !.clean = FALSE]
  /\ eDoubled' = (eDoubled \/ (Running("check-hook") /\ eHooks > 0))
  /\ UNCHANGED <<ePlatform, sysVars, eBlocked, eCalls>>

Stopped ==
  /\ eCall.state = "running"
  /\ \/ eCall.todo # <<>> /\ eCall' = [eCall EXCEPT !.state = "failed", !.todo = <<>>] /\ UNCHANGED eBlocked
     \/ eCall' = [eCall EXCEPT !.state = "killed", !.todo = <<>>] /\ eBlocked' = {}
  /\ UNCHANGED <<ePlatform, sysVars, eDoubled, eCalls>>

Fault == eFaults < MaxFaults /\ eFaults' = eFaults + 1 /\ (Refused \/ Stopped)

EnfNext ==
  \/ \E plat \in Platforms, op \in {"install", "remove", "add", "drop"}, S \in SUBSET Targets :
       CallEnforcer(plat, op, S)
  \/ NewChain \/ CheckHook \/ InsertHook \/ FlushChain \/ AppendOrDelete \/ Unhook \/ DeleteChain
  \/ PfCommand \/ NetshCommand \/ HostsCommand \/ EndCall \/ Fault

-----------------------------------------------------------------------------
\* What the iptables rules and the hosts file make the system drop.
Dropped == IF ePlatform = "hosts" THEN eHosts.section
           ELSE IF eHooks = 0 THEN {} ELSE {t \in Targets : eChain.rules[t] > 0}
Completed(op) ==
  ePlatform \in {"iptables", "dns-iptables", "hosts"} /\ eCall.state = "done" /\ eCall.clean /\ ~eCall.early
    /\ eCall.op = op

(* A call that returned True, none of whose commands was refused, leaves   *)
(* what it stands for, whatever earlier calls left behind that were        *)
(* refused, failed or were killed in the middle: the next complete call    *)
(* repairs the system.  An install leaves exactly its set dropped; that of *)
(* IptablesEnforcer, which the service calls with every change of the list *)
(* of domains, leaves nothing dropped, also of what add_ip had put there.  *)
(* add_ip leaves its address dropped, and a remove nothing.  Two           *)
(* exceptions: a refused -C hooks the chain a second time, which one -D    *)
(* does not undo (eDoubled); the sinkhole answers True without a write     *)
(* (early) for a target of _blocked even when the write that was to enter  *)
(* it failed.                                                              *)
EnforcerKeepsItsWord ==
  /\ Completed("install") =>
       Dropped = IF ePlatform = "hosts" THEN eCall.set ELSE Appended(ePlatform, eCall.set)
  /\ Completed("add") => eCall.set \subseteq Dropped
  /\ Completed("remove") => Dropped = {} \/ eDoubled

=============================================================================
