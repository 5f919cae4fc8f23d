---------------------------- MODULE ProcessWatch ----------------------------
(***************************************************************************)
(* Behavioral monitoring of processes (aegorx/behavioral): the polling     *)
(* thread of ProcessMonitor and one call of ProcessTerminator.kill_process.*)
(* The operating system gives a pid to a new process once the old one is   *)
(* gone; a process is identified here by its incarnation number, which the *)
(* code does not see.  On Windows tasklist and taskkill take the place of  *)
(* /proc and the signals.                                                  *)
(***************************************************************************)
EXTENDS Integers, FiniteSets

CONSTANTS WatchedPids,     \* 1..n, unprotected pids; 0 stands for "no process"
          MaxBirths,       \* bound: processes started
          MaxRaises        \* bound: detection callbacks that raise

ASSUME ProcessAssumption == WatchedPids \subseteq Nat \ {0} /\ MaxBirths \in Nat

VARIABLES wHost,      \* "linux" or "windows"
          wProc,      \* pid -> the process that has it, inc = 0 for none
          wBirths,
          wKnown,     \* _known_pids
          wTable,     \* _processes: pid -> what was read about it
          wPc, wCurrent, wNew, wDead,   \* the snapshot under way
          wReported,  \* incarnations reported as suspicious
          wBlind,     \* history: incarnations a snapshot ended without having read
          wRaises,
          wKill       \* the call of kill_process: victim, pid and progress

watchVars == <<wHost, wProc, wBirths, wKnown, wTable, wPc, wCurrent, wNew, wDead,
               wReported, wBlind, wRaises, wKill>>
snapVars == <<wHost, wKnown, wTable, wPc, wCurrent, wNew, wDead, wReported, wRaises>>

Gone == [inc |-> 0, ppid |-> 0, name |-> "office"]
\* A parent and a child of SUSPICIOUS_HIERARCHY, and a name of SUSPICIOUS_NAMES.
ProcNames == {"office", "shell", "tool"}
Alive == {p \in WatchedPids : wProc[p] # Gone}

NoKill == [pc |-> "idle", pid |-> 0, victim |-> 0]

WatchInit ==
  /\ wHost \in {"linux", "windows"}
  /\ wProc = [p \in WatchedPids |-> Gone] /\ wBirths = 0
  /\ wKnown = {} /\ wTable = [p \in WatchedPids |-> Gone]
  /\ wPc = "list" /\ wCurrent = {} /\ wNew = {} /\ wDead = {}
  /\ wReported = {} /\ wBlind = {} /\ wRaises = 0
  /\ wKill = NoKill

WatchTypeOK ==
  /\ wHost \in {"linux", "windows"}
  /\ \A p \in WatchedPids : wProc[p].inc <= wBirths /\ wTable[p].inc <= wBirths
  /\ wKnown \cup wCurrent \cup wNew \cup wDead \subseteq WatchedPids
  /\ wReported \cup wBlind \subseteq 1..MaxBirths
  /\ wKill.pc \in {"idle", "term", "poll", "wait", "kill", "kill-poll", "taskkill", "killed"}

(* External: processes start and end.  Pids are interchangeable: the first *)
(* process gets pid 1.                                                     *)
Fork(p) ==
  /\ wProc[p] = Gone /\ wBirths < MaxBirths
  /\ wBirths = 0 => p = 1
  /\ wBirths' = wBirths + 1
  /\ \E q \in Alive \cup {0}, n \in ProcNames :
       wProc' = [wProc EXCEPT ![p] = [inc |-> wBirths', ppid |-> q, name |-> n]]
  /\ UNCHANGED <<snapVars, wBlind, wKill>>

Exit(p) ==
  /\ p \in Alive
  /\ wProc' = [wProc EXCEPT ![p] = Gone]
  /\ UNCHANGED <<snapVars, wBirths, wBlind, wKill>>

(* _snapshot lists the pids; a failing listing is an empty one.  On        *)
(* Windows the first column of tasklist is taken for the pid: it is the    *)
(* name of the image, so no line has one.                                  *)
ListPids(pids) ==
  /\ wPc = "list"
  /\ wHost = "windows" => pids = {}
  /\ wCurrent' = pids
  /\ wNew' = wCurrent' \ wKnown /\ wDead' = wKnown \ wCurrent'
  /\ wPc' = "new"
  /\ UNCHANGED <<wHost, wProc, wBirths, wKnown, wTable, wReported, wBlind, wRaises, wKill>>

(* _analyze_new_process.  The parent counts only when it is in the table   *)
(* already.                                                                *)
Suspicious(info, table) ==
  \/ info.name = "tool"
  \/ info.name = "shell" /\ info.ppid # 0 /\ table[info.ppid].name = "office"

SkipUnreadable(p) ==
  /\ wPc = "new" /\ p \in wNew
  /\ wNew' = wNew \ {p}
  /\ UNCHANGED <<wHost, wProc, wBirths, wKnown, wTable, wPc, wCurrent, wDead, wReported, wBlind, wRaises, wKill>>

AnalyzeNew(p) ==
  /\ wPc = "new" /\ p \in wNew /\ wProc[p] # Gone
  /\ wTable' = [wTable EXCEPT ![p] = wProc[p]]
  /\ IF Suspicious(wProc[p], wTable')
     THEN /\ wReported' = wReported \cup {wProc[p].inc}
          /\ \/ wNew' = wNew \ {p} /\ UNCHANGED <<wPc, wDead, wCurrent, wRaises>>
             \* The callback raises: the poll loop logs it and drops the snapshot.
             \/ wRaises < MaxRaises /\ wRaises' = wRaises + 1 /\ wPc' = "list"
                /\ wNew' = {} /\ wDead' = {} /\ wCurrent' = {}
     ELSE wNew' = wNew \ {p} /\ UNCHANGED <<wPc, wDead, wCurrent, wReported, wRaises>>
  /\ UNCHANGED <<wHost, wProc, wBirths, wKnown, wBlind, wKill>>

ForgetDead(p) ==
  /\ wPc = "new" /\ wNew = {} /\ p \in wDead
  /\ wDead' = wDead \ {p}
  /\ wTable' = [wTable EXCEPT ![p] = Gone]
  /\ UNCHANGED <<wHost, wProc, wBirths, wKnown, wPc, wCurrent, wNew, wReported, wBlind, wRaises, wKill>>

CommitSnapshot ==
  /\ wPc = "new" /\ wNew = {} /\ wDead = {}
  /\ wKnown' = wCurrent
  /\ wPc' = "list" /\ wCurrent' = {}
  /\ wBlind' = wBlind \cup {wProc[p].inc : p \in {q \in wCurrent \cap Alive : wTable[q] # wProc[q]}}
  /\ UNCHANGED <<wHost, wProc, wBirths, wTable, wNew, wDead, wReported, wRaises, wKill>>

(* kill_process(pid): the event, SIGTERM, ten looks whether the pid still  *)
(* answers, and after the escalation delay SIGKILL to the same pid; on     *)
(* Windows one taskkill.                                                   *)
CallKill(p) ==
  /\ wKill.pc = "idle" /\ p \in Alive
  /\ \E f \in BOOLEAN : wKill' =
       [pc |-> IF wHost = "windows" THEN "taskkill" ELSE IF f THEN "kill" ELSE "term", pid |-> p, victim |-> wProc[p].inc]
  /\ UNCHANGED <<wProc, wBirths, snapVars, wBlind>>

KillAt(pc) == wKill' = IF pc = "failed" THEN NoKill ELSE [wKill EXCEPT !.pc = pc]

\* The signal fails when the pid is free, or is not ours to signal.
SignalFails ==
  /\ wKill.pc \in {"term", "kill"}
  /\ KillAt(IF wKill.pc = "term" THEN "wait" ELSE "failed")
  /\ UNCHANGED <<wProc, wBirths, snapVars, wBlind>>

\* The signal goes to whatever has the pid now, which may ignore SIGTERM, and
\* may still answer for a while after SIGKILL.
SendSignal ==
  /\ wKill.pc \in {"term", "kill"} /\ wKill.pid \in Alive
  /\ KillAt(IF wKill.pc = "term" THEN "poll" ELSE "kill-poll")
  /\ \/ wProc' = [wProc EXCEPT ![wKill.pid] = Gone]
     \/ UNCHANGED wProc
  /\ UNCHANGED <<wBirths, snapVars, wBlind>>

\* Seeded fault: a signal that was sent counts as a kill.
BugStillAlive ==
  /\ wKill.pc \in {"poll", "kill-poll"} /\ wKill.pid \in Alive
  /\ KillAt(IF wKill.pc = "poll" THEN "wait" ELSE "killed")
  /\ UNCHANGED <<wProc, wBirths, snapVars, wBlind>>

\* kill(pid, 0) fails: the process is taken for dead.
SeesDeath ==
  /\ wKill.pc \in {"poll", "kill-poll"} /\ wKill.pid \notin Alive
  /\ wKill' = [wKill EXCEPT !.pc = "killed", !.pid = 0]
  /\ UNCHANGED <<wProc, wBirths, snapVars, wBlind>>

\* The tenth look and _is_alive still see the pid.
StillAlive ==
  /\ wKill.pc \in {"poll", "kill-poll"} /\ wKill.pid \in Alive
  /\ KillAt(IF wKill.pc = "poll" THEN "wait" ELSE "failed")
  /\ UNCHANGED <<wProc, wBirths, snapVars, wBlind>>

\* _kill_windows: the exit code counts; without /F the process is only asked.
TaskKill(accepted) ==
  /\ wKill.pc = "taskkill" /\ (accepted => wKill.pid \in Alive)
  /\ KillAt(IF accepted THEN "killed" ELSE "failed")
  /\ \/ accepted /\ wProc' = [wProc EXCEPT ![wKill.pid] = Gone]
     \/ UNCHANGED wProc
  /\ UNCHANGED <<wBirths, snapVars, wBlind>>

Escalate ==
  /\ wKill.pc = "wait"
  /\ KillAt("kill")
  /\ UNCHANGED <<wProc, wBirths, snapVars, wBlind>>

Snapshot ==
  \/ ListPids(Alive) \/ ListPids({}) \/ CommitSnapshot
  \/ \E p \in WatchedPids : SkipUnreadable(p) \/ AnalyzeNew(p) \/ ForgetDead(p)

(* The monitor and the terminator share nothing but the processes: a       *)
(* behaviour has one of them, the ends of processes stand for the other.   *)
ProcessesChange == \E p \in WatchedPids : Fork(p) \/ Exit(p)
WatchNext == ProcessesChange \/ Snapshot
KillNext ==
  \/ ProcessesChange \/ \E p \in WatchedPids : CallKill(p)
  \/ SignalFails \/ SendSignal \/ SeesDeath \/ StillAlive \/ Escalate
  \/ \E accepted \in BOOLEAN : TaskKill(accepted)

-----------------------------------------------------------------------------
(* A kill record with success (kill_process, _kill_unix) means that the    *)
(* process the call was for is gone, whoever has its pid by then.  On      *)
(* Windows it is the exit code of taskkill and no more.                    *)
VictimIsGone ==
  wKill.pc = "killed" => \A p \in WatchedPids : wProc[p].inc # wKill.victim
KilledIsGone == wHost = "linux" => VictimIsGone

(* "Provides safe process killing with confirmation"                       *)
(* (behavioral/terminator.py:3), on every platform it supports.            *)
KillsAreConfirmed == VictimIsGone

(* A living process with a name of SUSPICIOUS_NAMES has not been reported  *)
(* yet, nor has a snapshot ended that could not read it or took its pid    *)
(* for the process before it.                                              *)
ToolUnreported(i) ==
  /\ \E p \in WatchedPids : wProc[p].inc = i /\ wProc[p].name = "tool"
  /\ i \notin wReported \cup wBlind
ToolOverdue(i) == wHost = "linux" /\ ToolUnreported(i)
=============================================================================
