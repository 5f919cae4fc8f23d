----------------------------- MODULE Schedules ------------------------------
(***************************************************************************)
(* `aegorx schedule` (aegorx/scheduler.py): a scan job kept by systemd,    *)
(* launchd or the Windows task scheduler, or a thread of the program.      *)
(* install() and uninstall() are lists of file operations and calls of     *)
(* system tools: a file operation or a timeout raises, an exit code is     *)
(* looked at only for schtasks.  The machine may be restarted any time.    *)
(***************************************************************************)
EXTENDS Integers, FiniteSets, Sequences

CONSTANTS MaxToolFaults,   \* bound: failing operations
          MaxJobCalls      \* bound: commands, and intervals of the thread

ASSUME JobAssumption == MaxToolFaults \in Nat

VARIABLES tKind,      \* what get_scheduler() returns here
          tFiles,     \* unit files or plist on disk
          tEnabled,   \* systemd: started at boot; schtasks: the task exists
          tActive,    \* the manager will run scans
          tCall,      \* [name, todo]: the operations that remain
          tLast,      \* history: the last install() or uninstall(), and its answer
          tFaults, tCalls,
          tThread,    \* PythonScheduler: thread -> "none", "wait", "due", "scan", "gone"
          tStop, tDue, tOwner

jobVars == <<tKind, tFiles, tEnabled, tActive, tCall, tLast, tFaults, tCalls,
             tThread, tStop, tDue, tOwner>>

Kinds == {"systemd", "launchd", "schtasks", "thread"}
JobLoops == 1..MaxJobCalls
NoJobCall == [name |-> "none", todo |-> <<>>]

JobInit ==
  /\ tKind \in Kinds
  /\ tFiles = {} /\ tEnabled = FALSE /\ tActive = FALSE
  /\ tCall = NoJobCall /\ tLast = <<"none", TRUE>> /\ tFaults = 0 /\ tCalls = 0
  /\ tThread = [l \in JobLoops |-> "none"] /\ tStop = FALSE /\ tDue = FALSE /\ tOwner = "off"

JobTypeOK ==
  /\ tKind \in Kinds /\ tFiles \subseteq {"service", "timer", "plist"}
  /\ tEnabled \in BOOLEAN /\ tActive \in BOOLEAN /\ tFaults \in 0..MaxToolFaults
  /\ tLast \in {"none", "install", "uninstall"} \X BOOLEAN
  /\ tThread \in [JobLoops -> {"none", "wait", "due", "scan", "gone"}] /\ tOwner \in {"off", "on"}

threadVars == <<tThread, tStop, tDue, tOwner>>

\* The operations of a call, in order: files, the tools of the system, the task.
Operations(name) ==
  CASE tKind = "systemd" /\ name = "install" ->
         <<<<"write", "service">>, <<"write", "timer">>, <<"tool", "reload">>, <<"tool", "enable">>,
           <<"tool", "start">>>>
    [] tKind = "systemd" /\ name = "uninstall" ->
         <<<<"tool", "stop">>, <<"tool", "disable">>, <<"remove", "service">>, <<"remove", "timer">>,
           <<"tool", "reload">>>>
    [] tKind = "launchd" /\ name = "install" ->
         <<<<"format", "plist">>, <<"write", "plist">>, <<"tool", "stop">>, <<"tool", "start">>>>
    [] tKind = "launchd" /\ name = "uninstall" -> <<<<"tool", "stop">>, <<"remove", "plist">>>>
    [] OTHER -> <<<<"task", name>>>>

CallScheduler(name, paths) ==
  /\ tKind # "thread" /\ tCall = NoJobCall /\ tCalls < MaxJobCalls /\ tCalls' = tCalls + 1
  /\ IF name = "install" /\ ~paths      \* no path passes _validate_path
     THEN tLast' = <<name, FALSE>> /\ UNCHANGED tCall
     ELSE tCall' = [name |-> name, todo |-> Operations(name)] /\ UNCHANGED tLast
  /\ UNCHANGED <<tKind, tFiles, tEnabled, tActive, tFaults, threadVars>>

(* What an operation does.  Without its files a unit cannot be enabled or  *)
(* started; `launchctl load` and `unload` start and stop a job.            *)
Effect(op) ==
  /\ tFiles' = CASE op[1] = "write" -> tFiles \cup {op[2]}
                [] op[1] = "remove" -> tFiles \ {op[2]}
                [] OTHER -> tFiles
  /\ tEnabled' = CASE op[2] = "enable" -> tEnabled \/ "timer" \in tFiles
                  [] op[1] = "task" -> op[2] = "install"
                  [] OTHER -> tEnabled /\ op[2] # "disable"
  /\ tActive' = CASE op[2] = "start" -> tActive \/ tFiles # {}
                 [] op[1] = "task" -> op[2] = "install"
                 [] OTHER -> tActive /\ op[2] # "stop"
Returns(answer) == tCall' = NoJobCall /\ tLast' = <<tCall.name, answer>>
Continues ==
  IF Len(tCall.todo) = 1 THEN Returns(TRUE)
  ELSE tCall' = [tCall EXCEPT !.todo = Tail(@)] /\ UNCHANGED tLast

\* LaunchdScheduler.install reads a key DEFAULT_SCHEDULE does not have: it raises, always.
Operate ==
  /\ tCall # NoJobCall
  /\ LET op == Head(tCall.todo) IN
     IF op[1] = "format" THEN Returns(FALSE) /\ UNCHANGED <<tFiles, tEnabled, tActive>>
     ELSE Effect(op) /\ Continues
  /\ UNCHANGED <<tKind, tFaults, tCalls, threadVars>>

(* A failing operation: files raise and end the call; so does the timeout  *)
(* of a tool, while its exit code matters only to schtasks.                *)
OperationFails(raises) ==
  /\ tCall # NoJobCall /\ tFaults < MaxToolFaults /\ tFaults' = tFaults + 1
  /\ IF Head(tCall.todo)[1] = "tool" /\ ~raises THEN Continues ELSE Returns(FALSE)
  /\ UNCHANGED <<tKind, tFiles, tEnabled, tActive, tCalls, threadVars>>

\* External: after a restart a manager runs what is enabled and still has its files.
Reboot ==
  /\ tActive' = (CASE tKind = "systemd" -> tEnabled /\ "timer" \in tFiles
                   [] tKind = "launchd" -> "plist" \in tFiles
                   [] OTHER -> tEnabled)
  /\ tCall' = NoJobCall
  /\ tLast' = IF tCall = NoJobCall THEN tLast ELSE <<"none", TRUE>>
  /\ tThread' = [l \in JobLoops |-> "none"] /\ tStop' = FALSE /\ tOwner' = "off" /\ tDue' = FALSE
  /\ UNCHANGED <<tKind, tFiles, tEnabled, tFaults, tCalls>>

-----------------------------------------------------------------------------
(* PythonScheduler: start() and stop(), and the loop that scans when a day *)
(* has passed.  stop() waits two seconds for the thread and forgets it; it *)
(* may be in a scan, see the event cleared by the next start(), and go on. *)
jobFileVars == <<tKind, tFiles, tEnabled, tActive, tCall, tLast, tFaults>>
StartThread ==
  /\ tKind = "thread" /\ tOwner = "off"
  /\ tCalls < MaxJobCalls /\ tCalls' = tCalls + 1
  /\ tOwner' = "on" /\ tThread' = [tThread EXCEPT ![tCalls'] = "wait"] /\ tStop' = FALSE
  /\ UNCHANGED <<tDue, jobFileVars>>
StopThread ==
  /\ tOwner = "on" /\ tOwner' = "off" /\ tStop' = TRUE
  /\ UNCHANGED <<tThread, tDue, tCalls, jobFileVars>>
DayPasses ==
  /\ tKind = "thread" /\ ~tDue /\ tCalls < MaxJobCalls /\ tCalls' = tCalls + 1
  /\ tDue' = TRUE /\ UNCHANGED <<tThread, tStop, tOwner, jobFileVars>>
\* Seeded fault: a scan that raises ends the thread.
BugAfterScan(raises) == IF raises THEN "gone" ELSE "wait"
AfterScan(raises) == "wait"
\* The time of the scan is noted before it; a scan that raises is over.
ThreadTurn(l) ==
  /\ \/ tThread[l] = "wait" /\ tStop /\ tThread' = [tThread EXCEPT ![l] = "gone"] /\ UNCHANGED tDue
     \/ tThread[l] = "wait" /\ ~tStop /\ tDue /\ tThread' = [tThread EXCEPT ![l] = "due"] /\ UNCHANGED tDue
     \/ tThread[l] = "due" /\ tThread' = [tThread EXCEPT ![l] = "scan"] /\ tDue' = FALSE
     \/ /\ tThread[l] = "scan" /\ UNCHANGED tDue
        /\ \E raises \in BOOLEAN : tThread' = [tThread EXCEPT ![l] = AfterScan(raises)]
  /\ UNCHANGED <<tStop, tOwner, tCalls, jobFileVars>>

JobNext ==
  \/ \E name \in {"install", "uninstall"}, paths \in BOOLEAN : CallScheduler(name, paths)
  \/ Operate \/ \E raises \in BOOLEAN : OperationFails(raises)
  \/ Reboot \/ StartThread \/ StopThread \/ DayPasses
  \/ \E l \in JobLoops : ThreadTurn(l)

-----------------------------------------------------------------------------
(* An uninstall() that reported success leaves nothing a restarted machine *)
(* would run, whatever tools failed on the way and wherever an earlier     *)
(* installation was interrupted.                                           *)
RemovedStaysRemoved ==
  tLast = <<"uninstall", TRUE>> /\ tCall = NoJobCall =>
    CASE tKind = "systemd" -> "timer" \notin tFiles
      [] tKind = "launchd" -> "plist" \notin tFiles
      [] OTHER -> ~tEnabled

(* A day has passed and the scheduler that was started, and not stopped,   *)
(* has not scanned; or it was stopped and one of its threads still runs.   *)
ScanOverdue == tDue /\ tOwner = "on"
LoopOverdue == tOwner = "off" /\ \E l \in JobLoops : tThread[l] \notin {"none", "gone"}
=============================================================================
