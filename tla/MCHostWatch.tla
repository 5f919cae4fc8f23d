---------------------------- MODULE MCHostWatch -----------------------------
(***************************************************************************)
(* The components whose threads must report or run something in the end,   *)
(* on small instances, in one run.  They are independent of one another: a *)
(* behaviour is one of the component named by subject, the others stay as  *)
(* they start.                                                             *)
(***************************************************************************)
EXTENDS Canary, ProcessWatch, Persistence, Connections, Watchers, Schedules, NameResolver,
        DropWatch, Sandbox

VARIABLE subject

Subjects == {"canary", "process", "kill", "autorun", "connection", "backend", "schedule", "resolver",
             "drop", "sandbox"}

WatchSpecInit ==
  /\ subject \in Subjects
  /\ CanaryInit /\ WatchInit /\ AutorunInit /\ ConnInit /\ WatchersInit /\ JobInit /\ ResolverInit
  /\ DropInit /\ SandboxInit
  /\ subject # "backend" => vMode = "rdcw" /\ vCwd = 0
  /\ subject \notin {"process", "kill"} => wHost = "linux"
  /\ subject # "schedule" => tKind = "thread"
  /\ subject # "drop" => xKind = "usb"

Others(s) ==
  /\ subject = s /\ UNCHANGED subject
  /\ s # "canary" => UNCHANGED canaryVars
  /\ s \notin {"process", "kill"} => UNCHANGED watchVars
  /\ s # "autorun" => UNCHANGED autorunVars
  /\ s # "connection" => UNCHANGED connVars
  /\ s # "backend" => UNCHANGED watchersVars
  /\ s # "schedule" => UNCHANGED jobVars
  /\ s # "resolver" => UNCHANGED resolverVars
  /\ s # "drop" => UNCHANGED dropVars
  /\ s # "sandbox" => UNCHANGED sandboxVars

WatchSpecNext ==
  \/ Others("canary") /\ CanaryNext
  \/ Others("process") /\ WatchNext
  \/ Others("kill") /\ KillNext
  \/ Others("autorun") /\ AutorunNext
  \/ Others("connection") /\ ConnNext
  \/ Others("backend") /\ WatchersNext
  \/ Others("schedule") /\ JobNext
  \/ Others("resolver") /\ ResolverNext
  \/ Others("drop") /\ DropNext
  \/ Others("sandbox") /\ SandboxNext

hostVars == <<subject, canaryVars, watchVars, autorunVars, connVars, watchersVars, jobVars, resolverVars,
              dropVars, sandboxVars>>

(* The threads keep running: the canary loops of both processes, the       *)
(* process poll, the scans of the registrations, the connection poll and   *)
(* its clock, the backend's thread, its owner and the kernel, the          *)
(* scheduler's thread, the caller that decodes a name, the poll for media  *)
(* and downloads, an analysis and its clock.  A behaviour has one subject, *)
(* so one formula states the fairness of one thread of each.               *)
(* On Linux the process poll ever again lists the processes correctly.     *)
ThreadStep(t) ==
  \/ Others("canary") /\ t \in CanaryProcs /\ CheckLoop(t)
  \/ Others("process") /\ t = 1 /\ Snapshot
  \/ Others("autorun") /\ t \in LoopIds /\ AutorunLoop(t)
  \/ Others("connection") /\ t = 1 /\ MonitorScan
  \/ Others("connection") /\ t = 2 /\ Elapse
  \/ Others("backend") /\ t = 1 /\ LoopStep
  \/ Others("backend") /\ t = 2 /\ StopStep
  \/ Others("backend") /\ t = 3 /\ Completes
  \/ Others("schedule") /\ t \in JobLoops /\ ThreadTurn(t)
  \/ Others("resolver") /\ t = 1 /\ Decode
  \/ Others("drop") /\ t = 1 /\ DropLoop
  \/ Others("sandbox") /\ t = 1 /\ SandboxStep
  \/ Others("sandbox") /\ t = 2 /\ TimePasses

Spec ==
  /\ WatchSpecInit /\ [][WatchSpecNext]_hostVars
  /\ \A t \in 1..3 : WF_hostVars(ThreadStep(t))
  /\ SF_hostVars(Others("process") /\ ListPids(Alive))

TypeOK ==
  /\ CanaryTypeOK /\ WatchTypeOK /\ AutorunTypeOK /\ ConnTypeOK /\ WatchersTypeOK
  /\ JobTypeOK /\ ResolverTypeOK /\ DropTypeOK /\ SandboxTypeOK

(* What is answered is true: an alarm names a canary that was touched or   *)
(* could not be read, a kill record (of signals) a process that is gone, a *)
(* cached address its provider and lifetime, a successful uninstall a      *)
(* schedule that does not come back, and an analysis that copied its       *)
(* sample leaves no directory it did not try to remove.                    *)
AnswersAreTrue ==
  /\ CanaryAlarmsAreEarned
  /\ KilledIsGone
  /\ CachedAnswersAreGood
  /\ RemovedStaysRemoved
  /\ SandboxIsLeftClean

(* What deserves a report gets one: a disturbed canary, on Linux a process *)
(* with an attack tool's name, a suspicious command under a Run key that   *)
(* did not replace another, a connection to a blocked host, a ripe         *)
(* download at a place not looked at before (canary, process, key,         *)
(* connection and download number k), unless it goes away first or nothing *)
(* watches it any more; interleavings with other commands, exceptions in   *)
(* callbacks, unreadable entries and restarts of the threads only delay it.*)
Overdue(k) ==
  CASE subject = "canary" -> CanaryOverdue(k)
    [] subject = "process" -> ToolOverdue(k)
    [] subject = "autorun" -> AutorunOverdue(k)
    [] subject = "connection" -> ConnectionOverdue(k)
    [] subject = "drop" -> DropOverdue(k)
    [] OTHER -> FALSE

(* A change the kernel hands out under its own name is scanned after it    *)
(* was made, an open the driver asks about is answered or released even    *)
(* when stop() and the decision overlap, a due scan runs although an       *)
(* earlier one raised, every thread of a stopped scheduler ends, and       *)
(* reading a name ends whatever its pointers are.                          *)
Waiting(k) ==
  CASE subject = "backend" /\ vMode # "port" -> ChangeOverdue(k)
    [] subject = "backend" /\ vMode = "port" -> OpenOverdue
    [] subject = "schedule" -> IF k = 1 THEN ScanOverdue ELSE LoopOverdue
    [] subject = "resolver" -> DecodingGoesOn
    [] subject = "sandbox" -> AnalysisGoesOn
    [] OTHER -> FALSE
WorkIsFinished == \A k \in {1, 2} : Waiting(k) ~> ~Waiting(k)

(* "Cross-platform process monitoring that tracks new process creation"    *)
(* (behavioral/process_monitor.py:3): on every platform a process with an  *)
(* attack tool's name is reported, unless it was not readable or ends.     *)
ToolWaits(i) == subject = "process" /\ ToolUnreported(i)
ProcessesAreTracked == \A i \in 1..MaxBirths : ToolWaits(i) ~> ~ToolWaits(i)
=============================================================================
