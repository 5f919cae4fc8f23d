------------------------------ MODULE Watchers ------------------------------
(***************************************************************************)
(* The realtime backends of Windows and macOS                              *)
(* (aegorx/realtime/fswatch_backend.py, minifilter_backend.py).  "rdcw":   *)
(* one thread waits for the ReadDirectoryChangesW buffers of every watched *)
(* directory.  "fsevents": a run loop thread gets batches from one stream. *)
(* "port": one thread answers the opens a minifilter driver asks about.    *)
(* The owner, a RealTimeMonitor, starts the backend, and stops it once; it *)
(* scans the file an event names, and drops an event that names none.      *)
(***************************************************************************)
EXTENDS Integers, Sequences, SequencesExt, FiniteSets

CONSTANTS WatchDirs,      \* 1..n, in the order of the handle array
          WatchFiles,     \* files of every directory
          Openers,        \* programs that open files while the driver is loaded
          KernelMax,      \* changes the kernel keeps for one handle
          MaxChanges      \* bound: changes and opens

ASSUME WatchersAssumption ==
  WatchDirs \subseteq Nat /\ (WatchDirs # {} => 1 \in WatchDirs) /\ KernelMax \in Nat

VARIABLES vMode,     \* which backend
          vCwd,      \* the watched directory the process runs in, 0 for none of them
          vOwner,    \* the monitor: "new", "on", then the steps of stop()
          vStop,     \* _stop_evt
          vLoop,     \* [pc, dir, todo] of the backend thread
          vAsked,    \* directories with a read (or a stream) that can complete
          vDone,     \* directories whose event is signalled
          vKernel,   \* directory -> changes the kernel has not handed out
          vBuf,      \* directory -> what the last completion left in the buffer
          vDirty,    \* history: <<dir, file>> changed and not scanned since
          vLost,     \* history: directories of which the kernel dropped changes
          vOpens,    \* opener -> "none", "asked", "allowed", "denied", "released"
          vChanges   \* number of changes and opens

watchersVars == <<vMode, vCwd, vOwner, vStop, vLoop, vAsked, vDone, vKernel, vBuf, vDirty, vLost,
                  vOpens, vChanges>>

Modes == {"rdcw", "fsevents", "port"}
Sources == IF vMode = "fsevents" THEN {1} ELSE WatchDirs
SourceOf(d) == IF vMode = "fsevents" THEN 1 ELSE d
LoopAt(pc) == [pc |-> pc, dir |-> 1, todo |-> <<>>]

WatchersInit ==
  /\ vMode \in Modes /\ vCwd \in {0} \cup WatchDirs
  /\ vOwner = "new" /\ vStop = FALSE /\ vLoop = LoopAt("none")
  /\ vAsked = {} /\ vDone = {} /\ vDirty = {} /\ vLost = {} /\ vChanges = 0
  /\ vKernel = [d \in WatchDirs |-> <<>>] /\ vBuf = [d \in WatchDirs |-> <<>>]
  /\ vOpens = [p \in Openers |-> "none"]

WatchersTypeOK ==
  /\ vMode \in Modes /\ vCwd \in {0} \cup WatchDirs
  /\ vOwner \in {"new", "on", "join", "close", "off"} /\ vStop \in BOOLEAN
  /\ vLoop.pc \in {"none", "read", "wait", "handle", "reissue", "decide", "gone"}
  /\ vAsked \subseteq WatchDirs /\ vDone \subseteq WatchDirs /\ vLost \subseteq WatchDirs
  /\ vMode = "rdcw" => \A d \in WatchDirs : Len(vKernel[d]) <= KernelMax
  /\ vDirty \subseteq WatchDirs \X WatchFiles

(* start(): what cannot be opened is skipped, and with nothing left to     *)
(* watch the stop event is set; a driver that is not loaded means rdcw.    *)
StartBackend(watched) ==
  /\ vOwner = "new"
  /\ vOwner' = "on"
  /\ vStop' = (watched = {} /\ vMode # "port")
  /\ vLoop' = LoopAt(IF vStop' THEN "gone" ELSE IF vMode = "rdcw" THEN "read" ELSE "wait")
  /\ vAsked' = IF vMode = "fsevents" /\ ~vStop' THEN {1} ELSE {}
  /\ UNCHANGED <<vMode, vCwd, vDone, vKernel, vBuf, vDirty, vLost, vOpens, vChanges>>

DriverMissing ==
  /\ vOwner = "new" /\ vMode = "port" /\ vMode' = "rdcw"
  /\ UNCHANGED <<vCwd, vOwner, vStop, vLoop, vAsked, vDone, vKernel, vBuf, vDirty, vLost, vOpens, vChanges>>

(* External: a file of a watched directory changes.  A kernel buffer drops *)
(* everything when it is full, and completes the read with zero bytes; a   *)
(* stream drops what it likes, and sends an event without the flags of an  *)
(* item, which the callback skips.                                         *)
Drops(s) == IF vMode = "rdcw" THEN {Len(vKernel[s]) = KernelMax} ELSE BOOLEAN
FileChanges(d, f) ==
  /\ vOwner = "on" /\ ~vStop /\ vMode # "port" /\ vChanges < MaxChanges
  /\ vChanges' = vChanges + 1
  /\ LET s == SourceOf(d) IN
     \E full \in Drops(s) :
       /\ vKernel' = [vKernel EXCEPT ![s] = IF full THEN <<>>
                      ELSE IF Contains(@, <<d, f>>) THEN @ ELSE Append(@, <<d, f>>)]
       /\ vLost' = IF full THEN vLost \cup {e \in WatchDirs : SourceOf(e) = s} ELSE vLost
       /\ IF full /\ vMode = "rdcw"
          THEN vDone' = vDone \cup (vAsked \cap {s}) /\ vAsked' = vAsked \ {s}
          ELSE UNCHANGED <<vDone, vAsked>>
  /\ vDirty' = vDirty \cup {<<d, f>>}
  /\ UNCHANGED <<vMode, vCwd, vOwner, vStop, vLoop, vBuf, vOpens>>

\* External: a read completes with what the kernel has; a stream hands out a batch.
Complete(s) ==
  /\ s \in vAsked /\ vKernel[s] # <<>>
  /\ vMode = "fsevents" => vLoop.pc = "wait" /\ s \notin vDone
  /\ vBuf' = [vBuf EXCEPT ![s] = vKernel[s]] /\ vKernel' = [vKernel EXCEPT ![s] = <<>>]
  /\ vDone' = vDone \cup {s}
  /\ vAsked' = IF vMode = "rdcw" THEN vAsked \ {s} ELSE vAsked
  /\ UNCHANGED <<vMode, vCwd, vOwner, vStop, vLoop, vDirty, vLost, vOpens, vChanges>>

\* _monitor_loop: a read for every directory, then one wait for all of them.
FirstReads ==
  /\ vLoop.pc = "read"
  /\ vAsked' = WatchDirs /\ vLoop' = LoopAt("wait")
  /\ UNCHANGED <<vMode, vCwd, vOwner, vStop, vDone, vKernel, vBuf, vDirty, vLost, vOpens, vChanges>>

LoopEnds ==
  /\ vLoop.pc = "wait" /\ vStop
  /\ vLoop' = LoopAt("gone")
  /\ UNCHANGED <<vMode, vCwd, vOwner, vStop, vAsked, vDone, vKernel, vBuf, vDirty, vLost, vOpens, vChanges>>

\* The lowest signalled handle; the whole buffer is parsed, whatever the number of bytes.
Wakes(s) ==
  /\ vLoop.pc = "wait" /\ ~vStop /\ s \in vDone /\ \A o \in vDone : s <= o
  /\ vLoop' = [pc |-> "handle", dir |-> s, todo |-> vBuf[s]]
  /\ UNCHANGED <<vMode, vCwd, vOwner, vStop, vAsked, vDone, vKernel, vBuf, vDirty, vLost, vOpens, vChanges>>

(* One entry becomes a FileEvent; on_event may raise, which is swallowed.  *)
(* A notification names its file relative to the watched directory, and so *)
(* does the event: the monitor looks for it where the process runs.        *)
Named(entry) == IF vMode = "rdcw" THEN <<vCwd, entry[2]>> ELSE entry
Report ==
  /\ vLoop.pc = "handle" /\ vLoop.todo # <<>>
  /\ vDirty' = vDirty \ {Named(Head(vLoop.todo))}
  /\ vLoop' = [vLoop EXCEPT !.todo = Tail(@)]
  /\ UNCHANGED <<vMode, vCwd, vOwner, vStop, vAsked, vDone, vKernel, vBuf, vLost, vOpens, vChanges>>

\* The read is issued again, also for a directory that stop() has closed meanwhile.
Reissue ==
  /\ vLoop.pc = "handle" /\ vLoop.todo = <<>>
  /\ vDone' = vDone \ {vLoop.dir}
  /\ vAsked' = IF vOwner = "off" THEN vAsked ELSE vAsked \cup {vLoop.dir}
  /\ vLoop' = LoopAt("wait")
  /\ UNCHANGED <<vMode, vCwd, vOwner, vStop, vKernel, vBuf, vDirty, vLost, vOpens, vChanges>>

-----------------------------------------------------------------------------
\* External: a program opens a file and the driver holds it until there is a reply.
OpenAsked(p) ==
  /\ vMode = "port" /\ vOwner \in {"on", "join", "close"} /\ vOpens[p] # "asked" /\ vChanges < MaxChanges
  /\ vOpens' = [vOpens EXCEPT ![p] = "asked"] /\ vChanges' = vChanges + 1
  /\ UNCHANGED <<vMode, vCwd, vOwner, vStop, vLoop, vAsked, vDone, vKernel, vBuf, vDirty, vLost>>

GetMessage(p) ==
  /\ vMode = "port" /\ vLoop.pc = "wait" /\ ~vStop /\ vOpens[p] = "asked"
  /\ vLoop' = [pc |-> "decide", dir |-> 1, todo |-> <<p>>]
  /\ UNCHANGED <<vMode, vCwd, vOwner, vStop, vAsked, vDone, vKernel, vBuf, vDirty, vLost, vOpens, vChanges>>

(* decide() answers, or raises, which allows; a reply after the port was   *)
(* closed is not sent.                                                     *)
Reply(allowed) ==
  /\ vLoop.pc = "decide"
  /\ LET p == Head(vLoop.todo) IN
     vOpens' = IF vOwner = "off" \/ vOpens[p] # "asked" THEN vOpens
               ELSE [vOpens EXCEPT ![p] = IF allowed THEN "allowed" ELSE "denied"]
  /\ vLoop' = LoopAt("wait")
  /\ UNCHANGED <<vMode, vCwd, vOwner, vStop, vAsked, vDone, vKernel, vBuf, vDirty, vLost, vChanges>>

-----------------------------------------------------------------------------
\* stop(): set the event, cancel the reads, join for five seconds, close.
StopBackend ==
  /\ vOwner = "on"
  /\ vOwner' = "join" /\ vStop' = TRUE
  /\ vAsked' = {}
  /\ UNCHANGED <<vMode, vCwd, vLoop, vDone, vKernel, vBuf, vDirty, vLost, vOpens, vChanges>>

\* The thread ended, or the join timed out (a GetMessage is not interrupted).
Joined ==
  /\ vOwner = "join" /\ vLoop.pc \in {"gone", "wait", "handle", "decide"}
  /\ vOwner' = "close"
  /\ UNCHANGED <<vMode, vCwd, vStop, vLoop, vAsked, vDone, vKernel, vBuf, vDirty, vLost, vOpens, vChanges>>

\* Closing the port makes the driver let go of what it still holds.
CloseHandles ==
  /\ vOwner = "close"
  /\ vOwner' = "off"
  /\ vAsked' = {}
  /\ vOpens' = [p \in Openers |-> IF vOpens[p] = "asked" THEN "released" ELSE vOpens[p]]
  /\ UNCHANGED <<vMode, vCwd, vStop, vLoop, vDone, vKernel, vBuf, vDirty, vLost, vChanges>>

LoopStep ==
  \/ FirstReads \/ LoopEnds \/ Report \/ Reissue
  \/ \E s \in WatchDirs : Wakes(s)
  \/ \E p \in Openers : GetMessage(p)
  \/ \E allowed \in BOOLEAN : Reply(allowed)
StopStep == Joined \/ CloseHandles
Completes == \E s \in WatchDirs : Complete(s)

WatchersNext ==
  \/ \E watched \in {{}, WatchDirs} : StartBackend(watched)
  \/ DriverMissing \/ StopBackend \/ LoopStep \/ StopStep \/ Completes
  \/ \E d \in WatchDirs, f \in WatchFiles : FileChanges(d, f)
  \/ \E p \in Openers : OpenAsked(p)

-----------------------------------------------------------------------------
(* A change of a watched directory has not been scanned since it was made  *)
(* and was not among those the kernel dropped (on Windows: of the one the  *)
(* process runs in), or an open the driver asks about is neither answered  *)
(* nor let go of.                                                          *)
ChangeUnscanned(d) == ~vStop /\ \E f \in WatchFiles : <<d, f>> \in vDirty
ChangeOverdue(d) == d \notin vLost /\ (vMode = "rdcw" => d = vCwd) /\ ChangeUnscanned(d)
OpenOverdue == \E p \in Openers : vOpens[p] = "asked"

(* "Real-time protection uses `ReadDirectoryChangesW` for file-change      *)
(* detection and automatic quarantine." (docs/PLATFORMS.md:46): a change   *)
(* of any watched directory is scanned in the end.                         *)
ChangesAreScanned ==
  \A d \in WatchDirs : vMode = "rdcw" /\ ChangeUnscanned(d) ~> ~ChangeUnscanned(d)
=============================================================================
