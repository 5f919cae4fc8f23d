------------------------------ MODULE OnAccess ------------------------------
(****************************************************************************)
(* Blocking mode of the realtime monitor: the kernel holds every open of a  *)
(* marked file until the reader thread of fanotify_backend.py has answered; *)
(* the reader decides through RealTimeMonitor._decide_open and the engine.  *)
(* A heartbeat thread (shield.py) and the watchdog command look after it.   *)
(*                                                                          *)
(* The threads of the monitor open files like everybody else, and the       *)
(* kernel holds those opens, too.                                           *)
(****************************************************************************)
EXTENDS Naturals, Sequences

CONSTANTS
  Apps, Files,
  Bad,          \* files the engine finds malicious
  Nothing

Self == {"reader", "heartbeat"}
Openers == Apps \cup Self \cup {"watchdog"}

VARIABLES
  wholeMount,  \* whether `/` is marked, as the service does, or a directory
  opening,     \* the marked file each opener waits for, or Nothing
  denied,      \* openers whose last open was denied
  queue,       \* permission events not yet read
  rpc, event,  \* the reader and the opener whose event it handles
  known,       \* files with a result in the engine's cache
  fresh        \* whether the heartbeat is younger than 90 seconds

vars == <<wholeMount, opening, denied, queue, rpc, event, known, fresh>>

Init ==
  /\ wholeMount \in BOOLEAN
  /\ opening = [o \in Openers |-> Nothing] /\ denied = {}
  /\ queue = <<>> /\ rpc = "wait" /\ event = Nothing
  /\ known = {} /\ fresh = TRUE

Blocked(o) == opening[o] # Nothing

\* The kernel holds the open and queues an event.
Ask(o, f) ==
  /\ opening' = [opening EXCEPT ![o] = f]
  /\ queue' = Append(queue, o)

OpenFile(a, f) ==
  /\ ~Blocked(a)
  /\ Ask(a, f)
  /\ denied' = denied \ {a}
  /\ UNCHANGED <<wholeMount, rpc, event, known, fresh>>

----------------------------------------------------------------------------
(* The reader thread.                                                       *)

Answer(o, allowed) ==
  /\ opening' = [opening EXCEPT ![o] = Nothing]
  /\ denied' = IF allowed THEN denied \ {o} ELSE denied \cup {o}
  /\ rpc' = "wait" /\ event' = Nothing

\* An open of the monitor itself is allowed without a scan.
AnswerSelf ==
  /\ rpc = "wait" /\ queue # <<>> /\ Head(queue) \in Self
  /\ Answer(Head(queue), TRUE)
  /\ queue' = Tail(queue)
  /\ UNCHANGED <<wholeMount, known, fresh>>

TakeEvent ==
  /\ rpc = "wait" /\ queue # <<>> /\ Head(queue) \notin Self
  /\ event' = Head(queue) /\ queue' = Tail(queue)
  /\ rpc' = "decide"
  /\ UNCHANGED <<wholeMount, opening, denied, known, fresh>>

\* scan_file(event.path): a cached result needs no more than a stat ...
DecideCached ==
  /\ rpc = "decide" /\ opening[event] \in known
  /\ Answer(event, opening[event] \notin Bad)
  /\ UNCHANGED <<wholeMount, queue, known, fresh>>

\* ... otherwise the path is opened to be hashed; the descriptor the kernel
\* has handed out is not used.
ReopenPath ==
  /\ rpc = "decide" /\ opening[event] \notin known
  /\ Ask("reader", opening[event])
  /\ rpc' = "scan"
  /\ UNCHANGED <<wholeMount, denied, event, known, fresh>>

DecideScanned ==
  /\ rpc = "scan" /\ ~Blocked("reader")
  /\ known' = known \cup {opening[event]}
  /\ Answer(event, opening[event] \notin Bad)
  /\ UNCHANGED <<wholeMount, queue, fresh>>

Reader == AnswerSelf \/ TakeEvent \/ DecideCached \/ ReopenPath
          \/ DecideScanned

----------------------------------------------------------------------------
(* Heartbeat and watchdog.  Under the mark on `/` the files they open are   *)
(* marked, too; which ones does not matter.                                 *)

SomeFile == CHOOSE f \in Files \ Bad : TRUE

\* The heartbeat file is written every 30 seconds, by a thread of its own.
Beat ==
  /\ ~Blocked("heartbeat")
  /\ fresh' = TRUE
  /\ IF wholeMount THEN Ask("heartbeat", SomeFile)
     ELSE UNCHANGED <<opening, queue>>
  /\ UNCHANGED <<wholeMount, denied, rpc, event, known>>

\* Only a heartbeat thread that is held for long lets the file grow old.
GrowOld ==
  /\ Blocked("heartbeat")
  /\ fresh' = FALSE
  /\ UNCHANGED <<wholeMount, opening, denied, queue, rpc, event, known>>

\* The timer starts `aegorx watchdog`, which has to be opened to be run.
StartWatchdog ==
  /\ wholeMount /\ ~Blocked("watchdog")
  /\ Ask("watchdog", SomeFile)
  /\ UNCHANGED <<wholeMount, denied, rpc, event, known, fresh>>

\* A stale heartbeat restarts the service; when the old process dies, the
\* kernel lets everybody through.
Restart ==
  /\ ~fresh /\ ~Blocked("watchdog")
  /\ opening' = [o \in Openers |-> Nothing] /\ denied' = {}
  /\ queue' = <<>> /\ rpc' = "wait" /\ event' = Nothing
  /\ known' = {} /\ fresh' = TRUE
  /\ UNCHANGED wholeMount

Next ==
  \/ \E a \in Apps, f \in Files : OpenFile(a, f)
  \/ Reader \/ Beat \/ GrowOld \/ StartWatchdog \/ Restart

\* Every thread of the monitor runs when it can, the timer fires and the
\* watchdog restarts what it finds stale.
Spec == Init /\ [][Next]_vars /\ WF_vars(Reader) /\ WF_vars(Beat)
        /\ WF_vars(GrowOld) /\ SF_vars(Restart)

----------------------------------------------------------------------------
(* Properties.                                                              *)

\* docs/OPERATIONS.md:263 "opens of marked files block until the engine
\* decides": the engine, or the restart the watchdog makes of a wedged one,
\* ends every wait of a program.
OpenIsAnswered == \A a \in Apps : Blocked(a) ~> ~Blocked(a)
=============================================================================
