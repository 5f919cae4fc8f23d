---------------------------- MODULE Persistence ----------------------------
(***************************************************************************)
(* The persistence detector (aegorx/behavioral/persistence.py): a thread   *)
(* scans the places where programs register themselves to be started and   *)
(* checks the command of every entry it has not seen.  Only the entries of *)
(* the Windows Run keys are recorded with a command; scheduled tasks,      *)
(* launch agents, services, cron and init files are recorded without one.  *)
(***************************************************************************)
EXTENDS Integers, FiniteSets

CONSTANTS RunValues,      \* names of values of the Run keys
          OtherEntries,   \* the entries of the other mechanisms
          MaxEdits,       \* bound: registrations added, changed or removed
          MaxScanErrors   \* bound: scans that raise

VARIABLES sEntries,   \* entry -> "none", "good" or "bad" command
          sKnown,     \* _known_entries
          sRunning,   \* _running
          sLoops,     \* loop threads -> program counter; two after a quick restart
          sTodo,      \* loop thread -> entries its scan has still to visit
          sReported,  \* entries reported with a suspicious command
          sMissed,    \* history: entries whose key was known when the command came
          sEdits, sErrors

autorunVars == <<sEntries, sKnown, sRunning, sLoops, sTodo, sReported, sMissed, sEdits, sErrors>>
Autoruns == RunValues \cup OtherEntries
LoopIds == {1, 2}

AutorunInit ==
  /\ sEntries = [e \in Autoruns |-> "none"]
  /\ sKnown = {} /\ sReported = {} /\ sMissed = {}
  /\ sRunning = FALSE
  /\ sLoops = [l \in LoopIds |-> "none"] /\ sTodo = [l \in LoopIds |-> {}]
  /\ sEdits = 0 /\ sErrors = 0

AutorunTypeOK ==
  /\ sEntries \in [Autoruns -> {"none", "good", "bad"}]
  /\ sKnown \cup sReported \cup sMissed \subseteq Autoruns
  /\ sLoops \in [LoopIds -> {"none", "baseline", "sleep", "scan"}]
  /\ \A l \in LoopIds : sTodo[l] \subseteq Autoruns

(* External: a program registers itself, or changes its registration.      *)
EditAutorun(e) ==
  /\ sEdits < MaxEdits /\ sEdits' = sEdits + 1
  /\ \E c \in {"none", "good", "bad"} \ {sEntries[e]} :
       /\ sEntries' = [sEntries EXCEPT ![e] = c]
       /\ sMissed' = IF c = "bad" /\ e \in sKnown THEN sMissed \cup {e} ELSE sMissed
  /\ UNCHANGED <<sKnown, sRunning, sLoops, sTodo, sReported, sErrors>>

\* start: the flag alone decides; a loop that has not seen stop goes on.
StartAutorunWatch ==
  /\ ~sRunning /\ sRunning' = TRUE
  /\ \E l \in LoopIds :
       /\ sLoops[l] = "none"
       /\ sLoops' = [sLoops EXCEPT ![l] = "baseline"]
       /\ sTodo' = [sTodo EXCEPT ![l] = Autoruns]
  /\ UNCHANGED <<sEntries, sKnown, sReported, sMissed, sEdits, sErrors>>

\* stop: the join gives up after five seconds of a thirty-second sleep.
StopAutorunWatch ==
  /\ sRunning /\ sRunning' = FALSE
  /\ UNCHANGED <<sEntries, sKnown, sLoops, sTodo, sReported, sMissed, sEdits, sErrors>>

(* One entry of a scan: a new key is recorded, and its command checked     *)
(* where the mechanism gives one.                                          *)
HasCommand(e) == e \in RunValues

VisitAutorun(l, e) ==
  /\ sLoops[l] \in {"baseline", "scan"} /\ e \in sTodo[l]
  /\ sTodo' = [sTodo EXCEPT ![l] = @ \ {e}]
  /\ LET new == sEntries[e] # "none" /\ e \notin sKnown IN
     /\ sKnown' = IF new THEN sKnown \cup {e} ELSE sKnown
     /\ sReported' = IF new /\ HasCommand(e) /\ sEntries[e] = "bad"
                     THEN sReported \cup {e} ELSE sReported
  /\ UNCHANGED <<sEntries, sRunning, sLoops, sMissed, sEdits, sErrors>>

EndScan(l) ==
  /\ sLoops[l] \in {"baseline", "scan"} /\ sTodo[l] = {}
  /\ sLoops' = [sLoops EXCEPT ![l] = IF sRunning THEN "sleep" ELSE "none"]
  /\ UNCHANGED <<sEntries, sKnown, sRunning, sTodo, sReported, sMissed, sEdits, sErrors>>

(* An exception: the baseline scan is outside the try and ends the thread, *)
(* with the flag still set; a later scan is given up.                      *)
ScanRaises(l) ==
  /\ sErrors < MaxScanErrors /\ sErrors' = sErrors + 1
  /\ sLoops[l] \in {"baseline", "scan"}
  /\ sLoops' = [sLoops EXCEPT ![l] =
       IF @ = "scan" /\ sRunning THEN "sleep" ELSE "none"]
  /\ sTodo' = [sTodo EXCEPT ![l] = {}]
  /\ UNCHANGED <<sEntries, sKnown, sRunning, sReported, sMissed, sEdits>>

(* The sleep ends in a scan even when stop was called during it.           *)
NextScan(l) ==
  /\ sLoops[l] = "sleep"
  /\ sLoops' = [sLoops EXCEPT ![l] = "scan"]
  /\ sTodo' = [sTodo EXCEPT ![l] = Autoruns]
  /\ UNCHANGED <<sEntries, sKnown, sRunning, sReported, sMissed, sEdits, sErrors>>

AutorunLoop(l) == NextScan(l) \/ EndScan(l) \/ (\E e \in Autoruns : VisitAutorun(l, e))
AutorunNext ==
  \/ StartAutorunWatch \/ StopAutorunWatch
  \/ \E e \in Autoruns : EditAutorun(e)
  \/ \E l \in LoopIds : AutorunLoop(l) \/ ScanRaises(l)

-----------------------------------------------------------------------------
(* While a loop lives: a suspicious command under a Run key has not been   *)
(* reported yet, and its key was not known before the command came         *)
(* (_check_persistence sees an entry once).                                *)
AutorunOverdue(e) ==
  /\ sRunning /\ \E l \in LoopIds : sLoops[l] # "none"
  /\ e \in RunValues /\ sEntries[e] = "bad" /\ e \notin sReported \cup sMissed
=============================================================================
