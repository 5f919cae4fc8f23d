----------------------------- MODULE DropWatch ------------------------------
(***************************************************************************)
(* The two pollers for what arrives from outside: USBScanner               *)
(* (aegorx/usb_scanner.py), whose places are mount points, and             *)
(* BrowserDownloadMonitor (aegorx/browser_guard.py), whose places are      *)
(* names in a download directory.  Each hands what is new to a callback    *)
(* that scans it.  The commands of the CLI start one of them and stop it   *)
(* when they end; what comes and goes is numbered here, the code knows it  *)
(* by its place only.                                                      *)
(***************************************************************************)
EXTENDS Integers, FiniteSets

CONSTANTS DropPlaces,     \* mount points, or file names with a dangerous extension
          MaxDrops,       \* bound: arrivals
          MaxListFaults   \* bound: listings, and scans of downloads, that fail

ASSUME DropAssumption == MaxDrops \in Nat

VARIABLES xKind,      \* "usb" or "browser"
          xPlace,     \* place -> [id, ripe]: what is there, id 0 for nothing
          xDrops, xFaults,
          xPc,        \* the loop: "off", "wait", "check", "dead" (_thread is still set)
          xKnown,     \* _known_mounts
          xScanned,   \* _scanned, _scanned_files
          xTodo,      \* places the round has still to look at
          xReported   \* ids the callback has scanned

dropVars == <<xKind, xPlace, xDrops, xFaults, xPc, xKnown, xScanned, xTodo, xReported>>

NoDrop == [id |-> 0, ripe |-> FALSE]
Taken == {p \in DropPlaces : xPlace[p] # NoDrop}

DropInit ==
  /\ xKind \in {"usb", "browser"}
  /\ xPlace = [p \in DropPlaces |-> NoDrop] /\ xDrops = 0 /\ xFaults = 0
  /\ xPc = "off" /\ xKnown = {} /\ xScanned = {} /\ xTodo = {} /\ xReported = {}

DropTypeOK ==
  /\ xKind \in {"usb", "browser"} /\ xPc \in {"off", "wait", "check", "dead"}
  /\ \A p \in DropPlaces : xPlace[p] \in [id : 0..xDrops, ripe : BOOLEAN]
  /\ xKnown \cup xScanned \cup xTodo \subseteq DropPlaces /\ xReported \subseteq 1..MaxDrops

(* External: a medium is mounted, a download begins in an empty or partial *)
(* file and ripens (it is complete, and min_file_age old), either goes.    *)
Arrive(p) ==
  /\ xDrops < MaxDrops /\ xPlace[p] = NoDrop
  /\ xDrops' = xDrops + 1
  /\ xPlace' = [xPlace EXCEPT ![p] = [id |-> xDrops', ripe |-> xKind = "usb"]]
  /\ UNCHANGED <<xKind, xFaults, xPc, xKnown, xScanned, xTodo, xReported>>
Ripen(p) ==
  /\ xPlace[p] # NoDrop /\ ~xPlace[p].ripe
  /\ xPlace' = [xPlace EXCEPT ![p].ripe = TRUE]
  /\ UNCHANGED <<xKind, xDrops, xFaults, xPc, xKnown, xScanned, xTodo, xReported>>
Withdraw(p) ==
  /\ xPlace[p] # NoDrop
  /\ xPlace' = [xPlace EXCEPT ![p] = NoDrop]
  /\ UNCHANGED <<xKind, xDrops, xFaults, xPc, xKnown, xScanned, xTodo, xReported>>

\* _get_removable_mounts and os.scandir: an error is an empty answer.
Listing(seen) ==
  \/ seen = Taken /\ UNCHANGED xFaults
  \/ seen = {} /\ xFaults < MaxListFaults /\ xFaults' = xFaults + 1

\* start(): media that are mounted already are not scanned.
StartDrops(seen) ==
  /\ xPc = "off" /\ Listing(seen)
  /\ xPc' = "wait"
  /\ xKnown' = IF xKind = "usb" THEN seen ELSE {}
  /\ UNCHANGED <<xKind, xPlace, xDrops, xScanned, xTodo, xReported>>

\* The command ends: it calls stop(), and its thread and its sets go with it.
StopDrops ==
  /\ xPc # "off"
  /\ xPc' = "off" /\ xKnown' = {} /\ xScanned' = {} /\ xTodo' = {}
  /\ UNCHANGED <<xKind, xPlace, xDrops, xFaults, xReported>>

\* A round: the mounts that were not there at the last one, or every file.
ListDrops(seen) ==
  /\ xPc = "wait" /\ Listing(seen)
  /\ xPc' = "check"
  /\ xTodo' = seen \ xKnown
  /\ xKnown' = IF xKind = "usb" THEN seen ELSE {}
  /\ UNCHANGED <<xKind, xPlace, xDrops, xScanned, xReported>>

(* A place is looked at once, ever.  A download that is not ripe then is   *)
(* left alone.  An exception of the callback ends the thread; an OSError   *)
(* in the browser's ends the round only.  The command's callback for a     *)
(* medium calls a method ScanEngine does not have: it always raises.       *)
Wanted(p) == p \notin xScanned /\ (xKind = "usb" \/ xPlace[p].ripe)
CallbackRaises(raises) ==
  CASE xKind = "usb" -> raises /\ UNCHANGED xFaults
    [] xKind = "browser" /\ raises -> xFaults < MaxListFaults /\ xFaults' = xFaults + 1
    [] OTHER -> UNCHANGED xFaults
CheckDrop(p) ==
  /\ xPc = "check" /\ p \in xTodo
  /\ xScanned' = xScanned \cup {p}
  /\ IF Wanted(p)
     THEN \E raises \in BOOLEAN :
            /\ CallbackRaises(raises)
            /\ xReported' = IF raises THEN xReported ELSE xReported \cup ({xPlace[p].id} \ {0})
            /\ xPc' \in IF ~raises THEN {xPc} ELSE IF xKind = "usb" THEN {"dead"} ELSE {"dead", xPc}
            /\ xTodo' = IF raises THEN {} ELSE xTodo \ {p}
     ELSE xTodo' = xTodo \ {p} /\ UNCHANGED <<xPc, xReported, xFaults>>
  /\ UNCHANGED <<xKind, xPlace, xDrops, xKnown>>

EndRound ==
  /\ xPc = "check" /\ xTodo = {}
  /\ xPc' = "wait"
  /\ UNCHANGED <<xKind, xPlace, xDrops, xFaults, xKnown, xScanned, xTodo, xReported>>

\* scan_now() of a place, which the loop of the same object then leaves alone.
ScanDropNow(p) ==
  /\ xPc # "off" /\ p \in Taken \ xScanned
  /\ xScanned' = xScanned \cup {p}
  /\ \E raises \in BOOLEAN :
       /\ CallbackRaises(raises)
       /\ xReported' = IF raises THEN xReported ELSE xReported \cup {xPlace[p].id}
  /\ UNCHANGED <<xKind, xPlace, xDrops, xPc, xKnown, xTodo>>

DropLoop == (\E S \in SUBSET DropPlaces : ListDrops(S)) \/ (\E p \in DropPlaces : CheckDrop(p)) \/ EndRound
DropNext ==
  \/ DropLoop \/ StopDrops
  \/ \E S \in SUBSET DropPlaces : StartDrops(S)
  \/ \E p \in DropPlaces : Arrive(p) \/ Ripen(p) \/ Withdraw(p) \/ ScanDropNow(p)

-----------------------------------------------------------------------------
(* While the loop lives: a ripe download lies at a place that has never    *)
(* been looked at (_scanned_files).                                        *)
RipeDrop(k) == \E p \in DropPlaces : xPlace[p] = [id |-> k, ripe |-> TRUE] /\ p \notin xScanned
DropOverdue(k) == xKind = "browser" /\ xPc \in {"wait", "check"} /\ k \notin xReported /\ RipeDrop(k)

(* "Monitor browser download directories and scan new files."              *)
(* (browser_guard.py:105): a download that has become ripe is scanned,     *)
(* while the loop lives and the file is there.                             *)
DownloadWaits(k) ==
  /\ xKind = "browser" /\ xPc \in {"wait", "check"} /\ k \notin xReported
  /\ \E p \in DropPlaces : xPlace[p] = [id |-> k, ripe |-> TRUE]
DownloadsAreScanned == \A k \in 1..MaxDrops : DownloadWaits(k) ~> ~DownloadWaits(k)

(* "When a new mount is detected, the engine scans the entire mount point" *)
(* (usb_scanner.py:9): a medium the loop has seen arrive is scanned,       *)
(* unless it goes or the command ends.                                     *)
MediumFound(k) == xKind = "usb" /\ \E p \in xTodo : xPlace[p].id = k
MediumHandled(k) ==
  k \in xReported \/ xPc = "off" \/ \A p \in DropPlaces : xPlace[p].id # k
MediaAreScanned == \A k \in 1..MaxDrops : MediumFound(k) ~> MediumHandled(k)
=============================================================================
