---------------------------- MODULE RansomDetect ----------------------------
(***************************************************************************)
(* The activity detectors of aegorx/ransomware.py: threads of the realtime *)
(* monitor report modified, renamed and new files to one                   *)
(* RansomwareDetector.  VelocityDetector and ExtensionMonitor count what   *)
(* happened in a sliding window; the time is taken before the lock, so     *)
(* records can be appended out of order.  Times are kept as ages.  The two *)
(* windows share no state and have the same code: a behaviour has one of   *)
(* them, chosen at the start.                                              *)
(***************************************************************************)
EXTENDS Integers, Sequences, SequencesExt, FiniteSets

CONSTANTS RansomThreads,   \* threads that report
          Window,          \* window_seconds
          Threshold,       \* detector -> threshold
          MaxRecords,      \* bound: records of one window
          MaxEvents        \* the 1000 events that are kept

VARIABLES rKind,       \* which detector this behaviour is about
          rEntropy,    \* entropy of the watched file in tenths of a bit
          rBaseline,   \* EntropyDetector._baselines of that file, 0 if none
          rDeque,      \* _modifications or _renames: ages, head first
          rRecent,     \* history: ages of all records of the last window
          rCall,       \* thread -> the call under way
          rLast,       \* history: whether the last record raised an alarm
          rEvents      \* length of _events

ransomVars == <<rKind, rEntropy, rBaseline, rDeque, rRecent, rCall, rLast, rEvents>>

Detectors == {"velocity", "extension"}
ASSUME RansomAssumption ==
  Window \in Nat /\ MaxEvents \in Nat /\ Threshold \in [Detectors -> Nat \ {0}]
LowEntropy == 45
HighEntropy == 78
MinEntropy == 65
SpikeThreshold == 20
RansomIdle == [pc |-> "idle", age |-> 0]

RansomInit ==
  /\ rKind \in Detectors
  /\ rEntropy = LowEntropy /\ rBaseline = 0
  /\ rDeque = <<>> /\ rRecent = <<>> /\ rLast = FALSE /\ rEvents = 0
  /\ rCall = [t \in RansomThreads |-> RansomIdle]

RansomTypeOK ==
  /\ rKind \in Detectors /\ rEntropy \in {LowEntropy, HighEntropy}
  /\ rBaseline \in {0, HighEntropy}
  /\ rDeque \in Seq(Nat) /\ rRecent \in Seq(0..Window)
  /\ \A t \in RansomThreads : rCall[t].pc \in {"idle", "stamped", "entropy", "event"}
  /\ rEvents \in 0..MaxEvents

(* A second passes, also for a stamp that was taken and not yet appended;  *)
(* no call takes longer than a window.  Within: those of the last window.  *)
OneOlder(ages) == [i \in DOMAIN ages |-> ages[i] + 1]
Within(ages) ==
  LET upTo[n \in 0..Len(ages)] ==
        IF n = 0 THEN <<>>
        ELSE IF ages[n] <= Window THEN Append(upTo[n - 1], ages[n]) ELSE upTo[n - 1]
  IN  upTo[Len(ages)]
SecondPasses ==
  /\ rDeque # <<>> \/ \E t \in RansomThreads : rCall[t].pc = "stamped"
  /\ \A t \in RansomThreads : rCall[t].pc = "stamped" => rCall[t].age < Window
  /\ \A i \in DOMAIN rDeque : rDeque[i] <= 2 * Window
  /\ rDeque' = OneOlder(rDeque)
  /\ rRecent' = Within(OneOlder(rRecent))
  /\ rCall' = [t \in RansomThreads |->
       IF rCall[t].pc = "stamped" THEN [rCall[t] EXCEPT !.age = @ + 1] ELSE rCall[t]]
  /\ UNCHANGED <<rKind, rEntropy, rBaseline, rLast, rEvents>>

\* External: the watched file is rewritten, encrypted or restored.
Rewrite ==
  /\ rKind = "velocity"
  /\ rEntropy' = IF rEntropy = LowEntropy THEN HighEntropy ELSE LowEntropy
  /\ UNCHANGED <<rKind, rBaseline, rDeque, rRecent, rCall, rLast, rEvents>>

(* on_file_modified, or on_file_renamed to an extension of the list: the   *)
(* time is taken, then the lock of the window.                             *)
TakeStamp(t) ==
  /\ rCall[t].pc = "idle" /\ Len(rDeque) < MaxRecords
  /\ rCall' = [rCall EXCEPT ![t] = [pc |-> "stamped", age |-> 0]]
  /\ UNCHANGED <<rKind, rEntropy, rBaseline, rDeque, rRecent, rLast, rEvents>>

\* Seeded fault: the tail is looked at instead of the head.
BugPruned(ages, own) == SelectSeq(ages, LAMBDA a : a < own + Window)

\* The head is dropped while it is older than this call's own cutoff.
Pruned(ages, own) ==
  LET keep == {i \in DOMAIN ages : ages[i] <= own + Window} IN
  IF keep = {} THEN <<>> ELSE SubSeq(ages, Min(keep), Len(ages))

RecordChange(t) ==
  /\ rCall[t].pc = "stamped"
  /\ LET own == rCall[t].age
         deque == Pruned(Append(rDeque, own), own)
         hit == Len(deque) >= Threshold[rKind]
     IN /\ rDeque' = deque
        /\ rRecent' = Append(rRecent, own)
        /\ rLast' = hit
        /\ rCall' = [rCall EXCEPT ![t] = [pc |-> IF hit THEN "event"
             ELSE IF rKind = "velocity" THEN "entropy" ELSE "idle", age |-> 0]]
  /\ UNCHANGED <<rKind, rEntropy, rBaseline, rEvents>>

(* EntropyDetector.check, reached while the velocity is not exceeded: a    *)
(* low entropy returns at once, and only a high one becomes a baseline.    *)
CheckEntropy(t) ==
  /\ rCall[t].pc = "entropy"
  /\ LET low == rEntropy < MinEntropy
         spike == ~low /\ rBaseline # 0 /\ rEntropy - rBaseline >= SpikeThreshold
     IN /\ rBaseline' = IF ~low /\ rBaseline = 0 THEN rEntropy ELSE rBaseline
        /\ rCall' = [rCall EXCEPT ![t].pc = IF spike THEN "event" ELSE "idle"]
  /\ UNCHANGED <<rKind, rEntropy, rDeque, rRecent, rLast, rEvents>>

\* on_new_file: a name of the ransom note list is an event at once.
RansomNote(t) ==
  /\ rCall[t].pc = "idle"
  /\ rCall' = [rCall EXCEPT ![t].pc = "event"]
  /\ UNCHANGED <<rKind, rEntropy, rBaseline, rDeque, rRecent, rLast, rEvents>>

\* _record_event keeps the newest events.
RecordEvent(t) ==
  /\ rCall[t].pc = "event"
  /\ rEvents' = Min({rEvents + 1, MaxEvents})
  /\ rCall' = [rCall EXCEPT ![t] = RansomIdle]
  /\ UNCHANGED <<rKind, rEntropy, rBaseline, rDeque, rRecent, rLast>>

RansomNext ==
  \/ SecondPasses \/ Rewrite
  \/ \E t \in RansomThreads :
       TakeStamp(t) \/ RecordChange(t) \/ CheckEntropy(t) \/ RansomNote(t) \/ RecordEvent(t)

-----------------------------------------------------------------------------
(* A burst is not undercounted (record): while as many records as the      *)
(* threshold were stamped within the last window, the record appended last *)
(* raised an alarm, although threads stamp before they lock and each       *)
(* prunes with a cutoff of its own.                                        *)
BurstIsReported == Len(rRecent) >= Threshold[rKind] => rLast
=============================================================================
