------------------------------ MODULE AuditLog -------------------------------
(****************************************************************************)
(* The hash-chained audit log and its verifier (class AuditLog and          *)
(* verify_audit_log in aegorx/realtime/monitor.py).                         *)
(*                                                                          *)
(* write() holds a lock from the sequence number to the append, so one call *)
(* is under way at a time; a kill may hit it between any two file           *)
(* operations of the rotation.  Hashes do not collide: the hash of a record *)
(* is the number of the write that made it, 0 being the empty hash.         *)
(****************************************************************************)
EXTENDS Naturals, Sequences, SequencesExt

CONSTANTS
  Backups,      \* rotated segments kept (3 in the code)
  MaxLines,     \* size at which the active segment rotates (max_bytes)
  MaxWrites,    \* bound: calls of write()
  MaxKills,     \* bound: killed and restarted writers
  MaxFaults     \* bound: failing file operations

ASSUME AuditAssumption ==
  /\ Backups \in Nat \ {0} /\ MaxLines \in Nat \ {0}
  /\ MaxWrites \in Nat /\ MaxKills \in Nat /\ MaxFaults \in Nat

VARIABLES
  active,    \* the lines of the file at path
  present,   \* whether that file exists
  segment,   \* the lines of path.1 .. path.Backups
  seq, prev, \* self._seq, self._prev_hash
  pc, cur,   \* the write under way and its record
  k,         \* the segment its rotation moves next
  written,   \* history: records whose write() returned
  calls, kills, faults

vars == <<active, present, segment, seq, prev, pc, cur, k, written, calls,
          kills, faults>>

Line(h, s, p) == [torn |-> FALSE, hash |-> h, seq |-> s, prev |-> p]
TornLine == [torn |-> TRUE, hash |-> 0, seq |-> 0, prev |-> 0]
NoLine == Line(0, 0, 0)

Init ==
  /\ active = <<>> /\ present = FALSE
  /\ segment = [i \in 1..Backups |-> <<>>]
  /\ seq = 0 /\ prev = 0
  /\ pc = "idle" /\ cur = NoLine /\ k = 0
  /\ written = <<>>
  /\ calls = 0 /\ kills = 0 /\ faults = 0

----------------------------------------------------------------------------
(* Reading the log.                                                         *)

\* Every retained line, oldest segment first, the active one last.
AllLines ==
  FlattenSeq([i \in 1..Backups + 1 |->
                IF i <= Backups THEN segment[Backups + 1 - i] ELSE active])

\* Seeded fault: the lines are decoded, their links are not compared.
BugLinksIgnored(lines) == \A n \in DOMAIN lines : ~lines[n].torn

\* verify_audit_log: every line decodes and, after the first retained record,
\* links to the one before it.
Verifies(lines) ==
  /\ \A n \in DOMAIN lines : ~lines[n].torn
  /\ \A n \in DOMAIN lines \ {1} :
       /\ lines[n].prev = lines[n - 1].hash
       /\ lines[n].seq = lines[n - 1].seq + 1

\* The sequence number a successful verification reports.
LastSeq(lines) == IF lines = <<>> THEN 0 ELSE lines[Len(lines)].seq

\* Seeded fault: only the active file is read on start.
BugLoadActive ==
  LET whole == {n \in DOMAIN active : ~active[n].torn}
  IN  IF whole = {} THEN NoLine
      ELSE active[CHOOSE n \in whole :
                    \A m \in whole : active[m].seq <= active[n].seq]

\* Seeded fault: the next number is loaded instead of the last one.
BugLoadNext ==
  LET best == CHOOSE n \in DOMAIN AllLines :
                \A m \in DOMAIN AllLines : AllLines[m].seq <= AllLines[n].seq
  IN  IF AllLines = <<>> THEN NoLine
      ELSE [AllLines[best] EXCEPT !.seq = @ + 1]

\* _load_chain_state: the record of highest number anywhere.
Loaded ==
  LET whole == {n \in DOMAIN AllLines : ~AllLines[n].torn}
  IN  IF whole = {} THEN NoLine
      ELSE AllLines[CHOOSE n \in whole :
                      \A m \in whole : AllLines[m].seq <= AllLines[n].seq]

\* An unterminated last line swallows what is appended to it.
Appended(lines, line) ==
  IF lines # <<>> /\ lines[Len(lines)].torn
  THEN lines ELSE Append(lines, line)

----------------------------------------------------------------------------
(* write().                                                                 *)

\* The number is taken and the record hashed before anything is written; the
\* log rotates when it is full, and also when the active file is missing.
Begin ==
  /\ pc = "idle" /\ calls < MaxWrites
  /\ calls' = calls + 1
  /\ seq' = seq + 1
  /\ cur' = Line(calls + 1, seq + 1, prev)
  /\ IF present /\ Len(active) < MaxLines
     THEN pc' = "append" /\ k' = 0
     ELSE pc' = "rotate" /\ k' = Backups - 1
  /\ UNCHANGED <<active, present, segment, prev, written, kills, faults>>

\* Seeded fault: the segment is copied instead of renamed.
BugShiftCopies ==
  /\ pc = "rotate" /\ k > 0
  /\ segment' = [segment EXCEPT ![k + 1] = segment[k]]
  /\ k' = k - 1
  /\ UNCHANGED <<active, present, seq, prev, pc, cur, written, calls, kills,
                 faults>>

\* path.k becomes path.(k+1): the oldest segment is overwritten.
Shift ==
  /\ pc = "rotate" /\ k > 0
  /\ segment' = IF segment[k] = <<>> THEN segment
                ELSE [segment EXCEPT ![k + 1] = segment[k], ![k] = <<>>]
  /\ k' = k - 1
  /\ UNCHANGED <<active, present, seq, prev, pc, cur, written, calls, kills,
                 faults>>

Retire ==
  /\ pc = "rotate" /\ k = 0
  /\ segment' = IF present THEN [segment EXCEPT ![1] = active] ELSE segment
  /\ active' = <<>> /\ present' = FALSE
  /\ pc' = "append"
  /\ UNCHANGED <<seq, prev, cur, k, written, calls, kills, faults>>

Write ==
  /\ pc = "append"
  /\ active' = Appended(active, cur) /\ present' = TRUE
  /\ prev' = cur.hash
  /\ written' = Append(written, cur)
  /\ pc' = "idle" /\ cur' = NoLine
  /\ UNCHANGED <<segment, seq, k, calls, kills, faults>>

\* A rename or the append fails: write() raises, the number stays taken and
\* the hash does not advance; part of the line may have reached the file.
Fail ==
  /\ pc # "idle" /\ faults < MaxFaults /\ faults' = faults + 1
  /\ \/ UNCHANGED <<active, present>>
     \/ /\ pc = "append"
        /\ active' \in {active, Appended(active, TornLine)}
        /\ present' = TRUE
  /\ pc' = "idle" /\ cur' = NoLine
  /\ UNCHANGED <<segment, seq, prev, k, written, calls, kills>>

\* The process is killed and the log opened again; a line is one write(2).
Kill ==
  /\ kills < MaxKills /\ kills' = kills + 1
  /\ seq' = Loaded.seq /\ prev' = Loaded.hash
  /\ pc' = "idle" /\ cur' = NoLine
  /\ UNCHANGED <<active, present, segment, k, written, calls, faults>>

Next == Begin \/ Shift \/ Retire \/ Write \/ Fail \/ Kill

Spec == Init /\ [][Next]_vars

----------------------------------------------------------------------------
(* Properties.                                                              *)

LineType(l) ==
  /\ l.torn \in BOOLEAN
  /\ l.hash \in 0..MaxWrites /\ l.seq \in 0..MaxWrites
  /\ l.prev \in 0..MaxWrites

TypeOK ==
  /\ \A n \in DOMAIN AllLines : LineType(AllLines[n])
  /\ present \in BOOLEAN
  /\ DOMAIN segment = 1..Backups
  /\ seq \in 0..MaxWrites /\ prev \in 0..MaxWrites
  /\ pc \in {"idle", "rotate", "append"}
  /\ LineType(cur) /\ k \in 0..Backups
  /\ calls \in 0..MaxWrites /\ kills \in 0..MaxKills /\ faults \in 0..MaxFaults

\* The retained log is what the last writes made of it: a suffix of them, with
\* no gap, whichever step of a rotation a kill interrupts and however often.
\* It is at least what fills the backups, except that a rotation repeated after
\* a kill may cost one segment each.
RetainedIsSuffix ==
  LET kept == (Backups - kills) * MaxLines
  IN  faults = 0 =>
        \E n \in 0..Len(written) :
          /\ AllLines = SubSeq(written, n + 1, Len(written))
          /\ kills < Backups => n = 0 \/ Len(written) - n >= kept

\* docs/OPERATIONS.md: "Any mismatch: treat the host as compromised".  Nobody
\* but the writer touches these files, so the chain verifies in every state.
NoFalseAlarm == Verifies(AllLines)

\* As NoFalseAlarm, while no file operation of the writer fails: rotation and
\* restarts never break the chain, and the last completed write is reported.
ChainSurvives ==
  faults = 0 => /\ Verifies(AllLines)
                /\ written # <<>> =>
                     LastSeq(AllLines) = written[Len(written)].seq

\* Removing any record but the first or the last retained ones is detected.
DeletionIsDetected ==
  \A n \in DOMAIN AllLines \ {1, Len(AllLines)} :
    ~AllLines[n].torn => ~Verifies(RemoveAt(AllLines, n))
=============================================================================
