----------------------------- MODULE VaultProofs -----------------------------
(****************************************************************************)
(* Theorems about Vault for any number of paths, contents, ids, threads,    *)
(* faults and crashes, under two assumptions: the threads share one vault   *)
(* object (OneVault) and reading index.json does not fail transiently.      *)
(* IInv is what the safety invariants need; the order of a restore and the  *)
(* refinement of Custody rest on it and on RestoreInv, RiskInv and HomeInv. *)
(****************************************************************************)
EXTENDS Vault, TLAPS

\* The initial state types every variable.
LEMMA InitType == Init => TypeOK
  <1>1. NoPath \in Paths /\ NoId \in Ids
    BY VaultAssumption DEF NoPath, NoId
  <1> QED
    BY <1>1, VaultAssumption DEF Init, TypeOK, IndexText, Labels

\* What _read_index returns is a set of entries.
LEMMA ReadingsType ==
  ASSUME TypeOK PROVE \A items \in Readings : items \in SUBSET Entry
  BY DEF TypeOK, Readings, ReadItems, IndexText

\* Leaving a call keeps the types of everything it resets.
LEMMA UnwindType ==
  ASSUME TypeOK, NEW S \in SUBSET Threads, Unwind(S)
  PROVE /\ pc' \in [Threads -> Labels] /\ op' \in [Threads -> Ops \cup {"none"}]
        /\ path' \in [Threads -> Paths] /\ id' \in [Threads -> Ids]
        /\ read' \in [Threads -> SUBSET Entry]
        /\ out' \in [Threads -> SUBSET Entry]
        /\ lock' \in [Procs -> Threads \cup {NoThread}]
  <1>1. NoPath \in Paths /\ NoId \in Ids
    BY VaultAssumption DEF NoPath, NoId
  <1> QED
    BY <1>1 DEF TypeOK, Unwind, Labels

\* Closing the descriptors of some threads keeps their types.
LEMMA LeaveType ==
  ASSUME TypeOK, NEW S \in SUBSET Threads, CloseAll(S)
  PROVE /\ fd' \in [Threads -> FileContents \cup {NoFile, Attached}]
        /\ wfd' \in [Threads -> {"none", "tmp", "index", "gone"}]
  BY DEF TypeOK, CloseAll

\* A call that returns keeps every type.
LEMMA LeaveOneType ==
  ASSUME TypeOK, NEW t \in Threads, Leave(t)
  PROVE /\ pc' \in [Threads -> Labels] /\ op' \in [Threads -> Ops \cup {"none"}]
        /\ path' \in [Threads -> Paths] /\ id' \in [Threads -> Ids]
        /\ read' \in [Threads -> SUBSET Entry]
        /\ out' \in [Threads -> SUBSET Entry]
        /\ lock' \in [Procs -> Threads \cup {NoThread}]
        /\ fd' \in [Threads -> FileContents \cup {NoFile, Attached}]
        /\ wfd' \in [Threads -> {"none", "tmp", "index", "gone"}]
  <1>1. {t} \in SUBSET Threads /\ Unwind({t}) /\ CloseAll({t})
    BY DEF Leave
  <1> QED
    BY <1>1, UnwindType, LeaveType

\* Every step keeps the types.
LEMMA TypeStep == TypeOK /\ [Next]_vars => TypeOK'
  <1> SUFFICES ASSUME TypeOK, [Next]_vars PROVE TypeOK'
    OBVIOUS
  <1> USE VaultAssumption
  <1>1. ASSUME NEW t \in Threads, Call(t) PROVE TypeOK'
    BY <1>1 DEF Call, CallQuarantine, CallOnItem, CallPurge, TypeOK, Go, disk,
       hist, Labels
  <1>2. ASSUME NEW t \in Threads, Lock(t) PROVE TypeOK'
    BY <1>2, UnwindType, LeaveType, ReadingsType DEF Lock, TypeOK, Go, disk,
       hist, Labels
  <1>3. ASSUME NEW t \in Threads, CreateBlob(t) PROVE TypeOK'
    BY <1>3, UnwindType, LeaveType, ReadingsType DEF CreateBlob, TypeOK, Go,
       Labels
  <1>4. ASSUME NEW t \in Threads, CopyBlob(t) PROVE TypeOK'
    BY <1>4 DEF CopyBlob, Behind, TypeOK, Go, hist, Labels
  <1>5. ASSUME NEW t \in Threads, AppendEntry(t) PROVE TypeOK'
    BY <1>5, ReadingsType DEF AppendEntry, TypeOK, Go, disk, hist, Labels,
       EntryOf, Entry
  <1>6. ASSUME NEW t \in Threads, RemoveOriginal(t) PROVE TypeOK'
    <2>1. {t} \in SUBSET Threads /\ EntryOf(t) \in Entry
      BY DEF EntryOf, Entry, TypeOK
    <2>2. acked' \in SUBSET Ack
      BY <1>6, <2>1 DEF RemoveOriginal, TypeOK, Ack
    <2>3. fs' \in [Paths -> FileContents \cup {NoFile}] /\ faults' \in Nat
      BY <1>6 DEF RemoveOriginal, TypeOK
    <2>4. fd' \in [Threads -> FileContents \cup {NoFile, Attached}]
      BY <1>6 DEF RemoveOriginal, TypeOK, Detached
    <2>5. Unwind({t}) /\ UNCHANGED <<blobs, idx, tmp, wfd, used, asked, exposed, crashes>>
      BY <1>6 DEF RemoveOriginal
    <2> QED
      BY <2>1, <2>2, <2>3, <2>4, <2>5, UnwindType DEF TypeOK
  <1>7. ASSUME NEW t \in Threads, FindToDelete(t) PROVE TypeOK'
    BY <1>7, LeaveOneType, ReadingsType DEF FindToDelete, TypeOK, Go, disk,
       Labels
  <1>8. ASSUME NEW t \in Threads, UnlinkBlob(t) PROVE TypeOK'
    BY <1>8, UnwindType, LeaveType, ReadingsType DEF UnlinkBlob, TypeOK, Go,
       hist, Labels
  <1>9. ASSUME NEW t \in Threads, ReadToPurge(t) PROVE TypeOK'
    BY <1>9, UnwindType, LeaveType, ReadingsType DEF ReadToPurge, TypeOK, Go,
       disk, hist, Labels
  <1>10. ASSUME NEW t \in Threads, FilterMissing(t) PROVE TypeOK'
    BY <1>10, LeaveOneType DEF FilterMissing, Present, TypeOK, Go, disk, hist,
       Labels
  <1>11. ASSUME NEW t \in Threads, FindToRestore(t) PROVE TypeOK'
    BY <1>11, LeaveOneType, ReadingsType DEF FindToRestore, TypeOK, Go, disk,
       hist, Labels, Entry
  <1>12. ASSUME NEW t \in Threads, OpenDest(t) PROVE TypeOK'
    BY <1>12 DEF OpenDest, TypeOK, Go, Labels, FileContents
  <1>13. ASSUME NEW t \in Threads, FillDest(t) PROVE TypeOK'
    BY <1>13, LeaveOneType DEF FillDest, AtRisk, TypeOK, Go, Labels
  <1>14. ASSUME NEW t \in Threads, EnterDelete(t) PROVE TypeOK'
    BY <1>14, UnwindType, LeaveType, ReadingsType DEF EnterDelete, TypeOK, Go,
       disk, hist, Labels
  <1>15. ASSUME NEW t \in Threads, OpenTmp(t) PROVE TypeOK'
    BY <1>15, UnwindType, LeaveType, ReadingsType DEF OpenTmp, TypeOK, Go,
       hist, Labels
  <1>16. ASSUME NEW t \in Threads, DumpTmp(t) PROVE TypeOK'
    <2>1. out[t] \in SUBSET Entry
      BY DEF TypeOK
    <2>2. PICK ok \in BOOLEAN :
            \/ /\ tmp' = [there |-> TRUE, whole |-> ok, items |-> out[t]]
               /\ UNCHANGED idx
            \/ /\ idx' = [whole |-> ok, items |-> out[t]]
               /\ UNCHANGED tmp
            \/ UNCHANGED <<idx, tmp>>
      BY <1>16 DEF DumpTmp
    <2>3. /\ [there |-> TRUE, whole |-> ok, items |-> out[t]]
               \in [there : BOOLEAN, whole : BOOLEAN, items : SUBSET Entry]
          /\ [whole |-> ok, items |-> out[t]] \in IndexText
      <3>1. ok = TRUE \/ ok = FALSE
        OBVIOUS
      <3> QED
        BY <2>1, <3>1 DEF IndexText
    <2>4. tmp' \in [there : BOOLEAN, whole : BOOLEAN, items : SUBSET Entry]
          /\ idx' \in IndexText
      BY <2>2, <2>3 DEF TypeOK
    <2> QED
      BY <1>16, <2>4 DEF DumpTmp, TypeOK, Go, hist, Labels
  <1>17. ASSUME NEW t \in Threads, RenameTmp(t) PROVE TypeOK'
    <2>1. {t} \in SUBSET Threads
      OBVIOUS
    <2>2. /\ tmp' \in [there : BOOLEAN, whole : BOOLEAN, items : SUBSET Entry]
          /\ idx' \in IndexText
      <3>1. [whole |-> tmp.whole, items |-> tmp.items] \in IndexText
        BY DEF TypeOK, IndexText
      <3>2. [there |-> FALSE, whole |-> FALSE, items |-> {}]
              \in [there : BOOLEAN, whole : BOOLEAN, items : SUBSET Entry]
        OBVIOUS
      <3>3. \/ /\ idx' = [whole |-> tmp.whole, items |-> tmp.items]
               /\ tmp' = [there |-> FALSE, whole |-> FALSE, items |-> {}]
            \/ UNCHANGED <<idx, tmp>>
        BY <1>17 DEF RenameTmp
      <3> QED
        BY <3>1, <3>2, <3>3 DEF TypeOK
    <2>3. CASE tmp.there
      <3>1. wfd' \in [Threads -> {"none", "tmp", "index", "gone"}]
        BY <1>17, <2>3 DEF RenameTmp, Renamed, TypeOK, Leave
      <3> QED
        BY <1>17, <2>1, <2>2, <2>3, <3>1, UnwindType DEF RenameTmp, TypeOK,
           Go, hist, Labels
    <2>4. CASE ~tmp.there
      BY <1>17, <2>2, <2>4, LeaveOneType DEF RenameTmp, TypeOK, hist
    <2> QED
      BY <2>3, <2>4
  <1>18. ASSUME NEW t \in Threads, Raise(t) PROVE TypeOK'
    BY <1>18, LeaveOneType DEF Raise, TypeOK, disk, hist
  <1>19. ASSUME NEW p \in Procs, Crash(p) PROVE TypeOK'
    BY <1>19, UnwindType, LeaveType DEF Crash, TypeOK, ThreadsOf, disk, hist
  <1>20. ASSUME NEW p \in Paths, NEW c \in Contents, Appear(p, c) PROVE TypeOK'
    BY <1>20 DEF Appear, TypeOK, Detached, AtRisk, FileContents
  <1>21. CASE UNCHANGED vars
    BY <1>21 DEF vars, disk, locals, hist, TypeOK
  <1> QED
    BY <1>1, <1>2, <1>3, <1>4, <1>5, <1>6, <1>7, <1>8, <1>9, <1>10, <1>11,
       <1>12, <1>13, <1>14, <1>15, <1>16, <1>17, <1>18, <1>19, <1>20, <1>21
    DEF Next, Step

\* Who is inside the vault is alone there.
LEMMA Alone ==
  ASSUME OneVault, LockInv, NEW t \in Threads, NEW u \in Threads,
         Inside(t), Inside(u)
  PROVE t = u
  BY DEF OneVault, LockInv

\* The rename makes the index what the call computed from it: an entry is
\* added by a quarantine whose blob is complete, and gone only if it was asked
\* for or has no blob.
LEMMA RenameEffect ==
  ASSUME IInv, NEW t \in Threads, RenameTmp(t)
  PROVE /\ tmp.there /\ idx'.whole /\ idx'.items = out[t]
        /\ ReadItems' = out[t] /\ ReadItems = idx.items
        /\ \A e \in ReadItems :
             e \in out[t] \/ e.id \in asked \/ blobs[e.id] = NoFile
        /\ \A e \in out[t] :
             \/ e \in ReadItems
             \/ /\ op[t] = "quarantine" /\ e = EntryOf(t) /\ e.id = id[t]
                /\ id[t] \in used /\ blobs[id[t]] \in FileContents
        /\ op[t] = "quarantine" => EntryOf(t) \in out[t]
  <1>1. Writing(t) /\ pc[t] = "wrename" /\ op[t] \in Ops
    BY DEF RenameTmp, Writing, IInv, OpInv, TypeOK
  <1>2. /\ tmp.there /\ tmp.whole /\ tmp.items = out[t]
        /\ idx.whole /\ read[t] = idx.items /\ ReadItems = read[t]
    BY <1>1 DEF IInv, WriteInv, ReadItems
  <1>3. idx' = [whole |-> tmp.whole, items |-> tmp.items]
    BY <1>2 DEF RenameTmp
  <1>4. idx'.whole /\ idx'.items = out[t] /\ ReadItems' = out[t]
    BY <1>2, <1>3 DEF ReadItems
  <1>5. CASE op[t] = "quarantine"
    <2>1. out[t] = ReadItems \cup {EntryOf(t)} /\ EntryOf(t).id = id[t]
      BY <1>1, <1>2, <1>5 DEF IInv, WriteInv, EntryOf
    <2>2. id[t] \in used /\ blobs[id[t]] \in FileContents
      BY <1>1, <1>5 DEF IInv, CopyInv
    <2> QED
      BY <1>2, <1>4, <1>5, <2>1, <2>2
  <1>6. CASE op[t] \in {"delete", "restore"}
    BY <1>1, <1>2, <1>4, <1>6 DEF IInv, WriteInv
  <1>7. CASE op[t] = "purge"
    BY <1>1, <1>2, <1>4, <1>7 DEF IInv, WriteInv, Present
  <1> QED
    BY <1>1, <1>5, <1>6, <1>7 DEF Ops

\* The lock has one owner and every return gives it back.
LEMMA LockStep ==
  ASSUME OneVault, ~FaultyReads, IInv, TypeOK', Next PROVE LockInv'
  <1> USE VaultAssumption, Alone
  <1>1. ASSUME NEW t \in Threads, Call(t) PROVE LockInv'
    BY <1>1 DEF Call, CallQuarantine, CallOnItem, CallPurge, Go, IInv,
       LockInv, TypeOK, OneVault, Inside
  <1>2. ASSUME NEW t \in Threads, Lock(t) PROVE LockInv'
    BY <1>2 DEF Lock, MayEnter, Go, IInv, LockInv, TypeOK, Inside
  <1>3. ASSUME NEW t \in Threads, CreateBlob(t) PROVE LockInv'
    BY <1>3 DEF CreateBlob, Go, IInv, LockInv, Inside
  <1>4. ASSUME NEW t \in Threads, CopyBlob(t) PROVE LockInv'
    BY <1>4 DEF CopyBlob, Go, IInv, LockInv, Inside
  <1>5. ASSUME NEW t \in Threads, AppendEntry(t) PROVE LockInv'
    BY <1>5 DEF AppendEntry, Go, IInv, LockInv, Inside
  <1>6. ASSUME NEW t \in Threads, RemoveOriginal(t) PROVE LockInv'
    BY <1>6 DEF RemoveOriginal, Unwind, IInv, LockInv, Inside
  <1>7. ASSUME NEW t \in Threads, FindToDelete(t) PROVE LockInv'
    BY <1>7 DEF FindToDelete, Go, Leave, Unwind, IInv, LockInv, TypeOK, Inside
  <1>8. ASSUME NEW t \in Threads, UnlinkBlob(t) PROVE LockInv'
    BY <1>8 DEF UnlinkBlob, Go, IInv, LockInv, Inside
  <1>9. ASSUME NEW t \in Threads, ReadToPurge(t) PROVE LockInv'
    BY <1>9 DEF ReadToPurge, Go, IInv, LockInv, Inside
  <1>10. ASSUME NEW t \in Threads, FilterMissing(t) PROVE LockInv'
    BY <1>10 DEF FilterMissing, Go, Leave, Unwind, IInv, LockInv, TypeOK,
       Inside
  <1>11. ASSUME NEW t \in Threads, FindToRestore(t) PROVE LockInv'
    BY <1>11 DEF FindToRestore, disk, Go, Leave, Unwind, IInv, LockInv,
       TypeOK, Inside
  <1>12. ASSUME NEW t \in Threads, OpenDest(t) PROVE LockInv'
    BY <1>12 DEF OpenDest, Go, IInv, LockInv, Inside
  <1>13. ASSUME NEW t \in Threads, FillDest(t) PROVE LockInv'
    BY <1>13 DEF FillDest, Go, Leave, Unwind, IInv, LockInv, TypeOK, Inside
  <1>14. ASSUME NEW t \in Threads, EnterDelete(t) PROVE LockInv'
    BY <1>14 DEF EnterDelete, Go, IInv, LockInv, Inside
  <1>15. ASSUME NEW t \in Threads, OpenTmp(t) PROVE LockInv'
    BY <1>15 DEF OpenTmp, Go, IInv, LockInv, Inside
  <1>16. ASSUME NEW t \in Threads, DumpTmp(t) PROVE LockInv'
    BY <1>16 DEF DumpTmp, Go, IInv, LockInv, Inside
  <1>17. ASSUME NEW t \in Threads, RenameTmp(t) PROVE LockInv'
    BY <1>17 DEF RenameTmp, Go, Leave, Unwind, IInv, LockInv, TypeOK, Inside
  <1>18. ASSUME NEW t \in Threads, Raise(t) PROVE LockInv'
    BY <1>18 DEF Raise, Leave, Unwind, IInv, LockInv, Inside
  <1>19. ASSUME NEW p \in Procs, Crash(p) PROVE LockInv'
    BY <1>19 DEF Crash, Unwind, IInv, LockInv, Inside
  <1>20. ASSUME NEW p \in Paths, NEW c \in Contents, Appear(p, c) PROVE LockInv'
    BY <1>20 DEF Appear, IInv, LockInv, Inside
  <1> QED
    BY <1>1, <1>2, <1>3, <1>4, <1>5, <1>6, <1>7, <1>8, <1>9, <1>10, <1>11,
       <1>12, <1>13, <1>14, <1>15, <1>16, <1>17, <1>18, <1>19, <1>20
    DEF Next, Step

\* A step of a method is taken by a call of that method.
LEMMA OpStep ==
  ASSUME OneVault, ~FaultyReads, IInv, TypeOK', Next PROVE OpInv'
  <1> USE VaultAssumption, Alone
  <1>1. ASSUME NEW t \in Threads, Call(t) PROVE OpInv'
    BY <1>1 DEF Call, CallQuarantine, CallOnItem, CallPurge, Go, IInv, OpInv,
       TypeOK, Writing
  <1>2. ASSUME NEW t \in Threads, Lock(t) PROVE OpInv'
    <2>1. UNCHANGED op /\ \A u \in Threads \ {t} : pc'[u] = pc[u]
      BY <1>2 DEF Lock, Go, IInv, TypeOK
    <2>2. pc'[t] = CASE op[t] = "quarantine" -> "create"
                     [] op[t] = "restore" -> "find"
                     [] OTHER -> "read"
      BY <1>2 DEF Lock, Go, IInv, TypeOK
    <2>3. op[t] \in Ops
      BY <1>2 DEF Lock, IInv, OpInv, TypeOK, Ops
    <2> QED
      BY <2>1, <2>2, <2>3 DEF IInv, OpInv, Writing, Ops
  <1>3. ASSUME NEW t \in Threads, CreateBlob(t) PROVE OpInv'
    BY <1>3 DEF CreateBlob, Go, IInv, OpInv, Writing
  <1>4. ASSUME NEW t \in Threads, CopyBlob(t) PROVE OpInv'
    BY <1>4 DEF CopyBlob, Go, IInv, OpInv, Writing
  <1>5. ASSUME NEW t \in Threads, AppendEntry(t) PROVE OpInv'
    BY <1>5 DEF AppendEntry, Go, IInv, OpInv, Writing
  <1>6. ASSUME NEW t \in Threads, RemoveOriginal(t) PROVE OpInv'
    BY <1>6 DEF RemoveOriginal, Unwind, IInv, OpInv, Writing
  <1>7. ASSUME NEW t \in Threads, FindToDelete(t) PROVE OpInv'
    BY <1>7 DEF FindToDelete, Go, Leave, Unwind, IInv, OpInv, TypeOK, Writing
  <1>8. ASSUME NEW t \in Threads, UnlinkBlob(t) PROVE OpInv'
    BY <1>8 DEF UnlinkBlob, Go, IInv, OpInv, Writing
  <1>9. ASSUME NEW t \in Threads, ReadToPurge(t) PROVE OpInv'
    BY <1>9 DEF ReadToPurge, Go, IInv, OpInv, Writing
  <1>10. ASSUME NEW t \in Threads, FilterMissing(t) PROVE OpInv'
    BY <1>10 DEF FilterMissing, Go, Leave, Unwind, IInv, OpInv, TypeOK, Writing
  <1>11. ASSUME NEW t \in Threads, FindToRestore(t) PROVE OpInv'
    BY <1>11 DEF FindToRestore, Go, Leave, Unwind, IInv, OpInv, TypeOK, Writing
  <1>12. ASSUME NEW t \in Threads, OpenDest(t) PROVE OpInv'
    BY <1>12 DEF OpenDest, Go, IInv, OpInv, Writing
  <1>13. ASSUME NEW t \in Threads, FillDest(t) PROVE OpInv'
    BY <1>13 DEF FillDest, Go, Leave, Unwind, IInv, OpInv, TypeOK, Writing
  <1>14. ASSUME NEW t \in Threads, EnterDelete(t) PROVE OpInv'
    BY <1>14 DEF EnterDelete, Go, IInv, OpInv, Writing
  <1>15. ASSUME NEW t \in Threads, OpenTmp(t) PROVE OpInv'
    BY <1>15 DEF OpenTmp, Go, IInv, OpInv, Writing
  <1>16. ASSUME NEW t \in Threads, DumpTmp(t) PROVE OpInv'
    BY <1>16 DEF DumpTmp, Go, IInv, OpInv, Writing
  <1>17. ASSUME NEW t \in Threads, RenameTmp(t) PROVE OpInv'
    BY <1>17 DEF RenameTmp, Go, Leave, Unwind, IInv, OpInv, TypeOK, Writing
  <1>18. ASSUME NEW t \in Threads, Raise(t) PROVE OpInv'
    BY <1>18 DEF Raise, Leave, Unwind, IInv, OpInv, Writing
  <1>19. ASSUME NEW p \in Procs, Crash(p) PROVE OpInv'
    BY <1>19 DEF Crash, Unwind, IInv, OpInv, Writing
  <1>20. ASSUME NEW p \in Paths, NEW c \in Contents, Appear(p, c) PROVE OpInv'
    BY <1>20 DEF Appear, IInv, OpInv, Writing
  <1> QED
    BY <1>1, <1>2, <1>3, <1>4, <1>5, <1>6, <1>7, <1>8, <1>9, <1>10, <1>11,
       <1>12, <1>13, <1>14, <1>15, <1>16, <1>17, <1>18, <1>19, <1>20
    DEF Next, Step

\* Descriptors name files that exist.
LEMMA FdStep ==
  ASSUME OneVault, ~FaultyReads, IInv, TypeOK', Next PROVE FdInv'
  <1> USE VaultAssumption, Alone
  <1>1. ASSUME NEW t \in Threads, Call(t) PROVE FdInv'
    BY <1>1 DEF Call, CallQuarantine, CallOnItem, CallPurge, disk, Go, IInv,
       FdInv, TypeOK
  <1>2. ASSUME NEW t \in Threads, Lock(t) PROVE FdInv'
    BY <1>2 DEF Lock, disk, Go, IInv, FdInv
  <1>3. ASSUME NEW t \in Threads, CreateBlob(t) PROVE FdInv'
    BY <1>3 DEF CreateBlob, Go, IInv, FdInv
  <1>4. ASSUME NEW t \in Threads, CopyBlob(t) PROVE FdInv'
    BY <1>4 DEF CopyBlob, Go, IInv, FdInv, TypeOK, FileContents
  <1>5. ASSUME NEW t \in Threads, AppendEntry(t) PROVE FdInv'
    BY <1>5 DEF AppendEntry, disk, Go, IInv, FdInv
  <1>6. ASSUME NEW t \in Threads, RemoveOriginal(t) PROVE FdInv'
    BY <1>6 DEF RemoveOriginal, Detached, Unwind, IInv, FdInv, TypeOK,
       FileContents
  <1>7. ASSUME NEW t \in Threads, FindToDelete(t) PROVE FdInv'
    BY <1>7 DEF FindToDelete, disk, Go, Leave, Unwind, CloseAll, IInv, FdInv,
       TypeOK
  <1>8. ASSUME NEW t \in Threads, UnlinkBlob(t) PROVE FdInv'
    BY <1>8 DEF UnlinkBlob, Go, IInv, FdInv
  <1>9. ASSUME NEW t \in Threads, ReadToPurge(t) PROVE FdInv'
    BY <1>9 DEF ReadToPurge, disk, Go, IInv, FdInv
  <1>10. ASSUME NEW t \in Threads, FilterMissing(t) PROVE FdInv'
    BY <1>10 DEF FilterMissing, disk, Go, Leave, Unwind, CloseAll, IInv,
       FdInv, TypeOK
  <1>11. ASSUME NEW t \in Threads, FindToRestore(t) PROVE FdInv'
    BY <1>11 DEF FindToRestore, disk, Go, Leave, Unwind, CloseAll, IInv,
       FdInv, TypeOK
  <1>12. ASSUME NEW t \in Threads, OpenDest(t) PROVE FdInv'
    BY <1>12 DEF OpenDest, Go, IInv, FdInv, TypeOK
  <1>13. ASSUME NEW t \in Threads, FillDest(t) PROVE FdInv'
    BY <1>13 DEF FillDest, Go, Leave, Unwind, CloseAll, IInv, FdInv, TypeOK
  <1>14. ASSUME NEW t \in Threads, EnterDelete(t) PROVE FdInv'
    BY <1>14 DEF EnterDelete, disk, Go, IInv, FdInv
  <1>15. ASSUME NEW t \in Threads, OpenTmp(t) PROVE FdInv'
    BY <1>15 DEF OpenTmp, Go, IInv, FdInv
  <1>16. ASSUME NEW t \in Threads, DumpTmp(t) PROVE FdInv'
    BY <1>16 DEF DumpTmp, Go, IInv, FdInv
  <1>17. ASSUME NEW t \in Threads, RenameTmp(t) PROVE FdInv'
    BY <1>17 DEF RenameTmp, Go, Leave, Unwind, CloseAll, IInv, FdInv, TypeOK
  <1>18. ASSUME NEW t \in Threads, Raise(t) PROVE FdInv'
    BY <1>18 DEF Raise, disk, Leave, Unwind, CloseAll, IInv, FdInv
  <1>19. ASSUME NEW p \in Procs, Crash(p) PROVE FdInv'
    BY <1>19 DEF Crash, disk, Unwind, CloseAll, IInv, FdInv
  <1>20. ASSUME NEW p \in Paths, NEW c \in Contents, Appear(p, c) PROVE FdInv'
    BY <1>20 DEF Appear, Detached, IInv, FdInv, FileContents
  <1> QED
    BY <1>1, <1>2, <1>3, <1>4, <1>5, <1>6, <1>7, <1>8, <1>9, <1>10, <1>11,
       <1>12, <1>13, <1>14, <1>15, <1>16, <1>17, <1>18, <1>19, <1>20
    DEF Next, Step

\* Ids are never drawn twice.
LEMMA IdStep ==
  ASSUME OneVault, ~FaultyReads, IInv, TypeOK', Next PROVE IdInv'
  <1> USE VaultAssumption, Alone
  <1>1. ASSUME NEW t \in Threads, Call(t) PROVE IdInv'
    BY <1>1 DEF Call, CallQuarantine, CallOnItem, CallPurge, disk, hist, IInv,
       IdInv, ReadItems
  <1>2. ASSUME NEW t \in Threads, Lock(t) PROVE IdInv'
    BY <1>2 DEF Lock, disk, hist, IInv, IdInv, ReadItems
  <1>3. ASSUME NEW t \in Threads, CreateBlob(t) PROVE IdInv'
    BY <1>3 DEF CreateBlob, IInv, IdInv, ReadItems
  <1>4. ASSUME NEW t \in Threads, CopyBlob(t) PROVE IdInv'
    BY <1>4 DEF CopyBlob, hist, IInv, IdInv, ReadItems
  <1>5. ASSUME NEW t \in Threads, AppendEntry(t) PROVE IdInv'
    BY <1>5 DEF AppendEntry, disk, hist, IInv, IdInv, ReadItems
  <1>6. ASSUME NEW t \in Threads, RemoveOriginal(t) PROVE IdInv'
    BY <1>6 DEF RemoveOriginal, IInv, IdInv, CopyInv, ReadItems
  <1>7. ASSUME NEW t \in Threads, FindToDelete(t) PROVE IdInv'
    BY <1>7 DEF FindToDelete, Readings, disk, IInv, IdInv, ReadItems
  <1>8. ASSUME NEW t \in Threads, UnlinkBlob(t) PROVE IdInv'
    BY <1>8 DEF UnlinkBlob, hist, IInv, IdInv, ReadItems
  <1>9. ASSUME NEW t \in Threads, ReadToPurge(t) PROVE IdInv'
    BY <1>9 DEF ReadToPurge, disk, hist, IInv, IdInv, ReadItems
  <1>10. ASSUME NEW t \in Threads, FilterMissing(t) PROVE IdInv'
    BY <1>10 DEF FilterMissing, disk, hist, IInv, IdInv, ReadItems
  <1>11. ASSUME NEW t \in Threads, FindToRestore(t) PROVE IdInv'
    BY <1>11 DEF FindToRestore, disk, hist, IInv, IdInv, ReadItems
  <1>12. ASSUME NEW t \in Threads, OpenDest(t) PROVE IdInv'
    BY <1>12 DEF OpenDest, IInv, IdInv, ReadItems
  <1>13. ASSUME NEW t \in Threads, FillDest(t) PROVE IdInv'
    BY <1>13 DEF FillDest, IInv, IdInv, ReadItems
  <1>14. ASSUME NEW t \in Threads, EnterDelete(t) PROVE IdInv'
    BY <1>14 DEF EnterDelete, disk, hist, IInv, IdInv, ReadItems
  <1>15. ASSUME NEW t \in Threads, OpenTmp(t) PROVE IdInv'
    BY <1>15 DEF OpenTmp, hist, IInv, IdInv, ReadItems
  <1>16. ASSUME NEW t \in Threads, DumpTmp(t) PROVE IdInv'
    BY <1>16 DEF DumpTmp, hist, IInv, IdInv, WriteInv, ReadItems
  <1>17. ASSUME NEW t \in Threads, RenameTmp(t) PROVE IdInv'
    <2>1. UNCHANGED <<used, asked, acked>>
      BY <1>17 DEF RenameTmp, hist
    <2> QED
      BY <1>17, <2>1, RenameEffect DEF IInv, IdInv
  <1>18. ASSUME NEW t \in Threads, Raise(t) PROVE IdInv'
    BY <1>18 DEF Raise, disk, hist, IInv, IdInv, ReadItems
  <1>19. ASSUME NEW p \in Procs, Crash(p) PROVE IdInv'
    BY <1>19 DEF Crash, disk, hist, IInv, IdInv, ReadItems
  <1>20. ASSUME NEW p \in Paths, NEW c \in Contents, Appear(p, c) PROVE IdInv'
    BY <1>20 DEF Appear, IInv, IdInv, ReadItems
  <1> QED
    BY <1>1, <1>2, <1>3, <1>4, <1>5, <1>6, <1>7, <1>8, <1>9, <1>10, <1>11,
       <1>12, <1>13, <1>14, <1>15, <1>16, <1>17, <1>18, <1>19, <1>20
    DEF Next, Step

\* The blob of a quarantine under way is nobody else's.
LEMMA CopyStep ==
  ASSUME OneVault, ~FaultyReads, IInv, TypeOK', Next PROVE CopyInv'
  <1> USE VaultAssumption, Alone
  <1>1. ASSUME NEW t \in Threads, Call(t) PROVE CopyInv'
    BY <1>1 DEF Call, CallQuarantine, CallOnItem, CallPurge, disk, locals,
       hist, Go, IInv, CopyInv, OpInv, FdInv, IdInv, WriteInv, LockInv,
       OneVault, TypeOK, ReadItems, EntryOf, Entry, Listed, Writing, Inside,
       FileContents
  <1>2. ASSUME NEW t \in Threads, Lock(t) PROVE CopyInv'
    BY <1>2 DEF Lock, disk, hist, Go, IInv, CopyInv, ReadItems, EntryOf,
       Listed, Writing
  <1>3. ASSUME NEW t \in Threads, CreateBlob(t) PROVE CopyInv'
    BY <1>3 DEF CreateBlob, Go, IInv, CopyInv, IdInv, TypeOK, ReadItems,
       EntryOf, Listed, Writing
  <1>4. ASSUME NEW t \in Threads, CopyBlob(t) PROVE CopyInv'
    BY <1>4 DEF CopyBlob, Behind, locals, hist, Go, IInv, CopyInv, FdInv,
       TypeOK, ReadItems, Listed, Writing, Inside, FileContents
  <1>5. ASSUME NEW t \in Threads, AppendEntry(t) PROVE CopyInv'
    BY <1>5 DEF AppendEntry, disk, hist, Go, IInv, CopyInv, ReadItems, Listed,
       Writing, Inside
  <1>6. ASSUME NEW t \in Threads, RemoveOriginal(t) PROVE CopyInv'
    BY <1>6 DEF RemoveOriginal, Unwind, IInv, CopyInv, OpInv, FdInv, IdInv,
       LockInv, Writing, Inside
  <1>7. ASSUME NEW t \in Threads, FindToDelete(t) PROVE CopyInv'
    BY <1>7 DEF FindToDelete, Readings, disk, locals, hist, Go, Leave, Unwind,
       CloseAll, IInv, CopyInv, OpInv, FdInv, IdInv, WriteInv, LockInv,
       OneVault, TypeOK, ReadItems, EntryOf, Entry, Listed, Writing, Inside,
       FileContents
  <1>8. ASSUME NEW t \in Threads, UnlinkBlob(t) PROVE CopyInv'
    BY <1>8 DEF UnlinkBlob, Go, IInv, CopyInv, OpInv, IdInv, WriteInv,
       LockInv, Writing, Inside
  <1>9. ASSUME NEW t \in Threads, ReadToPurge(t) PROVE CopyInv'
    BY <1>9 DEF ReadToPurge, disk, Go, IInv, CopyInv, FdInv, Writing, Inside
  <1>10. ASSUME NEW t \in Threads, FilterMissing(t) PROVE CopyInv'
    BY <1>10 DEF FilterMissing, Go, Leave, Unwind, CloseAll, IInv, CopyInv,
       OpInv, FdInv, IdInv, WriteInv, LockInv, OneVault, TypeOK, EntryOf,
       Entry, Writing, Inside, FileContents
  <1>11. ASSUME NEW t \in Threads, FindToRestore(t) PROVE CopyInv'
    BY <1>11 DEF FindToRestore, disk, hist, Go, Leave, Unwind, CloseAll, IInv,
       CopyInv, OneVault, TypeOK, ReadItems, EntryOf, Listed, Writing
  <1>12. ASSUME NEW t \in Threads, OpenDest(t) PROVE CopyInv'
    BY <1>12 DEF OpenDest, Go, IInv, CopyInv, Writing, Inside
  <1>13. ASSUME NEW t \in Threads, FillDest(t) PROVE CopyInv'
    BY <1>13 DEF FillDest, AtRisk, disk, locals, hist, Go, Leave, Unwind,
       IInv, CopyInv, FdInv, LockInv, OneVault, TypeOK, Writing, Inside
  <1>14. ASSUME NEW t \in Threads, EnterDelete(t) PROVE CopyInv'
    BY <1>14 DEF EnterDelete, Go, IInv, CopyInv, FdInv, OneVault, Writing,
       Inside
  <1>15. ASSUME NEW t \in Threads, OpenTmp(t) PROVE CopyInv'
    BY <1>15 DEF OpenTmp, hist, Go, IInv, CopyInv, ReadItems, Listed, Writing,
       Inside
  <1>16. ASSUME NEW t \in Threads, DumpTmp(t) PROVE CopyInv'
    BY <1>16 DEF DumpTmp, hist, Go, IInv, CopyInv, WriteInv, ReadItems,
       Listed, Writing, Inside
  <1>17. ASSUME NEW t \in Threads, RenameTmp(t) PROVE CopyInv'
    BY <1>17 DEF RenameTmp, hist, Go, Unwind, IInv, CopyInv, FdInv, WriteInv,
       TypeOK, ReadItems, EntryOf, Writing, Inside
  <1>18. ASSUME NEW t \in Threads, Raise(t) PROVE CopyInv'
    BY <1>18 DEF Raise, disk, Leave, Unwind, IInv, CopyInv, OpInv, IdInv,
       WriteInv, Writing, Inside
  <1>19. ASSUME NEW p \in Procs, Crash(p) PROVE CopyInv'
    BY <1>19 DEF Crash, disk, hist, Unwind, CloseAll, IInv, CopyInv,
       ReadItems, EntryOf, Listed, Writing
  <1>20. ASSUME NEW p \in Paths, NEW c \in Contents, Appear(p, c) PROVE CopyInv'
    BY <1>20 DEF Appear, Detached, IInv, CopyInv, ReadItems, EntryOf, Listed,
       Writing, FileContents
  <1> QED
    BY <1>1, <1>2, <1>3, <1>4, <1>5, <1>6, <1>7, <1>8, <1>9, <1>10, <1>11,
       <1>12, <1>13, <1>14, <1>15, <1>16, <1>17, <1>18, <1>19, <1>20
    DEF Next, Step

\* What will be written is what was read, changed by the method.
LEMMA WriteStep ==
  ASSUME OneVault, ~FaultyReads, IInv, TypeOK', Next PROVE WriteInv'
  <1> USE VaultAssumption, Alone
  <1>1. ASSUME NEW t \in Threads, Call(t) PROVE WriteInv'
    BY <1>1 DEF Call, CallQuarantine, CallOnItem, CallPurge, disk, hist, Go,
       IInv, WriteInv, CopyInv, LockInv, TypeOK, EntryOf, Writing, Present
  <1>2. ASSUME NEW t \in Threads, Lock(t) PROVE WriteInv'
    BY <1>2 DEF Lock, disk, hist, Go, IInv, WriteInv, EntryOf, Writing, Present
  <1>3. ASSUME NEW t \in Threads, CreateBlob(t) PROVE WriteInv'
    <2>1. Inside(t) /\ Inside(t)' /\ ~Writing(t)'
          /\ pc'[t] = "copy" /\ UNCHANGED idx
      BY <1>3 DEF CreateBlob, Go, Inside, Writing, TypeOK
    <2>2. \A u \in Threads \ {t} : ~Inside(u) /\ pc'[u] = pc[u]
      BY <1>3, <2>1 DEF CreateBlob, Go, IInv, TypeOK
    <2> QED
      BY <2>1, <2>2 DEF IInv, WriteInv, Inside, Writing
  <1>4. ASSUME NEW t \in Threads, CopyBlob(t) PROVE WriteInv'
    BY <1>4 DEF CopyBlob, Behind, hist, Go, IInv, WriteInv, OpInv, LockInv,
       Writing, Inside
  <1>5. ASSUME NEW t \in Threads, AppendEntry(t) PROVE WriteInv'
    BY <1>5 DEF AppendEntry, Readings, disk, hist, Go, IInv, WriteInv, OpInv,
       TypeOK, ReadItems, EntryOf, Writing, Present
  <1>6. ASSUME NEW t \in Threads, RemoveOriginal(t) PROVE WriteInv'
    BY <1>6 DEF RemoveOriginal, Unwind, IInv, WriteInv, Writing, Inside
  <1>7. ASSUME NEW t \in Threads, FindToDelete(t) PROVE WriteInv'
    <2>1. \A u \in Threads : u = t \/ ~Inside(u)
      BY <1>7 DEF FindToDelete, Inside, IInv
    <2>2. /\ op[t] \in {"delete", "restore"} /\ idx.whole /\ UNCHANGED idx
          /\ Readings = {idx.items}
      BY <1>7 DEF FindToDelete, disk, IInv, WriteInv, Readings, ReadItems
    <2>3. CASE Leave(t)
      <3>1. \A u \in Threads : pc'[u] \in {"idle", "lock"}
        BY <2>1, <2>3 DEF Leave, Unwind, Inside, IInv, TypeOK
      <3> QED
        BY <2>2, <3>1 DEF WriteInv, Writing
    <2>4. CASE ~Leave(t)
      <3>1. /\ read' = [read EXCEPT ![t] = idx.items]
            /\ out' = [out EXCEPT ![t] = {e \in idx.items : e.id # id[t]}]
            /\ asked' = asked \cup {id[t]}
            /\ pc' = [pc EXCEPT ![t] = "unlink"]
            /\ UNCHANGED <<id, op>>
        BY <1>7, <2>2, <2>4 DEF FindToDelete, Go
      <3>2. /\ pc'[t] = "unlink" /\ read'[t] = idx'.items /\ id'[t] \in asked'
            /\ out'[t] = {e \in idx.items : e.id # id[t]}
        BY <2>2, <3>1 DEF IInv, TypeOK
      <3>3. \A u \in Threads \ {t} : pc'[u] \in {"idle", "lock"}
        BY <2>1, <3>1 DEF Inside, IInv, TypeOK
      <3> QED
        BY <2>2, <3>1, <3>2, <3>3 DEF WriteInv, Writing
    <2> QED
      BY <2>3, <2>4
  <1>8. ASSUME NEW t \in Threads, UnlinkBlob(t) PROVE WriteInv'
    BY <1>8 DEF UnlinkBlob, hist, Go, IInv, WriteInv, OpInv, CopyInv, LockInv,
       OneVault, Writing, Inside
  <1>9. ASSUME NEW t \in Threads, ReadToPurge(t) PROVE WriteInv'
    BY <1>9 DEF ReadToPurge, Readings, disk, Go, IInv, WriteInv, TypeOK,
       ReadItems, Writing, Inside
  <1>10. ASSUME NEW t \in Threads, FilterMissing(t) PROVE WriteInv'
    <2>1. \A u \in Threads : u = t \/ ~Inside(u)
      BY <1>10 DEF FilterMissing, Inside, IInv
    <2>2. /\ op[t] = "purge" /\ read[t] = idx.items /\ idx.whole
          /\ UNCHANGED <<idx, blobs>>
      BY <1>10 DEF FilterMissing, disk, IInv, OpInv, WriteInv
    <2>3. CASE Leave(t)
      <3>1. \A u \in Threads : pc'[u] \in {"idle", "lock"}
        BY <2>1, <2>3 DEF Leave, Unwind, Inside, IInv, TypeOK
      <3> QED
        BY <2>2, <3>1 DEF WriteInv, Writing
    <2>4. CASE ~Leave(t)
      <3>1. /\ out' = [out EXCEPT ![t] = Present(read[t])]
            /\ pc' = [pc EXCEPT ![t] = "wopen"]
            /\ UNCHANGED <<op, read>>
        BY <1>10, <2>4 DEF FilterMissing, Go
      <3>2. /\ pc'[t] = "wopen" /\ op'[t] = "purge" /\ read'[t] = idx'.items
            /\ out'[t] = Present(read[t])
        BY <2>2, <3>1 DEF IInv, TypeOK
      <3>3. \A u \in Threads \ {t} : pc'[u] \in {"idle", "lock"}
        BY <2>1, <3>1 DEF Inside, IInv, TypeOK
      <3> QED
        BY <2>2, <3>1, <3>2, <3>3 DEF WriteInv, Writing, Present
    <2> QED
      BY <2>3, <2>4
  <1>11. ASSUME NEW t \in Threads, FindToRestore(t) PROVE WriteInv'
    <2>1. \A u \in Threads : u = t \/ ~Inside(u)
      BY <1>11 DEF FindToRestore, Inside, IInv
    <2>2. \A u \in Threads : pc'[u] \in {"idle", "lock", "dest"}
      BY <1>11, <2>1 DEF FindToRestore, Go, Leave, Unwind, Inside, TypeOK
    <2> QED
      BY <1>11, <2>2 DEF FindToRestore, disk, IInv, WriteInv, Writing
  <1>12. ASSUME NEW t \in Threads, OpenDest(t) PROVE WriteInv'
    BY <1>12 DEF OpenDest, Go, IInv, WriteInv, Writing, Inside
  <1>13. ASSUME NEW t \in Threads, FillDest(t) PROVE WriteInv'
    BY <1>13 DEF FillDest, Go, Leave, Unwind, IInv, WriteInv, LockInv, TypeOK,
       Writing, Inside
  <1>14. ASSUME NEW t \in Threads, EnterDelete(t) PROVE WriteInv'
    BY <1>14 DEF EnterDelete, disk, Go, IInv, WriteInv, CopyInv, Writing,
       Inside
  <1>15. ASSUME NEW t \in Threads, OpenTmp(t) PROVE WriteInv'
    BY <1>15 DEF OpenTmp, disk, locals, hist, Go, IInv, WriteInv, OpInv,
       CopyInv, LockInv, OneVault, TypeOK, ReadItems, EntryOf, Entry, Listed,
       Writing, Inside, Present
  <1>16. ASSUME NEW t \in Threads, DumpTmp(t) PROVE WriteInv'
    BY <1>16 DEF DumpTmp, hist, Go, IInv, WriteInv, OpInv, TypeOK, EntryOf,
       Writing, Inside, Present
  <1>17. ASSUME NEW t \in Threads, RenameTmp(t) PROVE WriteInv'
    <2>1. \A u \in Threads : ~Inside(u)' \/ pc'[u] = "remove"
      BY <1>17 DEF RenameTmp, Leave, Unwind, Go, Inside, IInv, LockInv, TypeOK
    <2> QED
      BY <1>17, <2>1, RenameEffect DEF WriteInv, Writing, Inside
  <1>18. ASSUME NEW t \in Threads, Raise(t) PROVE WriteInv'
    BY <1>18 DEF Raise, disk, hist, Leave, Unwind, CloseAll, IInv, WriteInv,
       Writing, Inside
  <1>19. ASSUME NEW p \in Procs, Crash(p) PROVE WriteInv'
    BY <1>19 DEF Crash, disk, hist, Unwind, CloseAll, IInv, WriteInv, EntryOf,
       Writing, Present
  <1>20. ASSUME NEW p \in Paths, NEW c \in Contents, Appear(p, c) PROVE WriteInv'
    BY <1>20 DEF Appear, IInv, WriteInv, EntryOf, Writing, Present
  <1> QED
    BY <1>1, <1>2, <1>3, <1>4, <1>5, <1>6, <1>7, <1>8, <1>9, <1>10, <1>11,
       <1>12, <1>13, <1>14, <1>15, <1>16, <1>17, <1>18, <1>19, <1>20
    DEF Next, Step

\* No step drops an acknowledged item nobody asked to drop.
LEMMA AckedStep ==
  ASSUME OneVault, ~FaultyReads, IInv, TypeOK', Next PROVE AckedIsKept'
  <1> USE VaultAssumption, Alone
  <1>1. ASSUME NEW t \in Threads, Call(t) PROVE AckedIsKept'
    BY <1>1 DEF Call, CallQuarantine, CallOnItem, CallPurge, disk, hist, IInv,
       AckedIsKept, ReadItems
  <1>2. ASSUME NEW t \in Threads, Lock(t) PROVE AckedIsKept'
    BY <1>2 DEF Lock, disk, hist, IInv, AckedIsKept, ReadItems
  <1>3. ASSUME NEW t \in Threads, CreateBlob(t) PROVE AckedIsKept'
    BY <1>3 DEF CreateBlob, IInv, AckedIsKept, IdInv, ReadItems
  <1>4. ASSUME NEW t \in Threads, CopyBlob(t) PROVE AckedIsKept'
    <2>1. ~Listed(id[t]) /\ id[t] \in Ids
      BY <1>4 DEF CopyBlob, IInv, CopyInv, TypeOK
    <2>2. /\ UNCHANGED <<idx, asked, acked>>
          /\ \A i \in Ids \ {id[t]} : blobs'[i] = blobs[i]
      BY <1>4 DEF CopyBlob, hist, IInv, TypeOK
    <2>3. \A a \in acked : a.entry.id \in Ids
      BY DEF IInv, TypeOK, Ack, Entry
    <2> QED
      BY <2>1, <2>2, <2>3 DEF IInv, AckedIsKept, Listed, ReadItems
  <1>5. ASSUME NEW t \in Threads, AppendEntry(t) PROVE AckedIsKept'
    BY <1>5 DEF AppendEntry, disk, hist, IInv, AckedIsKept, ReadItems
  <1>6. ASSUME NEW t \in Threads, RemoveOriginal(t) PROVE AckedIsKept'
    BY <1>6 DEF RemoveOriginal, IInv, AckedIsKept, CopyInv, ReadItems,
       EntryOf, Listed, Writing
  <1>7. ASSUME NEW t \in Threads, FindToDelete(t) PROVE AckedIsKept'
    BY <1>7 DEF FindToDelete, disk, IInv, AckedIsKept, ReadItems
  <1>8. ASSUME NEW t \in Threads, UnlinkBlob(t) PROVE AckedIsKept'
    BY <1>8 DEF UnlinkBlob, hist, IInv, AckedIsKept, WriteInv, TypeOK,
       ReadItems, Entry
  <1>9. ASSUME NEW t \in Threads, ReadToPurge(t) PROVE AckedIsKept'
    BY <1>9 DEF ReadToPurge, disk, hist, IInv, AckedIsKept, ReadItems
  <1>10. ASSUME NEW t \in Threads, FilterMissing(t) PROVE AckedIsKept'
    BY <1>10 DEF FilterMissing, disk, hist, IInv, AckedIsKept, ReadItems
  <1>11. ASSUME NEW t \in Threads, FindToRestore(t) PROVE AckedIsKept'
    BY <1>11 DEF FindToRestore, disk, hist, IInv, AckedIsKept, ReadItems
  <1>12. ASSUME NEW t \in Threads, OpenDest(t) PROVE AckedIsKept'
    BY <1>12 DEF OpenDest, IInv, AckedIsKept, ReadItems
  <1>13. ASSUME NEW t \in Threads, FillDest(t) PROVE AckedIsKept'
    BY <1>13 DEF FillDest, IInv, AckedIsKept, ReadItems
  <1>14. ASSUME NEW t \in Threads, EnterDelete(t) PROVE AckedIsKept'
    BY <1>14 DEF EnterDelete, disk, hist, IInv, AckedIsKept, ReadItems
  <1>15. ASSUME NEW t \in Threads, OpenTmp(t) PROVE AckedIsKept'
    BY <1>15 DEF OpenTmp, hist, IInv, AckedIsKept, ReadItems
  <1>16. ASSUME NEW t \in Threads, DumpTmp(t) PROVE AckedIsKept'
    BY <1>16 DEF DumpTmp, hist, IInv, AckedIsKept, WriteInv, ReadItems
  <1>17. ASSUME NEW t \in Threads, RenameTmp(t) PROVE AckedIsKept'
    <2>1. UNCHANGED <<blobs, asked, acked>>
      BY <1>17 DEF RenameTmp, hist
    <2> QED
      BY <1>17, <2>1, RenameEffect DEF IInv, AckedIsKept, IndexedIsWhole,
         FileContents
  <1>18. ASSUME NEW t \in Threads, Raise(t) PROVE AckedIsKept'
    BY <1>18 DEF Raise, disk, hist, IInv, AckedIsKept, ReadItems
  <1>19. ASSUME NEW p \in Procs, Crash(p) PROVE AckedIsKept'
    BY <1>19 DEF Crash, disk, hist, IInv, AckedIsKept, ReadItems
  <1>20. ASSUME NEW p \in Paths, NEW c \in Contents, Appear(p, c) PROVE AckedIsKept'
    BY <1>20 DEF Appear, IInv, AckedIsKept, ReadItems
  <1> QED
    BY <1>1, <1>2, <1>3, <1>4, <1>5, <1>6, <1>7, <1>8, <1>9, <1>10, <1>11,
       <1>12, <1>13, <1>14, <1>15, <1>16, <1>17, <1>18, <1>19, <1>20
    DEF Next, Step

\* No step lists an item without its blob.
LEMMA WholeStep ==
  ASSUME OneVault, ~FaultyReads, IInv, TypeOK', Next PROVE IndexedIsWhole'
  <1> USE VaultAssumption, Alone
  <1>1. ASSUME NEW t \in Threads, Call(t) PROVE IndexedIsWhole'
    BY <1>1 DEF Call, CallQuarantine, CallOnItem, CallPurge, disk, hist, IInv,
       IndexedIsWhole, ReadItems
  <1>2. ASSUME NEW t \in Threads, Lock(t) PROVE IndexedIsWhole'
    BY <1>2 DEF Lock, disk, hist, IInv, IndexedIsWhole, ReadItems
  <1>3. ASSUME NEW t \in Threads, CreateBlob(t) PROVE IndexedIsWhole'
    BY <1>3 DEF CreateBlob, IInv, IndexedIsWhole, ReadItems, FileContents
  <1>4. ASSUME NEW t \in Threads, CopyBlob(t) PROVE IndexedIsWhole'
    <2>1. ~Listed(id[t]) /\ id[t] \in Ids
      BY <1>4 DEF CopyBlob, IInv, CopyInv, TypeOK
    <2>2. /\ UNCHANGED <<idx, asked>>
          /\ \A i \in Ids \ {id[t]} : blobs'[i] = blobs[i]
      BY <1>4 DEF CopyBlob, hist, IInv, TypeOK
    <2>3. \A e \in ReadItems : e.id \in Ids
      BY DEF ReadItems, IInv, TypeOK, IndexText, Entry
    <2> QED
      BY <2>1, <2>2, <2>3 DEF IInv, IndexedIsWhole, Listed, ReadItems
  <1>5. ASSUME NEW t \in Threads, AppendEntry(t) PROVE IndexedIsWhole'
    BY <1>5 DEF AppendEntry, disk, hist, IInv, IndexedIsWhole, ReadItems
  <1>6. ASSUME NEW t \in Threads, RemoveOriginal(t) PROVE IndexedIsWhole'
    BY <1>6 DEF RemoveOriginal, IInv, IndexedIsWhole, ReadItems
  <1>7. ASSUME NEW t \in Threads, FindToDelete(t) PROVE IndexedIsWhole'
    BY <1>7 DEF FindToDelete, disk, IInv, IndexedIsWhole, ReadItems
  <1>8. ASSUME NEW t \in Threads, UnlinkBlob(t) PROVE IndexedIsWhole'
    BY <1>8 DEF UnlinkBlob, hist, Go, IInv, IndexedIsWhole, WriteInv, TypeOK,
       ReadItems, Entry
  <1>9. ASSUME NEW t \in Threads, ReadToPurge(t) PROVE IndexedIsWhole'
    BY <1>9 DEF ReadToPurge, disk, hist, IInv, IndexedIsWhole, ReadItems
  <1>10. ASSUME NEW t \in Threads, FilterMissing(t) PROVE IndexedIsWhole'
    BY <1>10 DEF FilterMissing, disk, hist, IInv, IndexedIsWhole, ReadItems
  <1>11. ASSUME NEW t \in Threads, FindToRestore(t) PROVE IndexedIsWhole'
    BY <1>11 DEF FindToRestore, disk, hist, IInv, IndexedIsWhole, ReadItems
  <1>12. ASSUME NEW t \in Threads, OpenDest(t) PROVE IndexedIsWhole'
    BY <1>12 DEF OpenDest, IInv, IndexedIsWhole, ReadItems
  <1>13. ASSUME NEW t \in Threads, FillDest(t) PROVE IndexedIsWhole'
    BY <1>13 DEF FillDest, IInv, IndexedIsWhole, ReadItems
  <1>14. ASSUME NEW t \in Threads, EnterDelete(t) PROVE IndexedIsWhole'
    BY <1>14 DEF EnterDelete, disk, hist, IInv, IndexedIsWhole, ReadItems
  <1>15. ASSUME NEW t \in Threads, OpenTmp(t) PROVE IndexedIsWhole'
    BY <1>15 DEF OpenTmp, hist, IInv, IndexedIsWhole, ReadItems
  <1>16. ASSUME NEW t \in Threads, DumpTmp(t) PROVE IndexedIsWhole'
    BY <1>16 DEF DumpTmp, hist, IInv, IndexedIsWhole, WriteInv, ReadItems
  <1>17. ASSUME NEW t \in Threads, RenameTmp(t) PROVE IndexedIsWhole'
    <2>1. UNCHANGED <<blobs, asked>>
      BY <1>17 DEF RenameTmp, hist
    <2> QED
      BY <1>17, <2>1, RenameEffect DEF IInv, IndexedIsWhole
  <1>18. ASSUME NEW t \in Threads, Raise(t) PROVE IndexedIsWhole'
    BY <1>18 DEF Raise, disk, hist, IInv, IndexedIsWhole, ReadItems
  <1>19. ASSUME NEW p \in Procs, Crash(p) PROVE IndexedIsWhole'
    BY <1>19 DEF Crash, disk, hist, IInv, IndexedIsWhole, ReadItems
  <1>20. ASSUME NEW p \in Paths, NEW c \in Contents, Appear(p, c) PROVE IndexedIsWhole'
    BY <1>20 DEF Appear, IInv, IndexedIsWhole, ReadItems
  <1> QED
    BY <1>1, <1>2, <1>3, <1>4, <1>5, <1>6, <1>7, <1>8, <1>9, <1>10, <1>11,
       <1>12, <1>13, <1>14, <1>15, <1>16, <1>17, <1>18, <1>19, <1>20
    DEF Next, Step

\* Initially nobody is inside, nothing is listed and nothing acknowledged.
LEMMA InitIInv == Init => IInv
  <1> SUFFICES ASSUME Init PROVE IInv
    OBVIOUS
  <1>1. TypeOK
    BY InitType
  <1>2. /\ \A t \in Threads : pc[t] = "idle" /\ fd[t] = NoFile
        /\ ReadItems = {} /\ idx.whole /\ acked = {} /\ asked = {}
    BY DEF Init, ReadItems
  <1> QED
    BY <1>1, <1>2, VaultAssumption DEF IInv, LockInv, OpInv, FdInv, IdInv,
       CopyInv, WriteInv, AckedIsKept, IndexedIsWhole, Inside, Writing

\* The inductive invariant is preserved by every step.
LEMMA IInvStep ==
  ASSUME OneVault, ~FaultyReads PROVE IInv /\ [Next]_vars => IInv'
  <1> SUFFICES ASSUME IInv, [Next]_vars PROVE IInv'
    OBVIOUS
  <1>1. TypeOK'
    BY TypeStep DEF IInv
  <1>2. CASE Next
    BY <1>1, <1>2, LockStep, OpStep, FdStep, IdStep, CopyStep, WriteStep,
       AckedStep, WholeStep DEF IInv
  <1>3. CASE UNCHANGED vars
    BY <1>1, <1>3 DEF vars, disk, locals, hist, IInv, LockInv, OpInv, FdInv,
       IdInv, CopyInv, WriteInv, AckedIsKept, IndexedIsWhole, Inside, Writing,
       Listed, ReadItems, EntryOf, Present
  <1> QED
    BY <1>2, <1>3

\* Whoever is not the caller inside the vault waits outside.
LEMMA OthersWait ==
  ASSUME OneVault, IInv, NEW t \in Threads, Inside(t)
  PROVE \A u \in Threads : u = t \/ pc[u] \in {"idle", "lock"}
  BY Alone DEF IInv, Inside

\* Only the caller inside the vault, or another program, touches the
\* destination and the blob of a restore.
LEMMA RestoreStep ==
  ASSUME OneVault, ~FaultyReads, IInv, RestoreInv, TypeOK', Next
  PROVE  RestoreInv'
  <1> USE VaultAssumption
  <1> DEFINE Busy == {"dest", "fill", "enter", "read", "unlink"}
  <1>1. ASSUME NEW t \in Threads, Call(t) PROVE RestoreInv'
    BY <1>1 DEF Call, CallQuarantine, CallOnItem, CallPurge, disk, Go, IInv,
       TypeOK, RestoreInv, ReadItems, EntryOf
  <1>2. ASSUME NEW t \in Threads, Lock(t) PROVE RestoreInv'
    <2>1. op[t] \in Ops /\ pc'[t] \in {"create", "find", "read"}
          /\ (pc'[t] = "read" => op[t] # "restore")
      BY <1>2 DEF Lock, Go, IInv, OpInv, TypeOK, Ops
    <2> QED
      BY <1>2, <2>1 DEF Lock, disk, Go, IInv, TypeOK, RestoreInv, ReadItems,
         EntryOf
  <1>3. ASSUME NEW t \in Threads, CreateBlob(t) PROVE RestoreInv'
    <2>1. \A u \in Threads : pc'[u] \notin Busy
      BY <1>3, OthersWait DEF CreateBlob, Go, Inside, IInv, TypeOK
    <2> QED
      BY <2>1 DEF RestoreInv
  <1>4. ASSUME NEW t \in Threads, CopyBlob(t) PROVE RestoreInv'
    <2>1. \A u \in Threads : pc'[u] \notin Busy
      BY <1>4, OthersWait DEF CopyBlob, Go, Inside, IInv, TypeOK
    <2> QED
      BY <2>1 DEF RestoreInv
  <1>5. ASSUME NEW t \in Threads, AppendEntry(t) PROVE RestoreInv'
    <2>1. \A u \in Threads : pc'[u] \notin Busy
      BY <1>5, OthersWait DEF AppendEntry, Go, Inside, IInv, TypeOK
    <2> QED
      BY <2>1 DEF RestoreInv
  <1>6. ASSUME NEW t \in Threads, RemoveOriginal(t) PROVE RestoreInv'
    <2>1. \A u \in Threads : pc'[u] \notin Busy
      BY <1>6, OthersWait DEF RemoveOriginal, Unwind, Inside, IInv, TypeOK
    <2> QED
      BY <2>1 DEF RestoreInv
  <1>7. ASSUME NEW t \in Threads, FindToDelete(t) PROVE RestoreInv'
    <2>1. \A u \in Threads : u = t \/ pc[u] \in {"idle", "lock"}
      BY <1>7, OthersWait DEF FindToDelete, Inside
    <2>2. CASE Leave(t)
      <3>1. \A u \in Threads : pc'[u] \notin Busy
        BY <2>1, <2>2 DEF Leave, Unwind
      <3> QED
        BY <3>1 DEF RestoreInv
    <2>3. CASE ~Leave(t)
      BY <1>7, <2>1, <2>3 DEF FindToDelete, disk, Go, IInv, TypeOK, RestoreInv
    <2> QED
      BY <2>2, <2>3
  <1>8. ASSUME NEW t \in Threads, UnlinkBlob(t) PROVE RestoreInv'
    <2>1. \A u \in Threads : pc'[u] \notin Busy
      BY <1>8, OthersWait DEF UnlinkBlob, Go, Inside, IInv, TypeOK
    <2> QED
      BY <2>1 DEF RestoreInv
  <1>9. ASSUME NEW t \in Threads, ReadToPurge(t) PROVE RestoreInv'
    <2>1. \A u \in Threads : pc'[u] \notin Busy
      BY <1>9, OthersWait DEF ReadToPurge, Go, Inside, IInv, TypeOK
    <2> QED
      BY <2>1 DEF RestoreInv
  <1>10. ASSUME NEW t \in Threads, FilterMissing(t) PROVE RestoreInv'
    <2>1. \A u \in Threads : pc'[u] \notin Busy
      BY <1>10, OthersWait DEF FilterMissing, Leave, Unwind, Go, Inside, IInv,
         TypeOK
    <2> QED
      BY <2>1 DEF RestoreInv
  <1>11. ASSUME NEW t \in Threads, FindToRestore(t) PROVE RestoreInv'
    <2>1. \A u \in Threads : u = t \/ pc[u] \in {"idle", "lock"}
      BY <1>11, OthersWait DEF FindToRestore, Inside
    <2>2. CASE Leave(t)
      <3>1. \A u \in Threads : pc'[u] \notin Busy
        BY <2>1, <2>2 DEF Leave, Unwind
      <3> QED
        BY <3>1 DEF RestoreInv
    <2>3. CASE ~Leave(t)
      <3>1. PICK e \in ReadItems :
              /\ e.id = id[t] /\ path' = [path EXCEPT ![t] = e.path]
              /\ pc' = [pc EXCEPT ![t] = "dest"]
              /\ UNCHANGED <<idx, id>>
        BY <1>11, <2>3 DEF FindToRestore, Readings, Go, disk
      <3>2. e \in Entry /\ ReadItems' = ReadItems
        BY <3>1 DEF ReadItems, IInv, TypeOK, IndexText
      <3>3. EntryOf(t)' = e
        BY <3>1, <3>2 DEF EntryOf, Entry, IInv, TypeOK
      <3>4. \A u \in Threads \ {t} : pc'[u] \notin Busy
        BY <2>1, <3>1 DEF IInv, TypeOK
      <3>5. pc'[t] = "dest"
        BY <3>1 DEF IInv, TypeOK
      <3> QED
        BY <3>2, <3>3, <3>4, <3>5 DEF RestoreInv
    <2> QED
      BY <2>2, <2>3
  <1>12. ASSUME NEW t \in Threads, OpenDest(t) PROVE RestoreInv'
    <2>1. \A u \in Threads : u = t \/ pc[u] \in {"idle", "lock"}
      BY <1>12, OthersWait DEF OpenDest, Inside
    <2>2. /\ pc' = [pc EXCEPT ![t] = "fill"] /\ fd'[t] = Attached
          /\ fs'[path'[t]] = Truncated /\ ReadItems' = ReadItems
          /\ EntryOf(t)' = EntryOf(t) /\ pc[t] = "dest"
      BY <1>12 DEF OpenDest, Go, ReadItems, EntryOf, IInv, TypeOK
    <2>3. EntryOf(t) \in ReadItems
      BY <2>2 DEF RestoreInv
    <2> QED
      BY <2>1, <2>2, <2>3 DEF IInv, TypeOK, RestoreInv
  <1>13. ASSUME NEW t \in Threads, FillDest(t) PROVE RestoreInv'
    <2>1. \A u \in Threads : u = t \/ pc[u] \in {"idle", "lock"}
      BY <1>13, OthersWait DEF FillDest, Inside
    <2>2. CASE Leave(t)
      <3>1. \A u \in Threads : pc'[u] \notin Busy
        BY <2>1, <2>2 DEF Leave, Unwind
      <3> QED
        BY <3>1 DEF RestoreInv
    <2>3. CASE ~Leave(t)
      <3>1. /\ pc' = [pc EXCEPT ![t] = "enter"] /\ pc[t] = "fill"
            /\ UNCHANGED <<fd, path, id, blobs, idx>>
            /\ fd[t] = Attached => fs'[path[t]] = blobs[id[t]]
        BY <1>13, <2>3 DEF FillDest, Go, IInv, TypeOK
      <3>2. fd[t] # NoFile
        BY <3>1 DEF RestoreInv
      <3> QED
        BY <2>1, <3>1, <3>2 DEF IInv, TypeOK, RestoreInv
    <2> QED
      BY <2>2, <2>3
  <1>14. ASSUME NEW t \in Threads, EnterDelete(t) PROVE RestoreInv'
    <2>1. \A u \in Threads : u = t \/ pc[u] \in {"idle", "lock"}
      BY <1>14, OthersWait DEF EnterDelete, Inside
    <2>2. op[t] = "restore" /\ pc[t] = "enter"
      BY <1>14 DEF EnterDelete, IInv, OpInv
    <2> QED
      BY <1>14, <2>1, <2>2 DEF EnterDelete, disk, Go, IInv, TypeOK, RestoreInv
  <1>15. ASSUME NEW t \in Threads, OpenTmp(t) PROVE RestoreInv'
    <2>1. \A u \in Threads : pc'[u] \notin Busy
      BY <1>15, OthersWait DEF OpenTmp, Go, Inside, IInv, TypeOK
    <2> QED
      BY <2>1 DEF RestoreInv
  <1>16. ASSUME NEW t \in Threads, DumpTmp(t) PROVE RestoreInv'
    <2>1. \A u \in Threads : pc'[u] \notin Busy
      BY <1>16, OthersWait DEF DumpTmp, Go, Inside, IInv, TypeOK
    <2> QED
      BY <2>1 DEF RestoreInv
  <1>17. ASSUME NEW t \in Threads, RenameTmp(t) PROVE RestoreInv'
    <2>1. \A u \in Threads : pc'[u] \notin Busy
      BY <1>17, OthersWait DEF RenameTmp, Leave, Unwind, Go, Inside, IInv,
         TypeOK
    <2> QED
      BY <2>1 DEF RestoreInv
  <1>18. ASSUME NEW t \in Threads, Raise(t) PROVE RestoreInv'
    <2>1. \A u \in Threads : pc'[u] \notin Busy
      BY <1>18, OthersWait DEF Raise, Leave, Unwind, Inside, IInv, TypeOK
    <2> QED
      BY <2>1 DEF RestoreInv
  <1>19. ASSUME NEW p \in Procs, Crash(p) PROVE RestoreInv'
    BY <1>19 DEF Crash, disk, Unwind, CloseAll, IInv, TypeOK, RestoreInv,
       ReadItems, EntryOf
  <1>20. ASSUME NEW p \in Paths, NEW c \in Contents, Appear(p, c)
         PROVE  RestoreInv'
    <2>1. UNCHANGED <<blobs, idx, pc, op, path, id>>
      BY <1>20 DEF Appear
    <2>2. ASSUME NEW t \in Threads
          PROVE  /\ fd'[t] = Attached => /\ fd[t] = Attached
                                        /\ fs'[path[t]] = fs[path[t]]
                 /\ fd[t] # NoFile => fd'[t] # NoFile
      BY <1>20, <2>2 DEF Appear, Detached, IInv, FdInv, TypeOK, FileContents
    <2> QED
      BY <2>1, <2>2 DEF RestoreInv, ReadItems, EntryOf
  <1> QED
    BY <1>1, <1>2, <1>3, <1>4, <1>5, <1>6, <1>7, <1>8, <1>9, <1>10, <1>11,
       <1>12, <1>13, <1>14, <1>15, <1>16, <1>17, <1>18, <1>19, <1>20
    DEF Next, Step

\* No step of the vault gives a content a home it did not have.
LEMMA ClaimsKept ==
  ASSUME OneVault, ~FaultyReads, IInv, RestoreInv, TypeOK', Next,
         NEW c \in Contents, NEW q \in Paths, Claims(c, q)',
         \A p \in Paths, d \in Contents : ~Appear(p, d)
  PROVE  Claims(c, q)
  <1> USE VaultAssumption
  <1>1. ASSUME NEW t \in Threads, Call(t) PROVE Claims(c, q)
    BY <1>1 DEF Call, CallQuarantine, CallOnItem, CallPurge, disk, IInv,
       TypeOK, Claims, ReadItems
  <1>2. ASSUME NEW t \in Threads, Lock(t) PROVE Claims(c, q)
    BY <1>2 DEF Lock, disk, Claims, ReadItems
  <1>3. ASSUME NEW t \in Threads, CreateBlob(t) PROVE Claims(c, q)
    BY <1>3 DEF CreateBlob, IInv, TypeOK, Claims, ReadItems
  <1>4. ASSUME NEW t \in Threads, CopyBlob(t) PROVE Claims(c, q)
    <2>1. ~Listed(id[t])
      BY <1>4 DEF CopyBlob, IInv, CopyInv
    <2> QED
      BY <1>4, <2>1 DEF CopyBlob, Behind, IInv, TypeOK, Claims, ReadItems,
         Listed
  <1>5. ASSUME NEW t \in Threads, AppendEntry(t) PROVE Claims(c, q)
    BY <1>5 DEF AppendEntry, disk, Claims, ReadItems
  <1>6. ASSUME NEW t \in Threads, RemoveOriginal(t) PROVE Claims(c, q)
    <2>1. /\ UNCHANGED <<blobs, idx>>
          /\ \A u \in Threads : u # t => path'[u] = path[u]
      BY <1>6 DEF RemoveOriginal, Unwind
    <2>2. fs'[q] = c => fs[q] = c
      BY <1>6 DEF RemoveOriginal, IInv, TypeOK
    <2>3. fd'[t] = NoFile
      BY <1>6 DEF RemoveOriginal, IInv, TypeOK
    <2>4. ASSUME NEW u \in Threads, u # t, fd'[u] = c, path[u] = q
          PROVE  fd[u] = c \/ fs[q] = c
      BY <1>6, <2>4 DEF RemoveOriginal, Detached, IInv, TypeOK
    <2> QED
      BY <2>1, <2>2, <2>3, <2>4 DEF Claims, ReadItems
  <1>7. ASSUME NEW t \in Threads, FindToDelete(t) PROVE Claims(c, q)
    BY <1>7 DEF FindToDelete, disk, Leave, Unwind, CloseAll, Claims, ReadItems
  <1>8. ASSUME NEW t \in Threads, UnlinkBlob(t) PROVE Claims(c, q)
    <2>1. \A e \in ReadItems : e.id \in Ids
      BY DEF ReadItems, IInv, TypeOK, IndexText, Entry
    <2>2. \A i \in Ids : blobs'[i] = c => blobs[i] = c
      BY <1>8 DEF UnlinkBlob, IInv, TypeOK
    <2> QED
      BY <1>8, <2>1, <2>2 DEF UnlinkBlob, Claims, ReadItems
  <1>9. ASSUME NEW t \in Threads, ReadToPurge(t) PROVE Claims(c, q)
    BY <1>9 DEF ReadToPurge, disk, Claims, ReadItems
  <1>10. ASSUME NEW t \in Threads, FilterMissing(t) PROVE Claims(c, q)
    BY <1>10 DEF FilterMissing, disk, Leave, Unwind, CloseAll, Claims, ReadItems
  <1>11. ASSUME NEW t \in Threads, FindToRestore(t) PROVE Claims(c, q)
    <2>1. fd[t] = NoFile
      BY <1>11 DEF FindToRestore, IInv, FdInv
    <2>2. UNCHANGED <<fs, blobs, idx>> /\ fd'[t] = NoFile
      BY <1>11, <2>1 DEF FindToRestore, disk, Leave, CloseAll
    <2>3. \A u \in Threads \ {t} : path'[u] = path[u] /\ fd'[u] = fd[u]
      BY <1>11 DEF FindToRestore, Leave, Unwind, CloseAll, IInv, TypeOK
    <2> QED
      BY <2>2, <2>3 DEF Claims, ReadItems
  <1>12. ASSUME NEW t \in Threads, OpenDest(t) PROVE Claims(c, q)
    BY <1>12 DEF OpenDest, IInv, TypeOK, Claims, ReadItems
  <1>13. ASSUME NEW t \in Threads, FillDest(t) PROVE Claims(c, q)
    <2>1. EntryOf(t) \in ReadItems /\ EntryOf(t).path = path[t]
          /\ EntryOf(t).id = id[t]
      BY <1>13 DEF FillDest, RestoreInv, EntryOf
    <2>2. fs'[q] = c => fs[q] = c \/ (q = path[t] /\ blobs[id[t]] = c)
      BY <1>13 DEF FillDest, IInv, TypeOK
    <2>3. UNCHANGED <<blobs, idx>>
      BY <1>13 DEF FillDest
    <2>4. \A u \in Threads : fd'[u] = NoFile
                             \/ (path'[u] = path[u] /\ fd'[u] = fd[u])
      BY <1>13 DEF FillDest, Leave, Unwind, CloseAll
    <2> QED
      BY <2>1, <2>2, <2>3, <2>4 DEF Claims, ReadItems
  <1>14. ASSUME NEW t \in Threads, EnterDelete(t) PROVE Claims(c, q)
    BY <1>14 DEF EnterDelete, disk, Claims, ReadItems
  <1>15. ASSUME NEW t \in Threads, OpenTmp(t) PROVE Claims(c, q)
    BY <1>15 DEF OpenTmp, Claims, ReadItems
  <1>16. ASSUME NEW t \in Threads, DumpTmp(t) PROVE Claims(c, q)
    BY <1>16 DEF DumpTmp, IInv, WriteInv, Claims, ReadItems
  <1>17. ASSUME NEW t \in Threads, RenameTmp(t) PROVE Claims(c, q)
    <2>1. UNCHANGED <<fs, blobs>>
      BY <1>17 DEF RenameTmp
    <2>2. \A u \in Threads : fd'[u] = NoFile
                             \/ (path'[u] = path[u] /\ fd'[u] = fd[u])
      BY <1>17, RenameEffect DEF RenameTmp, Unwind, IInv, TypeOK
    <2>3. ASSUME NEW e \in ReadItems', e.path = q, blobs[e.id] = c
          PROVE  Claims(c, q)
      <3>1. CASE e \in ReadItems
        BY <2>3, <3>1 DEF Claims
      <3>2. CASE op[t] = "quarantine" /\ e = EntryOf(t)
        <4>1. blobs[id[t]] = fd[t]
          BY <1>17, <3>2 DEF RenameTmp, IInv, CopyInv, Writing
        <4> QED
          BY <2>3, <3>2, <4>1 DEF EntryOf, Claims
      <3> QED
        BY <1>17, <2>3, <3>1, <3>2, RenameEffect
    <2> QED
      BY <2>1, <2>2, <2>3 DEF Claims
  <1>18. ASSUME NEW t \in Threads, Raise(t) PROVE Claims(c, q)
    BY <1>18 DEF Raise, disk, Leave, Unwind, CloseAll, Claims, ReadItems
  <1>19. ASSUME NEW p \in Procs, Crash(p) PROVE Claims(c, q)
    BY <1>19 DEF Crash, disk, Unwind, CloseAll, Claims, ReadItems
  <1> QED
    BY <1>1, <1>2, <1>3, <1>4, <1>5, <1>6, <1>7, <1>8, <1>9, <1>10, <1>11,
       <1>12, <1>13, <1>14, <1>15, <1>16, <1>17, <1>18, <1>19
    DEF Next, Step

\* A new file has a content nothing else claims; a file that is replaced is
\* still claimed from there.
LEMMA HomeStep ==
  ASSUME OneVault, ~FaultyReads, IInv, RestoreInv, HomeInv, TypeOK', Next
  PROVE  HomeInv'
  <1> USE VaultAssumption
  <1>1. CASE \A p \in Paths, d \in Contents : ~Appear(p, d)
    BY <1>1, ClaimsKept DEF HomeInv
  <1>2. ASSUME NEW p \in Paths, NEW d \in Contents, Appear(p, d)
        PROVE  HomeInv'
    <2>1. UNCHANGED <<blobs, idx, path>>
          /\ fs' = [fs EXCEPT ![p] = d] /\ fd' = Detached(p)
      BY <1>2 DEF Appear
    <2>2. ASSUME NEW c \in Contents, NEW q \in Paths, c # d, Claims(c, q)'
          PROVE  Claims(c, q)
      <3>1. fs'[q] = c => fs[q] = c
        BY <2>1, <2>2 DEF IInv, TypeOK
      <3>2. ASSUME NEW t \in Threads, path[t] = q, fd'[t] = c
            PROVE  fd[t] = c \/ fs[q] = c
        BY <2>1, <3>2 DEF Detached
      <3> QED
        BY <2>1, <2>2, <3>1, <3>2 DEF Claims, ReadItems
    <2>3. ASSUME NEW q \in Paths, Claims(d, q)' PROVE q = p
      <3>1. /\ \A r \in Paths : fs[r] # d
            /\ \A i \in Ids : blobs[i] # d
            /\ \A t \in Threads : fd[t] # d
        BY <1>2 DEF Appear
      <3>2. \A e \in ReadItems : e.id \in Ids
        BY DEF ReadItems, IInv, TypeOK, IndexText, Entry
      <3>3. \A t \in Threads : fd'[t] # d
        BY <2>1, <3>1 DEF Detached
      <3> QED
        BY <2>1, <2>3, <3>1, <3>2, <3>3 DEF Claims, ReadItems, IInv, TypeOK
    <2> QED
      BY <2>2, <2>3 DEF HomeInv
  <1> QED
    BY <1>1, <1>2

\* A quarantine under way has opened or read its file.
LEMMA QuarantineHasRead ==
  ASSUME IInv, NEW t \in Threads, pc[t] # "idle", op[t] = "quarantine"
  PROVE  fd[t] # NoFile
  <1>1. pc[t] \in {"lock", "create", "copy", "append", "remove"} \/ Writing(t)
    BY DEF IInv, TypeOK, Labels, OpInv, Writing
  <1> QED
    BY <1>1, VaultAssumption DEF IInv, FdInv, CopyInv, FileContents

\* Whatever comes to a name a quarantine has read from is put at risk.
LEMMA RiskStep ==
  ASSUME OneVault, ~FaultyReads, IInv, RiskInv, TypeOK', Next
  PROVE  RiskInv'
  <1> USE VaultAssumption
  <1>1. ASSUME NEW t \in Threads, Call(t) PROVE RiskInv'
    BY <1>1 DEF Call, CallQuarantine, CallOnItem, CallPurge, disk, hist, Go,
       IInv, TypeOK, RiskInv
  <1>2. ASSUME NEW t \in Threads, Lock(t) PROVE RiskInv'
    BY <1>2 DEF Lock, disk, hist, Go, IInv, TypeOK, RiskInv
  <1>3. ASSUME NEW t \in Threads, CreateBlob(t) PROVE RiskInv'
    BY <1>3 DEF CreateBlob, Go, IInv, TypeOK, RiskInv
  <1>4. ASSUME NEW t \in Threads, CopyBlob(t) PROVE RiskInv'
    <2>1. fd'[t] = fs[path[t]] \/ fd'[t] = fd[t]
      BY <1>4 DEF CopyBlob, Behind, IInv, TypeOK
    <2>2. fd[t] = Attached => fd'[t] = fs[path[t]]
      BY <1>4 DEF CopyBlob, Behind, IInv, TypeOK
    <2> QED
      BY <1>4, <2>1, <2>2 DEF CopyBlob, hist, Go, IInv, TypeOK, RiskInv
  <1>5. ASSUME NEW t \in Threads, AppendEntry(t) PROVE RiskInv'
    BY <1>5 DEF AppendEntry, disk, hist, Go, IInv, TypeOK, RiskInv
  <1>6. ASSUME NEW t \in Threads, RemoveOriginal(t) PROVE RiskInv'
    <2>1. /\ UNCHANGED exposed /\ pc'[t] = "idle"
          /\ \A u \in Threads \ {t} : /\ pc'[u] = pc[u] /\ op'[u] = op[u]
                                      /\ path'[u] = path[u]
      BY <1>6 DEF RemoveOriginal, Unwind, IInv, TypeOK
    <2>2. \A p \in Paths : fs'[p] \in {fs[p], NoFile}
      BY <1>6 DEF RemoveOriginal, IInv, TypeOK
    <2>3. ASSUME NEW u \in Threads \ {t}, fd'[u] # Attached,
                 fs'[path[u]] \in Contents
          PROVE  fd'[u] = fd[u] \/ fd'[u] = fs[path[u]]
      BY <1>6, <2>3 DEF RemoveOriginal, Detached, IInv, TypeOK
    <2>4. ASSUME NEW u \in Threads \ {t}, fd[u] = Attached, fd'[u] # Attached
          PROVE  fs'[path[u]] = NoFile
      BY <1>6, <2>4 DEF RemoveOriginal, Detached, IInv, TypeOK
    <2>5. \A u \in Threads : path[u] \in Paths
      BY DEF IInv, TypeOK
    <2> QED
      BY <2>1, <2>2, <2>3, <2>4, <2>5 DEF RiskInv
  <1>7. ASSUME NEW t \in Threads, FindToDelete(t) PROVE RiskInv'
    BY <1>7 DEF FindToDelete, disk, Go, Leave, Unwind, CloseAll, IInv, TypeOK,
       RiskInv
  <1>8. ASSUME NEW t \in Threads, UnlinkBlob(t) PROVE RiskInv'
    BY <1>8 DEF UnlinkBlob, hist, Go, IInv, TypeOK, RiskInv
  <1>9. ASSUME NEW t \in Threads, ReadToPurge(t) PROVE RiskInv'
    BY <1>9 DEF ReadToPurge, disk, hist, Go, IInv, TypeOK, RiskInv
  <1>10. ASSUME NEW t \in Threads, FilterMissing(t) PROVE RiskInv'
    BY <1>10 DEF FilterMissing, disk, hist, Go, Leave, Unwind, CloseAll, IInv,
       TypeOK, RiskInv
  <1>11. ASSUME NEW t \in Threads, FindToRestore(t) PROVE RiskInv'
    <2>1. op[t] = "restore"
      BY <1>11 DEF FindToRestore, IInv, OpInv
    <2>2. \A u \in Threads \ {t} : /\ pc'[u] = pc[u] /\ op'[u] = op[u]
                                /\ path'[u] = path[u] /\ fd'[u] = fd[u]
      BY <1>11 DEF FindToRestore, Go, Leave, Unwind, CloseAll, IInv, TypeOK
    <2>3. op'[t] # "quarantine"
      BY <1>11, <2>1 DEF FindToRestore, Leave, Unwind
    <2> QED
      BY <1>11, <2>2, <2>3 DEF FindToRestore, disk, hist, RiskInv
  <1>12. ASSUME NEW t \in Threads, OpenDest(t) PROVE RiskInv'
    <2>1. op[t] = "restore"
      BY <1>12 DEF OpenDest, IInv, OpInv
    <2> QED
      BY <1>12, <2>1 DEF OpenDest, Go, IInv, TypeOK, RiskInv
  <1>13. ASSUME NEW t \in Threads, FillDest(t) PROVE RiskInv'
    <2>1. CASE Leave(t)
      <3>1. UNCHANGED <<fs, exposed>>
        BY <1>13, <2>1 DEF FillDest, Leave, Unwind, Go, IInv, TypeOK
      <3> QED
        BY <2>1, <3>1 DEF Leave, Unwind, CloseAll, IInv, TypeOK, RiskInv
    <2>2. CASE ~Leave(t)
      <3>1. /\ UNCHANGED <<op, path, fd>> /\ op[t] = "restore"
            /\ pc' = [pc EXCEPT ![t] = "enter"]
            /\ exposed' = exposed \cup AtRisk(path[t], blobs[id[t]])
            /\ \A p \in Paths : fs'[p] = fs[p]
                                \/ (p = path[t] /\ fs'[p] = blobs[id[t]])
        BY <1>13, <2>2 DEF FillDest, Go, IInv, OpInv, TypeOK
      <3>2. ASSUME NEW u \in Threads \ {t}, pc[u] # "idle",
                   op[u] = "quarantine", fd[u] # Attached,
                   fs'[path[u]] \in Contents
            PROVE  fs'[path[u]] \in exposed' \cup {fd[u]}
        <4>1. CASE fs'[path[u]] = fs[path[u]]
          BY <3>1, <3>2, <4>1 DEF RiskInv
        <4>2. CASE path[u] = path[t] /\ fs'[path[u]] = blobs[id[t]]
          BY <3>1, <3>2, <4>2, QuarantineHasRead DEF AtRisk
        <4> QED
          BY <3>1, <4>1, <4>2 DEF IInv, TypeOK
      <3> QED
        BY <3>1, <3>2 DEF IInv, TypeOK, RiskInv
    <2> QED
      BY <2>1, <2>2
  <1>14. ASSUME NEW t \in Threads, EnterDelete(t) PROVE RiskInv'
    BY <1>14 DEF EnterDelete, disk, hist, Go, IInv, TypeOK, RiskInv
  <1>15. ASSUME NEW t \in Threads, OpenTmp(t) PROVE RiskInv'
    BY <1>15 DEF OpenTmp, hist, Go, IInv, TypeOK, RiskInv
  <1>16. ASSUME NEW t \in Threads, DumpTmp(t) PROVE RiskInv'
    BY <1>16 DEF DumpTmp, hist, Go, IInv, TypeOK, RiskInv
  <1>17. ASSUME NEW t \in Threads, RenameTmp(t) PROVE RiskInv'
    BY <1>17, RenameEffect DEF RenameTmp, hist, Go, Unwind, IInv, TypeOK,
       RiskInv
  <1>18. ASSUME NEW t \in Threads, Raise(t) PROVE RiskInv'
    BY <1>18 DEF Raise, disk, hist, Go, Leave, Unwind, CloseAll, IInv, TypeOK,
       RiskInv
  <1>19. ASSUME NEW p \in Procs, Crash(p) PROVE RiskInv'
    BY <1>19 DEF Crash, disk, hist, Unwind, CloseAll, IInv, TypeOK, RiskInv
  <1>20. ASSUME NEW p \in Paths, NEW c \in Contents, Appear(p, c)
         PROVE  RiskInv'
    <2>1. /\ UNCHANGED <<pc, op, path>> /\ fs' = [fs EXCEPT ![p] = c]
          /\ fd' = Detached(p) /\ exposed \subseteq exposed'
      BY <1>20 DEF Appear
    <2>2. ASSUME NEW u \in Threads, pc[u] # "idle", op[u] = "quarantine",
                 fd'[u] # Attached, fs'[path[u]] \in Contents
          PROVE  fs'[path[u]] \in exposed' \cup {fd'[u]}
      <3>1. CASE path[u] # p
        BY <2>1, <2>2, <3>1 DEF Detached, RiskInv, IInv, TypeOK
      <3>2. CASE path[u] = p /\ fd[u] = Attached
        BY <1>20, <2>1, <3>2 DEF Appear, IInv, TypeOK
      <3>3. CASE path[u] = p /\ fd[u] # Attached
        <4>1. fd[u] \notin {NoFile, Attached, c}
          BY <1>20, <2>2, <3>3, QuarantineHasRead DEF Appear
        <4>2. c \in AtRisk(p, c)
          BY <3>3, <4>1 DEF AtRisk
        <4> QED
          BY <1>20, <2>1, <3>3, <4>2 DEF Appear, IInv, TypeOK
      <3> QED
        BY <3>1, <3>2, <3>3
    <2> QED
      BY <2>1, <2>2 DEF RiskInv
  <1> QED
    BY <1>1, <1>2, <1>3, <1>4, <1>5, <1>6, <1>7, <1>8, <1>9, <1>10, <1>11,
       <1>12, <1>13, <1>14, <1>15, <1>16, <1>17, <1>18, <1>19, <1>20
    DEF Next, Step

\* The invariants the refinement rests on.
RefinementInv == IInv /\ RestoreInv /\ RiskInv /\ HomeInv

\* With the disk unchanged a step is invisible, or it asks for an item.
LEMMA SameDisk ==
  ASSUME UNCHANGED <<fs, blobs>>, ReadItems' = ReadItems
  PROVE  Host' = Host /\ Held' = Held
  BY DEF Host, Held, Listed

\* A file has no copy: when its name goes or is replaced its content is gone.
LEMMA HostExcept ==
  ASSUME HomeInv, TypeOK, NEW p \in Paths, NEW v, fs' = [fs EXCEPT ![p] = v]
  PROVE  Host' = (Host \ {fs[p]}) \cup ({v} \cap Contents)
  <1>1. \A c \in Contents, q \in Paths : fs[q] = c /\ fs[p] = c => q = p
    BY DEF HomeInv, Claims
  <1>2. \A q \in Paths : fs'[q] = IF q = p THEN v ELSE fs[q]
    BY DEF TypeOK
  <1> QED
    BY <1>1, <1>2 DEF Host

\* Every step of the vault is a step of its promise, or is invisible to it.
LEMMA RefineStep ==
  ASSUME OneVault, ~FaultyReads, RefinementInv, TypeOK', Next
  PROVE  Promise!Next \/ UNCHANGED Promise!vars
  <1> USE VaultAssumption DEF RefinementInv
  <1> DEFINE Quiet == UNCHANGED <<fs, blobs, asked, exposed>>
                      /\ ReadItems' = ReadItems
             Goal == Promise!Next \/ UNCHANGED Promise!vars
  <1>0. Quiet => Goal
    BY SameDisk DEF Promise!vars
  <1>1. ASSUME NEW t \in Threads, Call(t) PROVE Quiet
    BY <1>1 DEF Call, CallQuarantine, CallOnItem, CallPurge, disk, hist,
       ReadItems
  <1>2. ASSUME NEW t \in Threads, Lock(t) PROVE Quiet
    BY <1>2 DEF Lock, disk, hist, ReadItems
  <1>3. ASSUME NEW t \in Threads, CreateBlob(t) PROVE Goal
    <2>1. PICK i \in Ids \ used : blobs' = [blobs EXCEPT ![i] = Torn]
      BY <1>3 DEF CreateBlob
    <2>2. UNCHANGED <<fs, asked, exposed>> /\ ReadItems' = ReadItems
      BY <1>3 DEF CreateBlob, ReadItems
    <2>3. ~Listed(i)
      BY <2>1 DEF IInv, IdInv, Listed
    <2>4. Host' = Host /\ Held' = Held
      BY <2>1, <2>2, <2>3 DEF Host, Held, Listed, IInv, TypeOK
    <2> QED
      BY <2>2, <2>4 DEF Promise!vars
  <1>4. ASSUME NEW t \in Threads, CopyBlob(t) PROVE Goal
    <2>1. blobs' = [blobs EXCEPT ![id[t]] = Behind(t)]
          /\ UNCHANGED <<fs, asked, exposed>> /\ ReadItems' = ReadItems
      BY <1>4 DEF CopyBlob, hist, ReadItems
    <2>2. ~Listed(id[t])
      BY <1>4 DEF CopyBlob, IInv, CopyInv
    <2>3. Host' = Host /\ Held' = Held
      BY <2>1, <2>2 DEF Host, Held, Listed, IInv, TypeOK
    <2> QED
      BY <2>1, <2>3 DEF Promise!vars
  <1>5. ASSUME NEW t \in Threads, AppendEntry(t) PROVE Quiet
    BY <1>5 DEF AppendEntry, disk, hist, ReadItems
  <1>6. ASSUME NEW t \in Threads, RemoveOriginal(t) PROVE Goal
    <2>1. UNCHANGED <<blobs, asked, exposed>> /\ ReadItems' = ReadItems
          /\ Held' = Held
      BY <1>6 DEF RemoveOriginal, ReadItems, Held, Listed
    <2>2. CASE UNCHANGED fs
      BY <1>0, <2>1, <2>2
    <2>3. CASE /\ fs' = [fs EXCEPT ![path[t]] = NoFile]
               /\ fs[path[t]] \notin Contents
      <3>1. Host' = Host
        BY <2>3, HostExcept DEF Host, IInv, TypeOK
      <3> QED
        BY <2>1, <3>1 DEF Promise!vars
    <2>4. CASE /\ fs' = [fs EXCEPT ![path[t]] = NoFile]
               /\ fs[path[t]] \in Contents
      <3> DEFINE c == fs[path[t]]
      <3>1. Host' = Host \ {c}
        <4>1. Host' = (Host \ {c}) \cup ({NoFile} \cap Contents)
          <5>1. TypeOK /\ HomeInv /\ path[t] \in Paths
            BY DEF IInv, TypeOK
          <5> QED
            BY <2>4, <5>1, HostExcept
        <4> QED
          BY <4>1
      <3>2. pc[t] = "remove" /\ op[t] = "quarantine" /\ fd[t] \in FileContents
            /\ blobs[id[t]] = fd[t] /\ EntryOf(t) \in ReadItems
        BY <1>6 DEF RemoveOriginal, IInv, OpInv, CopyInv
      <3>3. c \in exposed \/ c = fd[t]
        BY <2>4, <3>2 DEF RiskInv, FileContents
      <3>4. CASE c \in exposed
        BY <2>1, <2>4, <3>1, <3>4 DEF Promise!Next, Promise!Overwrite
      <3>5. CASE c = fd[t]
        <4>1. Held[id[t]] = c /\ id[t] \in Ids /\ c # NoFile
          BY <2>4, <3>2, <3>5 DEF Held, Listed, EntryOf, IInv, TypeOK
        <4>2. c \in Promise!Held
          BY <4>1 DEF Promise!Held
        <4> QED
          BY <2>1, <2>4, <3>1, <4>2 DEF Promise!Next, Promise!Drop
      <3> QED
        BY <3>3, <3>4, <3>5
    <2> QED
      BY <1>6, <2>2, <2>3, <2>4 DEF RemoveOriginal
  <1>7. ASSUME NEW t \in Threads, FindToDelete(t) PROVE Goal
    <2>1. UNCHANGED <<fs, blobs, exposed>> /\ ReadItems' = ReadItems
      BY <1>7 DEF FindToDelete, disk, ReadItems
    <2>2. Host' = Host /\ Held' = Held
      BY <2>1, SameDisk
    <2>3. CASE asked' = asked \cup {id[t]}
      BY <2>1, <2>2, <2>3 DEF Promise!Next, Promise!Ask, IInv, TypeOK
    <2>4. CASE UNCHANGED asked
      BY <2>1, <2>2, <2>4 DEF Promise!vars
    <2> QED
      BY <1>7, <2>3, <2>4 DEF FindToDelete
  <1>8. ASSUME NEW t \in Threads, UnlinkBlob(t) PROVE Goal
    <2>1. UNCHANGED <<fs, asked, exposed>> /\ ReadItems' = ReadItems
          /\ id[t] \in asked /\ id[t] \in Ids
      BY <1>8 DEF UnlinkBlob, hist, ReadItems, IInv, WriteInv, TypeOK
    <2>2. CASE UNCHANGED blobs
      BY <1>0, <2>1, <2>2
    <2>3. CASE blobs' = [blobs EXCEPT ![id[t]] = NoFile]
      <3>1. Host' = Host
        BY <2>1 DEF Host
      <3>2. Held' = [Held EXCEPT ![id[t]] = NoFile]
        BY <2>1, <2>3 DEF Held, Listed, IInv, TypeOK
      <3> QED
        BY <2>1, <3>1, <3>2 DEF Promise!Next, Promise!Discard
    <2> QED
      BY <1>8, <2>2, <2>3 DEF UnlinkBlob
  <1>9. ASSUME NEW t \in Threads, ReadToPurge(t) PROVE Quiet
    BY <1>9 DEF ReadToPurge, disk, hist, ReadItems
  <1>10. ASSUME NEW t \in Threads, FilterMissing(t) PROVE Quiet
    BY <1>10 DEF FilterMissing, disk, hist, ReadItems
  <1>11. ASSUME NEW t \in Threads, FindToRestore(t) PROVE Quiet
    BY <1>11 DEF FindToRestore, disk, hist, ReadItems
  <1>12. ASSUME NEW t \in Threads, OpenDest(t) PROVE Goal
    <2>1. /\ UNCHANGED <<blobs, asked>> /\ ReadItems' = ReadItems
          /\ Held' = Held
          /\ fs' = [fs EXCEPT ![path[t]] = Truncated] /\ path[t] \in Paths
          /\ exposed' = exposed \cup ({fs[path[t]]} \cap Contents)
      BY <1>12 DEF OpenDest, ReadItems, Held, Listed, IInv, TypeOK
    <2>2. Host' = Host \ {fs[path[t]]}
      <3>1. Host' = (Host \ {fs[path[t]]}) \cup ({Truncated} \cap Contents)
        <4>1. TypeOK /\ HomeInv
          BY DEF IInv
        <4> QED
          BY <2>1, <4>1, HostExcept
      <3> QED
        BY <3>1
    <2>3. CASE fs[path[t]] \in Contents
      BY <2>1, <2>2, <2>3 DEF Promise!Next, Promise!Overwrite
    <2>4. CASE fs[path[t]] \notin Contents
      <3>1. Host' = Host /\ exposed' = exposed
        BY <2>1, <2>2, <2>4 DEF Host
      <3> QED
        BY <2>1, <3>1 DEF Promise!vars
    <2> QED
      BY <2>3, <2>4
  <1>13. ASSUME NEW t \in Threads, FillDest(t) PROVE Goal
    <2>1. /\ UNCHANGED <<blobs, asked>> /\ ReadItems' = ReadItems
          /\ Held' = Held
          /\ path[t] \in Paths /\ id[t] \in Ids
      BY <1>13 DEF FillDest, ReadItems, Held, Listed, IInv, TypeOK
    <2>2. CASE UNCHANGED <<fs, exposed>>
      BY <1>0, <2>1, <2>2
    <2>3. CASE ~UNCHANGED <<fs, exposed>>
      <3> DEFINE c == blobs[id[t]]
      <3>1. /\ fs' = IF fd[t] = Attached THEN [fs EXCEPT ![path[t]] = c] ELSE fs
            /\ exposed' = exposed \cup AtRisk(path[t], c)
            /\ pc[t] = "fill" /\ c \in FileContents
        BY <1>13, <2>3 DEF FillDest
      <3>2. fd[t] = Attached => fs[path[t]] = Truncated
        BY <3>1 DEF RestoreInv
      <3>3. Host' = IF fd[t] = Attached
                    THEN Host \cup ({c} \cap Contents) ELSE Host
        <4>1. CASE fd[t] = Attached
          <5>1. TypeOK /\ HomeInv /\ fs' = [fs EXCEPT ![path[t]] = c]
            BY <3>1, <4>1 DEF IInv
          <5>2. Host' = (Host \ {fs[path[t]]}) \cup ({c} \cap Contents)
            BY <2>1, <5>1, HostExcept
          <5>3. fs[path[t]] \notin Host
            BY <3>2, <4>1 DEF Host
          <5> QED
            BY <4>1, <5>2, <5>3
        <4>2. CASE fd[t] # Attached
          BY <3>1, <4>2 DEF Host
        <4> QED
          BY <4>1, <4>2
      <3>4. CASE c = Truncated
        <4>1. exposed' = exposed /\ Host' = Host
          BY <3>1, <3>3, <3>4 DEF AtRisk
        <4> QED
          BY <2>1, <4>1 DEF Promise!vars
      <3>5. CASE c \in Contents
        <4>1. Held[id[t]] = c /\ c # NoFile
          <5>1. Listed(id[t])
            BY <3>1 DEF RestoreInv, Listed, EntryOf
          <5> QED
            BY <2>1, <3>5, <5>1 DEF Held
        <4>2. exposed' \in {exposed, exposed \cup {c}}
          BY <3>1, <3>5 DEF AtRisk
        <4>3. CASE Host' = Host \cup {c}
          BY <2>1, <4>1, <4>2, <4>3 DEF Promise!Next, Promise!PutBack
        <4>4. CASE Host' = Host /\ c \in Host
          <5>1. Host' = Host \cup {c}
            BY <4>4
          <5> QED
            BY <2>1, <4>1, <4>2, <5>1 DEF Promise!Next, Promise!PutBack
        <4>5. CASE Host' = Host /\ c \notin Host
          <5>1. CASE exposed' = exposed
            BY <2>1, <4>5, <5>1 DEF Promise!vars
          <5>2. CASE exposed' = exposed \cup {c}
            <6>1. Host' = Host \ {c}
              BY <4>5
            <6> QED
              BY <2>1, <3>5, <5>2, <6>1 DEF Promise!Next, Promise!Overwrite
          <5> QED
            BY <4>2, <5>1, <5>2
        <4> QED
          BY <3>3, <3>5, <4>3, <4>4, <4>5
      <3> QED
        BY <3>1, <3>4, <3>5 DEF FileContents
    <2> QED
      BY <2>2, <2>3
  <1>14. ASSUME NEW t \in Threads, EnterDelete(t) PROVE Quiet
    BY <1>14 DEF EnterDelete, disk, hist, ReadItems
  <1>15. ASSUME NEW t \in Threads, OpenTmp(t) PROVE Quiet
    BY <1>15 DEF OpenTmp, hist, ReadItems
  <1>16. ASSUME NEW t \in Threads, DumpTmp(t) PROVE Quiet
    BY <1>16 DEF DumpTmp, hist, IInv, WriteInv, ReadItems
  <1>17. ASSUME NEW t \in Threads, RenameTmp(t) PROVE Goal
    <2>1. UNCHANGED <<fs, blobs, asked, exposed>> /\ Host' = Host
          /\ id[t] \in Ids /\ Writing(t) /\ op[t] \in Ops
      BY <1>17 DEF RenameTmp, hist, Host, IInv, TypeOK, OpInv, Writing
    <2>2. ReadItems' = out[t] /\ read[t] = ReadItems
      BY <1>17, <2>1, RenameEffect DEF IInv, WriteInv
    <2>3. CASE op[t] = "quarantine"
      <3> DEFINE c == blobs[id[t]]
      <3>1. ReadItems' = ReadItems \cup {EntryOf(t)} /\ EntryOf(t).id = id[t]
        BY <2>1, <2>2, <2>3 DEF IInv, WriteInv, EntryOf
      <3>2. ~Listed(id[t]) /\ id[t] \notin asked /\ c \in FileContents
        BY <2>1, <2>3 DEF IInv, CopyInv
      <3>3. \A i \in Ids : Listed(i)' <=> Listed(i) \/ i = id[t]
        BY <3>1 DEF Listed
      <3>4. CASE c \in Contents
        <4>1. Held' = [Held EXCEPT ![id[t]] = c] /\ Held[id[t]] = NoFile
          BY <2>1, <3>2, <3>3, <3>4 DEF Held
        <4> QED
          BY <2>1, <3>2, <3>4, <4>1 DEF Promise!Next, Promise!Take
      <3>5. CASE c \notin Contents
        <4>1. Held' = Held
          BY <2>1, <3>2, <3>3, <3>5 DEF Held
        <4> QED
          BY <2>1, <4>1 DEF Promise!vars
      <3> QED
        BY <3>4, <3>5
    <2>4. CASE op[t] \in {"delete", "restore"}
      <3>1. id[t] \in asked /\ ReadItems' = {e \in ReadItems : e.id # id[t]}
        BY <2>1, <2>2, <2>4 DEF IInv, WriteInv
      <3>2. \A i \in Ids : Listed(i)' <=> Listed(i) /\ i # id[t]
        BY <3>1 DEF Listed
      <3>3. Held' = [Held EXCEPT ![id[t]] = NoFile]
        BY <2>1, <3>2 DEF Held
      <3> QED
        BY <2>1, <3>1, <3>3 DEF Promise!Next, Promise!Discard
    <2>5. CASE op[t] = "purge"
      <3>1. ReadItems' = {e \in ReadItems : blobs[e.id] # NoFile}
        BY <2>1, <2>2, <2>5 DEF IInv, WriteInv, Present
      <3>2. \A i \in Ids : blobs[i] \in Contents => (Listed(i)' <=> Listed(i))
        BY <3>1 DEF Listed
      <3>3. Held' = Held
        BY <2>1, <3>2 DEF Held
      <3> QED
        BY <2>1, <3>3 DEF Promise!vars
    <2> QED
      BY <2>1, <2>3, <2>4, <2>5 DEF Ops
  <1>18. ASSUME NEW t \in Threads, Raise(t) PROVE Quiet
    BY <1>18 DEF Raise, disk, hist, ReadItems
  <1>19. ASSUME NEW p \in Procs, Crash(p) PROVE Quiet
    BY <1>19 DEF Crash, disk, hist, ReadItems
  <1>20. ASSUME NEW p \in Paths, NEW c \in Contents, Appear(p, c) PROVE Goal
    <2> DEFINE gone == {fs[p]} \cap Contents
    <2>1. UNCHANGED <<blobs, asked>> /\ Held' = Held
      BY <1>20 DEF Appear, Held, Listed, ReadItems
    <2>2. c \notin Host /\ gone \in SUBSET Host
      BY <1>20 DEF Appear, Host
    <2>3. Host' = (Host \ gone) \cup {c}
      <3>1. Host' = (Host \ {fs[p]}) \cup ({c} \cap Contents)
        BY <1>20, HostExcept DEF Appear, IInv
      <3> QED
        BY <3>1 DEF Host
    <2>4. exposed' \in {exposed \cup gone, exposed \cup gone \cup {c}}
      BY <1>20 DEF Appear, AtRisk
    <2> QED
      BY <2>1, <2>2, <2>3, <2>4 DEF Promise!Next, Promise!Appear
  <1> HIDE DEF Quiet, Goal
  <1>21. Goal
    BY <1>0, <1>1, <1>2, <1>3, <1>4, <1>5, <1>6, <1>7, <1>8, <1>9, <1>10,
       <1>11, <1>12, <1>13, <1>14, <1>15, <1>16, <1>17, <1>18, <1>19, <1>20
    DEF Next, Step
  <1> QED
    BY <1>21 DEF Goal

\* Every variable keeps its type, in any number of processes.
THEOREM TypeSafe == Spec => []TypeOK
  BY InitType, TypeStep, PTL DEF Spec

\* The inductive invariant holds in every reachable state.
THEOREM VaultInvariant ==
  ASSUME OneVault, ~FaultyReads PROVE Spec => []IInv
  BY InitIInv, IInvStep, PTL DEF Spec

\* What quarantine() acknowledged stays in the index with its content until
\* somebody asks to delete or restore it: no interleaving of calls, failing
\* system call or kill of the process loses it.
THEOREM AcknowledgedIsSafe ==
  ASSUME OneVault, ~FaultyReads PROVE Spec => []AckedIsKept
  <1>1. IInv => AckedIsKept
    BY DEF IInv
  <1> QED
    BY <1>1, VaultInvariant, PTL

\* Every listed item nobody asked to drop has a complete blob.
THEOREM ListedIsRestorable ==
  ASSUME OneVault, ~FaultyReads PROVE Spec => []IndexedIsWhole
  <1>1. IInv => IndexedIsWhole
    BY DEF IInv
  <1> QED
    BY <1>1, VaultInvariant, PTL

\* With one vault object, what the docstring says of index mutations holds.
THEOREM MutationsAreSerialized ==
  ASSUME OneVault, ~FaultyReads PROVE Spec => []IndexMutationsSerialized
  <1>1. IInv => IndexMutationsSerialized
    BY DEF IInv, WriteInv, IndexMutationsSerialized, ReadItems, Writing
  <1> QED
    BY <1>1, VaultInvariant, PTL

\* restore() gives up the vault's copy only once the destination it opened
\* holds the blob, or another program has replaced that destination.
THEOREM RestoresBeforeItDeletes ==
  ASSUME OneVault, ~FaultyReads PROVE Spec => RestoreBeforeUnlink
  <1>1. Init => IInv /\ RestoreInv
    <2>1. Init => RestoreInv
      BY DEF Init, RestoreInv
    <2> QED
      BY <2>1, InitIInv
  <1>2. IInv /\ RestoreInv /\ [Next]_vars => (IInv /\ RestoreInv)'
    <2>1. IInv /\ RestoreInv /\ Next => RestoreInv'
      BY RestoreStep, TypeStep DEF IInv
    <2>2. RestoreInv /\ UNCHANGED vars => RestoreInv'
      BY DEF vars, disk, locals, hist, RestoreInv, ReadItems, EntryOf
    <2> QED
      BY <2>1, <2>2, IInvStep
  <1>3. IInv /\ RestoreInv /\ [Next]_vars =>
          [\A t \in Threads :
             UnlinkBlob(t) /\ op[t] = "restore" =>
               /\ fd[t] # NoFile
               /\ fd[t] = Attached => fs[path[t]] = blobs[id[t]]]_vars
    BY DEF RestoreInv, UnlinkBlob
  <1> QED
    BY <1>1, <1>2, <1>3, PTL DEF Spec, RestoreBeforeUnlink

\* The vault keeps its promise: with one vault object every behaviour is one
\* of Custody, so that a content leaves the host only when it is in custody or
\* was put at risk by others, and leaves custody only when somebody asked.
THEOREM VaultKeepsPromise ==
  ASSUME OneVault, ~FaultyReads PROVE Spec => KeepsPromise
  <1>1. Init => RefinementInv
    <2>1. Init => RestoreInv /\ RiskInv
      BY DEF Init, RestoreInv, RiskInv
    <2>2. Init => HomeInv
      BY VaultAssumption DEF Init, HomeInv, Claims, ReadItems
    <2> QED
      BY <2>1, <2>2, InitIInv DEF RefinementInv
  <1>2. RefinementInv /\ [Next]_vars => RefinementInv'
    <2>1. RefinementInv /\ Next => RefinementInv'
      BY IInvStep, RestoreStep, RiskStep, HomeStep, TypeStep
      DEF RefinementInv, IInv
    <2>2. RefinementInv /\ UNCHANGED vars => RefinementInv'
      <3>1. RestoreInv /\ RiskInv /\ HomeInv /\ UNCHANGED vars =>
              (RestoreInv /\ RiskInv /\ HomeInv)'
        BY DEF vars, disk, locals, hist, RestoreInv, RiskInv, HomeInv, Claims,
           ReadItems, EntryOf
      <3> QED
        BY <3>1, IInvStep DEF RefinementInv
    <2> QED
      BY <2>1, <2>2
  <1>3. Init => Promise!Init
    BY VaultAssumption DEF Init, Promise!Init, Host, Held, Listed, ReadItems
  <1>4. RefinementInv /\ [Next]_vars => [Promise!Next]_(Promise!vars)
    <2>1. RefinementInv /\ Next => Promise!Next \/ UNCHANGED Promise!vars
      BY RefineStep, TypeStep DEF RefinementInv, IInv
    <2>2. UNCHANGED vars => UNCHANGED Promise!vars
      BY DEF vars, disk, hist, Promise!vars, Host, Held, Listed, ReadItems
    <2> QED
      BY <2>1, <2>2
  <1> QED
    BY <1>1, <1>2, <1>3, <1>4, PTL DEF Spec, KeepsPromise, Promise!Spec

=============================================================================
