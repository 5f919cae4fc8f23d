-------------------------------- MODULE Vault --------------------------------
(****************************************************************************)
(* The quarantine vault (aegorx/quarantine/vault.py): threads of one or     *)
(* several processes call quarantine, delete, restore and                   *)
(* purge_missing_blobs.  Every process has one QuarantineVault object with  *)
(* a lock of its own; the blobs and index.json are shared through the disk. *)
(* A step is what happens between two system calls whose order matters.     *)
(*                                                                          *)
(* A descriptor names an inode, not a path: fd[t] = Attached while the      *)
(* inode thread t has open is still the file at path[t]; once that name is  *)
(* removed or replaced, fd[t] is what the detached inode holds.             *)
(****************************************************************************)
EXTENDS Naturals, FiniteSets

CONSTANTS
  Paths, Contents,   \* files of the host, and what a file may contain
  Ids,               \* item ids: uuid4 prefixes, never drawn twice
  Threads, Procs,
  ProcOf,            \* the process, hence the vault object, of a thread
  OpsOf,             \* the methods a thread calls
  NoThread, NoFile,
  Torn,              \* a blob whose copy did not finish
  Truncated,         \* a file restore() emptied and has not filled
  Attached,
  FaultyReads,       \* whether reading index.json may fail transiently
  MaxFaults,         \* bound: failing system calls
  MaxCrashes         \* bound: killed processes

Ops == {"quarantine", "delete", "restore", "purge"}
FileContents == Contents \cup {Truncated}

ASSUME VaultAssumption ==
  /\ ProcOf \in [Threads -> Procs]
  /\ OpsOf \in [Threads -> SUBSET Ops]
  /\ NoThread \notin Threads
  /\ Paths # {} /\ Ids # {}
  /\ NoFile \notin {Torn, Truncated, Attached}
  /\ Torn \notin {Truncated, Attached} /\ Truncated # Attached
  /\ Contents \cap {NoFile, Torn, Truncated, Attached} = {}
  /\ FaultyReads \in BOOLEAN
  /\ MaxFaults \in Nat /\ MaxCrashes \in Nat

VARIABLES
  fs,       \* the file at each path
  blobs,    \* the blob file of each id
  idx, tmp, \* index.json and index.json.tmp
  lock,     \* self._lock of each process: the owning thread
  pc, op, path, id, fd, read, out, wfd,   \* locals of a thread's call
  used,     \* history: ids drawn so far
  acked,    \* history: entries quarantine() returned, with what was copied
  asked,    \* history: ids a delete or restore found and set out to drop
  exposed,  \* history: contents another program, or a restore, put at risk
  faults, crashes

disk   == <<fs, blobs, idx, tmp>>
locals == <<pc, op, path, id, fd, read, out, wfd>>
hist   == <<used, acked, asked, exposed>>
vars   == <<disk, lock, locals, hist, faults, crashes>>

Entry == [id : Ids, path : Paths]
NoPath == CHOOSE p \in Paths : TRUE
NoId == CHOOSE i \in Ids : TRUE

Init ==
  /\ fs = [p \in Paths |-> NoFile]
  /\ blobs = [i \in Ids |-> NoFile]
  /\ idx = [whole |-> TRUE, items |-> {}]
  /\ tmp = [there |-> FALSE, whole |-> FALSE, items |-> {}]
  /\ lock = [p \in Procs |-> NoThread]
  /\ pc = [t \in Threads |-> "idle"]
  /\ op = [t \in Threads |-> "none"]
  /\ path = [t \in Threads |-> NoPath]
  /\ id = [t \in Threads |-> NoId]
  /\ fd = [t \in Threads |-> NoFile]
  /\ read = [t \in Threads |-> {}]
  /\ out = [t \in Threads |-> {}]
  /\ wfd = [t \in Threads |-> "none"]
  /\ used = {} /\ acked = {} /\ asked = {} /\ exposed = {}
  /\ faults = 0 /\ crashes = 0

----------------------------------------------------------------------------
(* Helpers.                                                                 *)

\* _read_index: a missing or undecodable index reads as the empty list.
ReadItems == IF idx.whole THEN idx.items ELSE {}

\* The outcomes of one call of _read_index.
Readings == {ReadItems} \cup (IF FaultyReads THEN {{}} ELSE {})

\* Seeded fault: the entry does not say where the file was.
BugEntryLacksPath(t) == [id |-> id[t]]

EntryOf(t) == [id |-> id[t], path |-> path[t]]

\* What reading the inode behind t's descriptor returns.
Behind(t) == IF fd[t] = Attached THEN fs[path[t]] ELSE fd[t]

\* Seeded fault: the methods do not take the lock.
BugNoLock(t) == TRUE

\* threading.RLock: free, or already held by the same thread.
MayEnter(t) == lock[ProcOf[t]] \in {NoThread, t}

Go(t, label) == pc' = [pc EXCEPT ![t] = label]

\* The descriptors after the name p stops naming its inode.
Detached(p) ==
  [t \in Threads |->
     IF fd[t] = Attached /\ path[t] = p THEN fs[p] ELSE fd[t]]

\* Content c is put at p while a call that has another file open as p may
\* still remove that name.
AtRisk(p, c) ==
  IF \E t \in Threads : path[t] = p /\ fd[t] \notin {NoFile, Attached, c}
  THEN {c} \cap Contents ELSE {}

\* The threads of S leave their calls: locals are dropped, locks released.
Unwind(S) ==
  /\ pc' = [t \in Threads |-> IF t \in S THEN "idle" ELSE pc[t]]
  /\ op' = [t \in Threads |-> IF t \in S THEN "none" ELSE op[t]]
  /\ path' = [t \in Threads |-> IF t \in S THEN NoPath ELSE path[t]]
  /\ id' = [t \in Threads |-> IF t \in S THEN NoId ELSE id[t]]
  /\ read' = [t \in Threads |-> IF t \in S THEN {} ELSE read[t]]
  /\ out' = [t \in Threads |-> IF t \in S THEN {} ELSE out[t]]
  /\ lock' = [p \in Procs |-> IF lock[p] \in S THEN NoThread ELSE lock[p]]

CloseAll(S) ==
  /\ fd' = [t \in Threads |-> IF t \in S THEN NoFile ELSE fd[t]]
  /\ wfd' = [t \in Threads |-> IF t \in S THEN "none" ELSE wfd[t]]

\* A call returns or raises: `with self._lock` releases on both paths.
Leave(t) == Unwind({t}) /\ CloseAll({t})

----------------------------------------------------------------------------
(* The host: another program creates the file p or renames a file over it.  *)
(* Every file it writes has a content of its own.                           *)

Appear(p, c) ==
  /\ \A q \in Paths : fs[q] # c
  /\ \A i \in Ids : blobs[i] # c
  /\ \A t \in Threads : fd[t] # c
  /\ \A a \in acked : a.content # c
  /\ c \notin exposed
  /\ fs' = [fs EXCEPT ![p] = c]
  /\ fd' = Detached(p)
  /\ exposed' = exposed \cup AtRisk(p, c)
       \cup (IF \E t \in Threads : path[t] = p /\ fd[t] = Attached
             THEN {c} ELSE {})
       \cup ({fs[p]} \cap Contents)
  /\ UNCHANGED <<blobs, idx, tmp, lock, pc, op, path, id, read, out, wfd,
                 used, acked, asked, faults, crashes>>

----------------------------------------------------------------------------
(* Calls.                                                                   *)

\* Bound: there is an id for every quarantine under way.
IdsLeft ==
  Cardinality({u \in Threads : op[u] = "quarantine"
                               /\ pc[u] \in {"lock", "create"}})
    < Cardinality(Ids \ used)

\* quarantine(path) opens the file before it takes the lock.
CallQuarantine(t, p) ==
  /\ pc[t] = "idle" /\ "quarantine" \in OpsOf[t]
  /\ fs[p] # NoFile /\ IdsLeft
  /\ Go(t, "lock")
  /\ op' = [op EXCEPT ![t] = "quarantine"]
  /\ path' = [path EXCEPT ![t] = p]
  /\ fd' = [fd EXCEPT ![t] = Attached]
  /\ UNCHANGED <<disk, lock, id, read, out, wfd, hist, faults, crashes>>

\* delete(id) and restore(id) are given an id some listing once showed.
CallOnItem(t, o, i) ==
  /\ pc[t] = "idle" /\ o \in OpsOf[t] \cap {"delete", "restore"}
  /\ i \in used
  /\ Go(t, "lock")
  /\ op' = [op EXCEPT ![t] = o]
  /\ id' = [id EXCEPT ![t] = i]
  /\ UNCHANGED <<disk, lock, path, fd, read, out, wfd, hist, faults, crashes>>

CallPurge(t) ==
  /\ pc[t] = "idle" /\ "purge" \in OpsOf[t]
  /\ Go(t, "lock")
  /\ op' = [op EXCEPT ![t] = "purge"]
  /\ UNCHANGED <<disk, lock, path, id, fd, read, out, wfd, hist, faults,
                 crashes>>

Lock(t) ==
  /\ pc[t] = "lock" /\ MayEnter(t)
  /\ lock' = [lock EXCEPT ![ProcOf[t]] = t]
  /\ Go(t, CASE op[t] = "quarantine" -> "create"
             [] op[t] = "restore" -> "find"
             [] OTHER -> "read")
  /\ UNCHANGED <<disk, op, path, id, fd, read, out, wfd, hist, faults,
                 crashes>>

----------------------------------------------------------------------------
(* quarantine: create the blob, copy, extend the index, remove the file.    *)

CreateBlob(t) ==
  /\ pc[t] = "create"
  /\ \E i \in Ids \ used :
       /\ blobs[i] = NoFile
       /\ blobs' = [blobs EXCEPT ![i] = Torn]
       /\ id' = [id EXCEPT ![t] = i]
       /\ used' = used \cup {i}
  /\ Go(t, "copy")
  /\ UNCHANGED <<fs, idx, tmp, lock, op, path, fd, read, out, wfd, acked,
                 asked, exposed, faults, crashes>>

\* Seeded fault: a failing write of the blob is swallowed.
BugCopySwallows(t) ==
  /\ pc[t] = "copy"
  /\ blobs' \in {blobs, [blobs EXCEPT ![id[t]] = Behind(t)]}
  /\ fd' = [fd EXCEPT ![t] = Behind(t)]
  /\ Go(t, "append")
  /\ UNCHANGED <<fs, idx, tmp, lock, op, path, id, read, out, wfd, hist,
                 faults, crashes>>

\* The whole inode is copied and the source closed; fd keeps what was read.
CopyBlob(t) ==
  /\ pc[t] = "copy"
  /\ blobs' = [blobs EXCEPT ![id[t]] = Behind(t)]
  /\ fd' = [fd EXCEPT ![t] = Behind(t)]
  /\ Go(t, "append")
  /\ UNCHANGED <<fs, idx, tmp, lock, op, path, id, read, out, wfd, hist,
                 faults, crashes>>

\* Seeded fault: the file is removed before the index is written.
BugRemoveFirst(t) ==
  /\ pc[t] = "append"
  /\ \E items \in Readings :
       /\ read' = [read EXCEPT ![t] = items]
       /\ out' = [out EXCEPT ![t] = items \cup {EntryOf(t)}]
  /\ Go(t, "remove")
  /\ UNCHANGED <<disk, lock, op, path, id, fd, wfd, hist, faults, crashes>>

AppendEntry(t) ==
  /\ pc[t] = "append"
  /\ \E items \in Readings :
       /\ read' = [read EXCEPT ![t] = items]
       /\ out' = [out EXCEPT ![t] = items \cup {EntryOf(t)}]
  /\ Go(t, "wopen")
  /\ UNCHANGED <<disk, lock, op, path, id, fd, wfd, hist, faults, crashes>>

\* os.remove works on the name; its failure is logged and nothing else.
RemoveOriginal(t) ==
  /\ pc[t] = "remove"
  /\ acked' = acked \cup {[entry |-> EntryOf(t), content |-> fd[t]]}
  /\ \/ /\ fs' = [fs EXCEPT ![path[t]] = NoFile]
        /\ fd' = [u \in Threads |->
                    IF u = t THEN NoFile ELSE Detached(path[t])[u]]
        /\ UNCHANGED faults
     \/ /\ faults < MaxFaults /\ faults' = faults + 1
        /\ fd' = [fd EXCEPT ![t] = NoFile]
        /\ UNCHANGED fs
  /\ Unwind({t})
  /\ UNCHANGED <<blobs, idx, tmp, wfd, used, asked, exposed, crashes>>

----------------------------------------------------------------------------
(* delete, and purge_missing_blobs.                                         *)

FindToDelete(t) ==
  /\ pc[t] = "read" /\ op[t] \in {"delete", "restore"}
  /\ \E items \in Readings :
       \/ /\ \E e \in items : e.id = id[t]
          /\ read' = [read EXCEPT ![t] = items]
          /\ out' = [out EXCEPT ![t] = {e \in items : e.id # id[t]}]
          /\ asked' = asked \cup {id[t]}
          /\ Go(t, "unlink")
          /\ UNCHANGED <<lock, op, path, id, fd, wfd>>
       \/ /\ \A e \in items : e.id # id[t]
          /\ Leave(t)
          /\ UNCHANGED asked
  /\ UNCHANGED <<disk, used, acked, exposed, faults, crashes>>

\* A blob that cannot be removed is logged and its entry dropped anyway.
UnlinkBlob(t) ==
  /\ pc[t] = "unlink"
  /\ \/ /\ blobs' = [blobs EXCEPT ![id[t]] = NoFile]
        /\ UNCHANGED faults
     \/ /\ blobs[id[t]] # NoFile
        /\ faults < MaxFaults /\ faults' = faults + 1
        /\ UNCHANGED blobs
  /\ Go(t, "wopen")
  /\ UNCHANGED <<fs, idx, tmp, lock, op, path, id, fd, read, out, wfd, hist,
                 crashes>>

ReadToPurge(t) ==
  /\ pc[t] = "read" /\ op[t] = "purge"
  /\ \E items \in Readings : read' = [read EXCEPT ![t] = items]
  /\ Go(t, "filter")
  /\ UNCHANGED <<disk, lock, op, path, id, fd, out, wfd, hist, faults,
                 crashes>>

\* Seeded fault: purge looks for the original file instead of the blob.
BugPresentByPath(items) == {e \in items : fs[e.path] # NoFile}

Present(items) == {e \in items : blobs[e.id] # NoFile}

FilterMissing(t) ==
  /\ pc[t] = "filter"
  /\ \/ /\ Present(read[t]) # read[t]
        /\ out' = [out EXCEPT ![t] = Present(read[t])]
        /\ Go(t, "wopen")
        /\ UNCHANGED <<lock, op, path, id, fd, read, wfd>>
     \/ Present(read[t]) = read[t] /\ Leave(t)
  /\ UNCHANGED <<disk, hist, faults, crashes>>

----------------------------------------------------------------------------
(* restore: empty the destination, fill it from the blob, then delete.      *)
(* The only caller restores to the path the item came from.                 *)

FindToRestore(t) ==
  /\ pc[t] = "find"
  /\ \E items \in Readings :
       \/ \E e \in items :
            /\ e.id = id[t]
            /\ path' = [path EXCEPT ![t] = e.path]
            /\ Go(t, "dest")
            /\ UNCHANGED <<lock, op, id, fd, read, out, wfd>>
       \/ (\A e \in items : e.id # id[t]) /\ Leave(t)
  /\ UNCHANGED <<disk, hist, faults, crashes>>

\* O_TRUNC comes before the blob is opened.
OpenDest(t) ==
  /\ pc[t] = "dest"
  /\ fs' = [fs EXCEPT ![path[t]] = Truncated]
  /\ fd' = [fd EXCEPT ![t] = Attached]
  /\ exposed' = exposed \cup ({fs[path[t]]} \cap Contents)
  /\ Go(t, "fill")
  /\ UNCHANGED <<blobs, idx, tmp, lock, op, path, id, read, out, wfd, used,
                 acked, asked, faults, crashes>>

\* Seeded fault: restore goes on to the deletion although the blob was bad.
BugFillSwallows(t) ==
  /\ pc[t] = "fill"
  /\ fs' = IF fd[t] = Attached /\ blobs[id[t]] \in FileContents
           THEN [fs EXCEPT ![path[t]] = blobs[id[t]]] ELSE fs
  /\ exposed' = exposed \cup AtRisk(path[t], blobs[id[t]])
  /\ Go(t, "enter")
  /\ UNCHANGED <<blobs, idx, tmp, lock, op, path, id, fd, read, out, wfd,
                 used, acked, asked, faults, crashes>>

\* A missing or truncated blob raises and leaves the destination empty.
FillDest(t) ==
  /\ pc[t] = "fill"
  /\ \/ /\ blobs[id[t]] \in FileContents
        /\ fs' = IF fd[t] = Attached
                 THEN [fs EXCEPT ![path[t]] = blobs[id[t]]] ELSE fs
        /\ exposed' = exposed \cup AtRisk(path[t], blobs[id[t]])
        /\ Go(t, "enter")
        /\ UNCHANGED <<lock, op, path, id, fd, read, out, wfd>>
     \/ /\ blobs[id[t]] \notin FileContents
        /\ Leave(t)
        /\ UNCHANGED <<fs, exposed>>
  /\ UNCHANGED <<blobs, idx, tmp, used, acked, asked, faults, crashes>>

\* restore calls delete while it holds the lock.
EnterDelete(t) ==
  /\ pc[t] = "enter" /\ MayEnter(t)
  /\ Go(t, "read")
  /\ UNCHANGED <<disk, lock, op, path, id, fd, read, out, wfd, hist, faults,
                 crashes>>

----------------------------------------------------------------------------
(* _write_index: truncate index.json.tmp, dump the items, rename.  The name *)
(* is fixed, so two processes share the inode: wfd[t] tells where the inode *)
(* t opened is now.                                                         *)

OpenTmp(t) ==
  /\ pc[t] = "wopen"
  /\ tmp' = [there |-> TRUE, whole |-> FALSE, items |-> {}]
  /\ wfd' = [wfd EXCEPT ![t] = "tmp"]
  /\ Go(t, "wdump")
  /\ UNCHANGED <<fs, blobs, idx, lock, op, path, id, fd, read, out, hist,
                 faults, crashes>>

\* Over another writer's bytes the text is whole only if it covers them.
DumpTmp(t) ==
  /\ pc[t] = "wdump"
  /\ \E ok \in BOOLEAN :
       \/ /\ wfd[t] = "tmp" /\ (ok \/ tmp.whole)
          /\ tmp' = [there |-> TRUE, whole |-> ok, items |-> out[t]]
          /\ UNCHANGED idx
       \/ /\ wfd[t] = "index" /\ (ok \/ idx.whole)
          /\ idx' = [whole |-> ok, items |-> out[t]]
          /\ UNCHANGED tmp
       \/ /\ wfd[t] = "gone" /\ ok
          /\ UNCHANGED <<idx, tmp>>
  /\ Go(t, "wrename")
  /\ UNCHANGED <<fs, blobs, lock, op, path, id, fd, read, out, wfd, hist,
                 faults, crashes>>

\* Where the inodes open for writing are once tmp has become the index.
Renamed == [u \in Threads |-> CASE wfd[u] = "tmp" -> "index"
                                [] wfd[u] = "index" -> "gone"
                                [] OTHER -> wfd[u]]

RenameTmp(t) ==
  /\ pc[t] = "wrename"
  /\ \/ /\ tmp.there
        /\ idx' = [whole |-> tmp.whole, items |-> tmp.items]
        /\ tmp' = [there |-> FALSE, whole |-> FALSE, items |-> {}]
        /\ wfd' = [Renamed EXCEPT ![t] = "none"]
        /\ \/ /\ op[t] = "quarantine"
              /\ Go(t, "remove")
              /\ UNCHANGED <<lock, op, path, id, fd, read, out>>
           \/ /\ op[t] # "quarantine"
              /\ Unwind({t})
              /\ fd' = [fd EXCEPT ![t] = NoFile]
     \/ /\ ~tmp.there
        /\ Leave(t)
        /\ UNCHANGED <<idx, tmp>>
  /\ UNCHANGED <<fs, blobs, hist, faults, crashes>>

----------------------------------------------------------------------------
(* Failing system calls and killed processes.                               *)

\* A failing open, write, fsync or rename raises out of the method.
Raise(t) ==
  /\ pc[t] \in {"create", "copy", "wopen", "wdump", "wrename", "dest", "fill"}
  /\ faults < MaxFaults /\ faults' = faults + 1
  /\ Leave(t)
  /\ UNCHANGED <<disk, hist, crashes>>

ThreadsOf(p) == {t \in Threads : ProcOf[t] = p}

Crash(p) ==
  /\ crashes < MaxCrashes /\ crashes' = crashes + 1
  /\ Unwind(ThreadsOf(p)) /\ CloseAll(ThreadsOf(p))
  /\ UNCHANGED <<disk, hist, faults>>

Call(t) ==
  \/ \E p \in Paths : CallQuarantine(t, p)
  \/ \E o \in Ops, i \in Ids : CallOnItem(t, o, i)
  \/ CallPurge(t)

Step(t) ==
  \/ Lock(t)
  \/ CreateBlob(t) \/ CopyBlob(t) \/ AppendEntry(t) \/ RemoveOriginal(t)
  \/ FindToDelete(t) \/ UnlinkBlob(t) \/ ReadToPurge(t) \/ FilterMissing(t)
  \/ FindToRestore(t) \/ OpenDest(t) \/ FillDest(t) \/ EnterDelete(t)
  \/ OpenTmp(t) \/ DumpTmp(t) \/ RenameTmp(t)

Next ==
  \/ \E t \in Threads : Call(t) \/ Step(t) \/ Raise(t)
  \/ \E p \in Procs : Crash(p)
  \/ \E p \in Paths, c \in Contents : Appear(p, c)

\* A thread inside the vault keeps running; nothing makes anyone call.
Spec == Init /\ [][Next]_vars /\ \A t \in Threads : WF_vars(Step(t))

----------------------------------------------------------------------------
(* Properties.                                                              *)

IndexText == [whole : BOOLEAN, items : SUBSET Entry]
Ack == [entry : Entry, content : FileContents \cup {NoFile, Attached}]
Labels == {"idle", "lock", "create", "copy", "append", "remove", "read",
           "unlink", "filter", "find", "dest", "fill", "enter", "wopen",
           "wdump", "wrename"}

TypeOK ==
  /\ fs \in [Paths -> FileContents \cup {NoFile}]
  /\ blobs \in [Ids -> FileContents \cup {NoFile, Torn}]
  /\ idx \in IndexText
  /\ tmp \in [there : BOOLEAN, whole : BOOLEAN, items : SUBSET Entry]
  /\ lock \in [Procs -> Threads \cup {NoThread}]
  /\ pc \in [Threads -> Labels]
  /\ op \in [Threads -> Ops \cup {"none"}]
  /\ path \in [Threads -> Paths]
  /\ id \in [Threads -> Ids]
  /\ fd \in [Threads -> FileContents \cup {NoFile, Attached}]
  /\ read \in [Threads -> SUBSET Entry]
  /\ out \in [Threads -> SUBSET Entry]
  /\ wfd \in [Threads -> {"none", "tmp", "index", "gone"}]
  /\ used \in SUBSET Ids
  /\ acked \in SUBSET Ack
  /\ asked \in SUBSET Ids
  /\ exposed \in SUBSET Contents
  /\ faults \in Nat /\ crashes \in Nat

\* Every entry quarantine() returned, unless its item was later deleted or
\* restored, is in the index and its blob holds exactly what was read from
\* the file: whatever calls interleave, fail or are killed in between.
AckedIsKept ==
  \A a \in acked :
    a.entry.id \notin asked =>
      /\ a.entry \in ReadItems
      /\ blobs[a.entry.id] = a.content

\* No listed item is a promise the vault cannot keep: an indexed entry has a
\* complete blob, also after a kill between any two steps of a quarantine.
IndexedIsWhole ==
  \A e \in ReadItems : e.id \notin asked => blobs[e.id] \in FileContents

\* The docstring of the class: "index mutations are serialized and written
\* atomically".  Until its rename, what a call read is what the index holds.
IndexMutationsSerialized ==
  \A t \in Threads :
    pc[t] \in {"wopen", "wdump", "wrename"} =>
      /\ read[t] = ReadItems
      /\ pc[t] = "wrename" => tmp.whole /\ tmp.items = out[t]

\* restore() gives up the vault's copy only once the destination holds it,
\* or another program has meanwhile replaced that destination.
RestoreBeforeUnlink ==
  [][\A t \in Threads :
       UnlinkBlob(t) /\ op[t] = "restore" =>
         /\ fd[t] # NoFile
         /\ fd[t] = Attached => fs[path[t]] = blobs[id[t]]]_vars

\* The promise of the vault: see Custody.
Listed(i) == \E e \in ReadItems : e.id = i
Host == {fs[p] : p \in Paths} \cap Contents
Held == [i \in Ids |->
           IF Listed(i) /\ blobs[i] \in Contents THEN blobs[i] ELSE NoFile]

Promise == INSTANCE Custody WITH
  Nothing <- NoFile, host <- Host, custody <- Held

KeepsPromise == Promise!Spec

----------------------------------------------------------------------------
(* The inductive invariant of one vault object whose index can be read.     *)

OneVault == \A t, u \in Threads : ProcOf[t] = ProcOf[u]
Writing(t) == pc[t] \in {"wopen", "wdump", "wrename"}
Inside(t) == pc[t] \notin {"idle", "lock"}

\* Who is inside the vault owns its lock; locals match the method running.
LockInv == \A t \in Threads : Inside(t) => lock[ProcOf[t]] = t

OpInv ==
  \A t \in Threads :
    /\ pc[t] \in {"create", "copy", "append", "remove"} => op[t] = "quarantine"
    /\ pc[t] \in {"find", "dest", "fill", "enter"} => op[t] = "restore"
    /\ pc[t] = "unlink" => op[t] \in {"delete", "restore"}
    /\ pc[t] = "read" => op[t] \in {"delete", "restore", "purge"}
    /\ pc[t] = "filter" => op[t] = "purge"
    /\ pc[t] = "lock" \/ Writing(t) => op[t] # "none"

\* Descriptors name files.
FdInv ==
  \A t \in Threads :
    /\ fd[t] = Attached => fs[path[t]] \in FileContents
    /\ pc[t] = "lock" /\ op[t] = "quarantine" => fd[t] # NoFile
    /\ pc[t] \in {"create", "copy"} => fd[t] # NoFile
    /\ pc[t] \in {"idle", "find"} => fd[t] = NoFile
    /\ pc[t] = "lock" /\ op[t] # "quarantine" => fd[t] = NoFile

\* Ids are fresh: what is listed or asked for was drawn earlier.
IdInv ==
  /\ \A e \in ReadItems : e.id \in used
  /\ \A a \in acked : a.entry.id \in used
  /\ asked \subseteq used

\* The blob of a quarantine under way, before and after it is listed.
CopyInv ==
  \A t \in Threads :
    /\ pc[t] = "copy" => id[t] \in used \ asked /\ ~Listed(id[t])
    /\ pc[t] = "append" \/ (Writing(t) /\ op[t] = "quarantine") =>
         /\ id[t] \in used \ asked /\ ~Listed(id[t])
         /\ fd[t] \in FileContents /\ blobs[id[t]] = fd[t]
    /\ pc[t] = "remove" =>
         /\ id[t] \in used \ asked /\ EntryOf(t) \in ReadItems
         /\ fd[t] \in FileContents /\ blobs[id[t]] = fd[t]

\* What a call will write is the index it read, changed as its method says.
WriteInv ==
  /\ idx.whole
  /\ \A t \in Threads :
       /\ pc[t] \in {"unlink", "filter"} \/ Writing(t) => read[t] = idx.items
       /\ pc[t] = "unlink" \/ (Writing(t) /\ op[t] \in {"delete", "restore"}) =>
            id[t] \in asked /\ out[t] = {e \in read[t] : e.id # id[t]}
       /\ Writing(t) /\ op[t] = "quarantine" =>
            out[t] = read[t] \cup {EntryOf(t)}
       /\ Writing(t) /\ op[t] = "purge" => out[t] = Present(read[t])
       /\ pc[t] = "wdump" => wfd[t] = "tmp" /\ ~tmp.whole
       /\ pc[t] = "wrename" => tmp.there /\ tmp.whole /\ tmp.items = out[t]

IInv == /\ TypeOK /\ LockInv /\ OpInv /\ FdInv /\ IdInv /\ CopyInv /\ WriteInv
        /\ AckedIsKept /\ IndexedIsWhole

\* Until a restore deletes its item, the destination is the file it opened
\* and holds the blob, or another program has replaced it.
RestoreInv ==
  \A t \in Threads :
    /\ pc[t] \in {"dest", "fill"} => EntryOf(t) \in ReadItems
    /\ pc[t] = "fill" =>
         fd[t] # NoFile /\ (fd[t] = Attached => fs[path[t]] = Truncated)
    /\ op[t] = "restore" /\ pc[t] \in {"enter", "read", "unlink"} =>
         fd[t] # NoFile /\ (fd[t] = Attached => fs[path[t]] = blobs[id[t]])

\* A name a quarantine will remove holds what the quarantine read, unless
\* what is there now was put at risk by somebody else.
RiskInv ==
  \A t \in Threads :
    pc[t] # "idle" /\ op[t] = "quarantine" /\ fd[t] # Attached
    /\ fs[path[t]] \in Contents =>
      fs[path[t]] \in exposed \cup {fd[t]}

\* c is the file p, or was read from it, or is listed as coming from there.
Claims(c, p) ==
  \/ fs[p] = c
  \/ \E t \in Threads : path[t] = p /\ fd[t] = c
  \/ \E e \in ReadItems : e.path = p /\ blobs[e.id] = c

\* A content has one home: restoring it cannot make a second copy elsewhere.
HomeInv ==
  \A c \in Contents, p, q \in Paths : Claims(c, p) /\ Claims(c, q) => p = q
=============================================================================
