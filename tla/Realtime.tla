------------------------------ MODULE Realtime ------------------------------
(****************************************************************************)
(* Notification mode of the realtime monitor (aegorx/realtime): programs    *)
(* write files, the kernel queues events (inotify_backend.py), the reader   *)
(* thread filters and dispatches them (RealTimeMonitor._dispatch), workers  *)
(* of a thread pool scan through the engine and its result cache            *)
(* (engine.py) and quarantine what is malicious.                            *)
(*                                                                          *)
(* The scanner opens a file several times: the hash is of the content at    *)
(* one time, the rules are matched against the content at a later time.     *)
(* The size and time stamp of a file change with each of its versions, and  *)
(* quarantine is one step (its own steps are those of Vault).               *)
(****************************************************************************)
EXTENDS Naturals, Sequences, FiniteSets, SequencesExt

CONSTANTS
  Files, Workers,
  LateDirs,    \* files in a directory that has just been created
  Faulty,      \* files that may fail to be scanned, or to be quarantined
  QueueMax,    \* events the kernel keeps (fs.inotify.max_queued_events)
  Inflight,    \* tasks accepted at a time (max(16, 4 * workers))
  CacheMax,    \* results the engine keeps (4096)
  MaxWrites    \* bound: files opened for writing or moved in

ASSUME RealtimeAssumption ==
  /\ LateDirs \subseteq Files /\ Faulty \subseteq Files
  /\ QueueMax \in Nat \ {0} /\ Inflight \in Nat \ {0} /\ CacheMax \in Nat \ {0}
  /\ MaxWrites \in Nat
  /\ IsFiniteSet(Files) /\ Files # {} /\ IsFiniteSet(Workers)
  /\ Cardinality(LateDirs) <= QueueMax

\* What a file may hold: nothing bad, something the signature database knows
\* by its hash, or something a rule matches.  "none": no such file.
Contents == {"clean", "hash", "rule"}
Bad == {"hash", "rule"}

VARIABLES
  content, ver,  \* content of each file, and its version (mtime and size)
  writing,       \* files some program has open for writing
  watched,       \* files in a directory that has a watch
  kqueue, buf,   \* events in the kernel, and in the buffer being handled
  recent,        \* files whose debounce window has not passed
  permits,       \* the semaphore self._inflight
  tasks,         \* queue of the thread pool
  wpc, file, key, hashed, verdict,   \* locals of each worker
  cache,         \* engine._scan_cache, least recently used first
  missed,        \* history: files whose last event was given up
  writes

host    == <<content, ver, writing>>
events  == <<watched, kqueue, buf>>
monitor == <<recent, permits, tasks>>
workers == <<wpc, file, key, hashed, verdict>>
vars    == <<host, events, monitor, workers, cache, missed, writes>>

NoFile == CHOOSE f \in Files : TRUE
Event(k, f) == [kind |-> k, path |-> f]

Init ==
  /\ content = [f \in Files |-> "none"] /\ ver = [f \in Files |-> 0]
  /\ writing = {}
  /\ watched = Files \ LateDirs
  /\ kqueue = SetToSeq({Event("dir", f) : f \in LateDirs}) /\ buf = <<>>
  /\ recent = {} /\ permits = Inflight /\ tasks = <<>>
  /\ wpc = [w \in Workers |-> "idle"] /\ file = [w \in Workers |-> NoFile]
  /\ key = [w \in Workers |-> 0] /\ hashed = [w \in Workers |-> "none"]
  /\ verdict = [w \in Workers |-> "none"]
  /\ cache = <<>> /\ missed = {} /\ writes = 0

----------------------------------------------------------------------------
(* Programs and the kernel.                                                 *)

\* A full queue takes one overflow event and drops the rest.
Queued(e) ==
  IF Len(kqueue) < QueueMax THEN Append(kqueue, e)
  ELSE IF Last(kqueue).kind = "overflow" THEN kqueue
  ELSE Append(kqueue, Event("overflow", e.path))

\* The kernel reports e if the directory has a watch.
Emit(e) ==
  LET lost == e.path \notin watched \/ Len(kqueue) >= QueueMax IN
  /\ kqueue' = IF e.path \in watched THEN Queued(e) ELSE kqueue
  /\ missed' = IF lost THEN missed \cup {e.path} ELSE missed \ {e.path}

Become(f, c) ==
  /\ content' = [content EXCEPT ![f] = c]
  /\ ver' = [ver EXCEPT ![f] = @ + 1]

\* A program opens f for writing; it may leave the content as it is.
OpenToWrite(f) ==
  /\ f \notin writing /\ writes < MaxWrites /\ writes' = writes + 1
  /\ writing' = writing \cup {f}
  /\ \/ \E c \in Contents : Become(f, c)
     \/ content[f] # "none" /\ UNCHANGED <<content, ver>>
  /\ UNCHANGED <<events, monitor, workers, cache, missed>>

CloseWritten(f) ==
  /\ f \in writing
  /\ writing' = writing \ {f}
  /\ Emit(Event("file", f))
  /\ UNCHANGED <<content, ver, watched, buf, monitor, workers, cache, writes>>

\* A complete file is renamed to f.
MoveIn(f) ==
  /\ f \notin writing /\ writes < MaxWrites /\ writes' = writes + 1
  /\ \E c \in Contents : Become(f, c)
  /\ Emit(Event("file", f))
  /\ UNCHANGED <<writing, watched, buf, monitor, workers, cache>>

\* Half a second has passed since f was dispatched.
WindowPasses(f) ==
  /\ f \in recent
  /\ recent' = recent \ {f}
  /\ UNCHANGED <<host, events, permits, tasks, workers, cache, missed, writes>>

----------------------------------------------------------------------------
(* The reader thread.                                                       *)

ReadEvents ==
  /\ buf = <<>> /\ kqueue # <<>>
  /\ buf' = kqueue /\ kqueue' = <<>>
  /\ UNCHANGED <<host, watched, monitor, workers, cache, missed, writes>>

NextEvent(kind) ==
  /\ buf # <<>> /\ Head(buf).kind = kind
  /\ buf' = Tail(buf)

\* The overflow event has watch descriptor -1: it is dropped before its mask
\* is looked at, and the watches are not rebuilt.
HandleOverflow ==
  /\ NextEvent("overflow")
  /\ UNCHANGED <<host, watched, kqueue, monitor, workers, cache, missed,
                 writes>>

\* A new directory is watched from now on; what it contains is not looked at.
HandleNewDir ==
  /\ NextEvent("dir")
  /\ watched' = watched \cup {Head(buf).path}
  /\ UNCHANGED <<host, kqueue, monitor, workers, cache, missed, writes>>

\* _dispatch: not for what is no file, nor within half a second of the last
\* time; a full queue drops the event after the path was marked.
Dispatch ==
  LET f == Head(buf).path
      fresh == content[f] # "none" /\ f \notin recent
      accepted == fresh /\ permits > 0 IN
  /\ NextEvent("file")
  /\ recent' = IF fresh THEN recent \cup {f} ELSE recent
  /\ permits' = IF accepted THEN permits - 1 ELSE permits
  /\ tasks' = IF accepted THEN Append(tasks, f) ELSE tasks
  /\ missed' = IF content[f] # "none" /\ ~accepted
               THEN missed \cup {f} ELSE missed
  /\ UNCHANGED <<host, watched, kqueue, workers, cache, writes>>

Reader == ReadEvents \/ HandleOverflow \/ HandleNewDir \/ Dispatch

----------------------------------------------------------------------------
(* The workers: _process, and _scan_file of the engine.                     *)

Goto(w, label) == wpc' = [wpc EXCEPT ![w] = label]

\* Seeded fault: the permit of a scan that failed is not returned.
BugEndKeepsPermit(w) ==
  /\ wpc' = [wpc EXCEPT ![w] = "idle"] /\ file' = [file EXCEPT ![w] = NoFile]
  /\ key' = [key EXCEPT ![w] = 0] /\ hashed' = [hashed EXCEPT ![w] = "none"]
  /\ verdict' = [verdict EXCEPT ![w] = "none"]
  /\ permits' = IF verdict[w] = "none" THEN permits ELSE permits + 1
  /\ UNCHANGED <<recent, tasks>>

\* The task ends, whatever became of it, and its permit is returned.
End(w) ==
  /\ wpc' = [wpc EXCEPT ![w] = "idle"] /\ file' = [file EXCEPT ![w] = NoFile]
  /\ key' = [key EXCEPT ![w] = 0] /\ hashed' = [hashed EXCEPT ![w] = "none"]
  /\ verdict' = [verdict EXCEPT ![w] = "none"]
  /\ permits' = permits + 1
  /\ UNCHANGED <<recent, tasks>>

\* Seeded fault: the task of a file that is being scanned is dropped.
BugTakeTaskOnce(w) ==
  /\ wpc[w] = "idle" /\ tasks # <<>>
  /\ tasks' = Tail(tasks)
  /\ \/ /\ \E u \in Workers : wpc[u] # "idle" /\ file[u] = Head(tasks)
        /\ permits' = permits + 1
        /\ UNCHANGED <<wpc, file>>
     \/ /\ \A u \in Workers : wpc[u] = "idle" \/ file[u] # Head(tasks)
        /\ file' = [file EXCEPT ![w] = Head(tasks)]
        /\ Goto(w, "stat")
        /\ UNCHANGED permits
  /\ UNCHANGED <<host, events, recent, key, hashed, verdict, cache, missed,
                 writes>>

TakeTask(w) ==
  /\ wpc[w] = "idle" /\ tasks # <<>>
  /\ file' = [file EXCEPT ![w] = Head(tasks)]
  /\ tasks' = Tail(tasks)
  /\ Goto(w, "stat")
  /\ UNCHANGED <<host, events, recent, permits, key, hashed, verdict, cache,
                 missed, writes>>

\* A file that is not there has no key; it may be back when it is read.
Stat(w) ==
  /\ wpc[w] = "stat"
  /\ key' = [key EXCEPT ![w] =
               IF content[file[w]] = "none" THEN 0 ELSE ver[file[w]]]
  /\ Goto(w, "lookup")
  /\ UNCHANGED <<host, events, monitor, file, hashed, verdict, cache, missed,
                 writes>>

Is(w, entry) == entry.path = file[w] /\ entry.ver = key[w]
Cached(w) == \E n \in DOMAIN cache : Is(w, cache[n])
Others(w) == SelectSeq(cache, LAMBDA entry : ~Is(w, entry))

Lookup(w) ==
  /\ wpc[w] = "lookup"
  /\ Goto(w, IF Cached(w) THEN "hit" ELSE "hash")
  /\ UNCHANGED <<host, events, monitor, file, key, hashed, verdict, cache,
                 missed, writes>>

\* Another worker may have evicted the entry meanwhile: the KeyError is logged
\* as a failed scan and the event is gone.
UseCached(w) ==
  /\ wpc[w] = "hit"
  /\ \/ /\ Cached(w)
        /\ LET n == CHOOSE n \in DOMAIN cache : Is(w, cache[n]) IN
           /\ verdict' = [verdict EXCEPT ![w] = cache[n].verdict]
           /\ cache' = Append(RemoveAt(cache, n), cache[n])
        /\ Goto(w, "act")
        /\ UNCHANGED <<file, key, hashed, monitor, missed>>
     \/ /\ ~Cached(w)
        /\ End(w)
        /\ missed' = missed \cup {file[w]}
        /\ UNCHANGED cache
  /\ UNCHANGED <<host, events, writes>>

\* A file that is gone makes the scan an error, which nothing follows; so does
\* one over max_file_size, one that cannot be read, and a detector that raises.
HashFile(w) ==
  /\ wpc[w] = "hash"
  /\ \/ /\ content[file[w]] # "none"
        /\ hashed' = [hashed EXCEPT ![w] = content[file[w]]]
        /\ Goto(w, "match")
        /\ UNCHANGED <<file, key, verdict, monitor, missed>>
     \/ content[file[w]] = "none" /\ End(w) /\ UNCHANGED missed
     \/ /\ file[w] \in Faulty /\ End(w)
        /\ missed' = missed \cup {file[w]}
  /\ UNCHANGED <<host, events, cache, writes>>

\* What the rules are matched against may be another content, or no file.
MatchRules(w) ==
  /\ wpc[w] = "match"
  /\ verdict' = [verdict EXCEPT ![w] =
       IF hashed[w] = "hash" \/ content[file[w]] = "rule"
       THEN "malicious" ELSE "clean"]
  /\ Goto(w, "store")
  /\ UNCHANGED <<host, events, monitor, file, key, hashed, cache, missed,
                 writes>>

\* Seeded fault: the key is taken again when the result is stored.
BugKeyAtStore(w) ==
  LET entry == [path |-> file[w], ver |-> ver[file[w]],
                verdict |-> verdict[w]]
      kept == Append(Others(w), entry) IN
  /\ wpc[w] = "store"
  /\ cache' = SubSeq(kept, IF Len(kept) > CacheMax THEN 2 ELSE 1, Len(kept))
  /\ Goto(w, "act")
  /\ UNCHANGED <<host, events, monitor, file, key, hashed, verdict, missed,
                 writes>>

\* Seeded fault: nothing is evicted.
BugNothingEvicted(w) ==
  LET entry == [path |-> file[w], ver |-> key[w], verdict |-> verdict[w]] IN
  /\ wpc[w] = "store"
  /\ cache' = IF Cached(w) THEN cache ELSE Append(cache, entry)
  /\ Goto(w, "act")
  /\ UNCHANGED <<host, events, monitor, file, key, hashed, verdict, missed,
                 writes>>

\* Under the key of the file before it was read; the oldest entry makes room.
\* A key that is there already keeps its place; without a key nothing is kept.
Store(w) ==
  LET entry == [path |-> file[w], ver |-> key[w], verdict |-> verdict[w]]
      kept == IF Cached(w)
              THEN [n \in DOMAIN cache |->
                      IF Is(w, cache[n]) THEN entry ELSE cache[n]]
              ELSE Append(cache, entry) IN
  /\ wpc[w] = "store"
  /\ cache' = IF key[w] = 0 THEN cache
              ELSE SubSeq(kept, IF Len(kept) > CacheMax THEN 2 ELSE 1,
                          Len(kept))
  /\ Goto(w, "act")
  /\ UNCHANGED <<host, events, monitor, file, key, hashed, verdict, missed,
                 writes>>

\* A malicious verdict quarantines what is at the path by now.  An error of the
\* vault is swallowed by _try_quarantine and the file stays.
Act(w) ==
  /\ wpc[w] = "act"
  /\ \/ /\ verdict[w] = "malicious" /\ content[file[w]] # "none"
        /\ content' = [content EXCEPT ![file[w]] = "none"]
        /\ writing' = writing \ {file[w]}
        /\ UNCHANGED <<ver, missed>>
     \/ /\ verdict[w] = "malicious" /\ file[w] \in Faulty
        /\ missed' = missed \cup {file[w]}
        /\ UNCHANGED host
     \/ /\ verdict[w] = "clean" \/ content[file[w]] = "none"
        /\ UNCHANGED <<host, missed>>
  /\ End(w)
  /\ UNCHANGED <<events, cache, writes>>

Work(w) ==
  \/ TakeTask(w) \/ Stat(w) \/ Lookup(w) \/ UseCached(w) \/ HashFile(w)
  \/ MatchRules(w) \/ Store(w) \/ Act(w)

----------------------------------------------------------------------------
Next ==
  \/ \E f \in Files : OpenToWrite(f) \/ CloseWritten(f) \/ MoveIn(f)
                      \/ WindowPasses(f)
  \/ Reader
  \/ \E w \in Workers : Work(w)

\* The reader and the pool's threads keep running; programs and the length of
\* a window are nobody's obligation.
Spec == Init /\ [][Next]_vars /\ WF_vars(Reader)
        /\ \A w \in Workers : WF_vars(Work(w))

----------------------------------------------------------------------------
(* Properties.                                                              *)

EventSet == [kind : {"file", "dir", "overflow"}, path : Files]
Results == [path : Files, ver : 0..MaxWrites, verdict : {"clean", "malicious"}]

TypeOK ==
  /\ content \in [Files -> Contents \cup {"none"}]
  /\ ver \in [Files -> 0..MaxWrites]
  /\ writing \subseteq Files /\ watched \subseteq Files
  /\ kqueue \in Seq(EventSet) /\ Len(kqueue) <= QueueMax + 1
  /\ buf \in Seq(EventSet)
  /\ recent \subseteq Files /\ missed \subseteq Files
  /\ permits \in 0..Inflight /\ tasks \in Seq(Files)
  /\ wpc \in [Workers -> {"idle", "stat", "lookup", "hit", "hash", "match",
                          "store", "act"}]
  /\ file \in [Workers -> Files] /\ key \in [Workers -> 0..MaxWrites]
  /\ hashed \in [Workers -> Contents \cup {"none"}]
  /\ verdict \in [Workers -> {"none", "clean", "malicious"}]
  /\ cache \in Seq(Results) /\ Len(cache) <= CacheMax
  /\ writes \in 0..MaxWrites

Judge(c) == IF c \in Bad THEN "malicious" ELSE "clean"

\* engine.py:107, "redundant full scans of unchanged files": whatever a program
\* writes while a file is hashed, matched and its result stored, the verdict
\* kept for the version a file has is the verdict on its content, and a worker
\* that acts on an unchanged file acts on the right verdict.
VerdictsAreCurrent ==
  /\ \A n \in DOMAIN cache :
       LET f == cache[n].path IN
       content[f] # "none" /\ cache[n].ver = ver[f]
         => cache[n].verdict = Judge(content[f])
  /\ \A w \in Workers :
       LET f == file[w] IN
       wpc[w] \in {"store", "act"} /\ content[f] # "none" /\ key[w] = ver[f]
         => verdict[w] = Judge(content[f])

\* Every accepted task returns its permit, on every path out of a scan: the
\* queue of the pool is bounded and never closes for good.
PermitsBalance ==
  permits + Len(tasks) + Cardinality({w \in Workers : wpc[w] # "idle"})
    = Inflight

Settled(f) == content[f] \in Bad /\ f \notin writing

\* A malicious file nobody writes any more is quarantined, but for the events
\* and scans the model gives up by name: overflow, a directory without a watch
\* yet, the debounce window, a full task queue, an entry evicted under a reader,
\* a scan that fails, a vault that fails.
BadIsQuarantined == \A f \in Files : Settled(f) ~> ~Settled(f) \/ f \in missed

\* "watch mode (unprivileged): scans new/modified files, quarantines threats"
\* (README.md:94): without those exceptions.
ThreatsAreQuarantined == \A f \in Files : Settled(f) ~> ~Settled(f)
=============================================================================
