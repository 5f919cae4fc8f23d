--------------------------- MODULE RealtimeProofs ----------------------------
(****************************************************************************)
(* Theorems about Realtime for any number of files, workers and writes and  *)
(* any bounds of its queues: the types, the balance of the permits, and the *)
(* verdicts of the result cache.                                            *)
(****************************************************************************)
EXTENDS Realtime, FiniteSetTheorems, SequenceTheorems, TLAPS

Busy == {w \in Workers : wpc[w] # "idle"}

\* Each version was made by a write, a kernel queue that is over its limit ends
\* in its overflow event, and a worker that is done matching has a verdict.
Consistent ==
  /\ \A f \in Files : ver[f] <= writes
  /\ Len(kqueue) = QueueMax + 1 => kqueue[QueueMax + 1].kind = "overflow"
  /\ \A w \in Workers : wpc[w] \in {"store", "act"} => verdict[w] # "none"

\* A result kept for the version a file has is the verdict on its content; no
\* result is of a version still to come.
EntryIsCurrent(e) ==
  /\ e.ver <= ver[e.path]
  /\ content[e.path] # "none" /\ e.ver = ver[e.path] => e.verdict = Judge(content[e.path])

\* The same of a worker's verdict, and of the hash it is based on.
WorkerIsCurrent(w) ==
  LET f == file[w] IN
  /\ wpc[w] \notin {"idle", "stat"} => key[w] <= ver[f]
  /\ content[f] # "none" /\ key[w] = ver[f] =>
       /\ wpc[w] = "match" => hashed[w] = content[f]
       /\ wpc[w] \in {"store", "act"} => verdict[w] = Judge(content[f])

Current ==
  /\ \A n \in DOMAIN cache : EntryIsCurrent(cache[n])
  /\ \A w \in Workers : WorkerIsCurrent(w)

IInv == TypeOK /\ Consistent /\ PermitsBalance /\ Current

----------------------------------------------------------------------------
\* NoFile is a file.
LEMMA NoFileType == NoFile \in Files
  BY RealtimeAssumption DEF NoFile

\* SetToSeq enumerates a finite set.
LEMMA SetToSeqType ==
  ASSUME NEW S, IsFiniteSet(S)
  PROVE  SetToSeq(S) \in Seq(S) /\ Len(SetToSeq(S)) = Cardinality(S)
  <1>1. Cardinality(S) \in Nat /\ ExistsBijection(1..Cardinality(S), S)
    BY FS_CardinalityType
  <1>2. PICK f \in Bijection(1..Cardinality(S), S) : TRUE
    BY <1>1 DEF ExistsBijection
  <1>3. f \in [1..Cardinality(S) -> S] /\ IsInjective(f)
    BY <1>2 DEF Bijection, Injection, IsInjective
  <1>4. SetToSeq(S) \in [1..Cardinality(S) -> S]
    BY <1>3 DEF SetToSeq
  <1> QED
    BY <1>1, <1>4

\* The initial events are of the new directories and fit into the queue.
LEMMA InitEvents ==
  LET E == {Event("dir", f) : f \in LateDirs} IN
  SetToSeq(E) \in Seq(EventSet) /\ Len(SetToSeq(E)) <= QueueMax
  <1> DEFINE E == {Event("dir", f) : f \in LateDirs}
             image == [f \in LateDirs |-> Event("dir", f)]
  <1>1. IsFiniteSet(LateDirs) /\ LateDirs \subseteq Files
    BY RealtimeAssumption, FS_Subset
  <1>2. image \in Surjection(LateDirs, E)
    BY DEF Surjection, Event
  <1>3. IsFiniteSet(E) /\ Cardinality(E) <= Cardinality(LateDirs)
    BY <1>1, <1>2, FS_Surjection DEF ExistsSurjection
  <1>4. SetToSeq(E) \in Seq(E) /\ Len(SetToSeq(E)) = Cardinality(E)
    BY <1>3, SetToSeqType
  <1>5. E \subseteq EventSet
    BY <1>1 DEF Event, EventSet
  <1>6. Cardinality(E) \in Nat /\ Cardinality(LateDirs) \in Nat
    BY <1>1, <1>3, FS_CardinalityType
  <1>7. SetToSeq(E) \in Seq(EventSet)
    BY <1>4, <1>5, SeqMonotonic
  <1> QED
    BY <1>3, <1>4, <1>6, <1>7, RealtimeAssumption

\* The invariant holds initially.
LEMMA InitInv == Init => IInv
  <1> SUFFICES ASSUME Init PROVE IInv
    OBVIOUS
  <1>1. TypeOK
    BY InitEvents, NoFileType, RealtimeAssumption
    DEF Init, TypeOK, Contents, Results, EventSet, Event
  <1>2. Consistent
    BY InitEvents, RealtimeAssumption DEF Init, Consistent
  <1>3. PermitsBalance
    <2>1. {w \in Workers : wpc[w] # "idle"} = {}
      BY DEF Init
    <2>2. Cardinality({w \in Workers : wpc[w] # "idle"}) = 0
      BY <2>1, FS_EmptySet
    <2> QED
      BY <2>2, RealtimeAssumption DEF Init, PermitsBalance
  <1>4. Current
    BY NoFileType DEF Init, Current, WorkerIsCurrent
  <1> QED
    BY <1>1, <1>2, <1>3, <1>4 DEF IInv

----------------------------------------------------------------------------
(* The workers that are busy.                                               *)

LEMMA BusyIsFinite == IsFiniteSet(Busy) /\ Cardinality(Busy) \in Nat
  <1>1. Busy \in SUBSET Workers
    BY DEF Busy
  <1> QED
    BY <1>1, FS_Subset, FS_CardinalityType, RealtimeAssumption

\* A worker that takes a task is one more.
LEMMA OneMoreBusy ==
  ASSUME TypeOK, NEW w \in Workers, wpc[w] = "idle",
         NEW label, label # "idle", wpc' = [wpc EXCEPT ![w] = label]
  PROVE  Cardinality(Busy') = Cardinality(Busy) + 1
  <1>1. Busy' = Busy \cup {w} /\ w \notin Busy
    BY DEF Busy, TypeOK
  <1> QED
    BY <1>1, BusyIsFinite, FS_AddElement

\* A worker that ends its task is one less.
LEMMA OneLessBusy ==
  ASSUME TypeOK, NEW w \in Workers, wpc[w] # "idle",
         wpc' = [wpc EXCEPT ![w] = "idle"]
  PROVE  Cardinality(Busy') = Cardinality(Busy) - 1
  <1>1. Busy' = Busy \ {w} /\ w \in Busy
    BY DEF Busy, TypeOK
  <1> QED
    BY <1>1, BusyIsFinite, FS_RemoveElement

\* A worker that goes on stays busy.
LEMMA SameBusy ==
  ASSUME TypeOK, NEW w \in Workers, wpc[w] # "idle",
         NEW label, label # "idle", wpc' = [wpc EXCEPT ![w] = label]
  PROVE  Busy' = Busy
  BY DEF Busy, TypeOK

\* The set of PermitsBalance is Busy.
LEMMA BalanceOfBusy ==
  /\ PermitsBalance <=> permits + Len(tasks) + Cardinality(Busy) = Inflight
  /\ PermitsBalance' <=> permits' + Len(tasks') + Cardinality(Busy') = Inflight
  BY DEF PermitsBalance, Busy

\* A busy worker has a permit to return.
LEMMA PermitReturns ==
  ASSUME TypeOK, PermitsBalance, NEW w \in Workers, wpc[w] # "idle"
  PROVE  permits + 1 \in 0..Inflight
  <1>1. Cardinality(Busy) # 0
    BY BusyIsFinite, FS_EmptySet DEF Busy
  <1>2. Len(tasks) \in Nat /\ permits \in Nat
    BY DEF TypeOK
  <1> QED
    BY <1>1, <1>2, BusyIsFinite, BalanceOfBusy, RealtimeAssumption

\* Every step keeps the balance of permits, tasks and busy workers.
LEMMA BalanceStep == TypeOK /\ PermitsBalance /\ [Next]_vars => PermitsBalance'
  <1> SUFFICES ASSUME TypeOK, PermitsBalance, [Next]_vars PROVE PermitsBalance'
    OBVIOUS
  <1>0. /\ permits \in Nat /\ Len(tasks) \in Nat /\ Cardinality(Busy) \in Nat
        /\ tasks \in Seq(Files) /\ Inflight \in Nat
        /\ permits + Len(tasks) + Cardinality(Busy) = Inflight
    BY BusyIsFinite, BalanceOfBusy, RealtimeAssumption DEF TypeOK
  <1>1. ASSUME permits' = permits, tasks' = tasks, Busy' = Busy
        PROVE  PermitsBalance'
    BY <1>0, <1>1, BalanceOfBusy
  <1>2. ASSUME NEW w \in Workers, End(w), wpc[w] # "idle" PROVE PermitsBalance'
    <2>1. Cardinality(Busy') = Cardinality(Busy) - 1
      BY <1>2, OneLessBusy DEF End
    <2> QED
      BY <2>1, <1>0, <1>2, BalanceOfBusy DEF End
  <1>3. ASSUME NEW w \in Workers, NEW label, label # "idle", wpc[w] # "idle",
               Goto(w, label), UNCHANGED monitor
        PROVE  PermitsBalance'
    BY <1>1, <1>3, SameBusy DEF Goto, monitor
  <1>4. ASSUME NEW f \in Files,
               OpenToWrite(f) \/ CloseWritten(f) \/ MoveIn(f) \/ WindowPasses(f)
        PROVE  PermitsBalance'
    BY <1>1, <1>4 DEF OpenToWrite, CloseWritten, MoveIn, WindowPasses, monitor, workers, Busy
  <1>5. CASE Reader
    <2>1. CASE ReadEvents \/ HandleOverflow \/ HandleNewDir
      BY <1>1, <2>1 DEF ReadEvents, HandleOverflow, HandleNewDir, monitor, workers, Busy
    <2>2. CASE Dispatch
      <3>1. Busy' = Busy
        BY <2>2 DEF Dispatch, workers, Busy
      <3>2. CASE permits' = permits /\ tasks' = tasks
        BY <1>1, <3>1, <3>2
      <3>3. CASE permits' = permits - 1 /\ Len(tasks') = Len(tasks) + 1
        BY <1>0, <3>1, <3>3, BalanceOfBusy
      <3>4. \A f : Len(Append(tasks, f)) = Len(tasks) + 1
        BY <1>0
      <3> QED
        BY <2>2, <3>2, <3>3, <3>4 DEF Dispatch
    <2> QED
      BY <1>5, <2>1, <2>2 DEF Reader
  <1>6. ASSUME NEW w \in Workers, Work(w) PROVE PermitsBalance'
    <2>1. CASE TakeTask(w)
      <3>1. Cardinality(Busy') = Cardinality(Busy) + 1
        BY <2>1, OneMoreBusy DEF TakeTask, Goto
      <3>2. Len(tasks') = Len(tasks) - 1
        BY <2>1, <1>0, HeadTailProperties DEF TakeTask
      <3> QED
        BY <2>1, <3>1, <3>2, <1>0, BalanceOfBusy DEF TakeTask
    <2>2. CASE Stat(w)
      BY <2>2, <1>3 DEF Stat
    <2>3. CASE Lookup(w)
      BY <2>3, <1>3 DEF Lookup
    <2>4. CASE UseCached(w)
      BY <2>4, <1>2, <1>3 DEF UseCached
    <2>5. CASE HashFile(w)
      BY <2>5, <1>2, <1>3 DEF HashFile
    <2>6. CASE MatchRules(w)
      BY <2>6, <1>3 DEF MatchRules
    <2>7. CASE Store(w)
      BY <2>7, <1>3 DEF Store
    <2>8. CASE Act(w)
      BY <2>8, <1>2 DEF Act
    <2> QED
      BY <1>6, <2>1, <2>2, <2>3, <2>4, <2>5, <2>6, <2>7, <2>8 DEF Work
  <1>7. CASE UNCHANGED vars
    BY <1>1, <1>7 DEF vars, monitor, workers, Busy
  <1> QED
    BY <1>4, <1>5, <1>6, <1>7 DEF Next

----------------------------------------------------------------------------
(* Types.                                                                   *)

\* A queue takes an event, and at its limit the overflow event.
LEMMA QueuedType ==
  ASSUME TypeOK, Consistent, NEW e \in EventSet
  PROVE  /\ Queued(e) \in Seq(EventSet) /\ Len(Queued(e)) <= QueueMax + 1
         /\ Len(Queued(e)) = QueueMax + 1 =>
              Queued(e)[QueueMax + 1].kind = "overflow"
  <1> DEFINE o == Event("overflow", e.path)
  <1>1. o \in EventSet /\ o.kind = "overflow"
    BY DEF EventSet, Event
  <1>2. kqueue \in Seq(EventSet) /\ Len(kqueue) <= QueueMax + 1 /\ QueueMax \in Nat \ {0}
    BY RealtimeAssumption DEF TypeOK
  <1>3. CASE Len(kqueue) < QueueMax
    BY <1>2, <1>3, AppendProperties DEF Queued
  <1>4. CASE Len(kqueue) >= QueueMax /\ Last(kqueue).kind = "overflow"
    BY <1>2, <1>4 DEF Queued, Last
  <1>5. CASE Len(kqueue) >= QueueMax /\ Last(kqueue).kind # "overflow"
    <2>1. Len(kqueue) = QueueMax
      BY <1>2, <1>5 DEF Consistent, Last
    <2>2. Queued(e) = Append(kqueue, o)
      BY <1>5, <2>1, <1>2 DEF Queued
    <2> QED
      BY <2>1, <2>2, <1>1, <1>2, AppendProperties
  <1> QED
    BY <1>2, <1>3, <1>4, <1>5

\* What Emit does to the queue and to the history.
LEMMA EmitType ==
  ASSUME TypeOK, Consistent, NEW e \in EventSet, Emit(e)
  PROVE  /\ kqueue' \in Seq(EventSet) /\ Len(kqueue') <= QueueMax + 1
         /\ Len(kqueue') = QueueMax + 1 => kqueue'[QueueMax + 1].kind = "overflow"
         /\ missed' \subseteq Files
  <1>1. e.path \in Files
    BY DEF EventSet
  <1> QED
    BY <1>1, QueuedType DEF Emit, TypeOK, Consistent

\* A file gets a new content and a new version.
LEMMA BecomeType ==
  ASSUME TypeOK, Consistent, NEW f \in Files, NEW c \in Contents, Become(f, c),
         writes' = writes + 1, writes < MaxWrites
  PROVE  /\ content' \in [Files -> Contents \cup {"none"}]
         /\ ver' \in [Files -> 0..MaxWrites]
         /\ \A g \in Files : ver'[g] <= writes'
  <1>1. MaxWrites \in Nat /\ writes \in Nat
    BY RealtimeAssumption DEF TypeOK
  <1>2. content' \in [Files -> Contents \cup {"none"}]
    BY DEF TypeOK, Become
  <1>3. ver \in [Files -> 0..MaxWrites] /\ \A g \in Files : ver[g] <= writes
    BY DEF TypeOK, Consistent
  <1>4. ver' = [ver EXCEPT ![f] = ver[f] + 1] /\ ver[f] + 1 \in 0..MaxWrites
    BY <1>1, <1>3 DEF Become
  <1>5. \A g \in Files : ver'[g] = IF g = f THEN ver[f] + 1 ELSE ver[g]
    BY <1>3, <1>4
  <1> QED
    BY <1>1, <1>2, <1>3, <1>4, <1>5

\* All that t has is of s.
TakenFrom(t, s) == \A i \in DOMAIN t : \E j \in DOMAIN s : t[i] = s[j]

\* An entry that is moved to the end leaves the others as they are.
LEMMA MoveToEnd ==
  ASSUME NEW S, NEW s \in Seq(S), NEW n \in DOMAIN s,
         NEW t, t = Append(RemoveAt(s, n), s[n])
  PROVE  t \in Seq(S) /\ Len(t) = Len(s) /\ TakenFrom(t, s)
  <1> DEFINE a == SubSeq(s, 1, n - 1)
             b == SubSeq(s, n + 1, Len(s))
  <1>1. n \in 1..Len(s) /\ Len(s) \in Nat
    OBVIOUS
  <1>2. a \in Seq(S) /\ Len(a) = n - 1 /\ \A i \in 1..n-1 : a[i] = s[i]
    BY <1>1, SubSeqProperties
  <1>3. /\ b \in Seq(S) /\ Len(b) = Len(s) - n
        /\ \A i \in 1..Len(s)-n : b[i] = s[n + i]
    BY <1>1, SubSeqProperties
  <1>4. t = Append(a \o b, s[n])
    BY DEF RemoveAt
  <1> HIDE DEF a, b
  <1> DEFINE c == a \o b
  <1>5. /\ c \in Seq(S) /\ Len(c) = Len(a) + Len(b)
         /\ \A i \in 1..Len(a) + Len(b) : c[i] = IF i <= Len(a) THEN a[i] ELSE b[i - Len(a)]
    BY <1>2, <1>3, ConcatProperties
  <1> HIDE DEF c
  <1>6. Len(c) = Len(s) - 1
    BY <1>1, <1>2, <1>3, <1>5
  <1>7. \A i \in 1..Len(s)-1 : c[i] = IF i < n THEN s[i] ELSE s[i + 1]
    <2> TAKE i \in 1..Len(s)-1
    <2>0. i \in 1..Len(a) + Len(b) /\ i \in Int /\ n \in Int
      BY <1>1, <1>2, <1>3
    <2>1. CASE i < n
      <3>1. c[i] = a[i]
        BY <2>0, <2>1, <1>2, <1>5
      <3> QED
        BY <2>0, <2>1, <3>1, <1>2
    <2>2. CASE ~(i < n)
      <3>1. c[i] = b[i - (n - 1)]
        BY <2>0, <2>2, <1>2, <1>5
      <3>2. i - (n - 1) \in 1..Len(s)-n /\ n + (i - (n - 1)) = i + 1
        BY <2>0, <2>2, <1>1
      <3>3. c[i] = s[i + 1]
        BY <3>1, <3>2, <1>3
      <3> QED
        BY <2>2, <3>3
    <2> QED
      BY <2>1, <2>2
  <1>8. t \in Seq(S) /\ Len(t) = Len(s) /\ t[Len(s)] = s[n]
        /\ \A i \in 1..Len(s)-1 : t[i] = c[i]
    BY <1>1, <1>5, <1>6, <1>4, AppendProperties DEF c
  <1>9. \A i \in DOMAIN t : \E j \in DOMAIN s : t[i] = s[j]
    <2> TAKE i \in DOMAIN t
    <2>1. i \in 1..Len(s)
      BY <1>8
    <2>2. CASE i = Len(s)
      BY <2>2, <1>8, <1>1
    <2>3. CASE i < Len(s)
      <3>1. i \in 1..Len(s)-1 /\ i \in DOMAIN s /\ i + 1 \in DOMAIN s
        BY <2>1, <2>3, <1>1
      <3>2. t[i] = IF i < n THEN s[i] ELSE s[i + 1]
        BY <3>1, <1>7, <1>8
      <3> QED
        BY <3>1, <3>2
    <2> QED
      BY <2>1, <2>2, <2>3, <1>1
  <1> QED
    BY <1>8, <1>9 DEF TakenFrom

\* The cache stays a bounded sequence, of what it held and of the new result.
LEMMA StoreType ==
  ASSUME TypeOK, Consistent, NEW w \in Workers, Store(w)
  PROVE  /\ cache' \in Seq(Results) /\ Len(cache') <= CacheMax
         /\ \A i \in DOMAIN cache' :
              \/ \E j \in DOMAIN cache : cache'[i] = cache[j]
              \/ cache'[i] = [path |-> file[w], ver |-> key[w], verdict |-> verdict[w]]
  <1> DEFINE entry == [path |-> file[w], ver |-> key[w], verdict |-> verdict[w]]
             kept == IF Cached(w)
                     THEN [n \in DOMAIN cache |->
                             IF Is(w, cache[n]) THEN entry ELSE cache[n]]
                     ELSE Append(cache, entry)
             from == IF Len(kept) > CacheMax THEN 2 ELSE 1
  <1>1. entry \in Results
    BY DEF Results, TypeOK, Consistent, Store
  <1>2. /\ cache \in Seq(Results) /\ Len(cache) \in Nat /\ Len(cache) <= CacheMax
        /\ CacheMax \in Nat \ {0} /\ DOMAIN cache = 1..Len(cache)
    BY RealtimeAssumption DEF TypeOK
  <1>3. cache' = IF key[w] = 0 THEN cache ELSE SubSeq(kept, from, Len(kept))
    BY DEF Store
  <1> HIDE DEF entry
  <1>4. /\ kept \in Seq(Results) /\ Len(kept) <= CacheMax + 1
        /\ \A i \in DOMAIN kept : kept[i] = entry \/ \E j \in DOMAIN cache : kept[i] = cache[j]
    <2>1. CASE Cached(w)
      <3>1. /\ kept \in [1..Len(cache) -> Results]
            /\ \A i \in 1..Len(cache) : kept[i] = entry \/ kept[i] = cache[i]
        BY <1>1, <1>2, <2>1
      <3> HIDE DEF kept
      <3>2. kept \in Seq(Results) /\ Len(kept) = Len(cache)
        BY <1>2, <3>1, SeqDef
      <3> QED
        BY <1>2, <3>1, <3>2
    <2>2. CASE ~Cached(w)
      <3>1. kept = Append(cache, entry)
        BY <2>2
      <3>2. /\ Append(cache, entry) \in Seq(Results)
            /\ Len(Append(cache, entry)) = Len(cache) + 1
            /\ \A i \in 1..Len(cache) : Append(cache, entry)[i] = cache[i]
            /\ Append(cache, entry)[Len(cache) + 1] = entry
        BY <1>1, <1>2, AppendProperties
      <3>3. \A i \in 1..Len(cache) + 1 : i \in 1..Len(cache) \/ i = Len(cache) + 1
        BY <1>2
      <3> HIDE DEF kept
      <3>4. kept \in Seq(Results) /\ Len(kept) = Len(cache) + 1 /\ DOMAIN kept = 1..Len(cache) + 1
        BY <1>2, <3>1, <3>2
      <3> QED
        BY <1>2, <3>1, <3>2, <3>3, <3>4
    <2> QED
      BY <2>1, <2>2
  <1> HIDE DEF kept
  <1>5. CASE key[w] = 0
    BY <1>2, <1>3, <1>5
  <1>6. CASE key[w] # 0
    <2>1. Len(kept) \in Nat /\ from \in {1, 2} /\ DOMAIN kept = 1..Len(kept)
      BY <1>4
    <2>2. \A i \in from..Len(kept) : kept[i] \in Results
      BY <1>4, <2>1
    <2>3. /\ SubSeq(kept, from, Len(kept)) \in Seq(Results)
          /\ Len(SubSeq(kept, from, Len(kept))) =
               IF from <= Len(kept) THEN Len(kept) - from + 1 ELSE 0
          /\ \A i \in 1..Len(kept) - from + 1 :
               SubSeq(kept, from, Len(kept))[i] = kept[from + i - 1]
      BY <2>1, <2>2, SubSeqProperties
    <2>4. Len(cache') <= CacheMax
      BY <1>2, <1>3, <1>4, <1>6, <2>1, <2>3
    <2>5. ASSUME NEW i \in DOMAIN cache'
          PROVE  \E m \in DOMAIN kept : cache'[i] = kept[m]
      <3>1. i \in 1..Len(kept) - from + 1
        BY <1>3, <1>6, <2>1, <2>3
      <3> QED
        BY <1>3, <1>6, <2>1, <2>3, <3>1
    <2> QED
      BY <1>3, <1>4, <1>6, <2>3, <2>4, <2>5 DEF entry
  <1> QED
    BY <1>5, <1>6 DEF TypeOK

\* Every step keeps the types.
LEMMA TypeStep ==
  TypeOK /\ Consistent /\ PermitsBalance /\ [Next]_vars => TypeOK' /\ Consistent'
  <1> SUFFICES ASSUME TypeOK, Consistent, PermitsBalance, [Next]_vars
               PROVE  TypeOK' /\ Consistent'
    OBVIOUS
  <1> USE DEF host, events, monitor, workers
  <1>0. QueueMax \in Nat \ {0} /\ CacheMax \in Nat \ {0} /\ MaxWrites \in Nat
        /\ Inflight \in Nat \ {0} /\ NoFile \in Files
    BY NoFileType, RealtimeAssumption
  <1>1. ASSUME NEW f \in Files, OpenToWrite(f) PROVE TypeOK' /\ Consistent'
    <2>1. /\ content' \in [Files -> Contents \cup {"none"}]
          /\ ver' \in [Files -> 0..MaxWrites] /\ \A g \in Files : ver'[g] <= writes'
      <3>1. CASE \E c \in Contents : Become(f, c)
        BY <1>1, <3>1, BecomeType DEF OpenToWrite
      <3>2. CASE UNCHANGED <<content, ver>>
        <4>1. writes \in Nat /\ writes' = writes + 1 /\ \A g \in Files : ver[g] \in Nat
          BY <1>0, <1>1 DEF OpenToWrite, TypeOK
        <4> QED
          BY <3>2, <4>1 DEF TypeOK, Consistent
      <3> QED
        BY <1>1, <3>1, <3>2 DEF OpenToWrite
    <2> QED
      BY <1>1, <2>1, <1>0 DEF OpenToWrite, TypeOK, Consistent
  <1>2. ASSUME NEW f \in Files, CloseWritten(f) PROVE TypeOK' /\ Consistent'
    <2>1. Event("file", f) \in EventSet
      BY DEF Event, EventSet
    <2> QED
      BY <1>2, <2>1, EmitType DEF CloseWritten, TypeOK, Consistent
  <1>3. ASSUME NEW f \in Files, MoveIn(f) PROVE TypeOK' /\ Consistent'
    <2>1. Event("file", f) \in EventSet
      BY DEF Event, EventSet
    <2>2. /\ content' \in [Files -> Contents \cup {"none"}]
          /\ ver' \in [Files -> 0..MaxWrites] /\ \A g \in Files : ver'[g] <= writes'
      BY <1>3, BecomeType DEF MoveIn
    <2>3. /\ kqueue' \in Seq(EventSet) /\ Len(kqueue') <= QueueMax + 1
          /\ Len(kqueue') = QueueMax + 1 => kqueue'[QueueMax + 1].kind = "overflow"
          /\ missed' \subseteq Files
      BY <1>3, <2>1, EmitType DEF MoveIn
    <2>4. writes' \in 0..MaxWrites /\ UNCHANGED <<writing, watched, buf, monitor, workers, cache>>
      BY <1>3, <1>0 DEF MoveIn, TypeOK
    <2> QED
      BY <2>2, <2>3, <2>4 DEF TypeOK, Consistent
  <1>4. ASSUME NEW f \in Files, WindowPasses(f) PROVE TypeOK' /\ Consistent'
    BY <1>4 DEF WindowPasses, TypeOK, Consistent
  <1>5. CASE ReadEvents
    <2>1. kqueue' \in Seq(EventSet) /\ Len(kqueue') = 0
      BY <1>5, EmptySeq DEF ReadEvents
    <2> QED
      BY <1>5, <1>0, <2>1 DEF ReadEvents, TypeOK, Consistent
  <1>6. ASSUME buf # <<>>
        PROVE  /\ Head(buf) \in EventSet /\ Head(buf).path \in Files
               /\ Tail(buf) \in Seq(EventSet)
    <2>1. Head(buf) \in EventSet /\ Tail(buf) \in Seq(EventSet)
      BY <1>6, HeadTailProperties DEF TypeOK
    <2> QED
      BY <2>1 DEF EventSet
  <1>7. CASE HandleOverflow \/ HandleNewDir
    BY <1>6, <1>7 DEF HandleOverflow, HandleNewDir, NextEvent, TypeOK, Consistent
  <1>8. CASE Dispatch
    <2>1. tasks' \in Seq(Files) /\ permits' \in 0..Inflight
      BY <1>6, <1>8, <1>0 DEF Dispatch, NextEvent, TypeOK
    <2> QED
      BY <1>6, <1>8, <2>1 DEF Dispatch, NextEvent, TypeOK, Consistent
  <1>9. ASSUME NEW w \in Workers, End(w), wpc[w] # "idle"
        PROVE  /\ recent' \subseteq Files /\ permits' \in 0..Inflight /\ tasks' \in Seq(Files)
               /\ wpc' \in [Workers -> {"idle", "stat", "lookup", "hit", "hash", "match",
                                        "store", "act"}]
               /\ file' \in [Workers -> Files] /\ key' \in [Workers -> 0..MaxWrites]
               /\ hashed' \in [Workers -> Contents \cup {"none"}]
               /\ verdict' \in [Workers -> {"none", "clean", "malicious"}]
               /\ \A v \in Workers : wpc'[v] \in {"store", "act"} => verdict'[v] # "none"
    BY <1>9, <1>0, PermitReturns DEF End, TypeOK, Consistent
  <1>10. ASSUME NEW w \in Workers, Work(w) PROVE TypeOK' /\ Consistent'
    <2>1. CASE TakeTask(w)
      BY <2>1, HeadTailProperties DEF TakeTask, Goto, TypeOK, Consistent
    <2>2. CASE Stat(w)
      BY <2>2, <1>0 DEF Stat, Goto, TypeOK, Consistent
    <2>3. CASE Lookup(w)
      BY <2>3 DEF Lookup, Goto, TypeOK, Consistent
    <2>4. CASE UseCached(w)
      <3>1. CASE Cached(w) /\ \E n \in DOMAIN cache :
                   /\ verdict' = [verdict EXCEPT ![w] = cache[n].verdict]
                   /\ cache' = Append(RemoveAt(cache, n), cache[n])
                   /\ Goto(w, "act") /\ UNCHANGED <<file, key, hashed, monitor, missed>>
        <4>1. PICK n \in DOMAIN cache :
                   /\ verdict' = [verdict EXCEPT ![w] = cache[n].verdict]
                   /\ cache' = Append(RemoveAt(cache, n), cache[n])
                   /\ Goto(w, "act") /\ UNCHANGED <<file, key, hashed, monitor, missed>>
          BY <3>1
        <4>2. cache[n] \in Results
          BY DEF TypeOK
        <4>5. cache[n].verdict \in {"clean", "malicious"}
          BY <4>2 DEF Results
        <4>3. cache' \in Seq(Results) /\ Len(cache') = Len(cache)
          <5>1. cache \in Seq(Results)
            BY DEF TypeOK
          <5>2. n \in DOMAIN cache /\ cache' = Append(RemoveAt(cache, n), cache[n])
            BY <4>1
          <5> QED
            BY <5>1, <5>2, MoveToEnd, Zenon
        <4>4. UNCHANGED <<host, events, writes>>
          BY <2>4 DEF UseCached
        <4> QED
          BY <4>1, <4>3, <4>4, <4>5 DEF Goto, TypeOK, Consistent
      <3>2. CASE ~Cached(w)
        <4>1. /\ wpc[w] # "idle" /\ End(w) /\ cache' = cache
              /\ UNCHANGED <<host, events, writes>> /\ missed' = missed \cup {file[w]}
          BY <2>4, <3>2 DEF UseCached
        <4>2. missed' \subseteq Files
          BY <4>1 DEF TypeOK
        <4> QED
          BY <4>1, <4>2, <1>9 DEF TypeOK, Consistent
      <3>3. CASE Cached(w)
        <4> DEFINE m == CHOOSE n \in DOMAIN cache : Is(w, cache[n])
        <4>1. m \in DOMAIN cache
          BY <3>3 DEF Cached
        <4> QED
          BY <2>4, <3>3, <4>1, <3>1 DEF UseCached
      <3> QED
        BY <3>2, <3>3
    <2>5. CASE HashFile(w)
      <3>1. CASE hashed' = [hashed EXCEPT ![w] = content[file[w]]] /\ Goto(w, "match")
                 /\ UNCHANGED <<file, key, verdict, monitor, missed>>
        BY <2>5, <3>1 DEF HashFile, Goto, TypeOK, Consistent
      <3>2. CASE End(w) /\ missed' \in {missed, missed \cup {file[w]}}
        <4>1. missed' \subseteq Files
          BY <3>2 DEF TypeOK
        <4> QED
          BY <2>5, <3>2, <4>1, <1>9 DEF HashFile, TypeOK, Consistent
      <3> QED
        BY <2>5, <3>1, <3>2 DEF HashFile
    <2>6. CASE MatchRules(w)
      BY <2>6 DEF MatchRules, Goto, TypeOK, Consistent
    <2>7. CASE Store(w)
      <3>1. cache' \in Seq(Results) /\ Len(cache') <= CacheMax
        BY <2>7, StoreType
      <3> QED
        BY <2>7, <3>1 DEF Store, Goto, TypeOK, Consistent
    <2>8. CASE Act(w)
      <3>1. /\ content' \in [Files -> Contents \cup {"none"}] /\ ver' = ver
            /\ writing' \subseteq Files /\ missed' \subseteq Files
        BY <2>8 DEF Act, TypeOK
      <3> QED
        BY <2>8, <3>1, <1>9 DEF Act, TypeOK, Consistent
    <2> QED
      BY <1>10, <2>1, <2>2, <2>3, <2>4, <2>5, <2>6, <2>7, <2>8 DEF Work
  <1>11. CASE UNCHANGED vars
    BY <1>11 DEF vars, TypeOK, Consistent
  <1> QED
    BY <1>1, <1>2, <1>3, <1>4, <1>5, <1>7, <1>8, <1>10, <1>11 DEF Next, Reader

----------------------------------------------------------------------------
(* Verdicts.                                                                *)

\* A content that is there changes with its version only.
HostGrows ==
  \A f \in Files :
    /\ ver'[f] >= ver[f]
    /\ ver'[f] = ver[f] /\ content'[f] # "none" => content'[f] = content[f]

\* Every step of the programs, the kernel and the monitor is such a step.
LEMMA HostStep == TypeOK /\ [Next]_vars => HostGrows
  <1> SUFFICES ASSUME TypeOK, [Next]_vars PROVE HostGrows
    OBVIOUS
  <1> USE DEF host
  <1>1. \A f \in Files : ver[f] \in Nat
    BY RealtimeAssumption DEF TypeOK
  <1>2. CASE UNCHANGED <<content, ver>>
    BY <1>1, <1>2 DEF HostGrows
  <1>3. ASSUME NEW f \in Files, NEW c \in Contents, Become(f, c) PROVE HostGrows
    BY <1>1, <1>3 DEF Become, HostGrows, TypeOK
  <1>4. ASSUME NEW w \in Workers, Act(w) PROVE HostGrows
    <2>1. ver' = ver /\ content' \in {content, [content EXCEPT ![file[w]] = "none"]}
      BY <1>4 DEF Act
    <2> QED
      BY <1>1, <2>1 DEF HostGrows, TypeOK
  <1>5. ASSUME NEW f \in Files,
               OpenToWrite(f) \/ CloseWritten(f) \/ MoveIn(f) \/ WindowPasses(f)
        PROVE  HostGrows
    BY <1>2, <1>3, <1>5 DEF OpenToWrite, CloseWritten, MoveIn, WindowPasses
  <1>6. CASE Reader
    BY <1>2, <1>6 DEF Reader, ReadEvents, HandleOverflow, HandleNewDir, Dispatch
  <1>7. ASSUME NEW w \in Workers, Work(w) PROVE HostGrows
    BY <1>2, <1>4, <1>7
    DEF Work, TakeTask, Stat, Lookup, UseCached, HashFile, MatchRules, Store
  <1>8. CASE UNCHANGED vars
    BY <1>2, <1>8 DEF vars
  <1> QED
    BY <1>5, <1>6, <1>7, <1>8 DEF Next

\* A kept result stays right.
LEMMA EntryStaysCurrent ==
  ASSUME TypeOK, TypeOK', HostGrows, NEW e \in Results, EntryIsCurrent(e)
  PROVE  EntryIsCurrent(e)'
  <1>1. e.path \in Files /\ e.ver \in Int
    BY RealtimeAssumption DEF Results
  <1>2. ver[e.path] \in Int /\ ver'[e.path] \in Int
    BY <1>1, RealtimeAssumption DEF TypeOK
  <1> QED
    BY <1>1, <1>2 DEF EntryIsCurrent, HostGrows

\* So does what a worker has that does nothing.
LEMMA WorkerStaysCurrent ==
  ASSUME TypeOK, TypeOK', HostGrows, NEW w \in Workers, WorkerIsCurrent(w),
         file'[w] = file[w], key'[w] = key[w], hashed'[w] = hashed[w],
         verdict'[w] = verdict[w], wpc'[w] = wpc[w]
  PROVE  WorkerIsCurrent(w)'
  <1>1. file[w] \in Files /\ key[w] \in Int
    BY RealtimeAssumption DEF TypeOK
  <1>2. ver[file[w]] \in Int /\ ver'[file[w]] \in Int
    BY <1>1, RealtimeAssumption DEF TypeOK
  <1> QED
    BY <1>1, <1>2 DEF WorkerIsCurrent, HostGrows

\* Every step keeps the results and the workers current.
LEMMA CurrentStep ==
  TypeOK /\ TypeOK' /\ Consistent /\ Current /\ [Next]_vars => Current'
  <1> SUFFICES ASSUME TypeOK, TypeOK', Consistent, Current, [Next]_vars
               PROVE  Current'
    OBVIOUS
  <1>1. HostGrows
    BY HostStep
  <1>2. ASSUME cache' = cache PROVE (\A n \in DOMAIN cache : EntryIsCurrent(cache[n]))'
    <2>1. ASSUME NEW n \in DOMAIN cache PROVE EntryIsCurrent(cache[n])'
      <3>1. PICK e \in Results : e = cache[n] /\ EntryIsCurrent(e)
        BY DEF Current, TypeOK
      <3>2. EntryIsCurrent(e)'
        BY <1>1, <3>1, EntryStaysCurrent
      <3> QED
        BY <1>2, <3>1, <3>2 DEF EntryIsCurrent
    <2> QED
      BY <1>2, <2>1
  <1>3. ASSUME UNCHANGED workers PROVE (\A w \in Workers : WorkerIsCurrent(w))'
    BY <1>1, <1>3, WorkerStaysCurrent DEF Current, workers
  <1>4. ASSUME NEW f \in Files,
               OpenToWrite(f) \/ CloseWritten(f) \/ MoveIn(f) \/ WindowPasses(f)
        PROVE  Current'
    BY <1>2, <1>3, <1>4 DEF OpenToWrite, CloseWritten, MoveIn, WindowPasses, Current
  <1>5. CASE Reader
    BY <1>2, <1>3, <1>5 DEF Reader, ReadEvents, HandleOverflow, HandleNewDir, Dispatch, Current
  <1>6. ASSUME NEW w \in Workers, Work(w) PROVE Current'
    <2>1. \A v \in Workers \ {w} : /\ file'[v] = file[v] /\ key'[v] = key[v]
                                 /\ hashed'[v] = hashed[v] /\ verdict'[v] = verdict[v]
                                 /\ wpc'[v] = wpc[v]
      <3> TAKE v \in Workers \ {w}
      <3>0. /\ wpc \in [Workers -> {"idle", "stat", "lookup", "hit", "hash", "match",
                                   "store", "act"}]
            /\ file \in [Workers -> Files] /\ key \in [Workers -> 0..MaxWrites]
            /\ hashed \in [Workers -> Contents \cup {"none"}]
            /\ verdict \in [Workers -> {"none", "clean", "malicious"}]
        BY DEF TypeOK
      <3>1. CASE End(w)
        BY <3>0, <3>1 DEF End
      <3>2. CASE TakeTask(w)
        BY <3>0, <3>2 DEF TakeTask, Goto
      <3>3. CASE Stat(w) \/ Lookup(w) \/ MatchRules(w) \/ Store(w)
        BY <3>0, <3>3 DEF Stat, Lookup, MatchRules, Store, Goto
      <3>4. CASE UseCached(w)
        BY <3>0, <3>1, <3>4 DEF UseCached, Goto
      <3>5. CASE HashFile(w)
        BY <3>0, <3>1, <3>5 DEF HashFile, Goto
      <3>6. CASE Act(w)
        BY <3>1, <3>6 DEF Act
      <3> QED
        BY <1>6, <3>2, <3>3, <3>4, <3>5, <3>6 DEF Work
    <2>2. \A v \in Workers \ {w} : WorkerIsCurrent(v)'
      BY <1>1, <2>1, WorkerStaysCurrent DEF Current
    <2>3. /\ file[w] \in Files /\ file'[w] \in Files
          /\ \A f \in Files : ver[f] \in Nat /\ ver'[f] \in Nat
      BY RealtimeAssumption DEF TypeOK
    <2>4. ASSUME End(w) PROVE WorkerIsCurrent(w)'
      BY <2>3, <2>4, NoFileType DEF End, WorkerIsCurrent, TypeOK
    <2>5. ASSUME WorkerIsCurrent(w)', cache' = cache PROVE Current'
      BY <1>2, <2>2, <2>5 DEF Current
    <2>6. CASE TakeTask(w)
      <3>1. wpc'[w] = "stat" /\ cache' = cache
        BY <2>6 DEF TakeTask, Goto, TypeOK
      <3> QED
        BY <2>5, <3>1 DEF WorkerIsCurrent
    <2>7. CASE Stat(w)
      <3>1. /\ wpc'[w] = "lookup" /\ cache' = cache /\ file' = file /\ ver' = ver
            /\ key'[w] \in {0, ver[file[w]]}
        BY <2>7 DEF Stat, Goto, TypeOK, host
      <3> QED
        BY <2>3, <2>5, <3>1 DEF WorkerIsCurrent
    <2>8. CASE Lookup(w)
      <3>1. /\ wpc[w] = "lookup" /\ wpc'[w] \in {"hit", "hash"} /\ cache' = cache
            /\ file' = file /\ key' = key /\ ver' = ver
        BY <2>8 DEF Lookup, Goto, TypeOK, host
      <3> QED
        BY <2>5, <3>1 DEF WorkerIsCurrent, Current
    <2>9. CASE UseCached(w)
      <3>1. CASE Cached(w)
        <4> DEFINE m == CHOOSE n \in DOMAIN cache : Is(w, cache[n])
        <4>1. m \in DOMAIN cache /\ Is(w, cache[m])
          BY <3>1 DEF Cached
        <4>0. /\ verdict' = [verdict EXCEPT ![w] = cache[m].verdict]
              /\ cache' = Append(RemoveAt(cache, m), cache[m])
          BY <2>9, <3>1 DEF UseCached
        <4> HIDE DEF m
        <4>2. PICK n \in DOMAIN cache :
                /\ Is(w, cache[n])
                /\ wpc[w] = "hit" /\ wpc'[w] = "act"
                /\ verdict'[w] = cache[n].verdict
                /\ cache' = Append(RemoveAt(cache, n), cache[n])
                /\ file' = file /\ key' = key /\ ver' = ver /\ content' = content
          BY <2>9, <3>1, <4>0, <4>1 DEF UseCached, Goto, TypeOK, host
        <4>3. EntryIsCurrent(cache[n])
          BY DEF Current
        <4>4. WorkerIsCurrent(w)'
          BY <4>2, <4>3 DEF WorkerIsCurrent, EntryIsCurrent, Is, Current
        <4>5. \A i \in DOMAIN cache' : \E j \in DOMAIN cache : cache'[i] = cache[j]
          <5>1. cache \in Seq(Results)
            BY DEF TypeOK
          <5>2. n \in DOMAIN cache /\ cache' = Append(RemoveAt(cache, n), cache[n])
            BY <4>2
          <5>3. TakenFrom(cache', cache)
            BY <5>1, <5>2, MoveToEnd, Zenon
          <5> QED
            BY <5>3 DEF TakenFrom
        <4>6. \A i \in DOMAIN cache' : EntryIsCurrent(cache'[i])
          BY <4>5 DEF Current
        <4> QED
          BY <2>2, <4>2, <4>4, <4>6 DEF Current, EntryIsCurrent
      <3>2. CASE ~Cached(w)
        BY <2>4, <2>5, <2>9, <3>2 DEF UseCached
      <3> QED
        BY <3>1, <3>2
    <2>10. CASE HashFile(w)
      <3>1. CASE hashed' = [hashed EXCEPT ![w] = content[file[w]]] /\ Goto(w, "match")
                 /\ UNCHANGED <<file, key>>
        <4>1. /\ wpc[w] = "hash" /\ wpc'[w] = "match" /\ cache' = cache
              /\ hashed'[w] = content[file[w]]
              /\ file' = file /\ key' = key /\ ver' = ver /\ content' = content
          BY <2>10, <3>1 DEF HashFile, Goto, TypeOK, host
        <4> QED
          BY <2>5, <4>1 DEF WorkerIsCurrent, Current
      <3>2. CASE End(w)
        BY <2>4, <2>5, <2>10, <3>2 DEF HashFile
      <3> QED
        BY <2>10, <3>1, <3>2 DEF HashFile
    <2>11. CASE MatchRules(w)
      <3>1. /\ wpc[w] = "match" /\ wpc'[w] = "store" /\ cache' = cache
            /\ verdict'[w] = IF hashed[w] = "hash" \/ content[file[w]] = "rule"
                             THEN "malicious" ELSE "clean"
            /\ file' = file /\ key' = key /\ ver' = ver /\ content' = content
        BY <2>11 DEF MatchRules, Goto, TypeOK, host
      <3>2. content[file[w]] \in {"none", "clean", "hash", "rule"}
        BY <2>3 DEF TypeOK, Contents
      <3> QED
        BY <2>5, <3>1, <3>2 DEF WorkerIsCurrent, Current, Judge, Bad
    <2>12. CASE Store(w)
      <3> DEFINE entry == [path |-> file[w], ver |-> key[w], verdict |-> verdict[w]]
      <3>1. /\ wpc[w] = "store" /\ wpc'[w] = "act"
            /\ UNCHANGED <<file, key, ver, content, verdict>>
        BY <2>12 DEF Store, Goto, TypeOK, host
      <3>2. WorkerIsCurrent(w)'
        BY <3>1 DEF WorkerIsCurrent, Current
      <3>3. EntryIsCurrent(entry)
        BY <3>1 DEF WorkerIsCurrent, EntryIsCurrent, Current
      <3>4. \A i \in DOMAIN cache' : \/ \E j \in DOMAIN cache : cache'[i] = cache[j]
                                    \/ cache'[i] = entry
        BY <2>12, StoreType
      <3>5. \A i \in DOMAIN cache' : EntryIsCurrent(cache'[i])
        BY <3>3, <3>4 DEF Current
      <3> QED
        BY <2>2, <3>1, <3>2, <3>5 DEF Current, EntryIsCurrent
    <2>13. CASE Act(w)
      BY <2>4, <2>5, <2>13 DEF Act
    <2> QED
      BY <1>6, <2>6, <2>7, <2>8, <2>9, <2>10, <2>11, <2>12, <2>13 DEF Work
  <1>7. CASE UNCHANGED vars
    BY <1>2, <1>3, <1>7 DEF vars, Current
  <1> QED
    BY <1>4, <1>5, <1>6, <1>7 DEF Next

----------------------------------------------------------------------------
\* The invariant is inductive.
LEMMA NextInv == IInv /\ [Next]_vars => IInv'
  BY TypeStep, BalanceStep, CurrentStep DEF IInv

LEMMA InvHolds == Spec => []IInv
  BY InitInv, NextInv, PTL DEF Spec

\* The types (realtime/monitor.py, engine.py): the kernel queue, the pool's queue
\* and the result cache keep to their bounds, and versions to their writes.
THEOREM TypesHold == Spec => []TypeOK
  <1>1. IInv => TypeOK
    BY DEF IInv
  <1> QED
    BY <1>1, InvHolds, PTL

\* Every accepted task returns its permit (_process), for any number of workers
\* and files and whatever becomes of a scan.
THEOREM PermitsAreReturned == Spec => []PermitsBalance
  <1>1. IInv => PermitsBalance
    BY DEF IInv
  <1> QED
    BY <1>1, InvHolds, PTL

\* The cache (_scan_file) never answers for a version of a file with the verdict
\* on another content, for any number of files, workers, writes and entries.
THEOREM CachedVerdictsAreCurrent == Spec => []VerdictsAreCurrent
  <1>1. IInv => VerdictsAreCurrent
    BY DEF IInv, Current, EntryIsCurrent, WorkerIsCurrent, VerdictsAreCurrent
  <1> QED
    BY <1>1, InvHolds, PTL
=============================================================================
