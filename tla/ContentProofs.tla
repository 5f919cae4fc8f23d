---------------------------- MODULE ContentProofs ----------------------------
(****************************************************************************)
(* Theorems about Content, for any feeds, rules and signatures and any      *)
(* number of updates, interruptions and files that cannot be removed.       *)
(*                                                                          *)
(* ContentInv says what each phase of an update has achieved (Progress),    *)
(* what feed_state.json may hold (StateFile) and what the reload loop has   *)
(* in hand (Monitored).  The rule directory stays finite, which is what     *)
(* turns the set of stale files into a list of removals.                    *)
(****************************************************************************)
EXTENDS Content, TLAPS, FiniteSetTheorems, WellFoundedInduction

-----------------------------------------------------------------------------
(* The invariant.                                                           *)

Signed == ToSet(SigsOf[feed])

\* How far the running update is.
Progress ==
  /\ upc # "idle" => feed \in Feeds /\ begun = feed /\ now # 0
  /\ upc \notin {"idle", "rows"} => feed \notin Broken /\ Signed \subseteq db
  /\ upc = "rows" => Signed \subseteq db \cup ToSet(rest)
  /\ upc \in {"clear", "record"} => rest = <<>>
  /\ upc \in {"clear", "stage"} => existing = Files
  /\ upc = "stage" => \A r \in Desired \ ToSet(rest) : staging[r] # 0
  /\ upc = "remove" =>
       /\ \A r \in Desired : staging[r] # 0
       /\ ToSet(rest) \subseteq Stale /\ existing \cap Desired \subseteq Files
       /\ faults = 0 => Files \subseteq Desired \cup ToSet(rest)
  /\ upc = "move" =>
       /\ IsInjective(rest) /\ ToSet(rest) \subseteq Desired
       /\ \A r \in ToSet(rest) : staging[r] # 0
       /\ existing \cap Desired \subseteq Files
       /\ Desired \subseteq Files \cup ToSet(rest)
       /\ faults = 0 => Files \subseteq Desired
  /\ upc = "record" =>
       Desired \subseteq Files /\ (faults = 0 => Files = Desired)

\* feed_state.json and the last update.
StateFile ==
  /\ ~forced => recorded = 0 \/ recorded <= begun
  /\ ~forced /\ upc # "idle" => recorded = 0 \/ recorded < begun
  /\ ~forced /\ upc = "idle" /\ begun # 0 /\ recorded = begun =>
       /\ ToSet(SigsOf[begun]) \subseteq db
       /\ faults = 0 => Files = ToSet(RulesOf[begun])

\* A rule of every feed, once loaded, is in the directory and is read again.
Monitored ==
  /\ mpc = "text" => listing # {}
  /\ \A r \in loaded \cup got : Staple(r) => r \in Files
  /\ mpc \in {"time", "text"} =>
       \A r \in loaded : Staple(r) => r \in got \cup listing

ContentInv == TypeOK /\ IsFiniteSet(Files) /\ Progress /\ StateFile /\ Monitored

-----------------------------------------------------------------------------
(* Sequences and sets.                                                      *)

LEMMA SetOf == ASSUME NEW S, NEW q \in Seq(S) PROVE ToSet(q) \subseteq S
  BY DEF ToSet

LEMMA SeqOfMore ==
  ASSUME NEW S, NEW T \in SUBSET S, NEW q \in Seq(T) PROVE q \in Seq(S)
  OBVIOUS

LEMMA SetOfEmpty == ToSet(<<>>) = {} /\ IsInjective(<<>>)
  BY DEF ToSet, IsInjective

LEMMA HeadAndTail ==
  ASSUME NEW S, NEW q \in Seq(S), q # <<>>
  PROVE  /\ Head(q) \in S /\ Tail(q) \in Seq(S)
         /\ ToSet(q) = {Head(q)} \cup ToSet(Tail(q))
         /\ IsInjective(q) => IsInjective(Tail(q)) /\ Head(q) \notin ToSet(Tail(q))
  <1>1. /\ Len(q) \in Nat \ {0} /\ DOMAIN q = 1..Len(q) /\ Head(q) = q[1] /\ q[1] \in S
        /\ Tail(q) \in Seq(S) /\ DOMAIN Tail(q) = 1..(Len(q) - 1)
        /\ \A n \in 1..(Len(q) - 1) : Tail(q)[n] = q[n + 1]
    OBVIOUS
  <1>2. ASSUME NEW x \in ToSet(q) PROVE x = Head(q) \/ x \in ToSet(Tail(q))
    <2>1. PICK n \in DOMAIN q : x = q[n]
      BY DEF ToSet
    <2>2. CASE n # 1
      <3>1. n - 1 \in DOMAIN Tail(q) /\ Tail(q)[n - 1] = q[n]
        BY <1>1, <2>2
      <3> QED
        BY <2>1, <3>1 DEF ToSet
    <2> QED
      BY <1>1, <2>1, <2>2
  <1>3. ASSUME NEW x \in ToSet(Tail(q)) PROVE \E n \in DOMAIN q : n # 1 /\ x = q[n]
    <2>1. PICK n \in DOMAIN Tail(q) : x = Tail(q)[n]
      BY DEF ToSet
    <2>2. n + 1 \in DOMAIN q /\ n + 1 # 1 /\ x = q[n + 1]
      BY <1>1, <2>1
    <2> QED
      BY <2>2
  <1>4. Head(q) \in ToSet(q)
    BY <1>1 DEF ToSet
  <1>5. ToSet(q) = {Head(q)} \cup ToSet(Tail(q))
    BY <1>2, <1>3, <1>4 DEF ToSet
  <1>6. ASSUME IsInjective(q) PROVE IsInjective(Tail(q)) /\ Head(q) \notin ToSet(Tail(q))
    BY <1>1, <1>3, <1>6 DEF IsInjective
  <1> QED
    BY <1>1, <1>5, <1>6

LEMMA SeqOfSet ==
  ASSUME NEW S, IsFiniteSet(S)
  PROVE  SetToSeq(S) \in Seq(S) /\ ToSet(SetToSeq(S)) = S
  <1> DEFINE n == Cardinality(S)
             f == SetToSeq(S)
  <1>1. n \in Nat /\ ExistsBijection(1..n, S)
    BY FS_CardinalityType
  <1>2. PICK g \in [1..n -> S] : IsInjective(g)
    BY <1>1 DEF ExistsBijection, Bijection, Injection
  <1>3. f \in [1..n -> S] /\ IsInjective(f)
    BY <1>2 DEF SetToSeq
  <1> HIDE DEF f
  <1>4. IsFiniteSet(1..n) /\ Cardinality(1..n) = n
    BY <1>1, FS_Interval
  <1>5. f \in Injection(1..n, S)
    BY <1>3 DEF Injection
  <1>6. f \in Surjection(1..n, S)
    BY <1>4, <1>5, FS_Injection
  <1>7. \A x \in S : \E i \in 1..n : f[i] = x
    BY <1>6 DEF Surjection
  <1>8. f \in Seq(S)
    BY <1>1, <1>3
  <1>9. ToSet(f) = S
    BY <1>3, <1>7 DEF ToSet
  <1> QED
    BY <1>8, <1>9 DEF f

LEMMA MinIsIn ==
  ASSUME NEW S \in SUBSET Nat, S # {} PROVE Min(S) \in S
  <1>1. PICK x \in S : \A y \in S : ~(<<y, x>> \in OpToRel(<, Nat))
    BY NatLessThanWellFounded, WFMin, Zenon
  <1>2. \A y \in S : ~(y < x)
    BY <1>1 DEF OpToRel
  <1>3. \A y \in S : x <= y
    BY <1>2
  <1> QED
    BY <1>3 DEF Min

-----------------------------------------------------------------------------
(* Steps.                                                                   *)

LEMMA ContentInit == Init => ContentInv
  <1> SUFFICES ASSUME Init PROVE ContentInv
    OBVIOUS
  <1>1. Files = {}
    BY DEF Init, Files
  <1>2. TypeOK
    <2>1. <<>> \in Seq(Rules) /\ <<>> \in Seq(Sigs) /\ MaxUpdates \in Nat /\ MaxStops \in Nat
          /\ MaxFaults \in Nat
      BY ContentAssumption
    <2>2. rest \in Seq(IF upc = "rows" THEN Sigs ELSE Rules)
      BY <2>1 DEF Init
    <2>3. 0 \in 0..MaxUpdates /\ 0 \in 0..MaxStops /\ 0 \in 0..MaxFaults
      BY <2>1
    <2>4. db \subseteq Sigs /\ existing \subseteq Rules /\ listing \subseteq Rules
          /\ got \subseteq Rules /\ loaded \subseteq Rules
      BY DEF Init
    <2>5. dir \in [Rules -> Nat] /\ staging \in [Rules -> Nat]
      BY DEF Init
    <2>6. compiled \in BOOLEAN /\ alone \subseteq Rules
      BY ContentAssumption DEF Init
    <2> QED
      BY <2>2, <2>3, <2>4, <2>5, <2>6 DEF Init, TypeOK
  <1> QED
    BY <1>1, <1>2, FS_EmptySet DEF Init, ContentInv, Progress, StateFile, Monitored

LEMMA UpdateTypes ==
  ASSUME ContentInv,
         UpdateStep \/ StopUpdate \/ \E f \in Feeds, force \in BOOLEAN : Begin(f, force)
  PROVE  TypeOK'
  <1>0. /\ TypeOK /\ <<>> \in Seq(Rules) /\ <<>> \in Seq(Sigs)
        /\ upc # "idle" => feed \in Feeds
    BY DEF ContentInv, Progress
  <1> USE ContentAssumption DEF TypeOK
  <1>1. ASSUME NEW f \in Feeds, NEW force \in BOOLEAN, Begin(f, force) PROVE TypeOK'
    BY <1>0, <1>1 DEF Begin, monitor
  <1>2. CASE AddRow
    <2>1. rest \in Seq(Sigs) /\ rest # <<>>
      BY <1>2 DEF AddRow, ContentInv
    <2>2. Head(rest) \in Sigs /\ Tail(rest) \in Seq(Sigs)
      BY <2>1, HeadAndTail
    <2> QED
      BY <1>0, <1>2, <2>2 DEF AddRow, monitor, ghosts
  <1>3. CASE RefuseRules
    BY <1>0, <1>3 DEF RefuseRules, Idle, store, monitor, ghosts
  <1>4. CASE ListRules
    BY <1>0, <1>4 DEF ListRules, store, monitor, ghosts, Files
  <1>5. CASE ClearStaging
    BY <1>0, <1>5 DEF ClearStaging, monitor, ghosts
  <1>6. CASE StageRule
    <2>1. rest \in Seq(Rules) /\ rest # <<>>
      BY <1>0, <1>6 DEF StageRule
    <2>2. Head(rest) \in Rules /\ Tail(rest) \in Seq(Rules)
      BY <2>1, HeadAndTail
    <2>3. now' \in Nat
      BY <1>0, <1>6 DEF StageRule
    <2>4. staging' \in [Rules -> Nat]
      BY <1>0, <1>6, <2>3 DEF StageRule
    <2> QED
      BY <1>0, <1>6, <2>2, <2>3, <2>4 DEF StageRule, monitor, ghosts
  <1>7. CASE StagedAll
    <2>1. IsFiniteSet(Stale) /\ Stale \in SUBSET Rules
      <3>1. Stale \in SUBSET Files
        BY <1>7 DEF StagedAll, Stale, ContentInv, Progress
      <3>2. Files \subseteq Rules
        BY DEF Files
      <3> QED
        BY <3>1, <3>2, FS_Subset DEF ContentInv
    <2>2. SetToSeq(Stale) \in Seq(Rules)
      <3>1. SetToSeq(Stale) \in Seq(Stale)
        BY <2>1, SeqOfSet
      <3> QED
        BY <2>1, <3>1, SeqOfMore
    <2> QED
      BY <1>0, <1>7, <2>2 DEF StagedAll, store, monitor, ghosts
  <1>8. CASE RemoveStale
    <2>1. rest \in Seq(Rules) /\ rest # <<>>
      BY <1>0, <1>8 DEF RemoveStale
    <2>2. Head(rest) \in Rules /\ Tail(rest) \in Seq(Rules)
      BY <2>1, HeadAndTail
    <2>3. faults' \in 0..MaxFaults
      BY <1>0, <1>8 DEF RemoveStale
    <2>4. dir' \in [Rules -> Nat]
      BY <1>0, <1>8, <2>2 DEF RemoveStale
    <2> QED
      BY <1>0, <1>8, <2>2, <2>3, <2>4 DEF RemoveStale, monitor
  <1>9. CASE RemovedAll
    BY <1>0, <1>9 DEF RemovedAll, store, monitor, ghosts
  <1>10. CASE MoveRule
    <2>1. rest \in Seq(Rules) /\ rest # <<>>
      BY <1>0, <1>10 DEF MoveRule
    <2>2. Head(rest) \in Rules /\ Tail(rest) \in Seq(Rules)
      BY <2>1, HeadAndTail
    <2> QED
      BY <1>0, <1>10, <2>2 DEF MoveRule, monitor, ghosts
  <1>11. CASE MovedAll
    BY <1>0, <1>11 DEF MovedAll, monitor, ghosts
  <1>12. CASE RecordApplied
    BY <1>0, <1>12 DEF RecordApplied, Idle, monitor, ghosts
  <1>13. CASE StopUpdate
    BY <1>0, <1>13 DEF StopUpdate, Idle, store, monitor
  <1> QED
    BY <1>1, <1>2, <1>3, <1>4, <1>5, <1>6, <1>7, <1>8, <1>9, <1>10, <1>11, <1>12, <1>13
       DEF UpdateStep

LEMMA ReloadTypes == ASSUME ContentInv, Reload PROVE TypeOK'
  <1> USE DEF TypeOK
  <1>0. TypeOK /\ UNCHANGED <<store, updater, begun, forced, updates, stops, faults>> /\ Files \subseteq Rules
    BY DEF ContentInv, Files, Reload, ListToCheck, CheckTimes, ListToCollect, TakeTime, TakeText,
           Compile, ghosts
  <1>1. CASE ListToCheck
    BY <1>0, <1>1 DEF ListToCheck, store, updater, ghosts
  <1>2. CASE CheckTimes
    BY <1>0, <1>2 DEF CheckTimes, store, updater, ghosts
  <1>3. CASE ListToCollect
    BY <1>0, <1>3 DEF ListToCollect, store, updater, ghosts
  <1>4. CASE TakeTime
    <2>1. Min(listing) \in listing
      BY <1>0, <1>4, MinIsIn, ContentAssumption DEF TakeTime
    <2>2. \A a, b \in Nat : Max({a, b}) \in Nat
      BY DEF Max
    <2> QED
      BY <1>0, <1>4, <2>1, <2>2 DEF TakeTime, store, updater, ghosts
  <1>5. CASE TakeText
    <2>0. listing # {} /\ listing \in SUBSET Nat
      BY <1>0, <1>5, ContentAssumption DEF TakeText, ContentInv, Monitored
    <2>1. Min(listing) \in Rules
      BY <1>0, <2>0, MinIsIn
    <2> QED
      BY <1>0, <1>5, <2>1 DEF TakeText, store, updater, ghosts
  <1>6. CASE Compile
    BY <1>0, <1>6 DEF Compile, Kept, store, updater, ghosts
  <1> QED
    BY <1>1, <1>2, <1>3, <1>4, <1>5, <1>6 DEF Reload

\* What a change of one file does to the directory.
LEMMA FilesNow ==
  ASSUME TypeOK
  PROVE  /\ dir' = dir => Files' = Files
         /\ \A r \in Rules : dir' = [dir EXCEPT ![r] = 0] => Files' = Files \ {r}
         /\ \A r \in Rules : \A t \in Nat \ {0} :
              dir' = [dir EXCEPT ![r] = t] => Files' = Files \cup {r}
  BY DEF TypeOK, Files

LEMMA StaplesKept ==
  ASSUME ContentInv, UNCHANGED monitor, \A r \in Files : Staple(r) => r \in Files'
  PROVE  Monitored'
  BY DEF ContentInv, Monitored, monitor, Staple

LEMMA BeginKeeps ==
  ASSUME ContentInv, NEW f \in Feeds, NEW force \in BOOLEAN, Begin(f, force)
  PROVE  IsFiniteSet(Files)' /\ Progress' /\ StateFile' /\ Monitored'
  <1>1. /\ Files' = Files /\ UNCHANGED monitor /\ upc' = "rows" /\ feed' = f /\ begun' = f
        /\ rest' = SigsOf[f] /\ recorded' = recorded /\ forced' = (forced \/ force)
        /\ Newer(f, force) /\ now' # 0
    BY FilesNow DEF Begin, ContentInv, TypeOK
  <1>2. Progress'
    BY <1>1 DEF Progress, Signed
  <1>3. StateFile'
    <2>1. recorded \in Nat /\ f \in Nat
      BY ContentAssumption DEF ContentInv, TypeOK
    <2>2. ~forced' => recorded = 0 \/ f > recorded
      BY <1>1 DEF Newer
    <2> QED
      BY <1>1, <2>1, <2>2 DEF StateFile
  <1>4. Monitored'
    BY <1>1, StaplesKept
  <1> QED
    BY <1>1, <1>2, <1>3, <1>4 DEF ContentInv

\* A step of an update that leaves the directory alone.
LEMMA StateKept ==
  ASSUME ContentInv, UNCHANGED <<dir, recorded, begun, forced, monitor>>, faults' = faults,
         upc # "idle"
  PROVE  IsFiniteSet(Files)' /\ StateFile' /\ Monitored'
  <1>1. Files' = Files
    BY FilesNow DEF ContentInv
  <1>2. Monitored'
    BY <1>1, StaplesKept
  <1>3. StateFile'
    <2>1. recorded \in Nat /\ begun \in Nat
      BY ContentAssumption DEF ContentInv, TypeOK
    <2> QED
      BY <2>1 DEF ContentInv, StateFile
  <1> QED
    BY <1>1, <1>2, <1>3 DEF ContentInv

LEMMA RowsKeep ==
  ASSUME ContentInv,
         AddRow \/ RefuseRules \/ ListRules \/ ClearStaging \/ StageRule \/ StagedAll \/ StopUpdate
         \/ RemovedAll \/ MovedAll
  PROVE  IsFiniteSet(Files)' /\ Progress' /\ StateFile' /\ Monitored'
  <1>1. /\ UNCHANGED <<dir, recorded, begun, forced, monitor>> /\ faults' = faults
        /\ upc # "idle"
    BY DEF AddRow, RefuseRules, ListRules, ClearStaging, StageRule, StagedAll, StopUpdate,
           RemovedAll,
           MovedAll, store, ghosts
  <1>2. IsFiniteSet(Files)' /\ StateFile' /\ Monitored'
    BY <1>1, StateKept
  <1>3. Files' = Files /\ TypeOK /\ Progress /\ feed \in Feeds /\ begun' = begun /\ now' # 0
    <2>1. now \in Nat /\ now # 0
      BY <1>1 DEF ContentInv, Progress, TypeOK
    <2>2. now' = now \/ now' = now + 1
      BY DEF AddRow, RefuseRules, ListRules, ClearStaging, StageRule, StagedAll, StopUpdate,
             RemovedAll, MovedAll, store
    <2> QED
      BY <1>1, <2>1, <2>2, FilesNow DEF ContentInv, Progress
  <1>4. CASE AddRow
    <2>1. rest \in Seq(Sigs) /\ rest # <<>> /\ rest' = Tail(rest) /\ db' = db \cup {Head(rest)}
          /\ upc = "rows" /\ upc' = "rows" /\ feed' = feed
      BY <1>3, <1>4 DEF AddRow, TypeOK
    <2>2. ToSet(rest) = {Head(rest)} \cup ToSet(rest')
      BY <2>1, HeadAndTail
    <2> QED
      BY <1>2, <1>3, <2>1, <2>2 DEF Progress, Signed
  <1>5. CASE RefuseRules \/ StopUpdate
    BY <1>2, <1>5 DEF RefuseRules, StopUpdate, Idle, Progress
  <1>6. CASE ListRules
    BY <1>2, <1>3, <1>6, SetOfEmpty DEF ListRules, Progress, Signed, store
  <1>7. CASE ClearStaging
    <2>1. /\ upc' = "stage" /\ feed' = feed /\ rest' = RulesOf[feed] /\ existing' = existing
          /\ db' = db /\ upc = "clear"
      BY <1>7 DEF ClearStaging
    <2> QED
      BY <1>2, <1>3, <2>1 DEF Progress, Signed, Desired
  <1>8. CASE StageRule
    <2>1. /\ upc = "stage" /\ upc' = "stage" /\ feed' = feed /\ existing' = existing /\ db' = db
          /\ rest' = Tail(rest) /\ rest # <<>> /\ rest \in Seq(Rules)
          /\ staging' = [staging EXCEPT ![Head(rest)] = now']
          /\ staging \in [Rules -> Nat] /\ now' \in Nat /\ now' # 0
      BY <1>3, <1>8 DEF StageRule, TypeOK, Progress
    <2>2. ToSet(rest) = {Head(rest)} \cup ToSet(rest') /\ Head(rest) \in Rules
      BY <2>1, HeadAndTail
    <2>3. Desired' = Desired /\ Desired \subseteq Rules
      BY <1>3, <2>1, SetOf, ContentAssumption DEF Desired
    <2>4. \A r \in Desired \ ToSet(rest') : staging'[r] # 0
      BY <1>3, <2>1, <2>2, <2>3 DEF Progress
    <2> QED
      BY <1>2, <1>3, <2>1, <2>3, <2>4 DEF Progress, Signed
  <1>9. CASE StagedAll
    <2>1. /\ upc = "stage" /\ upc' = "remove" /\ rest = <<>> /\ rest' = SetToSeq(Stale)
          /\ UNCHANGED <<feed, existing, db, staging>>
      BY <1>9 DEF StagedAll, store
    <2>2. ToSet(rest') = Stale
      <3>1. Stale \in SUBSET Files
        BY <1>3, <2>1 DEF Stale, Progress
      <3>2. IsFiniteSet(Stale)
        BY <3>1, FS_Subset DEF ContentInv
      <3> QED
        BY <2>1, <3>2, SeqOfSet
    <2>3. existing = Files /\ \A r \in Desired : staging[r] # 0
      BY <1>3, <2>1, SetOfEmpty DEF Progress
    <2>4. Desired' = Desired /\ Stale' = Stale
      BY <2>1 DEF Desired, Stale
    <2>5. Files \subseteq Desired \cup Stale
      BY <2>3 DEF Stale
    <2> QED
      BY <1>2, <1>3, <2>1, <2>2, <2>3, <2>4, <2>5 DEF Progress, Signed
  <1>10. CASE RemovedAll
    <2>1. /\ upc = "remove" /\ upc' = "move" /\ rest = <<>> /\ rest' = RulesOf[feed]
          /\ UNCHANGED <<feed, existing, db, staging>>
      BY <1>10 DEF RemovedAll, store
    <2>2. Desired' = Desired /\ ToSet(rest') = Desired /\ IsInjective(rest')
      BY <1>3, <2>1, ContentAssumption DEF Desired
    <2> QED
      BY <1>1, <1>2, <1>3, <2>1, <2>2, SetOfEmpty DEF Progress, Signed
  <1>11. CASE MovedAll
    <2>1. /\ upc = "move" /\ upc' = "record" /\ rest = <<>> /\ rest' = rest
          /\ UNCHANGED <<feed, existing, db>>
      BY <1>11 DEF MovedAll
    <2>2. Desired' = Desired
      BY <2>1 DEF Desired
    <2> QED
      BY <1>1, <1>2, <1>3, <2>1, <2>2, SetOfEmpty DEF Progress, Signed
  <1> QED
    BY <1>4, <1>5, <1>6, <1>7, <1>8, <1>9, <1>10, <1>11

LEMMA RemoveKeeps ==
  ASSUME ContentInv, RemoveStale
  PROVE  IsFiniteSet(Files)' /\ Progress' /\ StateFile' /\ Monitored'
  <1>1. /\ upc = "remove" /\ rest \in Seq(Rules) /\ rest # <<>> /\ rest' = Tail(rest)
        /\ UNCHANGED <<db, staging, recorded, now, upc, feed, existing, monitor, begun, forced>>
        /\ \/ dir' = [dir EXCEPT ![Head(rest)] = 0] /\ faults' = faults
           \/ dir' = dir /\ faults' # 0
        /\ feed \in Feeds /\ feed \notin Broken /\ Progress
    BY DEF RemoveStale, ContentInv, TypeOK, Progress
  <1>2. ToSet(rest) = {Head(rest)} \cup ToSet(rest') /\ Head(rest) \in Rules
    BY <1>1, HeadAndTail
  <1>3. \/ Files' = Files \ {Head(rest)} /\ faults' = faults
        \/ Files' = Files /\ faults' # 0
    BY <1>1, <1>2, FilesNow DEF ContentInv
  <1>4. Desired' = Desired /\ Stale' = Stale /\ Head(rest) \notin Desired
    BY <1>1, <1>2 DEF Desired, Stale, Progress
  <1>5. Progress'
    BY <1>1, <1>2, <1>3, <1>4 DEF Progress, Signed
  <1>6. IsFiniteSet(Files')
    BY <1>3, FS_RemoveElement DEF ContentInv
  <1>7. StateFile'
    BY <1>1 DEF ContentInv, StateFile
  <1>8. \A r \in Files : Staple(r) => r \in Files'
    BY <1>1, <1>3, <1>4 DEF Staple, Desired
  <1> QED
    BY <1>1, <1>5, <1>6, <1>7, <1>8, StaplesKept

LEMMA MoveKeeps ==
  ASSUME ContentInv, MoveRule
  PROVE  IsFiniteSet(Files)' /\ Progress' /\ StateFile' /\ Monitored'
  <1>1. /\ upc = "move" /\ rest \in Seq(Rules) /\ rest # <<>> /\ rest' = Tail(rest)
        /\ UNCHANGED <<db, recorded, now, upc, feed, existing, monitor, ghosts>>
        /\ dir' = [dir EXCEPT ![Head(rest)] = staging[Head(rest)]]
        /\ staging' = [staging EXCEPT ![Head(rest)] = 0]
        /\ staging \in [Rules -> Nat] /\ feed \in Feeds /\ feed \notin Broken /\ Progress
    BY DEF MoveRule, ContentInv, TypeOK, Progress
  <1>2. /\ ToSet(rest) = {Head(rest)} \cup ToSet(rest') /\ Head(rest) \in Rules
        /\ rest' \in Seq(Rules)
        /\ IsInjective(rest') /\ Head(rest) \notin ToSet(rest')
    BY <1>1, HeadAndTail DEF Progress
  <1>3. staging[Head(rest)] \in Nat \ {0} /\ Head(rest) \in Desired
    BY <1>1, <1>2 DEF Progress
  <1>4. Files' = Files \cup {Head(rest)}
    BY <1>1, <1>2, <1>3, FilesNow DEF ContentInv
  <1>5. Desired' = Desired
    BY <1>1 DEF Desired
  <1>6. \A r \in ToSet(rest') : staging'[r] # 0
    <2>1. ToSet(rest') \subseteq Rules
      BY <1>2, SetOf
    <2> QED
      BY <1>1, <1>2, <2>1 DEF Progress
  <1>7. Progress'
    BY <1>1, <1>2, <1>3, <1>4, <1>5, <1>6 DEF Progress, Signed, ghosts
  <1>8. IsFiniteSet(Files')
    BY <1>4, FS_AddElement DEF ContentInv
  <1>9. StateFile'
    BY <1>1 DEF ContentInv, StateFile, ghosts
  <1> QED
    BY <1>1, <1>4, <1>7, <1>8, <1>9, StaplesKept

LEMMA RecordKeeps ==
  ASSUME ContentInv, RecordApplied
  PROVE  IsFiniteSet(Files)' /\ Progress' /\ StateFile' /\ Monitored'
  <1>1. /\ upc = "record" /\ upc' = "idle" /\ feed \in Feeds /\ begun = feed
        /\ Desired \subseteq Files /\ (faults = 0 => Files = Desired) /\ Signed \subseteq db
        /\ UNCHANGED <<db, dir, monitor, ghosts>>
        /\ recorded' = IF recorded = 0 \/ feed > recorded THEN feed ELSE recorded
        /\ recorded \in Nat /\ feed \in Nat
    <2>1. recorded \in Nat /\ feed \in Feeds /\ feed \in Nat
      BY ContentAssumption DEF RecordApplied, ContentInv, Progress, TypeOK
    <2> QED
      BY <2>1 DEF RecordApplied, Idle, ContentInv, Progress, TypeOK
  <1>2. Files' = Files
    BY <1>1, FilesNow DEF ContentInv
  <1>3. StateFile'
    <2>1. ~forced => recorded' = begun
      BY <1>1 DEF ContentInv, StateFile
    <2> QED
      BY <1>1, <1>2, <2>1 DEF StateFile, Signed, Desired, ghosts
  <1> QED
    BY <1>1, <1>2, <1>3, StaplesKept DEF ContentInv, Progress

LEMMA ReloadKeeps ==
  ASSUME ContentInv, Reload
  PROVE  IsFiniteSet(Files)' /\ Progress' /\ StateFile' /\ Monitored'
  <1>0. /\ UNCHANGED <<store, updater, begun, forced, updates, stops, faults>>
        /\ TypeOK /\ Monitored
    BY DEF Reload, ListToCheck, CheckTimes, ListToCollect, TakeTime, TakeText, Compile, ContentInv,
           ghosts
  <1>1. Files' = Files
    BY <1>0, FilesNow DEF store
  <1>2. IsFiniteSet(Files)' /\ Progress' /\ StateFile'
    <2>1. Desired' = Desired /\ Stale' = Stale
      BY <1>0 DEF Desired, Stale, updater
    <2> QED
      BY <1>0, <1>1, <2>1
         DEF ContentInv, Progress, Signed, StateFile, store, updater
  <1>3. CASE ListToCheck \/ CheckTimes
    BY <1>0, <1>1, <1>2, <1>3 DEF ListToCheck, CheckTimes, Monitored, Staple
  <1>4. CASE ListToCollect
    BY <1>0, <1>1, <1>2, <1>4 DEF ListToCollect, Monitored, Staple
  <1>5. CASE TakeTime
    <2>1. Min(listing) \in listing
      BY <1>0, <1>5, MinIsIn, ContentAssumption DEF TakeTime, TypeOK
    <2> QED
      BY <1>0, <1>1, <1>2, <1>5, <2>1 DEF TakeTime, Monitored, Staple
  <1>6. CASE TakeText
    BY <1>0, <1>1, <1>2, <1>6 DEF TakeText, Monitored, Staple
  <1>7. CASE Compile
    BY <1>0, <1>1, <1>2, <1>7 DEF Compile, Kept, Monitored, Staple
  <1> QED
    BY <1>2, <1>3, <1>4, <1>5, <1>6, <1>7 DEF Reload

LEMMA ContentNext == ContentInv /\ [Next]_vars => ContentInv'
  <1> SUFFICES ASSUME ContentInv, [Next]_vars PROVE ContentInv'
    OBVIOUS
  <1>1. CASE UNCHANGED vars
    <2>1. Files' = Files /\ Desired' = Desired /\ Stale' = Stale
      BY <1>1 DEF vars, store, updater, Files, Desired, Stale
    <2>2. TypeOK'
      BY <1>1 DEF vars, store, updater, monitor, ghosts, ContentInv, TypeOK
    <2> QED
      BY <1>1, <2>1, <2>2 DEF vars, store, updater, monitor, ghosts, ContentInv, Progress, Signed,
             StateFile, Monitored
  <1>2. CASE UpdateStep \/ StopUpdate
    BY <1>2, UpdateTypes, RowsKeep, RemoveKeeps, MoveKeeps, RecordKeeps DEF UpdateStep, ContentInv
  <1>3. ASSUME NEW f \in Feeds, NEW force \in BOOLEAN, Begin(f, force) PROVE ContentInv'
    BY <1>3, UpdateTypes, BeginKeeps DEF ContentInv
  <1>4. CASE Reload
    BY <1>4, ReloadTypes, ReloadKeeps DEF ContentInv
  <1> QED
    BY <1>1, <1>2, <1>3, <1>4 DEF Next

-----------------------------------------------------------------------------
(* Results.                                                                 *)

(* Every variable of the rule store, a running update and the reload loop   *)
(* keeps its type; the directory listing of install_rules stays finite.     *)
THEOREM TypesHold == Spec => []TypeOK
  <1>1. ContentInv => TypeOK
    BY DEF ContentInv
  <1> QED
    BY ContentInit, ContentNext, <1>1, PTL DEF Spec

(* record_applied is reached only with all of the feed in force: its        *)
(* signatures, its rules, and no other rule but one that stayed behind.     *)
THEOREM RecordedIsInForceHolds == Spec => RecordedIsInForce
  <1> DEFINE A == recorded' # recorded =>
                    /\ ToSet(SigsOf[recorded']) \subseteq db
                    /\ ToSet(RulesOf[recorded']) \subseteq Files
                    /\ faults = 0 => Files = ToSet(RulesOf[recorded'])
  <1>1. ASSUME ContentInv, [Next]_vars PROVE A
    <2>1. CASE RecordApplied
      <3>1. recorded' # recorded => recorded' = feed
        BY <2>1 DEF RecordApplied
      <3>2. Signed \subseteq db /\ Desired \subseteq Files /\ (faults = 0 => Files = Desired)
        BY <1>1, <2>1 DEF RecordApplied, ContentInv, Progress
      <3> QED
        BY <3>1, <3>2 DEF Signed, Desired
    <2>2. CASE ~RecordApplied
      <3>1. recorded' = recorded
        BY <1>1, <2>2 DEF Next, UpdateStep, AddRow, RefuseRules, ListRules, ClearStaging,
             StageRule, StagedAll, RemoveStale, RemovedAll, MoveRule, MovedAll, StopUpdate, Begin,
             Reload, ListToCheck, CheckTimes, ListToCollect, TakeTime, TakeText, Compile,
             vars, store
      <3> QED
        BY <3>1
    <2> QED
      BY <2>1, <2>2
  <1>2. ContentInv /\ [Next]_vars => [A]_vars
    BY <1>1
  <1> QED
    BY ContentInit, ContentNext, <1>2, PTL DEF Spec, RecordedIsInForce

(* install_rules removes and moves file by file and maybe_reload reads file *)
(* by file: a rule that was there and is wanted is never absent, and one    *)
(* that every feed ships is lost by a running monitor only when a file it   *)
(* read does not compile on its own.                                        *)
THEOREM WantedRulesStayHolds == Spec => WantedRulesStay
  <1> DEFINE A == /\ upc' \in {"clear", "stage", "remove", "move"} =>
                       (existing \cap Desired)' \subseteq Files'
                  /\ \A r \in loaded :
                       Staple(r) => r \in loaded' \/ ~(got \subseteq alone)
  <1>1. ASSUME ContentInv, ContentInv', [Next]_vars PROVE A
    <2>1. upc' \in {"clear", "stage", "remove", "move"}
            => (existing \cap Desired)' \subseteq Files'
      BY <1>1 DEF ContentInv, Progress
    <2>2. ASSUME NEW r \in loaded, Staple(r), got \subseteq alone PROVE r \in loaded'
      <3>1. CASE Compile
        BY <1>1, <2>2, <3>1 DEF Compile, Kept, ContentInv, Monitored
      <3>2. CASE ~Compile
        <4>1. loaded' = loaded
          BY <1>1, <3>2 DEF Next, UpdateStep, AddRow, RefuseRules, ListRules, ClearStaging,
             StageRule, StagedAll, RemoveStale, RemovedAll, MoveRule, MovedAll, RecordApplied,
             StopUpdate, Begin, Reload, ListToCheck, CheckTimes, ListToCollect, TakeTime,
             TakeText,
             vars, monitor
        <4> QED
          BY <4>1
      <3> QED
        BY <3>1, <3>2
    <2> QED
      BY <2>1, <2>2
  <1>2. ContentInv /\ ContentInv' /\ [Next]_vars => [A]_vars
    BY <1>1
  <1> QED
    BY ContentInit, ContentNext, <1>2, PTL DEF Spec, WantedRulesStay

(* check_replay lets a feed through again, without --force, when its update *)
(* was stopped before record_applied and left something undone.             *)
THEOREM StoppedUpdateCanBeRetriedHolds == Spec => []StoppedUpdateCanBeRetried
  <1>1. ContentInv => StoppedUpdateCanBeRetried
    <2> SUFFICES ASSUME ContentInv, upc = "idle", ~forced, faults = 0, begun # 0,
                        \/ Files # ToSet(RulesOf[begun])
                        \/ ~(ToSet(SigsOf[begun]) \subseteq db)
                 PROVE  recorded = 0 \/ begun > recorded
      BY DEF StoppedUpdateCanBeRetried, Newer
    <2>1. recorded \in Nat /\ begun \in Nat
      BY ContentAssumption DEF ContentInv, TypeOK
    <2>2. recorded # begun /\ (recorded = 0 \/ recorded <= begun)
      BY DEF ContentInv, StateFile
    <2> QED
      BY <2>1, <2>2
  <1> QED
    BY ContentInit, ContentNext, <1>1, PTL DEF Spec
=============================================================================
