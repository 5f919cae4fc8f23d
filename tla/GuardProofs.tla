----------------------------- MODULE GuardProofs -----------------------------
(***************************************************************************)
(* Theorems about the components of MCHostGuards for every value of their  *)
(* constants: any number of controllers, executables and rules, and of     *)
(* overlapping updates, releases and expiries.                             *)
(***************************************************************************)
EXTENDS MCHostGuards, FiniteSetTheorems, SequenceTheorems, WellFoundedInduction, TLAPS

(* Sets and sequences.                                                     *)

\* A non-empty set of naturals has a least element.
LEMMA Least ==
  ASSUME NEW T \in SUBSET Nat, T # {}
  PROVE  \E x \in T : \A y \in T : x <= y
  <1>1. PICK x \in T : \A y \in T : ~(<<y, x>> \in OpToRel(<, Nat))
    BY NatLessThanWellFounded, WFMin, Zenon
  <1>2. \A y \in T : ~(y < x)
    BY <1>1 DEF OpToRel
  <1> QED
    BY <1>2

\* A set that has 0 and every successor has every natural.
LEMMA Inductive ==
  ASSUME NEW T, 0 \in T, \A n \in Nat : n \in T => n + 1 \in T
  PROVE  Nat \subseteq T
  <1> SUFFICES ASSUME Nat \ T # {} PROVE FALSE
    OBVIOUS
  <1>1. PICK x \in Nat \ T : \A y \in Nat \ T : x <= y
    BY Least
  <1>2. x - 1 \in Nat /\ x - 1 \in T
    BY <1>1
  <1> QED
    BY <1>1, <1>2

\* A set that has the empty sequence and every extension of one of its
\* sequences has every sequence.
LEMMA SeqInductive ==
  ASSUME NEW S, NEW T, <<>> \in T, \A s \in Seq(S), e \in S : s \in T => Append(s, e) \in T
  PROVE  Seq(S) \subseteq T
  <1> DEFINE K == {n \in Nat : \A s \in Seq(S) : Len(s) = n => s \in T}
  <1>1. 0 \in K
    <2> SUFFICES ASSUME NEW s \in Seq(S), Len(s) = 0 PROVE s \in T
      OBVIOUS
    <2>1. s = <<>>
      OBVIOUS
    <2> QED
      BY <2>1
  <1>2. ASSUME NEW n \in Nat, n \in K PROVE n + 1 \in K
    <2> SUFFICES ASSUME NEW s \in Seq(S), Len(s) = n + 1 PROVE s \in T
      OBVIOUS
    <2>1. s # <<>>
      OBVIOUS
    <2>2. PICK r \in Seq(S), e \in S : s = Append(r, e)
      BY <2>1, SequenceEmptyOrAppend
    <2>3. Len(r) = n
      BY <2>2
    <2> QED
      BY <1>2, <2>2, <2>3
  <1> HIDE DEF K
  <1>3. Nat \subseteq K
    BY <1>1, <1>2, Inductive
  <1> QED
    BY <1>3 DEF K

\* A non-empty set of numbers up to n has a greatest element.
LEMMA Greatest ==
  ASSUME NEW n \in Nat, NEW T \in SUBSET (1..n), T # {}
  PROVE  \E x \in T : \A y \in T : y <= x
  <1> DEFINE D == {n - y : y \in T}
  <1>1. \A y \in T : n - y \in Nat
    OBVIOUS
  <1>2. PICK d \in D : \A e \in D : d <= e
    <2>1. D \in SUBSET Nat /\ D # {}
      BY <1>1
    <2> HIDE DEF D
    <2> QED
      BY <2>1, Least
  <1>3. PICK x \in T : d = n - x
    BY <1>2
  <1>4. \A y \in T : d <= n - y
    BY <1>2
  <1> QED
    BY <1>3, <1>4

\* SetToSeq enumerates a finite set.
LEMMA Enumerates ==
  ASSUME NEW S, IsFiniteSet(S)
  PROVE  /\ SetToSeq(S) \in Seq(S) /\ Len(SetToSeq(S)) = Cardinality(S)
         /\ \A x \in S : \E i \in 1..Len(SetToSeq(S)) : SetToSeq(S)[i] = x
  <1> DEFINE n == Cardinality(S)
             f == SetToSeq(S)
  <1>1. n \in Nat /\ ExistsBijection(1..n, S)
    BY FS_CardinalityType
  <1>2. \E g \in [1..n -> S] : IsInjective(g)
    BY <1>1 DEF ExistsBijection, Bijection, Injection
  <1>3. f \in [1..n -> S] /\ IsInjective(f)
    BY <1>2 DEF SetToSeq
  <1>4. f \in Injection(1..n, S)
    BY <1>3 DEF Injection
  <1>5. IsFiniteSet(1..n) /\ Cardinality(1..n) = n
    BY <1>1, FS_Interval
  <1> HIDE DEF f, n
  <1>6. f \in Surjection(1..n, S)
    <2>1. n = Cardinality(S)
      BY DEF n
    <2> QED
      BY <1>4, <1>5, <2>1, FS_Injection
  <1>7. f \in Seq(S) /\ Len(f) = n
    BY <1>1, <1>3
  <1>8. \A x \in S : \E i \in 1..n : f[i] = x
    BY <1>6 DEF Surjection
  <1> QED
    BY <1>7, <1>8 DEF f, n

-----------------------------------------------------------------------------
\* A step is one of the chosen component or leaves its variables alone.
LEMMA StepOfComponent ==
  [GuardsNext]_guardVars => /\ AppNext \/ UNCHANGED appVars
                            /\ UpdateNext \/ UNCHANGED updateVars
                            /\ RansomNext \/ UNCHANGED ransomVars
                            /\ EnfNext \/ UNCHANGED enfVars
                            /\ ArchiveNext \/ UNCHANGED archiveVars
  BY DEF GuardsNext, Only, guardVars, Guards

-----------------------------------------------------------------------------
(* Updates.                                                                *)

UpdateSteps == {"idle", "fetch", "expiry", "newer", "download", "apply", "install", "orphan"}
UpdateRecord == [pc : UpdateSteps, running : Int, force : BOOLEAN, allow : BOOLEAN,
                 target : Int, genuine : BOOLEAN, stale : BOOLEAN]

(* What an update carries along is checked already: it is genuine as far   *)
(* as it was downloaded, stale only if that was allowed, and at the        *)
(* installer newer than the program that runs it, or forced.               *)
Vouched(u) ==
  /\ u.genuine
  /\ u.stale => u.allow
  /\ u.pc \in {"install", "orphan"} => u.force \/ u.target > u.running

UpdateInv ==
  /\ uProc \in [UpdateProcs -> UpdateRecord]
  /\ uInstalled.version \in Int /\ uPublished \in Int
  /\ \A p \in UpdateProcs : Vouched(uProc[p])

LEMMA NoUpdateIsVouched == NoUpdate \in UpdateRecord /\ Vouched(NoUpdate)
  BY DEF NoUpdate, UpdateRecord, UpdateSteps, Vouched

LEMMA UpdateInitInv == UpdateInit => UpdateInv
  BY NoUpdateIsVouched DEF UpdateInit, UpdateInv

\* One process changes its update, to one that is vouched for.
Becomes(p, u) == uProc' = [uProc EXCEPT ![p] = u]

LEMMA OneUpdate ==
  ASSUME UpdateInv, NEW p \in UpdateProcs, NEW u \in UpdateRecord, Vouched(u),
         Becomes(p, u), uPublished' \in Int, uInstalled'.version \in Int
  PROVE  UpdateInv'
  <1>1. uProc' \in [UpdateProcs -> UpdateRecord]
    BY DEF UpdateInv, Becomes
  <1>2. \A r \in UpdateProcs : uProc'[r] = IF r = p THEN u ELSE uProc[r]
    BY DEF UpdateInv, Becomes
  <1>3. \A r \in UpdateProcs : Vouched(uProc'[r])
    BY <1>2 DEF UpdateInv
  <1> QED
    BY <1>1, <1>3 DEF UpdateInv, Vouched

\* Every step of the updates keeps what they carry vouched for.
LEMMA UpdateStep == UpdateInv /\ (UpdateNext \/ UNCHANGED updateVars) => UpdateInv'
  <1> SUFFICES ASSUME UpdateInv, UpdateNext \/ UNCHANGED updateVars PROVE UpdateInv'
    OBVIOUS
  <1>1. CASE Release \/ (\E v \in Versions : Expire(v)) \/ UNCHANGED updateVars
    BY <1>1 DEF Release, Expire, updateVars, UpdateInv, Vouched
  <1>2. ASSUME NEW p \in UpdateProcs, NEW u, u \in UpdateRecord, Vouched(u),
               Becomes(p, u), uPublished' = uPublished, uInstalled' = uInstalled
        PROVE  UpdateInv'
    BY <1>2, OneUpdate DEF UpdateInv
  <1>3. ASSUME NEW p \in UpdateProcs, Fails(p), uPublished' = uPublished,
               uInstalled' = uInstalled
        PROVE  UpdateInv'
    <2>1. Becomes(p, NoUpdate)
      BY <1>3 DEF Fails, Becomes
    <2> QED
      BY <1>2, <1>3, <2>1, NoUpdateIsVouched
  <1>4. ASSUME NEW p \in UpdateProcs, NEW pc \in {"newer", "download", "apply"}, Goes(p, pc),
               uPublished' = uPublished, uInstalled' = uInstalled
        PROVE  UpdateInv'
    <2> DEFINE u == [uProc[p] EXCEPT !.pc = pc]
    <2>1. u \in UpdateRecord /\ Vouched(u)
      BY DEF UpdateInv, UpdateRecord, UpdateSteps, Vouched
    <2>2. Becomes(p, u)
      BY <1>4 DEF Goes, Becomes, UpdateInv, UpdateRecord
    <2> HIDE DEF u
    <2> QED
      BY <1>2, <1>4, <2>1, <2>2
  <1>5. ASSUME NEW p \in UpdateProcs, NEW force \in BOOLEAN, NEW allow \in BOOLEAN,
               BeginUpdate(p, force, allow)
        PROVE  UpdateInv'
    <2> DEFINE u == [NoUpdate EXCEPT !.pc = "fetch", !.force = force, !.allow = allow,
                                     !.running = uInstalled.version]
    <2>1. u \in UpdateRecord /\ Vouched(u)
      <3>1. uInstalled.version \in Int
        BY DEF UpdateInv
      <3>2. u \in UpdateRecord
        BY <3>1, NoUpdateIsVouched DEF UpdateRecord, UpdateSteps
      <3>3. Vouched(u)
        BY NoUpdateIsVouched DEF Vouched, UpdateRecord, NoUpdate
      <3> QED
        BY <3>2, <3>3
    <2>2. Becomes(p, u) /\ uPublished' = uPublished /\ uInstalled' = uInstalled
      BY <1>5 DEF BeginUpdate, Becomes, UpdateInv
    <2> HIDE DEF u
    <2> QED
      BY <1>2, <2>1, <2>2
  <1>6. ASSUME NEW p \in UpdateProcs, NEW v \in Versions, NEW signed \in BOOLEAN,
               Fetch(p, v, signed)
        PROVE  UpdateInv'
    <2> DEFINE u == [uProc[p] EXCEPT !.pc = "expiry", !.target = v]
    <2>1. v \in Int
      BY <1>6 DEF Fetch, UpdateInv
    <2>2. u \in UpdateRecord /\ Vouched(u)
      BY <2>1 DEF UpdateInv, UpdateRecord, UpdateSteps, Vouched
    <2>3. uPublished' = uPublished /\ uInstalled' = uInstalled
      BY <1>6 DEF Fetch
    <2>4. Becomes(p, u) \/ Fails(p)
      BY <1>6 DEF Fetch, Becomes, UpdateInv, UpdateRecord
    <2> HIDE DEF u
    <2> QED
      BY <1>2, <1>3, <2>2, <2>3, <2>4
  <1>7. ASSUME NEW p \in UpdateProcs, CheckExpiry(p) PROVE UpdateInv'
    <2> DEFINE stale == uProc[p].target \in uExpired
               u == [uProc[p] EXCEPT !.pc = "newer", !.stale = stale]
    <2>1. uPublished' = uPublished /\ uInstalled' = uInstalled
      BY <1>7 DEF CheckExpiry
    <2>2. CASE stale /\ ~uProc[p].allow
      BY <1>3, <1>7, <2>1, <2>2 DEF CheckExpiry
    <2>3. CASE ~(stale /\ ~uProc[p].allow)
      <3>1. stale \in BOOLEAN /\ (stale => uProc[p].allow)
        BY <2>3
      <3> HIDE DEF stale
      <3>2. u \in UpdateRecord /\ Vouched(u)
        BY <3>1 DEF UpdateInv, UpdateRecord, UpdateSteps, Vouched
      <3>3. Becomes(p, u)
        BY <1>7, <2>3 DEF CheckExpiry, Becomes, stale
      <3> HIDE DEF u
      <3> QED
        BY <1>2, <2>1, <3>2, <3>3
    <2> QED
      BY <2>2, <2>3
  <1>8. ASSUME NEW p \in UpdateProcs, Newer(p) PROVE UpdateInv'
    BY <1>3, <1>4, <1>8 DEF Newer
  <1>9. ASSUME NEW p \in UpdateProcs, NEW got, Download(p, got) PROVE UpdateInv'
    <2> DEFINE u == [uProc[p] EXCEPT !.pc = "apply", !.genuine = (got = "genuine")]
    <2>1. uPublished' = uPublished /\ uInstalled' = uInstalled
      BY <1>9 DEF Download
    <2>2. CASE Matches(got)
      <3>1. u \in UpdateRecord /\ Vouched(u)
        BY <2>2 DEF UpdateInv, UpdateRecord, UpdateSteps, Vouched, Matches
      <3>2. Becomes(p, u)
        BY <1>9, <2>2 DEF Download, Becomes
      <3> HIDE DEF u
      <3> QED
        BY <1>2, <2>1, <3>1, <3>2
    <2>3. CASE ~Matches(got)
      BY <1>3, <1>9, <2>1, <2>3 DEF Download
    <2> QED
      BY <2>2, <2>3
  <1>10. ASSUME NEW p \in UpdateProcs, NEW installer \in BOOLEAN, Apply(p, installer)
         PROVE  UpdateInv'
    <2> DEFINE may == installer /\ MayReplace(uProc[p].target, uProc[p].running, uProc[p].force)
               u == [uProc[p] EXCEPT !.pc = "install"]
    <2>1. uPublished' = uPublished /\ uInstalled' = uInstalled
      BY <1>10 DEF Apply
    <2>2. CASE may
      <3>1. u \in UpdateRecord /\ Vouched(u)
        BY <2>2 DEF UpdateInv, UpdateRecord, UpdateSteps, Vouched, MayReplace
      <3>2. Becomes(p, u)
        BY <1>10, <2>2 DEF Apply, Goes, Becomes
      <3> HIDE DEF u
      <3> QED
        BY <1>2, <2>1, <3>1, <3>2
    <2>3. CASE ~may
      BY <1>3, <1>10, <2>1, <2>3 DEF Apply
    <2> QED
      BY <2>2, <2>3
  <1>11. ASSUME NEW p \in UpdateProcs, NEW outcome, Install(p, outcome) \/ KillUpdate(p)
         PROVE  UpdateInv'
    <2>1. uInstalled'.version \in {uInstalled.version, uProc[p].target}
      BY <1>11 DEF Install, KillUpdate
    <2>2. uInstalled'.version \in Int /\ uPublished' \in Int
      BY <1>11, <2>1 DEF UpdateInv, UpdateRecord, Install, KillUpdate
    <2>3. CASE Fails(p)
      BY <2>2, <2>3, OneUpdate, NoUpdateIsVouched DEF Fails, Becomes
    <2>4. CASE uProc[p].pc = "install" /\ Goes(p, "orphan")
      <3> DEFINE u == [uProc[p] EXCEPT !.pc = "orphan"]
      <3>1. u \in UpdateRecord /\ Vouched(u)
        BY <2>4 DEF UpdateInv, UpdateRecord, UpdateSteps, Vouched
      <3>2. Becomes(p, u)
        BY <2>4 DEF Goes, Becomes
      <3> HIDE DEF u
      <3> QED
        BY <2>2, <3>1, <3>2, OneUpdate
    <2> QED
      BY <1>11, <2>3, <2>4 DEF Install, KillUpdate
  <1> QED
    BY <1>1, <1>5, <1>6, <1>7, <1>8, <1>9, <1>10, <1>11 DEF UpdateNext

\* An installed package was vouched for by the update that installs it.
LEMMA InstallIsVouched ==
  ASSUME UpdateInv, UpdateNext \/ UNCHANGED updateVars, uInstalled' # uInstalled
  PROVE  /\ uInstalled'.genuine
         /\ uInstalled'.stale => uInstalled'.excused
         /\ uInstalled'.version < uInstalled.version =>
              \E p \in UpdateProcs : /\ InstallerRuns(p)
                                     /\ uProc[p].force \/ uProc[p].running # uInstalled.version
  <1>1. PICK p \in UpdateProcs : \E outcome \in {"ok", "error", "killed"} : Install(p, outcome)
    BY DEF UpdateNext, Release, Expire, BeginUpdate, Fetch, CheckExpiry, Newer, Download, Apply,
           KillUpdate, updateVars
  <1>2. /\ InstallerRuns(p)
        /\ uInstalled' = [version |-> uProc[p].target, genuine |-> uProc[p].genuine,
                          stale |-> uProc[p].stale, excused |-> uProc[p].allow]
    BY <1>1 DEF Install
  <1>3. /\ Vouched(uProc[p])
        /\ uProc[p].running \in Int /\ uProc[p].target \in Int /\ uInstalled.version \in Int
    BY DEF UpdateInv, UpdateRecord
  <1> QED
    BY <1>2, <1>3 DEF Vouched, InstallerRuns

(* Whatever expires, appears or is killed meanwhile, an update installs    *)
(* only what a signed manifest names, an expired one only when allowed,    *)
(* and an older version only when forced or overtaken.                     *)
THEOREM UpdatesAreVouchedFor == Spec => InstalledIsVouchedFor
  <1>1. GuardsInit => UpdateInv
    BY UpdateInitInv DEF GuardsInit
  <1>2. UpdateInv /\ [GuardsNext]_guardVars => UpdateInv'
    BY StepOfComponent, UpdateStep
  <1>3. UpdateInv /\ [GuardsNext]_guardVars
          => [uInstalled' # uInstalled =>
                /\ uInstalled'.genuine
                /\ uInstalled'.stale => uInstalled'.excused
                /\ uInstalled'.version < uInstalled.version =>
                     \E p \in UpdateProcs :
                       /\ InstallerRuns(p)
                       /\ uProc[p].force \/ uProc[p].running # uInstalled.version]_updateVars
    BY StepOfComponent, InstallIsVouched
  <1> QED
    BY <1>1, <1>2, <1>3, PTL DEF Spec, InstalledIsVouchedFor
-----------------------------------------------------------------------------
(* Application control.                                                    *)

IsPolicy(pol) == pol = [rules |-> pol.rules, default |-> pol.default]
Answer(rules, default, path, content) ==
  AppVerdict([rules |-> rules, default |-> default], path, content)

LEMMA PolicyAnswers ==
  ASSUME NEW pol, IsPolicy(pol), NEW d, NEW path, NEW content
  PROVE  /\ AppVerdict([pol EXCEPT !.default = d], path, content)
              = Answer(pol.rules, d, path, content)
         /\ AppVerdict(pol, path, content) = Answer(pol.rules, pol.default, path, content)
  <1>1. [pol EXCEPT !.default = d] = [rules |-> pol.rules, default |-> d]
    BY DEF IsPolicy
  <1>2. pol = [rules |-> pol.rules, default |-> pol.default]
    BY DEF IsPolicy
  <1> QED
    BY <1>1, <1>2 DEF Answer

LEMMA ChangedPolicy ==
  ASSUME NEW pol, IsPolicy(pol), NEW x
  PROVE  /\ IsPolicy([pol EXCEPT !.rules = x])
         /\ IsPolicy([pol EXCEPT !.default = x])
         /\ [pol EXCEPT !.default = x].rules = pol.rules
         /\ [pol EXCEPT !.default = x].default = x
  <1>1. /\ [pol EXCEPT !.rules = x] = [rules |-> x, default |-> pol.default]
        /\ [pol EXCEPT !.default = x] = [rules |-> pol.rules, default |-> x]
    BY DEF IsPolicy
  <1> QED
    BY <1>1 DEF IsPolicy

(* A controller not in the middle of a rule change: the current files and  *)
(* default are among those seen since the cache was cleared, and those     *)
(* account for every verdict in it.  While a rule is saved they need not.  *)
Settled == {"idle", "save-default", "rename-default"}
Backed(verdict, pol, path, since) ==
  \E s \in since : verdict = Answer(pol.rules, s.default, path, s.file[path])
Sound(mem, cache, pc, since, file) ==
  /\ \A pol \in mem : IsPolicy(pol)
  /\ \A a, b \in mem : a = b
  /\ pc \in Settled => \A pol \in mem :
       /\ Now(file, pol) \in since
       /\ \A p \in DOMAIN cache : Backed(cache[p], pol, p, since)

Perprocess == /\ DOMAIN aMem = AppProcs /\ DOMAIN aCache = AppProcs
              /\ DOMAIN aPc = AppProcs /\ DOMAIN aSince = AppProcs
SoundAt(q) == Sound(aMem[q], aCache[q], aPc[q], aSince[q], aFile)
AppInv ==
  /\ Perprocess
  /\ IsPolicy(aStore) /\ \A pol \in aTmp : IsPolicy(pol)
  /\ \A q \in AppProcs : SoundAt(q)

LEMMA AppInitInv == AppInit => AppInv
  BY DEF AppInit, AppInv, Perprocess, SoundAt, Sound, NoPolicy, IsPolicy

\* The other controllers keep what they hold.
KeepsOthers(q) ==
  \A r \in AppProcs \ {q} : /\ aMem'[r] = aMem[r] /\ aCache'[r] = aCache[r]
                            /\ aPc'[r] = aPc[r] /\ aSince'[r] = aSince[r]

LEMMA OneController ==
  ASSUME AppInv, NEW q \in AppProcs, Perprocess', KeepsOthers(q), aFile' = aFile,
         IsPolicy(aStore'), \A pol \in aTmp' : IsPolicy(pol), SoundAt(q)'
  PROVE  AppInv'
  <1>1. ASSUME NEW r \in AppProcs PROVE SoundAt(r)'
    <2>1. CASE r = q
      BY <2>1
    <2>2. CASE r # q
      BY <2>2 DEF KeepsOthers, AppInv, SoundAt
    <2> QED
      BY <2>1, <2>2
  <1> QED
    BY <1>1 DEF AppInv

\* What is written and renamed is a policy.
LEMMA AppPolicyFiles ==
  ASSUME AppInv, NEW q \in AppProcs, AppStep(q)
  PROVE  IsPolicy(aStore') /\ \A pol \in aTmp' : IsPolicy(pol)
  <1>1. (aTmp' = aTmp \/ aTmp' = aMem[q] \/ aTmp' = {}) /\ (aStore' = aStore \/ aStore' \in aTmp)
    BY DEF AppStep, OpenController, EndController, AddRule, RemoveRule, SetDefaultAction,
           WritePolicy, RenamePolicy, ClearCache, CheckApp, SaveNext
  <1> QED
    BY <1>1 DEF AppInv, SoundAt, Sound

\* A step of one controller touches no other and no executable.
LEMMA AppStepIsLocal ==
  ASSUME AppInv, NEW q \in AppProcs, AppStep(q)
  PROVE  Perprocess' /\ KeepsOthers(q) /\ aFile' = aFile
  BY DEF AppInv, Perprocess, KeepsOthers, AppStep, OpenController, EndController, AddRule,
         RemoveRule, SetDefaultAction, WritePolicy, RenamePolicy, ClearCache, CheckApp,
         SaveNext, Seen

\* Every step of a controller leaves it sound.
LEMMA AppStepIsSound ==
  ASSUME AppInv, NEW q \in AppProcs, AppStep(q)
  PROVE  SoundAt(q)'
  <1> USE DEF AppInv, Perprocess
  <1>1. CASE OpenController(q) \/ EndController(q)
    <2>1. CASE OpenController(q)
      <3>1. /\ aMem'[q] = {aStore} /\ aCache'[q] = NoVerdicts
            /\ aSince'[q] = {Now(aFile, aStore)} /\ aFile' = aFile
        BY <2>1 DEF OpenController
      <3> QED
        BY <3>1 DEF SoundAt, Sound, NoVerdicts
    <2>2. CASE EndController(q)
      <3>1. aMem'[q] = {}
        BY <2>2 DEF EndController
      <3> QED
        BY <3>1 DEF SoundAt, Sound
    <2> QED
      BY <1>1, <2>1, <2>2
  <1>2. CASE AddRule(q) \/ RemoveRule(q)
    <2>1. PICK pol \in aMem[q] : \E x : SaveNext(q, [pol EXCEPT !.rules = x], "save-rules")
      BY <1>2 DEF AddRule, RemoveRule
    <2>2. PICK x : SaveNext(q, [pol EXCEPT !.rules = x], "save-rules")
      BY <2>1
    <2>3. IsPolicy([pol EXCEPT !.rules = x])
      BY ChangedPolicy DEF SoundAt, Sound
    <2>4. aMem'[q] = {[pol EXCEPT !.rules = x]} /\ aPc'[q] = "save-rules"
      BY <2>2 DEF SaveNext
    <2> QED
      BY <2>3, <2>4 DEF SoundAt, Sound, Settled
  <1>3. CASE SetDefaultAction(q)
    <2>1. PICK pol \in aMem[q], d \in AppActions :
            /\ MayChange(q)
            /\ SaveNext(q, [pol EXCEPT !.default = d], "save-default")
            /\ Seen(q, aFile, [pol EXCEPT !.default = d])
      BY <1>3 DEF SetDefaultAction
    <2> DEFINE new == [pol EXCEPT !.default = d]
    <2>2. IsPolicy(new) /\ new.rules = pol.rules
      BY ChangedPolicy DEF SoundAt, Sound
    <2> HIDE DEF new
    <2>3. /\ aMem'[q] = {new} /\ aCache'[q] = aCache[q] /\ aFile' = aFile
          /\ aSince'[q] = aSince[q] \cup {Now(aFile, new)}
      BY <2>1 DEF SaveNext, Seen, new
    <2>4. \A p \in DOMAIN aCache[q] : Backed(aCache[q][p], pol, p, aSince[q])
      BY <2>1 DEF MayChange, SoundAt, Sound, Settled
    <2>5. \A p \in DOMAIN aCache'[q] : Backed(aCache'[q][p], new, p, aSince'[q])
      BY <2>2, <2>3, <2>4 DEF Backed
    <2>6. Now(aFile', new) \in aSince'[q]
      BY <2>3
    <2>7. \A a \in aMem'[q] : a = new
      BY <2>3
    <2>8. Sound(aMem'[q], aCache'[q], aPc'[q], aSince'[q], aFile')
      BY <2>2, <2>5, <2>6, <2>7 DEF Sound
    <2> QED
      BY <2>8 DEF SoundAt
  <1>4. CASE WritePolicy(q) \/ RenamePolicy(q)
    <2>1. /\ aMem'[q] = aMem[q] /\ aCache'[q] = aCache[q] /\ aSince'[q] = aSince[q]
          /\ aFile' = aFile /\ (aPc'[q] \in Settled => aPc[q] \in Settled)
      BY <1>4 DEF WritePolicy, RenamePolicy, Settled
    <2> QED
      BY <2>1 DEF SoundAt, Sound
  <1>5. CASE ClearCache(q)
    <2>1. /\ aMem'[q] = aMem[q] /\ aCache'[q] = NoVerdicts /\ aFile' = aFile
          /\ aSince'[q] = {Now(aFile, pol) : pol \in aMem[q]}
      BY <1>5 DEF ClearCache
    <2> QED
      BY <2>1 DEF SoundAt, Sound, NoVerdicts
  <1>6. ASSUME NEW p \in AppPaths, CheckApp(q, p) PROVE SoundAt(q)'
    <2>1. PICK pol \in aMem[q] :
            aCache' = [aCache EXCEPT ![q] = [x \in DOMAIN aCache[q] \cup {p} |->
              IF x = p THEN AppVerdict(pol, p, aFile[p]) ELSE aCache[q][x]]]
      BY <1>6 DEF CheckApp
    <2>2. /\ aMem'[q] = aMem[q] /\ aSince'[q] = aSince[q] /\ aFile' = aFile
          /\ aPc[q] \in Settled
      BY <1>6 DEF CheckApp, Settled
    <2>3. IsPolicy(pol) /\ Now(aFile, pol) \in aSince[q] /\ \A a \in aMem[q] : a = pol
      BY <2>2 DEF SoundAt, Sound
    <2>4. /\ DOMAIN aCache'[q] = DOMAIN aCache[q] \cup {p}
          /\ aCache'[q][p] = AppVerdict(pol, p, aFile[p])
          /\ \A x \in DOMAIN aCache[q] : x # p => aCache'[q][x] = aCache[q][x]
      BY <2>1
    <2>5. Backed(aCache'[q][p], pol, p, aSince[q])
      <3>1. aCache'[q][p] = Answer(pol.rules, pol.default, p, aFile[p])
        <4>1. AppVerdict(pol, p, aFile[p]) = Answer(pol.rules, pol.default, p, aFile[p])
          BY <2>3, PolicyAnswers
        <4> QED
          BY <2>4, <4>1
      <3>2. Now(aFile, pol).default = pol.default /\ Now(aFile, pol).file = aFile
        BY DEF Now
      <3> QED
        BY <2>3, <3>1, <3>2 DEF Backed
    <2>6. \A x \in DOMAIN aCache'[q] : Backed(aCache'[q][x], pol, x, aSince[q])
      BY <2>2, <2>4, <2>5 DEF SoundAt, Sound
    <2> QED
      BY <2>2, <2>3, <2>6 DEF SoundAt, Sound
  <1> QED
    BY <1>1, <1>2, <1>3, <1>4, <1>5, <1>6 DEF AppStep

\* A replaced executable is seen by every controller that has a policy.
LEMMA ReplaceIsSound ==
  ASSUME AppInv, NEW p \in AppPaths, ReplaceApp(p) PROVE AppInv'
  <1>1. /\ aMem' = aMem /\ aCache' = aCache /\ aPc' = aPc /\ aStore' = aStore /\ aTmp' = aTmp
        /\ DOMAIN aSince' = AppProcs
        /\ \A q \in AppProcs : aSince'[q] = aSince[q] \cup {Now(aFile', pol) : pol \in aMem[q]}
    BY DEF ReplaceApp, AppInv, Perprocess
  <1>2. ASSUME NEW q \in AppProcs PROVE SoundAt(q)'
    <2>1. \A v, pol, x : Backed(v, pol, x, aSince[q]) => Backed(v, pol, x, aSince'[q])
      BY <1>1 DEF Backed
    <2> QED
      BY <1>1, <2>1 DEF AppInv, SoundAt, Sound
  <1> QED
    BY <1>1, <1>2 DEF AppInv, Perprocess

LEMMA AppInvStep == AppInv /\ (AppNext \/ UNCHANGED appVars) => AppInv'
  <1> SUFFICES ASSUME AppInv, AppNext \/ UNCHANGED appVars PROVE AppInv'
    OBVIOUS
  <1>1. CASE UNCHANGED appVars
    BY <1>1 DEF appVars, AppInv, Perprocess, SoundAt
  <1>2. ASSUME NEW q \in AppProcs, AppStep(q) PROVE AppInv'
    BY <1>2, OneController, AppPolicyFiles, AppStepIsLocal, AppStepIsSound
  <1>3. ASSUME NEW p \in AppPaths, ReplaceApp(p) PROVE AppInv'
    BY <1>3, ReplaceIsSound
  <1> QED
    BY <1>1, <1>2, <1>3 DEF AppNext

LEMMA AppInvVerdicts == AppInv => CachedVerdictsFollowRules
  <1> SUFFICES ASSUME AppInv, NEW q \in AppProcs, aPc[q] = "idle",
                      NEW p \in DOMAIN aCache[q], NEW pol \in aMem[q]
               PROVE  \E s \in aSince[q] :
                 aCache[q][p] = AppVerdict([pol EXCEPT !.default = s.default], p, s.file[p])
    BY DEF CachedVerdictsFollowRules
  <1>1. IsPolicy(pol) /\ Backed(aCache[q][p], pol, p, aSince[q])
    BY DEF AppInv, SoundAt, Sound, Settled
  <1>2. PICK s \in aSince[q] : aCache[q][p] = Answer(pol.rules, s.default, p, s.file[p])
    BY <1>1 DEF Backed
  <1>3. AppVerdict([pol EXCEPT !.default = s.default], p, s.file[p])
          = Answer(pol.rules, s.default, p, s.file[p])
    BY <1>1, PolicyAnswers
  <1> QED
    BY <1>2, <1>3

(* Whatever rules, defaults and files change, and in however many          *)
(* processes, an answer from the cache of ApplicationController.check is   *)
(* what the rules of this moment give, for a default and a file that were  *)
(* current since the last rule change.                                     *)
THEOREM CachedVerdictsHold == Spec => []CachedVerdictsFollowRules
  <1>1. GuardsInit => AppInv
    BY AppInitInv DEF GuardsInit
  <1>2. AppInv /\ [GuardsNext]_guardVars => AppInv'
    BY StepOfComponent, AppInvStep
  <1> QED
    BY <1>1, <1>2, AppInvVerdicts, PTL DEF Spec
-----------------------------------------------------------------------------
(* Enforcers.                                                              *)

CommandNames ==
  {"new-chain", "check-hook", "hook", "flush", "append", "delete", "unhook", "delete-chain",
   "write-anchor", "unlink-anchor", "add-conf", "drop-conf", "reload",
   "add-rule", "delete-rules", "truncate", "fill"}
Command == [do : CommandNames, on : SUBSET Targets]
\* What a call starts with, and what follows the command it is at.
Plain == [do : CommandNames \ {"hook"}, on : SUBSET Targets]
Call == [op : {"none", "install", "remove", "add", "drop"}, set : SUBSET Targets,
         todo : Seq(Command), state : {"running", "done", "failed", "killed"},
         clean : BOOLEAN, early : BOOLEAN, kept : BOOLEAN]
System ==
  /\ eChain \in [exists : BOOLEAN, rules : [Targets -> Nat]] /\ eHooks \in Nat
  /\ eAnchor \in [file : SUBSET Targets, loaded : SUBSET Targets, conf : BOOLEAN]
  /\ eRules \in SUBSET Targets /\ eHosts \in [user : BOOLEAN, section : SUBSET Targets]
EnfTypes ==
  /\ ePlatform \in Platforms \cup {"none"} /\ System
  /\ eBlocked \in SUBSET Targets /\ eCall \in Call /\ eDoubled \in BOOLEAN

(* What is left of the commands of an install: after the first k, DROP     *)
(* rules for the targets B.                                                *)
Append1(x) == CmdOn("append", {x})
OnlyAppends(todo, k, B) ==
  Len(todo) >= k /\ \A j \in (k + 1)..Len(todo) : \E x \in B : todo[j] = Append1(x)
Ahead(todo, k, x) == \E j \in (k + 1)..Len(todo) : todo[j] = Append1(x)
Appends(todo, k, B) == OnlyAppends(todo, k, B) /\ \A x \in B : Ahead(todo, k, x)

(* An install of iptables repairs whatever it finds: first the chain is    *)
(* there, then it is hooked, then it is empty, then each target is in it   *)
(* or still to come.                                                       *)
BeforeChain(todo, B) ==
  /\ todo[1] = Cmd("new-chain") /\ todo[2] = Cmd("check-hook") /\ todo[3] = Cmd("flush")
  /\ Appends(todo, 3, B)
BeforeCheck(todo, B) ==
  /\ eChain.exists /\ todo[1] = Cmd("check-hook") /\ todo[2] = Cmd("flush")
  /\ Appends(todo, 2, B)
BeforeHook(todo, B) ==
  /\ eChain.exists /\ eHooks = 0 /\ todo[1] = Cmd("hook") /\ todo[2] = Cmd("flush")
  /\ Appends(todo, 2, B)
BeforeFlush(todo, B) ==
  /\ eChain.exists /\ eHooks > 0 /\ todo[1] = Cmd("flush") /\ Appends(todo, 1, B)
Filling(todo, B) ==
  /\ eChain.exists /\ eHooks > 0 /\ OnlyAppends(todo, 0, B)
  /\ \A t \in Targets : IF t \in B THEN eChain.rules[t] > 0 \/ Ahead(todo, 0, t)
                        ELSE eChain.rules[t] = 0
Installing(todo, B) ==
  \/ BeforeChain(todo, B) \/ BeforeCheck(todo, B) \/ BeforeHook(todo, B)
  \/ BeforeFlush(todo, B) \/ Filling(todo, B)

(* An add of one target does the same without emptying the chain. *)
AddingOne(todo, x) ==
  \/ todo = <<Cmd("new-chain"), Cmd("check-hook"), Append1(x)>>
  \/ eChain.exists /\ todo = <<Cmd("check-hook"), Append1(x)>>
  \/ eChain.exists /\ eHooks = 0 /\ todo = <<Cmd("hook"), Append1(x)>>
  \/ eChain.exists /\ eHooks > 0 /\ todo = <<Append1(x)>>
  \/ eHooks > 0 /\ eChain.rules[x] > 0 /\ todo = <<>>
Adding(todo, S) == \E x \in Targets : S = {x} /\ AddingOne(todo, x)

(* A remove takes the jump away. *)
Removing(todo) ==
  \/ todo = <<Cmd("unhook"), Cmd("delete-chain")>>
  \/ todo \in {<<Cmd("delete-chain")>>, <<>>} /\ (eHooks = 0 \/ eDoubled)

(* A jump is only inserted next, and only if there was none, unless a -C   *)
(* was refused.                                                            *)
Jumps ==
  /\ eCall.todo # <<>> => Tail(eCall.todo) \in Seq(Plain)
  /\ ~eDoubled => /\ eHooks < 2
                  /\ eCall.todo # <<>> /\ eCall.todo[1].do = "hook" => eHooks = 0

(* The hosts file is emptied and written again. *)
Rewriting(todo, S) ==
  \/ todo = <<Cmd("truncate"), CmdOn("fill", S)>> \/ todo = <<CmdOn("fill", S)>>
  \/ todo = <<>> /\ eHosts.section = S

\* A call none of whose commands was refused is on its way to what it promises.
OnCourse ==
  /\ ePlatform \in {"iptables", "dns-iptables"} =>
       /\ eCall.op = "install" => Installing(eCall.todo, Appended(ePlatform, eCall.set))
       /\ eCall.op = "add" => Adding(eCall.todo, eCall.set)
       /\ eCall.op = "remove" => Removing(eCall.todo)
  /\ ePlatform = "hosts" => Rewriting(eCall.todo, IF eCall.op = "install" THEN eCall.set ELSE {})
Healthy == eCall.clean /\ ~eCall.early /\ eCall.state \in {"running", "done"}
EnfInv ==
  /\ EnfTypes /\ Jumps
  /\ eCall.op = "add" => ePlatform # "hosts"
  /\ eCall.state = "done" => eCall.todo = <<>>
  /\ Healthy => OnCourse

LEMMA BlockableTargets ==
  ASSUME NEW S \in SUBSET Targets
  PROVE  /\ Blockable(S) \in SUBSET Targets /\ IsFiniteSet(S) /\ IsFiniteSet(Blockable(S))
         /\ \A plat : Appended(plat, S) \in SUBSET Targets
  BY EnfAssumption, FS_Subset DEF Blockable, Appended

LEMMA CommandType ==
  ASSUME NEW d \in CommandNames
  PROVE  Cmd(d) \in Command /\ Cmd(d).do = d /\ \A S \in SUBSET Targets : CmdOn(d, S) \in Command
  BY DEF Cmd, CmdOn, Command

LEMMA PlainType ==
  ASSUME NEW d \in CommandNames \ {"hook"}
  PROVE  Cmd(d) \in Plain /\ \A S \in SUBSET Targets : CmdOn(d, S) \in Plain
  BY DEF Cmd, CmdOn, Plain

LEMMA PlainCommands ==
  ASSUME NEW s \in Seq(Plain)
  PROVE  s \in Seq(Command) /\ (s # <<>> => s[1].do # "hook" /\ Tail(s) \in Seq(Plain))
  <1>1. Plain \subseteq Command /\ \A c \in Plain : c.do # "hook"
    BY DEF Plain, Command
  <1>2. s \in Seq(Command)
    BY <1>1
  <1>3. s # <<>> => s[1] \in Plain /\ Tail(s) \in Seq(Plain)
    OBVIOUS
  <1> QED
    BY <1>1, <1>2, <1>3

LEMMA EachOf ==
  ASSUME NEW S \in SUBSET Targets, NEW d \in CommandNames \ {"hook"}
  PROVE  /\ Each(d, S) \in Seq(Plain) /\ Len(Each(d, S)) = Cardinality(S)
         /\ \A j \in 1..Len(Each(d, S)) : \E x \in S : Each(d, S)[j] = CmdOn(d, {x})
         /\ \A x \in S : \E j \in 1..Len(Each(d, S)) : Each(d, S)[j] = CmdOn(d, {x})
  <1> DEFINE s == SetToSeq(S)
             e == [i \in 1..Len(s) |-> CmdOn(d, {s[i]})]
  <1>1. /\ s \in Seq(S) /\ Len(s) = Cardinality(S)
        /\ \A x \in S : \E i \in 1..Len(s) : s[i] = x
    BY BlockableTargets, Enumerates
  <1>2. Each(d, S) = e
    BY DEF Each
  <1> HIDE DEF s
  <1>3. Len(s) \in Nat /\ \A i \in 1..Len(s) : s[i] \in S
    BY <1>1
  <1>4. \A i \in 1..Len(s) : CmdOn(d, {s[i]}) \in Plain
    BY <1>3, PlainType
  <1>5. e \in [1..Len(s) -> Plain]
    BY <1>4
  <1>6. \A j \in 1..Len(s) : e[j] = CmdOn(d, {s[j]})
    OBVIOUS
  <1> HIDE DEF e
  <1>7. e \in Seq(Plain) /\ Len(e) = Len(s)
    BY <1>3, <1>5
  <1> QED
    BY <1>1, <1>2, <1>3, <1>6, <1>7

\* The commands of an install of iptables.
LEMMA InstallCommands ==
  ASSUME NEW B \in SUBSET Targets
  PROVE  LET todo == EnsureChain \o <<Cmd("flush")>> \o Each("append", B) IN
         todo \in Seq(Plain) /\ BeforeChain(todo, B)
  <1> DEFINE a == Each("append", B)
             h == <<Cmd("new-chain"), Cmd("check-hook"), Cmd("flush")>>
             todo == EnsureChain \o <<Cmd("flush")>> \o a
  <1>1. /\ a \in Seq(Plain)
        /\ \A j \in 1..Len(a) : \E x \in B : a[j] = Append1(x)
        /\ \A x \in B : \E j \in 1..Len(a) : a[j] = Append1(x)
    BY EachOf DEF CommandNames, Append1
  <1>2. h \in Seq(Plain) /\ Len(h) = 3
    BY PlainType DEF CommandNames
  <1>3. todo = h \o a
    BY DEF EnsureChain
  <1> HIDE DEF a, todo
  <1>4. /\ todo \in Seq(Plain) /\ Len(todo) = 3 + Len(a) /\ Len(a) \in Nat
        /\ \A j \in 1..3 : todo[j] = h[j]
        /\ \A j \in 4..Len(todo) : todo[j] = a[j - 3]
    <2> HIDE DEF h
    <2>1. /\ h \o a \in Seq(Plain) /\ Len(h \o a) = Len(h) + Len(a)
          /\ \A i \in 1..(Len(h) + Len(a)) :
               (h \o a)[i] = IF i <= Len(h) THEN h[i] ELSE a[i - Len(h)]
      BY <1>1, <1>2, ConcatProperties
    <2>2. Len(a) \in Nat
      BY <1>1
    <2> QED
      BY <1>2, <1>3, <2>1, <2>2
  <1>5. OnlyAppends(todo, 3, B)
    <2>1. ASSUME NEW j \in 4..Len(todo) PROVE \E x \in B : todo[j] = Append1(x)
      <3>1. j - 3 \in 1..Len(a) /\ todo[j] = a[j - 3]
        BY <1>4
      <3> QED
        BY <1>1, <3>1
    <2> QED
      BY <1>4, <2>1 DEF OnlyAppends
  <1>6. ASSUME NEW x \in B PROVE Ahead(todo, 3, x)
    <2>1. PICK j \in 1..Len(a) : a[j] = Append1(x)
      BY <1>1
    <2>2. j + 3 \in 4..Len(todo) /\ todo[j + 3] = a[j]
      BY <1>4, <2>1
    <2> QED
      BY <2>1, <2>2 DEF Ahead
  <1>7. BeforeChain(todo, B)
    BY <1>4, <1>5, <1>6 DEF BeforeChain, Appends
  <1> QED
    BY <1>4, <1>7 DEF todo, a

LEMMA Joined ==
  ASSUME NEW a, NEW b, NEW c
  PROVE  <<a, b>> \o <<c>> = <<a, b, c>> /\ <<a>> \o <<c>> = <<a, c>>
  <1> DEFINE T == {a, b, c}
  <1>1. /\ <<a, b>> \in Seq(T) /\ <<a>> \in Seq(T) /\ <<c>> \in Seq(T)
        /\ <<a, b, c>> \in Seq(T) /\ <<a, c>> \in Seq(T)
    OBVIOUS
  <1>2. <<a, b>> \o <<c>> = <<a, b, c>>
    <2>1. PICK s \in Seq(T) : s = <<a, b>> /\ Len(s) = 2 /\ s[1] = a /\ s[2] = b
      BY <1>1
    <2>2. PICK r \in Seq(T) : r = <<c>> /\ Len(r) = 1 /\ r[1] = c
      BY <1>1
    <2>3. Len(s \o r) = 3 /\ (s \o r)[1] = a /\ (s \o r)[2] = b /\ (s \o r)[3] = c
      BY <2>1, <2>2, ConcatProperties
    <2>4. s \o r \in Seq(T)
      BY ConcatProperties
    <2>5. s \o r = <<a, b, c>>
      <3>1. PICK q \in Seq(T) : q = <<a, b, c>> /\ Len(q) = 3 /\ q[1] = a /\ q[2] = b /\ q[3] = c
        BY <1>1
      <3>2. Len(s \o r) = Len(q) /\ \A i \in 1..Len(s \o r) : (s \o r)[i] = q[i]
        BY <2>3, <3>1
      <3>3. s \o r = q
        BY <2>4, <3>2, SeqEqual
      <3> QED
        BY <3>1, <3>3
    <2> QED
      BY <2>1, <2>2, <2>5
  <1>3. <<a>> \o <<c>> = <<a, c>>
    <2>1. PICK s \in Seq(T) : s = <<a>> /\ Len(s) = 1 /\ s[1] = a
      BY <1>1
    <2>2. PICK r \in Seq(T) : r = <<c>> /\ Len(r) = 1 /\ r[1] = c
      BY <1>1
    <2>3. Len(s \o r) = 2 /\ (s \o r)[1] = a /\ (s \o r)[2] = c
      BY <2>1, <2>2, ConcatProperties
    <2>4. s \o r \in Seq(T)
      BY ConcatProperties
    <2>5. s \o r = <<a, c>>
      <3>1. PICK q \in Seq(T) : q = <<a, c>> /\ Len(q) = 2 /\ q[1] = a /\ q[2] = c
        BY <1>1
      <3>2. Len(s \o r) = Len(q) /\ \A i \in 1..Len(s \o r) : (s \o r)[i] = q[i]
        BY <2>3, <3>1
      <3>3. s \o r = q
        BY <2>4, <3>2, SeqEqual
      <3> QED
        BY <3>1, <3>3
    <2> QED
      BY <2>1, <2>2, <2>5
  <1> QED
    BY <1>2, <1>3

\* The commands of an add.
LEMMA AddCommands ==
  ASSUME NEW x \in Targets
  PROVE  EnsureChain \o Each("append", {x}) = <<Cmd("new-chain"), Cmd("check-hook"), Append1(x)>>
  <1> DEFINE a == Each("append", {x})
  <1>1. a \in Seq(Plain) /\ Len(a) = 1 /\ \A j \in 1..Len(a) : a[j] = Append1(x)
    <2>1. {x} \in SUBSET Targets /\ Cardinality({x}) = 1
      BY FS_Singleton
    <2> QED
      BY <2>1, EachOf DEF CommandNames, Append1
  <1> HIDE DEF a
  <1>2. a = <<Append1(x)>>
    BY <1>1
  <1>3. EnsureChain \o a = <<Cmd("new-chain"), Cmd("check-hook"), Append1(x)>>
    BY <1>2, Joined DEF EnsureChain
  <1> QED
    BY <1>3 DEF a

\* Each platform's commands are commands.
LEMMA CommandsType ==
  ASSUME NEW plat \in Platforms, NEW op \in {"install", "remove", "add", "drop"},
         NEW S \in SUBSET Targets, EnfTypes
  PROVE  Commands(plat, op, S) \in Seq(Plain)
  <1>1. /\ Each("append", S) \in Seq(Plain) /\ Each("delete", S) \in Seq(Plain)
        /\ Each("add-rule", Blockable(S)) \in Seq(Plain)
        /\ EnsureChain \o <<Cmd("flush")>> \o Each("append", Appended(plat, S)) \in Seq(Plain)
    BY EachOf, BlockableTargets, InstallCommands DEF CommandNames
  <1>2. EnsureChain \in Seq(Plain)
    BY PlainType DEF EnsureChain, CommandNames
  <1>3. EnsureChain \o Each("append", S) \in Seq(Plain)
    BY <1>1, <1>2
  <1>4. /\ <<Cmd("unhook"), Cmd("delete-chain")>> \in Seq(Plain)
        /\ <<CmdOn("write-anchor", Blockable(S)), Cmd("add-conf"), Cmd("reload")>> \in Seq(Plain)
        /\ <<Cmd("unlink-anchor"), Cmd("drop-conf"), Cmd("reload")>> \in Seq(Plain)
        /\ <<Cmd("delete-rules")>> \in Seq(Plain)
    BY PlainType, BlockableTargets DEF CommandNames
  <1>5. <<Cmd("truncate"), CmdOn("fill", IF op = "install" THEN S ELSE {})>> \in Seq(Plain)
    BY PlainType DEF CommandNames
  <1>6. <<>> \in Seq(Plain)
    OBVIOUS
  <1> QED
    BY <1>1, <1>3, <1>4, <1>5, <1>6, EnfAssumption DEF Commands

\* The next command is done: what is left.
LEMMA TailOf ==
  ASSUME NEW todo \in Seq(Command), todo # <<>>
  PROVE  /\ Tail(todo) \in Seq(Command) /\ Len(Tail(todo)) = Len(todo) - 1 /\ Len(todo) \in Nat
         /\ \A j \in 1..(Len(todo) - 1) : Tail(todo)[j] = todo[j + 1]
  OBVIOUS

LEMMA AppendsOfTail ==
  ASSUME NEW todo \in Seq(Command), NEW k \in {0, 1, 2}, NEW B
  PROVE  /\ OnlyAppends(todo, k + 1, B) => OnlyAppends(Tail(todo), k, B)
         /\ Appends(todo, k + 1, B) => Appends(Tail(todo), k, B)
  <1> SUFFICES ASSUME OnlyAppends(todo, k + 1, B)
               PROVE  /\ OnlyAppends(Tail(todo), k, B)
                      /\ \A x \in B : Ahead(todo, k + 1, x) => Ahead(Tail(todo), k, x)
    BY DEF Appends
  <1>1. todo # <<>> /\ Len(todo) >= k + 1
    BY DEF OnlyAppends
  <1>2. /\ Len(Tail(todo)) = Len(todo) - 1 /\ Len(todo) \in Nat
        /\ \A j \in 1..(Len(todo) - 1) : Tail(todo)[j] = todo[j + 1]
    BY <1>1, TailOf
  <1>3. ASSUME NEW j \in (k + 1)..Len(Tail(todo))
        PROVE  \E x \in B : Tail(todo)[j] = Append1(x)
    <2>1. j + 1 \in (k + 2)..Len(todo) /\ j \in 1..(Len(todo) - 1)
      BY <1>2
    <2>2. \E x \in B : todo[j + 1] = Append1(x)
      BY <2>1 DEF OnlyAppends
    <2> QED
      BY <1>2, <2>1, <2>2
  <1>4. ASSUME NEW x \in B, Ahead(todo, k + 1, x) PROVE Ahead(Tail(todo), k, x)
    <2>1. PICK j \in (k + 2)..Len(todo) : todo[j] = Append1(x)
      BY <1>4 DEF Ahead
    <2>2. j - 1 \in (k + 1)..Len(Tail(todo)) /\ j - 1 \in 1..(Len(todo) - 1)
      BY <1>2
    <2>3. Tail(todo)[j - 1] = Append1(x)
      BY <1>2, <2>1, <2>2
    <2> QED
      BY <2>2, <2>3 DEF Ahead
  <1> QED
    BY <1>1, <1>2, <1>3, <1>4 DEF OnlyAppends

\* What a target still waits for when the next command was another one's.
LEMMA AheadOfTail ==
  ASSUME NEW todo \in Seq(Command), todo # <<>>, NEW x, Ahead(todo, 0, x)
  PROVE  todo[1] = Append1(x) \/ Ahead(Tail(todo), 0, x)
  <1>1. PICK j \in 1..Len(todo) : todo[j] = Append1(x)
    BY DEF Ahead
  <1>2. CASE j = 1
    BY <1>1, <1>2
  <1>3. CASE j # 1
    <2>1. j - 1 \in 1..Len(Tail(todo)) /\ Tail(todo)[j - 1] = todo[j]
      BY <1>3, TailOf
    <2> QED
      BY <1>1, <2>1 DEF Ahead
  <1> QED
    BY <1>2, <1>3

\* The head is replaced by the jump to be inserted.
LEMMA HookAhead ==
  ASSUME NEW todo \in Seq(Command), NEW B, Appends(todo, 2, B), NEW more,
         more = <<Cmd("hook")>> \o Tail(todo)
  PROVE  more[1] = Cmd("hook") /\ more[2] = todo[2] /\ Appends(more, 2, B)
  <1>1. todo # <<>> /\ Len(todo) >= 2
    BY DEF Appends, OnlyAppends
  <1>2. <<Cmd("hook")>> \in Seq(Command) /\ Len(<<Cmd("hook")>>) = 1
    BY CommandType DEF CommandNames
  <1>3. /\ Tail(todo) \in Seq(Command) /\ Len(Tail(todo)) = Len(todo) - 1 /\ Len(todo) \in Nat
        /\ \A j \in 1..(Len(todo) - 1) : Tail(todo)[j] = todo[j + 1]
    BY <1>1, TailOf
  <1>4. /\ Len(more) = Len(todo)
        /\ \A i \in 1..Len(todo) :
             more[i] = IF i <= 1 THEN <<Cmd("hook")>>[i] ELSE Tail(todo)[i - 1]
    BY <1>2, <1>3, ConcatProperties
  <1>5. more[1] = Cmd("hook") /\ \A i \in 2..Len(todo) : more[i] = todo[i]
    <2>1. more[1] = Cmd("hook")
      BY <1>1, <1>3, <1>4
    <2>2. ASSUME NEW i \in 2..Len(todo) PROVE more[i] = todo[i]
      <3>1. i - 1 \in 1..(Len(todo) - 1) /\ i - 1 + 1 = i /\ ~(i <= 1) /\ i \in 1..Len(todo)
        BY <1>3
      <3> QED
        BY <1>3, <1>4, <3>1
    <2> QED
      BY <2>1, <2>2
  <1> QED
    BY <1>1, <1>3, <1>4, <1>5 DEF Appends, OnlyAppends, Ahead

\* One command: of iptables, pf, netsh or the hosts file.
RunsCommand ==
  \/ NewChain \/ CheckHook \/ InsertHook \/ FlushChain \/ AppendOrDelete \/ Unhook \/ DeleteChain
  \/ PfCommand \/ NetshCommand \/ HostsCommand

LEMMA AppendOf ==
  ASSUME NEW x
  PROVE  Append1(x).do = "append" /\ Append1(x).on = {x} /\ (CHOOSE t \in Append1(x).on : TRUE) = x
  BY DEF Append1, CmdOn

\* What the next command of an install is.
LEMMA InstallHead ==
  ASSUME EnfTypes, NEW B, eCall.todo # <<>>, Installing(eCall.todo, B)
  PROVE  \/ BeforeChain(eCall.todo, B) /\ eCall.todo[1].do = "new-chain"
         \/ BeforeCheck(eCall.todo, B) /\ eCall.todo[1].do = "check-hook"
         \/ BeforeHook(eCall.todo, B) /\ eCall.todo[1].do = "hook"
         \/ BeforeFlush(eCall.todo, B) /\ eCall.todo[1].do = "flush"
         \/ Filling(eCall.todo, B) /\ eCall.todo[1].do = "append"
              /\ \E x \in B : eCall.todo[1] = Append1(x)
  <1>1. \A d : Cmd(d).do = d
    BY DEF Cmd
  <1>2. Filling(eCall.todo, B) => \E x \in B : eCall.todo[1] = Append1(x)
    <2>1. 1 \in 1..Len(eCall.todo)
      BY DEF EnfTypes, Call
    <2> QED
      BY <2>1 DEF Filling, OnlyAppends
  <1> QED
    BY <1>1, <1>2, AppendOf
    DEF Installing, BeforeChain, BeforeCheck, BeforeHook, BeforeFlush

LEMMA WhichCommand ==
  ASSUME RunsCommand
  PROVE  /\ eCall.state = "running" /\ eCall.todo # <<>>
         /\ ePlatform' = ePlatform /\ eBlocked' = eBlocked /\ eDoubled' = eDoubled
         /\ eCall.todo[1].do = "new-chain" => NewChain
         /\ eCall.todo[1].do = "check-hook" => CheckHook
         /\ eCall.todo[1].do = "hook" => InsertHook
         /\ eCall.todo[1].do = "flush" => FlushChain
         /\ eCall.todo[1].do = "append" => AppendOrDelete
         /\ eCall.todo[1].do = "unhook" => Unhook
         /\ eCall.todo[1].do = "delete-chain" => DeleteChain
         /\ eCall.todo[1].do \in {"truncate", "fill"} => HostsCommand
         /\ eCall.todo[1].do # "check-hook" => Next1
  BY DEF RunsCommand, NewChain, CheckHook, InsertHook, FlushChain, AppendOrDelete,
         Unhook, DeleteChain, PfCommand, NetshCommand, HostsCommand, Running, Ran

\* A command changes what is left of the call and nothing else of it.
LEMMA CommandOfCall ==
  ASSUME EnfTypes, RunsCommand
  PROVE  /\ eCall' \in Call /\ eCall' = [eCall EXCEPT !.todo = eCall'.todo]
         /\ eCall.todo \in Seq(Command) /\ eCall.todo # <<>>
         /\ eCall.todo[1].do # "check-hook" => eCall'.todo = Tail(eCall.todo)
         /\ eCall.todo[1].do = "check-hook" => eCall'.todo =
              (IF eHooks = 0 THEN <<Cmd("hook")>> ELSE <<>>) \o Tail(eCall.todo)
  <1>1. eCall \in Call /\ eCall.todo # <<>> /\ eCall.todo \in Seq(Command)
    BY WhichCommand DEF EnfTypes, Call
  <1>2. Tail(eCall.todo) \in Seq(Command)
    BY <1>1
  <1>3. CASE eCall.todo[1].do # "check-hook"
    <2>1. eCall' = [eCall EXCEPT !.todo = Tail(eCall.todo)]
      BY <1>3, WhichCommand DEF Next1
    <2> HIDE DEF Call
    <2>2. eCall'.todo = Tail(eCall.todo)
      BY <1>1, <2>1 DEF Call
    <2>3. eCall' \in Call
      BY <1>1, <1>2, <2>1 DEF Call
    <2> QED
      BY <1>1, <1>3, <2>1, <2>2, <2>3
  <1>4. CASE eCall.todo[1].do = "check-hook"
    <2> DEFINE more == (IF eHooks = 0 THEN <<Cmd("hook")>> ELSE <<>>) \o Tail(eCall.todo)
    <2>1. eCall' = [eCall EXCEPT !.todo = more]
      BY <1>4, WhichCommand DEF CheckHook
    <2>2. <<Cmd("hook")>> \in Seq(Command)
      BY CommandType DEF CommandNames
    <2>3. more \in Seq(Command)
      BY <1>2, <2>2
    <2> HIDE DEF more
    <2>4. eCall'.todo = more
      BY <1>1, <2>1 DEF Call
    <2>5. eCall' \in Call
      BY <1>1, <2>1, <2>3 DEF Call
    <2> QED
      BY <1>1, <1>4, <2>1, <2>4, <2>5 DEF more
  <1> QED
    BY <1>3, <1>4

LEMMA CommandTypes == ASSUME EnfTypes, RunsCommand PROVE EnfTypes'
  <1>1. eCall' \in Call /\ ePlatform' = ePlatform /\ eBlocked' = eBlocked /\ eDoubled' = eDoubled
    BY CommandOfCall, WhichCommand
  <1>2. eCall.todo[1] \in Command
    BY CommandOfCall
  <1>3. eCall.todo[1].on \in SUBSET Targets /\ eCall.kept \in BOOLEAN
    BY <1>2 DEF EnfTypes, Command, Call
  <1>4. System
    BY DEF EnfTypes
  <1>5. System'
    <2>1. CASE NewChain
      BY <1>4, <2>1 DEF System, NewChain, NoRules
    <2>2. CASE CheckHook
      BY <1>4, <2>2 DEF System, CheckHook, sysVars
    <2>3. CASE InsertHook
      BY <1>4, <2>3 DEF System, InsertHook
    <2>4. CASE FlushChain
      BY <1>4, <2>4 DEF System, FlushChain, NoRules
    <2>5. CASE AppendOrDelete
      BY <1>4, <2>5 DEF System, AppendOrDelete
    <2>6. CASE Unhook
      BY <1>4, <2>6 DEF System, Unhook
    <2>7. CASE DeleteChain
      BY <1>4, <2>7 DEF System, DeleteChain
    <2>8. CASE PfCommand
      <3>1. UNCHANGED <<eChain, eHooks, eRules, eHosts>>
        BY <2>8 DEF PfCommand
      <3>2. eAnchor' \in [file : SUBSET Targets, loaded : SUBSET Targets, conf : BOOLEAN]
        BY <1>3, <1>4, <2>8 DEF System, PfCommand
      <3> QED
        BY <1>4, <3>1, <3>2 DEF System
    <2>9. CASE NetshCommand
      BY <1>3, <1>4, <2>9 DEF System, NetshCommand
    <2>10. CASE HostsCommand
      <3>1. UNCHANGED <<eChain, eHooks, eAnchor, eRules>>
        BY <2>10 DEF HostsCommand
      <3>2. eHosts' \in [user : BOOLEAN, section : SUBSET Targets]
        <4>1. CASE eHosts' = [user |-> FALSE, section |-> {}]
          BY <4>1
        <4>2. CASE eHosts' = [user |-> eCall.kept, section |-> eCall.todo[1].on]
          BY <1>3, <4>2
        <4> QED
          BY <2>10, <4>1, <4>2 DEF HostsCommand
      <3> QED
        BY <1>4, <3>1, <3>2 DEF System
    <2> QED
      BY <2>1, <2>2, <2>3, <2>4, <2>5, <2>6, <2>7, <2>8, <2>9, <2>10 DEF RunsCommand
  <1> QED
    BY <1>1, <1>5 DEF EnfTypes

LEMMA InstallStep ==
  ASSUME EnfTypes, NEW B \in SUBSET Targets, Installing(eCall.todo, B), RunsCommand
  PROVE  Installing(eCall.todo, B)'
  <1> DEFINE todo == eCall.todo
             next == Tail(todo)
  <1>1. todo \in Seq(Command) /\ todo # <<>> /\ (todo[1].do # "check-hook" => eCall'.todo = next)
    BY CommandOfCall
  <1>2. /\ Len(todo) >= 3 => next[1] = todo[2] /\ next[2] = todo[3]
        /\ Len(todo) >= 2 => next[1] = todo[2]
    BY <1>1, TailOf
  <1>3. CASE BeforeChain(todo, B) /\ todo[1].do = "new-chain"
    <2>1. eChain'.exists /\ eCall'.todo = next
      BY <1>1, <1>3, WhichCommand DEF NewChain, EnfTypes, System
    <2>2. Appends(next, 2, B)
      BY <1>1, <1>3, AppendsOfTail DEF BeforeChain
    <2>3. Len(todo) >= 3
      BY <1>3 DEF BeforeChain, Appends, OnlyAppends
    <2>4. next[1] = Cmd("check-hook") /\ next[2] = Cmd("flush")
      BY <1>2, <1>3, <2>3 DEF BeforeChain
    <2>5. BeforeCheck(eCall.todo, B)'
      BY <2>1, <2>2, <2>4 DEF BeforeCheck
    <2> QED
      BY <2>5 DEF Installing
  <1>4. CASE BeforeCheck(todo, B) /\ todo[1].do = "check-hook"
    <2>1. CheckHook /\ eChain' = eChain /\ eHooks' = eHooks
      BY <1>4, WhichCommand DEF CheckHook, sysVars
    <2>2. CASE eHooks = 0
      <3>1. eCall'.todo = <<Cmd("hook")>> \o next
        BY <1>4, <2>2, CommandOfCall
      <3>2. Appends(todo, 2, B) /\ todo[2] = Cmd("flush")
        BY <1>4 DEF BeforeCheck
      <3> HIDE DEF todo, next
      <3>3. /\ eCall'.todo[1] = Cmd("hook") /\ eCall'.todo[2] = Cmd("flush")
            /\ Appends(eCall'.todo, 2, B)
        BY <1>1, <3>1, <3>2, HookAhead DEF next
      <3>4. BeforeHook(eCall.todo, B)'
        BY <1>4, <2>1, <2>2, <3>3 DEF BeforeHook, BeforeCheck
      <3> QED
        BY <3>4 DEF Installing
    <2>3. CASE eHooks # 0
      <3>1. eCall'.todo = next
        <4>1. eCall'.todo = <<>> \o next
          BY <1>4, <2>3, CommandOfCall
        <4> QED
          BY <1>1, <4>1
      <3>2. Appends(next, 1, B)
        BY <1>1, <1>4, AppendsOfTail DEF BeforeCheck
      <3>3. Len(todo) >= 2
        BY <1>4 DEF BeforeCheck, Appends, OnlyAppends
      <3>4. next[1] = Cmd("flush") /\ eHooks > 0
        BY <1>2, <1>4, <2>3, <3>3 DEF BeforeCheck, EnfTypes, System
      <3>5. BeforeFlush(eCall.todo, B)'
        BY <1>4, <2>1, <3>1, <3>2, <3>4 DEF BeforeFlush, BeforeCheck
      <3> QED
        BY <3>5 DEF Installing
    <2> QED
      BY <2>2, <2>3
  <1>5. CASE BeforeHook(todo, B) /\ todo[1].do = "hook"
    <2>1. eChain' = eChain /\ eHooks' > 0 /\ eCall'.todo = next
      BY <1>1, <1>5, WhichCommand DEF InsertHook, BeforeHook
    <2>2. Appends(next, 1, B)
      BY <1>1, <1>5, AppendsOfTail DEF BeforeHook
    <2>3. Len(todo) >= 2
      BY <1>5 DEF BeforeHook, Appends, OnlyAppends
    <2>4. next[1] = Cmd("flush")
      BY <1>2, <1>5, <2>3 DEF BeforeHook
    <2>5. BeforeFlush(eCall.todo, B)'
      BY <1>5, <2>1, <2>2, <2>4 DEF BeforeFlush, BeforeHook
    <2> QED
      BY <2>5 DEF Installing
  <1>6. CASE BeforeFlush(todo, B) /\ todo[1].do = "flush"
    <2>1. eHooks' = eHooks /\ eCall'.todo = next /\ eChain' = [eChain EXCEPT !.rules = NoRules]
      BY <1>1, <1>6, WhichCommand DEF FlushChain
    <2>2. Appends(next, 0, B)
      BY <1>1, <1>6, AppendsOfTail DEF BeforeFlush
    <2>3. eChain'.exists /\ \A t \in Targets : eChain'.rules[t] = 0
      BY <1>6, <2>1 DEF BeforeFlush, NoRules, EnfTypes, System
    <2>4. Filling(eCall.todo, B)'
      BY <1>6, <2>1, <2>2, <2>3 DEF Filling, BeforeFlush, Appends
    <2> QED
      BY <2>4 DEF Installing
  <1>7. CASE Filling(todo, B) /\ todo[1].do = "append" /\ \E x \in B : todo[1] = Append1(x)
    <2>1. PICK x \in B : todo[1] = Append1(x)
      BY <1>7
    <2>2. Target = x
      BY <2>1, AppendOf DEF Target
    <2>3. AppendOrDelete /\ eHooks' = eHooks /\ eCall'.todo = next
      BY <1>1, <1>7, WhichCommand DEF AppendOrDelete
    <2>4. ~Running("delete") /\ eChain.exists
      BY <1>7 DEF Running, Filling
    <2>5. /\ eChain'.exists /\ eChain'.rules[x] > 0
          /\ \A t \in Targets : t # x => eChain'.rules[t] = eChain.rules[t]
      <3>1. eChain' = [eChain EXCEPT !.rules[x] = @ + 1]
        BY <2>2, <2>3, <2>4 DEF AppendOrDelete
      <3> QED
        BY <2>4, <3>1 DEF EnfTypes, System
    <2>6. OnlyAppends(next, 0, B)
      <3>1. OnlyAppends(todo, 1, B)
        BY <1>1, <1>7 DEF Filling, OnlyAppends
      <3> QED
        BY <1>1, <3>1, AppendsOfTail
    <2>7. ASSUME NEW t \in Targets
          PROVE  IF t \in B THEN eChain'.rules[t] > 0 \/ Ahead(next, 0, t) ELSE eChain'.rules[t] = 0
      <3>1. CASE t = x
        BY <2>5, <3>1
      <3>2. CASE t # x
        <4>1. todo[1] # Append1(t)
          BY <2>1, <3>2, AppendOf
        <4>2. Ahead(todo, 0, t) => Ahead(next, 0, t)
          BY <1>1, <4>1, AheadOfTail
        <4> QED
          BY <1>7, <2>5, <3>2, <4>2 DEF Filling
      <3> QED
        BY <3>1, <3>2
    <2>8. Filling(eCall.todo, B)'
      BY <1>7, <2>3, <2>5, <2>6, <2>7 DEF Filling
    <2> QED
      BY <2>8 DEF Installing
  <1> QED
    BY <1>1, <1>3, <1>4, <1>5, <1>6, <1>7, InstallHead

LEMMA JumpsStep == ASSUME EnfTypes, Jumps, RunsCommand PROVE Jumps'
  <1> DEFINE todo == eCall.todo
             next == Tail(todo)
  <1>1. todo \in Seq(Command) /\ todo # <<>> /\ next \in Seq(Plain)
    BY CommandOfCall DEF Jumps
  <1>2. next # <<>> => next[1].do # "hook" /\ Tail(next) \in Seq(Plain)
    BY <1>1, PlainCommands
  <1>3. eDoubled' = eDoubled
    BY WhichCommand
  <1>4. CASE todo[1].do = "check-hook"
    <2>1. CheckHook /\ eHooks' = eHooks
      BY <1>4, WhichCommand DEF CheckHook, sysVars
    <2>2. CASE eHooks = 0
      <3>1. eCall'.todo = <<Cmd("hook")>> \o next
        BY <1>4, <2>2, CommandOfCall
      <3>2. <<Cmd("hook")>> \in Seq(Command) /\ next \in Seq(Command)
        BY <1>1, PlainCommands, CommandType DEF CommandNames
      <3> HIDE DEF next
      <3>3. Tail(<<Cmd("hook")>> \o next) = next
        BY <3>2
      <3> QED
        BY <1>1, <1>3, <2>1, <2>2, <3>1, <3>3 DEF Jumps
    <2>3. CASE eHooks # 0
      <3>1. eCall'.todo = next
        <4>1. eCall'.todo = <<>> \o next
          BY <1>4, <2>3, CommandOfCall
        <4> QED
          BY <1>1, <4>1
      <3> QED
        BY <1>2, <1>3, <2>1, <3>1 DEF Jumps
    <2> QED
      BY <2>2, <2>3
  <1>5. CASE todo[1].do # "check-hook"
    <2>1. eCall'.todo = next
      BY <1>5, CommandOfCall
    <2>2. ~eDoubled => eHooks' < 2
      <3>1. eHooks' \in {eHooks, eHooks - 1} \/ (todo[1].do = "hook" /\ eHooks' = eHooks + 1)
        BY DEF RunsCommand, NewChain, CheckHook, InsertHook, FlushChain, AppendOrDelete, Unhook,
               DeleteChain, PfCommand, NetshCommand, HostsCommand, Running, sysVars
      <3> QED
        BY <1>1, <3>1 DEF Jumps, EnfTypes, System
    <2> QED
      BY <1>2, <1>3, <2>1, <2>2 DEF Jumps
  <1> QED
    BY <1>4, <1>5

LEMMA AddStep ==
  ASSUME EnfTypes, NEW x \in Targets, AddingOne(eCall.todo, x), RunsCommand
  PROVE  AddingOne(eCall.todo, x)'
  <1>1. \A d : Cmd(d).do = d
    BY DEF Cmd
  <1>2. Append1(x).do = "append" /\ Target = (CHOOSE t \in eCall.todo[1].on : TRUE)
    BY AppendOf DEF Target
  <1>3. CASE eCall.todo = <<Cmd("new-chain"), Cmd("check-hook"), Append1(x)>>
    <2>1. eCall.todo[1].do = "new-chain" /\ Tail(eCall.todo) = <<Cmd("check-hook"), Append1(x)>>
      BY <1>1, <1>3
    <2>2. NewChain /\ eCall'.todo = Tail(eCall.todo)
      BY <2>1, WhichCommand, CommandOfCall
    <2>3. eChain'.exists
      BY <2>2 DEF NewChain
    <2> QED
      BY <2>1, <2>2, <2>3 DEF AddingOne
  <1>4. CASE eChain.exists /\ eCall.todo = <<Cmd("check-hook"), Append1(x)>>
    <2>1. eCall.todo[1].do = "check-hook" /\ Tail(eCall.todo) = <<Append1(x)>>
      BY <1>1, <1>4
    <2>2. /\ CheckHook
          /\ eCall'.todo = (IF eHooks = 0 THEN <<Cmd("hook")>> ELSE <<>>) \o <<Append1(x)>>
      BY <2>1, WhichCommand, CommandOfCall
    <2>3. eHooks' = eHooks /\ eChain' = eChain
      BY <2>2 DEF CheckHook, sysVars
    <2>4. CASE eHooks = 0
      <3>1. eCall'.todo = <<Cmd("hook"), Append1(x)>>
        BY <2>2, <2>4, Joined
      <3> QED
        BY <1>4, <2>3, <2>4, <3>1 DEF AddingOne
    <2>5. CASE eHooks # 0
      <3>1. eCall'.todo = <<Append1(x)>> /\ eHooks > 0
        BY <2>2, <2>5 DEF EnfTypes, System
      <3> QED
        BY <1>4, <2>3, <3>1 DEF AddingOne
    <2> QED
      BY <2>4, <2>5
  <1>5. CASE eChain.exists /\ eHooks = 0 /\ eCall.todo = <<Cmd("hook"), Append1(x)>>
    <2>1. eCall.todo[1].do = "hook" /\ Tail(eCall.todo) = <<Append1(x)>>
      BY <1>1, <1>5
    <2>2. InsertHook /\ eCall'.todo = Tail(eCall.todo)
      BY <2>1, WhichCommand, CommandOfCall
    <2>3. eChain' = eChain /\ eHooks' = 1
      BY <1>5, <2>2 DEF InsertHook
    <2> QED
      BY <1>5, <2>1, <2>2, <2>3 DEF AddingOne
  <1>6. CASE eChain.exists /\ eHooks > 0 /\ eCall.todo = <<Append1(x)>>
    <2>1. eCall.todo[1] = Append1(x) /\ Tail(eCall.todo) = <<>>
      BY <1>6
    <2>2. AppendOrDelete /\ eCall'.todo = Tail(eCall.todo)
      BY <1>2, <2>1, WhichCommand, CommandOfCall
    <2>3. Target = x /\ ~Running("delete")
      BY <1>2, <2>1, AppendOf DEF Running
    <2>4. eChain' = [eChain EXCEPT !.rules[x] = @ + 1] /\ eHooks' = eHooks
      BY <1>6, <2>2, <2>3 DEF AppendOrDelete
    <2>5. eChain'.rules[x] > 0
      BY <2>4 DEF EnfTypes, System
    <2> QED
      BY <1>6, <2>1, <2>2, <2>4, <2>5 DEF AddingOne
  <1> QED
    BY <1>3, <1>4, <1>5, <1>6, WhichCommand DEF AddingOne

LEMMA RemoveStep ==
  ASSUME EnfTypes, Jumps, Removing(eCall.todo), RunsCommand PROVE Removing(eCall.todo)'
  <1>1. (\A d : Cmd(d).do = d) /\ eDoubled' = eDoubled
    BY WhichCommand DEF Cmd
  <1>2. CASE eCall.todo = <<Cmd("unhook"), Cmd("delete-chain")>>
    <2>1. eCall.todo[1].do = "unhook" /\ Tail(eCall.todo) = <<Cmd("delete-chain")>>
      BY <1>1, <1>2
    <2>2. Unhook /\ eCall'.todo = Tail(eCall.todo)
      BY <2>1, WhichCommand, CommandOfCall
    <2>3. eHooks' = 0 \/ eDoubled
      BY <2>2 DEF Unhook, EnfTypes, System, Jumps
    <2> QED
      BY <1>1, <2>1, <2>2, <2>3 DEF Removing
  <1>3. CASE eCall.todo = <<Cmd("delete-chain")>> /\ (eHooks = 0 \/ eDoubled)
    <2>1. eCall.todo[1].do = "delete-chain" /\ Tail(eCall.todo) = <<>>
      BY <1>1, <1>3
    <2>2. DeleteChain /\ eCall'.todo = Tail(eCall.todo)
      BY <2>1, WhichCommand, CommandOfCall
    <2>3. eHooks' = eHooks
      BY <2>2 DEF DeleteChain
    <2> QED
      BY <1>1, <1>3, <2>1, <2>2, <2>3 DEF Removing
  <1> QED
    BY <1>2, <1>3, WhichCommand DEF Removing

LEMMA RewriteStep ==
  ASSUME EnfTypes, NEW S, Rewriting(eCall.todo, S), RunsCommand PROVE Rewriting(eCall.todo, S)'
  <1>1. Cmd("truncate").do = "truncate" /\ CmdOn("fill", S).do = "fill" /\ CmdOn("fill", S).on = S
    BY DEF Cmd, CmdOn
  <1>2. CASE eCall.todo = <<Cmd("truncate"), CmdOn("fill", S)>>
    <2>1. eCall.todo[1].do = "truncate" /\ Tail(eCall.todo) = <<CmdOn("fill", S)>>
      BY <1>1, <1>2
    <2>2. eCall'.todo = Tail(eCall.todo)
      BY <2>1, CommandOfCall
    <2> QED
      BY <2>1, <2>2 DEF Rewriting
  <1>3. CASE eCall.todo = <<CmdOn("fill", S)>>
    <2>1. eCall.todo[1].do = "fill" /\ eCall.todo[1].on = S /\ Tail(eCall.todo) = <<>>
      BY <1>1, <1>3
    <2>2. HostsCommand /\ eCall'.todo = Tail(eCall.todo)
      BY <2>1, WhichCommand, CommandOfCall
    <2>3. eHosts'.section = S
      BY <2>1, <2>2 DEF HostsCommand, Running
    <2> QED
      BY <2>1, <2>2, <2>3 DEF Rewriting
  <1> QED
    BY <1>2, <1>3, WhichCommand DEF Rewriting

LEMMA CommandStep == ASSUME EnfInv, RunsCommand PROVE EnfInv'
  <1>1. EnfTypes' /\ EnfTypes /\ Jumps' /\ Jumps
    BY CommandTypes, JumpsStep DEF EnfInv
  <1>2. /\ eCall'.state = "running" /\ eCall.state = "running" /\ ePlatform' = ePlatform
        /\ eCall'.clean = eCall.clean /\ eCall'.early = eCall.early /\ eCall'.op = eCall.op
        /\ eCall'.set = eCall.set
    <2>1. eCall \in Call /\ eCall' = [eCall EXCEPT !.todo = eCall'.todo]
      BY <1>1, CommandOfCall DEF EnfTypes
    <2> QED
      BY <2>1, WhichCommand DEF Call
  <1>3. ASSUME Healthy' PROVE OnCourse'
    <2>1. Healthy /\ OnCourse
      BY <1>2, <1>3 DEF Healthy, EnfInv
    <2>2. eCall.set \in SUBSET Targets
      BY <1>1 DEF EnfTypes, Call
    <2>3. ASSUME ePlatform \in {"iptables", "dns-iptables"}, eCall.op = "install"
          PROVE  Installing(eCall.todo, Appended(ePlatform, eCall.set))'
      <3>1. PICK B \in SUBSET Targets : B = Appended(ePlatform, eCall.set)
        BY <2>2, BlockableTargets
      <3>2. Installing(eCall.todo, B)
        BY <2>1, <2>3, <3>1 DEF OnCourse
      <3>3. Installing(eCall.todo, B)'
        BY <1>1, <3>2, InstallStep
      <3>4. Appended(ePlatform', eCall'.set) = B
        BY <1>2, <3>1
      <3> QED
        BY <3>3, <3>4
    <2>4. ePlatform \in {"iptables", "dns-iptables"} /\ eCall.op = "remove" => Removing(eCall.todo)'
      BY <1>1, <2>1, RemoveStep DEF OnCourse
    <2>6. ASSUME ePlatform \in {"iptables", "dns-iptables"}, eCall.op = "add"
          PROVE  Adding(eCall.todo, eCall.set)'
      <3>1. PICK x \in Targets : eCall.set = {x} /\ AddingOne(eCall.todo, x)
        BY <2>1, <2>6 DEF OnCourse, Adding
      <3>2. AddingOne(eCall.todo, x)'
        BY <1>1, <3>1, AddStep
      <3> QED
        BY <1>2, <3>1, <3>2 DEF Adding
    <2>5. ASSUME ePlatform = "hosts"
          PROVE  Rewriting(eCall.todo, IF eCall.op = "install" THEN eCall.set ELSE {})'
      <3>1. PICK S : S = IF eCall.op = "install" THEN eCall.set ELSE {}
        OBVIOUS
      <3>2. Rewriting(eCall.todo, S)
        BY <2>1, <2>5, <3>1 DEF OnCourse
      <3>3. Rewriting(eCall.todo, S)'
        BY <1>1, <3>2, RewriteStep
      <3>4. (IF eCall'.op = "install" THEN eCall'.set ELSE {}) = S
        BY <1>2, <3>1
      <3> QED
        BY <3>3, <3>4
    <2> QED
      BY <1>2, <2>3, <2>4, <2>5, <2>6 DEF OnCourse
  <1> QED
    BY <1>1, <1>2, <1>3 DEF EnfInv

LEMMA CallStep ==
  ASSUME EnfInv, NEW plat \in Platforms, NEW op \in {"install", "remove", "add", "drop"},
         NEW S \in SUBSET Targets, CallEnforcer(plat, op, S)
  PROVE  EnfInv'
  <1> DEFINE todo == Commands(plat, op, S)
  <1>1. EnfTypes
    BY DEF EnfInv
  <1>2. todo \in Seq(Plain) /\ todo \in Seq(Command)
    BY <1>1, CommandsType, PlainCommands
  <1> HIDE DEF todo
  <1>3. /\ ePlatform' = plat /\ UNCHANGED <<sysVars, eDoubled>>
        /\ eCall' = [op |-> op, set |-> S, todo |-> todo, state |-> "running", clean |-> TRUE,
                     early |-> plat = "hosts" /\ todo = <<>>, kept |-> eHosts.user]
        /\ eBlocked' = IF plat = "hosts" THEN S ELSE eBlocked
        /\ (op = "remove" => S = {})
        /\ (op \in {"add", "drop"} => plat = "dns-iptables" /\ \E t \in Targets : S = {t})
    BY DEF CallEnforcer, todo
  <1>4. (plat = "hosts" /\ todo = <<>>) \in BOOLEAN
    BY Zenon
  <1>5. EnfTypes'
    <2>1. System'
      BY <1>1, <1>3 DEF EnfTypes, System, sysVars
    <2>2. eCall' \in Call
      BY <1>1, <1>2, <1>3, <1>4 DEF Call, EnfTypes, System
    <2>3. eBlocked' \in SUBSET Targets
      BY <1>1, <1>3 DEF EnfTypes
    <2> QED
      BY <1>1, <1>3, <2>1, <2>2, <2>3 DEF EnfTypes
  <1>10. Jumps'
    <2>1. eCall'.todo = todo /\ eHooks' = eHooks /\ eDoubled' = eDoubled
      BY <1>3 DEF sysVars
    <2> QED
      BY <1>2, <2>1, PlainCommands DEF EnfInv, Jumps
  <1>6. CASE plat \in {"iptables", "dns-iptables"} /\ op = "install"
    <2>1. todo = EnsureChain \o <<Cmd("flush")>> \o Each("append", Appended(plat, S))
      BY <1>6 DEF todo, Commands
    <2>2. OnCourse'
      <3>1. eCall'.todo = todo /\ Appended(plat, eCall'.set) = Appended(plat, S) /\ eCall'.op = "install"
        BY <1>3, <1>6
      <3>2. BeforeChain(todo, Appended(plat, S))
        BY <2>1, BlockableTargets, InstallCommands
      <3>3. BeforeChain(eCall.todo, Appended(ePlatform, eCall.set))'
        BY <1>3, <3>1, <3>2 DEF BeforeChain
      <3> QED
        BY <1>3, <1>6, <3>1, <3>3 DEF OnCourse, Installing
    <2> QED
      BY <1>3, <1>5, <1>10, <2>2 DEF EnfInv
  <1>7. CASE plat \in {"iptables", "dns-iptables"} /\ op # "install"
    <2>1. op = "remove" => todo = <<Cmd("unhook"), Cmd("delete-chain")>>
      BY <1>7 DEF todo, Commands
    <2>3. ASSUME op = "add" PROVE Adding(todo, S)
      <3>1. PICK x \in Targets : S = {x}
        BY <1>3, <2>3
      <3>2. plat = "dns-iptables"
        BY <1>3, <2>3
      <3>3. todo = EnsureChain \o Each("append", S)
        BY <2>3, <3>2 DEF todo, Commands
      <3>4. todo = <<Cmd("new-chain"), Cmd("check-hook"), Append1(x)>>
        BY <3>1, <3>3, AddCommands
      <3> QED
        BY <3>1, <3>4 DEF Adding, AddingOne
    <2>4. op = "add" => Adding(eCall.todo, eCall.set)'
      BY <1>3, <2>3 DEF Adding, AddingOne, sysVars
    <2>2. OnCourse'
      BY <1>3, <1>7, <2>1, <2>4 DEF OnCourse, Removing
    <2> QED
      BY <1>3, <1>5, <1>10, <2>2 DEF EnfInv
  <1>8. CASE plat = "hosts"
    <2>1. \/ todo = <<Cmd("truncate"), CmdOn("fill", IF op = "install" THEN S ELSE {})>>
          \/ todo = <<>>
      BY <1>8 DEF todo, Commands
    <2>2. Healthy' => OnCourse'
      BY <1>3, <1>8, <2>1 DEF Healthy, OnCourse, Rewriting
    <2> QED
      BY <1>3, <1>5, <1>10, <2>2 DEF EnfInv
  <1>9. CASE plat \notin {"iptables", "dns-iptables", "hosts"}
    BY <1>3, <1>5, <1>9, <1>10 DEF EnfInv, OnCourse
  <1> QED
    BY <1>6, <1>7, <1>8, <1>9

LEMMA OtherStep ==
  ASSUME EnfInv, EndCall \/ Refused \/ Stopped PROVE EnfInv'
  <1>1. EnfTypes /\ eCall \in Call /\ eCall.todo \in Seq(Command) /\ eCall.state = "running"
    BY DEF EnfInv, EnfTypes, Call, EndCall, Refused, Stopped
  <1>2. CASE EndCall
    <2>1. /\ eCall' = [eCall EXCEPT !.state = "done"] /\ eCall.todo = <<>>
          /\ UNCHANGED <<ePlatform, sysVars, eDoubled, eBlocked>>
      BY <1>2 DEF EndCall
    <2>2. /\ eCall' \in Call /\ eCall'.todo = eCall.todo /\ eCall'.op = eCall.op
          /\ eCall'.set = eCall.set /\ eCall'.clean = eCall.clean /\ eCall'.early = eCall.early
      BY <1>1, <2>1 DEF Call
    <2>3. EnfTypes'
      BY <1>1, <2>1, <2>2 DEF EnfTypes, System, sysVars
    <2>4. Healthy' => Healthy /\ OnCourse
      BY <1>1, <2>2 DEF EnfInv, Healthy
    <2>6. Jumps'
      BY <2>1, <2>2 DEF EnfInv, Jumps, sysVars
    <2>5. OnCourse => OnCourse'
      BY <2>1, <2>2 DEF OnCourse, Adding, AddingOne, Installing, BeforeChain, BeforeCheck, BeforeHook, BeforeFlush,
                        Filling, Removing, Rewriting, sysVars
    <2> QED
      BY <2>1, <2>2, <2>3, <2>4, <2>5, <2>6 DEF EnfInv
  <1>3. CASE Refused
    <2> DEFINE more == (IF Running("check-hook") THEN <<Cmd("hook")>> ELSE <<>>) \o Tail(eCall.todo)
    <2>1. eCall' = [eCall EXCEPT !.todo = more, !.clean = FALSE] /\ eCall.todo # <<>>
      BY <1>3 DEF Refused
    <2>2. Tail(eCall.todo) \in Seq(Command) /\ <<Cmd("hook")>> \in Seq(Command)
      BY <1>1, <2>1, CommandType DEF CommandNames
    <2>3. more \in Seq(Command)
      BY <2>2
    <2> HIDE DEF more
    <2>4. eCall' \in Call /\ eCall'.clean = FALSE /\ eCall'.state = "running" /\ eCall'.op = eCall.op
      BY <1>1, <2>1, <2>3 DEF Call
    <2>5. /\ UNCHANGED <<ePlatform, sysVars, eBlocked>>
          /\ eDoubled' = (eDoubled \/ (Running("check-hook") /\ eHooks > 0))
      BY <1>3 DEF Refused
    <2>6. EnfTypes'
      <3>1. eDoubled' \in BOOLEAN
        BY <2>5, Zenon
      <3> QED
        BY <1>1, <2>4, <2>5, <3>1 DEF EnfTypes, System, sysVars
    <2>7. Jumps'
      <3>1. eCall'.todo = more /\ eHooks' = eHooks
        BY <1>1, <2>1, <2>5 DEF Call, sysVars
      <3>2. Tail(eCall.todo) \in Seq(Plain)
        BY <2>1 DEF EnfInv, Jumps
      <3>3. CASE Running("check-hook")
        <4>1. more = <<Cmd("hook")>> \o Tail(eCall.todo)
          BY <3>3 DEF more
        <4>2. Tail(more) = Tail(eCall.todo)
          BY <2>2, <4>1
        <4>3. ~eDoubled' => ~eDoubled /\ eHooks = 0
          <5>1. ~eDoubled' => ~eDoubled /\ ~(eHooks > 0)
            BY <2>5, <3>3, Zenon
          <5> QED
            BY <1>1, <5>1 DEF EnfTypes, System
        <4> QED
          BY <3>1, <3>2, <4>2, <4>3 DEF EnfInv, Jumps
      <3>4. CASE ~Running("check-hook")
        <4>1. more = Tail(eCall.todo)
          <5>1. more = <<>> \o Tail(eCall.todo)
            BY <3>4 DEF more
          <5> QED
            BY <2>2, <5>1
        <4>2. ~eDoubled' => ~eDoubled
          BY <2>5, <3>4, Zenon
        <4>3. more # <<>> => more[1].do # "hook" /\ Tail(more) \in Seq(Plain)
          BY <3>2, <4>1, PlainCommands
        <4> QED
          BY <3>1, <4>2, <4>3 DEF EnfInv, Jumps
      <3> QED
        BY <3>3, <3>4
    <2> QED
      BY <2>4, <2>5, <2>6, <2>7 DEF EnfInv, Healthy
  <1>4. CASE Stopped
    <2>1. PICK st \in {"failed", "killed"} : eCall' = [eCall EXCEPT !.state = st, !.todo = <<>>]
      BY <1>4 DEF Stopped
    <2>2. eCall' \in Call /\ eCall'.state \in {"failed", "killed"}
      <3>1. eCall' = [eCall EXCEPT !.state = st, !.todo = <<>>] /\ <<>> \in Seq(Command)
        BY <2>1
      <3> QED
        BY <1>1, <3>1 DEF Call
    <2>3. eBlocked' \in {eBlocked, {}} /\ UNCHANGED <<ePlatform, sysVars, eDoubled>>
      BY <1>4 DEF Stopped
    <2>4. EnfTypes'
      BY <1>1, <2>2, <2>3 DEF EnfTypes, System, sysVars
    <2>5. eCall'.todo = <<>> /\ eCall'.op = eCall.op
      BY <1>1, <2>1 DEF Call
    <2>6. Jumps'
      BY <2>3, <2>5 DEF EnfInv, Jumps, sysVars
    <2> QED
      BY <2>2, <2>3, <2>4, <2>5, <2>6 DEF EnfInv, Healthy
  <1> QED
    BY <1>2, <1>3, <1>4

LEMMA EnfInitInv == EnfInit => EnfInv
  <1> SUFFICES ASSUME EnfInit PROVE EnfInv
    OBVIOUS
  <1>1. eCall \in Call
    BY DEF EnfInit, Idle, Call
  <1>2. System
    BY DEF EnfInit, System, NoRules
  <1>3. EnfTypes
    BY <1>1, <1>2 DEF EnfInit, EnfTypes
  <1>4. eCall.op = "none" /\ eCall.todo = <<>> /\ ePlatform = "none"
    BY DEF EnfInit, Idle
  <1>5. Jumps
    BY <1>4 DEF EnfInit, Jumps
  <1> QED
    BY <1>3, <1>4, <1>5 DEF EnfInv, OnCourse

LEMMA EnfStep == EnfInv /\ (EnfNext \/ UNCHANGED enfVars) => EnfInv'
  <1> SUFFICES ASSUME EnfInv, EnfNext \/ UNCHANGED enfVars PROVE EnfInv'
    OBVIOUS
  <1>1. CASE UNCHANGED enfVars
    BY <1>1 DEF enfVars, EnfInv, EnfTypes, Jumps, System, Healthy, OnCourse, Adding, AddingOne, Installing, BeforeChain,
                BeforeCheck, BeforeHook, BeforeFlush, Filling, Removing, Rewriting
  <1>2. CASE EnfNext
    <2>1. \/ RunsCommand \/ EndCall \/ Refused \/ Stopped
          \/ \E plat \in Platforms, op \in {"install", "remove", "add", "drop"},
                S \in SUBSET Targets : CallEnforcer(plat, op, S)
      BY <1>2 DEF EnfNext, RunsCommand, Fault
    <2> QED
      BY <2>1, CommandStep, OtherStep, CallStep
  <1> QED
    BY <1>1, <1>2

LEMMA EnfInvKeepsWord == EnfInv => EnforcerKeepsItsWord /\ EnfTypeOK
  <1> SUFFICES ASSUME EnfInv PROVE EnforcerKeepsItsWord /\ EnfTypeOK
    OBVIOUS
  <1>1. EnfTypeOK
    BY DEF EnfInv, EnfTypes, System, EnfTypeOK, Call
  <1>2. ASSUME Completed("install")
        PROVE  Dropped = IF ePlatform = "hosts" THEN eCall.set ELSE Appended(ePlatform, eCall.set)
    <2>1. eCall.todo = <<>> /\ OnCourse /\ eCall.op = "install"
      BY <1>2 DEF EnfInv, Completed, Healthy
    <2>2. CASE ePlatform = "hosts"
      <3>1. Rewriting(<<>>, eCall.set)
        BY <2>1, <2>2 DEF OnCourse
      <3>2. eHosts.section = eCall.set
        BY <3>1 DEF Rewriting
      <3> QED
        BY <2>2, <3>2 DEF Dropped
    <2>3. CASE ePlatform \in {"iptables", "dns-iptables"}
      <3>1. Installing(<<>>, Appended(ePlatform, eCall.set)) /\ Appended(ePlatform, eCall.set) \in SUBSET Targets
        BY <2>1, <2>3, BlockableTargets DEF OnCourse, EnfInv, EnfTypes, Call
      <3>2. Filling(<<>>, Appended(ePlatform, eCall.set))
        BY <3>1 DEF Installing, BeforeChain, BeforeCheck, BeforeHook, BeforeFlush, Appends, OnlyAppends
      <3>3. /\ eHooks > 0
            /\ \A t \in Targets : IF t \in Appended(ePlatform, eCall.set) THEN eChain.rules[t] > 0
                                  ELSE eChain.rules[t] = 0
        BY <3>2 DEF Filling, Ahead
      <3>4. Dropped = {t \in Targets : eChain.rules[t] > 0}
        BY <2>3, <3>3 DEF Dropped, EnfInv, EnfTypes, System
      <3> QED
        BY <2>3, <3>1, <3>3, <3>4
    <2> QED
      BY <1>2, <2>2, <2>3 DEF Completed
  <1>3. ASSUME Completed("remove") PROVE Dropped = {} \/ eDoubled
    <2>1. eCall.todo = <<>> /\ OnCourse /\ eCall.op = "remove"
      BY <1>3 DEF EnfInv, Completed, Healthy
    <2>2. CASE ePlatform = "hosts"
      <3>1. Rewriting(<<>>, {})
        BY <2>1, <2>2 DEF OnCourse
      <3> QED
        BY <2>2, <3>1 DEF Rewriting, Dropped
    <2>3. CASE ePlatform \in {"iptables", "dns-iptables"}
      <3>1. Removing(<<>>)
        BY <2>1, <2>3 DEF OnCourse
      <3>2. eHooks = 0 \/ eDoubled
        BY <3>1 DEF Removing
      <3> QED
        BY <2>3, <3>2 DEF Dropped
    <2> QED
      BY <1>3, <2>2, <2>3 DEF Completed
  <1>4. ASSUME Completed("add") PROVE eCall.set \subseteq Dropped
    <2>1. eCall.todo = <<>> /\ OnCourse /\ eCall.op = "add"
      BY <1>4 DEF EnfInv, Completed, Healthy
    <2>2. ePlatform # "hosts"
      BY <2>1 DEF EnfInv
    <2>3. PICK x \in Targets : eCall.set = {x} /\ AddingOne(<<>>, x)
      BY <1>4, <2>1, <2>2 DEF OnCourse, Adding, Completed
    <2>4. eHooks > 0 /\ eChain.rules[x] > 0
      BY <2>3 DEF AddingOne
    <2> QED
      BY <2>2, <2>3, <2>4 DEF Dropped
  <1> QED
    BY <1>1, <1>2, <1>3, <1>4 DEF EnforcerKeepsItsWord

(* Whatever earlier calls left behind that were refused, failed or were    *)
(* killed, a complete install or remove leaves exactly what it promises,   *)
(* for any set of targets.                                                 *)
THEOREM EnforcerKeepsItsWordHolds == Spec => []EnforcerKeepsItsWord
  <1>1. GuardsInit => EnfInv
    BY EnfInitInv DEF GuardsInit
  <1>2. EnfInv /\ [GuardsNext]_guardVars => EnfInv'
    BY StepOfComponent, EnfStep
  <1> QED
    BY <1>1, <1>2, EnfInvKeepsWord, PTL DEF Spec
-----------------------------------------------------------------------------
(* Windows.                                                                *)

\* f[i] is what of the first i ages is within the window.
Kept(ages, n, f) ==
  f = [i \in 0..n |-> IF i = 0 THEN <<>>
                      ELSE IF ages[i] <= Window THEN Append(f[i - 1], ages[i]) ELSE f[i - 1]]

\* The recursive function of Within exists and is the only one.
LEMMA KeptExists ==
  ASSUME NEW ages, NEW n \in Nat
  PROVE  \E f : Kept(ages, n, f)
  <1> DEFINE T == {m \in Nat : \E f : Kept(ages, m, f)}
  <1>1. 0 \in T
    <2>1. Kept(ages, 0, [i \in 0..0 |-> <<>>])
      BY DEF Kept
    <2> QED
      BY <2>1
  <1>2. ASSUME NEW m \in Nat, m \in T PROVE m + 1 \in T
    <2>1. PICK f : Kept(ages, m, f)
      BY <1>2
    <2> DEFINE step(h, i) == IF i = 0 THEN <<>>
                 ELSE IF ages[i] <= Window THEN Append(h[i - 1], ages[i]) ELSE h[i - 1]
               g == [i \in 0..(m + 1) |-> step(f, i)]
    <2>2. \A i \in 0..m : f[i] = step(f, i)
      BY <2>1 DEF Kept
    <2>3. \A i \in 0..m : g[i] = f[i]
      BY <2>2
    <2>4. \A i \in 0..(m + 1) : i # 0 => g[i - 1] = f[i - 1]
      <3> SUFFICES ASSUME NEW i \in 0..(m + 1), i # 0 PROVE g[i - 1] = f[i - 1]
        OBVIOUS
      <3>1. i - 1 \in 0..m
        BY <1>2
      <3> HIDE DEF g
      <3> QED
        BY <2>3, <3>1
    <2>5. g = [i \in 0..(m + 1) |-> step(g, i)]
      BY <2>4
    <2> HIDE DEF g
    <2>6. Kept(ages, m + 1, g)
      BY <2>5 DEF Kept
    <2> QED
      BY <2>6
  <1> HIDE DEF T
  <1>3. n \in T
    BY <1>1, <1>2, Inductive
  <1> QED
    BY <1>3 DEF T

LEMMA WithinIsKept ==
  ASSUME NEW ages \in Seq(Nat)
  PROVE  \E f : Kept(ages, Len(ages), f) /\ Within(ages) = f[Len(ages)]
  <1> DEFINE f == CHOOSE f : Kept(ages, Len(ages), f)
  <1>1. Kept(ages, Len(ages), f)
    BY KeptExists
  <1>2. Within(ages) = f[Len(ages)]
    BY DEF Within, Kept
  <1> QED
    BY <1>1, <1>2

\* Two such functions agree as far as their ages do.
LEMMA KeptAgree ==
  ASSUME NEW s, NEW r, NEW n \in Nat, NEW k \in Nat, n <= k, NEW f, NEW g,
         Kept(s, n, f), Kept(r, k, g), \A i \in 1..n : s[i] = r[i]
  PROVE  f[n] = g[n]
  <1> DEFINE T == {m \in Nat : m <= n => f[m] = g[m]}
  <1>1. f[0] = <<>> /\ g[0] = <<>>
    BY DEF Kept
  <1>2. ASSUME NEW m \in Nat, m + 1 <= n
        PROVE  /\ f[m + 1] = IF s[m + 1] <= Window THEN Append(f[m], s[m + 1]) ELSE f[m]
               /\ g[m + 1] = IF r[m + 1] <= Window THEN Append(g[m], r[m + 1]) ELSE g[m]
               /\ s[m + 1] = r[m + 1]
    <2>1. m + 1 \in 0..n /\ m + 1 \in 0..k /\ m + 1 # 0 /\ (m + 1) - 1 = m /\ m + 1 \in 1..n
      BY <1>2
    <2>2. f[m + 1] = IF s[m + 1] <= Window THEN Append(f[(m + 1) - 1], s[m + 1]) ELSE f[(m + 1) - 1]
      BY <2>1 DEF Kept
    <2>3. g[m + 1] = IF r[m + 1] <= Window THEN Append(g[(m + 1) - 1], r[m + 1]) ELSE g[(m + 1) - 1]
      BY <2>1 DEF Kept
    <2> QED
      BY <2>1, <2>2, <2>3
  <1>3. 0 \in T
    BY <1>1
  <1>4. ASSUME NEW m \in Nat, m \in T PROVE m + 1 \in T
    BY <1>2, <1>4
  <1> HIDE DEF T
  <1>5. Nat \subseteq T
    BY <1>3, <1>4, Inductive
  <1> QED
    BY <1>5 DEF T

\* What Within computes, record by record.
LEMMA WithinOf ==
  /\ Within(<<>>) = <<>>
  /\ \A s \in Seq(Nat), x \in Nat :
       Within(Append(s, x)) = IF x <= Window THEN Append(Within(s), x) ELSE Within(s)
  <1>1. Within(<<>>) = <<>>
    <2>1. <<>> \in Seq(Nat) /\ Len(<<>>) = 0
      OBVIOUS
    <2>2. PICK f : Kept(<<>>, Len(<<>>), f) /\ Within(<<>>) = f[Len(<<>>)]
      BY <2>1, WithinIsKept
    <2>3. Kept(<<>>, 0, f) /\ Within(<<>>) = f[0]
      BY <2>1, <2>2
    <2> QED
      BY <2>3 DEF Kept
  <1>2. ASSUME NEW s \in Seq(Nat), NEW x \in Nat
        PROVE  Within(Append(s, x)) = IF x <= Window THEN Append(Within(s), x) ELSE Within(s)
    <2> DEFINE r == Append(s, x)
               n == Len(s)
    <2>1. r \in Seq(Nat) /\ Len(r) = n + 1 /\ n \in Nat /\ r[n + 1] = x
          /\ \A i \in 1..n : s[i] = r[i]
      OBVIOUS
    <2> HIDE DEF r, n
    <2>2. PICK f : Kept(s, n, f) /\ Within(s) = f[n]
      BY WithinIsKept DEF n
    <2>3. PICK g : Kept(r, n + 1, g) /\ Within(r) = g[n + 1]
      BY <2>1, WithinIsKept
    <2>4. f[n] = g[n]
      BY <2>1, <2>2, <2>3, KeptAgree
    <2>5. g[n + 1] = IF r[n + 1] <= Window THEN Append(g[n], r[n + 1]) ELSE g[n]
      <3>1. n + 1 \in 0..(n + 1) /\ n + 1 # 0 /\ (n + 1) - 1 = n
        BY <2>1
      <3>2. g[n + 1] = IF r[n + 1] <= Window THEN Append(g[(n + 1) - 1], r[n + 1]) ELSE g[(n + 1) - 1]
        BY <2>3, <3>1 DEF Kept
      <3> QED
        BY <3>1, <3>2
    <2> QED
      BY <2>1, <2>2, <2>3, <2>4, <2>5 DEF r
  <1> QED
    BY <1>1, <1>2

\* Nothing is counted twice.
LEMMA WithinFits ==
  ASSUME NEW s \in Seq(Nat)
  PROVE  Within(s) \in Seq(0..Window) /\ Len(Within(s)) <= Len(s)
  <1> DEFINE T == {r \in Seq(Nat) : Within(r) \in Seq(0..Window) /\ Len(Within(r)) <= Len(r)}
  <1>1. <<>> \in T
    <2>1. PICK e : e = <<>>
      OBVIOUS
    <2>2. e \in Seq(Nat) /\ e \in Seq(0..Window) /\ Len(e) = 0
      BY <2>1
    <2>3. Within(e) = e
      BY <2>1, WithinOf, Zenon
    <2>4. Within(e) \in Seq(0..Window) /\ Len(Within(e)) = 0
      BY <2>2, <2>3, Zenon
    <2>5. e \in T
      BY <2>2, <2>4
    <2> QED
      BY <2>1, <2>5
  <1>2. ASSUME NEW r \in Seq(Nat), NEW x \in Nat, r \in T PROVE Append(r, x) \in T
    <2>1. Append(r, x) \in Seq(Nat) /\ Len(Append(r, x)) = Len(r) + 1 /\ Len(r) \in Nat
      OBVIOUS
    <2>2. Within(Append(r, x)) = IF x <= Window THEN Append(Within(r), x) ELSE Within(r)
      BY WithinOf
    <2>3. Within(r) \in Seq(0..Window) /\ Len(Within(r)) <= Len(r)
      BY <1>2
    <2>4. x <= Window => x \in 0..Window
      BY RansomAssumption
    <2>5. Within(Append(r, x)) \in Seq(0..Window) /\ Len(Within(Append(r, x))) <= Len(r) + 1
      <3>1. CASE x <= Window
        <4> DEFINE w == Within(r)
        <4>1. w \in Seq(0..Window) /\ x \in 0..Window /\ Len(w) <= Len(r)
          BY <2>3, <2>4, <3>1
        <4>2. Within(Append(r, x)) = Append(w, x)
          BY <2>2, <3>1
        <4> HIDE DEF w
        <4>3. Append(w, x) \in Seq(0..Window) /\ Len(Append(w, x)) <= Len(r) + 1
          BY <2>1, <4>1
        <4> QED
          BY <4>2, <4>3
      <3>2. CASE ~(x <= Window)
        BY <2>1, <2>2, <2>3, <3>2
      <3> QED
        BY <3>1, <3>2
    <2> QED
      BY <2>1, <2>5
  <1> HIDE DEF T
  <1>3. Seq(Nat) \subseteq T
    BY <1>1, <1>2, SeqInductive
  <1> QED
    BY <1>3 DEF T

LEMMA OlderOf ==
  /\ OneOlder(<<>>) = <<>>
  /\ \A s \in Seq(Nat) : OneOlder(s) \in Seq(Nat) /\ Len(OneOlder(s)) = Len(s)
  /\ \A s \in Seq(Nat), x \in Nat : OneOlder(Append(s, x)) = Append(OneOlder(s), x + 1)
  <1>1. OneOlder(<<>>) = <<>>
    BY DEF OneOlder
  <1>2. ASSUME NEW s \in Seq(Nat)
        PROVE  /\ OneOlder(s) \in Seq(Nat) /\ Len(OneOlder(s)) = Len(s)
               /\ \A i \in 1..Len(s) : OneOlder(s)[i] = s[i] + 1
    BY DEF OneOlder
  <1>3. ASSUME NEW s \in Seq(Nat), NEW x \in Nat
        PROVE  OneOlder(Append(s, x)) = Append(OneOlder(s), x + 1)
    <2>1. Append(s, x) \in Seq(Nat)
      OBVIOUS
    <2>2. /\ OneOlder(Append(s, x)) \in Seq(Nat) /\ Len(OneOlder(Append(s, x))) = Len(s) + 1
          /\ \A i \in 1..(Len(s) + 1) : OneOlder(Append(s, x))[i] = Append(s, x)[i] + 1
      <3>1. Len(Append(s, x)) = Len(s) + 1
        OBVIOUS
      <3> QED
        BY <1>2, <2>1, <3>1
    <2>3. /\ Append(OneOlder(s), x + 1) \in Seq(Nat) /\ Len(Append(OneOlder(s), x + 1)) = Len(s) + 1
          /\ \A i \in 1..(Len(s) + 1) :
               Append(OneOlder(s), x + 1)[i] = IF i = Len(s) + 1 THEN x + 1 ELSE s[i] + 1
      BY <1>2
    <2>4. \A i \in 1..(Len(s) + 1) : Append(s, x)[i] = IF i = Len(s) + 1 THEN x ELSE s[i]
      OBVIOUS
    <2>5. \A i \in 1..(Len(s) + 1) : OneOlder(Append(s, x))[i] = Append(OneOlder(s), x + 1)[i]
      BY <2>2, <2>3, <2>4
    <2> QED
      BY <2>2, <2>3, <2>5, SeqEqual
  <1> QED
    BY <1>1, <1>2, <1>3

\* What has left the window does not come back.
LEMMA WithinOlder ==
  ASSUME NEW s \in Seq(Nat)
  PROVE  Within(OneOlder(Within(s))) = Within(OneOlder(s))
  <1> DEFINE T == {r \in Seq(Nat) : Within(OneOlder(Within(r))) = Within(OneOlder(r))}
  <1>1. <<>> \in T
    BY WithinOf, OlderOf
  <1>2. ASSUME NEW r \in Seq(Nat), NEW x \in Nat, r \in T PROVE Append(r, x) \in T
    <2>1. Append(r, x) \in Seq(Nat) /\ OneOlder(r) \in Seq(Nat) /\ x + 1 \in Nat
      BY OlderOf
    <2>2. Within(r) \in Seq(Nat)
      <3>1. Within(r) \in Seq(0..Window) /\ 0..Window \subseteq Nat
        BY WithinFits
      <3> QED
        BY <3>1, SeqMonotonic
    <2>3. OneOlder(Within(r)) \in Seq(Nat)
      BY <2>2, OlderOf
    <2>4. OneOlder(Append(r, x)) = Append(OneOlder(r), x + 1)
      BY OlderOf
    <2>5. Within(OneOlder(Append(r, x)))
            = IF x + 1 <= Window THEN Append(Within(OneOlder(r)), x + 1) ELSE Within(OneOlder(r))
      BY <2>1, <2>4, WithinOf
    <2>6. CASE x <= Window
      <3>1. Within(Append(r, x)) = Append(Within(r), x)
        BY <2>6, WithinOf
      <3>2. OneOlder(Append(Within(r), x)) = Append(OneOlder(Within(r)), x + 1)
        BY <2>2, OlderOf
      <3>3. Within(Append(OneOlder(Within(r)), x + 1))
              = IF x + 1 <= Window THEN Append(Within(OneOlder(Within(r))), x + 1)
                ELSE Within(OneOlder(Within(r)))
        BY <2>1, <2>3, WithinOf
      <3> QED
        BY <1>2, <2>1, <2>5, <3>1, <3>2, <3>3
    <2>7. CASE ~(x <= Window)
      <3>1. Within(Append(r, x)) = Within(r) /\ ~(x + 1 <= Window)
        BY <2>7, WithinOf, RansomAssumption
      <3> QED
        BY <1>2, <2>1, <2>5, <3>1
    <2> QED
      BY <2>6, <2>7
  <1> HIDE DEF T
  <1>3. Seq(Nat) \subseteq T
    BY <1>1, <1>2, SeqInductive
  <1> QED
    BY <1>3 DEF T

\* A suffix of ages has the elements at its positions.
LEMMA SuffixOfAges ==
  ASSUME NEW s \in Seq(Nat), NEW n \in Nat, n = Len(s), NEW m \in 1..(n + 1)
  PROVE  /\ SubSeq(s, m, n) \in Seq(Nat)
         /\ Len(SubSeq(s, m, n)) = n - m + 1
         /\ \A i \in 1..(n - m + 1) : SubSeq(s, m, n)[i] = s[m + i - 1]
  <1>1. n \in Int /\ m \in Int /\ n - m + 1 = IF m <= n THEN n - m + 1 ELSE 0
    OBVIOUS
  <1>2. \A i \in m..n : s[i] \in Nat
    OBVIOUS
  <1>3. /\ SubSeq(s, m, n) \in Seq(Nat)
        /\ Len(SubSeq(s, m, n)) = IF m <= n THEN n - m + 1 ELSE 0
        /\ \A i \in 1..(n - m + 1) : SubSeq(s, m, n)[i] = s[m + i - 1]
    BY <1>1, <1>2, SubSeqProperties
  <1> QED
    BY <1>1, <1>3

\* A suffix of ages and one more: the suffix of them all.
LEMMA SuffixOfAppend ==
  ASSUME NEW r \in Seq(Nat), NEW x \in Nat, NEW k \in 1..(Len(r) + 1)
  PROVE  SubSeq(Append(r, x), k, Len(Append(r, x))) = Append(SubSeq(r, k, Len(r)), x)
  <1> DEFINE a == Append(r, x)
             n == Len(r)
             l == Len(a)
             p == SubSeq(r, k, n)
             q == SubSeq(a, k, l)
  <1>1. /\ a \in Seq(Nat) /\ l = n + 1 /\ n \in Nat /\ l \in Nat /\ a[l] = x
        /\ \A i \in 1..n : a[i] = r[i]
    OBVIOUS
  <1>2. r \in Seq(Nat) /\ n = Len(r) /\ l = Len(a)
    OBVIOUS
  <1> HIDE DEF a, n, l
  <1>3. k \in 1..(n + 1) /\ k \in 1..(l + 1)
    BY <1>1, <1>2
  <1>4. p \in Seq(Nat) /\ Len(p) = n - k + 1 /\ \A i \in 1..(n - k + 1) : p[i] = r[k + i - 1]
    BY <1>1, <1>2, <1>3, SuffixOfAges
  <1>5. q \in Seq(Nat) /\ Len(q) = l - k + 1 /\ \A i \in 1..(l - k + 1) : q[i] = a[k + i - 1]
    BY <1>1, <1>2, <1>3, SuffixOfAges
  <1> HIDE DEF p, q
  <1>6. \A i \in 1..(n - k + 1) : q[i] = p[i]
    <2> SUFFICES ASSUME NEW i \in 1..(n - k + 1) PROVE q[i] = p[i]
      OBVIOUS
    <2>1. i \in 1..(l - k + 1) /\ k + i - 1 \in 1..n
      BY <1>1, <1>3
    <2> QED
      BY <1>1, <1>4, <1>5, <2>1
  <1>7. q[l - k + 1] = x
    <2>1. l - k + 1 \in 1..(l - k + 1) /\ k + (l - k + 1) - 1 = l
      BY <1>1, <1>3
    <2> QED
      BY <1>1, <1>5, <2>1
  <1> DEFINE j == n - k + 1
  <1>8. /\ j \in Nat /\ l - k + 1 = j + 1 /\ Len(p) = j /\ Len(q) = j + 1 /\ q[j + 1] = x
        /\ \A i \in 1..j : q[i] = p[i]
    BY <1>1, <1>3, <1>4, <1>5, <1>6, <1>7
  <1> HIDE DEF j
  <1>9. /\ Append(p, x) \in Seq(Nat) /\ Len(Append(p, x)) = j + 1
        /\ Append(p, x)[j + 1] = x /\ \A i \in 1..j : Append(p, x)[i] = p[i]
    BY <1>4, <1>8
  <1>10. \A i \in 1..(j + 1) : q[i] = Append(p, x)[i]
    BY <1>8, <1>9
  <1>11. q = Append(p, x)
    BY <1>5, <1>8, <1>9, <1>10, SeqEqual
  <1> QED
    BY <1>11 DEF p, q, a, n, l

\* Dropping old records from the front drops none of the window.
LEMMA WithinSuffix ==
  ASSUME NEW s \in Seq(Nat), NEW m \in 1..(Len(s) + 1), \A i \in 1..(m - 1) : s[i] > Window
  PROVE  Within(SubSeq(s, m, Len(s))) = Within(s)
  <1> DEFINE Old(r, k) == \A i \in 1..(k - 1) : r[i] > Window
             T == {r \in Seq(Nat) : \A k \in 1..(Len(r) + 1) :
                     Old(r, k) => Within(SubSeq(r, k, Len(r))) = Within(r)}
  <1>1. <<>> \in T
    <2>1. PICK e : e = <<>>
      OBVIOUS
    <2>2. e \in Seq(Nat) /\ Len(e) = 0
      BY <2>1
    <2>3. ASSUME NEW k \in 1..1 PROVE SubSeq(e, k, 0) = e
      BY <2>1, SubSeqEmpty
    <2> HIDE DEF Old
    <2>4. ASSUME NEW k \in 1..(Len(e) + 1)
          PROVE  Within(SubSeq(e, k, Len(e))) = Within(e)
      <3>1. k \in 1..1
        BY <2>2
      <3> QED
        BY <2>2, <2>3, <3>1
    <2>5. e \in T
      BY <2>2, <2>4
    <2> QED
      BY <2>1, <2>5
  <1>2. ASSUME NEW r \in Seq(Nat), NEW x \in Nat, r \in T PROVE Append(r, x) \in T
    <2> DEFINE a == Append(r, x)
               n == Len(r)
               l == Len(a)
    <2>1. a \in Seq(Nat) /\ Len(a) = n + 1 /\ n \in Nat /\ a[n + 1] = x
          /\ \A i \in 1..n : a[i] = r[i]
      OBVIOUS
    <2>2. Within(a) = IF x <= Window THEN Append(Within(r), x) ELSE Within(r)
      BY WithinOf
    <2>0. l = n + 1 /\ l = Len(a)
      OBVIOUS
    <2> HIDE DEF a, n, l
    <2>3. ASSUME NEW k \in 1..(n + 2), Old(a, k)
          PROVE  Within(SubSeq(a, k, l)) = Within(a)
      <3>1. CASE k <= n + 1
        <4>1. k \in 1..(n + 1) /\ Old(r, k)
          BY <2>1, <2>3, <3>1
        <4>2. Within(SubSeq(r, k, n)) = Within(r)
          BY <1>2, <4>1 DEF n
        <4>3. SubSeq(r, k, n) \in Seq(Nat)
          BY <2>1, <4>1, SuffixOfAges DEF n
        <4>4. SubSeq(a, k, l) = Append(SubSeq(r, k, n), x)
          BY <4>1, SuffixOfAppend DEF a, n, l
        <4> QED
          BY <2>2, <4>2, <4>3, <4>4, WithinOf
      <3>2. CASE k = n + 2
        <4>1. SubSeq(a, k, l) = <<>> /\ SubSeq(r, n + 1, n) = <<>>
          BY <2>0, <2>1, <3>2, SubSeqEmpty
        <4>2. ~(x <= Window) /\ Old(r, n + 1)
          BY <2>1, <2>3, <3>2, RansomAssumption
        <4>3. Within(SubSeq(r, n + 1, n)) = Within(r)
          <5>1. n + 1 \in 1..(Len(r) + 1)
            BY <2>1 DEF n
          <5> HIDE DEF Old
          <5> QED
            BY <1>2, <4>2, <5>1 DEF n
        <4> QED
          BY <2>2, <4>1, <4>2, <4>3
      <3> QED
        BY <2>1, <3>1, <3>2
    <2>4. a \in T
      BY <2>0, <2>1, <2>3
    <2> QED
      BY <2>4 DEF a
  <1> HIDE DEF T
  <1>3. Seq(Nat) \subseteq T
    BY <1>1, <1>2, SeqInductive
  <1> QED
    BY <1>3 DEF T

\* The pruning of a record drops only what is older than the window.
LEMMA PrunedKeeps ==
  ASSUME NEW s \in Seq(Nat), NEW own \in Nat
  PROVE  Pruned(s, own) \in Seq(Nat) /\ Within(Pruned(s, own)) = Within(s)
  <1> DEFINE keep == {i \in DOMAIN s : s[i] <= own + Window}
  <1>1. keep \in SUBSET (1..Len(s)) /\ Len(s) \in Nat
    OBVIOUS
  <1>2. CASE keep = {}
    <2>1. Pruned(s, own) = <<>>
      BY <1>2 DEF Pruned
    <2>2. \A i \in 1..Len(s) : s[i] > Window
      BY <1>2, RansomAssumption
    <2>3. Within(SubSeq(s, Len(s) + 1, Len(s))) = Within(s)
      BY <1>1, <2>2, WithinSuffix
    <2>4. SubSeq(s, Len(s) + 1, Len(s)) = <<>>
      BY <1>1, SubSeqEmpty
    <2>5. <<>> \in Seq(Nat)
      OBVIOUS
    <2> QED
      BY <2>1, <2>3, <2>4, <2>5, Zenon
  <1>3. CASE keep # {}
    <2> DEFINE m == Min(keep)
    <2>1. \E y \in keep : \A z \in keep : y <= z
      <3> HIDE DEF keep
      <3>1. keep \in SUBSET Nat
        BY <1>1
      <3> QED
        BY <1>3, <3>1, Least
    <2>2. m \in keep /\ \A z \in keep : m <= z
      <3> HIDE DEF keep
      <3> QED
        BY <2>1 DEF Min
    <2>3. Pruned(s, own) = SubSeq(s, m, Len(s))
      BY <1>3 DEF Pruned
    <2> HIDE DEF m
    <2>4. m \in 1..Len(s)
      BY <1>1, <2>2
    <2>5. \A i \in 1..(m - 1) : s[i] > Window
      <3> SUFFICES ASSUME NEW i \in 1..(m - 1) PROVE s[i] > Window
        OBVIOUS
      <3>1. i \in 1..Len(s) /\ i \notin keep /\ s[i] \in Nat
        BY <1>1, <2>2, <2>4
      <3> QED
        BY <3>1, RansomAssumption
    <2> HIDE DEF keep
    <2>6. Within(SubSeq(s, m, Len(s))) = Within(s)
      BY <1>1, <2>4, <2>5, WithinSuffix
    <2>7. SubSeq(s, m, Len(s)) \in Seq(Nat)
      BY <1>1, <2>4, SubSeqProperties
    <2> QED
      BY <2>3, <2>6, <2>7
  <1> QED
    BY <1>2, <1>3

-----------------------------------------------------------------------------
(* Ransomware detection.                                                   *)

Calls == [pc : {"idle", "stamped", "entropy", "event"}, age : Nat]
RansomTypes ==
  /\ rKind \in Detectors /\ rEntropy \in {LowEntropy, HighEntropy}
  /\ rBaseline \in {0, HighEntropy} /\ rEvents \in 0..MaxEvents
  /\ rDeque \in Seq(Nat) /\ rCall \in [RansomThreads -> Calls]

(* The deque loses no record of the last window, whichever thread prunes   *)
(* it, and no stamp is older than the window when it is appended.          *)
RansomInv ==
  /\ RansomTypes
  /\ rRecent = Within(rDeque)
  /\ \A t \in RansomThreads : rCall[t].pc = "stamped" => rCall[t].age <= Window
  /\ BurstIsReported

LEMMA NoCall == RansomIdle \in Calls /\ RansomIdle.pc = "idle"
  BY DEF RansomIdle, Calls

LEMMA RansomInitInv == RansomInit => RansomInv
  <1> SUFFICES ASSUME RansomInit PROVE RansomInv
    OBVIOUS
  <1>1. rDeque \in Seq(Nat) /\ rRecent = rDeque /\ rDeque = <<>>
    BY DEF RansomInit
  <1>2. rRecent = Within(rDeque)
    BY <1>1, WithinOf, Zenon
  <1>3. RansomTypes
    BY <1>1, NoCall, RansomAssumption DEF RansomInit, RansomTypes
  <1>4. Len(rRecent) = 0 /\ Threshold[rKind] \in Nat \ {0}
    BY <1>1, <1>3, RansomAssumption DEF RansomTypes
  <1>5. BurstIsReported
    BY <1>4 DEF BurstIsReported
  <1> QED
    BY <1>2, <1>3, <1>5, NoCall DEF RansomInit, RansomInv

LEMMA RecordStep == ASSUME RansomInv, NEW t \in RansomThreads, RecordChange(t) PROVE RansomInv'
  <1> DEFINE own == rCall[t].age
             all == Append(rDeque, own)
             deque == Pruned(all, own)
  <1>1. own \in Nat /\ own <= Window /\ rDeque \in Seq(Nat) /\ rCall \in [RansomThreads -> Calls]
    BY DEF RansomInv, RansomTypes, Calls, RecordChange
  <1>2. /\ rDeque' = deque /\ rRecent' = Append(rRecent, own)
        /\ rLast' = (Len(deque) >= Threshold[rKind])
        /\ UNCHANGED <<rKind, rEntropy, rBaseline, rEvents>>
    BY DEF RecordChange
  <1>3. all \in Seq(Nat) /\ Within(all) = Append(Within(rDeque), own)
    BY <1>1, WithinOf
  <1> HIDE DEF all, own
  <1>4. deque \in Seq(Nat) /\ Within(deque) = Within(all)
    BY <1>1, <1>3, PrunedKeeps
  <1> HIDE DEF deque
  <1>5. rRecent' = Within(rDeque')
    BY <1>2, <1>3, <1>4 DEF RansomInv
  <1>6. rCall' \in [RansomThreads -> Calls] /\ \A r \in RansomThreads :
          rCall'[r].pc = "stamped" => rCall[r].pc = "stamped" /\ rCall'[r].age = rCall[r].age
    <2>1. PICK pc \in {"event", "entropy", "idle"} :
            rCall' = [rCall EXCEPT ![t] = [pc |-> pc, age |-> 0]]
      BY DEF RecordChange
    <2>2. [pc |-> pc, age |-> 0] \in Calls
      BY DEF Calls
    <2> QED
      BY <1>1, <2>1, <2>2
  <1>7. BurstIsReported'
    <2>1. Len(rRecent') <= Len(deque) /\ Len(deque) \in Nat
      BY <1>2, <1>4, <1>5, WithinFits
    <2>2. Len(rRecent') \in Nat
      <3>1. Within(deque) \in Seq(0..Window)
        BY <1>4, WithinFits
      <3> QED
        BY <1>2, <1>5, <3>1
    <2>3. Threshold[rKind] \in Nat
      BY RansomAssumption DEF RansomInv, RansomTypes
    <2> QED
      <3> SUFFICES ASSUME Len(rRecent') >= Threshold[rKind'] PROVE rLast'
        BY DEF BurstIsReported
      <3>1. rKind' = rKind
        BY <1>2
      <3>2. Len(deque) >= Threshold[rKind]
        BY <2>1, <2>2, <2>3, <3>1
      <3> QED
        BY <1>2, <3>2, Zenon
  <1>8. RansomTypes'
    BY <1>2, <1>4, <1>6 DEF RansomInv, RansomTypes
  <1> QED
    BY <1>5, <1>6, <1>7, <1>8 DEF RansomInv

LEMMA SecondStep == ASSUME RansomInv, SecondPasses PROVE RansomInv'
  <1>1. /\ rDeque' = OneOlder(rDeque) /\ rRecent' = Within(OneOlder(rRecent))
        /\ UNCHANGED <<rKind, rEntropy, rBaseline, rLast, rEvents>>
    BY DEF SecondPasses
  <1>2. rDeque \in Seq(Nat) /\ rDeque' \in Seq(Nat) /\ rRecent = Within(rDeque)
    BY <1>1, OlderOf DEF RansomInv, RansomTypes
  <1>3. rRecent' = Within(rDeque')
    BY <1>1, <1>2, WithinOlder
  <1>4. rCall' \in [RansomThreads -> Calls] /\ \A t \in RansomThreads :
          rCall'[t].pc = "stamped" => rCall'[t].age <= Window
    <2>1. \A t \in RansomThreads : rCall[t] \in Calls
      BY DEF RansomInv, RansomTypes
    <2>2. rCall' = [t \in RansomThreads |->
            IF rCall[t].pc = "stamped" THEN [rCall[t] EXCEPT !.age = rCall[t].age + 1] ELSE rCall[t]]
      BY DEF SecondPasses
    <2>3. ASSUME NEW t \in RansomThreads
          PROVE  rCall'[t] \in Calls /\ (rCall'[t].pc = "stamped" => rCall'[t].age <= Window)
      <3>1. CASE rCall[t].pc = "stamped"
        <4>1. rCall'[t] = [rCall[t] EXCEPT !.age = rCall[t].age + 1]
          BY <2>2, <3>1
        <4>2. rCall[t].age \in Nat /\ rCall[t].age < Window /\ Window \in Nat
          BY <2>1, <3>1, RansomAssumption DEF SecondPasses, Calls
        <4> QED
          BY <2>1, <4>1, <4>2 DEF Calls
      <3>2. CASE rCall[t].pc # "stamped"
        BY <2>1, <2>2, <3>2
      <3> QED
        BY <3>1, <3>2
    <2> QED
      BY <2>2, <2>3
  <1>5. BurstIsReported'
    <2>1. rRecent \in Seq(Nat)
      <3>1. rRecent \in Seq(0..Window) /\ 0..Window \subseteq Nat
        BY <1>2, WithinFits
      <3> QED
        BY <3>1, SeqMonotonic
    <2>2. OneOlder(rRecent) \in Seq(Nat) /\ Len(OneOlder(rRecent)) = Len(rRecent)
      BY <2>1, OlderOf
    <2>3. Len(rRecent') <= Len(rRecent) /\ rRecent' \in Seq(0..Window)
      BY <1>1, <2>2, WithinFits
    <2>4. Threshold[rKind] \in Nat /\ Len(rRecent) \in Nat /\ Len(rRecent') \in Nat
      BY <2>1, <2>3, RansomAssumption DEF RansomInv, RansomTypes
    <2> QED
      BY <1>1, <2>3, <2>4 DEF RansomInv, BurstIsReported
  <1>6. RansomTypes'
    BY <1>1, <1>2, <1>4 DEF RansomInv, RansomTypes
  <1> QED
    BY <1>3, <1>4, <1>5, <1>6 DEF RansomInv

\* The steps that touch no window.
LEMMA OtherRansomStep ==
  ASSUME RansomInv, NEW t \in RansomThreads,
         TakeStamp(t) \/ CheckEntropy(t) \/ RansomNote(t) \/ RecordEvent(t)
  PROVE  RansomInv'
  <1>1. RansomTypes /\ rCall[t] \in Calls
    BY DEF RansomInv, RansomTypes
  <1>2. UNCHANGED <<rKind, rEntropy, rDeque, rRecent, rLast>>
    BY DEF TakeStamp, CheckEntropy, RansomNote, RecordEvent
  <1>3. PICK c \in Calls : rCall' = [rCall EXCEPT ![t] = c] /\ (c.pc = "stamped" => c.age = 0)
    <2>1. CASE TakeStamp(t)
      <3>1. [pc |-> "stamped", age |-> 0] \in Calls
        BY DEF Calls
      <3> QED
        BY <2>1, <3>1 DEF TakeStamp
    <2>2. CASE CheckEntropy(t) \/ RansomNote(t)
      <3>1. PICK pc \in {"event", "idle"} : rCall' = [rCall EXCEPT ![t].pc = pc]
        BY <2>2 DEF CheckEntropy, RansomNote
      <3>2. [rCall[t] EXCEPT !.pc = pc] \in Calls /\ [rCall[t] EXCEPT !.pc = pc].pc = pc
        BY <1>1 DEF Calls
      <3>3. rCall' = [rCall EXCEPT ![t] = [rCall[t] EXCEPT !.pc = pc]]
        BY <3>1
      <3> QED
        BY <3>2, <3>3
    <2>3. CASE RecordEvent(t)
      BY <2>3, NoCall DEF RecordEvent
    <2> QED
      BY <2>1, <2>2, <2>3
  <1>4. rCall' \in [RansomThreads -> Calls]
          /\ \A r \in RansomThreads : rCall'[r].pc = "stamped" => rCall'[r].age <= Window
    BY <1>1, <1>3, RansomAssumption DEF RansomInv, RansomTypes
  <1>5. rBaseline' \in {0, HighEntropy}
    BY <1>1 DEF TakeStamp, CheckEntropy, RansomNote, RecordEvent, RansomTypes, LowEntropy,
                HighEntropy, MinEntropy
  <1>6. rEvents' \in 0..MaxEvents
    <2>1. CASE RecordEvent(t)
      <3> DEFINE both == {rEvents + 1, MaxEvents}
      <3>1. both \in SUBSET Nat /\ both # {} /\ MaxEvents \in Nat
        BY <1>1, RansomAssumption DEF RansomTypes
      <3>2. \E x \in both : \A y \in both : x <= y
        <4> HIDE DEF both
        <4> QED
          BY <3>1, Least
      <3>3. rEvents' = Min(both)
        BY <2>1 DEF RecordEvent
      <3>4. rEvents' \in both /\ \A y \in both : rEvents' <= y
        <4> HIDE DEF both
        <4> QED
          BY <3>2, <3>3 DEF Min
      <3> QED
        BY <3>1, <3>4
    <2>2. CASE ~RecordEvent(t)
      BY <1>1, <2>2 DEF TakeStamp, CheckEntropy, RansomNote, RansomTypes
    <2> QED
      BY <2>1, <2>2
  <1>7. RansomTypes'
    BY <1>1, <1>2, <1>4, <1>5, <1>6 DEF RansomTypes
  <1> QED
    BY <1>2, <1>4, <1>7 DEF RansomInv, BurstIsReported

LEMMA RansomStep == RansomInv /\ (RansomNext \/ UNCHANGED ransomVars) => RansomInv'
  <1> SUFFICES ASSUME RansomInv, RansomNext \/ UNCHANGED ransomVars PROVE RansomInv'
    OBVIOUS
  <1>1. CASE UNCHANGED ransomVars
    BY <1>1 DEF ransomVars, RansomInv, RansomTypes, BurstIsReported
  <1>2. CASE Rewrite
    BY <1>2 DEF Rewrite, RansomInv, RansomTypes, BurstIsReported
  <1> QED
    BY <1>1, <1>2, SecondStep, RecordStep, OtherRansomStep DEF RansomNext

LEMMA RansomInvBurst == RansomInv => BurstIsReported
  BY DEF RansomInv

LEMMA RansomInvTypes == RansomInv => RansomTypeOK
  <1> SUFFICES ASSUME RansomInv PROVE RansomTypeOK
    OBVIOUS
  <1>1. rRecent \in Seq(0..Window)
    BY WithinFits DEF RansomInv, RansomTypes
  <1> QED
    BY <1>1 DEF RansomInv, RansomTypes, RansomTypeOK, Calls

(* Threads stamp before they lock and each prunes with a cutoff of its     *)
(* own: still, for any window, threshold and number of threads, a burst    *)
(* raises an alarm at its last record.                                     *)
THEOREM BurstIsReportedHolds == Spec => []BurstIsReported
  <1>1. GuardsInit => RansomInv
    BY RansomInitInv DEF GuardsInit
  <1>2. RansomInv /\ [GuardsNext]_guardVars => RansomInv'
    BY StepOfComponent, RansomStep
  <1> QED
    BY <1>1, <1>2, RansomInvBurst, PTL DEF Spec
-----------------------------------------------------------------------------
(* Archives.                                                               *)

Level == [todo : Seq(Contents), found : SUBSET (0..10)]
Reasons == {"same name", "unwritten", "skipped", "container", "too deep", "unreadable"}

ArchiveTypes ==
  /\ bStack \in Seq(Level) /\ bNow \in Contents /\ bFound \in SUBSET (0..10)
  /\ bFailed \in BOOLEAN /\ bBad \in BOOLEAN /\ bSeen \in BOOLEAN
  /\ bHidden \in SUBSET Reasons
  /\ bPc \in {"idle", "file", "extract", "looked", "next"}
  /\ bVerdict \in {"none", "clean", "suspicious", "malicious", "error", "raised"}
  /\ bScans \in 0..MaxScans

(* Every archive under way has its working directory, and no archive is    *)
(* opened below the deepest level.  A scan ends as an error only for a     *)
(* reason that is named, and when nothing was found.                       *)
Nested ==
  /\ bDirs = Len(bStack) /\ Len(bStack) <= MaxDepth
  /\ bPc = "idle" => bStack = <<>>
  /\ bPc = "next" => bStack # <<>>
  /\ bPc = "extract" => Len(bStack) < MaxDepth
  /\ bFailed => bHidden # {} /\ bFound = {}

(* The detection of malicious content that was looked at is on its way up, *)
(* and malicious content that nothing hid is so or is still to be looked   *)
(* at.                                                                     *)
Severe(found) == \E s \in found : s >= 8
Pending(todo) == \E j \in DOMAIN todo : todo[j] \in Malicious
Shown ==
  \/ bPc \in {"extract", "looked"} /\ Severe(bFound)
  \/ \E i \in DOMAIN bStack : Severe(bStack[i].found)
Evidence ==
  \/ bPc = "file" /\ bNow \in Malicious
  \/ Shown
  \/ \E i \in DOMAIN bStack : Pending(bStack[i].todo)
Unhidden == bBad /\ bHidden = {}
Traced ==
  /\ bPc = "idle" /\ bVerdict \notin {"none", "raised"} =>
       (bSeen \/ Unhidden => bVerdict = "malicious")
  /\ bPc # "idle" => (bSeen => Shown) /\ (Unhidden => Evidence)

ArchiveInv == ArchiveTypes /\ Nested /\ Traced

LEMMA ArchiveInitInv == ArchiveInit => ArchiveInv
  <1> SUFFICES ASSUME ArchiveInit PROVE ArchiveInv
    OBVIOUS
  <1>1. bStack \in Seq(Level) /\ Len(bStack) = 0
    BY DEF ArchiveInit
  <1>2. bNow \in Contents
    BY DEF ArchiveInit, Contents
  <1>3. bScans \in 0..MaxScans /\ Len(bStack) <= MaxDepth
    BY <1>1, ArchiveAssumption DEF ArchiveInit
  <1>4. ArchiveTypes
    BY <1>1, <1>2, <1>3 DEF ArchiveInit, ArchiveTypes
  <1> QED
    BY <1>1, <1>3, <1>4 DEF ArchiveInit, ArchiveInv, Nested, Traced

\* What a detector says of a file.
LEMMA SeveritiesOf ==
  ASSUME NEW c \in Contents
  PROVE  Severities(c) \in SUBSET (0..10) /\ (c \in Malicious => Severe(Severities(c)))
  <1>1. DetectedKinds = {"bad", "marked", "chain", "active", "extras"}
    BY DEF DetectedKinds, SeverityOf
  <1>2. /\ SeverityOf.bad = 9 /\ SeverityOf.marked = 9 /\ SeverityOf.chain = 8
        /\ SeverityOf.active = 6 /\ SeverityOf.extras = 4
    BY DEF SeverityOf
  <1> QED
    BY <1>1, <1>2 DEF Severities, Severe, Malicious

\* A member that was written is found at its place, unless one of its name
\* came after it.
Listings(n) == [1..n -> [name : MemberNames, content : Contents, fate : Fates]]
LEMMA OnDiskIsContent ==
  ASSUME NEW n \in Nat, NEW members \in Listings(n), NEW i \in Written(members)
  PROVE  OnDisk(members, i) \in Contents
  <1> DEFINE same == {j \in DOMAIN members :
                        members[j].name = members[i].name /\ members[j].fate # "skipped"}
             last == CHOOSE j \in same : \A o \in same : o <= j
  <1>1. same \in SUBSET (1..n) /\ i \in same /\ i \in 1..n
    BY DEF Listings, Written
  <1>2. \E j \in same : \A o \in same : o <= j
    <2> HIDE DEF same
    <2> QED
      BY <1>1, Greatest
  <1>3. OnDisk(members, i) = IF members[last].fate = "written" THEN members[last].content
                             ELSE "unreadable"
    BY DEF OnDisk
  <1>4. last \in same
    BY <1>2
  <1>5. members[last].content \in Contents
    <2> HIDE DEF last, same
    <2> QED
      BY <1>1, <1>4 DEF Listings
  <1>6. "unreadable" \in Contents
    BY DEF Contents
  <1> QED
    BY <1>3, <1>5, <1>6

LEMMA ArchiveTop ==
  ASSUME ArchiveInv, bStack # <<>>
  PROVE  /\ Depth \in 1..Len(bStack) /\ Last(bStack) = bStack[Depth] /\ Last(bStack) \in Level
         /\ Depth = Len(bStack)
  BY DEF ArchiveInv, ArchiveTypes, Depth, Last

LEMMA LookAtStep == ASSUME ArchiveInv, LookAt PROVE ArchiveInv'
  <1> DEFINE deep == IsArchive(bNow) /\ TooDeep(Depth)
  <1>1. /\ bFound' \in SUBSET (0..10) /\ (bNow \in Malicious => Severe(bFound'))
        /\ (bFailed' => bHidden' # {} /\ bFound' = {})
    <2>1. bNow \in Contents /\ Severities("unreadable") = {} /\ ~IsArchive("unreadable")
      BY DEF ArchiveInv, ArchiveTypes, Severities, DetectedKinds, SeverityOf, IsArchive
    <2>2. /\ bFound' = Severities(bNow) \cup (IF deep THEN {3} ELSE {})
          /\ bFailed' = (bNow = "unreadable")
          /\ bNow = "unreadable" => bHidden' # {}
      BY DEF LookAt
    <2>3. bNow = "unreadable" => ~deep
      BY <2>1
    <2> HIDE DEF deep
    <2>4. /\ Severities(bNow) \in SUBSET (0..10)
          /\ bNow \in Malicious => Severe(Severities(bNow))
      BY <2>1, SeveritiesOf
    <2>5. bFound' \in SUBSET (0..10)
      BY <2>2, <2>4
    <2>6. bNow \in Malicious => Severe(bFound')
      BY <2>2, <2>4 DEF Severe
    <2>7. bFailed' => bHidden' # {} /\ bFound' = {}
      <3>1. bFailed' => bNow = "unreadable"
        BY <2>2
      <3> QED
        BY <2>1, <2>2, <2>3, <3>1
    <2> QED
      BY <2>5, <2>6, <2>7
  <1>2. ArchiveTypes'
    <2>1. bHidden' \in SUBSET Reasons
      BY DEF LookAt, ArchiveInv, ArchiveTypes, Reasons
    <2>2. bFailed' \in BOOLEAN /\ bSeen' \in BOOLEAN
      BY Zenon DEF LookAt
    <2>3. bPc' \in {"extract", "looked"}
      BY DEF LookAt
    <2> QED
      BY <1>1, <2>1, <2>2, <2>3 DEF LookAt, ArchiveInv, ArchiveTypes
  <1>3. Nested'
    <2>1. Len(bStack) \in Nat /\ MaxDepth \in Nat
      BY ArchiveAssumption DEF ArchiveInv, ArchiveTypes
    <2>2. bPc' = "extract" => Len(bStack) < MaxDepth
      <3>1. bPc' = "extract" => IsArchive(bNow) /\ ~deep
        BY Zenon DEF LookAt
      <3> QED
        BY <2>1, <3>1 DEF TooDeep, Depth
    <2>3. bPc' \in {"extract", "looked"}
      BY DEF LookAt
    <2> QED
      BY <1>1, <2>2, <2>3 DEF LookAt, ArchiveInv, Nested
  <1>4. Traced'
    <2>1. bPc = "file" /\ bPc' \in {"extract", "looked"} /\ bStack' = bStack /\ bBad' = bBad
      BY DEF LookAt
    <2>2. bNow \in Malicious => Shown'
      BY <1>1, <2>1 DEF Shown
    <2>3. bSeen' => bSeen \/ bNow \in Malicious
      BY Zenon DEF LookAt
    <2>4. bSeen => Shown
      BY <2>1 DEF ArchiveInv, Traced
    <2>5. Shown => Shown'
      BY <2>1 DEF Shown
    <2>6. Unhidden' => Evidence
      <3>1. bHidden' = bHidden \cup (IF deep THEN {"too deep"} ELSE {})
                              \cup (IF bNow = "unreadable" THEN {"unreadable"} ELSE {})
        BY DEF LookAt
      <3>2. bHidden' = {} => bHidden = {}
        BY <3>1
      <3>3. Unhidden' => Unhidden
        BY <2>1, <3>2 DEF Unhidden
      <3> QED
        BY <2>1, <3>3 DEF ArchiveInv, Traced
    <2>7. Evidence => Evidence'
      BY <2>1, <2>2, <2>5 DEF Evidence
    <2> QED
      BY <2>1, <2>2, <2>3, <2>4, <2>5, <2>6, <2>7 DEF Traced
  <1> QED
    BY <1>2, <1>3, <1>4 DEF ArchiveInv

LEMMA ExtractStep ==
  ASSUME ArchiveInv, NEW n \in Nat, NEW members \in Listings(n), Extract(members)
  PROVE  ArchiveInv'
  <1>1. PICK entries \in InOrder(Written(members)) :
          bStack' = Append(bStack, [found |-> bFound,
                      todo |-> [k \in DOMAIN entries |-> OnDisk(members, entries[k])]])
    BY DEF Extract
  <1> DEFINE todo == [k \in DOMAIN entries |-> OnDisk(members, entries[k])]
             level == [found |-> bFound, todo |-> todo]
  <1>2. Written(members) \subseteq 1..n /\ Cardinality(Written(members)) \in Nat
    <2>1. Written(members) \subseteq 1..n
      BY DEF Written, Listings
    <2>2. IsFiniteSet(Written(members))
      BY <2>1, FS_Interval, FS_Subset
    <2> QED
      BY <2>1, <2>2, FS_CardinalityType
  <1>3. /\ DOMAIN entries = 1..Cardinality(Written(members))
        /\ \A k \in DOMAIN entries : entries[k] \in Written(members)
        /\ \A i \in Written(members) : \E k \in DOMAIN entries : entries[k] = i
    BY DEF InOrder
  <1>4. todo \in Seq(Contents) /\ DOMAIN todo = DOMAIN entries
    <2>1. todo \in [1..Cardinality(Written(members)) -> Contents]
      BY <1>3, OnDiskIsContent
    <2> HIDE DEF todo
    <2> QED
      BY <1>2, <1>3, <2>1
  <1>5. level \in Level
    <2> HIDE DEF todo
    <2> QED
      BY <1>4 DEF Level, ArchiveInv, ArchiveTypes
  <1>6. bStack' = Append(bStack, level) /\ level.found = bFound /\ level.todo = todo
    BY <1>1
  <1>7. ArchiveTypes'
    <2> HIDE DEF level, todo
    <2>1. bStack' \in Seq(Level)
      BY <1>5, <1>6 DEF ArchiveInv, ArchiveTypes
    <2>2. bHidden' \in SUBSET Reasons
      <3>1. {members[i].fate : i \in DOMAIN members} \ {"written"} \subseteq Reasons
        BY DEF Listings, Fates, Reasons
      <3> QED
        BY <3>1 DEF Extract, ArchiveInv, ArchiveTypes, Reasons
    <2>3. "clean" \in Contents
      BY DEF Contents
    <2>4. bBad' \in BOOLEAN
      BY Zenon DEF Extract
    <2> QED
      BY <2>1, <2>2, <2>3, <2>4 DEF Extract, ArchiveInv, ArchiveTypes
  <1>8. Nested'
    <2> HIDE DEF level
    <2>1. Len(bStack') = Len(bStack) + 1 /\ bStack' # <<>> /\ Len(bStack) \in Nat
      BY <1>5, <1>6 DEF ArchiveInv, ArchiveTypes
    <2>2. Len(bStack) < MaxDepth /\ MaxDepth \in Nat /\ bDirs = Len(bStack)
      BY ArchiveAssumption DEF Extract, ArchiveInv, Nested
    <2>3. bDirs' = bDirs + 1 /\ bPc' = "next" /\ bFailed' = FALSE
      BY DEF Extract
    <2> QED
      BY <2>1, <2>2, <2>3 DEF Nested
  <1>9. Traced'
    <2> HIDE DEF level, todo
    <2>1. /\ Len(bStack') = Len(bStack) + 1 /\ bStack'[Len(bStack) + 1] = level
          /\ \A i \in 1..Len(bStack) : bStack'[i] = bStack[i]
          /\ DOMAIN bStack' = 1..(Len(bStack) + 1) /\ DOMAIN bStack = 1..Len(bStack)
          /\ Len(bStack) \in Nat
      BY <1>5, <1>6 DEF ArchiveInv, ArchiveTypes
    <2>2. bPc = "extract" /\ bPc' = "next" /\ bSeen' = bSeen
      BY DEF Extract
    <2>3. Shown => Shown'
      <3>1. Severe(bFound) => Shown'
        BY <1>6, <2>1 DEF Shown
      <3> QED
        BY <2>1, <3>1 DEF Shown
    <2>4. bSeen => Shown
      BY <2>2 DEF ArchiveInv, Traced
    <2>5. ASSUME Unhidden' PROVE Evidence'
      <3>1. bHidden = {} /\ \A i \in DOMAIN members : members[i].fate \in {"written"}
        BY <2>5 DEF Extract, Unhidden
      <3>2. Written(members) = DOMAIN members
        BY <3>1 DEF Written
      <3>3. \A i \in DOMAIN members : OnDisk(members, i) = members[i].content
        BY <2>5, <3>2 DEF Extract, Unhidden
      <3>4. CASE bBad
        <4>1. Evidence
          BY <2>2, <3>1, <3>4 DEF ArchiveInv, Traced, Unhidden
        <4>2. CASE \E i \in DOMAIN bStack : Pending(bStack[i].todo)
          BY <2>1, <4>2 DEF Evidence
        <4> QED
          BY <2>2, <2>3, <4>1, <4>2 DEF Evidence
      <3>5. ASSUME NEW i \in DOMAIN members, members[i].content \in Malicious PROVE Evidence'
        <4>1. PICK k \in DOMAIN entries : entries[k] = i
          BY <1>3, <3>2
        <4>2. todo[k] = members[i].content
          BY <3>3, <4>1 DEF todo
        <4>3. Pending(todo)
          BY <1>4, <3>5, <4>1, <4>2 DEF Pending
        <4>4. Len(bStack) + 1 \in DOMAIN bStack' /\ Pending(bStack'[Len(bStack) + 1].todo)
          BY <1>6, <2>1, <4>3
        <4> QED
          BY <4>4 DEF Evidence
      <3>6. bBad' => bBad \/ \E i \in DOMAIN members : members[i].content \in Malicious
        BY Zenon DEF Extract
      <3> QED
        BY <2>5, <3>4, <3>5, <3>6 DEF Unhidden
    <2> QED
      BY <2>2, <2>3, <2>4, <2>5 DEF Traced
  <1> QED
    BY <1>7, <1>8, <1>9 DEF ArchiveInv

LEMMA NextMemberStep == ASSUME ArchiveInv, NextMember PROVE ArchiveInv'
  <1>1. bStack # <<>> /\ bPc = "next"
    BY DEF NextMember, ArchiveInv, Nested
  <1>2. /\ Depth \in 1..Len(bStack) /\ Last(bStack) = bStack[Depth] /\ Depth = Len(bStack)
        /\ bStack[Depth] \in Level /\ bStack \in Seq(Level)
    BY <1>1, ArchiveTop DEF ArchiveInv, ArchiveTypes
  <1> DEFINE top == bStack[Depth]
             rest == [top EXCEPT !.todo = Tail(@)]
  <1>3. /\ bStack' = [bStack EXCEPT ![Depth] = rest] /\ top.todo # <<>>
        /\ bNow' = Head(top.todo)
    BY <1>2 DEF NextMember
  <1>4. rest \in Level /\ rest.found = top.found /\ rest.todo = Tail(top.todo)
    <2>1. top \in Level /\ top.todo \in Seq(Contents) /\ top.todo # <<>>
      BY <1>2, <1>3 DEF Level
    <2>2. Tail(top.todo) \in Seq(Contents)
      BY <2>1
    <2> HIDE DEF top
    <2> QED
      BY <2>1, <2>2 DEF Level
  <1>5. /\ bStack' \in Seq(Level) /\ Len(bStack') = Len(bStack) /\ bStack'[Depth] = rest
        /\ \A i \in 1..Len(bStack) : i # Depth => bStack'[i] = bStack[i]
        /\ DOMAIN bStack' = 1..Len(bStack) /\ DOMAIN bStack = 1..Len(bStack)
    <2> HIDE DEF rest
    <2> QED
      BY <1>2, <1>3, <1>4
  <1>6. ArchiveTypes'
    <2>1. bNow' \in Contents
      BY <1>2, <1>3 DEF Level
    <2> QED
      BY <1>5, <2>1 DEF NextMember, ArchiveInv, ArchiveTypes
  <1>7. Nested'
    BY <1>1, <1>5 DEF NextMember, ArchiveInv, Nested
  <1>8. Traced'
    <2>0. /\ bPc = "next" /\ bPc' = "file" /\ bSeen' = bSeen /\ bBad' = bBad
          /\ bHidden' = bHidden
      BY DEF NextMember
    <2>1. Shown => Shown'
      <3>1. SUFFICES ASSUME NEW i \in DOMAIN bStack, Severe(bStack[i].found) PROVE Shown'
        BY <2>0 DEF Shown
      <3>2. CASE i # Depth
        BY <1>5, <3>1, <3>2 DEF Shown
      <3>3. CASE i = Depth
        BY <1>2, <1>4, <1>5, <3>1, <3>3 DEF Shown
      <3> QED
        BY <3>2, <3>3
    <2> SUFFICES ASSUME NEW i \in DOMAIN bStack, Pending(bStack[i].todo) PROVE Evidence'
      BY <2>0, <2>1 DEF Traced, ArchiveInv, Evidence, Unhidden
    <2>2. CASE i # Depth
      BY <1>5, <2>2 DEF Evidence
    <2>4. CASE i = Depth
      <3>1. PICK j \in DOMAIN top.todo : top.todo[j] \in Malicious
        BY <2>4 DEF Pending
      <3>2. top.todo \in Seq(Contents)
        BY <1>2 DEF Level
      <3>3. CASE j = 1
        BY <1>3, <3>1, <3>2, <3>3 DEF NextMember, Evidence
      <3>4. CASE j # 1
        <4>1. j - 1 \in DOMAIN rest.todo /\ rest.todo[j - 1] = top.todo[j]
          BY <1>3, <1>4, <3>1, <3>2, <3>4
        <4>2. Pending(rest.todo)
          BY <3>1, <4>1 DEF Pending
        <4> HIDE DEF rest
        <4> QED
          BY <1>2, <1>5, <4>2 DEF Evidence
      <3> QED
        BY <3>3, <3>4
    <2> QED
      BY <2>2, <2>4
  <1> QED
    BY <1>6, <1>7, <1>8 DEF ArchiveInv

LEMMA MemberScannedStep == ASSUME ArchiveInv, MemberScanned PROVE ArchiveInv'
  <1>1. bStack # <<>> /\ bPc = "looked"
    BY DEF MemberScanned
  <1>2. /\ Depth \in 1..Len(bStack) /\ bStack[Depth] \in Level /\ bStack \in Seq(Level)
        /\ bFound \in SUBSET (0..10)
    BY <1>1, ArchiveTop DEF ArchiveInv, ArchiveTypes
  <1> DEFINE top == bStack[Depth]
             more == [top EXCEPT !.found = top.found \cup bFound]
  <1>3. bStack' = [bStack EXCEPT ![Depth] = more]
    BY <1>2 DEF MemberScanned, Collected
  <1>4. more \in Level /\ more.todo = top.todo /\ more.found = top.found \cup bFound
    BY <1>2 DEF Level
  <1>5. /\ bStack' \in Seq(Level) /\ Len(bStack') = Len(bStack) /\ bStack'[Depth] = more
        /\ \A i \in 1..Len(bStack) : i # Depth => bStack'[i] = bStack[i]
        /\ DOMAIN bStack' = 1..Len(bStack) /\ DOMAIN bStack = 1..Len(bStack)
    <2> HIDE DEF more
    <2> QED
      BY <1>2, <1>3, <1>4
  <1>6. ArchiveTypes'
    BY <1>5 DEF MemberScanned, ArchiveInv, ArchiveTypes
  <1>7. Nested'
    BY <1>1, <1>5 DEF MemberScanned, ArchiveInv, Nested
  <1>8. Traced'
    <2> HIDE DEF more
    <2>0. /\ bPc = "looked" /\ bPc' = "next" /\ bSeen' = bSeen /\ bBad' = bBad
          /\ bHidden' = bHidden
      BY DEF MemberScanned
    <2>1. ASSUME NEW i \in DOMAIN bStack
          PROVE  /\ i \in DOMAIN bStack'
                 /\ Severe(bStack[i].found) => Severe(bStack'[i].found)
                 /\ Pending(bStack[i].todo) => Pending(bStack'[i].todo)
      <3>1. CASE i # Depth
        BY <1>5, <2>1, <3>1
      <3>2. CASE i = Depth
        <4>1. Severe(top.found) => Severe(more.found)
          BY <1>4 DEF Severe
        <4> QED
          BY <1>4, <1>5, <3>2, <4>1
      <3> QED
        BY <3>1, <3>2
    <2>2. Severe(bFound) => Shown'
      <3>1. Severe(bFound) => Severe(more.found)
        BY <1>4 DEF Severe
      <3> QED
        BY <1>2, <1>5, <3>1 DEF Shown
    <2>3. Shown => Shown'
      BY <2>1, <2>2 DEF Shown
    <2>4. Evidence => Evidence'
      BY <2>0, <2>1, <2>3 DEF Evidence
    <2> QED
      BY <2>0, <2>3, <2>4 DEF ArchiveInv, Traced, Unhidden
  <1> QED
    BY <1>6, <1>7, <1>8 DEF ArchiveInv

LEMMA LeaveArchiveStep == ASSUME ArchiveInv, LeaveArchive PROVE ArchiveInv'
  <1>1. bStack # <<>> /\ bPc = "next"
    BY DEF LeaveArchive, ArchiveInv, Nested
  <1>2. /\ Depth \in 1..Len(bStack) /\ Last(bStack) = bStack[Depth] /\ Depth = Len(bStack)
        /\ bStack[Depth] \in Level /\ bStack \in Seq(Level)
    BY <1>1, ArchiveTop DEF ArchiveInv, ArchiveTypes
  <1>3. /\ bStack' = Front(bStack) /\ bFound' = bStack[Depth].found /\ bPc' = "looked"
        /\ bStack[Depth].todo = <<>>
    BY <1>2 DEF LeaveArchive
  <1>4. /\ bStack' \in Seq(Level) /\ Len(bStack') = Len(bStack) - 1
        /\ \A i \in 1..(Len(bStack) - 1) : bStack'[i] = bStack[i]
        /\ DOMAIN bStack' = 1..(Len(bStack) - 1) /\ DOMAIN bStack = 1..Len(bStack)
    BY <1>1, <1>2, <1>3 DEF Front
  <1>5. ArchiveTypes'
    BY <1>2, <1>3, <1>4 DEF LeaveArchive, ArchiveInv, ArchiveTypes, Level
  <1>6. Nested'
    BY <1>2, <1>4, ArchiveAssumption DEF LeaveArchive, ArchiveInv, Nested
  <1>7. Traced'
    <2>0. /\ bPc = "next" /\ bPc' = "looked" /\ bSeen' = bSeen /\ bBad' = bBad
          /\ bHidden' = bHidden
      BY DEF LeaveArchive
    <2>1. ASSUME NEW i \in DOMAIN bStack, Severe(bStack[i].found) PROVE Shown'
      <3>1. CASE i # Depth
        BY <1>2, <1>4, <2>1, <3>1 DEF Shown
      <3>2. CASE i = Depth
        BY <1>3, <2>1, <3>2 DEF Shown
      <3> QED
        BY <3>1, <3>2
    <2>2. ASSUME NEW i \in DOMAIN bStack, Pending(bStack[i].todo) PROVE Evidence'
      <3>1. i # Depth
        BY <1>3, <2>2 DEF Pending
      <3> QED
        BY <1>2, <1>4, <2>2, <3>1 DEF Evidence
    <2>3. Shown => Shown'
      BY <2>0, <2>1 DEF Shown
    <2>4. Evidence => Evidence'
      BY <2>0, <2>2, <2>3 DEF Evidence
    <2> QED
      BY <2>0, <2>3, <2>4 DEF ArchiveInv, Traced, Unhidden
  <1> QED
    BY <1>5, <1>6, <1>7 DEF ArchiveInv

\* Every step of the archive scanner keeps track of what it found.
LEMMA ArchiveStep == ArchiveInv /\ (ArchiveNext \/ UNCHANGED archiveVars) => ArchiveInv'
  <1> SUFFICES ASSUME ArchiveInv, ArchiveNext \/ UNCHANGED archiveVars PROVE ArchiveInv'
    OBVIOUS
  <1>1. CASE UNCHANGED archiveVars
    BY <1>1 DEF archiveVars, ArchiveInv, ArchiveTypes, Nested, Traced, Evidence, Shown, Unhidden
  <1>2. ASSUME NEW c \in Contents, ScanFile(c) PROVE ArchiveInv'
    <2>1. ArchiveTypes'
      <3>1. bBad' \in BOOLEAN
        <4>1. bBad' = (c \in Malicious)
          BY <1>2, Zenon DEF ScanFile
        <4>2. CASE c \in Malicious
          BY <4>1, <4>2
        <4>3. CASE c \notin Malicious
          BY <4>1, <4>3
        <4> QED
          BY <4>2, <4>3
      <3>2. bScans' \in 0..MaxScans
        BY <1>2, ArchiveAssumption DEF ScanFile, ArchiveInv, ArchiveTypes
      <3> QED
        BY <1>2, <3>1, <3>2 DEF ScanFile, ArchiveInv, ArchiveTypes
    <2>2. Nested' /\ Traced'
      BY <1>2 DEF ScanFile, ArchiveInv, Nested, Traced, Evidence, Unhidden
    <2> QED
      BY <2>1, <2>2 DEF ArchiveInv
  <1>3. CASE LookAt \/ NextMember \/ MemberScanned \/ LeaveArchive
    BY <1>3, LookAtStep, NextMemberStep, MemberScannedStep, LeaveArchiveStep
  <1>4. ASSUME NEW m \in Members, Extract(m) PROVE ArchiveInv'
    <2>1. PICK n \in 0..MaxMembers : m \in Listings(n)
      BY <1>4 DEF Members, Listings
    <2> QED
      BY <1>4, <2>1, ExtractStep
  <1>5. ASSUME NEW bomb \in BOOLEAN, ContainerFails(bomb) PROVE ArchiveInv'
    <2>1. ArchiveTypes'
      <3>1. bFound' \in SUBSET (0..10)
        BY <1>5 DEF ContainerFails, ArchiveInv, ArchiveTypes
      <3>2. bHidden' \in SUBSET Reasons
        BY <1>5 DEF ContainerFails, ArchiveInv, ArchiveTypes, Reasons
      <3>3. bFailed' \in BOOLEAN
        BY <1>5, Zenon DEF ContainerFails
      <3> QED
        BY <1>5, <3>1, <3>2, <3>3 DEF ContainerFails, ArchiveInv, ArchiveTypes
    <2>2. Nested'
      <3>1. bFailed' => ~bomb /\ bFound = {}
        BY <1>5, Zenon DEF ContainerFails
      <3>2. bFailed' => bHidden' # {} /\ bFound' = {}
        BY <1>5, <3>1 DEF ContainerFails
      <3> QED
        BY <1>5, <3>2 DEF ContainerFails, ArchiveInv, Nested
    <2>3. Traced'
      <3>1. Severe(bFound) => Severe(bFound')
        BY <1>5 DEF ContainerFails, Severe
      <3>2. bPc = "extract" /\ bPc' = "looked" /\ bStack' = bStack /\ bSeen' = bSeen /\ ~Unhidden'
        BY <1>5 DEF ContainerFails, Unhidden
      <3>3. Shown => Shown'
        BY <3>1, <3>2 DEF Shown
      <3> QED
        BY <3>2, <3>3 DEF ArchiveInv, Traced
    <2> QED
      BY <2>1, <2>2, <2>3 DEF ArchiveInv
  <1>6. CASE FinishScan
    <2>1. ArchiveTypes' /\ Nested'
      BY <1>6 DEF FinishScan, ArchiveInv, ArchiveTypes, Nested, ScanVerdict
    <2>2. Traced'
      <3>1. /\ bPc = "looked" /\ bStack = <<>> /\ bPc' = "idle" /\ bSeen' = bSeen
            /\ bBad' = bBad /\ bHidden' = bHidden
            /\ bVerdict' = IF bFailed THEN "error" ELSE ScanVerdict(bFound)
        BY <1>6 DEF FinishScan
      <3>2. bSeen \/ Unhidden => Severe(bFound)
        BY <3>1 DEF ArchiveInv, Traced, Evidence, Shown
      <3>3. Severe(bFound) => bVerdict' = "malicious"
        BY <3>1 DEF ArchiveInv, Nested, Severe, ScanVerdict
      <3> QED
        BY <3>1, <3>2, <3>3 DEF Traced, Unhidden
    <2> QED
      BY <2>1, <2>2 DEF ArchiveInv
  <1>7. CASE ScanRaises
    <2>1. ArchiveTypes' /\ Traced'
      BY <1>7 DEF ScanRaises, ArchiveInv, ArchiveTypes, Traced
    <2>2. Nested'
      BY <1>7, ArchiveAssumption DEF ScanRaises, ArchiveInv, Nested
    <2> QED
      BY <2>1, <2>2 DEF ArchiveInv
  <1> QED
    BY <1>1, <1>2, <1>3, <1>4, <1>5, <1>6, <1>7 DEF ArchiveNext

LEMMA ArchiveInvReports == ArchiveInv => BadMemberIsReported /\ ArchiveTypeOK
  <1> SUFFICES ASSUME ArchiveInv PROVE BadMemberIsReported /\ ArchiveTypeOK
    OBVIOUS
  <1>1. BadMemberIsReported
    BY DEF ArchiveInv, Nested, Traced, Unhidden, BadMemberIsReported
  <1>2. \A i \in DOMAIN bStack : bStack[i] \in Level
    BY DEF ArchiveInv, ArchiveTypes
  <1>3. ArchiveTypeOK
    <2>1. \A i \in DOMAIN bStack : bStack[i].found \subseteq 0..10 /\ bStack[i].todo \in Seq(Contents)
      BY <1>2 DEF Level
    <2>2. bDirs \in 0..MaxDepth /\ Len(bStack) <= MaxDepth
      BY ArchiveAssumption DEF ArchiveInv, ArchiveTypes, Nested
    <2> QED
      BY <2>1, <2>2 DEF ArchiveInv, ArchiveTypes, ArchiveTypeOK, Reasons
  <1> QED
    BY <1>1, <1>3

(* However deep archives are nested and whatever their members, what was   *)
(* looked at and found malicious makes the verdict of a scan that has one, *)
(* so does malicious content anywhere when nothing was hidden, and every   *)
(* level gives back its working directory.                                 *)
THEOREM BadMemberIsReportedHolds == Spec => []BadMemberIsReported
  <1>1. GuardsInit => ArchiveInv
    BY ArchiveInitInv DEF GuardsInit
  <1>2. ArchiveInv /\ [GuardsNext]_guardVars => ArchiveInv'
    BY StepOfComponent, ArchiveStep
  <1> QED
    BY <1>1, <1>2, ArchiveInvReports, PTL DEF Spec
-----------------------------------------------------------------------------
(* The types of all the components.                                        *)

\* A policy as add_rule leaves it.
SmallPolicies ==
  {pol \in [rules : Seq(AppRules), default : AppActions] : Len(pol.rules) <= MaxAppRules}
AppTypes ==
  /\ aFile \in [AppPaths -> AppContents]
  /\ aStore \in SmallPolicies /\ aTmp \subseteq SmallPolicies
  /\ \A q \in AppProcs :
       /\ aMem[q] \subseteq SmallPolicies
       /\ \A p \in DOMAIN aCache[q] : p \in AppPaths /\ aCache[q][p] \in AppActions

LEMMA AppVerdictType ==
  ASSUME NEW pol \in SmallPolicies, NEW path, NEW content
  PROVE  AppVerdict(pol, path, content) \in AppActions
  <1> DEFINE hits == {i \in DOMAIN pol.rules : MatchesRule(path, content, pol.rules[i])}
  <1>1. /\ pol.rules \in Seq(AppRules) /\ pol.default \in AppActions
        /\ hits \in SUBSET (1..Len(pol.rules))
    BY DEF SmallPolicies
  <1>2. ASSUME hits # {} PROVE Min(hits) \in 1..Len(pol.rules)
    <2> HIDE DEF hits
    <2>1. \E x \in hits : \A y \in hits : x <= y
      BY <1>1, <1>2, Least
    <2> QED
      BY <1>1, <2>1 DEF Min
  <1>3. \A i \in 1..Len(pol.rules) : pol.rules[i].action \in AppActions
    BY <1>1 DEF AppRules, AppActions
  <1> QED
    BY <1>1, <1>2, <1>3 DEF AppVerdict

LEMMA SmallPolicyChanges ==
  ASSUME NEW pol \in SmallPolicies
  PROVE  /\ \A r \in AppRules : Len(pol.rules) < MaxAppRules =>
              [pol EXCEPT !.rules = Append(@, r)] \in SmallPolicies
         /\ \A i \in 1..Len(pol.rules) : [pol EXCEPT !.rules = RemoveAt(@, i)] \in SmallPolicies
         /\ \A d \in AppActions : [pol EXCEPT !.default = d] \in SmallPolicies
  <1>1. /\ pol \in [rules : Seq(AppRules), default : AppActions] /\ Len(pol.rules) <= MaxAppRules
        /\ pol.rules \in Seq(AppRules) /\ Len(pol.rules) \in Nat
    BY DEF SmallPolicies
  <1>2. ASSUME NEW rules \in Seq(AppRules), Len(rules) <= MaxAppRules
        PROVE  [pol EXCEPT !.rules = rules] \in SmallPolicies
    BY <1>1, <1>2 DEF SmallPolicies
  <1>3. ASSUME NEW r \in AppRules, Len(pol.rules) < MaxAppRules
        PROVE  [pol EXCEPT !.rules = Append(@, r)] \in SmallPolicies
    <2>1. Append(pol.rules, r) \in Seq(AppRules) /\ Len(Append(pol.rules, r)) <= MaxAppRules
      BY <1>1, <1>3, AppAssumption
    <2> QED
      BY <1>2, <2>1
  <1>4. ASSUME NEW i \in 1..Len(pol.rules)
        PROVE  [pol EXCEPT !.rules = RemoveAt(@, i)] \in SmallPolicies
    <2> DEFINE s == pol.rules
               a == SubSeq(s, 1, i - 1)
               b == SubSeq(s, i + 1, Len(s))
    <2>1. a \in Seq(AppRules) /\ Len(a) = i - 1
      BY <1>1
    <2>2. b \in Seq(AppRules) /\ Len(b) = Len(s) - i
      BY <1>1
    <2>3. RemoveAt(s, i) = a \o b
      BY DEF RemoveAt
    <2> HIDE DEF a, b
    <2>4. RemoveAt(s, i) \in Seq(AppRules) /\ Len(RemoveAt(s, i)) = Len(s) - 1
      BY <1>1, <2>1, <2>2, <2>3
    <2>5. Len(RemoveAt(s, i)) <= MaxAppRules
      BY <1>1, <2>4, AppAssumption
    <2> QED
      BY <1>2, <2>4, <2>5
  <1>5. ASSUME NEW d \in AppActions PROVE [pol EXCEPT !.default = d] \in SmallPolicies
    BY <1>1 DEF SmallPolicies
  <1> QED
    BY <1>3, <1>4, <1>5

LEMMA AppTypesStep ==
  ASSUME AppInv, AppTypes, AppNext \/ UNCHANGED appVars PROVE AppTypes'
  <1>1. CASE UNCHANGED appVars
    BY <1>1 DEF appVars, AppTypes
  <1>2. ASSUME NEW p \in AppPaths, ReplaceApp(p) PROVE AppTypes'
    BY <1>2 DEF ReplaceApp, AppTypes
  <1>3. ASSUME NEW q \in AppProcs, AppStep(q) PROVE AppTypes'
    <2>1. aFile' = aFile
      BY <1>3, AppStepIsLocal
    <2>2. \A r \in AppProcs : r # q => aMem'[r] = aMem[r] /\ aCache'[r] = aCache[r]
      BY <1>3, AppStepIsLocal DEF KeepsOthers
    <2>3. aStore' \in SmallPolicies /\ aTmp' \subseteq SmallPolicies
      <3>1. (aTmp' = aTmp \/ aTmp' = aMem[q] \/ aTmp' = {}) /\ (aStore' = aStore \/ aStore' \in aTmp)
        BY <1>3 DEF AppStep, OpenController, EndController, AddRule, RemoveRule, SetDefaultAction,
               WritePolicy, RenamePolicy, ClearCache, CheckApp, SaveNext
      <3> QED
        BY <3>1 DEF AppTypes
    <2>4. aMem'[q] \subseteq SmallPolicies
      <3>1. \A pol \in aMem[q] : pol \in SmallPolicies
        BY DEF AppTypes
      <3>2. CASE AddRule(q) \/ RemoveRule(q) \/ SetDefaultAction(q)
        <4>1. PICK pol \in aMem[q] : \E new :
                /\ \/ \E r \in AppRules : /\ Len(pol.rules) < MaxAppRules
                                          /\ new = [pol EXCEPT !.rules = Append(@, r)]
                   \/ \E i \in 1..Len(pol.rules) : new = [pol EXCEPT !.rules = RemoveAt(@, i)]
                   \/ \E d \in AppActions : new = [pol EXCEPT !.default = d]
                /\ aMem' = [aMem EXCEPT ![q] = {new}]
          BY <3>2 DEF AddRule, RemoveRule, SetDefaultAction, SaveNext
        <4>2. \E new \in SmallPolicies : aMem' = [aMem EXCEPT ![q] = {new}]
          BY <3>1, <4>1, SmallPolicyChanges
        <4> QED
          BY <4>2 DEF AppInv, Perprocess
      <3>3. CASE ~(AddRule(q) \/ RemoveRule(q) \/ SetDefaultAction(q))
        <4>1. aMem' = aMem \/ aMem' = [aMem EXCEPT ![q] = {aStore}] \/ aMem' = [aMem EXCEPT ![q] = {}]
          BY <1>3, <3>3 DEF AppStep, OpenController, EndController, WritePolicy, RenamePolicy,
                            ClearCache, CheckApp
        <4> QED
          BY <3>1, <4>1 DEF AppInv, Perprocess, AppTypes
      <3> QED
        BY <3>2, <3>3
    <2>5. \A p \in DOMAIN aCache'[q] : p \in AppPaths /\ aCache'[q][p] \in AppActions
      <3>1. CASE aCache' = aCache \/ aCache'[q] = NoVerdicts
        BY <3>1 DEF AppTypes, NoVerdicts
      <3>2. ASSUME NEW p \in AppPaths, CheckApp(q, p)
            PROVE  \A x \in DOMAIN aCache'[q] : x \in AppPaths /\ aCache'[q][x] \in AppActions
        <4>1. PICK pol \in aMem[q] :
                aCache' = [aCache EXCEPT ![q] = [x \in DOMAIN aCache[q] \cup {p} |->
                  IF x = p THEN AppVerdict(pol, p, aFile[p]) ELSE aCache[q][x]]]
          BY <3>2 DEF CheckApp
        <4>2. AppVerdict(pol, p, aFile[p]) \in AppActions
          BY AppVerdictType DEF AppTypes
        <4>3. aCache'[q] = [x \in DOMAIN aCache[q] \cup {p} |->
                  IF x = p THEN AppVerdict(pol, p, aFile[p]) ELSE aCache[q][x]]
          BY <4>1 DEF AppInv, Perprocess
        <4> QED
          BY <4>2, <4>3 DEF AppTypes
      <3>3. (\E p \in AppPaths : CheckApp(q, p)) \/ aCache' = aCache \/ aCache'[q] = NoVerdicts
        BY <1>3 DEF AppStep, OpenController, EndController, AddRule, RemoveRule, SetDefaultAction,
               WritePolicy, RenamePolicy, ClearCache, SaveNext, AppInv, Perprocess
      <3> QED
        BY <3>1, <3>2, <3>3
    <2> QED
      BY <2>1, <2>2, <2>3, <2>4, <2>5 DEF AppTypes
  <1> QED
    BY <1>1, <1>2, <1>3 DEF AppNext

LEMMA AppInitTypes == AppInit => AppTypes
  <1> SUFFICES ASSUME AppInit PROVE AppTypes
    OBVIOUS
  <1>1. NoPolicy \in SmallPolicies
    BY AppAssumption DEF NoPolicy, SmallPolicies, AppActions
  <1>2. (CHOOSE c \in AppContents : TRUE) \in AppContents
    BY AppAssumption
  <1> QED
    BY <1>1, <1>2 DEF AppInit, AppTypes, NoVerdicts

LEMMA AppTypesHold == AppTypes => AppTypeOK
  BY DEF AppTypes, AppTypeOK, SmallPolicies

\* The versions an update deals with were published.
LEMMA UpdateTypesStep ==
  ASSUME UpdateInv, UpdateTypeOK, UpdateNext \/ UNCHANGED updateVars PROVE UpdateTypeOK'
  <1> USE UpdateAssumption DEF Versions
  <1>1. CASE UNCHANGED updateVars
    BY <1>1 DEF updateVars, UpdateTypeOK
  <1>2. CASE Release
    BY <1>2 DEF Release, UpdateTypeOK
  <1>3. ASSUME NEW v \in Versions, Expire(v) PROVE UpdateTypeOK'
    BY <1>3 DEF Expire, UpdateTypeOK
  <1>4. ASSUME NEW p \in UpdateProcs, NEW u \in UpdateRecord, Becomes(p, u),
               u.running \in 1..uPublished, u.target \in 1..uPublished, uPublished' = uPublished,
               uExpired' = uExpired, uInstalled'.version \in 1..uPublished, uBroken' \in BOOLEAN
        PROVE  UpdateTypeOK'
    <2>1. \A r \in UpdateProcs : uProc'[r] = IF r = p THEN u ELSE uProc[r]
      BY <1>4 DEF UpdateInv, Becomes
    <2> QED
      BY <1>4, <2>1 DEF UpdateTypeOK, UpdateRecord, UpdateSteps
  <1>5. /\ 1 \in 1..uPublished /\ uInstalled.version \in 1..uPublished
        /\ \A p \in UpdateProcs : /\ uProc[p].running \in 1..uPublished
                                  /\ uProc[p].target \in 1..uPublished /\ uProc[p] \in UpdateRecord
    BY DEF UpdateTypeOK, UpdateInv
  <1>6. ASSUME NEW p \in UpdateProcs, Fails(p), uPublished' = uPublished, uExpired' = uExpired,
               uInstalled'.version \in 1..uPublished, uBroken' \in BOOLEAN
        PROVE  UpdateTypeOK'
    <2>1. /\ NoUpdate \in UpdateRecord /\ Becomes(p, NoUpdate)
          /\ NoUpdate.running = 1 /\ NoUpdate.target = 1
      BY <1>6, NoUpdateIsVouched DEF Fails, Becomes, NoUpdate
    <2> QED
      BY <1>4, <1>5, <1>6, <2>1
  <1>7. ASSUME NEW p \in UpdateProcs, NEW force \in BOOLEAN, NEW allow \in BOOLEAN,
               BeginUpdate(p, force, allow)
        PROVE  UpdateTypeOK'
    <2> DEFINE u == [NoUpdate EXCEPT !.pc = "fetch", !.force = force, !.allow = allow,
                                     !.running = uInstalled.version]
    <2>1. /\ u \in UpdateRecord /\ u.running = uInstalled.version /\ u.target = NoUpdate.target
          /\ NoUpdate.target = 1
      <3>1. uInstalled.version \in Int /\ NoUpdate.target = 1
        BY DEF UpdateInv, NoUpdate
      <3> QED
        BY <3>1, NoUpdateIsVouched DEF UpdateRecord, UpdateSteps
    <2>2. Becomes(p, u) /\ u.running \in 1..uPublished /\ u.target \in 1..uPublished
      <3>1. Becomes(p, u)
        BY <1>7 DEF BeginUpdate, Becomes
      <3> HIDE DEF u
      <3> QED
        BY <1>5, <2>1, <3>1
    <2> HIDE DEF u
    <2> QED
      BY <1>4, <1>5, <1>7, <2>1, <2>2 DEF BeginUpdate, UpdateTypeOK
  <1>8. ASSUME NEW p \in UpdateProcs,
               \/ \E v \in Versions, signed \in BOOLEAN : Fetch(p, v, signed)
               \/ CheckExpiry(p) \/ Newer(p) \/ (\E got \in {"genuine", "other", "cut"} : Download(p, got))
               \/ \E installer \in BOOLEAN : Apply(p, installer)
        PROVE  UpdateTypeOK'
    <2>1. /\ uPublished' = uPublished /\ uExpired' = uExpired /\ uInstalled' = uInstalled
          /\ uBroken' = uBroken /\ uBroken \in BOOLEAN
      BY <1>8 DEF Fetch, CheckExpiry, Newer, Download, Apply, UpdateTypeOK
    <2>2. CASE Fails(p)
      BY <1>5, <1>6, <2>1, <2>2
    <2>3. ASSUME NEW pc \in UpdateSteps, Goes(p, pc) PROVE UpdateTypeOK'
      <3> DEFINE u == [uProc[p] EXCEPT !.pc = pc]
      <3>1. u \in UpdateRecord /\ u.running \in 1..uPublished /\ u.target \in 1..uPublished
        BY <1>5 DEF UpdateRecord
      <3>2. Becomes(p, u)
        BY <2>3 DEF Goes, Becomes
      <3> HIDE DEF u
      <3> QED
        BY <1>4, <1>5, <2>1, <3>1, <3>2
    <2>4. ASSUME NEW v \in 1..uPublished, uProc' = [uProc EXCEPT ![p].pc = "expiry", ![p].target = v]
          PROVE  UpdateTypeOK'
      <3> DEFINE u == [uProc[p] EXCEPT !.pc = "expiry", !.target = v]
      <3>0. v \in Int
        BY DEF UpdateTypeOK
      <3>1. u \in UpdateRecord /\ u.running \in 1..uPublished /\ u.target \in 1..uPublished
        BY <1>5, <3>0 DEF UpdateRecord, UpdateSteps
      <3>2. Becomes(p, u)
        BY <1>5, <2>4 DEF Becomes, UpdateRecord, UpdateInv
      <3> HIDE DEF u
      <3> QED
        BY <1>4, <1>5, <2>1, <3>1, <3>2
    <2>5. ASSUME NEW b \in BOOLEAN, uProc' = [uProc EXCEPT ![p].pc = "newer", ![p].stale = b]
          PROVE  UpdateTypeOK'
      <3> DEFINE u == [uProc[p] EXCEPT !.pc = "newer", !.stale = b]
      <3>1. u \in UpdateRecord /\ u.running \in 1..uPublished /\ u.target \in 1..uPublished
        BY <1>5 DEF UpdateRecord, UpdateSteps
      <3>2. Becomes(p, u)
        BY <1>5, <2>5 DEF Becomes, UpdateRecord, UpdateInv
      <3> HIDE DEF u
      <3> QED
        BY <1>4, <1>5, <2>1, <3>1, <3>2
    <2>6. ASSUME NEW b \in BOOLEAN, uProc' = [uProc EXCEPT ![p].pc = "apply", ![p].genuine = b]
          PROVE  UpdateTypeOK'
      <3> DEFINE u == [uProc[p] EXCEPT !.pc = "apply", !.genuine = b]
      <3>1. u \in UpdateRecord /\ u.running \in 1..uPublished /\ u.target \in 1..uPublished
        BY <1>5 DEF UpdateRecord, UpdateSteps
      <3>2. Becomes(p, u)
        BY <1>5, <2>6 DEF Becomes, UpdateRecord, UpdateInv
      <3> HIDE DEF u
      <3> QED
        BY <1>4, <1>5, <2>1, <3>1, <3>2
    <2>7. ASSUME NEW v \in Versions, NEW signed \in BOOLEAN, Fetch(p, v, signed) PROVE UpdateTypeOK'
      BY <2>2, <2>4, <2>7 DEF Fetch
    <2>8. CASE CheckExpiry(p)
      <3> DEFINE b == uProc[p].target \in uExpired
      <3>1. b \in BOOLEAN
        OBVIOUS
      <3>2. Fails(p) \/ uProc' = [uProc EXCEPT ![p].pc = "newer", ![p].stale = b]
        BY <2>8 DEF CheckExpiry
      <3> HIDE DEF b
      <3> QED
        BY <2>2, <2>5, <3>1, <3>2
    <2>9. CASE Newer(p)
      BY <2>2, <2>3, <2>9 DEF Newer, UpdateSteps
    <2>10. ASSUME NEW got, Download(p, got) PROVE UpdateTypeOK'
      <3> DEFINE b == got = "genuine"
      <3>1. b \in BOOLEAN
        OBVIOUS
      <3>2. Fails(p) \/ uProc' = [uProc EXCEPT ![p].pc = "apply", ![p].genuine = b]
        BY <2>10 DEF Download
      <3> HIDE DEF b
      <3> QED
        BY <2>2, <2>6, <3>1, <3>2
    <2>11. ASSUME NEW installer, Apply(p, installer) PROVE UpdateTypeOK'
      BY <2>2, <2>3, <2>11 DEF Apply, UpdateSteps
    <2> QED
      BY <1>8, <2>7, <2>8, <2>9, <2>10, <2>11
  <1>9. ASSUME NEW p \in UpdateProcs, NEW outcome \in {"ok", "error", "killed"},
               Install(p, outcome) \/ KillUpdate(p)
        PROVE  UpdateTypeOK'
    <2>1. uPublished' = uPublished /\ uExpired' = uExpired
      BY <1>9 DEF Install, KillUpdate
    <2>2. uInstalled'.version \in 1..uPublished
      BY <1>5, <1>9 DEF Install, KillUpdate
    <2>3. uBroken \in BOOLEAN
      BY DEF UpdateTypeOK
    <2>4. uBroken' \in BOOLEAN
      BY <1>9, <2>3 DEF Install, KillUpdate, InstallerRuns
    <2>5. CASE Fails(p)
      BY <1>6, <2>1, <2>2, <2>4, <2>5
    <2>6. CASE Goes(p, "orphan")
      <3> DEFINE u == [uProc[p] EXCEPT !.pc = "orphan"]
      <3>1. u \in UpdateRecord /\ u.running \in 1..uPublished /\ u.target \in 1..uPublished
        BY <1>5 DEF UpdateRecord, UpdateSteps
      <3>2. Becomes(p, u)
        BY <2>6 DEF Goes, Becomes
      <3> HIDE DEF u
      <3> QED
        BY <1>4, <1>5, <2>1, <2>2, <2>4, <3>1, <3>2
    <2> QED
      BY <1>9, <2>5, <2>6 DEF Install, KillUpdate
  <1> QED
    BY <1>1, <1>2, <1>3, <1>7, <1>8, <1>9 DEF UpdateNext

LEMMA UpdateInitTypes == UpdateInit => UpdateTypeOK
  <1> SUFFICES ASSUME UpdateInit PROVE UpdateTypeOK
    OBVIOUS
  <1>1. uPublished = 1 /\ 1 \in Versions /\ 1 \in 1..uPublished
    BY UpdateAssumption DEF UpdateInit, Versions
  <1>2. \A p \in UpdateProcs : /\ uProc[p].pc = "idle" /\ uProc[p].running = 1
                               /\ uProc[p].target = 1
    BY DEF UpdateInit, NoUpdate
  <1> QED
    BY <1>1, <1>2 DEF UpdateInit, UpdateTypeOK

GuardTypes ==
  RansomInv /\ AppInv /\ AppTypes /\ EnfInv /\ UpdateInv /\ UpdateTypeOK /\ ArchiveInv

(* Every variable of the components that decide and enforce has its type:  *)
(* whatever their steps, no policy, call, update or archive is malformed.  *)
THEOREM TypesHold == Spec => []TypeOK
  <1>1. GuardsInit => GuardTypes
    BY RansomInitInv, AppInitInv, AppInitTypes, EnfInitInv, UpdateInitInv, UpdateInitTypes,
       ArchiveInitInv DEF GuardsInit, GuardTypes
  <1>2. GuardTypes /\ [GuardsNext]_guardVars => GuardTypes'
    BY StepOfComponent, RansomStep, AppInvStep, AppTypesStep, EnfStep, UpdateStep,
       UpdateTypesStep, ArchiveStep DEF GuardTypes
  <1>3. GuardTypes => TypeOK
    BY RansomInvTypes, AppTypesHold, EnfInvKeepsWord, ArchiveInvReports DEF GuardTypes, TypeOK
  <1> QED
    BY <1>1, <1>2, <1>3, PTL DEF Spec
=============================================================================
