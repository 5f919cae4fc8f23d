----------------------------- MODULE WatchProofs -----------------------------
(***************************************************************************)
(* Theorems about the components of MCHostWatch for every value of their   *)
(* constants: any number of canaries and commands, processes, domains and  *)
(* providers, failing tools and analyses.                                  *)
(***************************************************************************)
EXTENDS MCHostWatch, FiniteSetTheorems, SequenceTheorems, WellFoundedInduction, TLAPS

\* A non-empty set of naturals has a least element.
LEMMA Least ==
  ASSUME NEW T \in SUBSET Nat, T # {}
  PROVE  \E x \in T : \A y \in T : x <= y
  <1>1. PICK x \in T : \A y \in T : ~(<<y, x>> \in OpToRel(<, Nat))
    BY NatLessThanWellFounded, WFMin, Zenon
  <1>2. \A y \in T : ~(y < x)
    BY <1>1 DEF OpToRel
  <1> QED
    BY <1>2

-----------------------------------------------------------------------------
\* A step is one of the subject or leaves a component's variables alone.
LEMMA StepOfComponent ==
  [WatchSpecNext]_hostVars => /\ CanaryNext \/ UNCHANGED canaryVars
                              /\ WatchNext \/ KillNext \/ UNCHANGED watchVars
                              /\ AutorunNext \/ UNCHANGED autorunVars
                              /\ ConnNext \/ UNCHANGED connVars
                              /\ WatchersNext \/ UNCHANGED watchersVars
                              /\ JobNext \/ UNCHANGED jobVars
                              /\ ResolverNext \/ UNCHANGED resolverVars
                              /\ DropNext \/ UNCHANGED dropVars
                              /\ SandboxNext \/ UNCHANGED sandboxVars
  BY DEF WatchSpecNext, Others, hostVars

-----------------------------------------------------------------------------
(* Canaries.                                                               *)

CanaryPcs == {"off", "deploy", "start", "check", "remove", "deploy-open", "start-open",
              "deploy-write", "start-write", "deploy-hash", "start-hash", "removed", "rename",
              "rename-loop", "loop", "checking"}
Opening == {"deploy-open", "start-open"}
Writing == {"deploy-write", "start-write"}
Hashing == {"deploy-hash", "start-hash"}
Checking == {"check", "checking"}
CanaryTypes ==
  /\ cFile \in [CanaryNames -> CanaryContents]
  /\ cTable = [p \in CanaryProcs |-> cTable[p]]
  /\ cPc \in [CanaryProcs -> CanaryPcs] /\ cWork \in [CanaryProcs -> SUBSET CanaryNames]
  /\ cReported \in SUBSET CanaryNames /\ cOurs \in SUBSET CanaryNames
  /\ cUnread \in SUBSET CanaryNames /\ cTouched \in SUBSET CanaryNames

(* A canary nobody touched or unlinked, nor opened a second time, is in    *)
(* its place, in every table that lists it and from its write to the       *)
(* reading of its hash; and a check visits only what its table lists.      *)
Excused == cTouched \cup cOurs \cup cUnread
Tables == {cIndex} \cup cTmp \cup {cTable[p] : p \in CanaryProcs}
IsTable(t) == DOMAIN t \subseteq CanaryNames /\ \A n \in DOMAIN t : t[n] \in CanaryContents \cup {""}
Fine(t, file, excused) ==
  IsTable(t) /\ \A n \in DOMAIN t \ excused : t[n] \in {"", "canary"} /\ file[n] = "canary"
CanaryPlaces(p) ==
  /\ cPc[p] \in Opening \cup Writing \cup Hashing => cWork[p] # {}
  /\ cPc[p] \in Writing => NextPath(p) \in Excused \/ cFile[NextPath(p)] # "none"
  /\ cPc[p] \in Hashing => NextPath(p) \in Excused \/ cFile[NextPath(p)] = "canary"
  /\ cPc[p] \in Checking => cWork[p] \subseteq DOMAIN cTable[p]
CanaryInv ==
  /\ CanaryTypes
  /\ \A t \in Tables : Fine(t, cFile, Excused)
  /\ \A p \in CanaryProcs : CanaryPlaces(p)
  /\ cReported \subseteq Excused

LEMMA NextPathIsWork ==
  ASSUME CanaryTypes, NEW p \in CanaryProcs, cWork[p] # {}
  PROVE  NextPath(p) \in cWork[p] /\ NextPath(p) \in CanaryNames
  <1>1. cWork[p] \in SUBSET Nat /\ cWork[p] \subseteq CanaryNames
    BY CanaryAssumption DEF CanaryTypes
  <1>2. \E x \in cWork[p] : \A y \in cWork[p] : x <= y
    BY <1>1, Least
  <1> QED
    BY <1>1, <1>2 DEF NextPath

LEMMA CanaryInitInv == CanaryInit => CanaryInv
  <1> SUFFICES ASSUME CanaryInit PROVE CanaryInv
    OBVIOUS
  <1>1. \A t \in Tables : t = NoTable
    BY DEF Tables, CanaryInit
  <1>2. \A t \in Tables : Fine(t, cFile, Excused)
    BY <1>1 DEF NoTable, Fine, IsTable
  <1> QED
    BY <1>2 DEF CanaryInit, CanaryInv, CanaryTypes, CanaryPcs, CanaryContents, CanaryPlaces,
                Opening, Writing, Hashing, Checking

LEMMA CanaryInvHolds == CanaryInv => CanaryTypeOK /\ CanaryAlarmsAreEarned
  <1> SUFFICES ASSUME CanaryInv PROVE CanaryTypeOK /\ CanaryAlarmsAreEarned
    OBVIOUS
  <1>1. \A t \in Tables :
          DOMAIN t \subseteq CanaryNames /\ {t[n] : n \in DOMAIN t} \subseteq CanaryContents \cup {""}
    BY DEF CanaryInv, Fine, IsTable
  <1> QED
    BY <1>1 DEF CanaryInv, CanaryTypes, CanaryTypeOK, CanaryAlarmsAreEarned, Excused, Tables

(* What a step keeps: what is excused stays so, and an intact file stays.  *)
FilesStay == /\ cFile' \in [CanaryNames -> CanaryContents]
             /\ Excused \subseteq Excused'
             /\ \A n \in CanaryNames \ Excused' :
                  /\ cFile[n] = "canary" => cFile'[n] = "canary"
                  /\ cFile[n] # "none" => cFile'[n] # "none"

LEMMA FineStays ==
  ASSUME FilesStay, NEW t, Fine(t, cFile, Excused)
  PROVE  Fine(t, cFile', Excused')
  BY DEF FilesStay, Fine, IsTable

LEMMA PlacesStay ==
  ASSUME CanaryInv, FilesStay, NEW q \in CanaryProcs, cPc'[q] = cPc[q], cWork'[q] = cWork[q],
         cTable'[q] = cTable[q]
  PROVE  CanaryPlaces(q)'
  <1>1. CanaryPlaces(q) /\ CanaryTypes
    BY DEF CanaryInv
  <1>2. NextPath(q)' = NextPath(q)
    BY DEF NextPath
  <1>3. cPc[q] \in Writing \cup Hashing => NextPath(q) \in CanaryNames
    BY <1>1, NextPathIsWork DEF CanaryPlaces
  <1>4. /\ cPc[q] \in Writing => NextPath(q)' \in Excused' \/ cFile'[NextPath(q)'] # "none"
        /\ cPc[q] \in Hashing => NextPath(q)' \in Excused' \/ cFile'[NextPath(q)'] = "canary"
    BY <1>1, <1>2, <1>3 DEF CanaryPlaces, FilesStay
  <1> QED
    BY <1>1, <1>4 DEF CanaryPlaces

\* One process moves, the others stay where they are.
LEMMA OneCanaryMove ==
  ASSUME CanaryInv, FilesStay, CanaryTypes', NEW p \in CanaryProcs,
         \A q \in CanaryProcs \ {p} : /\ cPc'[q] = cPc[q] /\ cWork'[q] = cWork[q]
                                       /\ cTable'[q] = cTable[q],
         \A t \in Tables' : t \in Tables \/ Fine(t, cFile', Excused'),
         CanaryPlaces(p)', cReported' \subseteq Excused'
  PROVE  CanaryInv'
  <1>1. \A t \in Tables' : Fine(t, cFile', Excused')
    BY FineStays DEF CanaryInv
  <1>2. \A q \in CanaryProcs : CanaryPlaces(q)'
    <2> TAKE q \in CanaryProcs
    <2>1. CASE q = p
      BY <2>1
    <2>2. CASE q # p
      BY <2>2, PlacesStay
    <2> QED
      BY <2>1, <2>2
  <1> QED
    BY <1>1, <1>2 DEF CanaryInv

LEMMA CanaryStepTypes ==
  ASSUME CanaryTypes, NEW p \in CanaryProcs
  PROVE  /\ \A l \in CanaryPcs : CanaryAt(p, l) =>
              /\ cPc' \in [CanaryProcs -> CanaryPcs] /\ cPc'[p] = l
              /\ \A q \in CanaryProcs \ {p} : cPc'[q] = cPc[q]
         /\ \A n : PathDone(p, n) =>
              /\ cWork' \in [CanaryProcs -> SUBSET CanaryNames] /\ cWork'[p] = cWork[p] \ {n}
              /\ \A q \in CanaryProcs \ {p} : cWork'[q] = cWork[q]
         /\ \A S \in SUBSET CanaryNames : cWork' = [cWork EXCEPT ![p] = S] =>
              /\ cWork' \in [CanaryProcs -> SUBSET CanaryNames] /\ cWork'[p] = S
              /\ \A q \in CanaryProcs \ {p} : cWork'[q] = cWork[q]
         /\ \A t : cTable' = [cTable EXCEPT ![p] = t] =>
              /\ cTable' = [q \in CanaryProcs |-> cTable'[q]] /\ cTable'[p] = t
              /\ \A q \in CanaryProcs \ {p} : cTable'[q] = cTable[q]
  BY DEF CanaryTypes, CanaryAt, PathDone

\* Files and tables are as they were.
LEMMA QuietMove ==
  ASSUME CanaryInv, NEW p \in CanaryProcs,
         UNCHANGED <<cFile, cIndex, cTmp, cTable, cOurs, cTouched>>,
         cUnread' \in SUBSET CanaryNames, cUnread \subseteq cUnread',
         cPc' \in [CanaryProcs -> CanaryPcs], cWork' \in [CanaryProcs -> SUBSET CanaryNames],
         \A q \in CanaryProcs \ {p} : cPc'[q] = cPc[q] /\ cWork'[q] = cWork[q],
         cReported' \in SUBSET CanaryNames, cReported' \subseteq Excused', CanaryPlaces(p)'
  PROVE  CanaryInv'
  <1>1. FilesStay /\ Tables' = Tables /\ CanaryTypes'
    BY DEF CanaryInv, FilesStay, Excused, Tables, CanaryTypes
  <1> QED
    BY <1>1, OneCanaryMove

LEMMA StartCommandStep ==
  ASSUME CanaryInv, NEW p \in CanaryProcs, StartCommand(p)
  PROVE  CanaryInv'
  <1>1. PICK c \in {"deploy", "start", "check", "remove"} :
          /\ CanaryAt(p, c)
          /\ LET remaining == MaxPerDir - Cardinality(DOMAIN cIndex) IN
             cWork' = [cWork EXCEPT ![p] =
               CASE c \in {"deploy", "start"} -> {n \in CanaryNames : n <= remaining}
                 [] c \in {"check", "remove"} -> DOMAIN cIndex]
    BY DEF StartCommand
  <1>2. DOMAIN cIndex \in SUBSET CanaryNames
    BY DEF CanaryInv, Tables, Fine, IsTable
  <1>3. PICK S \in SUBSET CanaryNames :
          cWork' = [cWork EXCEPT ![p] = S] /\ (c = "check" => S = DOMAIN cIndex)
    BY <1>1, <1>2
  <1>4. CanaryTypes /\ c \in CanaryPcs /\ cTable' = [cTable EXCEPT ![p] = cIndex]
    BY DEF CanaryInv, CanaryPcs, StartCommand
  <1>5. /\ cPc' \in [CanaryProcs -> CanaryPcs] /\ cPc'[p] = c
        /\ cWork' \in [CanaryProcs -> SUBSET CanaryNames] /\ cWork'[p] = S
        /\ cTable' = [q \in CanaryProcs |-> cTable'[q]] /\ cTable'[p] = cIndex
        /\ \A q \in CanaryProcs \ {p} : /\ cPc'[q] = cPc[q] /\ cWork'[q] = cWork[q]
                                         /\ cTable'[q] = cTable[q]
    BY <1>1, <1>3, <1>4, CanaryStepTypes
  <1>6. FilesStay /\ Excused' = Excused /\ CanaryTypes' /\ cReported' = cReported
    BY <1>4, <1>5 DEF StartCommand, FilesStay, Excused, CanaryTypes, canaryHistory
  <1>7. \A t \in Tables' : t \in Tables
    BY <1>5 DEF Tables, StartCommand
  <1>8. CanaryPlaces(p)'
    BY <1>3, <1>5 DEF CanaryPlaces, Opening, Writing, Hashing, Checking
  <1>9. cReported' \subseteq Excused'
    BY <1>6 DEF CanaryInv
  <1> QED
    BY <1>5, <1>6, <1>7, <1>8, <1>9, OneCanaryMove

LEMMA DeployPathStep ==
  ASSUME CanaryInv, NEW p \in CanaryProcs, SkipPath(p) \/ FoundFree(p) \/ WriteFails(p)
  PROVE  CanaryInv'
  <1>1. /\ UNCHANGED <<cFile, cIndex, cTmp, cTable, cOurs, cUnread, cTouched, cReported>>
        /\ cReported \in SUBSET CanaryNames /\ cReported' \subseteq Excused' /\ CanaryTypes
        /\ cUnread' \in SUBSET CanaryNames
    BY DEF SkipPath, FoundFree, WriteFails, CanaryInv, CanaryTypes, canaryHistory, Excused
  <1>2. CASE SkipPath(p)
    <2>1. PathDone(p, NextPath(p)) /\ cPc' = cPc /\ cPc[p] \in {"deploy", "start"}
      BY <1>2 DEF SkipPath, Deploying
    <2>2. /\ cWork' \in [CanaryProcs -> SUBSET CanaryNames]
          /\ \A q \in CanaryProcs \ {p} : cWork'[q] = cWork[q]
      BY <1>1, <2>1, CanaryStepTypes
    <2>3. cPc' \in [CanaryProcs -> CanaryPcs] /\ CanaryPlaces(p)'
      BY <1>1, <2>1 DEF CanaryTypes, CanaryPlaces, Opening, Writing, Hashing, Checking
    <2> QED
      BY <1>1, <2>1, <2>2, <2>3, QuietMove
  <1>3. CASE FoundFree(p)
    <2>1. PICK l \in Opening : CanaryAt(p, l)
      BY <1>3 DEF FoundFree, Opening
    <2>2. cWork' = cWork /\ cWork[p] # {} /\ l \in CanaryPcs
      BY <1>3 DEF FoundFree, Deploying, Opening, CanaryPcs
    <2>3. /\ cPc' \in [CanaryProcs -> CanaryPcs] /\ cPc'[p] = l
          /\ \A q \in CanaryProcs \ {p} : cPc'[q] = cPc[q]
      BY <1>1, <2>1, <2>2, CanaryStepTypes
    <2>4. CanaryPlaces(p)'
      BY <2>2, <2>3 DEF CanaryPlaces, Opening, Writing, Hashing, Checking
    <2>5. cWork' \in [CanaryProcs -> SUBSET CanaryNames]
      BY <1>1, <2>2 DEF CanaryTypes
    <2> QED
      BY <1>1, <2>2, <2>3, <2>4, <2>5, QuietMove
  <1>4. CASE WriteFails(p)
    <2>1. PICK l \in {"deploy", "start"} : CanaryAt(p, l)
      BY <1>4 DEF WriteFails
    <2>2. PathDone(p, NextPath(p)) /\ l \in CanaryPcs
      BY <1>4 DEF WriteFails, CanaryPcs
    <2>3. /\ cPc' \in [CanaryProcs -> CanaryPcs] /\ cPc'[p] = l
          /\ cWork' \in [CanaryProcs -> SUBSET CanaryNames]
          /\ \A q \in CanaryProcs \ {p} : cPc'[q] = cPc[q] /\ cWork'[q] = cWork[q]
      BY <1>1, <2>1, <2>2, CanaryStepTypes
    <2>4. CanaryPlaces(p)'
      BY <2>3 DEF CanaryPlaces, Opening, Writing, Hashing, Checking
    <2> QED
      BY <1>1, <2>3, <2>4, QuietMove
  <1> QED
    BY <1>2, <1>3, <1>4

\* A path somebody lists and nobody disturbed holds a canary: it is not opened.
LEMMA OpenCanaryStep ==
  ASSUME CanaryInv, NEW p \in CanaryProcs, OpenCanary(p)
  PROVE  CanaryInv'
  <1>1. CanaryTypes /\ cPc[p] \in Opening /\ cWork[p] # {}
    BY DEF CanaryInv, OpenCanary, CanaryPlaces, Opening
  <1>2. NextPath(p) \in CanaryNames
    BY <1>1, NextPathIsWork
  <1>3. PICK n \in CanaryNames : n = NextPath(p)
    BY <1>2
  <1>4. /\ cFile' = [cFile EXCEPT ![n] = "empty"]
        /\ cOurs' = IF cFile[n] = "none" THEN cOurs ELSE cOurs \cup {n}
        /\ UNCHANGED <<cIndex, cTmp, cTable, cWork, cReported, cUnread, cTouched>>
    BY <1>3 DEF OpenCanary
  <1>5. PICK l \in Writing : CanaryAt(p, l)
    BY DEF OpenCanary, Writing
  <1>6. /\ cPc' \in [CanaryProcs -> CanaryPcs] /\ cPc'[p] = l
        /\ \A q \in CanaryProcs \ {p} : cPc'[q] = cPc[q]
    BY <1>1, <1>5, CanaryStepTypes DEF Writing, CanaryPcs
  <1>7. FilesStay /\ CanaryTypes' /\ Tables' = Tables
    BY <1>1, <1>4, <1>6 DEF FilesStay, Excused, CanaryTypes, Tables, CanaryContents
  <1>8. NextPath(p)' = n
    BY <1>3, <1>4 DEF NextPath
  <1>9. cFile'[n] = "empty"
    BY <1>1, <1>4 DEF CanaryTypes
  <1>10. CanaryPlaces(p)'
    BY <1>1, <1>4, <1>6, <1>8, <1>9 DEF CanaryPlaces, Opening, Hashing, Writing, Checking
  <1>11. cReported' \subseteq Excused'
    BY <1>4, <1>7 DEF CanaryInv, FilesStay
  <1> QED
    BY <1>4, <1>6, <1>7, <1>10, <1>11, OneCanaryMove

LEMMA WriteCanaryStep ==
  ASSUME CanaryInv, NEW p \in CanaryProcs, WriteCanary(p)
  PROVE  CanaryInv'
  <1>1. CanaryTypes /\ CanaryPlaces(p) /\ cPc[p] \in Writing /\ cWork[p] # {}
    BY DEF CanaryInv, WriteCanary, CanaryPlaces, Writing
  <1>2. NextPath(p) \in CanaryNames
    BY <1>1, NextPathIsWork
  <1>3. PICK n \in CanaryNames : n = NextPath(p)
    BY <1>2
  <1>4. /\ cFile' = IF cFile[n] = "none" THEN cFile ELSE [cFile EXCEPT ![n] = "canary"]
        /\ UNCHANGED <<cIndex, cTmp, cTable, cWork, cReported, cOurs, cUnread, cTouched>>
    BY <1>3 DEF WriteCanary, canaryHistory
  <1>5. PICK l \in Hashing : CanaryAt(p, l)
    BY DEF WriteCanary, Hashing
  <1>6. /\ cPc' \in [CanaryProcs -> CanaryPcs] /\ cPc'[p] = l
        /\ \A q \in CanaryProcs \ {p} : cPc'[q] = cPc[q]
    BY <1>1, <1>5, CanaryStepTypes DEF Hashing, CanaryPcs
  <1>7. FilesStay /\ Excused' = Excused /\ CanaryTypes' /\ Tables' = Tables
    BY <1>1, <1>4, <1>6 DEF FilesStay, Excused, CanaryTypes, Tables, CanaryContents
  <1>8. NextPath(p)' = n
    BY <1>3, <1>4 DEF NextPath
  <1>9. n \in Excused' \/ cFile'[n] = "canary"
    BY <1>1, <1>3, <1>4, <1>7 DEF CanaryTypes, CanaryPlaces
  <1>10. CanaryPlaces(p)'
    BY <1>1, <1>4, <1>6, <1>8, <1>9 DEF CanaryPlaces, Opening, Hashing, Writing, Checking
  <1>11. cReported' \subseteq Excused'
    BY <1>4, <1>7 DEF CanaryInv
  <1> QED
    BY <1>4, <1>6, <1>7, <1>10, <1>11, OneCanaryMove

LEMMA RecordCanaryStep ==
  ASSUME CanaryInv, NEW p \in CanaryProcs, RecordCanary(p)
  PROVE  CanaryInv'
  <1>1. CanaryTypes /\ cPc[p] \in Hashing /\ CanaryPlaces(p) /\ cWork[p] # {}
    BY DEF CanaryInv, RecordCanary, CanaryPlaces, Hashing
  <1>2. NextPath(p) \in CanaryNames
    BY <1>1, NextPathIsWork
  <1>3. PICK n \in CanaryNames : n = NextPath(p)
    BY <1>2
  <1>4. PICK h \in HashesOf(n) : cTable' = [cTable EXCEPT ![p] = WithCanary(p, n, h)]
    BY <1>3 DEF RecordCanary
  <1>5. PICK t : t = WithCanary(p, n, h)
    OBVIOUS
  <1>6. /\ cTable' = [cTable EXCEPT ![p] = t] /\ PathDone(p, n)
        /\ UNCHANGED <<cFile, cIndex, cTmp, cReported, cOurs, cUnread, cTouched>>
    BY <1>3, <1>4, <1>5 DEF RecordCanary, canaryHistory
  <1>7. PICK l \in {"deploy", "start"} : CanaryAt(p, l) /\ l \in CanaryPcs
    BY DEF RecordCanary, CanaryPcs
  <1>8. /\ cPc' \in [CanaryProcs -> CanaryPcs] /\ cPc'[p] = l
         /\ \A q \in CanaryProcs \ {p} : cPc'[q] = cPc[q]
    BY <1>1, <1>7, CanaryStepTypes
  <1>9. /\ cWork' \in [CanaryProcs -> SUBSET CanaryNames]
         /\ \A q \in CanaryProcs \ {p} : cWork'[q] = cWork[q]
    BY <1>1, <1>6, CanaryStepTypes
  <1>10. /\ cTable' = [q \in CanaryProcs |-> cTable'[q]] /\ cTable'[p] = t
         /\ \A q \in CanaryProcs \ {p} : cTable'[q] = cTable[q]
    BY <1>1, <1>6, CanaryStepTypes
  <1>11. FilesStay /\ Excused' = Excused /\ CanaryTypes' /\ cFile' = cFile
    BY <1>1, <1>6, <1>8, <1>9, <1>10 DEF FilesStay, Excused, CanaryTypes
  <1>12. Fine(cTable[p], cFile, Excused)
    BY DEF CanaryInv, Tables
  <1>13. h \in CanaryContents \cup {""} /\ (n \notin Excused => h \in {"", "canary"} /\ cFile[n] = "canary")
    <2>1. n \notin Excused => cFile[n] = "canary"
      BY <1>1, <1>3 DEF CanaryPlaces
    <2>2. h = "" \/ h = cFile[n]
      BY <1>4 DEF HashesOf
    <2> QED
      BY <1>1, <2>1, <2>2 DEF CanaryTypes
  <1>14. Fine(t, cFile, Excused)
    BY <1>5, <1>12, <1>13 DEF Fine, IsTable, WithCanary
  <1>15. \A r \in Tables' : r \in Tables \/ Fine(r, cFile', Excused')
    BY <1>6, <1>8, <1>9, <1>10, <1>11, <1>14 DEF Tables
  <1>16. CanaryPlaces(p)'
    BY <1>8, <1>9, <1>10 DEF CanaryPlaces, Opening, Hashing, Writing, Checking
  <1>17. cReported' \subseteq Excused'
    BY <1>6, <1>11 DEF CanaryInv
  <1> QED
    BY <1>8, <1>9, <1>10, <1>11, <1>15, <1>16, <1>17, OneCanaryMove

LEMMA RemoveOneStep ==
  ASSUME CanaryInv, NEW p \in CanaryProcs, RemoveOne(p)
  PROVE  CanaryInv'
  <1>1. CanaryTypes /\ cPc[p] = "remove" /\ cWork[p] # {}
    BY DEF CanaryInv, RemoveOne
  <1>2. NextPath(p) \in CanaryNames
    BY <1>1, NextPathIsWork
  <1>3. PICK n \in CanaryNames : n = NextPath(p)
    BY <1>2
  <1>4. /\ PathDone(p, n)
        /\ \/ cFile' = [cFile EXCEPT ![n] = "none"] /\ cOurs' = cOurs \cup {n}
           \/ UNCHANGED <<cFile, cOurs>>
        /\ UNCHANGED <<cIndex, cTmp, cTable, cPc, cReported, cUnread, cTouched>>
    BY <1>3 DEF RemoveOne
  <1>5. /\ cWork' \in [CanaryProcs -> SUBSET CanaryNames]
        /\ \A q \in CanaryProcs \ {p} : cWork'[q] = cWork[q]
    BY <1>1, <1>4, CanaryStepTypes
  <1>6. FilesStay /\ CanaryTypes'
    BY <1>1, <1>4, <1>5 DEF FilesStay, Excused, CanaryTypes, CanaryContents
  <1>7. Tables' = Tables
    BY <1>4 DEF Tables
  <1>8. CanaryPlaces(p)'
    BY <1>1, <1>4 DEF CanaryPlaces, Opening, Hashing, Writing, Checking
  <1>9. cReported' \subseteq Excused'
    BY <1>4, <1>6 DEF CanaryInv, FilesStay
  <1> QED
    BY <1>4, <1>5, <1>6, <1>7, <1>8, <1>9, OneCanaryMove

\* A table is emptied: remove_all, or the end of its process.
LEMMA ClearTableStep ==
  ASSUME CanaryInv, NEW p \in CanaryProcs, ClearTable(p) \/ KillCanary(p)
  PROVE  CanaryInv'
  <1>1. CanaryTypes /\ cTable' = [cTable EXCEPT ![p] = NoTable]
        /\ UNCHANGED <<cFile, cIndex, cTmp, cReported, cTouched, cOurs, cUnread>>
    BY DEF CanaryInv, ClearTable, KillCanary, canaryHistory
  <1>2. PICK l \in {"removed", "off"} : CanaryAt(p, l) /\ l \in CanaryPcs
    BY DEF ClearTable, KillCanary, CanaryPcs
  <1>3. PICK S \in SUBSET CanaryNames : cWork' = [cWork EXCEPT ![p] = S]
    <2>1. CASE ClearTable(p)
      <3>1. cWork' = [cWork EXCEPT ![p] = cWork[p]] /\ cWork[p] \in SUBSET CanaryNames
        BY <1>1, <2>1 DEF ClearTable, CanaryTypes
      <3> QED
        BY <3>1
    <2>2. CASE KillCanary(p)
      <3>1. cWork' = [cWork EXCEPT ![p] = {}]
        BY <2>2 DEF KillCanary
      <3> QED
        BY <3>1
    <2> QED
      BY <2>1, <2>2
  <1>4. /\ cPc' \in [CanaryProcs -> CanaryPcs] /\ cPc'[p] = l
        /\ cWork' \in [CanaryProcs -> SUBSET CanaryNames]
        /\ cTable' = [q \in CanaryProcs |-> cTable'[q]] /\ cTable'[p] = NoTable
        /\ \A q \in CanaryProcs \ {p} : /\ cPc'[q] = cPc[q] /\ cWork'[q] = cWork[q]
                                         /\ cTable'[q] = cTable[q]
    BY <1>1, <1>2, <1>3, CanaryStepTypes
  <1>5. FilesStay /\ Excused' = Excused /\ CanaryTypes'
    BY <1>1, <1>4 DEF FilesStay, Excused, CanaryTypes
  <1>6. Fine(NoTable, cFile', Excused')
    BY DEF Fine, IsTable, NoTable
  <1>7. \A r \in Tables' : r \in Tables \/ Fine(r, cFile', Excused')
    BY <1>1, <1>4, <1>6 DEF Tables
  <1>8. CanaryPlaces(p)'
    BY <1>4 DEF CanaryPlaces, Opening, Hashing, Writing, Checking
  <1>9. cReported' \subseteq Excused'
    BY <1>1, <1>5 DEF CanaryInv
  <1> QED
    BY <1>4, <1>5, <1>7, <1>8, <1>9, OneCanaryMove

LEMMA SaveIndexStep ==
  ASSUME CanaryInv, NEW p \in CanaryProcs, WriteIndexTmp(p) \/ RenameIndexTmp(p)
  PROVE  CanaryInv'
  <1>1. CanaryTypes /\ UNCHANGED <<cFile, cTable, cWork, cReported, cTouched, cOurs, cUnread>>
    BY DEF CanaryInv, WriteIndexTmp, RenameIndexTmp, canaryHistory
  <1>2. PICK l \in {"rename-loop", "rename", "loop", "off"} : CanaryAt(p, l)
    BY DEF WriteIndexTmp, RenameIndexTmp
  <1>3. /\ cPc' \in [CanaryProcs -> CanaryPcs] /\ cPc'[p] = l
        /\ \A q \in CanaryProcs \ {p} : cPc'[q] = cPc[q]
    BY <1>1, <1>2, CanaryStepTypes DEF CanaryPcs
  <1>4. FilesStay /\ Excused' = Excused /\ CanaryTypes'
    BY <1>1, <1>3 DEF FilesStay, Excused, CanaryTypes
  <1>5. \A r \in Tables' : r \in Tables
    BY <1>1 DEF Tables, WriteIndexTmp, RenameIndexTmp
  <1>6. CanaryPlaces(p)'
    BY <1>3 DEF CanaryPlaces, Opening, Hashing, Writing, Checking
  <1>7. cReported' \subseteq Excused'
    BY <1>1, <1>4 DEF CanaryInv
  <1> QED
    BY <1>1, <1>3, <1>4, <1>5, <1>6, <1>7, OneCanaryMove

(* An alarm of a check: the table lists the path, and where nobody         *)
(* disturbed it and it could be read, table and file agree.                *)
LEMMA CheckStep ==
  ASSUME CanaryInv, NEW p \in CanaryProcs, CheckOne(p) \/ EndCheck(p) \/ LoopRound(p)
  PROVE  CanaryInv'
  <1>1. /\ CanaryTypes /\ CanaryPlaces(p) /\ Fine(cTable[p], cFile, Excused)
        /\ UNCHANGED <<cFile, cIndex, cTmp, cTable, cTouched, cOurs>>
        /\ cReported \in SUBSET CanaryNames /\ cReported \subseteq Excused
    BY DEF CanaryInv, CheckOne, EndCheck, LoopRound, CanaryTypes, Tables, canaryHistory
  <1>2. CASE CheckOne(p)
    <2>1. cPc[p] \in Checking /\ cWork[p] # {} /\ cPc' = cPc
      BY <1>2 DEF CheckOne, Checking
    <2>2. NextPath(p) \in cWork[p] /\ NextPath(p) \in CanaryNames
      BY <1>1, <2>1, NextPathIsWork
    <2>3. PICK n \in CanaryNames : n = NextPath(p)
      BY <2>2
    <2>4. n \in DOMAIN cTable[p]
      BY <1>1, <2>1, <2>2, <2>3 DEF CanaryPlaces
    <2>5. PICK h \in HashesOf(n) :
            /\ cReported' = IF Alarms(cTable[p][n], h, n) THEN cReported \cup {n} ELSE cReported
            /\ cUnread' = IF h = "" /\ cFile[n] # "none" THEN cUnread \cup {n} ELSE cUnread
      BY <1>2, <2>3 DEF CheckOne
    <2>6. cUnread \subseteq cUnread' /\ cUnread' \in SUBSET CanaryNames
      BY <1>1, <2>5 DEF CanaryTypes
    <2>9. Alarms(cTable[p][n], h, n) => n \in Excused'
      <3>1. SUFFICES ASSUME n \notin Excused' PROVE ~Alarms(cTable[p][n], h, n)
        OBVIOUS
      <3>2. n \notin Excused /\ n \notin cUnread'
        BY <1>1, <2>6, <3>1 DEF Excused
      <3>3. cTable[p][n] \in {"", "canary"} /\ cFile[n] = "canary"
        BY <1>1, <2>4, <3>2 DEF Fine
      <3>4. h = "canary"
        BY <2>5, <3>2, <3>3 DEF HashesOf
      <3> QED
        BY <3>3, <3>4 DEF Alarms, HashMatches
    <2>10. cReported' \in SUBSET CanaryNames /\ cReported' \subseteq Excused'
      BY <1>1, <2>3, <2>5, <2>6, <2>9 DEF Excused
    <2>7. /\ cWork' \in [CanaryProcs -> SUBSET CanaryNames] /\ cWork'[p] = cWork[p] \ {n}
          /\ \A q \in CanaryProcs \ {p} : cWork'[q] = cWork[q]
      BY <1>1, <1>2, <2>3, CanaryStepTypes DEF CheckOne
    <2>8. CanaryPlaces(p)' /\ cPc' \in [CanaryProcs -> CanaryPcs]
      BY <1>1, <2>1, <2>7 DEF CanaryPlaces, Opening, Hashing, Writing, Checking, CanaryTypes
    <2> QED
      BY <1>1, <2>1, <2>6, <2>7, <2>8, <2>10, QuietMove
  <1>3. CASE EndCheck(p)
    <2>1. PICK l \in {"off", "loop"} : CanaryAt(p, l)
      BY <1>3 DEF EndCheck
    <2>2. /\ cPc' \in [CanaryProcs -> CanaryPcs] /\ cPc'[p] = l
          /\ \A q \in CanaryProcs \ {p} : cPc'[q] = cPc[q]
      BY <1>1, <2>1, CanaryStepTypes DEF CanaryPcs
    <2>3. /\ cWork' = cWork /\ cReported' = cReported /\ cWork' \in [CanaryProcs -> SUBSET CanaryNames]
          /\ cUnread' = cUnread /\ cUnread \in SUBSET CanaryNames /\ Excused' = Excused
      BY <1>1, <1>3 DEF EndCheck, CanaryTypes, canaryHistory, Excused
    <2>4. CanaryPlaces(p)'
      BY <2>2 DEF CanaryPlaces, Opening, Hashing, Writing, Checking
    <2> QED
      BY <1>1, <2>2, <2>3, <2>4, QuietMove
  <1>4. CASE LoopRound(p)
    <2>1. PICK S \in SUBSET CanaryNames : S = DOMAIN cTable[p]
      BY <1>1 DEF Fine, IsTable
    <2>2. /\ CanaryAt(p, "checking") /\ cWork' = [cWork EXCEPT ![p] = S]
          /\ cReported' = cReported /\ Excused' = Excused
          /\ cUnread' = cUnread /\ cUnread \in SUBSET CanaryNames
      BY <1>1, <1>4, <2>1 DEF LoopRound, CanaryTypes, canaryHistory, Excused
    <2>3. /\ cPc' \in [CanaryProcs -> CanaryPcs] /\ cPc'[p] = "checking"
          /\ cWork' \in [CanaryProcs -> SUBSET CanaryNames] /\ cWork'[p] = S
          /\ \A q \in CanaryProcs \ {p} : cPc'[q] = cPc[q] /\ cWork'[q] = cWork[q]
      BY <1>1, <2>2, CanaryStepTypes DEF CanaryPcs
    <2>4. CanaryPlaces(p)'
      BY <1>1, <2>1, <2>3 DEF CanaryPlaces, Opening, Hashing, Writing, Checking
    <2> QED
      BY <1>1, <2>2, <2>3, <2>4, QuietMove
  <1> QED
    BY <1>2, <1>3, <1>4

LEMMA TouchStep ==
  ASSUME CanaryInv, NEW n \in CanaryNames, Touch(n)
  PROVE  CanaryInv'
  <1>1. CanaryTypes /\ UNCHANGED <<cIndex, cTmp, cTable, cPc, cWork, cReported, cOurs, cUnread>>
    BY DEF CanaryInv, Touch
  <1>2. PICK c \in {"none", "other"} : cFile' = [cFile EXCEPT ![n] = c]
    BY DEF Touch
  <1>3. FilesStay /\ CanaryTypes' /\ Tables' = Tables
    BY <1>1, <1>2 DEF FilesStay, Excused, CanaryTypes, CanaryContents, Touch, Tables
  <1>4. \A t \in Tables' : Fine(t, cFile', Excused')
    BY <1>3, FineStays DEF CanaryInv
  <1>5. \A p \in CanaryProcs : CanaryPlaces(p)'
    BY <1>1, <1>3, PlacesStay
  <1> QED
    BY <1>1, <1>3, <1>4, <1>5 DEF CanaryInv, FilesStay

LEMMA CanaryInvStep == CanaryInv /\ (CanaryNext \/ UNCHANGED canaryVars) => CanaryInv'
  <1> SUFFICES ASSUME CanaryInv, CanaryNext \/ UNCHANGED canaryVars PROVE CanaryInv'
    OBVIOUS
  <1>1. CASE UNCHANGED canaryVars
    <2>1. UNCHANGED <<cFile, cIndex, cTmp, cTable, cPc, cWork, cReported, cOurs, cUnread, cTouched>>
      BY <1>1 DEF canaryVars, canaryHistory
    <2>2. CanaryTypes' /\ Tables' = Tables /\ Excused' = Excused
      BY <2>1 DEF CanaryInv, CanaryTypes, Tables, Excused
    <2>3. \A t \in Tables' : Fine(t, cFile', Excused')
      BY <2>1, <2>2 DEF CanaryInv
    <2>4. FilesStay
      BY <2>1, <2>2 DEF FilesStay, CanaryInv, CanaryTypes
    <2>5. \A p \in CanaryProcs : CanaryPlaces(p)'
      BY <2>1, <2>4, PlacesStay
    <2> QED
      BY <2>1, <2>2, <2>3, <2>5 DEF CanaryInv
  <1>2. ASSUME NEW p \in CanaryProcs, CanaryStep(p) PROVE CanaryInv'
    BY <1>2, StartCommandStep, DeployPathStep, OpenCanaryStep, WriteCanaryStep, RecordCanaryStep, RemoveOneStep,
       ClearTableStep, SaveIndexStep, CheckStep DEF CanaryStep
  <1>3. ASSUME NEW n \in CanaryNames, Touch(n) PROVE CanaryInv'
    BY <1>3, TouchStep
  <1> QED
    BY <1>1, <1>2, <1>3 DEF CanaryNext

-----------------------------------------------------------------------------
(* Processes.                                                              *)

Process(births) == [inc : 0..births, ppid : WatchedPids \cup {0}, name : ProcNames]
KillPcs == {"idle", "term", "poll", "wait", "kill", "kill-poll", "taskkill", "killed"}
ProcTypes ==
  /\ wBirths \in 0..MaxBirths /\ wHost \in {"linux", "windows"}
  /\ wProc \in [WatchedPids -> Process(wBirths)] /\ wTable \in [WatchedPids -> Process(wBirths)]
  /\ wKnown \in SUBSET WatchedPids /\ wCurrent \in SUBSET WatchedPids
  /\ wNew \in SUBSET WatchedPids /\ wDead \in SUBSET WatchedPids
  /\ wReported \in SUBSET (1..wBirths) /\ wBlind \in SUBSET (1..wBirths)
  /\ wKill \in [pc : KillPcs, pid : WatchedPids \cup {0}, victim : 0..wBirths]

(* An incarnation has one pid, and the victim of a kill has the pid that   *)
(* the call was for or none; after success it has none.  Only Windows has  *)
(* a taskkill.                                                             *)
OneIncarnation ==
  /\ \A p \in WatchedPids : wProc[p].inc = 0 => wProc[p] = Gone
  /\ \A p, q \in WatchedPids : wProc[p].inc = wProc[q].inc /\ wProc[p].inc # 0 => p = q
VictimInv ==
  /\ wKill.pc # "idle" =>
       /\ wKill.victim # 0
       /\ \A p \in WatchedPids : wProc[p].inc = wKill.victim => p = wKill.pid
  /\ wKill.pc = "taskkill" => wHost = "windows"
ProcInv == ProcTypes /\ OneIncarnation /\ VictimInv /\ KilledIsGone

LEMMA GoneProcess == \A b \in Nat : Gone \in Process(b) /\ Gone.inc = 0
  BY DEF Gone, Process, ProcNames

LEMMA ProcInitInv == WatchInit => ProcInv
  BY GoneProcess, ProcessAssumption DEF WatchInit, ProcInv, ProcTypes, OneIncarnation, VictimInv,
     KilledIsGone, VictimIsGone, NoKill, KillPcs

LEMMA ProcInvHolds == ProcInv => WatchTypeOK /\ KilledIsGone
  BY ProcessAssumption DEF ProcInv, ProcTypes, Process, KillPcs, WatchTypeOK

\* Whoever is alive has a number of its own, from 1 on.
LEMMA AliveIsNumbered ==
  ASSUME ProcInv, NEW p \in Alive
  PROVE  p \in WatchedPids /\ wProc[p].inc \in 1..wBirths /\ wProc[p].inc # 0
  BY DEF ProcInv, ProcTypes, OneIncarnation, Alive, Process

LEMMA ForkStep ==
  ASSUME ProcInv, NEW p \in WatchedPids, Fork(p)
  PROVE  ProcInv'
  <1>1. PICK q \in WatchedPids \cup {0}, n \in ProcNames :
          wProc' = [wProc EXCEPT ![p] = [inc |-> wBirths + 1, ppid |-> q, name |-> n]]
    BY DEF Fork, Alive
  <1>2. /\ wBirths' = wBirths + 1 /\ wBirths < MaxBirths
        /\ UNCHANGED <<wHost, wKnown, wTable, wPc, wCurrent, wNew, wDead, wReported, wBlind, wRaises, wKill>>
    BY DEF Fork, snapVars
  <1>3. /\ \A r \in Process(wBirths) : r \in Process(wBirths + 1) /\ r.inc # wBirths + 1
        /\ wBirths \in Nat /\ wBirths + 1 \in 0..MaxBirths
        /\ [inc |-> wBirths + 1, ppid |-> q, name |-> n] \in Process(wBirths + 1)
    BY <1>2, ProcessAssumption DEF ProcInv, ProcTypes, Process
  <1>4. ProcTypes'
    <2>1. wProc' \in [WatchedPids -> Process(wBirths')] /\ wTable' \in [WatchedPids -> Process(wBirths')]
      BY <1>1, <1>2, <1>3 DEF ProcInv, ProcTypes
    <2>2. wBirths' \in 0..MaxBirths
      BY <1>2, <1>3
    <2>3. wKill' \in [pc : KillPcs, pid : WatchedPids \cup {0}, victim : 0..wBirths']
      BY <1>2, <1>3 DEF ProcInv, ProcTypes
    <2>4. 1..wBirths \subseteq 1..wBirths'
      BY <1>2, <1>3
    <2> QED
      BY <1>2, <2>1, <2>2, <2>3, <2>4 DEF ProcInv, ProcTypes
  <1>5. /\ wProc'[p].inc = wBirths + 1 /\ \A o \in WatchedPids \ {p} : wProc'[o] = wProc[o]
        /\ \A o \in WatchedPids \ {p} : wProc[o].inc # wBirths + 1
    BY <1>1, <1>3 DEF ProcInv, ProcTypes
  <1>6. OneIncarnation'
    BY <1>3, <1>5 DEF ProcInv, OneIncarnation
  <1>7. wKill.victim # wBirths + 1 /\ wKill' = wKill
    BY <1>2, <1>3 DEF ProcInv, ProcTypes
  <1>8. VictimInv' /\ KilledIsGone'
    BY <1>2, <1>5, <1>7 DEF ProcInv, VictimInv, KilledIsGone, VictimIsGone
  <1> QED
    BY <1>4, <1>6, <1>8 DEF ProcInv

\* A process ends, of its own accord or by a signal.
LEMMA GoneStep ==
  ASSUME ProcInv, NEW p \in WatchedPids, wProc' = [wProc EXCEPT ![p] = Gone],
         NEW k \in KillPcs, wKill' = [wKill EXCEPT !.pc = k], k = wKill.pc \/ k \in KillPcs \ {"idle", "taskkill", "killed"} \/ wHost = "windows",
         wKill.pc = "idle" => k = "idle",
         UNCHANGED <<wHost, wBirths, wKnown, wTable, wCurrent, wNew, wDead, wReported, wBlind>>
  PROVE  ProcInv'
  <1>1. wBirths \in Nat
    BY DEF ProcInv, ProcTypes
  <1>2. /\ wProc' \in [WatchedPids -> Process(wBirths)]
        /\ \A o \in WatchedPids : wProc'[o] = IF o = p THEN Gone ELSE wProc[o]
    BY <1>1, GoneProcess DEF ProcInv, ProcTypes
  <1>3. /\ wKill' \in [pc : KillPcs, pid : WatchedPids \cup {0}, victim : 0..wBirths]
        /\ wKill'.pc = k /\ wKill'.pid = wKill.pid /\ wKill'.victim = wKill.victim
    BY DEF ProcInv, ProcTypes
  <1>4. ProcTypes'
    BY <1>2, <1>3 DEF ProcInv, ProcTypes
  <1>5. OneIncarnation'
    BY <1>1, <1>2, GoneProcess DEF ProcInv, OneIncarnation
  <1>6. VictimInv' /\ KilledIsGone'
    BY <1>1, <1>2, <1>3, GoneProcess DEF ProcInv, VictimInv, KilledIsGone, VictimIsGone
  <1> QED
    BY <1>4, <1>5, <1>6 DEF ProcInv

\* The processes and the kill are as they were: the snapshot only keeps its types.
LEMMA SnapshotStep == ProcInv /\ Snapshot => ProcInv'
  <1> SUFFICES ASSUME ProcInv, Snapshot PROVE ProcInv'
    OBVIOUS
  <1>1. /\ wBirths' = wBirths /\ wProc' = wProc /\ wKill' = wKill /\ wHost' = wHost
        /\ wTable' = wTable \/ (\E p \in WatchedPids : wTable' = [wTable EXCEPT ![p] = wProc[p]])
             \/ (\E p \in WatchedPids : wTable' = [wTable EXCEPT ![p] = Gone])
    BY DEF Snapshot, ListPids, CommitSnapshot, SkipUnreadable, AnalyzeNew, ForgetDead
  <1>2. wTable' \in [WatchedPids -> Process(wBirths)]
    BY <1>1, GoneProcess DEF ProcInv, ProcTypes
  <1>3. Alive \in SUBSET WatchedPids /\ {} \in SUBSET WatchedPids
    BY DEF Alive
  <1>4. /\ wKnown' \in SUBSET WatchedPids /\ wCurrent' \in SUBSET WatchedPids
        /\ wNew' \in SUBSET WatchedPids /\ wDead' \in SUBSET WatchedPids
    <2>1. ASSUME NEW pids \in SUBSET WatchedPids, ListPids(pids)
          PROVE  /\ wKnown' \in SUBSET WatchedPids /\ wCurrent' \in SUBSET WatchedPids
                 /\ wNew' \in SUBSET WatchedPids /\ wDead' \in SUBSET WatchedPids
      BY <2>1 DEF ProcInv, ProcTypes, ListPids
    <2>2. CASE CommitSnapshot
      BY <2>2 DEF ProcInv, ProcTypes, CommitSnapshot
    <2>3. ASSUME NEW p \in WatchedPids, SkipUnreadable(p) \/ AnalyzeNew(p) \/ ForgetDead(p)
          PROVE  /\ wKnown' = wKnown /\ wCurrent' \in {wCurrent, {}}
                 /\ wNew' \in {wNew, wNew \ {p}, {}} /\ wDead' \in {wDead, wDead \ {p}, {}}
      BY <2>3 DEF SkipUnreadable, AnalyzeNew, ForgetDead
    <2> QED
      BY <1>3, <2>1, <2>2, <2>3 DEF ProcInv, ProcTypes, Snapshot
  <1>5. wReported' \in SUBSET (1..wBirths)
    <2>1. ASSUME NEW p \in WatchedPids, AnalyzeNew(p) PROVE wReported' \in SUBSET (1..wBirths)
      <3>1. wProc[p].inc \in 1..wBirths
        BY <2>1, AliveIsNumbered DEF AnalyzeNew, Alive
      <3> QED
        BY <2>1, <3>1 DEF AnalyzeNew, ProcInv, ProcTypes
    <2>2. (\E p \in WatchedPids : AnalyzeNew(p)) \/ wReported' = wReported
      BY DEF Snapshot, ListPids, CommitSnapshot, SkipUnreadable, ForgetDead
    <2> QED
      BY <2>1, <2>2 DEF ProcInv, ProcTypes
  <1>6. wBlind' \in SUBSET (1..wBirths)
    <2>1. CASE CommitSnapshot
      <3>1. wBlind' = wBlind \cup {wProc[p].inc : p \in {q \in wCurrent \cap Alive : wTable[q] # wProc[q]}}
        BY <2>1 DEF CommitSnapshot
      <3>2. \A p \in wCurrent \cap Alive : wProc[p].inc \in 1..wBirths
        BY AliveIsNumbered
      <3> QED
        BY <3>1, <3>2 DEF ProcInv, ProcTypes
    <2>2. CommitSnapshot \/ wBlind' = wBlind
      BY DEF Snapshot, ListPids, SkipUnreadable, AnalyzeNew, ForgetDead
    <2> QED
      BY <2>1, <2>2 DEF ProcInv, ProcTypes
  <1> QED
    BY <1>1, <1>2, <1>4, <1>5, <1>6 DEF ProcInv, ProcTypes, OneIncarnation, VictimInv, KilledIsGone, VictimIsGone

LEMMA ProcessesChangeStep == ProcInv /\ ProcessesChange => ProcInv'
  <1> SUFFICES ASSUME ProcInv, NEW p \in WatchedPids, Fork(p) \/ Exit(p) PROVE ProcInv'
    BY DEF ProcessesChange
  <1>1. CASE Fork(p)
    BY <1>1, ForkStep
  <1>2. CASE Exit(p)
    <2>1. wKill' = [wKill EXCEPT !.pc = wKill.pc] /\ wKill.pc \in KillPcs
      BY <1>2 DEF Exit, ProcInv, ProcTypes
    <2> QED
      BY <1>2, <2>1, GoneStep DEF Exit, snapVars
  <1> QED
    BY <1>1, <1>2

\* A kill goes on or is given up; nothing else changes.
LEMMA KillMove ==
  ASSUME ProcInv, UNCHANGED <<wHost, wProc, wBirths, wKnown, wTable, wCurrent, wNew, wDead, wReported, wBlind>>,
         wKill' \in [pc : KillPcs, pid : WatchedPids \cup {0}, victim : 0..wBirths],
         VictimInv', KilledIsGone'
  PROVE  ProcInv'
  BY DEF ProcInv, ProcTypes, OneIncarnation

LEMMA KillStep == ProcInv /\ KillNext => ProcInv'
  <1> SUFFICES ASSUME ProcInv, KillNext PROVE ProcInv'
    OBVIOUS
  <1> DEFINE Still == UNCHANGED <<wHost, wProc, wBirths, wKnown, wTable, wCurrent, wNew, wDead, wReported, wBlind>>
             KillType == [pc : KillPcs, pid : WatchedPids \cup {0}, victim : 0..wBirths]
  <1>0. wKill \in KillType /\ wBirths \in Nat
    BY DEF ProcInv, ProcTypes
  <1>1. ASSUME NEW p \in WatchedPids, CallKill(p) PROVE ProcInv'
    <2>1. wProc[p].inc \in 1..wBirths /\ p \in Alive
      BY <1>1, AliveIsNumbered DEF CallKill
    <2>2. PICK k \in {"kill", "term", "taskkill"} :
            /\ wKill' = [pc |-> k, pid |-> p, victim |-> wProc[p].inc]
            /\ k = "taskkill" => wHost = "windows"
      BY <1>1 DEF CallKill
    <2>3. VictimInv' /\ KilledIsGone' /\ wKill' \in KillType
      BY <1>0, <1>1, <2>1, <2>2
         DEF CallKill, VictimInv, KilledIsGone, VictimIsGone, ProcInv, OneIncarnation, KillPcs, snapVars
    <2> QED
      BY <1>1, <2>3, KillMove DEF CallKill, snapVars
  <1>2. ASSUME NEW k \in KillPcs \cup {"failed"}, KillAt(k), Still, wKill.pc # "idle",
               k \notin {"idle", "taskkill", "killed"} \/ (wHost = "windows" /\ k # "idle")
        PROVE  ProcInv'
    <2>1. VictimInv' /\ KilledIsGone' /\ wKill' \in KillType
      BY <1>0, <1>2 DEF KillAt, NoKill, VictimInv, KilledIsGone, VictimIsGone, ProcInv, KillPcs
    <2> QED
      BY <1>2, <2>1, KillMove
  <1>3. CASE SignalFails \/ StillAlive \/ Escalate
    <2>1. PICK k \in {"wait", "failed", "kill"} : KillAt(k)
      BY <1>3 DEF SignalFails, StillAlive, Escalate
    <2>2. Still /\ wKill.pc # "idle" /\ k \in KillPcs \cup {"failed"} /\ k \notin {"idle", "taskkill", "killed"}
      BY <1>3, <2>1 DEF SignalFails, StillAlive, Escalate, snapVars, KillPcs
    <2> QED
      BY <1>2, <2>1, <2>2
  <1>4. CASE SendSignal
    <2>1. PICK k \in {"poll", "kill-poll"} : KillAt(k)
      BY <1>4 DEF SendSignal
    <2>2. /\ wKill.pc # "idle" /\ k \in KillPcs \ {"idle", "taskkill", "killed"} /\ wKill.pid \in WatchedPids
          /\ UNCHANGED <<wHost, wBirths, wKnown, wTable, wCurrent, wNew, wDead, wReported, wBlind>>
          /\ wKill' = [wKill EXCEPT !.pc = k]
      BY <1>4, <2>1 DEF SendSignal, snapVars, KillPcs, Alive, KillAt
    <2>3. CASE UNCHANGED wProc
      BY <1>2, <2>1, <2>2, <2>3
    <2>4. CASE wProc' = [wProc EXCEPT ![wKill.pid] = Gone]
      <3>1. PICK p \in WatchedPids : p = wKill.pid
        BY <2>2
      <3> QED
        BY <2>2, <2>4, <3>1, GoneStep
    <2> QED
      BY <1>4, <2>3, <2>4 DEF SendSignal
  <1>5. CASE SeesDeath
    <2>1. /\ wKill' = [wKill EXCEPT !.pc = "killed", !.pid = 0] /\ Still /\ wKill.pc # "idle"
          /\ wKill.pid \notin Alive
      BY <1>5 DEF SeesDeath, snapVars
    <2>2. \A p \in WatchedPids : wProc[p].inc # wKill.victim
      BY <2>1, GoneProcess DEF ProcInv, VictimInv, Alive
    <2>3. VictimInv' /\ KilledIsGone' /\ wKill' \in KillType
      BY <1>0, <2>1, <2>2 DEF ProcInv, VictimInv, KilledIsGone, VictimIsGone, KillPcs
    <2> QED
      BY <2>1, <2>3, KillMove
  <1>6. ASSUME NEW accepted \in BOOLEAN, TaskKill(accepted) PROVE ProcInv'
    <2>1. PICK k \in {"killed", "failed"} : KillAt(k) /\ (k = "failed" <=> ~accepted)
      BY <1>6 DEF TaskKill
    <2>2. /\ wKill.pc = "taskkill" /\ wHost = "windows" /\ k \in KillPcs \cup {"failed"}
          /\ UNCHANGED <<wHost, wBirths, wKnown, wTable, wCurrent, wNew, wDead, wReported, wBlind>>
      BY <1>6, <2>1 DEF TaskKill, snapVars, KillPcs, ProcInv, VictimInv
    <2>3. CASE UNCHANGED wProc
      BY <1>2, <2>1, <2>2, <2>3
    <2>4. CASE accepted /\ wProc' = [wProc EXCEPT ![wKill.pid] = Gone]
      <3>1. PICK p \in WatchedPids : p = wKill.pid
        BY <1>6, <2>4 DEF TaskKill, Alive
      <3>2. wKill' = [wKill EXCEPT !.pc = k] /\ k \in KillPcs
        BY <2>1, <2>2, <2>4 DEF KillAt
      <3> QED
        BY <2>2, <2>4, <3>1, <3>2, GoneStep
    <2> QED
      BY <1>6, <2>3, <2>4 DEF TaskKill
  <1> QED
    BY <1>1, <1>3, <1>4, <1>5, <1>6, ProcessesChangeStep DEF KillNext

LEMMA ProcInvStep == ProcInv /\ (WatchNext \/ KillNext \/ UNCHANGED watchVars) => ProcInv'
  <1>1. ProcInv /\ UNCHANGED watchVars => ProcInv'
    BY DEF watchVars, ProcInv, ProcTypes, OneIncarnation, VictimInv, KilledIsGone, VictimIsGone
  <1> QED
    BY <1>1, ProcessesChangeStep, SnapshotStep, KillStep DEF WatchNext

-----------------------------------------------------------------------------
(* The resolver.                                                           *)

(* A cached answer is the provider's, and while it lives its age and what  *)
(* is left of it make up the time it was given, or less.                   *)
Lives(e) == e.left >= 0 => e.age + e.left <= e.ttl /\ e.age + e.left <= TtlCap
OneAnswer(cache) == \A e, o \in cache : e.key = o.key => e = o
GoodCache(cache, provider) ==
  /\ cache \in SUBSET CacheEntries /\ IsFiniteSet(cache) /\ Cardinality(cache) <= CacheSize
  /\ OneAnswer(cache)
  /\ \A e \in cache : e.from = provider /\ Lives(e)
GoodAnswers(served, provider) ==
  /\ served \in SUBSET CacheEntries
  /\ \A e \in served : e.from = provider /\ e.age <= e.ttl /\ e.age <= TtlCap
Query == [pc : {"ask", "fallback"}, key : Domains]
Message == [1..Cells -> LabelCell..Cells]
Reader == [pc : {"none", "read", "done", "raised"}, at : 1..(Cells + 1), seen : SUBSET (1..Cells)]
Config == [provider : Providers, mode : {"none", "doh", "dot"}]
ResolverInv ==
  /\ zProvider \in Providers /\ zMode \in {"doh", "dot"} /\ zConfig \in Config
  /\ GoodCache(zCache, zProvider) /\ GoodAnswers(zServed, zProvider)
  /\ zCall = NoQuery \/ zCall \in Query
  /\ zMessage \in Message /\ zRead \in Reader

LEMMA EmptyCacheIsGood == \A p : GoodCache({}, p) /\ GoodAnswers({}, p)
  BY FS_EmptySet, ResolverAssumption DEF GoodCache, GoodAnswers, OneAnswer

LEMMA NothingRead == NoMessage \in Message /\ NoRead \in Reader
  BY ResolverAssumption DEF NoMessage, Message, NoRead, Reader, EndCell, LabelCell

LEMMA ResolverInitInv == ResolverInit => ResolverInv
  BY EmptyCacheIsGood, NothingRead, ResolverAssumption DEF ResolverInit, ResolverInv, NoConfig, Config

LEMMA ResolverInvHolds == ResolverInv => ResolverTypeOK /\ CachedAnswersAreGood
  BY DEF ResolverInv, ResolverTypeOK, CachedAnswersAreGood, GoodCache, GoodAnswers, OneAnswer, Config,
         Query, NoQuery, Reader

\* Some of a good cache is a good cache.
LEMMA LessCacheIsGood ==
  ASSUME NEW cache, NEW p, GoodCache(cache, p), NEW less \in SUBSET cache
  PROVE  GoodCache(less, p)
  <1>1. IsFiniteSet(less) /\ Cardinality(less) <= Cardinality(cache)
    BY FS_Subset DEF GoodCache
  <1>2. Cardinality(less) \in Int /\ Cardinality(cache) \in Int
    BY <1>1, FS_CardinalityType DEF GoodCache
  <1> QED
    BY <1>1, <1>2, ResolverAssumption DEF GoodCache, OneAnswer

Older(e) == [e EXCEPT !.age = @ + 1, !.left = IF @ < 0 THEN @ ELSE @ - 1]

LEMMA OlderEntry ==
  ASSUME NEW e \in CacheEntries, e.age <= TtlCap, Lives(e)
  PROVE  /\ Older(e) \in CacheEntries /\ Lives(Older(e))
         /\ Older(e).key = e.key /\ Older(e).from = e.from
  <1>1. /\ e.key \in Domains /\ e.from \in Providers /\ e.ttl \in Ttls
        /\ e.age \in 0..(TtlCap + 1) /\ e.left \in -1..TtlCap
    BY DEF CacheEntries
  <1>2. PICK a, l : a = e.age + 1 /\ l = IF e.left < 0 THEN e.left ELSE e.left - 1
    OBVIOUS
  <1>3. a \in 0..(TtlCap + 1) /\ l \in -1..TtlCap
    BY <1>1, <1>2, ResolverAssumption
  <1>4. l >= 0 => a + l <= e.ttl /\ a + l <= TtlCap
    BY <1>1, <1>2, ResolverAssumption DEF Lives
  <1>5. Older(e) = [e EXCEPT !.age = a, !.left = l]
    BY <1>2, Zenon DEF Older
  <1>6. /\ Older(e) \in CacheEntries /\ Older(e).age = a /\ Older(e).left = l
        /\ Older(e).key = e.key /\ Older(e).from = e.from /\ Older(e).ttl = e.ttl
    BY <1>3, <1>5 DEF CacheEntries
  <1> QED
    BY <1>4, <1>6 DEF Lives

LEMMA OlderCacheIsGood ==
  ASSUME NEW cache, NEW p, GoodCache(cache, p), \A e \in cache : e.age <= TtlCap
  PROVE  GoodCache({Older(e) : e \in cache}, p)
  <1> DEFINE T == {Older(e) : e \in cache}
             f == [e \in cache |-> Older(e)]
  <1>1. f \in Surjection(cache, T)
    BY DEF Surjection
  <1>2. IsFiniteSet(cache)
    BY DEF GoodCache
  <1> HIDE DEF f
  <1>3. IsFiniteSet(T) /\ Cardinality(T) <= Cardinality(cache)
    BY <1>1, <1>2, FS_Surjection
  <1>4. Cardinality(T) \in Int /\ Cardinality(cache) \in Int
    BY <1>2, <1>3, FS_CardinalityType
  <1>5. \A e \in cache : /\ Older(e) \in CacheEntries /\ Lives(Older(e))
                         /\ Older(e).key = e.key /\ Older(e).from = p
    BY OlderEntry DEF GoodCache
  <1>6. OneAnswer(T)
    BY <1>5 DEF GoodCache, OneAnswer
  <1> HIDE DEF T
  <1>7. \A e \in T : e \in CacheEntries /\ e.from = p /\ Lives(e)
    BY <1>5 DEF T
  <1>8. Cardinality(T) <= CacheSize
    BY <1>3, <1>4, ResolverAssumption DEF GoodCache
  <1>9. GoodCache(T, p)
    BY <1>3, <1>6, <1>7, <1>8 DEF GoodCache
  <1> QED
    BY <1>9 DEF T

LEMMA SmallestLeft ==
  ASSUME NEW cache \in SUBSET CacheEntries, cache # {}
  PROVE  \E e \in cache : \A o \in cache : e.left <= o.left
  <1> DEFINE L == {e.left + 1 : e \in cache}
  <1>1. L \in SUBSET Nat /\ L # {}
    BY ResolverAssumption DEF CacheEntries
  <1> HIDE DEF L
  <1>2. PICK l \in L : \A m \in L : l <= m
    BY <1>1, Least
  <1>3. PICK e \in cache : l = e.left + 1
    BY <1>2 DEF L
  <1>4. \A o \in cache : o.left + 1 \in L /\ o.left \in Int
    BY ResolverAssumption DEF L, CacheEntries
  <1>5. \A o \in cache : e.left <= o.left
    BY <1>2, <1>3, <1>4
  <1> QED
    BY <1>5

\* put() keeps the cache within its size and gives the key one answer.
LEMMA PutIsGood ==
  ASSUME ResolverInv, NEW k \in Domains, NEW ttl \in Ttls
  PROVE  GoodCache(Put(k, ttl), zProvider)
  <1> DEFINE first == CHOOSE e \in zCache : \A o \in zCache : e.left <= o.left
             full == Cardinality(zCache) >= CacheSize
             kept == IF full THEN zCache \ {first} ELSE zCache
             others == {e \in kept : e.key # k}
             new == [key |-> k, from |-> zProvider, ttl |-> ttl, age |-> 0,
                     left |-> IF ttl < TtlCap THEN ttl ELSE TtlCap]
  <1>1. /\ IsFiniteSet(zCache) /\ zCache \in SUBSET CacheEntries /\ Cardinality(zCache) <= CacheSize
        /\ Cardinality(zCache) \in Nat /\ GoodCache(zCache, zProvider) /\ zProvider \in Providers
    BY FS_CardinalityType DEF ResolverInv, GoodCache
  <1>2. full => first \in zCache
    <2> SUFFICES ASSUME full PROVE first \in zCache
      OBVIOUS
    <2>1. zCache # {}
      BY <1>1, FS_EmptySet, ResolverAssumption
    <2>2. \E e \in zCache : \A o \in zCache : e.left <= o.left
      BY <1>1, <2>1, SmallestLeft
    <2> QED
      BY <2>2
  <1> HIDE DEF first
  <1>3. /\ IsFiniteSet(kept) /\ kept \in SUBSET zCache /\ Cardinality(kept) \in Nat
        /\ Cardinality(kept) + 1 <= CacheSize
    <2>1. CASE full
      <3>1. kept = zCache \ {first}
        BY <2>1
      <3>2. IsFiniteSet(zCache \ {first}) /\ Cardinality(zCache \ {first}) = Cardinality(zCache) - 1
        BY <1>1, <1>2, <2>1, FS_RemoveElement
      <3>3. Cardinality(kept) \in Nat
        BY <3>1, <3>2, FS_CardinalityType
      <3> QED
        BY <1>1, <3>1, <3>2, <3>3, ResolverAssumption
    <2>2. CASE ~full
      BY <1>1, <2>2, ResolverAssumption
    <2> QED
      BY <2>1, <2>2
  <1> HIDE DEF kept, full
  <1>4. others \in SUBSET kept /\ others \in SUBSET zCache
    BY <1>3
  <1>5. GoodCache(others, zProvider) /\ IsFiniteSet(others) /\ Cardinality(others) <= Cardinality(kept)
    BY <1>1, <1>3, <1>4, LessCacheIsGood, FS_Subset
  <1>6. new \in CacheEntries /\ Lives(new) /\ new.key = k /\ new.from = zProvider
    BY <1>1, ResolverAssumption DEF CacheEntries, Lives
  <1>7. \A e \in others : e.key # k
    OBVIOUS
  <1>8. Put(k, ttl) = others \cup {new}
    BY DEF Put, kept, first, full
  <1> HIDE DEF others, new
  <1>9. Cardinality(others) \in Nat
    BY <1>5, FS_CardinalityType
  <1>10. /\ IsFiniteSet(others \cup {new})
         /\ Cardinality(others \cup {new}) <= Cardinality(others) + 1
         /\ Cardinality(others \cup {new}) \in Nat
    <2>1. IsFiniteSet(others \cup {new})
      BY <1>5, FS_AddElement
    <2>2. Cardinality(others \cup {new}) = IF new \in others THEN Cardinality(others) ELSE Cardinality(others) + 1
      BY <1>5, FS_AddElement
    <2> QED
      BY <1>9, <2>1, <2>2
  <1>11. Cardinality(others \cup {new}) <= CacheSize
    BY <1>3, <1>5, <1>9, <1>10, ResolverAssumption
  <1>12. OneAnswer(others \cup {new})
    BY <1>5, <1>6, <1>7 DEF GoodCache, OneAnswer
  <1>13. GoodCache(others \cup {new}, zProvider)
    BY <1>5, <1>6, <1>10, <1>11, <1>12 DEF GoodCache
  <1> QED
    BY <1>8, <1>13

\* Steps of a query and of the reader leave what is cached and served alone.
LEMMA QueryMove ==
  ASSUME ResolverInv, UNCHANGED <<zProvider, zMode, zConfig, zCache, zServed>>,
         zCall' = NoQuery \/ zCall' \in Query, zMessage' \in Message, zRead' \in Reader
  PROVE  ResolverInv'
  BY DEF ResolverInv

\* The user sets the provider or the mode, or another process is started.
LEMMA CommandStep ==
  ASSUME ResolverInv,
         (\E p \in Providers : SetProvider(p)) \/ (\E m \in {"doh", "dot"} : SetMode(m)) \/ NextCommand
  PROVE  ResolverInv'
  <1>1. UNCHANGED <<zCall, zMessage, zRead>> /\ zServed' = {}
        /\ (zCache' = {} \/ UNCHANGED <<zCache, zProvider>>)
    BY DEF SetProvider, SetMode, NextCommand
  <1>2. zProvider' \in Providers /\ zMode' \in {"doh", "dot"}
    BY ResolverAssumption DEF ResolverInv, SetProvider, SetMode, NextCommand, Config
  <1>3. zConfig' \in Config
    BY <1>2 DEF ResolverInv, SetProvider, SetMode, NextCommand, SaveConfig, Config
  <1>4. GoodCache(zCache', zProvider') /\ GoodAnswers(zServed', zProvider')
    BY <1>1, EmptyCacheIsGood DEF ResolverInv
  <1> QED
    BY <1>1, <1>2, <1>3, <1>4 DEF ResolverInv

LEMMA TickStep == ResolverInv /\ Tick => ResolverInv'
  <1> SUFFICES ASSUME ResolverInv, Tick PROVE ResolverInv'
    OBVIOUS
  <1>1. zCache' = {Older(e) : e \in zCache}
    BY DEF Tick, Older
  <1>2. GoodCache(zCache', zProvider)
    BY <1>1, OlderCacheIsGood DEF Tick, ResolverInv
  <1>3. zServed' = {} /\ UNCHANGED <<zProvider, zMode, zConfig, zCall, zMessage, zRead>>
    BY DEF Tick
  <1> QED
    BY <1>2, <1>3, EmptyCacheIsGood DEF ResolverInv

LEMMA LivingIsYoung ==
  ASSUME NEW e \in CacheEntries, Lives(e), e.left >= 0
  PROVE  e.age <= e.ttl /\ e.age <= TtlCap
  <1>1. e.age \in 0..(TtlCap + 1) /\ e.left \in -1..TtlCap /\ e.ttl \in Ttls
    BY DEF CacheEntries
  <1>2. PICK a, l, t : a = e.age /\ l = e.left /\ t = e.ttl
    OBVIOUS
  <1>3. a \in 0..(TtlCap + 1) /\ l \in -1..TtlCap /\ t \in Ttls
    BY <1>1, <1>2
  <1>4. a \in Int /\ l \in Int /\ t \in Int
    BY <1>3, ResolverAssumption
  <1>5. l >= 0 /\ a + l <= t /\ a + l <= TtlCap
    BY <1>2 DEF Lives
  <1>6. a <= t /\ a <= TtlCap
    BY <1>4, <1>5, ResolverAssumption
  <1> QED
    BY <1>2, <1>6

LEMMA ResolveStep ==
  ASSUME ResolverInv, NEW k \in Domains, Resolve(k)
  PROVE  ResolverInv'
  <1> DEFINE mine == {e \in zCache : e.key = k}
             live == {e \in mine : e.left >= 0}
  <1>1. /\ zCache' = zCache \ (mine \ live) /\ zServed' = live
        /\ zCall' = IF live = {} THEN [pc |-> "ask", key |-> k] ELSE NoQuery
        /\ UNCHANGED <<zProvider, zMode, zConfig, zMessage, zRead>>
    BY DEF Resolve
  <1>2. GoodCache(zCache', zProvider)
    BY <1>1, LessCacheIsGood DEF ResolverInv
  <1>3. ASSUME NEW e \in live PROVE e.from = zProvider /\ e.age <= e.ttl /\ e.age <= TtlCap
    <2>1. e \in CacheEntries /\ e.from = zProvider /\ Lives(e) /\ e.left >= 0
      BY DEF ResolverInv, GoodCache
    <2> QED
      BY <2>1, LivingIsYoung
  <1>4. GoodAnswers(live, zProvider)
    BY <1>3 DEF GoodAnswers, ResolverInv, GoodCache
  <1>5. zCall' = NoQuery \/ zCall' \in Query
    BY <1>1 DEF Query
  <1> HIDE DEF mine, live
  <1> QED
    BY <1>1, <1>2, <1>4, <1>5 DEF ResolverInv

LEMMA AnsweredStep ==
  ASSUME ResolverInv, NEW ttl \in Ttls, NEW some \in BOOLEAN, Answered(ttl, some)
  PROVE  ResolverInv'
  <1>1. zCall \in Query /\ zCall.key \in Domains
    BY DEF Answered, ResolverInv, NoQuery, Query
  <1>2. PICK k \in Domains : k = zCall.key
    BY <1>1
  <1>3. zCache' = Put(k, ttl) \/ zCache' = zCache
    BY <1>2 DEF Answered
  <1>4. GoodCache(zCache', zProvider)
    BY <1>3, PutIsGood DEF ResolverInv
  <1> QED
    BY <1>4, NothingRead DEF Answered, ResolverInv

LEMMA DecodeStep ==
  ASSUME ResolverInv, NEW cut \in BOOLEAN, DecodeCell(cut)
  PROVE  ResolverInv'
  <1>1. /\ UNCHANGED <<zProvider, zMode, zConfig, zCache, zServed, zCall, zMessage>>
        /\ zMessage \in Message /\ zRead \in Reader /\ zCall \in {zCall'}
    BY DEF DecodeCell, ResolverInv
  <1>2. CASE zRead' = [zRead EXCEPT !.pc = "raised"] \/ zRead' = [zRead EXCEPT !.pc = "done"]
    <2>1. zRead' \in Reader
      BY <1>1, <1>2 DEF Reader
    <2> QED
      BY <1>1, <2>1, QueryMove DEF ResolverInv
  <1>3. CASE zRead.at \in 1..Cells
    <2>1. PICK cell \in LabelCell..Cells : cell = zMessage[zRead.at]
      BY <1>1, <1>3 DEF Message
    <2>2. CASE cell = LabelCell /\ zRead' = [zRead EXCEPT !.at = @ + 1]
      <3>1. zRead.at + 1 \in 1..(Cells + 1)
        BY <1>3, ResolverAssumption
      <3>2. zRead' \in Reader
        BY <1>1, <2>2, <3>1 DEF Reader
      <3> QED
        BY <1>1, <3>2, QueryMove DEF ResolverInv
    <2>3. CASE /\ cell # EndCell /\ cell # LabelCell
               /\ zRead' = [zRead EXCEPT !.at = cell, !.seen = @ \cup {cell}]
      <3>1. cell \in 1..Cells /\ cell \in 1..(Cells + 1)
        BY <2>1, <2>3, ResolverAssumption DEF EndCell, LabelCell
      <3>2. zRead' \in Reader
        BY <1>1, <2>3, <3>1 DEF Reader
      <3> QED
        BY <1>1, <3>2, QueryMove DEF ResolverInv
    <2> QED
      BY <1>2, <1>3, <2>1, <2>2, <2>3, ResolverAssumption DEF DecodeCell
  <1>4. zRead.at \in 1..(Cells + 1)
    BY <1>1 DEF Reader
  <1> QED
    BY <1>2, <1>3, <1>4, ResolverAssumption DEF DecodeCell

LEMMA ResolverInvStep == ResolverInv /\ (ResolverNext \/ UNCHANGED resolverVars) => ResolverInv'
  <1> SUFFICES ASSUME ResolverInv, ResolverNext \/ UNCHANGED resolverVars PROVE ResolverInv'
    OBVIOUS
  <1>1. CASE UNCHANGED resolverVars
    BY <1>1 DEF resolverVars, ResolverInv
  <1>2. CASE QueryFails
    <2>1. zCall \in Query
      BY <1>2 DEF QueryFails, ResolverInv, NoQuery
    <2>2. zCall' \in Query
      BY <1>2, <2>1 DEF QueryFails, Query
    <2> QED
      BY <1>2, <2>2, QueryMove, NothingRead DEF QueryFails
  <1>3. CASE Fallback
    BY <1>3, QueryMove DEF Fallback, ResolverInv
  <1>4. ASSUME NEW message \in [1..Cells -> LabelCell..Cells], NEW start \in 1..Cells,
               BeginDecode(message, start)
        PROVE  ResolverInv'
    <2>1. zRead' \in Reader
      <3>1. start \in 1..(Cells + 1)
        BY ResolverAssumption
      <3> QED
        BY <1>4, <3>1, NothingRead DEF BeginDecode, Reader
    <2>2. zMessage' \in Message
      BY <1>4 DEF BeginDecode, Message
    <2> QED
      BY <1>4, <2>1, <2>2, QueryMove DEF BeginDecode, ResolverInv
  <1> QED
    BY <1>1, <1>2, <1>3, <1>4, TickStep, CommandStep, DecodeStep, ResolveStep, AnsweredStep
       DEF ResolverNext, Decode

-----------------------------------------------------------------------------
(* Scheduled scans.                                                        *)

UnitFiles == {"service", "timer", "plist"}
JobNames == {"install", "uninstall"}
JobOps == ({"write", "remove", "format"} \X UnitFiles)
            \cup ({"tool"} \X {"reload", "enable", "disable", "start", "stop"}) \cup ({"task"} \X JobNames)
JobTypes ==
  /\ JobTypeOK
  /\ tCall \in [name : JobNames \cup {"none"}, todo : Seq(JobOps)]
  /\ tCall.name = "none" => tCall = NoJobCall
  /\ tCall.name # "none" => tCall.todo # <<>>

(* An uninstall still has the operation that takes the schedule away, or   *)
(* has done it, and none that brings it back.                              *)
Removed == CASE tKind = "systemd" -> "timer" \notin tFiles
             [] tKind = "launchd" -> "plist" \notin tFiles
             [] OTHER -> ~tEnabled
Removal == CASE tKind = "systemd" -> <<"remove", "timer">>
             [] tKind = "launchd" -> <<"remove", "plist">>
             [] OTHER -> <<"task", "uninstall">>
Adds(op) == op[1] = "write" \/ op[2] \in {"enable", "install"}
Has(todo, op) == \E i \in DOMAIN todo : todo[i] = op
AddsNothing(todo) == \A i \in DOMAIN todo : ~Adds(todo[i])
JobInv ==
  /\ JobTypes
  /\ tCall.name = "uninstall" => AddsNothing(tCall.todo) /\ (Removed \/ Has(tCall.todo, Removal))
  /\ tCall.name = "none" /\ tLast = <<"uninstall", TRUE>> => Removed

LEMMA JobInitInv == JobInit => JobInv
  <1> SUFFICES ASSUME JobInit PROVE JobInv
    OBVIOUS
  <1>1. tCall \in [name : JobNames \cup {"none"}, todo : Seq(JobOps)] /\ tCall.name = "none"
    <2>1. <<>> \in Seq(JobOps)
      OBVIOUS
    <2> QED
      BY <2>1 DEF JobInit, NoJobCall
  <1>2. tFaults \in 0..MaxToolFaults /\ tLast # <<"uninstall", TRUE>>
    BY JobAssumption DEF JobInit
  <1>3. tLast \in {"none", "install", "uninstall"} \X BOOLEAN
    BY DEF JobInit
  <1> QED
    BY <1>1, <1>2, <1>3 DEF JobInit, JobInv, JobTypes, JobTypeOK

LEMMA JobInvHolds == JobInv => JobTypeOK /\ RemovedStaysRemoved
  <1> SUFFICES ASSUME JobInv PROVE JobTypeOK /\ RemovedStaysRemoved
    OBVIOUS
  <1>1. tCall = NoJobCall => tCall.name = "none"
    BY DEF NoJobCall
  <1>2. tLast = <<"uninstall", TRUE>> /\ tCall = NoJobCall => Removed
    BY <1>1 DEF JobInv
  <1> QED
    BY <1>2 DEF JobInv, JobTypes, RemovedStaysRemoved, Removed

LEMMA OperationsOf ==
  ASSUME NEW name \in JobNames
  PROVE  /\ Operations(name) \in Seq(JobOps) /\ Operations(name) # <<>>
         /\ name = "uninstall" => AddsNothing(Operations(name)) /\ Has(Operations(name), Removal)
  <1>1. ASSUME NEW k \in {"reload", "enable", "disable", "start", "stop"}
        PROVE  <<"tool", k>> \in JobOps
    BY DEF JobOps
  <1>2. ASSUME NEW f \in UnitFiles
        PROVE  <<"write", f>> \in JobOps /\ <<"remove", f>> \in JobOps /\ <<"format", f>> \in JobOps
    BY DEF JobOps
  <1>3. ASSUME NEW k \in JobNames PROVE <<"task", k>> \in JobOps
    BY DEF JobOps
  <1>4. CASE tKind = "systemd" /\ name = "install"
    <2>1. Operations(name) = <<<<"write", "service">>, <<"write", "timer">>, <<"tool", "reload">>,
                               <<"tool", "enable">>, <<"tool", "start">>>>
      BY <1>4 DEF Operations
    <2>2. Operations(name) \in Seq(JobOps) /\ Operations(name) # <<>>
      BY <1>1, <1>2, <2>1 DEF UnitFiles
    <2>3. name # "uninstall"
      BY <1>4
    <2> QED
      BY <2>2, <2>3
  <1>5. CASE tKind = "systemd" /\ name = "uninstall"
    <2>1. Operations(name) = <<<<"tool", "stop">>, <<"tool", "disable">>, <<"remove", "service">>,
                               <<"remove", "timer">>, <<"tool", "reload">>>>
      BY <1>5 DEF Operations
    <2>2. Operations(name) \in Seq(JobOps) /\ Operations(name) # <<>>
      BY <1>1, <1>2, <2>1 DEF UnitFiles
    <2>3. Operations(name)[4] = Removal /\ 4 \in DOMAIN Operations(name)
      BY <1>5, <2>1 DEF Removal
    <2>4. AddsNothing(Operations(name))
      BY <2>1 DEF AddsNothing, Adds
    <2> QED
      BY <2>2, <2>3, <2>4 DEF Has
  <1>6. CASE tKind = "launchd" /\ name = "install"
    <2>1. Operations(name) = <<<<"format", "plist">>, <<"write", "plist">>, <<"tool", "stop">>,
                               <<"tool", "start">>>>
      BY <1>6 DEF Operations
    <2>2. Operations(name) \in Seq(JobOps) /\ Operations(name) # <<>>
      BY <1>1, <1>2, <2>1 DEF UnitFiles
    <2>3. name # "uninstall"
      BY <1>6
    <2> QED
      BY <2>2, <2>3
  <1>7. CASE tKind = "launchd" /\ name = "uninstall"
    <2>1. Operations(name) = <<<<"tool", "stop">>, <<"remove", "plist">>>>
      BY <1>7 DEF Operations
    <2>2. Operations(name) \in Seq(JobOps) /\ Operations(name) # <<>>
      BY <1>1, <1>2, <2>1 DEF UnitFiles
    <2>3. Operations(name)[2] = Removal /\ 2 \in DOMAIN Operations(name)
      BY <1>7, <2>1 DEF Removal
    <2>4. AddsNothing(Operations(name))
      BY <2>1 DEF AddsNothing, Adds
    <2> QED
      BY <2>2, <2>3, <2>4 DEF Has
  <1>8. CASE tKind \notin {"systemd", "launchd"}
    <2>1. Operations(name) = <<<<"task", name>>>>
      BY <1>8 DEF Operations
    <2>2. Operations(name) \in Seq(JobOps) /\ Operations(name) # <<>>
      BY <1>3, <2>1
    <2>3. 1 \in DOMAIN Operations(name) /\ Operations(name)[1] = <<"task", name>>
      BY <2>1
    <2>4. name = "uninstall" => Operations(name)[1] = Removal
      BY <1>8, <2>3 DEF Removal
    <2>5. name = "uninstall" => AddsNothing(Operations(name))
      BY <2>1 DEF AddsNothing, Adds
    <2> QED
      BY <2>2, <2>3, <2>4, <2>5 DEF Has
  <1> QED
    BY <1>4, <1>5, <1>6, <1>7, <1>8 DEF JobNames

\* A call that goes on has done its first operation.
LEMMA TodoShrinks ==
  ASSUME NEW todo \in Seq(JobOps), todo # <<>>
  PROVE  /\ Head(todo) \in JobOps /\ Tail(todo) \in Seq(JobOps) /\ Len(todo) \in Nat \ {0}
         /\ Len(todo) # 1 => Tail(todo) # <<>>
         /\ AddsNothing(todo) => ~Adds(Head(todo)) /\ AddsNothing(Tail(todo))
         /\ \A op : Has(todo, op) => Head(todo) = op \/ (Len(todo) # 1 /\ Has(Tail(todo), op))
  <1>1. /\ Head(todo) = todo[1] /\ 1 \in DOMAIN todo /\ Tail(todo) \in Seq(JobOps)
        /\ Len(todo) \in Nat \ {0} /\ Len(Tail(todo)) = Len(todo) - 1
        /\ \A i \in 1..Len(Tail(todo)) : Tail(todo)[i] = todo[i + 1]
    OBVIOUS
  <1>2. DOMAIN todo = 1..Len(todo) /\ DOMAIN Tail(todo) = 1..Len(Tail(todo))
    BY <1>1
  <1>3. Len(todo) # 1 => Tail(todo) # <<>>
    BY <1>1
  <1>4. todo[1] \in JobOps
    BY <1>1
  <1>5. ASSUME AddsNothing(todo) PROVE ~Adds(Head(todo)) /\ AddsNothing(Tail(todo))
    BY <1>1, <1>2, <1>5 DEF AddsNothing
  <1>6. ASSUME NEW op, Has(todo, op)
        PROVE  Head(todo) = op \/ (Len(todo) # 1 /\ Has(Tail(todo), op))
    <2>1. PICK i \in 1..Len(todo) : todo[i] = op
      BY <1>2, <1>6 DEF Has
    <2>2. CASE i = 1
      BY <1>1, <2>1, <2>2
    <2>3. CASE i # 1
      <3>1. i - 1 \in 1..Len(Tail(todo)) /\ Tail(todo)[i - 1] = todo[i] /\ Len(todo) # 1
        BY <1>1, <2>1, <2>3
      <3> QED
        BY <1>2, <2>1, <3>1 DEF Has
    <2> QED
      BY <2>2, <2>3
  <1> QED
    BY <1>1, <1>3, <1>4, <1>5, <1>6

\* An operation that adds nothing keeps the schedule away, and the removal takes it away.
LEMMA EffectOn ==
  ASSUME JobTypes, NEW op \in JobOps, Effect(op), op[1] # "format", UNCHANGED tKind
  PROVE  /\ tFiles' \subseteq UnitFiles /\ tEnabled' \in BOOLEAN /\ tActive' \in BOOLEAN
         /\ ~Adds(op) /\ Removed => Removed'
         /\ op = Removal => Removed'
  <1>1. op[2] \in UnitFiles \/ op[1] \notin {"write", "remove"}
    BY DEF JobOps
  <1>2. tFiles \subseteq UnitFiles /\ tKind \in Kinds /\ tEnabled \in BOOLEAN /\ tActive \in BOOLEAN
    BY DEF JobTypes, JobTypeOK, UnitFiles
  <1>3. tFiles' \subseteq UnitFiles
    BY <1>1, <1>2 DEF Effect
  <1>4. tEnabled' \in BOOLEAN
    BY <1>2 DEF Effect
  <1>5. tActive' \in BOOLEAN
    BY <1>2 DEF Effect
  <1>6. ~Adds(op) => tFiles' \subseteq tFiles /\ (~tEnabled => ~tEnabled')
    BY <1>2 DEF Effect, Adds
  <1>7. ~Adds(op) /\ Removed => Removed'
    BY <1>6 DEF Removed
  <1>8. ASSUME op = Removal PROVE Removed'
    <2>1. CASE tKind = "systemd"
      BY <1>8, <2>1 DEF Removal, Removed, Effect
    <2>2. CASE tKind = "launchd"
      BY <1>8, <2>2 DEF Removal, Removed, Effect
    <2>3. CASE tKind \notin {"systemd", "launchd"}
      BY <1>8, <2>3 DEF Removal, Removed, Effect
    <2> QED
      BY <2>1, <2>2, <2>3
  <1> QED
    BY <1>3, <1>4, <1>5, <1>7, <1>8

\* The records of a call that returns or goes on.
LEMMA CallMoves ==
  ASSUME JobTypes, tCall # NoJobCall
  PROVE  /\ tCall.name \in JobNames /\ tCall.todo \in Seq(JobOps) /\ tCall.todo # <<>>
         /\ \A answer \in BOOLEAN : Returns(answer) =>
              /\ tCall' \in [name : JobNames \cup {"none"}, todo : Seq(JobOps)] /\ tCall' = NoJobCall
              /\ tCall'.name = "none" /\ tLast' = <<tCall.name, answer>>
              /\ tLast' \in {"none", "install", "uninstall"} \X BOOLEAN
         /\ Continues => \/ Len(tCall.todo) = 1 /\ Returns(TRUE)
                         \/ /\ Len(tCall.todo) # 1 /\ tLast' = tLast
                            /\ tCall' \in [name : JobNames \cup {"none"}, todo : Seq(JobOps)]
                            /\ tCall'.name = tCall.name /\ tCall'.todo = Tail(tCall.todo)
                            /\ tCall'.todo # <<>>
  <1>1. tCall \in [name : JobNames \cup {"none"}, todo : Seq(JobOps)] /\ tCall.name # "none"
    BY DEF JobTypes
  <1>2. tCall.name \in JobNames /\ tCall.todo \in Seq(JobOps) /\ tCall.todo # <<>>
    BY <1>1 DEF JobTypes
  <1>3. ASSUME NEW answer \in BOOLEAN, Returns(answer)
        PROVE  /\ tCall' \in [name : JobNames \cup {"none"}, todo : Seq(JobOps)] /\ tCall' = NoJobCall
               /\ tCall'.name = "none" /\ tLast' = <<tCall.name, answer>>
               /\ tLast' \in {"none", "install", "uninstall"} \X BOOLEAN
    <2>1. <<>> \in Seq(JobOps)
      OBVIOUS
    <2>2. <<tCall.name, answer>> \in {"none", "install", "uninstall"} \X BOOLEAN
      BY <1>2 DEF JobNames
    <2> QED
      BY <1>3, <2>1, <2>2 DEF Returns, NoJobCall
  <1>4. ASSUME Continues, Len(tCall.todo) # 1
        PROVE  /\ tLast' = tLast /\ tCall' \in [name : JobNames \cup {"none"}, todo : Seq(JobOps)]
               /\ tCall'.name = tCall.name /\ tCall'.todo = Tail(tCall.todo) /\ tCall'.todo # <<>>
    <2>1. Tail(tCall.todo) \in Seq(JobOps) /\ Tail(tCall.todo) # <<>>
      BY <1>2, <1>4, TodoShrinks
    <2>2. tCall' = [tCall EXCEPT !.todo = Tail(tCall.todo)] /\ tLast' = tLast
      BY <1>4 DEF Continues
    <2> QED
      BY <1>1, <2>1, <2>2
  <1>5. Continues /\ Len(tCall.todo) = 1 => Returns(TRUE)
    BY DEF Continues
  <1> QED
    BY <1>2, <1>3, <1>4, <1>5

LEMMA CallSchedulerStep ==
  ASSUME JobInv, NEW name \in JobNames, NEW paths \in BOOLEAN, CallScheduler(name, paths)
  PROVE  JobInv'
  <1>1. JobTypes /\ tCall = NoJobCall /\ tCall.name = "none"
    BY DEF JobInv, CallScheduler, NoJobCall
  <1>2. UNCHANGED <<tKind, tFiles, tEnabled, tActive, tFaults, tThread, tOwner>>
    BY DEF CallScheduler, threadVars
  <1>3. CASE name = "install" /\ tLast' = <<name, FALSE>> /\ tCall' = tCall
    <2>1. tLast' \in {"none", "install", "uninstall"} \X BOOLEAN /\ tLast' # <<"uninstall", TRUE>>
      BY <1>3
    <2>2. JobTypes'
      BY <1>1, <1>2, <1>3, <2>1 DEF JobTypes, JobTypeOK
    <2> QED
      BY <1>1, <1>3, <2>1, <2>2 DEF JobInv
  <1>4. CASE tCall' = [name |-> name, todo |-> Operations(name)] /\ tLast' = tLast
    <2>1. /\ tCall'.name = name /\ tCall'.todo = Operations(name) /\ name # "none"
          /\ tCall' \in [name : JobNames \cup {"none"}, todo : Seq(JobOps)] /\ tCall'.todo # <<>>
      BY <1>4, OperationsOf DEF JobNames
    <2>2. JobTypes'
      BY <1>1, <1>2, <1>4, <2>1 DEF JobTypes, JobTypeOK
    <2>3. Removal' = Removal
      BY <1>2 DEF Removal
    <2>4. name = "uninstall" => AddsNothing(tCall'.todo) /\ Has(tCall'.todo, Removal')
      BY <2>1, <2>3, OperationsOf
    <2> QED
      BY <2>1, <2>2, <2>4 DEF JobInv
  <1> QED
    BY <1>3, <1>4 DEF CallScheduler

\* An operation that ended well or, if it is a tool's, badly: the call goes on.
LEMMA GoesOn ==
  ASSUME JobInv, tCall # NoJobCall, Continues, UNCHANGED tKind, tFaults' \in 0..MaxToolFaults,
         UNCHANGED <<tThread, tOwner>>,
         tFiles' \subseteq UnitFiles, tEnabled' \in BOOLEAN, tActive' \in BOOLEAN,
         ~Adds(Head(tCall.todo)) /\ Removed => Removed', Head(tCall.todo) = Removal => Removed'
  PROVE  JobInv'
  <1>1. JobTypes /\ Removal' = Removal
    BY DEF JobInv, Removal
  <1>2. /\ tCall.name \in JobNames /\ tCall.todo \in Seq(JobOps) /\ tCall.todo # <<>>
        /\ tCall.name = "uninstall" => AddsNothing(tCall.todo) /\ (Removed \/ Has(tCall.todo, Removal))
    BY <1>1, CallMoves DEF JobInv
  <1>3. tCall.name = "uninstall" =>
          /\ AddsNothing(Tail(tCall.todo))
          /\ Removed' \/ (Len(tCall.todo) # 1 /\ Has(Tail(tCall.todo), Removal'))
    BY <1>1, <1>2, TodoShrinks
  <1>4. CASE Len(tCall.todo) = 1 /\ Returns(TRUE)
    <2>1. /\ tCall' \in [name : JobNames \cup {"none"}, todo : Seq(JobOps)] /\ tCall' = NoJobCall
          /\ tCall'.name = "none" /\ tLast' = <<tCall.name, TRUE>>
          /\ tLast' \in {"none", "install", "uninstall"} \X BOOLEAN
      BY <1>1, <1>4, CallMoves
    <2>2. NoJobCall' = NoJobCall
      BY DEF NoJobCall
    <2>3. JobTypes'
      BY <1>1, <2>1, <2>2 DEF JobTypes, JobTypeOK, UnitFiles
    <2>4. tLast' = <<"uninstall", TRUE>> => Removed'
      BY <1>3, <1>4, <2>1
    <2> QED
      BY <2>1, <2>3, <2>4 DEF JobInv
  <1>5. CASE Len(tCall.todo) # 1 /\ ~Returns(TRUE)
    <2>1. /\ tLast' = tLast /\ tCall' \in [name : JobNames \cup {"none"}, todo : Seq(JobOps)]
          /\ tCall'.name = tCall.name /\ tCall'.todo = Tail(tCall.todo) /\ tCall'.todo # <<>>
      BY <1>1, <1>5, CallMoves
    <2>2. tCall'.name # "none"
      BY <1>2, <2>1 DEF JobNames
    <2>3. JobTypes'
      BY <1>1, <2>1, <2>2 DEF JobTypes, JobTypeOK, UnitFiles
    <2> QED
      BY <1>3, <2>1, <2>2, <2>3 DEF JobInv
  <1>6. CASE Len(tCall.todo) # 1 /\ Returns(TRUE)
    <2>1. Len(tCall.todo) \in Nat /\ tCall' = [tCall EXCEPT !.todo = Tail(@)]
      BY <1>2, <1>6 DEF Continues
    <2>2. tCall'.name = tCall.name /\ tCall'.name = "none"
      BY <1>1, <1>6, <2>1, CallMoves DEF JobTypes
    <2> QED
      BY <1>2, <2>2 DEF JobNames
  <1> QED
    BY <1>1, <1>4, <1>5, <1>6, CallMoves

\* An operation that raised, or whose answer says so: the call has failed.
LEMMA GivesUp ==
  ASSUME JobInv, tCall # NoJobCall, Returns(FALSE), tFaults' \in 0..MaxToolFaults,
         UNCHANGED <<tKind, tFiles, tEnabled, tActive, tThread, tOwner>>
  PROVE  JobInv'
  <1>1. JobTypes
    BY DEF JobInv
  <1>2. /\ tCall' \in [name : JobNames \cup {"none"}, todo : Seq(JobOps)] /\ tCall' = NoJobCall
        /\ tCall'.name = "none" /\ tLast' = <<tCall.name, FALSE>>
        /\ tLast' \in {"none", "install", "uninstall"} \X BOOLEAN
    BY <1>1, CallMoves
  <1>3. NoJobCall' = NoJobCall
    BY DEF NoJobCall
  <1>4. JobTypes'
    BY <1>1, <1>2, <1>3 DEF JobTypes, JobTypeOK
  <1> QED
    BY <1>2, <1>4 DEF JobInv

LEMMA OperateStep == JobInv /\ Operate => JobInv'
  <1> SUFFICES ASSUME JobInv, Operate PROVE JobInv'
    OBVIOUS
  <1>1. /\ tCall # NoJobCall /\ JobTypes /\ tFaults' = tFaults
        /\ UNCHANGED <<tKind, tThread, tOwner>>
    BY DEF Operate, JobInv, threadVars
  <1>2. tFaults' \in 0..MaxToolFaults
    BY <1>1 DEF JobTypes, JobTypeOK
  <1>3. tCall.todo \in Seq(JobOps) /\ tCall.todo # <<>>
    BY <1>1, CallMoves
  <1>4. Head(tCall.todo) \in JobOps
    BY <1>3, TodoShrinks
  <1>5. CASE Returns(FALSE) /\ UNCHANGED <<tFiles, tEnabled, tActive>>
    BY <1>1, <1>2, <1>5, GivesUp
  <1>6. CASE Effect(Head(tCall.todo)) /\ Continues /\ Head(tCall.todo)[1] # "format"
    BY <1>1, <1>2, <1>4, <1>6, EffectOn, GoesOn
  <1> QED
    BY <1>5, <1>6 DEF Operate

LEMMA OperationFailsStep ==
  ASSUME JobInv, NEW raises \in BOOLEAN, OperationFails(raises)
  PROVE  JobInv'
  <1>1. /\ tCall # NoJobCall /\ JobTypes /\ tFaults' = tFaults + 1 /\ tFaults < MaxToolFaults
        /\ UNCHANGED <<tKind, tFiles, tEnabled, tActive, tThread, tOwner>>
    BY DEF OperationFails, JobInv, threadVars
  <1>2. tFaults' \in 0..MaxToolFaults
    BY <1>1, JobAssumption DEF JobTypes, JobTypeOK
  <1>3. CASE Returns(FALSE)
    BY <1>1, <1>2, <1>3, GivesUp
  <1>4. CASE Head(tCall.todo)[1] = "tool" /\ Continues
    <2>1. Removed' = Removed
      BY <1>1 DEF Removed
    <2>2. Head(tCall.todo) # Removal
      BY <1>4 DEF Removal
    <2>3. tFiles' \subseteq UnitFiles /\ tEnabled' \in BOOLEAN /\ tActive' \in BOOLEAN
      BY <1>1 DEF JobTypes, JobTypeOK, UnitFiles
    <2> QED
      BY <1>1, <1>2, <1>4, <2>1, <2>2, <2>3, GoesOn
  <1> QED
    BY <1>3, <1>4 DEF OperationFails

\* Neither files nor calls change.
LEMMA ThreadMove ==
  ASSUME JobInv, UNCHANGED <<tKind, tFiles, tEnabled, tActive, tCall, tLast, tFaults>>,
         tThread' \in [JobLoops -> {"none", "wait", "due", "scan", "gone"}], tOwner' \in {"off", "on"}
  PROVE  JobInv'
  <1>1. JobTypes'
    BY DEF JobInv, JobTypes, JobTypeOK, NoJobCall
  <1>2. Removed' = Removed /\ Removal' = Removal
    BY DEF Removed, Removal
  <1> QED
    BY <1>1, <1>2 DEF JobInv

LEMMA JobInvStep == JobInv /\ (JobNext \/ UNCHANGED jobVars) => JobInv'
  <1> SUFFICES ASSUME JobInv, JobNext \/ UNCHANGED jobVars PROVE JobInv'
    OBVIOUS
  <1>1. CASE UNCHANGED jobVars
    BY <1>1, ThreadMove DEF jobVars, JobInv, JobTypes, JobTypeOK
  <1>2. CASE Reboot
    <2>1. JobTypes /\ UNCHANGED <<tKind, tFiles, tEnabled, tFaults>> /\ tCall' = NoJobCall
      BY <1>2 DEF Reboot, JobInv
    <2>2. /\ tCall' \in [name : JobNames \cup {"none"}, todo : Seq(JobOps)] /\ tCall'.name = "none"
          /\ NoJobCall' = NoJobCall
      <3>1. <<>> \in Seq(JobOps)
        OBVIOUS
      <3> QED
        BY <2>1, <3>1 DEF NoJobCall
    <2>3. tActive' \in BOOLEAN
      <3>1. tEnabled \in BOOLEAN
        BY <2>1 DEF JobTypes, JobTypeOK
      <3>2. CASE tKind = "systemd"
        <4>1. tActive' = (tEnabled /\ "timer" \in tFiles)
          BY <1>2, <3>2, Zenon DEF Reboot
        <4> QED
          BY <4>1
      <3>3. CASE tKind = "launchd"
        <4>1. tActive' = ("plist" \in tFiles)
          BY <1>2, <3>3, Zenon DEF Reboot
        <4> QED
          BY <4>1
      <3>4. CASE tKind \notin {"systemd", "launchd"}
        <4>1. tActive' = tEnabled
          BY <1>2, <3>4 DEF Reboot
        <4> QED
          BY <3>1, <4>1
      <3> QED
        BY <3>2, <3>3, <3>4
    <2>4. tLast' = <<"none", TRUE>> \/ (tLast' = tLast /\ tCall = NoJobCall)
      BY <1>2 DEF Reboot
    <2>5. tLast' \in {"none", "install", "uninstall"} \X BOOLEAN
      <3>1. tLast \in {"none", "install", "uninstall"} \X BOOLEAN
        BY <2>1 DEF JobTypes, JobTypeOK
      <3>2. <<"none", TRUE>> \in {"none", "install", "uninstall"} \X BOOLEAN
        OBVIOUS
      <3> QED
        BY <2>4, <3>1, <3>2
    <2>6. JobTypes'
      BY <1>2, <2>1, <2>2, <2>3, <2>5 DEF Reboot, JobTypes, JobTypeOK
    <2>7. Removed' = Removed
      BY <2>1 DEF Removed
    <2>8. tLast' = <<"uninstall", TRUE>> => Removed'
      BY <2>4, <2>7 DEF JobInv, NoJobCall
    <2> QED
      BY <2>2, <2>6, <2>8 DEF JobInv
  <1>3. ASSUME StartThread \/ StopThread \/ DayPasses \/ (\E l \in JobLoops : ThreadTurn(l))
        PROVE  JobInv'
    <2>1. JobTypes /\ UNCHANGED <<tKind, tFiles, tEnabled, tActive, tCall, tLast, tFaults>>
      BY <1>3 DEF JobInv, StartThread, StopThread, DayPasses, ThreadTurn, jobFileVars
    <2>2. /\ tThread \in [JobLoops -> {"none", "wait", "due", "scan", "gone"}]
          /\ tOwner' \in {"off", "on"}
      BY <1>3, <2>1 DEF StartThread, StopThread, DayPasses, ThreadTurn, JobTypes, JobTypeOK
    <2>3. \/ tThread' = tThread
          \/ \E l, pc : pc \in {"wait", "due", "scan", "gone"} /\ tThread' = [tThread EXCEPT ![l] = pc]
      BY <1>3 DEF StartThread, StopThread, DayPasses, ThreadTurn, AfterScan
    <2>4. tThread' \in [JobLoops -> {"none", "wait", "due", "scan", "gone"}]
      BY <2>2, <2>3
    <2> QED
      BY <2>1, <2>2, <2>4, ThreadMove
  <1> QED
    BY <1>1, <1>2, <1>3, CallSchedulerStep, OperateStep, OperationFailsStep DEF JobNext, JobNames

-----------------------------------------------------------------------------
(* The sandbox: a directory for an analysis that goes on and for none that *)
(* is over, a program only while it is waited for, and a killed program is *)
(* remembered by the factor that keeps its verdict from being clean.       *)
SandboxInv ==
  /\ SandboxTypeOK
  /\ yRuns \in 0..MaxAnalyses /\ yDir <= yRuns
  /\ yPc # "idle" => yDir >= 1
  /\ "copy" \notin yLeaves => (yPc = "idle" => yDir = 0) /\ (yPc # "idle" => yDir = 1)
  /\ yChild \in {"running", "blocked"} => yPc = "wait"
  /\ yPc \in {"copy", "execute"} => yChild = "none"
  /\ yPc = "reap" => yChild \in {"killed", "stuck"}
  /\ yChild = "stuck" => yPc = "reap" \/ "stuck" \in yLeaves
  /\ yPc = "judge" /\ yChild = "killed" => "timeout" \in ySeen
  /\ yPc \in {"copy", "execute", "wait", "reap", "judge"} => yVerdict = "none"
  /\ yVerdict = "clean" => yFiles \cap {"note", "locked"} = {} /\ yChild # "killed"

LEMMA SandboxInitInv == SandboxInit => SandboxInv
  BY SandboxAssumption DEF SandboxInit, SandboxInv, SandboxTypeOK

LEMMA SandboxInvHolds == SandboxInv => SandboxTypeOK /\ SandboxIsLeftClean
  BY DEF SandboxInv, SandboxIsLeftClean

\* What weighs: none of the three factors is in a run that is called clean.
LEMMA ScoreOf ==
  ASSUME NEW factors, ~(Score(factors) >= 10)
  PROVE  "note" \notin factors /\ "locked" \notin factors /\ "timeout" \notin factors
  <1>1. /\ Weight("note", factors) \in {0, 40} /\ Weight("locked", factors) \in {0, 40}
        /\ Weight("timeout", factors) \in {0, 15} /\ Weight("crashed", factors) \in {0, 5}
        /\ Weight("shell", factors) \in {0, 15}
    BY DEF Weight, Factor
  <1>2. /\ "note" \in factors => Weight("note", factors) = 40
        /\ "locked" \in factors => Weight("locked", factors) = 40
        /\ "timeout" \in factors => Weight("timeout", factors) = 15
    BY DEF Weight, Factor
  <1> QED
    BY <1>1, <1>2 DEF Score

LEMMA SandboxInvStep == SandboxInv /\ (SandboxNext \/ UNCHANGED sandboxVars) => SandboxInv'
  <1> SUFFICES ASSUME SandboxInv, SandboxNext \/ UNCHANGED sandboxVars PROVE SandboxInv'
    OBVIOUS
  <1> USE SandboxAssumption
  <1>1. CASE UNCHANGED sandboxVars
    BY <1>1 DEF sandboxVars, SandboxInv, SandboxTypeOK
  <1>2. ASSUME NEW shell \in BOOLEAN, Analyze(shell) PROVE SandboxInv'
    <2>1. ySeen' \subseteq DOMAIN Factor
      BY <1>2 DEF Analyze, Factor
    <2>2. yDir + 1 \in 0..MaxAnalyses /\ yDir + 1 <= yRuns + 1 /\ yRuns + 1 \in 0..MaxAnalyses
      BY <1>2 DEF Analyze, SandboxInv, SandboxTypeOK
    <2> QED
      BY <1>2, <2>1, <2>2 DEF Analyze, SandboxInv, SandboxTypeOK
  <1>3. ASSUME NEW ok \in BOOLEAN, CopySample(ok) PROVE SandboxInv'
    BY <1>3 DEF CopySample, SandboxInv, SandboxTypeOK
  <1>4. ASSUME NEW ok \in BOOLEAN, Execute(ok) PROVE SandboxInv'
    BY <1>4 DEF Execute, SandboxInv, SandboxTypeOK
  <1>5. CASE Prints
    BY <1>5 DEF Prints, SandboxInv, SandboxTypeOK
  <1>6. CASE Acts
    <2>1. yPc = "wait" /\ yVerdict = "none" /\ yFiles' \subseteq FileKinds
      BY <1>6 DEF Acts, SandboxInv, SandboxTypeOK
    <2>2. yChild' \in {"running", "exited", "crashed"}
      BY <1>6 DEF Acts
    <2> QED
      BY <1>6, <2>1, <2>2 DEF Acts, SandboxInv, SandboxTypeOK
  <1>7. CASE TimePasses
    BY <1>7 DEF TimePasses, SandboxInv, SandboxTypeOK
  <1>8. CASE WaitReturns
    <2>1. ySeen' \subseteq DOMAIN Factor
      BY <1>8 DEF WaitReturns, SandboxInv, SandboxTypeOK, Factor
    <2> QED
      BY <1>8, <2>1 DEF WaitReturns, SandboxInv, SandboxTypeOK
  <1>9. CASE KillSample
    BY <1>9 DEF KillSample, SandboxInv, SandboxTypeOK
  <1>10. CASE ReapSample
    <2>1. ySeen' \subseteq DOMAIN Factor
      BY <1>10 DEF ReapSample, SandboxInv, SandboxTypeOK, Factor
    <2> QED
      BY <1>10, <2>1 DEF ReapSample, SandboxInv, SandboxTypeOK
  <1>11. CASE Judge
    <2>1. PICK factors : factors = ySeen \cup (yFiles \cap DOMAIN Factor)
      OBVIOUS
    <2>2. /\ ySeen' = factors /\ yPc = "judge" /\ yPc' = "clean"
          /\ yVerdict' = IF Score(factors) >= 70 THEN "malicious"
                         ELSE IF Score(factors) >= 10 THEN "suspicious" ELSE "clean"
          /\ UNCHANGED <<yChild, yOrphan, yPipe, yFiles, yDir, yLate, yLeaves, yRuns>>
      BY <1>11, <2>1 DEF Judge
    <2>3. factors \subseteq DOMAIN Factor
      BY <2>1 DEF SandboxInv, SandboxTypeOK
    <2>4. yVerdict' \in {"malicious", "suspicious", "clean"}
      BY <2>2
    <2>5. ASSUME yVerdict' = "clean"
          PROVE  yFiles' \cap {"note", "locked"} = {} /\ yChild' # "killed"
      <3>1. ~(Score(factors) >= 10)
        BY <2>2, <2>5
      <3>2. "note" \notin factors /\ "locked" \notin factors /\ "timeout" \notin factors
        BY <3>1, ScoreOf
      <3> QED
        BY <2>1, <2>2, <3>2 DEF SandboxInv, Factor
    <2> QED
      BY <2>2, <2>3, <2>4, <2>5 DEF SandboxInv, SandboxTypeOK
  <1>12. CASE CleanUp
    <2>1. yDir >= 1 /\ yPc = "clean"
      BY <1>12 DEF CleanUp, SandboxInv
    <2>2. yDir' \in 0..MaxAnalyses /\ yDir' <= yRuns
      BY <1>12, <2>1 DEF CleanUp, SandboxInv, SandboxTypeOK
    <2>3. "copy" \notin yLeaves' => yDir' = 0
      BY <1>12, <2>1 DEF CleanUp, SandboxInv, SandboxTypeOK
    <2> QED
      BY <1>12, <2>1, <2>2, <2>3 DEF CleanUp, SandboxInv, SandboxTypeOK
  <1> QED
    BY <1>1, <1>2, <1>3, <1>4, <1>5, <1>6, <1>7, <1>8, <1>9, <1>10, <1>11, <1>12
       DEF SandboxNext, SandboxStep

-----------------------------------------------------------------------------
\* The invariants of the components that answer.
AnswersInv == CanaryInv /\ ProcInv /\ ResolverInv /\ JobInv /\ SandboxInv

LEMMA AnswersInvStep == AnswersInv /\ [WatchSpecNext]_hostVars => AnswersInv'
  <1> SUFFICES ASSUME AnswersInv, [WatchSpecNext]_hostVars PROVE AnswersInv'
    OBVIOUS
  <1>1. CanaryInv' /\ JobInv' /\ ResolverInv' /\ SandboxInv'
    BY StepOfComponent, CanaryInvStep, ResolverInvStep, JobInvStep, SandboxInvStep DEF AnswersInv
  <1>2. ProcInv'
    BY StepOfComponent, ProcInvStep DEF AnswersInv
  <1> QED
    BY <1>1, <1>2 DEF AnswersInv

(* AnswersAreTrue, whatever the numbers of canaries, processes, providers, *)
(* failing tools and analyses: an alarm names a canary that was touched, a *)
(* killed process is gone, a cached answer is its provider's and young, an *)
(* uninstalled schedule stays away and an analysis leaves nothing behind.  *)
THEOREM AnswersAreTrueHolds == Spec => []AnswersAreTrue
  <1>1. WatchSpecInit => AnswersInv
    BY CanaryInitInv, ProcInitInv, ResolverInitInv, JobInitInv, SandboxInitInv
       DEF WatchSpecInit, AnswersInv
  <1>2. AnswersInv /\ [WatchSpecNext]_hostVars => AnswersInv'
    BY AnswersInvStep
  <1>3. AnswersInv => AnswersAreTrue
    BY CanaryInvHolds, ProcInvHolds, ResolverInvHolds, JobInvHolds, SandboxInvHolds
       DEF AnswersInv, AnswersAreTrue
  <1> QED
    BY <1>1, <1>2, <1>3, PTL DEF Spec

-----------------------------------------------------------------------------
(* Registrations: the type invariant is inductive as it stands, with the   *)
(* loops' sets as a function.                                              *)
AutorunInv == AutorunTypeOK /\ sTodo \in [LoopIds -> SUBSET Autoruns]

LEMMA AutorunInitInv == AutorunInit => AutorunInv
  BY DEF AutorunInit, AutorunInv, AutorunTypeOK

LEMMA AutorunInvStep == AutorunInv /\ (AutorunNext \/ UNCHANGED autorunVars) => AutorunInv'
  <1> SUFFICES ASSUME AutorunInv, AutorunNext \/ UNCHANGED autorunVars PROVE AutorunInv'
    OBVIOUS
  <1>1. CASE UNCHANGED autorunVars
    BY <1>1 DEF autorunVars, AutorunInv, AutorunTypeOK
  <1>2. CASE StartAutorunWatch \/ StopAutorunWatch
    BY <1>2 DEF StartAutorunWatch, StopAutorunWatch, AutorunInv, AutorunTypeOK
  <1>3. ASSUME NEW e \in Autoruns, EditAutorun(e) PROVE AutorunInv'
    <2>1. PICK c \in {"none", "good", "bad"} : sEntries' = [sEntries EXCEPT ![e] = c]
      BY <1>3 DEF EditAutorun
    <2>2. sEntries' \in [Autoruns -> {"none", "good", "bad"}]
      BY <2>1 DEF AutorunInv, AutorunTypeOK
    <2>3. sMissed' \subseteq Autoruns
      BY <1>3 DEF EditAutorun, AutorunInv, AutorunTypeOK
    <2> QED
      BY <1>3, <2>2, <2>3 DEF EditAutorun, AutorunInv, AutorunTypeOK
  <1>4. ASSUME NEW l \in LoopIds, NextScan(l) \/ EndScan(l) \/ ScanRaises(l) PROVE AutorunInv'
    <2>1. sLoops' \in [LoopIds -> {"none", "baseline", "sleep", "scan"}]
      BY <1>4 DEF NextScan, EndScan, ScanRaises, AutorunInv, AutorunTypeOK
    <2>2. sTodo' \in [LoopIds -> SUBSET Autoruns]
      BY <1>4 DEF NextScan, EndScan, ScanRaises, AutorunInv
    <2> QED
      BY <1>4, <2>1, <2>2 DEF NextScan, EndScan, ScanRaises, AutorunInv, AutorunTypeOK
  <1>5. ASSUME NEW l \in LoopIds, NEW e \in Autoruns, VisitAutorun(l, e) PROVE AutorunInv'
    BY <1>5 DEF VisitAutorun, AutorunInv, AutorunTypeOK
  <1> QED
    BY <1>1, <1>2, <1>3, <1>4, <1>5 DEF AutorunNext, AutorunLoop

-----------------------------------------------------------------------------
(* Media and downloads: whatever is at a place has a number of its own.    *)
DropInv ==
  /\ DropTypeOK
  /\ xDrops \in 0..MaxDrops
  /\ xPlace \in [DropPlaces -> [id : 0..xDrops, ripe : BOOLEAN]]
  /\ \A p \in DropPlaces : xPlace[p].id = 0 => xPlace[p] = NoDrop
  /\ xKnown \subseteq DropPlaces /\ xScanned \subseteq DropPlaces /\ xTodo \subseteq DropPlaces

LEMMA DropInitInv == DropInit => DropInv
  BY DropAssumption DEF DropInit, DropInv, DropTypeOK, NoDrop

\* A step that leaves the places alone.
LEMMA DropMove ==
  ASSUME DropInv, UNCHANGED <<xKind, xPlace, xDrops>>, xPc' \in {"off", "wait", "check", "dead"},
         xKnown' \subseteq DropPlaces, xScanned' \subseteq DropPlaces, xTodo' \subseteq DropPlaces,
         xReported' \subseteq 1..MaxDrops
  PROVE  DropInv'
  BY DEF DropInv, DropTypeOK, NoDrop

\* A step that changes what is at one place.
LEMMA PlaceMove ==
  ASSUME DropInv, NEW p \in DropPlaces, NEW d \in [id : 0..xDrops', ripe : BOOLEAN],
         xPlace' = [xPlace EXCEPT ![p] = d], d.id = 0 => d = NoDrop,
         xDrops' \in xDrops..MaxDrops, UNCHANGED <<xKind, xPc, xKnown, xScanned, xTodo, xReported>>
  PROVE  DropInv'
  <1>1. xDrops \in Nat /\ xDrops' \in Nat /\ 0..xDrops \subseteq 0..xDrops' /\ xDrops' \in 0..MaxDrops
    BY DropAssumption DEF DropInv
  <1>2. xPlace \in [DropPlaces -> [id : 0..xDrops', ripe : BOOLEAN]]
    <2>1. \A q \in DropPlaces : xPlace[q] \in [id : 0..xDrops', ripe : BOOLEAN]
      BY <1>1 DEF DropInv
    <2> QED
      BY <2>1 DEF DropInv
  <1>3. xPlace' \in [DropPlaces -> [id : 0..xDrops', ripe : BOOLEAN]]
    BY <1>2
  <1>4. \A q \in DropPlaces : xPlace'[q].id = 0 => xPlace'[q] = NoDrop
    BY DEF DropInv
  <1> QED
    BY <1>1, <1>3, <1>4 DEF DropInv, DropTypeOK, NoDrop

LEMMA DropInvStep == DropInv /\ (DropNext \/ UNCHANGED dropVars) => DropInv'
  <1> SUFFICES ASSUME DropInv, DropNext \/ UNCHANGED dropVars PROVE DropInv'
    OBVIOUS
  <1>1. /\ Taken \subseteq DropPlaces /\ xReported \subseteq 1..MaxDrops
        /\ xPc \in {"off", "wait", "check", "dead"} /\ xDrops \in 0..MaxDrops
        /\ xKnown \subseteq DropPlaces /\ xScanned \subseteq DropPlaces /\ xTodo \subseteq DropPlaces
    BY DEF Taken, DropInv, DropTypeOK
  <1>2. \A p \in DropPlaces : xPlace[p].id \in 0..MaxDrops
    <2> SUFFICES ASSUME NEW p \in DropPlaces PROVE xPlace[p].id \in 0..MaxDrops
      OBVIOUS
    <2>1. xPlace[p].id \in 0..xDrops
      BY DEF DropInv
    <2> QED
      BY <1>1, <2>1, DropAssumption
  <1>3. \A p \in DropPlaces : {xPlace[p].id} \ {0} \subseteq 1..MaxDrops
    <2> SUFFICES ASSUME NEW p \in DropPlaces, xPlace[p].id # 0 PROVE xPlace[p].id \in 1..MaxDrops
      OBVIOUS
    <2>1. xPlace[p].id \in 0..MaxDrops
      BY <1>2
    <2> QED
      BY <2>1, DropAssumption
  <1>4. CASE UNCHANGED dropVars
    BY <1>1, <1>4, DropMove DEF dropVars
  <1>5. ASSUME NEW p \in DropPlaces, Arrive(p) PROVE DropInv'
    <2>1. PICK d : d = [id |-> xDrops + 1, ripe |-> xKind = "usb"]
      OBVIOUS
    <2>2. xDrops' = xDrops + 1 /\ xDrops' \in xDrops..MaxDrops /\ xDrops + 1 \in 1..(xDrops')
      BY <1>1, <1>5, DropAssumption DEF Arrive
    <2>3. d \in [id : 0..xDrops', ripe : BOOLEAN] /\ d.id # 0
      BY <2>1, <2>2
    <2>4. /\ xPlace' = [xPlace EXCEPT ![p] = d]
          /\ UNCHANGED <<xKind, xPc, xKnown, xScanned, xTodo, xReported>>
      BY <1>5, <2>1, <2>2 DEF Arrive
    <2> QED
      BY <2>2, <2>3, <2>4, PlaceMove
  <1>6. ASSUME NEW p \in DropPlaces, Ripen(p) PROVE DropInv'
    <2>1. PICK d : d = [xPlace[p] EXCEPT !.ripe = TRUE]
      OBVIOUS
    <2>2. xPlace[p] \in [id : 0..xDrops, ripe : BOOLEAN] /\ xPlace[p].id # 0
      BY <1>6 DEF DropInv, Ripen
    <2>3. d \in [id : 0..xDrops, ripe : BOOLEAN] /\ d.id # 0
      BY <2>1, <2>2
    <2>4. /\ xPlace' = [xPlace EXCEPT ![p] = d] /\ xDrops' = xDrops
          /\ UNCHANGED <<xKind, xPc, xKnown, xScanned, xTodo, xReported>>
      BY <1>6, <2>1 DEF Ripen
    <2>5. xDrops' \in xDrops..MaxDrops
      BY <1>1, <2>4
    <2> QED
      BY <2>3, <2>4, <2>5, PlaceMove
  <1>7. ASSUME NEW p \in DropPlaces, Withdraw(p) PROVE DropInv'
    <2>1. /\ xPlace' = [xPlace EXCEPT ![p] = NoDrop] /\ xDrops' = xDrops
          /\ UNCHANGED <<xKind, xPc, xKnown, xScanned, xTodo, xReported>>
      BY <1>7 DEF Withdraw
    <2>2. NoDrop \in [id : 0..xDrops', ripe : BOOLEAN] /\ xDrops' \in xDrops..MaxDrops
      BY <1>1, <2>1 DEF NoDrop
    <2> QED
      BY <2>1, <2>2, PlaceMove
  <1>8. ASSUME NEW seen \in SUBSET DropPlaces, StartDrops(seen) PROVE DropInv'
    BY <1>1, <1>8, DropMove DEF StartDrops
  <1>9. CASE StopDrops
    BY <1>1, <1>9, DropMove DEF StopDrops
  <1>10. ASSUME NEW seen \in SUBSET DropPlaces, ListDrops(seen) PROVE DropInv'
    BY <1>1, <1>10, DropMove DEF ListDrops
  <1>11. ASSUME NEW p \in DropPlaces, CheckDrop(p) PROVE DropInv'
    <2>1. xReported' \subseteq 1..MaxDrops
      <3>1. xReported' = xReported \/ xReported' = xReported \cup ({xPlace[p].id} \ {0})
        BY <1>11 DEF CheckDrop
      <3> QED
        BY <1>1, <1>3, <3>1
    <2>2. xPc' \in {"off", "wait", "check", "dead"}
      BY <1>1, <1>11 DEF CheckDrop
    <2>3. xTodo' \subseteq DropPlaces /\ xScanned' \subseteq DropPlaces /\ xKnown' = xKnown
      BY <1>1, <1>11 DEF CheckDrop
    <2>4. UNCHANGED <<xKind, xPlace, xDrops>>
      BY <1>11 DEF CheckDrop
    <2> QED
      BY <1>1, <2>1, <2>2, <2>3, <2>4, DropMove
  <1>12. CASE EndRound
    BY <1>1, <1>12, DropMove DEF EndRound
  <1>13. ASSUME NEW p \in DropPlaces, ScanDropNow(p) PROVE DropInv'
    <2>1. xPlace[p].id # 0
      BY <1>13 DEF ScanDropNow, Taken, DropInv
    <2>2. xReported' \subseteq 1..MaxDrops
      <3>1. xReported' = xReported \/ xReported' = xReported \cup {xPlace[p].id}
        BY <1>13 DEF ScanDropNow
      <3> QED
        BY <1>1, <1>3, <2>1, <3>1
    <2>3. /\ UNCHANGED <<xKind, xPlace, xDrops, xPc, xKnown, xTodo>> /\ xScanned' \subseteq DropPlaces
      BY <1>1, <1>13 DEF ScanDropNow
    <2> QED
      BY <1>1, <2>2, <2>3, DropMove
  <1> QED
    BY <1>4, <1>5, <1>6, <1>7, <1>8, <1>9, <1>10, <1>11, <1>12, <1>13 DEF DropNext, DropLoop

-----------------------------------------------------------------------------
(* Connections: finitely many are open, and the recorded times of a host   *)
(* are no older than the window.                                           *)

\* A set of naturals with 0 and the successor of each of its elements has them all.
LEMMA Inductive ==
  ASSUME NEW T, 0 \in T, \A n \in Nat : n \in T => n + 1 \in T
  PROVE  Nat \subseteq T
  <1> SUFFICES ASSUME Nat \ T # {} PROVE FALSE
    OBVIOUS
  <1>1. PICK x \in Nat \ T : \A y \in Nat \ T : x <= y
    BY Least
  <1>2. x - 1 \in Nat /\ x - 1 \in T
    BY <1>1
  <1> QED
    BY <1>1, <1>2

OldAges == Seq(0..BeaconWindow)

\* f[i] is what a second leaves of the first i ages.
AgedUpTo(ages, n, f) ==
  f = [i \in 0..n |-> IF i = 0 THEN <<>>
                      ELSE IF ages[i] < BeaconWindow THEN Append(f[i - 1], ages[i] + 1) ELSE f[i - 1]]

\* The recursive function of Aged exists, and its values are histories.
LEMMA AgedUpToExists ==
  ASSUME NEW ages, NEW n \in Nat
  PROVE  \E f : AgedUpTo(ages, n, f)
  <1> DEFINE T == {m \in Nat : \E f : AgedUpTo(ages, m, f)}
  <1>1. 0 \in T
    <2>1. AgedUpTo(ages, 0, [i \in 0..0 |-> <<>>])
      BY DEF AgedUpTo
    <2> QED
      BY <2>1
  <1>2. ASSUME NEW m \in Nat, m \in T PROVE m + 1 \in T
    <2>1. PICK f : AgedUpTo(ages, m, f)
      BY <1>2
    <2> DEFINE step(h, i) == IF i = 0 THEN <<>>
                 ELSE IF ages[i] < BeaconWindow THEN Append(h[i - 1], ages[i] + 1) ELSE h[i - 1]
               g == [i \in 0..(m + 1) |-> step(f, i)]
    <2>2. \A i \in 0..m : f[i] = step(f, i)
      BY <2>1 DEF AgedUpTo
    <2>3. \A i \in 0..m : g[i] = f[i]
      BY <2>2
    <2>4. \A i \in 0..(m + 1) : i # 0 => g[i - 1] = f[i - 1]
      <3> SUFFICES ASSUME NEW i \in 0..(m + 1), i # 0 PROVE g[i - 1] = f[i - 1]
        OBVIOUS
      <3>1. i - 1 \in 0..m
        BY <1>2
      <3> HIDE DEF g
      <3> QED
        BY <2>3, <3>1
    <2>5. g = [i \in 0..(m + 1) |-> step(g, i)]
      BY <2>4
    <2> HIDE DEF g
    <2>6. AgedUpTo(ages, m + 1, g)
      BY <2>5 DEF AgedUpTo
    <2> QED
      BY <2>6
  <1> HIDE DEF T
  <1>3. n \in T
    BY <1>1, <1>2, Inductive
  <1> QED
    BY <1>3 DEF T

LEMMA AgedUpToIsHistory ==
  ASSUME NEW ages \in OldAges, NEW f, AgedUpTo(ages, Len(ages), f)
  PROVE  \A i \in 0..Len(ages) : f[i] \in OldAges
  <1> DEFINE T == {m \in Nat : m <= Len(ages) => f[m] \in OldAges}
  <1>1. Len(ages) \in Nat
    BY DEF OldAges
  <1>2. 0 \in T
    <2>1. f[0] = <<>>
      BY <1>1 DEF AgedUpTo
    <2>2. <<>> \in Seq(0..BeaconWindow)
      OBVIOUS
    <2> QED
      BY <2>1, <2>2 DEF OldAges
  <1>3. ASSUME NEW m \in Nat, m \in T PROVE m + 1 \in T
    <2> SUFFICES ASSUME m + 1 <= Len(ages) PROVE f[m + 1] \in OldAges
      OBVIOUS
    <2>1. f[m] \in OldAges
      BY <1>1, <1>3
    <2>2. m + 1 \in 1..Len(ages) /\ m + 1 \in 0..Len(ages) /\ (m + 1) - 1 = m /\ m + 1 # 0
      BY <1>1
    <2>3. PICK a \in 0..BeaconWindow : a = ages[m + 1]
      <3>1. ages \in Seq(0..BeaconWindow)
        BY DEF OldAges
      <3> QED
        BY <2>2, <3>1, ElementOfSeq
    <2> DEFINE l == m + 1
    <2>4. f[l] = IF ages[l] < BeaconWindow THEN Append(f[l - 1], ages[l] + 1) ELSE f[l - 1]
      <3> HIDE DEF l
      <3> QED
        BY <2>2 DEF AgedUpTo, l
    <2>5. f[m + 1] = IF a < BeaconWindow THEN Append(f[m], a + 1) ELSE f[m]
      BY <2>2, <2>3, <2>4
    <2>6. a < BeaconWindow => a + 1 \in 0..BeaconWindow
      BY ConnAssumption
    <2>7. ASSUME NEW s \in OldAges, NEW e \in 0..BeaconWindow PROVE Append(s, e) \in OldAges
      BY DEF OldAges
    <2> QED
      BY <2>1, <2>5, <2>6, <2>7
  <1> HIDE DEF T
  <1>4. Nat \subseteq T
    BY <1>2, <1>3, Inductive
  <1> QED
    BY <1>1, <1>4 DEF T

LEMMA AgedIsHistory ==
  ASSUME NEW ages \in OldAges
  PROVE  Aged(ages) \in OldAges
  <1> DEFINE f == CHOOSE f : AgedUpTo(ages, Len(ages), f)
  <1>1. Len(ages) \in Nat
    BY DEF OldAges
  <1>2. AgedUpTo(ages, Len(ages), f)
    BY <1>1, AgedUpToExists
  <1>3. Aged(ages) = f[Len(ages)]
    BY DEF Aged, AgedUpTo
  <1> HIDE DEF f
  <1>4. Len(ages) \in 0..Len(ages)
    BY <1>1
  <1> QED
    BY <1>2, <1>3, <1>4, AgedUpToIsHistory

Watch == [kind : {"none", "monitor", "firewall"}, loop : {"off", "on", "dead"}, due : BOOLEAN,
          blocked : SUBSET Hosts, allowed : SUBSET Hosts, ages : [Hosts -> OldAges]]
ConnInv ==
  /\ nOpened \in Nat /\ IsFiniteSet(nOpen)
  /\ \A c \in nOpen : c.id \in 1..nOpened /\ c.host \in Hosts /\ c.port \in Ports
  /\ nWatch \in Watch

LEMMA ConnInitInv == ConnInit => ConnInv
  <1> SUFFICES ASSUME ConnInit PROVE ConnInv
    OBVIOUS
  <1>1. <<>> \in OldAges
    BY DEF OldAges
  <1>2. [h \in Hosts |-> <<>>] \in [Hosts -> OldAges]
    BY <1>1
  <1>3. nWatch \in Watch
    BY <1>2 DEF ConnInit, Watch
  <1> QED
    BY <1>3, FS_EmptySet DEF ConnInit, ConnInv

LEMMA ConnInvHolds == ConnInv => ConnTypeOK
  BY DEF ConnInv, ConnTypeOK, Watch, OldAges

\* What a scan records is as old as the window at most.
LEMMA ScannedIsWatch ==
  ASSUME ConnInv
  PROVE  Scanned \in Watch
  <1>1. ASSUME NEW h \in Hosts PROVE Ages(h, Cardinality(QuietTo(h))) \in OldAges
    <2>1. Cardinality(QuietTo(h)) \in Nat
      <3>1. QuietTo(h) \subseteq nOpen
        BY DEF QuietTo
      <3> QED
        BY <3>1, FS_Subset, FS_CardinalityType DEF ConnInv
    <2>2. PICK j \in Nat : j = Cardinality(QuietTo(h))
      BY <2>1
    <2>3. [i \in 1..j |-> 0] \in OldAges
      BY ConnAssumption DEF OldAges
    <2>4. nWatch.ages[h] \in OldAges
      BY DEF ConnInv, Watch
    <2> QED
      BY <2>2, <2>3, <2>4 DEF Ages, OldAges
  <1>2. [h \in Hosts |-> Ages(h, Cardinality(QuietTo(h)))] \in [Hosts -> OldAges]
    BY <1>1
  <1>3. PICK t \in [Hosts -> OldAges] : Scanned = [nWatch EXCEPT !.due = FALSE, !.ages = t]
    BY <1>2, Zenon DEF Scanned
  <1> QED
    BY <1>3 DEF ConnInv, Watch

LEMMA ConnInvStep == ConnInv /\ (ConnNext \/ UNCHANGED connVars) => ConnInv'
  <1> SUFFICES ASSUME ConnInv, ConnNext \/ UNCHANGED connVars PROVE ConnInv'
    OBVIOUS
  <1>1. CASE UNCHANGED connVars
    BY <1>1 DEF connVars, ConnInv
  <1>2. ASSUME NEW h \in Hosts, NEW port \in Ports, Connect(h, port) PROVE ConnInv'
    <2>1. PICK c : c = [id |-> nOpened + 1, host |-> h, port |-> port]
      OBVIOUS
    <2>2. nOpened' = nOpened + 1 /\ nWatch' = nWatch /\ nOpen' = nOpen \cup {c}
      BY <1>2, <2>1 DEF Connect
    <2>3. IsFiniteSet(nOpen')
      BY <2>2, FS_AddElement DEF ConnInv
    <2>4. ASSUME NEW d \in nOpen' PROVE d.id \in 1..nOpened' /\ d.host \in Hosts /\ d.port \in Ports
      <3>1. CASE d = c
        BY <2>1, <2>2, <3>1 DEF ConnInv
      <3>2. CASE d \in nOpen
        BY <2>2, <3>2 DEF ConnInv
      <3> QED
        BY <2>2, <2>4, <3>1, <3>2
    <2> QED
      BY <2>2, <2>3, <2>4 DEF ConnInv
  <1>3. ASSUME NEW c \in nOpen, Disconnect(c) PROVE ConnInv'
    <2>1. nOpen' \subseteq nOpen /\ nOpened' = nOpened /\ nWatch' = nWatch
      BY <1>3 DEF Disconnect
    <2>2. IsFiniteSet(nOpen')
      BY <2>1, FS_Subset DEF ConnInv
    <2> QED
      BY <2>1, <2>2 DEF ConnInv
  <1>4. ASSUME NEW h \in Hosts, EditLists(h) PROVE ConnInv'
    <2>1. CASE nWatch' = [nWatch EXCEPT !.allowed = @ \cup {h}]
      BY <1>4, <2>1 DEF EditLists, ConnInv, Watch
    <2>2. ASSUME NEW S \in {nWatch.blocked \cup {h}, nWatch.blocked \ {h}},
                 nWatch' = [nWatch EXCEPT !.blocked = S]
          PROVE  ConnInv'
      <3>1. S \in SUBSET Hosts
        BY DEF ConnInv, Watch
      <3> QED
        BY <1>4, <2>2, <3>1 DEF EditLists, ConnInv, Watch
    <2> QED
      BY <1>4, <2>1, <2>2 DEF EditLists
  <1>5. CASE Elapse
    <2>1. nWatch.ages \in [Hosts -> OldAges]
      BY DEF ConnInv, Watch
    <2>2. [h \in Hosts |-> Aged(nWatch.ages[h])] \in [Hosts -> OldAges]
      BY <2>1, AgedIsHistory
    <2>3. PICK t \in [Hosts -> OldAges] : nWatch' = [nWatch EXCEPT !.due = TRUE, !.ages = t]
      BY <1>5, <2>2, Zenon DEF Elapse
    <2>4. nWatch' \in Watch
      BY <2>3 DEF ConnInv, Watch
    <2> QED
      BY <1>5, <2>4 DEF Elapse, ConnInv
  <1>6. CASE MonitorScan
    BY <1>6, ScannedIsWatch DEF MonitorScan, ConnInv
  <1>7. CASE FirewallScan
    <2>1. PICK l \in {"on", "dead"} : nWatch' = [Scanned EXCEPT !.loop = l]
      BY <1>7 DEF FirewallScan
    <2>2. nWatch' \in Watch
      BY <2>1, ScannedIsWatch DEF Watch
    <2> QED
      BY <1>7, <2>2 DEF FirewallScan, ConnInv
  <1>8. CASE StopWatch \/ StartWatch("monitor") \/ StartWatch("firewall")
    <2>1. nWatch' \in Watch
      BY <1>8 DEF StopWatch, StartWatch, ConnInv, Watch
    <2> QED
      BY <1>8, <2>1 DEF StopWatch, StartWatch, ConnInv
  <1> QED
    BY <1>1, <1>2, <1>3, <1>4, <1>5, <1>6, <1>7, <1>8 DEF ConnNext

-----------------------------------------------------------------------------
(* Backends: a loop that handles is at a watched directory, a kernel's     *)
(* buffer that can overflow has not, and the port's has nothing.           *)
LoopPcs == {"none", "read", "wait", "handle", "reissue", "decide", "gone"}
WatchersInv ==
  /\ WatchersTypeOK
  /\ vLoop = [pc |-> vLoop.pc, dir |-> vLoop.dir, todo |-> vLoop.todo]
  /\ vLoop.pc = "handle" => vLoop.dir \in WatchDirs
  /\ vKernel \in [WatchDirs -> Seq(WatchDirs \X WatchFiles)]
  /\ vMode = "port" => \A d \in WatchDirs : vKernel[d] = <<>>

\* Neither files nor the kernel change.
LEMMA BackendMove ==
  ASSUME WatchersInv, UNCHANGED <<vMode, vCwd, vKernel>>,
         vOwner' \in {"new", "on", "join", "close", "off"}, vStop' \in BOOLEAN,
         vLoop' = [pc |-> vLoop'.pc, dir |-> vLoop'.dir, todo |-> vLoop'.todo], vLoop'.pc \in LoopPcs,
         vLoop'.pc = "handle" => vLoop'.dir \in WatchDirs,
         vAsked' \subseteq WatchDirs, vDone' \subseteq WatchDirs, vLost' \subseteq WatchDirs,
         vDirty' \subseteq WatchDirs \X WatchFiles
  PROVE  WatchersInv'
  BY DEF WatchersInv, WatchersTypeOK, LoopPcs

LEMMA WatchersInitInv == WatchersInit => WatchersInv
  <1> SUFFICES ASSUME WatchersInit PROVE WatchersInv
    OBVIOUS
  <1>1. vKernel \in [WatchDirs -> Seq(WatchDirs \X WatchFiles)]
    <2>1. <<>> \in Seq(WatchDirs \X WatchFiles)
      OBVIOUS
    <2> QED
      BY <2>1 DEF WatchersInit
  <1>2. \A d \in WatchDirs : vKernel[d] = <<>> /\ Len(vKernel[d]) <= KernelMax
    BY WatchersAssumption DEF WatchersInit
  <1> QED
    BY <1>1, <1>2 DEF WatchersInit, WatchersInv, WatchersTypeOK, LoopAt

LEMMA FileChangesStep ==
  ASSUME WatchersInv, NEW d \in WatchDirs, NEW f \in WatchFiles, FileChanges(d, f)
  PROVE  WatchersInv'
  <1>1. PICK s \in WatchDirs : s = SourceOf(d)
    BY WatchersAssumption DEF SourceOf
  <1>2. PICK full \in Drops(s) :
          /\ vKernel' = [vKernel EXCEPT ![s] = IF full THEN <<>>
                         ELSE IF Contains(@, <<d, f>>) THEN @ ELSE Append(@, <<d, f>>)]
          /\ vLost' = IF full THEN vLost \cup {e \in WatchDirs : SourceOf(e) = s} ELSE vLost
          /\ IF full /\ vMode = "rdcw"
             THEN vDone' = vDone \cup (vAsked \cap {s}) /\ vAsked' = vAsked \ {s}
             ELSE UNCHANGED <<vDone, vAsked>>
    BY <1>1 DEF FileChanges
  <1>3. PICK k : k = vKernel[s]
    OBVIOUS
  <1>4. k \in Seq(WatchDirs \X WatchFiles) /\ (vMode = "rdcw" => Len(k) <= KernelMax)
    BY <1>3 DEF WatchersInv, WatchersTypeOK
  <1>5. PICK l : l = (IF full THEN <<>> ELSE IF Contains(k, <<d, f>>) THEN k ELSE Append(k, <<d, f>>))
    OBVIOUS
  <1>6. /\ vKernel' = [vKernel EXCEPT ![s] = l]
        /\ vLost' \subseteq vLost \cup WatchDirs /\ vDone' \subseteq vDone \cup {s} /\ vAsked' \subseteq vAsked
        /\ vDirty' = vDirty \cup {<<d, f>>} /\ vMode # "port"
        /\ UNCHANGED <<vMode, vCwd, vOwner, vStop, vLoop>>
    BY <1>2, <1>3, <1>5 DEF FileChanges
  <1>7. <<d, f>> \in WatchDirs \X WatchFiles
    OBVIOUS
  <1>8. l \in Seq(WatchDirs \X WatchFiles)
    BY <1>4, <1>5, <1>7
  <1>9. vMode = "rdcw" => Len(l) <= KernelMax
    <2>1. Len(k) \in Nat /\ Len(Append(k, <<d, f>>)) = Len(k) + 1 /\ Len(<<>>) = 0
      BY <1>4
    <2>2. vMode = "rdcw" /\ ~full => Len(k) # KernelMax
      BY <1>2, <1>3 DEF Drops
    <2> QED
      BY <1>4, <1>5, <2>1, <2>2, WatchersAssumption
  <1>10. vKernel' \in [WatchDirs -> Seq(WatchDirs \X WatchFiles)]
    BY <1>6, <1>8 DEF WatchersInv
  <1>11. vMode = "rdcw" => \A e \in WatchDirs : Len(vKernel'[e]) <= KernelMax
    BY <1>6, <1>9 DEF WatchersInv, WatchersTypeOK
  <1> QED
    BY <1>6, <1>7, <1>10, <1>11 DEF WatchersInv, WatchersTypeOK

LEMMA WatchersInvStep == WatchersInv /\ (WatchersNext \/ UNCHANGED watchersVars) => WatchersInv'
  <1> SUFFICES ASSUME WatchersInv, WatchersNext \/ UNCHANGED watchersVars PROVE WatchersInv'
    OBVIOUS
  <1>1. /\ vOwner \in {"new", "on", "join", "close", "off"} /\ vStop \in BOOLEAN
        /\ vLoop = [pc |-> vLoop.pc, dir |-> vLoop.dir, todo |-> vLoop.todo]
        /\ vLoop.pc \in LoopPcs /\ (vLoop.pc = "handle" => vLoop.dir \in WatchDirs)
        /\ vAsked \subseteq WatchDirs /\ vDone \subseteq WatchDirs /\ vLost \subseteq WatchDirs
        /\ vDirty \subseteq WatchDirs \X WatchFiles
    BY DEF WatchersInv, WatchersTypeOK, LoopPcs
  <1>2. ASSUME NEW pc \in LoopPcs \ {"handle"}, vLoop' = LoopAt(pc)
        PROVE  /\ vLoop' = [pc |-> vLoop'.pc, dir |-> vLoop'.dir, todo |-> vLoop'.todo]
               /\ vLoop'.pc \in LoopPcs /\ vLoop'.pc # "handle"
    BY <1>2 DEF LoopAt
  <1>3. CASE UNCHANGED watchersVars
    BY <1>1, <1>3, BackendMove DEF watchersVars
  <1>4. ASSUME NEW watched \in {{}, WatchDirs}, StartBackend(watched) PROVE WatchersInv'
    <2>1. PICK pc \in LoopPcs \ {"handle"} : vLoop' = LoopAt(pc)
      BY <1>4 DEF StartBackend, LoopPcs
    <2>2. vStop' \in BOOLEAN /\ vAsked' \subseteq WatchDirs
      BY <1>4, WatchersAssumption DEF StartBackend
    <2>3. /\ vOwner' = "on" /\ UNCHANGED <<vMode, vCwd, vKernel, vDone, vDirty, vLost>>
      BY <1>4 DEF StartBackend
    <2> QED
      BY <1>1, <1>2, <2>1, <2>2, <2>3, BackendMove
  <1>5. CASE DriverMissing
    <2>1. \A d \in WatchDirs : Len(vKernel[d]) <= KernelMax
      BY <1>5, WatchersAssumption DEF DriverMissing, WatchersInv
    <2> QED
      BY <1>5, <2>1 DEF DriverMissing, WatchersInv, WatchersTypeOK, Modes
  <1>6. CASE StopBackend
    BY <1>1, <1>6, BackendMove DEF StopBackend
  <1>7. CASE FirstReads
    BY <1>1, <1>2, <1>7, BackendMove DEF FirstReads, LoopPcs
  <1>8. CASE LoopEnds
    BY <1>1, <1>2, <1>8, BackendMove DEF LoopEnds, LoopPcs
  <1>9. CASE Report
    <2>1. PICK rest : vLoop' = [vLoop EXCEPT !.todo = rest]
      BY <1>9 DEF Report
    <2>2. /\ vLoop' = [pc |-> vLoop'.pc, dir |-> vLoop'.dir, todo |-> vLoop'.todo]
          /\ vLoop'.pc = vLoop.pc /\ vLoop'.dir = vLoop.dir
      BY <1>1, <2>1
    <2> QED
      BY <1>1, <1>9, <2>2, BackendMove DEF Report
  <1>10. CASE Reissue
    BY <1>1, <1>2, <1>10, BackendMove DEF Reissue, LoopPcs
  <1>11. ASSUME NEW s \in WatchDirs, Wakes(s) PROVE WatchersInv'
    BY <1>1, <1>11, BackendMove DEF Wakes, LoopPcs
  <1>12. ASSUME NEW p \in Openers, GetMessage(p) PROVE WatchersInv'
    BY <1>1, <1>12, BackendMove DEF GetMessage, LoopPcs
  <1>13. ASSUME NEW allowed \in BOOLEAN, Reply(allowed) PROVE WatchersInv'
    BY <1>1, <1>2, <1>13, BackendMove DEF Reply, LoopPcs
  <1>14. CASE Joined
    BY <1>1, <1>14, BackendMove DEF Joined
  <1>15. CASE CloseHandles
    BY <1>1, <1>15, BackendMove DEF CloseHandles
  <1>16. ASSUME NEW s \in WatchDirs, Complete(s) PROVE WatchersInv'
    <2>1. /\ vKernel' = [vKernel EXCEPT ![s] = <<>>] /\ vDone' \subseteq WatchDirs
          /\ vAsked' \subseteq WatchDirs /\ UNCHANGED <<vMode, vCwd, vOwner, vStop, vLoop, vDirty, vLost>>
      BY <1>1, <1>16 DEF Complete
    <2>2. vKernel' \in [WatchDirs -> Seq(WatchDirs \X WatchFiles)]
      <3>1. <<>> \in Seq(WatchDirs \X WatchFiles)
        OBVIOUS
      <3> QED
        BY <2>1, <3>1 DEF WatchersInv
    <2>3. \A d \in WatchDirs : vKernel'[d] = <<>> \/ vKernel'[d] = vKernel[d]
      BY <2>1 DEF WatchersInv
    <2>4. vMode = "rdcw" => \A d \in WatchDirs : Len(vKernel'[d]) <= KernelMax
      BY <2>3, WatchersAssumption DEF WatchersInv, WatchersTypeOK
    <2> QED
      BY <1>1, <2>1, <2>2, <2>3, <2>4 DEF WatchersInv, WatchersTypeOK
  <1>17. ASSUME NEW p \in Openers, OpenAsked(p) PROVE WatchersInv'
    BY <1>1, <1>17, BackendMove DEF OpenAsked
  <1> QED
    BY <1>3, <1>4, <1>5, <1>6, <1>7, <1>8, <1>9, <1>10, <1>11, <1>12, <1>13, <1>14, <1>15, <1>16, <1>17,
       FileChangesStep DEF WatchersNext, LoopStep, StopStep, Completes

-----------------------------------------------------------------------------
\* The variables of all nine components stay in their types.
TypesInv == AnswersInv /\ AutorunInv /\ ConnInv /\ WatchersInv /\ DropInv
THEOREM TypesHold == Spec => []TypeOK
  <1>1. WatchSpecInit => TypesInv
    BY CanaryInitInv, ProcInitInv, ResolverInitInv, JobInitInv, SandboxInitInv, AutorunInitInv,
       ConnInitInv, WatchersInitInv, DropInitInv DEF WatchSpecInit, TypesInv, AnswersInv
  <1>2. TypesInv /\ [WatchSpecNext]_hostVars => TypesInv'
    <2> SUFFICES ASSUME TypesInv, [WatchSpecNext]_hostVars PROVE TypesInv'
      OBVIOUS
    <2>1. AnswersInv'
      BY AnswersInvStep DEF TypesInv
    <2>2. AutorunInv' /\ ConnInv' /\ WatchersInv' /\ DropInv'
      BY StepOfComponent, AutorunInvStep, ConnInvStep, WatchersInvStep, DropInvStep DEF TypesInv
    <2> QED
      BY <2>1, <2>2 DEF TypesInv
  <1>3. TypesInv => TypeOK
    BY CanaryInvHolds, ProcInvHolds, ResolverInvHolds, JobInvHolds, SandboxInvHolds, ConnInvHolds
       DEF TypesInv, AnswersInv, AutorunInv, WatchersInv, DropInv, TypeOK
  <1> QED
    BY <1>1, <1>2, <1>3, PTL DEF Spec

=============================================================================
