------------------------------- MODULE Canary -------------------------------
(***************************************************************************)
(* The canary files of aegorx/ransomware.py.  Every CLI command is a       *)
(* process of its own: it loads canary-index.json into a table, works on   *)
(* the table and the files, and saves the table.  `ransomware start` keeps *)
(* its table and checks it in a loop; the other commands do not tell it    *)
(* that the index has changed.                                             *)
(***************************************************************************)
EXTENDS Integers, FiniteSets

CONSTANTS CanaryProcs,    \* processes that run a canary command
          CanaryNames,    \* 1..n, the positions in CANARY_NAMES
          MaxPerDir,      \* max_canaries_per_dir
          MaxTouches,     \* bound: interventions of other programs
          MaxCommands     \* bound: commands started

ASSUME CanaryAssumption == CanaryNames \subseteq Nat

VARIABLES cFile,      \* path -> content, of the one monitored directory
          cIndex,     \* canary-index.json: path -> original_hash
          cTmp,       \* canary-index.json.tmp: the table in it, if any
          cTable,     \* process -> its _canaries: path -> original_hash
          cPc, cWork, \* process -> program counter, paths still to do
          cReported,  \* paths check_all has reported
          cOurs,     \* history: paths aegorx itself unlinked or opened over a file
          cUnread,   \* history: paths a check could not read
          cTouched,   \* paths other programs have changed or deleted
          cStarted

canaryHistory == <<cOurs, cUnread, cTouched>>
canaryVars == <<cFile, cIndex, cTmp, cTable, cPc, cWork, cReported, canaryHistory, cStarted>>

CanaryContents == {"none", "empty", "canary", "other"}
NoTable == [n \in {} |-> "canary"]
\* file_hash: "" for a file that is not there or, for whatever reason, cannot
\* be read.
HashesOf(n) == {""} \cup ({cFile[n]} \ {"none"})
\* CanaryFile.hash_matches: a canary without a hash matches everything.
HashMatches(original, current) == original = "" \/ original = current

CanaryInit ==
  /\ cFile = [n \in CanaryNames |-> "none"]
  /\ cIndex = NoTable /\ cTmp = {}
  /\ cTable = [p \in CanaryProcs |-> NoTable]
  /\ cPc = [p \in CanaryProcs |-> "off"]
  /\ cWork = [p \in CanaryProcs |-> {}]
  /\ cReported = {} /\ cOurs = {} /\ cUnread = {} /\ cTouched = {} /\ cStarted = 0

CanaryTypeOK ==
  /\ cFile \in [CanaryNames -> CanaryContents]
  /\ \A t \in {cIndex} \cup cTmp \cup {cTable[p] : p \in CanaryProcs} :
       DOMAIN t \subseteq CanaryNames /\ {t[n] : n \in DOMAIN t} \subseteq CanaryContents \cup {""}
  /\ \A p \in CanaryProcs : cWork[p] \subseteq CanaryNames
  /\ cReported \cup cOurs \cup cUnread \cup cTouched \subseteq CanaryNames

\* Sequential execution: the lowest remaining path is next.
NextPath(p) == CHOOSE n \in cWork[p] : \A m \in cWork[p] : n <= m
PathDone(p, n) == cWork' = [cWork EXCEPT ![p] = @ \ {n}]
CanaryAt(p, l) == cPc' = [cPc EXCEPT ![p] = l]

(* A command starts: __init__ loads the index; deploy and start then       *)
(* consider CANARY_NAMES[:remaining].                                      *)
StartCommand(p) ==
  /\ cPc[p] = "off" /\ cStarted < MaxCommands
  /\ cStarted' = cStarted + 1
  /\ cTable' = [cTable EXCEPT ![p] = cIndex]
  /\ \E c \in {"deploy", "start", "check", "remove"} :
       LET remaining == MaxPerDir - Cardinality(DOMAIN cIndex) IN
       /\ CanaryAt(p, c)
       /\ cWork' = [cWork EXCEPT ![p] =
            CASE c \in {"deploy", "start"} -> {n \in CanaryNames : n <= remaining}
              [] c \in {"check", "remove"} -> DOMAIN cIndex]
  /\ UNCHANGED <<cFile, cIndex, cTmp, cReported, canaryHistory>>

Deploying(p) == cPc[p] \in {"deploy", "start"} /\ cWork[p] # {}

(* A path that is in the table or that exists is left alone.               *)
SkipPath(p) ==
  /\ Deploying(p)
  /\ LET n == NextPath(p) IN
     /\ n \in DOMAIN cTable[p] \/ cFile[n] # "none"
     /\ PathDone(p, n)
  /\ UNCHANGED <<cFile, cIndex, cTmp, cTable, cPc, cReported, canaryHistory, cStarted>>

FoundFree(p) ==
  /\ Deploying(p)
  /\ LET n == NextPath(p) IN n \notin DOMAIN cTable[p] /\ cFile[n] = "none"
  /\ CanaryAt(p, IF cPc[p] = "deploy" THEN "deploy-open" ELSE "start-open")
  /\ UNCHANGED <<cFile, cIndex, cTmp, cTable, cWork, cReported, canaryHistory, cStarted>>

(* open(path, "w") empties whatever appeared meanwhile; the write and the  *)
(* reading back of the hash are steps of their own.  A path that cannot be *)
(* opened or written is skipped.                                           *)
OpenCanary(p) ==
  /\ cPc[p] \in {"deploy-open", "start-open"}
  /\ LET n == NextPath(p) IN
     /\ cFile' = [cFile EXCEPT ![n] = "empty"]
     /\ cOurs' = IF cFile[n] = "none" THEN cOurs ELSE cOurs \cup {n}
  /\ CanaryAt(p, IF cPc[p] = "deploy-open" THEN "deploy-write" ELSE "start-write")
  /\ UNCHANGED <<cIndex, cTmp, cTable, cWork, cReported, cUnread, cTouched, cStarted>>

WriteCanary(p) ==
  /\ cPc[p] \in {"deploy-write", "start-write"}
  /\ LET n == NextPath(p) IN
     cFile' = IF cFile[n] = "none" THEN cFile ELSE [cFile EXCEPT ![n] = "canary"]
  /\ CanaryAt(p, IF cPc[p] = "deploy-write" THEN "deploy-hash" ELSE "start-hash")
  /\ UNCHANGED <<cIndex, cTmp, cTable, cWork, cReported, canaryHistory, cStarted>>

WithCanary(p, n, h) ==
  [m \in DOMAIN cTable[p] \cup {n} |-> IF m = n THEN h ELSE cTable[p][m]]

WriteFails(p) ==
  /\ cPc[p] \in {"deploy-open", "start-open", "deploy-write", "start-write"}
  /\ PathDone(p, NextPath(p))
  /\ CanaryAt(p, IF cPc[p] \in {"deploy-open", "deploy-write"} THEN "deploy" ELSE "start")
  /\ UNCHANGED <<cFile, cIndex, cTmp, cTable, cReported, canaryHistory, cStarted>>

RecordCanary(p) ==
  /\ cPc[p] \in {"deploy-hash", "start-hash"}
  /\ LET n == NextPath(p) IN
     /\ \E h \in HashesOf(n) : cTable' = [cTable EXCEPT ![p] = WithCanary(p, n, h)]
     /\ PathDone(p, n)
  /\ CanaryAt(p, IF cPc[p] = "deploy-hash" THEN "deploy" ELSE "start")
  /\ UNCHANGED <<cFile, cIndex, cTmp, cReported, canaryHistory, cStarted>>

(* remove_all unlinks path by path, skipping what it cannot unlink; it     *)
(* clears the whole table and saves it.                                    *)
RemoveOne(p) ==
  /\ cPc[p] = "remove" /\ cWork[p] # {}
  /\ LET n == NextPath(p) IN
     /\ PathDone(p, n)
     /\ \/ cFile' = [cFile EXCEPT ![n] = "none"] /\ cOurs' = cOurs \cup {n}
        \/ UNCHANGED <<cFile, cOurs>>
  /\ UNCHANGED <<cIndex, cTmp, cTable, cPc, cReported, cUnread, cTouched, cStarted>>

ClearTable(p) ==
  /\ cPc[p] = "remove" /\ cWork[p] = {}
  /\ cTable' = [cTable EXCEPT ![p] = NoTable]
  /\ CanaryAt(p, "removed")
  /\ UNCHANGED <<cFile, cIndex, cTmp, cWork, cReported, canaryHistory, cStarted>>

(* _save_index: the temporary file is written, then renamed.  Its name is  *)
(* the same for every process.  A failure is logged and nothing else.      *)
WriteIndexTmp(p) ==
  /\ cPc[p] \in {"deploy", "start", "removed"} /\ cWork[p] = {}
  /\ \/ cTmp' = {cTable[p]} /\ CanaryAt(p, IF cPc[p] = "start" THEN "rename-loop" ELSE "rename")
     \/ UNCHANGED cTmp /\ CanaryAt(p, IF cPc[p] = "start" THEN "loop" ELSE "off")
  /\ UNCHANGED <<cFile, cIndex, cTable, cWork, cReported, canaryHistory, cStarted>>

RenameIndexTmp(p) ==
  /\ cPc[p] \in {"rename", "rename-loop"}
  /\ \/ cTmp = {} /\ UNCHANGED <<cIndex, cTmp>>
     \/ \E t \in cTmp : cIndex' = t /\ cTmp' = {}
  /\ CanaryAt(p, IF cPc[p] = "rename" THEN "off" ELSE "loop")
  /\ UNCHANGED <<cFile, cTable, cWork, cReported, canaryHistory, cStarted>>

(* One canary of check_all, for `ransomware check` and for the loop.  What *)
(* exists and cannot be read is "modified".                                *)
Alarms(original, current, n) == cFile[n] = "none" \/ ~HashMatches(original, current)

CheckOne(p) ==
  /\ cPc[p] \in {"check", "checking"} /\ cWork[p] # {}
  /\ LET n == NextPath(p) IN
     /\ \E h \in HashesOf(n) :
          /\ cReported' = IF Alarms(cTable[p][n], h, n) THEN cReported \cup {n} ELSE cReported
          /\ cUnread' = IF h = "" /\ cFile[n] # "none" THEN cUnread \cup {n} ELSE cUnread
     /\ PathDone(p, n)
  /\ UNCHANGED <<cFile, cIndex, cTmp, cTable, cPc, cOurs, cTouched, cStarted>>

EndCheck(p) ==
  /\ cPc[p] \in {"check", "checking"} /\ cWork[p] = {}
  /\ CanaryAt(p, IF cPc[p] = "check" THEN "off" ELSE "loop")
  /\ UNCHANGED <<cFile, cIndex, cTmp, cTable, cWork, cReported, canaryHistory, cStarted>>

(* The loop waits for its interval and checks its own table.               *)
LoopRound(p) ==
  /\ cPc[p] = "loop" /\ DOMAIN cTable[p] # {}
  /\ CanaryAt(p, "checking")
  /\ cWork' = [cWork EXCEPT ![p] = DOMAIN cTable[p]]
  /\ UNCHANGED <<cFile, cIndex, cTmp, cTable, cReported, canaryHistory, cStarted>>

(* A process ends at any point: Ctrl-C or a kill.                          *)
KillCanary(p) ==
  /\ cPc[p] # "off"
  /\ CanaryAt(p, "off")
  /\ cWork' = [cWork EXCEPT ![p] = {}]
  /\ cTable' = [cTable EXCEPT ![p] = NoTable]
  /\ UNCHANGED <<cFile, cIndex, cTmp, cReported, canaryHistory, cStarted>>

(* External: another program creates, changes or deletes the file.         *)
Touch(n) ==
  /\ Cardinality(cTouched) < MaxTouches /\ n \notin cTouched
  /\ \E c \in {"none", "other"} \ {cFile[n]} : cFile' = [cFile EXCEPT ![n] = c]
  /\ cTouched' = cTouched \cup {n}
  /\ UNCHANGED <<cIndex, cTmp, cTable, cPc, cWork, cReported, cOurs, cUnread, cStarted>>

CanaryStep(p) ==
  \/ StartCommand(p) \/ SkipPath(p) \/ FoundFree(p)
  \/ OpenCanary(p) \/ WriteCanary(p) \/ WriteFails(p) \/ RecordCanary(p)
  \/ RemoveOne(p) \/ ClearTable(p) \/ WriteIndexTmp(p) \/ RenameIndexTmp(p)
  \/ CheckOne(p) \/ EndCheck(p) \/ LoopRound(p) \/ KillCanary(p)
CanaryNext == (\E p \in CanaryProcs : CanaryStep(p)) \/ (\E n \in CanaryNames : Touch(n))

(* The checking thread keeps running.                                      *)
CheckLoop(p) == LoopRound(p) \/ CheckOne(p) \/ EndCheck(p)

-----------------------------------------------------------------------------
(* An alarm names a canary that another program touched, that aegorx       *)
(* itself removed or deployed anew while a loop was watching it            *)
(* (remove_all, _deploy_to_directory of another process), or that a check  *)
(* could not read (file_hash); in particular no interleaving of the        *)
(* commands' reads and writes of files and index raises one.               *)
CanaryAlarmsAreEarned == cReported \subseteq cTouched \cup cOurs \cup cUnread

(* check_all: "Returns list of (canary, reason) for any modified           *)
(* canaries." (ransomware.py:255): what is reported was modified or        *)
(* deleted, by whomever.                                                   *)
ReportedIsModified == cReported \subseteq cTouched \cup cOurs

(* A canary that a loop still watches and that is gone or different has    *)
(* not been reported yet (check_all).                                      *)
CanaryOverdue(n) ==
  /\ n \notin cReported
  /\ \E p \in CanaryProcs :
       /\ cPc[p] \in {"loop", "checking"} /\ n \in DOMAIN cTable[p]
       /\ cTable[p][n] # "" /\ cFile[n] # cTable[p][n]
=============================================================================
