---------------------------- MODULE ArchiveScan -----------------------------
(***************************************************************************)
(* ScanEngine._scan_file and _scan_archive_contents (aegorx/engine.py) on  *)
(* archives: one level is extracted to a working directory under digests   *)
(* of the member names (aegorx/scanner/archives.py), every extracted file  *)
(* is scanned, archives among them one level deeper, and the detections    *)
(* travel upwards.  What a file holds is decided when it is looked at.     *)
(***************************************************************************)
EXTENDS Integers, Sequences, SequencesExt, FiniteSets

CONSTANTS MemberNames,
          MaxMembers,      \* bound: members of one archive
          MaxDepth,        \* archive_limits.max_depth
          MaxEntries,      \* archive_limits.max_entries
          MaxScans         \* bound: scans of one engine

ASSUME ArchiveAssumption == MaxDepth \in Nat /\ MaxScans \in Nat

VARIABLES bStack,    \* archives being scanned, outermost first
          bPc,       \* "idle", "file", "extract", "looked", "next"
          bNow,      \* content of the file being scanned
          bFound,    \* severities found in it
          bFailed,   \* it ends as an error
          bVerdict,  \* verdict of the last finished scan
          bHidden,   \* history: why content may not have been looked at
          bBad,      \* history: malicious content was in a file or member
          bSeen,     \* history: malicious content was looked at
          bDirs,     \* working directories not yet given to rmtree
          bScans

archiveVars ==
  <<bStack, bPc, bNow, bFound, bFailed, bVerdict, bHidden, bBad, bSeen, bDirs, bScans>>

(* What the detectors of one file make of it.  A signature, a rule or the  *)
(* classifier finds what is "bad", in an archive as in any file (then it   *)
(* is "marked"); office.analyze_vba_sources and                            *)
(* pdfdoc.analyze_pdf_content tell a payload started on opening ("chain")  *)
(* from a payload ("active") and from mere macros or links ("extras").     *)
SeverityOf == [bad |-> 9, marked |-> 9, chain |-> 8, active |-> 6, extras |-> 4]
DetectedKinds == DOMAIN SeverityOf
Contents == DetectedKinds \cup {"clean", "unreadable", "archive"}
Malicious == {"bad", "marked", "chain"}
IsArchive(content) == content \in {"archive", "marked"}
Severities(content) == IF content \in DetectedKinds THEN {SeverityOf[content]} ELSE {}

ScanVerdict(found) ==
  IF \E s \in found : s >= 8 THEN "malicious"
  ELSE IF \E s \in found : s >= 5 THEN "suspicious" ELSE "clean"

ArchiveInit ==
  /\ bStack = <<>> /\ bPc = "idle" /\ bNow = "clean" /\ bFound = {} /\ bFailed = FALSE
  /\ bVerdict = "none" /\ bHidden = {} /\ bBad = FALSE /\ bSeen = FALSE
  /\ bDirs = 0 /\ bScans = 0

ArchiveTypeOK ==
  /\ Len(bStack) <= MaxDepth /\ bDirs \in 0..MaxDepth /\ bScans \in 0..MaxScans
  /\ bPc \in {"idle", "file", "extract", "looked", "next"} /\ bNow \in Contents
  /\ bFound \subseteq 0..10 /\ bFailed \in BOOLEAN
  /\ bBad \in BOOLEAN /\ bSeen \in BOOLEAN
  /\ bVerdict \in {"none", "clean", "suspicious", "malicious", "error", "raised"}
  /\ bHidden \subseteq
       {"same name", "unwritten", "skipped", "container", "too deep", "unreadable"}
  /\ \A i \in DOMAIN bStack : bStack[i].found \subseteq 0..10 /\ bStack[i].todo \in Seq(Contents)

ScanFile(content) ==
  /\ bPc = "idle" /\ bScans < MaxScans /\ bScans' = bScans + 1
  /\ bPc' = "file" /\ bNow' = content
  /\ bFound' = {} /\ bFailed' = FALSE /\ bHidden' = {} /\ bBad' = (content \in Malicious)
  /\ bSeen' = FALSE /\ bVerdict' = "none"
  /\ UNCHANGED <<bStack, bDirs>>

(* One file: the detectors, then the archive branch.  An unreadable or     *)
(* oversized file is an error, an archive too deep a remark.               *)
Depth == Len(bStack)
\* Seeded fault: one level too many.
BugTooDeep(depth) == depth > MaxDepth
TooDeep(depth) == depth >= MaxDepth
LookAt ==
  /\ bPc = "file"
  /\ LET deep == IsArchive(bNow) /\ TooDeep(Depth) IN
     /\ bFound' = Severities(bNow) \cup (IF deep THEN {3} ELSE {})
     /\ bHidden' = bHidden \cup (IF deep THEN {"too deep"} ELSE {})
                           \cup (IF bNow = "unreadable" THEN {"unreadable"} ELSE {})
     /\ bFailed' = (bNow = "unreadable")
     /\ bSeen' = (bSeen \/ bNow \in Malicious)
     /\ bPc' = IF IsArchive(bNow) /\ ~deep THEN "extract" ELSE "looked"
  /\ UNCHANGED <<bStack, bNow, bVerdict, bBad, bDirs, bScans>>

(* extract_archive writes the regular members, in order, each to           *)
(* <digest of its name>.bin, and returns an entry for each.  Directories,  *)
(* links and special members are skipped; a member that cannot be written  *)
(* is left out and its file removed.  Members of one name share a file:    *)
(* what was done last is what every entry of that name finds.              *)
Fates == {"written", "unwritten", "skipped"}
Members == UNION {[1..n -> [name : MemberNames, content : Contents, fate : Fates]] :
                    n \in 0..MaxMembers}
OnDisk(members, i) ==
  LET same == {j \in DOMAIN members :
                 members[j].name = members[i].name /\ members[j].fate # "skipped"}
      last == CHOOSE j \in same : \A o \in same : o <= j
  IN IF members[last].fate = "written" THEN members[last].content ELSE "unreadable"
Written(members) == {i \in DOMAIN members : members[i].fate = "written"}
InOrder(S) ==
  {f \in [1..Cardinality(S) -> S] :
     /\ \A i \in S : \E k \in DOMAIN f : f[k] = i
     /\ \A k, l \in DOMAIN f : k < l => f[k] < f[l]}
WithinBudget(n) == n <= MaxEntries
Extract(members) ==
  /\ bPc = "extract" /\ WithinBudget(Cardinality(Written(members)))
  /\ \E entries \in InOrder(Written(members)) :
       bStack' = Append(bStack, [found |-> bFound,
                   todo |-> [k \in DOMAIN entries |-> OnDisk(members, entries[k])]])
  /\ bHidden' = bHidden
       \cup ({members[i].fate : i \in DOMAIN members} \ {"written"})
       \cup (IF \E i \in Written(members) : OnDisk(members, i) # members[i].content
             THEN {"same name"} ELSE {})
  /\ bBad' = (bBad \/ \E i \in DOMAIN members : members[i].content \in Malicious)
  /\ bDirs' = bDirs + 1 /\ bPc' = "next"
  /\ bNow' = "clean" /\ bFound' = {} /\ bFailed' = FALSE
  /\ UNCHANGED <<bVerdict, bSeen, bScans>>

(* A budget that is blown is one detection; a malformed archive, an        *)
(* encrypted member or the time limit make the whole container             *)
(* unscannable, an error unless something was found in the archive file    *)
(* itself.                                                                 *)
ContainerFails(bomb) ==
  /\ bPc = "extract"
  /\ bFound' = bFound \cup (IF bomb THEN {6} ELSE {})
  /\ bFailed' = (~bomb /\ bFound = {})
  /\ bHidden' = bHidden \cup {"container"}
  /\ bPc' = "looked"
  /\ UNCHANGED <<bStack, bNow, bVerdict, bBad, bSeen, bDirs, bScans>>

(* What neither extract_archive nor _scan_archive_contents catches (the    *)
(* zlib.error of a damaged deflate stream) leaves every level: each        *)
(* finally removes its working directory, and the findings are lost.       *)
ScanRaises ==
  /\ bPc = "extract"
  /\ bStack' = <<>> /\ bDirs' = 0
  /\ bVerdict' = "raised" /\ bPc' = "idle"
  /\ UNCHANGED <<bNow, bFound, bFailed, bHidden, bBad, bSeen, bScans>>

(* The next extracted file, one level deeper. *)
NextMember ==
  /\ bPc = "next" /\ Last(bStack).todo # <<>>
  /\ bStack' = [bStack EXCEPT ![Depth].todo = Tail(@)]
  /\ bNow' = Head(Last(bStack).todo) /\ bFound' = {} /\ bFailed' = FALSE
  /\ bPc' = "file"
  /\ UNCHANGED <<bVerdict, bHidden, bBad, bSeen, bDirs, bScans>>

\* Seeded fault: the last member decides.
BugCollected(above, inner) == inner

(* The detections of a member go to its archive; its error does not. *)
Collected(above, inner) == above \cup inner
MemberScanned ==
  /\ bPc = "looked" /\ bStack # <<>>
  /\ bStack' = [bStack EXCEPT ![Depth].found = Collected(@, bFound)]
  /\ bPc' = "next"
  /\ UNCHANGED <<bNow, bFound, bFailed, bVerdict, bHidden, bBad, bSeen, bDirs, bScans>>

LeaveArchive ==
  /\ bPc = "next" /\ Last(bStack).todo = <<>>
  /\ bFound' = Last(bStack).found /\ bFailed' = FALSE
  /\ bStack' = Front(bStack) /\ bDirs' = bDirs - 1
  /\ bPc' = "looked"
  /\ UNCHANGED <<bNow, bVerdict, bHidden, bBad, bSeen, bScans>>

FinishScan ==
  /\ bPc = "looked" /\ bStack = <<>>
  /\ bVerdict' = IF bFailed THEN "error" ELSE ScanVerdict(bFound)
  /\ bPc' = "idle"
  /\ UNCHANGED <<bStack, bNow, bFound, bFailed, bHidden, bBad, bSeen, bDirs, bScans>>

ArchiveNext ==
  \/ \E c \in Contents : ScanFile(c)
  \/ LookAt \/ NextMember \/ MemberScanned \/ LeaveArchive \/ FinishScan \/ ScanRaises
  \/ \E m \in Members : Extract(m)
  \/ \E b \in BOOLEAN : ContainerFails(b)

-----------------------------------------------------------------------------
(* A scan that ends with a verdict calls malicious whatever it looked at   *)
(* and found malicious, whatever else was hidden from it; and, when no     *)
(* limit, lost member or shared name kept anything from being looked at,   *)
(* whatever was inside at all.  When a scan is over, by an exception too,  *)
(* every level has given its working directory back                        *)
(* (engine.py _scan_archive_contents, _scan_file, _verdict).               *)
BadMemberIsReported ==
  bPc = "idle" =>
    /\ bVerdict \notin {"none", "raised"} /\ (bSeen \/ (bBad /\ bHidden = {})) =>
         bVerdict = "malicious"
    /\ bDirs = 0

(* "broad exception capture (fail-safe verdict, never fail-scan)"          *)
(* (SECURITY.md:22), "extract_archive raises only ArchiveError-family on   *)
(* malformed inputs" (tests/test_fuzz.py:177): what was looked at and      *)
(* found malicious is the verdict of the scan, damaged members beside it   *)
(* or not.                                                                 *)
LookedAtIsReported == bPc = "idle" /\ bSeen => bVerdict = "malicious"
=============================================================================
