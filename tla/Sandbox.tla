------------------------------ MODULE Sandbox -------------------------------
(***************************************************************************)
(* BehavioralSandbox.analyze (aegorx/sandbox/behavioral_sandbox.py): a     *)
(* copy of a file is run in a new directory with its output on pipes       *)
(* nobody reads, waited for, killed when its time is over, and judged by   *)
(* its exit and by the files it leaves in the directory.  Scores are in    *)
(* hundredths.                                                             *)
(***************************************************************************)
EXTENDS Integers, FiniteSets

CONSTANTS PipeSize,    \* what a pipe holds
          MaxAnalyses  \* bound: calls of analyze

ASSUME SandboxAssumption == PipeSize \in Nat /\ MaxAnalyses \in Nat

VARIABLES yPc,       \* the analysis
          yChild,    \* the process: "none", "running", "blocked", "exited", "crashed", "killed", "stuck"
          yOrphan,   \* a descendant runs
          yPipe,     \* unread output
          yFiles,    \* kinds of files in the directory that were not there before
          yDir,      \* directories of analyses not yet given to rmtree
          yLate,     \* the timeout has passed
          ySeen,     \* what the result says: set of factors
          yVerdict,
          yLeaves,   \* history: what is left behind
          yRuns

sandboxVars == <<yPc, yChild, yOrphan, yPipe, yFiles, yDir, yLate, ySeen, yVerdict, yLeaves, yRuns>>

FileKinds == {"note", "locked", "plain"}
\* MALICIOUS_FILE_PATTERNS, the execution anomalies and the program's own name.
Factor == [note |-> 40, locked |-> 40, timeout |-> 15, crashed |-> 5, shell |-> 15]

SandboxInit ==
  /\ yPc = "idle" /\ yChild = "none" /\ yOrphan = FALSE /\ yPipe = 0 /\ yFiles = {}
  /\ yDir = 0 /\ yLate = FALSE /\ ySeen = {} /\ yVerdict = "none" /\ yLeaves = {} /\ yRuns = 0

SandboxTypeOK ==
  /\ yPc \in {"idle", "copy", "execute", "wait", "reap", "judge", "clean"}
  /\ yChild \in {"none", "running", "blocked", "exited", "crashed", "killed", "stuck"}
  /\ yPipe \in 0..PipeSize /\ yFiles \subseteq FileKinds /\ yDir \in 0..MaxAnalyses
  /\ ySeen \subseteq DOMAIN Factor
  /\ yVerdict \in {"none", "unknown", "clean", "suspicious", "malicious"}

\* A result for a path that is no file has no more than its factor.
Analyze(shell) ==
  /\ yPc = "idle" /\ yRuns < MaxAnalyses /\ yRuns' = yRuns + 1
  /\ yPc' = "copy" /\ yDir' = yDir + 1
  /\ yChild' = "none" /\ yOrphan' = FALSE /\ yPipe' = 0 /\ yFiles' = {} /\ yLate' = FALSE
  /\ ySeen' = IF shell THEN {"shell"} ELSE {}
  /\ yVerdict' = "none"
  /\ UNCHANGED yLeaves

\* A copy that fails returns at once: the directory stays.
CopySample(ok) ==
  /\ yPc = "copy"
  /\ IF ok THEN yPc' = "execute" /\ UNCHANGED <<yVerdict, yLeaves>>
     ELSE yPc' = "idle" /\ yVerdict' = "unknown" /\ yLeaves' = yLeaves \cup {"copy"}
  /\ UNCHANGED <<yChild, yOrphan, yPipe, yFiles, yDir, yLate, ySeen, yRuns>>

(* A program that cannot be started is judged by nothing; its name is not  *)
(* recorded.  The profile that sandbox-exec reads (macOS) is a temporary   *)
(* file nobody removes.                                                    *)
Execute(ok) ==
  /\ yPc = "execute"
  /\ \E profile \in {{}, {"profile"}} : yLeaves' = yLeaves \cup profile
  /\ IF ok THEN yChild' = "running" /\ yPc' = "wait" /\ UNCHANGED ySeen
     ELSE yPc' = "judge" /\ ySeen' = {} /\ UNCHANGED yChild
  /\ UNCHANGED <<yOrphan, yPipe, yFiles, yDir, yLate, yVerdict, yRuns>>

(* External: what the program does until it writes to a pipe that is full, *)
(* and the passing of its time.                                            *)
Prints ==
  /\ yChild = "running"
  /\ IF yPipe < PipeSize THEN yPipe' = yPipe + 1 /\ UNCHANGED yChild
                         ELSE yChild' = "blocked" /\ UNCHANGED yPipe
  /\ UNCHANGED <<yPc, yOrphan, yFiles, yDir, yLate, ySeen, yVerdict, yLeaves, yRuns>>
Acts ==
  /\ yChild = "running"
  /\ \/ \E f \in FileKinds : yFiles' = yFiles \cup {f} /\ UNCHANGED <<yChild, yOrphan>>
     \/ \E f \in yFiles : yFiles' = yFiles \ {f} /\ UNCHANGED <<yChild, yOrphan>>
     \/ yOrphan' = TRUE /\ UNCHANGED <<yChild, yFiles>>
     \/ yChild' \in {"exited", "crashed"} /\ UNCHANGED <<yOrphan, yFiles>>
  /\ UNCHANGED <<yPc, yPipe, yDir, yLate, ySeen, yVerdict, yLeaves, yRuns>>
TimePasses ==
  /\ yPc = "wait" /\ ~yLate
  /\ yLate' = TRUE
  /\ UNCHANGED <<yPc, yChild, yOrphan, yPipe, yFiles, yDir, ySeen, yVerdict, yLeaves, yRuns>>

\* proc.wait returns, or its time is over and the process, no other, is killed.
WaitReturns ==
  /\ yPc = "wait" /\ yChild \in {"exited", "crashed"}
  /\ yPc' = "judge"
  /\ ySeen' = ySeen \cup ({yChild} \cap {"crashed"})
  /\ UNCHANGED <<yChild, yOrphan, yPipe, yFiles, yDir, yLate, yVerdict, yLeaves, yRuns>>
KillSample ==
  /\ yPc = "wait" /\ yChild \in {"running", "blocked"} /\ yLate
  /\ yPc' = "reap"
  /\ yChild' \in {"killed", "stuck"}
  /\ UNCHANGED <<yOrphan, yPipe, yFiles, yDir, yLate, ySeen, yVerdict, yLeaves, yRuns>>
\* The second wait may time out, too; then the result does not say timed_out.
ReapSample ==
  /\ yPc = "reap"
  /\ yPc' = "judge"
  /\ IF yChild = "killed" THEN ySeen' = ySeen \cup {"timeout"} /\ UNCHANGED yLeaves
     ELSE yLeaves' = yLeaves \cup {"stuck"} /\ UNCHANGED ySeen
  /\ UNCHANGED <<yChild, yOrphan, yPipe, yFiles, yDir, yLate, yVerdict, yRuns>>

\* _diff_files and _analyze_behavior.
Weight(f, factors) == IF f \in factors THEN Factor[f] ELSE 0
Score(factors) == Weight("note", factors) + Weight("locked", factors) + Weight("timeout", factors)
                    + Weight("crashed", factors) + Weight("shell", factors)
Judge ==
  /\ yPc = "judge"
  /\ LET factors == ySeen \cup (yFiles \cap DOMAIN Factor) IN
     /\ ySeen' = factors
     /\ yVerdict' = IF Score(factors) >= 70 THEN "malicious"
                    ELSE IF Score(factors) >= 10 THEN "suspicious" ELSE "clean"
  /\ yPc' = "clean"
  /\ UNCHANGED <<yChild, yOrphan, yPipe, yFiles, yDir, yLate, yLeaves, yRuns>>

\* rmtree ignores its errors: what it cannot remove, or a descendant writes, stays.
CleanUp ==
  /\ yPc = "clean"
  /\ yPc' = "idle" /\ yDir' = yDir - 1
  /\ \E rest \in {{}, {"rest"}} : yLeaves' = yLeaves \cup rest
  /\ UNCHANGED <<yChild, yOrphan, yPipe, yFiles, yLate, ySeen, yVerdict, yRuns>>

SandboxStep ==
  \/ \E ok \in BOOLEAN : CopySample(ok) \/ Execute(ok)
  \/ WaitReturns \/ KillSample \/ ReapSample \/ Judge \/ CleanUp
SandboxNext == SandboxStep \/ Prints \/ Acts \/ TimePasses \/ \E shell \in BOOLEAN : Analyze(shell)

-----------------------------------------------------------------------------
(* An analysis that is over has waited for its program, unless the kill    *)
(* did not end it, and has given its directory to rmtree, unless the copy  *)
(* failed, whether the program ended, blocked on a full pipe or ran out of *)
(* time (analyze); and what it calls clean has neither a ransom note in    *)
(* its directory nor a run that had to be killed.                          *)
SandboxIsLeftClean ==
  (yPc = "idle") =>
    /\ ("copy" \notin yLeaves) => (yDir = 0)
    /\ yChild \notin {"running", "blocked"}
    /\ (yChild = "stuck") => ("stuck" \in yLeaves)
    /\ (yVerdict = "clean") => (yFiles \cap {"note", "locked"} = {} /\ yChild # "killed")

\* An analysis has not come to its end.
AnalysisGoesOn == yPc # "idle"
=============================================================================
