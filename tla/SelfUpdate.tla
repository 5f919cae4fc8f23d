----------------------------- MODULE SelfUpdate -----------------------------
(***************************************************************************)
(* `aegorx update apply` (aegorx/update.py): processes fetch the release   *)
(* manifest from a mirror, check signature, expiry and version, download   *)
(* the artifact, compare it with the manifest and hand it to an installer. *)
(* The version a process compares with is the one it was started from.     *)
(***************************************************************************)
EXTENDS Integers, FiniteSets

CONSTANTS UpdateProcs,
          MaxVersion,      \* releases are 1..MaxVersion
          MaxUpdates       \* bound: update commands

ASSUME UpdateAssumption == MaxVersion \in Nat \ {0}

VARIABLES uPublished,   \* the newest release
          uExpired,     \* releases whose manifest has expired
          uProc,        \* process -> its update
          uInstalled,   \* [version, genuine, stale, excused] of the package on disk
          uBroken,      \* an installer was killed half way
          uUpdates

updateVars == <<uPublished, uExpired, uProc, uInstalled, uBroken, uUpdates>>

Versions == 1..MaxVersion
NoUpdate == [pc |-> "idle", running |-> 1, force |-> FALSE, allow |-> FALSE, target |-> 1,
             genuine |-> TRUE, stale |-> FALSE]

UpdateInit ==
  /\ uPublished = 1 /\ uExpired = {} /\ uProc = [p \in UpdateProcs |-> NoUpdate]
  /\ uInstalled = [version |-> 1, genuine |-> TRUE, stale |-> FALSE, excused |-> FALSE]
  /\ uBroken = FALSE /\ uUpdates = 0

UpdateTypeOK ==
  /\ uPublished \in Versions /\ uExpired \subseteq 1..uPublished
  /\ \A p \in UpdateProcs :
       /\ uProc[p].pc \in {"idle", "fetch", "expiry", "newer", "download", "apply", "install",
                         "orphan"}
       /\ uProc[p].running \in 1..uPublished /\ uProc[p].target \in 1..uPublished
  /\ uInstalled.version \in 1..uPublished /\ uBroken \in BOOLEAN

\* External: a release is made; its manifest lives for its ttl.
Release ==
  /\ uPublished < MaxVersion /\ uPublished' = uPublished + 1
  /\ UNCHANGED <<uExpired, uProc, uInstalled, uBroken, uUpdates>>
Expire(v) ==
  /\ v \in 1..uPublished /\ v \notin uExpired
  /\ uExpired' = uExpired \cup {v}
  /\ UNCHANGED <<uPublished, uProc, uInstalled, uBroken, uUpdates>>

Fails(p) == uProc' = [uProc EXCEPT ![p] = NoUpdate]
Goes(p, pc) == uProc' = [uProc EXCEPT ![p].pc = pc]

BeginUpdate(p, force, allow) ==
  /\ uProc[p].pc = "idle" /\ uUpdates < MaxUpdates /\ uUpdates' = uUpdates + 1
  /\ uProc' = [uProc EXCEPT ![p] = [NoUpdate EXCEPT !.pc = "fetch", !.force = force,
                 !.allow = allow, !.running = uInstalled.version]]
  /\ UNCHANGED <<uPublished, uExpired, uInstalled, uBroken>>

(* fetch_manifest and verify_manifest: the mirror serves a manifest of any *)
(* release so far; what is not signed, or cannot be had, ends the command. *)
Fetch(p, v, signed) ==
  /\ uProc[p].pc = "fetch" /\ v \in 1..uPublished
  /\ IF signed THEN uProc' = [uProc EXCEPT ![p].pc = "expiry", ![p].target = v] ELSE Fails(p)
  /\ UNCHANGED <<uPublished, uExpired, uInstalled, uBroken, uUpdates>>

CheckExpiry(p) ==
  /\ uProc[p].pc = "expiry"
  /\ LET stale == uProc[p].target \in uExpired IN
     IF stale /\ ~uProc[p].allow THEN Fails(p)
     ELSE uProc' = [uProc EXCEPT ![p].pc = "newer", ![p].stale = stale]
  /\ UNCHANGED <<uPublished, uExpired, uInstalled, uBroken, uUpdates>>

\* check and auto_apply: nothing newer ends the command, unless it is forced.
Newer(p) ==
  /\ uProc[p].pc = "newer"
  /\ IF uProc[p].target > uProc[p].running \/ uProc[p].force THEN Goes(p, "download") ELSE Fails(p)
  /\ UNCHANGED <<uPublished, uExpired, uInstalled, uBroken, uUpdates>>

\* Seeded fault: only the size is compared.
BugMatches(got) == got # "cut"

(* download_artifact: size and digest of what was written must be those of *)
(* the manifest; the directory is removed whatever happens.                *)
Matches(got) == got = "genuine"
Download(p, got) ==
  /\ uProc[p].pc = "download"
  /\ IF Matches(got) THEN uProc' = [uProc EXCEPT ![p].pc = "apply", ![p].genuine = (got = "genuine")]
     ELSE Fails(p)
  /\ UNCHANGED <<uPublished, uExpired, uInstalled, uBroken, uUpdates>>

\* apply_update: the version once more, and an installer for this kind of artifact.
MayReplace(target, running, force) == force \/ target > running
Apply(p, installer) ==
  /\ uProc[p].pc = "apply"
  /\ IF installer /\ MayReplace(uProc[p].target, uProc[p].running, uProc[p].force)
     THEN Goes(p, "install") ELSE Fails(p)
  /\ UNCHANGED <<uPublished, uExpired, uInstalled, uBroken, uUpdates>>

(* The installer succeeds, returns an error, or is killed when its time is *)
(* over; it is a process of its own and may have lost its parent.          *)
InstallerRuns(p) == uProc[p].pc \in {"install", "orphan"}
Install(p, outcome) ==
  /\ InstallerRuns(p)
  /\ uInstalled' = IF outcome = "ok"
       THEN [version |-> uProc[p].target, genuine |-> uProc[p].genuine,
             stale |-> uProc[p].stale, excused |-> uProc[p].allow]
       ELSE uInstalled
  /\ uBroken' = (outcome = "killed" \/ (uBroken /\ outcome = "error"))
  /\ Fails(p)
  /\ UNCHANGED <<uPublished, uExpired, uUpdates>>

\* A kill ends the command together with its installer, or leaves that at work.
KillUpdate(p) ==
  /\ uProc[p].pc # "idle"
  /\ \/ Fails(p) /\ uBroken' = (uBroken \/ InstallerRuns(p))
     \/ uProc[p].pc = "install" /\ Goes(p, "orphan") /\ UNCHANGED uBroken
  /\ UNCHANGED <<uPublished, uExpired, uInstalled, uUpdates>>

UpdateNext ==
  \/ Release \/ \E v \in Versions : Expire(v)
  \/ \E p \in UpdateProcs :
       \/ \E force, allow \in BOOLEAN : BeginUpdate(p, force, allow)
       \/ \E v \in Versions, signed \in BOOLEAN : Fetch(p, v, signed)
       \/ CheckExpiry(p) \/ Newer(p)
       \/ \E got \in {"genuine", "other", "cut"} : Download(p, got)
       \/ \E installer \in BOOLEAN : Apply(p, installer)
       \/ \E outcome \in {"ok", "error", "killed"} : Install(p, outcome)
       \/ KillUpdate(p)

-----------------------------------------------------------------------------
(* The module promises provenance, integrity and "rollback safety": what   *)
(* an update installs is what a signed manifest names, an expired manifest *)
(* was used only when that was allowed, and the version goes back only     *)
(* when forced, or when another update finished since this one's process   *)
(* started; although a manifest may expire, and a newer release may        *)
(* appear, between any two steps.                                          *)
InstalledIsVouchedFor ==
  [][uInstalled' # uInstalled =>
       /\ uInstalled'.genuine
       /\ uInstalled'.stale => uInstalled'.excused
       /\ uInstalled'.version < uInstalled.version =>
            \E p \in UpdateProcs : /\ InstallerRuns(p)
                                   /\ uProc[p].force \/ uProc[p].running # uInstalled.version]_updateVars

(* Updates "refuse downgrades/rollbacks" (docs/OPERATIONS.md:323): the     *)
(* version on disk goes back only when that is forced.                     *)
NeverRollsBack ==
  [][uInstalled'.version < uInstalled.version =>
       \E p \in UpdateProcs : InstallerRuns(p) /\ uProc[p].force]_updateVars
=============================================================================
