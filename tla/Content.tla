------------------------------- MODULE Content -------------------------------
(****************************************************************************)
(* Detection content: `feed update` (aegorx/cli.py) verifies a signed feed, *)
(* adds its signatures to the database, syncs the rule directory            *)
(* (rules_store.py) and records the feed as applied (signing/feed.py),      *)
(* while the reload loop of a running monitor polls that directory          *)
(* (scanner/yara_scanner.py).  An update may stop after any step.           *)
(*                                                                          *)
(* Feeds are numbered by the time they were generated, 0 being none.  Rule  *)
(* files are named by the hash of their source: a rule and its file are the *)
(* same thing, numbered in the order of the names.                          *)
(****************************************************************************)
EXTENDS Naturals, Sequences, FiniteSetsExt, SequencesExt

CONSTANTS
  Feeds,        \* 1..n
  Rules, Sigs,
  RulesOf,      \* the rules of a feed, in the order of the document
  SigsOf,       \* the signatures of a feed, in the order of the document
  Broken,       \* feeds whose rules do not compile as one source
  AloneSets,    \* the rules that may compile as a file of their own
  MaxUpdates,   \* bound: updates begun
  MaxStops,     \* bound: updates that are killed or raise
  MaxFaults     \* bound: rule files that cannot be removed

ASSUME ContentAssumption ==
  /\ Feeds \subseteq Nat \ {0} /\ Rules \subseteq Nat
  /\ RulesOf \in [Feeds -> Seq(Rules)] /\ SigsOf \in [Feeds -> Seq(Sigs)]
  /\ \A f \in Feeds : IsInjective(RulesOf[f])    \* the files are the keys of a dict
  /\ Broken \subseteq Feeds /\ AloneSets \subseteq SUBSET Rules
  /\ MaxUpdates \in Nat /\ MaxStops \in Nat /\ MaxFaults \in Nat

VARIABLES
  db,        \* signatures in the database
  dir,       \* modification time of each rule file, 0 if there is none
  staging,   \* the same in <state>/rules.staging
  recorded,  \* last feed in feed_state.json
  upc, feed, \* the running update and its document
  rest,      \* rows or rules it has still to handle in this step
  existing,  \* the rule files it listed
  now,       \* the clock of the file system
  mpc,       \* the reload loop of the monitor
  listing,   \* names its os.listdir returned and it has still to look at
  got, newest,  \* rules read, and the latest time seen, by _collect_sources
  stamp,     \* self._sources_mtime
  loaded,    \* self.rules, without the rules bundled with the program
  compiled,  \* FALSE: self.rules is None, the bundled rules are gone with them
  alone,     \* rules that need no other file: this feed's authors' choice
  begun,     \* history: the feed of the last update
  forced,    \* history: whether an update ever ran with --force
  raced,     \* history: rule files were read while the last update moved its own
  updates, stops, faults

store   == <<db, dir, staging, recorded, now>>
updater == <<upc, feed, rest, existing>>
monitor == <<mpc, listing, got, newest, stamp, loaded, compiled, alone>>
ghosts  == <<begun, forced, raced, updates, stops, faults>>
vars    == <<store, updater, monitor, ghosts>>

Init ==
  /\ db = {} /\ recorded = 0 /\ now = 0
  /\ dir = [r \in Rules |-> 0] /\ staging = [r \in Rules |-> 0]
  /\ upc = "idle" /\ feed = 0 /\ rest = <<>> /\ existing = {}
  /\ mpc = "idle" /\ listing = {} /\ got = {} /\ newest = 0
  /\ stamp = 0 /\ loaded = {} /\ compiled = TRUE /\ alone \in AloneSets
  /\ begun = 0 /\ forced = FALSE /\ raced = FALSE
  /\ updates = 0 /\ stops = 0 /\ faults = 0

----------------------------------------------------------------------------
(* feed update.                                                             *)

Files == {r \in Rules : dir[r] # 0}
Desired == ToSet(RulesOf[feed])

\* Seeded fault: every rule is removed before the new ones are moved in.
BugStaleIsAll == existing

Stale == existing \ Desired

\* check_replay: the time stamp of the document against feed_state.json.
Newer(f, force) == force \/ recorded = 0 \/ f > recorded

Idle == /\ upc' = "idle" /\ feed' = 0 /\ rest' = <<>> /\ existing' = {}

\* A document that verifies and has not expired; an older one ends it here.
Begin(f, force) ==
  /\ upc = "idle" /\ updates < MaxUpdates /\ updates' = updates + 1
  /\ Newer(f, force)
  /\ upc' = "rows" /\ feed' = f /\ rest' = SigsOf[f]
  /\ now' = now + 1
  /\ begun' = f /\ forced' = (forced \/ force)
  /\ UNCHANGED <<db, dir, staging, recorded, existing, monitor, raced, stops,
                 faults>>

\* apply_feed: every row is a transaction of its own.
AddRow ==
  /\ upc = "rows" /\ rest # <<>>
  /\ db' = db \cup {Head(rest)}
  /\ rest' = Tail(rest)
  /\ UNCHANGED <<dir, staging, recorded, now, upc, feed, existing, monitor,
                 ghosts>>

\* Seeded fault: rules that do not compile are skipped, the update goes on.
BugRefusedIsRecorded ==
  /\ upc = "rows" /\ rest = <<>> /\ feed \in Broken
  /\ upc' = "record"
  /\ UNCHANGED <<store, feed, rest, existing, monitor, ghosts>>

\* install_rules compiles the sources joined into one and refuses the whole
\* set before it touches a file.
RefuseRules ==
  /\ upc = "rows" /\ rest = <<>> /\ feed \in Broken
  /\ Idle
  /\ UNCHANGED <<store, monitor, ghosts>>

\* The directory is listed, then an old staging directory removed.
ListRules ==
  /\ upc = "rows" /\ rest = <<>> /\ feed \notin Broken
  /\ existing' = Files
  /\ upc' = "clear"
  /\ UNCHANGED <<store, feed, rest, monitor, ghosts>>

ClearStaging ==
  /\ upc = "clear"
  /\ staging' = [r \in Rules |-> 0]
  /\ rest' = RulesOf[feed]
  /\ upc' = "stage"
  /\ UNCHANGED <<db, dir, recorded, now, feed, existing, monitor, ghosts>>

\* A file keeps the time it was staged at when it is moved.  The clock of the
\* file system is coarse: two files may be given the same time.
StageRule ==
  /\ upc = "stage" /\ rest # <<>>
  /\ now' \in {now, now + 1}
  /\ staging' = [staging EXCEPT ![Head(rest)] = now']
  /\ rest' = Tail(rest)
  /\ UNCHANGED <<db, dir, recorded, upc, feed, existing, monitor, ghosts>>

StagedAll ==
  /\ upc = "stage" /\ rest = <<>>
  /\ rest' = SetToSeq(Stale)
  /\ upc' = "remove"
  /\ UNCHANGED <<store, feed, existing, monitor, ghosts>>

\* A rule file that cannot be removed is left and nobody is told.
RemoveStale ==
  /\ upc = "remove" /\ rest # <<>>
  /\ \/ dir' = [dir EXCEPT ![Head(rest)] = 0] /\ UNCHANGED faults
     \/ faults < MaxFaults /\ faults' = faults + 1 /\ UNCHANGED dir
  /\ rest' = Tail(rest)
  /\ UNCHANGED <<db, staging, recorded, now, upc, feed, existing, monitor,
                 begun, forced, raced, updates, stops>>

\* Seeded fault: the state is recorded before the new rules are in place.
BugRecordEarly ==
  /\ upc = "remove" /\ rest = <<>>
  /\ recorded' = IF recorded = 0 \/ feed > recorded THEN feed ELSE recorded
  /\ rest' = RulesOf[feed]
  /\ upc' = "move"
  /\ UNCHANGED <<db, dir, staging, now, feed, existing, monitor, ghosts>>

RemovedAll ==
  /\ upc = "remove" /\ rest = <<>>
  /\ rest' = RulesOf[feed]
  /\ upc' = "move"
  /\ raced' = (mpc \in {"time", "text"})
  /\ UNCHANGED <<store, feed, existing, monitor, begun, forced, updates, stops,
                 faults>>

MoveRule ==
  /\ upc = "move" /\ rest # <<>>
  /\ LET r == Head(rest) IN
     /\ dir' = [dir EXCEPT ![r] = staging[r]]
     /\ staging' = [staging EXCEPT ![r] = 0]
  /\ rest' = Tail(rest)
  /\ UNCHANGED <<db, recorded, now, upc, feed, existing, monitor, ghosts>>

\* The staging directory goes, the manifest is replaced, install_rules ends.
MovedAll ==
  /\ upc = "move" /\ rest = <<>>
  /\ staging' = [r \in Rules |-> 0]
  /\ upc' = "record"
  /\ UNCHANGED <<db, dir, recorded, now, feed, rest, existing, monitor, ghosts>>

\* Seeded fault: the time of the update is recorded, not the document's.
BugRecordClock ==
  /\ upc = "record"
  /\ recorded' = now
  /\ Idle
  /\ UNCHANGED <<db, dir, staging, now, monitor, ghosts>>

\* record_applied keeps the later of the two time stamps.
RecordApplied ==
  /\ upc = "record"
  /\ recorded' = IF recorded = 0 \/ feed > recorded THEN feed ELSE recorded
  /\ Idle
  /\ UNCHANGED <<db, dir, staging, now, monitor, ghosts>>

\* The process is killed, or a statement or file operation raises.
StopUpdate ==
  /\ upc # "idle" /\ stops < MaxStops /\ stops' = stops + 1
  /\ Idle
  /\ UNCHANGED <<store, monitor, begun, forced, raced, updates, faults>>

UpdateStep ==
  \/ AddRow \/ RefuseRules \/ ListRules \/ ClearStaging \/ StageRule
  \/ StagedAll \/ RemoveStale \/ RemovedAll \/ MoveRule \/ MovedAll
  \/ RecordApplied

----------------------------------------------------------------------------
(* maybe_reload, every five minutes.  The rules bundled with the program    *)
(* are read from another directory that does not change; they are left out. *)

ListToCheck ==
  /\ mpc = "idle"
  /\ listing' = Files
  /\ mpc' = "stat"
  /\ UNCHANGED <<store, updater, got, newest, stamp, loaded, compiled, alone,
                 ghosts>>

\* A listed file that is gone ends the loop over the directory.
CheckTimes ==
  /\ mpc = "stat"
  /\ \E looked \in SUBSET (listing \cap Files) :
       /\ listing \subseteq Files => looked = listing
       /\ mpc' = IF Max({dir[r] : r \in looked} \cup {0}) <= stamp
                 THEN "idle" ELSE "collect"
  /\ listing' = {}
  /\ UNCHANGED <<store, updater, got, newest, stamp, loaded, compiled, alone,
                 ghosts>>

ListToCollect ==
  /\ mpc = "collect"
  /\ listing' = Files /\ got' = {} /\ newest' = 0
  /\ mpc' = "time"
  /\ raced' = (raced \/ upc = "move")
  /\ UNCHANGED <<store, updater, stamp, loaded, compiled, alone, begun, forced,
                 updates, stops, faults>>

\* _collect_sources: the time of a file, then its text; one that is gone is
\* skipped, though its time may have been counted.
TakeTime ==
  /\ mpc = "time" /\ listing # {}
  /\ LET r == Min(listing) IN
     IF r \in Files
     THEN /\ newest' = Max({newest, dir[r]})
          /\ mpc' = "text" /\ UNCHANGED listing
     ELSE /\ listing' = listing \ {r}
          /\ UNCHANGED <<newest, mpc>>
  /\ UNCHANGED <<store, updater, got, stamp, loaded, compiled, alone,
                 ghosts>>

TakeText ==
  /\ mpc = "text"
  /\ LET r == Min(listing) IN
     /\ got' = IF r \in Files THEN got \cup {r} ELSE got
     /\ listing' = listing \ {r}
  /\ mpc' = "time"
  /\ UNCHANGED <<store, updater, newest, stamp, loaded, compiled, alone,
                 ghosts>>

Kept(ok) == /\ compiled' = ok /\ loaded' = IF ok THEN got ELSE {}
            /\ mpc' = "idle" /\ got' = {} /\ newest' = 0


\* _compile gives every file a namespace of its own: one that needs another
\* file (a rule it refers to, an import it leaves to it) passed install_rules
\* and fails here.  Then there are no rules at all, and the times are taken as
\* seen: nothing is tried again before a younger file appears.
Compile ==
  /\ mpc = "time" /\ listing = {}
  /\ stamp' = newest
  /\ Kept(got \subseteq alone)
  /\ UNCHANGED <<store, updater, listing, alone, ghosts>>

Reload ==
  \/ ListToCheck \/ CheckTimes \/ ListToCollect \/ TakeTime \/ TakeText
  \/ Compile

----------------------------------------------------------------------------
Next ==
  \/ \E f \in Feeds, force \in BOOLEAN : Begin(f, force)
  \/ UpdateStep \/ StopUpdate
  \/ Reload

\* An update that has begun goes on and the monitor keeps polling; nothing
\* makes anybody begin an update.
Spec == Init /\ [][Next]_vars /\ WF_vars(UpdateStep) /\ WF_vars(Reload)

----------------------------------------------------------------------------
(* Properties.                                                              *)

TypeOK ==
  /\ db \subseteq Sigs
  /\ dir \in [Rules -> Nat] /\ staging \in [Rules -> Nat]
  /\ recorded \in Feeds \cup {0} /\ now \in Nat
  /\ upc \in {"idle", "rows", "clear", "stage", "remove", "move", "record"}
  /\ feed \in Feeds \cup {0}
  /\ rest \in Seq(IF upc = "rows" THEN Sigs ELSE Rules)
  /\ existing \subseteq Rules
  /\ mpc \in {"idle", "stat", "collect", "time", "text"}
  /\ listing \subseteq Rules /\ got \subseteq Rules /\ loaded \subseteq Rules
  /\ newest \in Nat /\ stamp \in Nat
  /\ compiled \in BOOLEAN /\ alone \subseteq Rules
  /\ begun \in Feeds \cup {0} /\ forced \in BOOLEAN /\ raced \in BOOLEAN
  /\ updates \in 0..MaxUpdates /\ stops \in 0..MaxStops
  /\ faults \in 0..MaxFaults

\* feed_state.json is what stops a feed from being applied again, so a feed is
\* recorded only after all of it is in force: its signatures, its rules, and
\* no rule beside them but one that could not be removed.
RecordedIsInForce ==
  [][recorded' # recorded =>
       /\ ToSet(SigsOf[recorded']) \subseteq db
       /\ ToSet(RulesOf[recorded']) \subseteq Files
       /\ faults = 0 => Files = ToSet(RulesOf[recorded'])]_vars

\* While the rule directory is synced, a rule that was there and is wanted is
\* never absent: a scanner that starts in between finds it.  A rule every feed
\* ships, once loaded, is lost by a running monitor for one reason only,
\* whatever step of an update its reload falls on: a file it read does not
\* compile in a namespace of its own.
Staple(r) == \A f \in Feeds \ Broken : r \in ToSet(RulesOf[f])
WantedRulesStay ==
  [][/\ upc' \in {"clear", "stage", "remove", "move"} =>
          (existing \cap Desired)' \subseteq Files'
     /\ \A r \in loaded : Staple(r) => r \in loaded' \/ ~(got \subseteq alone)]_vars

\* An update that stopped half-way is not mistaken for an applied one: the
\* replay protection lets the same feed through again, without --force.
StoppedUpdateCanBeRetried ==
  upc = "idle" /\ ~forced /\ faults = 0 /\ begun \notin Broken /\ begun # 0
  /\ (Files # ToSet(RulesOf[begun]) \/ ~(ToSet(SigsOf[begun]) \subseteq db))
    => Newer(begun, FALSE)

\* What the monitor scans with is what the directory holds.
InForce == IF Files \subseteq alone THEN compiled /\ loaded = Files
                                   ELSE ~compiled /\ loaded = {}


\* "Running monitors hot-reload the new rules automatically" (README.md:138):
\* without that exception.
NewRulesAreReloaded ==
  upc = "record" ~> InForce \/ upc \notin {"record", "idle"}

\* "atomic, compile-validated installs; running monitors hot-reload new rules
\* automatically" (CHANGELOG.md:180-181): rules that install_rules has validated
\* never leave a running monitor without any.
YaraStaysEnabled == compiled
=============================================================================
