----------------------------- MODULE AppControl -----------------------------
(***************************************************************************)
(* Application control (aegorx/app_control.py): an ordered rule list and a *)
(* default, kept in app-control-policy.json, and a cache of verdicts by    *)
(* path.  Each controller belongs to a process of its own, which loads the *)
(* policy once.  A rule matches by the file's hash or by its name; path,   *)
(* extension and publisher rules differ only in how the name is matched,   *)
(* so such a rule is the set of the names it matches.                      *)
(***************************************************************************)
EXTENDS Integers, SequencesExt

CONSTANTS AppProcs,       \* processes with an ApplicationController
          AppPaths,       \* executables
          AppContents,    \* contents an executable may have
          MaxAppRules,    \* bound: length of a rule list
          MaxAppChanges   \* bound: rule, default and file changes

ASSUME AppAssumption == AppContents # {} /\ MaxAppRules \in Nat

VARIABLES aFile,       \* path -> content
          aStore,      \* the policy in the file
          aTmp,        \* the policy in the temporary file, if any
          aMem,        \* process -> its policy, or no policy
          aCache,      \* process -> path -> verdict
          aPc,         \* process -> program counter of a save
          aSince,      \* process -> what held since its cache was cleared
          aChanges

appVars == <<aFile, aStore, aTmp, aMem, aCache, aPc, aSince, aChanges>>

AppActions == {"allow", "block"}
AppRules == [kind : {"hash"}, value : AppContents, action : {"allow", "block"}]
       \cup [kind : {"name"}, value : SUBSET AppPaths \ {{}}, action : {"allow", "block"}]
Policies == [rules : UNION {[1..n -> AppRules] : n \in 0..MaxAppRules}, default : AppActions]
NoPolicy == [rules |-> <<>>, default |-> "allow"]
NoVerdicts == [p \in {} |-> "allow"]

\* _matches_rule; an unreadable file has no hash and matches no hash rule.
MatchesRule(path, content, rule) ==
  IF rule.kind = "hash" THEN content = rule.value ELSE path \in rule.value

\* _evaluate: the first matching rule decides, else the default.
AppVerdict(policy, path, content) ==
  LET hits == {i \in DOMAIN policy.rules : MatchesRule(path, content, policy.rules[i])} IN
  IF hits = {} THEN policy.default ELSE policy.rules[Min(hits)].action

AppInit ==
  /\ aFile = [p \in AppPaths |-> CHOOSE c \in AppContents : TRUE]
  /\ aStore = NoPolicy /\ aTmp = {}
  /\ aMem = [q \in AppProcs |-> {}]
  /\ aCache = [q \in AppProcs |-> NoVerdicts]
  /\ aPc = [q \in AppProcs |-> "idle"]
  /\ aSince = [q \in AppProcs |-> {}]
  /\ aChanges = 0

AppTypeOK ==
  /\ aFile \in [AppPaths -> AppContents]
  /\ \A q \in AppProcs : \A p \in DOMAIN aCache[q] : p \in AppPaths /\ aCache[q][p] \in AppActions
  /\ \A pol \in {aStore} \cup aTmp \cup UNION {aMem[q] : q \in AppProcs} :
       Len(pol.rules) <= MaxAppRules /\ pol.default \in AppActions

\* History: the files and defaults a cached verdict may have been given for.
Now(f, pol) == [file |-> f, default |-> pol.default]
Seen(q, f, pol) == aSince' = [aSince EXCEPT ![q] = @ \cup {Now(f, pol)}]

OpenController(q) ==
  /\ aMem[q] = {} /\ aPc[q] = "idle"
  /\ aMem' = [aMem EXCEPT ![q] = {aStore}]
  /\ aCache' = [aCache EXCEPT ![q] = NoVerdicts]
  /\ aSince' = [aSince EXCEPT ![q] = {Now(aFile, aStore)}]
  /\ UNCHANGED <<aFile, aStore, aTmp, aPc, aChanges>>

EndController(q) ==
  /\ aMem[q] # {}
  /\ aMem' = [aMem EXCEPT ![q] = {}]
  /\ aCache' = [aCache EXCEPT ![q] = NoVerdicts]
  /\ aPc' = [aPc EXCEPT ![q] = "idle"]
  /\ aSince' = [aSince EXCEPT ![q] = {}]
  /\ UNCHANGED <<aFile, aStore, aTmp, aChanges>>

MayChange(q) == aPc[q] = "idle" /\ aChanges < MaxAppChanges
SaveNext(q, pol, pc) ==
  /\ aMem' = [aMem EXCEPT ![q] = {pol}]
  /\ aPc' = [aPc EXCEPT ![q] = pc]
  /\ aChanges' = aChanges + 1
  /\ UNCHANGED <<aFile, aStore, aTmp, aCache>>

(* add_rule, through block_* and allow_*: hash rules name the content the  *)
(* file has when the rule is made.                                         *)
AddRule(q) ==
  /\ MayChange(q)
  /\ \E pol \in aMem[q], r \in AppRules :
       /\ Len(pol.rules) < MaxAppRules
       /\ r.kind = "hash" => \E p \in AppPaths : aFile[p] = r.value
       /\ SaveNext(q, [pol EXCEPT !.rules = Append(@, r)], "save-rules")
  /\ UNCHANGED aSince

RemoveRule(q) ==
  /\ MayChange(q)
  /\ \E pol \in aMem[q] : \E i \in 1..Len(pol.rules) :
       SaveNext(q, [pol EXCEPT !.rules = RemoveAt(@, i)], "save-rules")
  /\ UNCHANGED aSince

SetDefaultAction(q) ==
  /\ MayChange(q)
  /\ \E pol \in aMem[q], d \in AppActions :
       /\ d # pol.default
       /\ LET new == [pol EXCEPT !.default = d] IN
          SaveNext(q, new, "save-default") /\ Seen(q, aFile, new)

(* save: temporary file, then rename; its failure is swallowed.            *)
WritePolicy(q) ==
  /\ aPc[q] \in {"save-rules", "save-default"}
  /\ \/ aTmp' = aMem[q]
        /\ aPc' = [aPc EXCEPT ![q] = IF @ = "save-rules" THEN "rename-rules" ELSE "rename-default"]
     \/ UNCHANGED aTmp
        /\ aPc' = [aPc EXCEPT ![q] = IF @ = "save-rules" THEN "clear" ELSE "idle"]
  /\ UNCHANGED <<aFile, aStore, aMem, aCache, aSince, aChanges>>

RenamePolicy(q) ==
  /\ aPc[q] \in {"rename-rules", "rename-default"}
  /\ \/ aTmp = {} /\ UNCHANGED <<aStore, aTmp>>
     \/ \E pol \in aTmp : aStore' = pol /\ aTmp' = {}
  /\ aPc' = [aPc EXCEPT ![q] = IF @ = "rename-rules" THEN "clear" ELSE "idle"]
  /\ UNCHANGED <<aFile, aMem, aCache, aSince, aChanges>>

\* Seeded fault: the verdicts of the old rules stay.
BugClearCache(q) ==
  /\ aPc[q] = "clear"
  /\ aPc' = [aPc EXCEPT ![q] = "idle"]
  /\ aSince' = [aSince EXCEPT ![q] = {Now(aFile, pol) : pol \in aMem[q]}]
  /\ UNCHANGED <<aFile, aStore, aTmp, aMem, aCache, aChanges>>

ClearCache(q) ==
  /\ aPc[q] = "clear"
  /\ aPc' = [aPc EXCEPT ![q] = "idle"]
  /\ aCache' = [aCache EXCEPT ![q] = NoVerdicts]
  /\ aSince' = [aSince EXCEPT ![q] = {Now(aFile, pol) : pol \in aMem[q]}]
  /\ UNCHANGED <<aFile, aStore, aTmp, aMem, aChanges>>

(* check holds the lock a rule change also holds.  A cached path is not    *)
(* looked at again.                                                        *)
CheckApp(q, p) ==
  /\ aPc[q] = "idle" /\ p \notin DOMAIN aCache[q]
  /\ \E pol \in aMem[q] :
       aCache' = [aCache EXCEPT ![q] =
         [x \in DOMAIN @ \cup {p} |-> IF x = p THEN AppVerdict(pol, p, aFile[p]) ELSE @[x]]]
  /\ UNCHANGED <<aFile, aStore, aTmp, aMem, aPc, aSince, aChanges>>

(* External: the executable is replaced.                                   *)
ReplaceApp(p) ==
  /\ aChanges < MaxAppChanges /\ aChanges' = aChanges + 1
  /\ \E c \in AppContents \ {aFile[p]} : aFile' = [aFile EXCEPT ![p] = c]
  /\ aSince' = [q \in AppProcs |-> aSince[q] \cup {Now(aFile', pol) : pol \in aMem[q]}]
  /\ UNCHANGED <<aStore, aTmp, aMem, aCache, aPc>>

AppStep(q) ==
  \/ OpenController(q) \/ EndController(q) \/ AddRule(q) \/ RemoveRule(q) \/ SetDefaultAction(q)
  \/ WritePolicy(q) \/ RenamePolicy(q) \/ ClearCache(q) \/ \E p \in AppPaths : CheckApp(q, p)
AppNext == (\E q \in AppProcs : AppStep(q)) \/ (\E p \in AppPaths : ReplaceApp(p))

-----------------------------------------------------------------------------
(* A verdict answered from the cache (check) is the one the rules of this  *)
(* moment give, up to a default and a file content that were current since *)
(* the last rule change: set_default_action and a replaced file do not     *)
(* clear the cache, a rule change always does.                             *)
CachedVerdictsFollowRules ==
  \A q \in AppProcs : aPc[q] = "idle" =>
    \A p \in DOMAIN aCache[q], pol \in aMem[q] : \E s \in aSince[q] :
      aCache[q][p] = AppVerdict([pol EXCEPT !.default = s.default], p, s.file[p])

=============================================================================
