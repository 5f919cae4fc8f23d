---------------------------- MODULE MCHostGuards ----------------------------
(***************************************************************************)
(* The components that decide and enforce, on small instances, in one run. *)
(* They are independent of one another: a behaviour is one of the          *)
(* component named by guard, the others stay as they start.                *)
(***************************************************************************)
EXTENDS RansomDetect, AppControl, Enforcers, SelfUpdate, ArchiveScan

VARIABLE guard

Guards == {"ransom", "app", "enforcer", "update", "archive"}
SmallThreshold == [velocity |-> 3, extension |-> 2]

GuardsInit ==
  /\ guard \in Guards
  /\ RansomInit /\ AppInit /\ EnfInit /\ UpdateInit /\ ArchiveInit
  /\ guard # "ransom" => rKind = "velocity"

Only(g) ==
  /\ guard = g /\ UNCHANGED guard
  /\ g # "ransom" => UNCHANGED ransomVars
  /\ g # "app" => UNCHANGED appVars
  /\ g # "enforcer" => UNCHANGED enfVars
  /\ g # "update" => UNCHANGED updateVars
  /\ g # "archive" => UNCHANGED archiveVars

GuardsNext ==
  \/ Only("ransom") /\ RansomNext
  \/ Only("app") /\ AppNext
  \/ Only("enforcer") /\ EnfNext
  \/ Only("update") /\ UpdateNext
  \/ Only("archive") /\ ArchiveNext

guardVars == <<guard, ransomVars, appVars, enfVars, updateVars, archiveVars>>
Spec == GuardsInit /\ [][GuardsNext]_guardVars

TypeOK == RansomTypeOK /\ AppTypeOK /\ EnfTypeOK /\ UpdateTypeOK /\ ArchiveTypeOK
=============================================================================
