----------------------------- MODULE InstallPlan -----------------------------
(***************************************************************************)
(* The table of installers (provisioning/install_plan.py), the scripts     *)
(* generated from it (generate_installers.py), the command that deploys    *)
(* and rolls back by it (hydra_umc_os.py), the two steps of deploy_lib.sh  *)
(* and the rule of sudo made from it (tools/make_updater_sudoers.py).      *)
(*                                                                         *)
(* A program's name stands for its repository HYDRA-UMC-NAME, its folder   *)
(* /opt/hydra-umc/name, its script install_name.sh and its unit            *)
(* hydra-umc-name.service: a row says which program each of them names.    *)
(***************************************************************************)
EXTENDS Naturals, Sequences

None == "none"
Supported == 1                               \* SUPPORTED_CONTRACT
StateDirs == {"data", "models", "workspace"}

(* What read_script finds in a script.                                     *)
ScriptOf(script, source, target, units, contract, begins, finishes) ==
  [script |-> script, source |-> source, target |-> target,
   user |-> TRUE, units |-> units, installs_manifest |-> TRUE,
   contract |-> contract, begins |-> begins, finishes |-> finishes,
   finish_after_reload |-> TRUE, user_dirs |-> {"data"},
   deploy_exempt |-> FALSE]

(* A row is made of the keys of one mapping and those only another has.    *)
Over(top, below) ==
  [key \in DOMAIN top \cup DOMAIN below |->
     IF key \in DOMAIN top THEN top[key] ELSE below[key]]

(* build: a row is the script and what the registry knows of its source.   *)
Row(script, registry) ==
  LET known == script.source \in DOMAIN registry
  IN Over(script,
          [unit |-> IF known THEN registry[script.source].unit ELSE None,
           serves |-> known /\ registry[script.source].serves])

Build(scripts, registry) == [i \in DOMAIN scripts |-> Row(scripts[i], registry)]

-----------------------------------------------------------------------------
(* problems *)

Claims(row) == row.contract # 0 \/ row.begins # None \/ row.finishes # None

(* Mutant: deploy_begin may name any service. *)
BeginsSomething(row) == row.begins # None /\ row.begins = row.finishes

BeginsItsSource(row) ==
  /\ row.begins # None /\ row.begins = row.finishes
  /\ row.source # None => row.begins = row.source

ContractHeld(row) ==
  /\ row.contract = Supported
  /\ BeginsItsSource(row)
  /\ row.finish_after_reload
  /\ row.user_dirs \subseteq StateDirs

NoProblems(row) ==
  /\ Claims(row) => ContractHeld(row)
  /\ (~Claims(row) /\ row.target # None /\ (row.unit # None \/ row.units # {}))
       => row.deploy_exempt
  /\ row.unit # None =>
       /\ row.unit \in row.units
       /\ row.target \in {None, row.unit}
       /\ row.installs_manifest

-----------------------------------------------------------------------------
(* The command hydra-umc-os *)

(* A project is spelled as its repository, or as its script or its folder. *)
Spelled(row, project) ==
  /\ row.source # None
  /\ \/ project.as = "source" /\ project.name = row.source
     \/ project.as = "short" /\ project.name \in {row.script, row.target}

NoRow == [script |-> None, contract |-> 0]

(* find: the first row of the table, which is sorted by script.            *)
Find(rows, project) ==
  LET hits == {i \in DOMAIN rows : Spelled(rows[i], project)}
  IN IF hits = {} THEN NoRow
     ELSE rows[CHOOSE i \in hits : \A j \in hits : i <= j]

Deployable(row) == row.script # None /\ row.contract = Supported

(* rollback: the unit and the health route are the table's.                *)
RollbackOf(row) ==
  [component |-> row.target, unit |-> row.unit, serves |-> row.serves]

(* deploy_finish of the script that deploy runs: the registry's unit of    *)
(* the service it names, or else the unit file named after the folder.     *)
SettleOf(row, registry) ==
  LET known == row.begins \in DOMAIN registry
      unit == IF known THEN registry[row.begins].unit ELSE None
  IN [component |-> row.target,
      unit |-> IF unit = None /\ row.target \in row.units THEN row.target
               ELSE unit,
      serves |-> known /\ registry[row.begins].serves]

(* deploy ends with the status of the installer.                           *)
ResultOf(status, reported) ==
  CASE status = 0 -> IF reported = None THEN "done" ELSE reported
    [] status = 3 -> "rolled-back"
    [] OTHER -> "failed"

(* main: what a command on a project does.                                 *)
Command(command, rows, registry, project) ==
  LET row == Find(rows, project)
  IN CASE ~Deployable(row) -> [does |-> "refused"]
       [] Deployable(row) /\ command = "deploy" ->
            [does |-> "settle", on |-> SettleOf(row, registry)]
       [] OTHER -> [does |-> "rollback", on |-> RollbackOf(row)]

(* make_updater_sudoers: the projects the updater's account may deploy.    *)
DeployableProjects(rows) ==
  {rows[i].source : i \in {j \in DOMAIN rows :
     /\ rows[j].source # None /\ ~rows[j].deploy_exempt
     /\ rows[j].contract = Supported}}

-----------------------------------------------------------------------------
(* generate_installers.py *)

Eligible(row) ==
  /\ row.source # None /\ row.target # None /\ row.user /\ row.units # {}
  /\ row.contract = Supported

(* generate, read back by read_script.                                     *)
Generated(row) ==
  [ScriptOf(row.script, row.source, row.target, row.units, Supported,
            row.source, row.source)
     EXCEPT !.user_dirs = row.user_dirs \cap {"data"},
            !.deploy_exempt = row.deploy_exempt]

(* check: the script reads back as its row, and the table accepts it.      *)
ReadsBack(row) ==
  LET back == Generated(row)
  IN /\ \A key \in {"source", "target", "user", "units", "contract", "begins",
                    "finishes", "finish_after_reload", "installs_manifest"} :
          back[key] = row[key]
     /\ NoProblems([row EXCEPT !.user_dirs = back.user_dirs])

(* --replace checks every script it could generate and then writes them,   *)
(* or the one that --only names, one after another; `last` is the row it   *)
(* was stopped after.                                                      *)
Chosen(row, only) == Eligible(row) /\ only \in {None, row.script}
Replace(rows, hooksMissing, only, last) ==
  IF hooksMissing \/ \E i \in DOMAIN rows : Eligible(rows[i]) /\ ~ReadsBack(rows[i])
  THEN rows
  ELSE [i \in DOMAIN rows |->
          IF Chosen(rows[i], only) /\ i <= last
          THEN Over(Generated(rows[i]), rows[i]) ELSE rows[i]]
=============================================================================
