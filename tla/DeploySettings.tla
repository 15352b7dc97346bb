--------------------------- MODULE DeploySettings ---------------------------
(***************************************************************************)
(* deploy.json, the settings of deploy_release.py and deploy_tree.py: a    *)
(* value that is not usable is replaced by the default.  Numbers are in    *)
(* tenths; the commands and times only decide how a restart or a check     *)
(* ends, which is left open.                                               *)
(***************************************************************************)
EXTENDS Integers

CONSTANT File   \* the keys deploy.json has, with their values: none where it
                \* is not there, not JSON or not an object

Tenths(n) == [is |-> "number", tenths |-> n]
Flag(b) == [is |-> "bool", b |-> b]
Other == [is |-> "other"]   \* text, null, a list, an object

ASSUME FileAssumption ==
  \A key \in DOMAIN File :
    File[key] \in [is : {"number"}, tenths : Int]
                   \cup [is : {"bool"}, b : BOOLEAN] \cup {Other}

(* _number: true and false are no numbers.                                 *)
Usable(value, low, high) ==
  value.is = "number" /\ low <= value.tenths /\ value.tenths <= high

(* load_settings: a fraction is cut off.                                   *)
ReleaseKeep ==
  IF "keep" \in DOMAIN File /\ Usable(File["keep"], 20, 1000)
  THEN File["keep"].tenths \div 10 ELSE 3

OnOff(key, default) ==
  IF key \in DOMAIN File /\ File[key].is = "bool" THEN File[key].b ELSE default

AllowDowngrade == OnOff("allowDowngrade", FALSE)

(* load_settings of deploy_tree.py: two where the file does not say; where *)
(* it says something unusable, the default of deploy_release.py.           *)
TreeKeep == IF "keep" \in DOMAIN File THEN ReleaseKeep ELSE 2
RestartOnDeploy == OnOff("restartOnDeploy", TRUE)
RollbackOnFailure == OnOff("rollbackOnFailure", TRUE)
=============================================================================
