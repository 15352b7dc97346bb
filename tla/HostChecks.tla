----------------------------- MODULE HostChecks -----------------------------
(***************************************************************************)
(* The checks of a host: the panel of the secrets (secrets_panel.py) and   *)
(* the runtime verification that counts it (verify_cm5_runtime.sh), the    *)
(* preflight (preflight_cm5.py), the guard of the release                  *)
(* (os_release_guard.py), the base installer that runs both first, and the *)
(* default name of a device (device_identity.py).                          *)
(***************************************************************************)
EXTENDS AgentChecks, Sequences

(* The panel: a mode is the set of its bits, by whom and what for.         *)
Bits == {"u", "g", "o"} \X {"r", "w", "x"}
MaxMode == {<<"u", "r">>, <<"u", "w">>, <<"g", "r">>}      \* 640
WorldAccessIsFailure == TRUE
WrongGroupIsFailure == FALSE
EmptyFileIsWarning == TRUE

Loose(file) == file.mode \ MaxMode # {}
OpenToOthers(file) == \E bit \in file.mode : bit[1] = "o"

(* Mutant: access of others counts as any other looseness. *)
JudgeMildly(file) ==
  IF file.owner # "root" THEN "fail" ELSE IF Loose(file) THEN "warn" ELSE "ok"

Judge(file) ==
  LET wrongGroup == file.group \notin {"hydra-umc-x", "root"}
  IN IF \/ Loose(file) /\ OpenToOthers(file) /\ WorldAccessIsFailure
        \/ file.owner # "root"
        \/ wrongGroup /\ WrongGroupIsFailure
     THEN "fail"
     ELSE IF Loose(file) \/ wrongGroup \/ (file.empty /\ EmptyFileIsWarning)
          THEN "warn" ELSE "ok"

(* scan: links, folders and other names are left out.                      *)
Scan(files) == {f \in files : f.regular /\ f.matches}

(* lines: one word per file; a folder that is not there is skipped.        *)
Lines(folder) ==
  IF ~folder.present THEN {"SKIP"}
  ELSE {IF Judge(f) = "fail" THEN "FAIL" ELSE "PASS" : f \in Scan(folder.files)}

(* verify_cm5_runtime.sh: a panel that cannot run has no lines.            *)
RuntimePasses(others, withSecrets, folder) ==
  /\ others
  /\ withSecrets => ("FAIL" \notin Lines(folder) \/ ~folder.readable)

(* wrap_runtime.                                                           *)
WrapOk(status, summary) == status = 0 /\ summary = "PASS"

-----------------------------------------------------------------------------
(* The release guard: an exit status.                                      *)

Supports(release, supported) ==
  /\ release.id \in {"debian", "raspbian"}
  /\ release.codename \in (IF supported = {} THEN {"trixie"} ELSE supported)

Guard(mode, release, supported) ==
  CASE mode \notin {"warn", "enforce", "off"} -> 2
    [] mode = "enforce" /\ ~Supports(release, supported) -> 3
    [] OTHER -> 0

(* preflight main: each check ends the command when it fails.              *)
EnvSecretsOk(env) == ~env.present \/ (env.readable /\ env.weak = {})

ServerContractOk(server) ==
  /\ server.readable
  /\ server.user = "hydra-umc-server" /\ server.group = "hydra-umc-server"
  /\ server.installer = "hydra-umc-server" /\ server.complete

(* load_identity: the file has the four reviewed names, and nothing else.  *)
IdentityNames == {"display_name", "hostname", "administrator", "service_account"}
IdentityOk(identity) ==
  /\ identity.readable
  /\ DOMAIN identity.holds = IdentityNames
  /\ \A name \in IdentityNames : identity.holds[name] = "reviewed"

(* run_check: another program, of which only the exit status counts.       *)
CheckOk(status) == status = 0

Preflight(host) ==
  /\ ConfigOk(host.config) /\ ProfileOk(host.profile)
  /\ IdentityOk(host.identity)
  /\ CheckOk(host.agentContract) /\ (host.skipSdk \/ CheckOk(host.sdkContract))
  /\ EnvSecretsOk(host.env)
  /\ host.profile.profile = Text("control") => ServerContractOk(host.server)

(* Mutant: the guard is asked once the host has been changed. *)
BaseChanges(host) == Preflight(host) /\ host.apply

(* install_cm5_base.sh, under set -e: is anything changed?                 *)
BaseInstalls(host) ==
  /\ Preflight(host)
  /\ Guard(host.guard, host.release, host.supported) = 0
  /\ host.apply

-----------------------------------------------------------------------------
(* The name of a device.  Identifiers are told apart by their last digits; *)
(* "zeros" is what a board without a number reports.                       *)

NoName == "no suffix"
Unusable == {"missing", "odd", "short"}

(* Mutant: zeros are a serial number like any other. *)
FromSerialAny(serial) == IF serial \in Unusable THEN NoName ELSE serial

FromSerial(serial) ==
  IF serial \in Unusable \cup {"zeros"} THEN NoName ELSE serial

(* The first card, in the order of their names, with a usable address.     *)
FromCards(macs) ==
  LET usable == {i \in DOMAIN macs : macs[i] \notin Unusable \cup {"zeros"}}
  IN IF usable = {} THEN NoName
     ELSE macs[CHOOSE i \in usable : \A j \in usable : i <= j]

FromMachineId(id) == IF id \in Unusable THEN NoName ELSE id

Suffix(device) ==
  LET serial == FromSerial(device.serial)
      card == FromCards(device.macs)
  IN IF serial # NoName THEN serial
     ELSE IF card # NoName THEN card ELSE FromMachineId(device.machineId)

HostName(device) ==
  IF device.chosen # NoName THEN device.chosen
  ELSE IF device.off THEN NoName ELSE Suffix(device)
=============================================================================
