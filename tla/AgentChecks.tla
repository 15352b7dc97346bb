----------------------------- MODULE AgentChecks -----------------------------
(***************************************************************************)
(* hydra_umc_os/agent.py: which configurations the node agent accepts, the *)
(* probes it runs and the state a health report has.  A JSON value is a    *)
(* record: its type, and what the checks of that type tell apart.          *)
(***************************************************************************)
EXTENDS Integers

Absent == [is |-> "absent"]                  \* the key is not there
Null == [is |-> "null"]
Flag(b) == [is |-> "bool", b |-> b]
Whole(n) == [is |-> "int", n |-> n]
Real(n) == [is |-> "float", n |-> n]
NotFinite == [is |-> "not finite"]           \* NaN and the infinities
Text(what) == [is |-> "text", what |-> what] \* "blank", "name", "path", ...
List(n, plain) == [is |-> "list", n |-> n, plain |-> plain]

(* dict.get: null is a value, only an absent key has the default.          *)
Get(value, default) == IF value = Absent THEN default ELSE value

IsNumber(value) == value.is \in {"int", "float"}
IsName(value) == value.is = "text" /\ value.what # "blank"
IsPath(value) == value.is = "text" /\ value.what = "path"
NotGiven(value) == value \in {Absent, Null}

-----------------------------------------------------------------------------
(* load_config *)

DefaultMaximum == Real(80)

IsProgram(value) == value.is = "text" /\ value.what \in {"name", "path"}

ProbesOk(probes) ==
  \/ NotGiven(probes)
  \/ /\ probes.is = "object"
     /\ ~probes.unknown
     /\ Get(probes.enabled, Flag(FALSE)).is = "bool"
     /\ \A program \in {probes.vcgencmd, probes.systemctl} :
          NotGiven(program) \/ IsProgram(program)
     /\ NotGiven(probes.hailo_device) \/ IsPath(probes.hailo_device)
     /\ LET units == Get(probes.units, List(0, TRUE))
        IN units.is = "list" /\ units.n <= 32 /\ units.plain
     /\ LET timeout == Get(probes.timeout_seconds, Whole(5))
        IN IsNumber(timeout) /\ 0 < timeout.n /\ timeout.n <= 30

SocketOk(block) ==
  \/ NotGiven(block)
  \/ /\ block.is = "object"
     /\ ~block.unknown
     /\ Get(block.enabled, Flag(FALSE)).is = "bool"
     /\ IsPath(Get(block.path, Text("path")))
     /\ Get(block.mode, Text("0660")) \in {Text("0660"), Text("0600")}
     /\ LET cache == Get(block.cache_seconds, Whole(2))
        IN IsNumber(cache) /\ 0 <= cache.n /\ cache.n <= 60

ConfigOk(config) ==
  /\ config.schema_version = Text("1.0")
  /\ IsName(config.id)
  /\ config.profile = Absent \/ IsName(config.profile)
  /\ config.minimum_free_bytes.is = "int" /\ config.minimum_free_bytes.n >= 0
  /\ LET maximum == Get(config.maximum_temperature_celsius, DefaultMaximum)
     IN IsNumber(maximum) /\ maximum.n > 0
  /\ NotGiven(config.storage_path) \/ IsName(config.storage_path)
  /\ ProbesOk(config.probes)
  /\ SocketOk(config.local_socket)

(* profile: the services and the requirements are lists of names, no name  *)
(* twice.                                                                  *)
ProfileOk(profile) ==
  /\ profile.schema_version = Text("1.0")
  /\ profile.profile.is = "text" /\ profile.profile.what # "empty"
  /\ \A names \in {profile.enabled_services, profile.requires} :
       names.is = "list" /\ names.plain /\ ~names.repeats

(* Which blocks are in force: enabled must be exactly true.                *)
InForce(block) ==
  block.is = "object" /\ Get(block.enabled, Flag(FALSE)) = Flag(TRUE)

-----------------------------------------------------------------------------
(* The probes: a program ends with a status and an answer, or is missing,  *)
(* late or cannot be started (status NoStatus).                            *)

NoStatus == -1
Answered(run) == run.status # NoStatus

(* An answer of vcgencmd is two sets of conditions, now and since the boot.*)
Conditions == {"under-voltage", "arm-frequency-capped", "throttled",
               "soft-temperature-limit"}
Unreadable == [now |-> {"?"}, past |-> {"?"}]

(* Mutant: what happened since the boot is forgotten. *)
ThrottleCheckNow(run) ==
  IF run.status # 0 \/ run.answer = Unreadable THEN "WARN"
  ELSE IF run.answer.now \cap {"under-voltage", "throttled"} # {} THEN "FAIL"
  ELSE IF run.answer.now # {} THEN "WARN"
  ELSE "PASS"

ThrottleCheck(run) ==
  IF run.status # 0 \/ run.answer = Unreadable THEN "WARN"
  ELSE IF run.answer.now \cap {"under-voltage", "throttled"} # {} THEN "FAIL"
  ELSE IF run.answer.now \cup run.answer.past # {} THEN "WARN"
  ELSE "PASS"

(* The word of systemctl counts, whatever its status.                      *)
UnitCheck(run) ==
  CASE Answered(run) /\ run.answer = "active" -> "PASS"
    [] Answered(run) /\ run.answer = "failed" -> "FAIL"
    [] OTHER -> "WARN"

(* A null program is passed to the operating system as it is, and that     *)
(* call raises: there is no report.                                        *)
ProbesRun(probes) ==
  InForce(probes) =>
    /\ probes.vcgencmd # Null
    /\ Get(probes.units, List(0, TRUE)).n > 0 => probes.systemctl # Null

ProbeChecks(probes, machine) ==
  IF ~InForce(probes) THEN {}
  ELSE {ThrottleCheck(machine.vcgencmd)}
         \cup (IF NotGiven(probes.hailo_device) THEN {}
               ELSE {IF machine.hailo THEN "PASS" ELSE "WARN"})
         \cup (IF Get(probes.units, List(0, TRUE)).n = 0 THEN {}
               ELSE {UnitCheck(run) : run \in machine.units})

-----------------------------------------------------------------------------
(* health *)

(* A configured folder that is not there leaves the working folder.        *)
FreeBytes(config, machine) ==
  IF IsName(config.storage_path) /\ machine.storage_is_dir
  THEN machine.free_there ELSE machine.free_here

TemperatureCheck(config, machine) ==
  CASE machine.temperature = Null -> "WARN"
    [] machine.temperature # Null
       /\ machine.temperature.n
            >= Get(config.maximum_temperature_celsius, DefaultMaximum).n -> "FAIL"
    [] OTHER -> "PASS"

CheckStates(config, machine) ==
  {IF FreeBytes(config, machine) >= config.minimum_free_bytes.n
     THEN "PASS" ELSE "FAIL",
   IF machine.interfaces > 0 THEN "PASS" ELSE "WARN",
   "PASS",
   TemperatureCheck(config, machine)}
    \cup ProbeChecks(config.probes, machine)

(* The state of a report from the states of its checks.                    *)
Overall(states) ==
  IF "FAIL" \in states THEN "FAULT"
  ELSE IF "WARN" \in states THEN "DEGRADED" ELSE "READY"

Health(config, machine) ==
  IF ProbesRun(config.probes) THEN Overall(CheckStates(config, machine))
  ELSE "no report"
=============================================================================
