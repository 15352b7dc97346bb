# A TLA+ model of HYDRA-UMC-OS

HYDRA-UMC-OS turns a Raspberry Pi CM5 into a node of the HYDRA-UMC ecosystem: it
provisions the network, generates the secrets, installs and updates the other
components, keeps a way back for what it overwrites, and runs a small agent that
reports the state of the node. It is not one program. It is a set of Python and
shell commands, run as root by an operator, by the updater or by systemd, that
share files on disk; one long-running service (Wi-Fi provisioning), one daemon
(the agent), and a set of checks that every repository of the ecosystem runs.
What is hard in it is therefore mostly *what is on disk when a command stops
between two writes*, *what a second command makes of it*, in the two long-running
processes *the interleaving of threads*, and, in the checks, *two programs that
read the same thing in two ways*.

This folder holds TLA+ modules of the parts where those things matter, TLC
configurations that check them on small instances, and TLAPS proofs for every
value of the constants.

| module | models | checked by | proved in |
| --- | --- | --- | --- |
| `WifiProvision` | `provisioning/wifi_provision.py` | `wifi_safety`, `wifi_live` | `WifiProvisionProofs` |
| `ReleaseState` | what the two deployment tools promise (abstract) | as `FollowsProtocol` of the next two | `DeployReleaseProofs` |
| `DeploySettings` | how both tools read `deploy.json` | by the runs of the next two | `DeployReleaseProofs` |
| `DeployTree` | `tools/deploy_tree.py`, `provisioning/deploy_lib.sh` | `deploy_safety`, `deploy_v_restore` | `DeployTreeProofs` |
| `Packages`, `DeployRelease` | `tools/package_component.py`, `tools/deploy_release.py` | `release_safety` | `DeployReleaseProofs` |
| `Rollback` | `provisioning/rollback.py` and the two installers that call it | `rollback_safety` | `RollbackProofs` |
| `Secrets` | `generate_secrets.py`, `service_identity.py`, `make_result_key.py`, `gateway_env.py`, `secret_output.py` | `secrets_safety` | `SecretsProofs` |
| `Firewall` | `provisioning/hydra_firewall.sh` | `firewall_safety` | `FirewallProofs` |
| `AgentChecks`, `Agent` | `agent/src/hydra_umc_os/agent.py` | `agent_safety`, `decisions_safety` | `NodeProofs` |
| `VersionBump`, `ProjectTool` | `bump_manifest_version.py`, `bump_version.py`, `tools/hydra_project_tool.py bump` | `bump_safety` | `BumpProofs` |
| `InstallPlan`, `RecoveryScope`, `HostChecks`, `StatusLights`, `ReadmeLayout`, `RepoTree`, `CiValidate`, composed in `Decisions` | the programs that only decide | `decisions_safety`, `decisions_v_snapshot` | `NodeProofs` |

Every run checks an `MC` module. `MCWifiProvision`, `MCDeployTree` and
`MCRollback` add the symmetry sets, `MCProjectTool` the versions to start from,
`MCDecisions` the sets of inputs; the others add nothing. To repeat a check:
`tlc -config wifi_safety.cfg MCWifiProvision`,
`tlc -config release_safety.cfg MCDeployRelease`,
`tlc -config bump_safety.cfg MCProjectTool`, and so on; `tlapm <Module>Proofs.tla`
for the proofs. Paths below are relative to the root of the repository.

In every module a definition whose comment begins with "Mutant" is not part of
the specification. It is the mutated form of the definition it stands next to,
kept to show that a property notices that change. A "history" variable is one the
code does not have; it only records what a property has to speak of.

## 1. Inventory

The components, the state each keeps, its operations, what is hard in it, and
what makes it correct. `PROJECT.json` lists the same components with their files,
and under "hazards" every place that is hard to test, with its line.

### Wi-Fi provisioning service — modelled in part

*State.* In memory: the `JoinTracker` (idle, joining, joined, failed, and the
network), the one-element list `joined`, the failure counter of the setup code.
On disk: `last_join.json`, the setup code's credentials. In NetworkManager: what
is active on the interface, an activation in progress, the kept profiles.
*Operations.* Start the access point if nothing is connected; serve the form;
accept one attempt; run it (access point down, connect, look again, access point
up again on failure); publish the outcome; close after the window (30 minutes by
default) or on success.
*Interaction.* nmcli is the only way to the radio. systemd restarts the service
when it fails. The UI reads `last_join.json`.
*Hard.* Three kinds of thread with two shared variables, of which one has a lock;
four nmcli calls of which each can fail; a timeout that abandons a running
activation; the deadline racing the last submission.
*Correct when* there is one attempt at a time; a failed attempt leaves the
operator a way back in; a successful one is not undone; the file never says less
than the page; the form never stays locked; the service ends.

### Deployment contract of the installers — modelled

*State.* The payload of a target folder, the kept releases, `state.json`
(current, previous, pending), the unit.
*Operations.* `begin` (keep what is there), the installer's copy, `settle`
(same program? keep, write, restart, check, go back), `rollback`, `prune`.
*Interaction.* `deploy_lib.sh` calls begin and settle around each installer;
systemd runs the unit from the target; `hydra_umc_os.py deploy` reads the exit
status.
*Hard.* Every command is a series of file operations without a transaction; the
unit stops and starts independently; numbers of releases are reused after a
prune; earlier programs may never have been installed under the contract.
*Correct when* the state never names a release that is not kept; the way back is
exact; state and target agree at the end of a command; a running unit runs what
is installed.

### Packages and their installation — modelled

*State.* The three files of a package (archive, hash, signature) in the folder of
packages and on the server; `releases/`, `state.json`, the link `current`.
*Operations.* Build, sign, publish; verify, extract beside, rename, write the
state, point the link, restart, health check, way back, prune; rollback.
*Hard.* The package is written in place and the three files one after another;
an upload is three uploads; the state is written before the health check; the
link and the state are two writes; the same `state.json` is used by the
deployment contract.
*Correct when* what is installed was packed under its version, the release to go
back to was once healthy, a failed installation changes nothing, and link, unit
and state agree.

### Backup and rollback of system files — modelled

*State.* The system files, the backup files, `manifest.json`.
*Operations.* Back up a file and record it, overwrite it, restore everything in
two passes (look at all backups, then copy back from the last entry to the first).
*Hard.* The manifest is never cleared, so a file is recorded again and again; a
backup can disappear between the passes; a copy can stop half-way; the manifest
is written in place.
*Correct when* a restore that passes gives back what was there before the first
installer; a missing backup changes nothing; a recorded backup is exact.

### Secrets and their panel — modelled

*State.* The server's env file, the credentials of the administrator, mirrored
keys in the voice interface's env file, per-service key files and systemd
drop-ins, the gateway's env and credentials. *Operations.* Generate what is
missing, adopt, mirror, write atomically, register a service identity; the panel
looks at every file and changes none. *Hard.* Several files that must agree are
written one after the other; the operator edits them between two runs; a
credentials file that is there stops the next run. *Correct when* a password in
use is recorded, shared keys agree, what a unit is told to read is usable, and no
program replaces a value somebody chose.

### Firewall — modelled

*State.* The tables in the kernel, and one file of rules, one boot unit and one
timer for all of them. *Operations.* apply, apply with rollback and/or persist,
confirm, revert, each about the table of `--table`; the timer fires; reboot.
*Hard.* The timer runs while a command is still working; a command about one
table meets the timer, the file and the unit of another; a reboot drops the timer
and keeps the unit. *Correct when* rules on trial have a way out, confirmed rules
stay, and rules that were taken away stay away.

### Node agent — modelled

*State.* The last report and its time, the socket, the signature of the last
written report. *Operations.* Accept a configuration, probe, aggregate, answer on
the socket, write when something changed. *Hard.* Two agents on one path; close
against start; a report computed slowly. *Correct when* one live agent owns the
path, a change is never swallowed, and READY is earned.

### Version numbers and the project tool — modelled, without `coverage`

*State.* One version in the native file, the manifest, the change log, the lock
file, generated constants, `__version__` lines. *Operations.* bump, `--sync`, the
tool that runs them one after another. *Hard.* Six files written one after
another; six kinds of native file of which some cannot hold four numbers; other
hands between two commands. *Correct when* success means agreement, no version is
skipped, and a killed bump can be finished.

### Command line, install plan, recovery archive, preflight, device name, status
lights, checks of a repository — modelled as decisions

Each reads its input and answers; the archive, `--apply` of the lights and
`--replace` of the installers also write. *Hard.* Two of them read the same thing
in two ways (the unit of a program from the script or from the table; a heading
inside a code block); the input changes while it is read (databases of running
programs); a verdict that is better than what it saw. *Correct when* a verdict is
earned, two readings agree, and what was saved can be restored.

### How they interact

`first_boot.sh` and the installers run in the order of the install plan. An
installer overwrites system files through `Rollback`, and its target folder
through `DeployTree`; `DeployRelease` follows the same protocol on `state.json`,
which is why both are shown to implement `ReleaseState`. The secrets feed the
units the installers start. `ProjectTool` is composed of the commands of
`VersionBump` and those of other hands; `DeployRelease` of the device's commands
and the packing program; `Decisions` asks the programs that only decide. The only
concurrency between commands is the one the repository does not exclude (there is
no lock anywhere): the updater and an operator at once.

## 2. WifiProvision

### Correspondence

| code | model |
| --- | --- |
| `JoinTracker._state`, `joined[0]` | `tracker`, `joined` |
| the main thread in `main` and `serve_until_joined` | `main` |
| thread of a POST, then its join thread | `pc[r]`, `target[r]`, `outcome[r]` |
| `last_join.json` | `lastJoin` |
| NetworkManager (external) | `radio`, `activating`, `saved` |
| `ensure_hotspot_if_disconnected` | `EnsureCheck`, `EnsureHotspot` |
| loop condition: `joined[0]`, clock, `busy()` | `TestJoined`, `TestDeadline`, `TestBusy` |
| `begin`, answer, `attempt_join`, `finish`, `joined[0] = True` | `Begin` … `Signal` |

A step ends where another thread could see a difference: a lock is released, a
subprocess returns, a file is written. The loop condition is three reads and
three steps. `missed` is a history variable: it says that the last failed attempt
had its restart of the access point *refused* by nmcli, that it *asked for none*,
or that the last write of the file failed, so that one run can have all the faults
and still say what holds when nmcli and the disk work.

What the model assumes about the outside: nmcli answers for whatever is active,
the access point included; `nmcli connect` may be killed by its timeout at any
moment while NetworkManager goes on; a profile is kept when its activation
worked and is retried whenever the interface is free; the access point is not
dropped by itself, and its profile does not connect by itself at boot. A POST is
refused (wrong code, bad body, no name) or tries to begin; a GET is left out.
`systemctl stop` is left out: it is a crash that nobody restarts. The counter of
wrong setup codes and its lockout are not modelled: they refuse a POST before
`begin`, which the model does at any time.

### Runs

* `wifi_safety` — two submissions, two networks, all six faults, one crash, one
  reboot. Two submissions are enough for two attempts to compete and for one to
  follow the other, two networks for the answer to be the wrong one; a third
  submission finds the same tracker as the second. `AtMostOneAttempt`,
  `FileBeforeMemory`, `ReachableWhenServing`, `JoinedIsKept`.
* `wifi_live` — `AttemptEnds` (an accepted attempt leaves "joining") and
  `ServiceEnds` (the service exits in the end). Fairness: each thread that can
  step does (the scheduler), an activation ends one way or the other
  (NetworkManager's own timeout), systemd restarts what failed, and, in
  `WindowSpec`, the clock reaches the deadline. No fairness for the phone or for
  failures. The faults are `stop` and `file`: with an access point that can never
  be started, or a port that is always taken, systemd restarts the service for
  ever and the service rightly never ends; with `answer` `AttemptEnds` does not
  hold (section 12). Submissions are finitely many in an instance, so
  `ServiceEnds` speaks of a window in which the phone stops submitting.

`ReachableWhenServing` has two exceptions, which it names: nmcli refused the
restart of the access point, or the second look of `attempt_join` (line 272)
raised, which ends the attempt without asking for a restart. Both last until a
restart works. The second one is not what the docstring of `attempt_join` says
(section 12). In the
gap between `finish()` and `joined[0] = True` the window can close and report
WINDOW_CLOSED for a device that has joined; it stays joined (`JoinedIsKept`).

### Proofs

`WifiProvisionProofs` proves `Spec => []IInv` for any sets of requests and
networks, any faults and bounds, and from it the theorems of `PROJECT.json`. The
safety invariants are not inductive alone: that a second `begin` is refused needs
the *tracker to name the attempt* whose thread is under way
(`TrackerNamesAttempt`), across the exit and restart of the process
(`FreshOutsideLoop`); that the file is first needs what a thread between the two
writes has already done (`OutcomeDecided`); that the access point is up needs the
moments before the failure is published (`HotspotRestored`) and that the radio
does one thing at a time (`OneRadio`). `JoinedStays` is an action property and
follows from the same invariant. Assumed: `WifiAssumption` only.

## 3. ReleaseState, and DeployTree

### The protocol

`ReleaseState` is what both deployment tools promise about releases and
`state.json`, with nothing of how: a program is kept under a free name
(`KeepAs`); a release comes into use *on trial* (`PutInUse`), and then either it
holds (`Accept`, which may prune what nobody names) or both names are exactly
what they were (`GoBack`); a rollback swaps the two names (`SwapReleases`).
`NamedStays` in `DeployReleaseProofs` is what follows from the protocol alone: a
name that is used has its folder, the one before the last included while a
release is on trial.

`DeploySettings` is what both tools make of `deploy.json`: a value that is not a
usable number or a boolean is replaced by the default, and the two defaults for
`keep` differ. The file is a constant, any function from keys to values.
`KeepsTwoOrMore` proves that whatever it holds at least two releases are kept,
which is what the proofs of prune need: the one in use and the one to go back to.

The refinement mapping of `DeployTree` (`Store`): the folders are the kept
releases, the names are those of the two entries, and a release is on trial while
settle restarts, looks and goes back; the name that only the command remembers
then is its `before`. An interruption on trial is an `Accept`: the release stays
in use unchecked, which is what the code does.

### Correspondence of DeployTree

| code | model |
| --- | --- |
| the target's entries | `tree`, a set of (part, program) |
| the `.restore-` folder of a running restore | `aside` |
| `releases/`, `state.json` | `kept`, `state` |
| the systemd unit (external) | `unit`: the payload it was started from |
| local variables of a command | `cmd` |
| `begin`, `keep_copy` | `BeginNothing` … `BeginRemember`, `KeepCopy` |
| `settle` | `SettleUnchanged` … `SettleFails`, `BackWrite`, `SettleAgain` |
| `restore` and its handler | `RestoreMove` … `UndoReturn` |
| `rollback` | `StartRollback` … `RollbackRestart` |
| `prune`, one folder after the other | `PruneThen`, `PruneFolder`, `PruneEnds` |
| `run_command` of a restart says no | `RestartFails` |
| an installer, `HYDRA_UMC_DEPLOY=off` | `InstallPart` … `InstallerFails`, `InstallOff` |

A step ends where the disk changes. An interruption may come between any two
steps, kills the command, and leaves a `.restore-` folder behind if one was
there, which counts as part of the payload from then on, as in the code.
`found`, `orderly` and `missed` are history.

`run_command` says no for a status, for a command that is not there and after 120
seconds, so a restart that fails may have left the unit running as it was, may
have stopped it, or may have come through all the same (`RestartFails`). When it
leaves the unit running, or when `is-active` does not answer and settle takes the
unit for one that does not run, `missed` is set until the next start, stop or
restart: it is the exception of `RunsWhatIsInstalled`. Prune removes folder by
folder with `rmtree(ignore_errors=True)`: an error may leave a folder whole or in
part, and so does an interruption in the middle (`Ruin`); such a folder keeps its
number, and nobody names it.

What is abstracted: a payload stands for its own digest; an entry is copied in
one step; all programs have the same version, so that names of releases collide
as often as they can; prune may consider any folders the newest, since it goes by
modification times and the clock of a device without a battery jumps; the
folders of the state are outside the payload; two leftover `.restore-` folders
count as one; what a power cut does to unsynced pages is not modelled. Commands
run one at a time, which the code does not enforce. A refused rollback changes no
state. The refusal for a release in use whose folder is gone never fires:
`NamedIsKept` is why.

### Runs

`deploy_safety` — two programs of two parts (the least with a half-copied state
and with a program to go back to), three commands (install, something that
disturbs, and what comes after), six numbers of releases (two per command, so the
bound is never met), keep 2 (the smallest the setting allows, so that prune
has work to do; the file says 2.5, of which the fraction is cut off), one
interruption anywhere, every fault, `restartOnDeploy` and `rollbackOnFailure` on
(one missing, one unusable). With the first off a settle does what it does for a unit
that is down, with the second what it does with nothing to go back to; both
branches are reached here, and the proofs hold for all settings. Properties:
`NamedIsKept`, `BackMeansBack`, `CurrentIsInstalled`, `RunsWhatIsInstalled` (whose
`orderly` leaves out interruptions, failed file operations and installs outside
the contract, and whose `missed` leaves out a unit its last restart did not reach;
after a command that says "deployed" neither is an exception) and
`FollowsProtocol`. `CHECK_DEADLOCK FALSE`: after the last
command of the bound nothing is left to do.

`deploy_v_restore` — a counterexample to the docstring of `restore`: when the
first entry cannot be moved aside, the undo deletes the entries that are still in
place.

### Proofs

`DeployTreeProofs` proves `Spec => []IInv` for all constants. `IInv` says what a
command knows at each of its places: the copy it just made is the target and is
kept (`RememberedIsKept`), the pending entry is what was found
(`PendingIsFound`), between the write of the state and the end of a way back the
previous entry is the one to go back to and thus protected from prune
(`InUseIsPrevious`), a restore builds the release from nothing
(`RestoreBuilds`), prune has only folders before it that nobody names
(`DoomedIsUnnamed`), and the unit runs the target wherever nothing changes it
(`UnitFollows`, with `SameWasNeverOther`: an installer that changed anything
leaves an entry that was not found, so a target that compares equal was never
another one). `ImplementsProtocol` is the refinement: the initial state maps to
the initial state, and, with `IInv`, every step to a step of `ReleaseState` or a
stutter. Assumed: `PartsAssumption`, `BoundsAssumption`, `FileAssumption`.

## 4. Packages and DeployRelease

### Correspondence

| code | model |
| --- | --- |
| the folder of packages, the releases on the server | `out`, `assets`: version -> archive, hash, signature |
| `pack`, `sign`, `publish` | `Build` … `BuildHashed`, `SignCommand`, `Sign`, `PublishChecks`, `Upload` |
| `check_members`, `signature_ok`, `verify_package` | `MembersOk`, `SignatureOk`, `Verified` |
| `releases/`, `state.json`, the link | `folders`, `state`, `link` |
| the restart command (external) | `told`: the release it was told last |
| `install` | `StartInstall`, `Extract`, `Switch`, `PointLink`, `Restart`, `Health`, `Undo`, `Relink`, `Again`, `Prune` |
| `rollback`, `prune` as commands | `StartRollback`, `PruneCommand` |
| `prune`: the folders beyond `keep`, removed one by one | `Excess`, `RemoveFolder`, `RemoveEnds` |

`packed`, `checked` and `cmd.clean` are history. Bytes stand for their hash; a
signature is the text it signs, so a forged one does not exist: Ed25519 is
assumed to do what it promises. An archive is whole, torn or has a member off the
layout. The file the operator gives may be the one of another version under a new
name. Extraction is one step because the code extracts aside and renames.
Removal is not: `prune` goes through the folders it chose one after the other,
`rmtree` ignores its errors, and the command may be stopped in the middle of
one. A folder may so stay whole or be left `Torn`; it keeps its number, it is
one the state does not name, and later commands meet it (`next_release_name`
passes over it, a later prune may choose it again).

### Run

`release_safety` — two versions (an upgrade, and a downgrade with and without
`allow`), a good build and one off the layout, two packs (one version repacked,
or two), one stop of either program anywhere, also inside the removal of a
folder, removals that fail, two numbers per version (a version
is installed again), keep 2, three commands. `ReleasesAreSound` (what the state
names is whole; a folder in part is one a prune chose and the state does not
name), `WayBackWasChecked` (while nothing was stopped: a stop between the switch and
the health check does leave an unchecked release in use, see the hazards),
`FailedInstallChangesNothing`, `LinkAndUnitFollow` (while nothing was stopped
and links can be made), `FollowsProtocol`.

### Proofs

For any versions, builds and bounds. The packing side is its own invariant: what a
signature vouches for was once written whole under that version
(`SignedWasPacked`), through repacks and half-done uploads. On the device
`FoldersSound` needs what an installation about to extract knows (`InstallKnows`),
and going back needs that the release before the one on trial is still there, and
whole, although only the command remembers it (`TrialKnows`, `BackIsFound`); that
a prune chose no folder the state names stays true while it removes them
(`PruneKnows`). `WayBack` and `Follows` carry the two conditional properties
through a command. The mapping to `ReleaseState` takes the remembered name from
the state the command found. Assumed: `PackagesAssumption`, `DeviceAssumption`,
`FileAssumption`.

## 5. Rollback

### Correspondence

| code | model |
| --- | --- |
| the files installers overwrite | `files` |
| backup files, named by entry number and target | `store` |
| `manifest.json`, and whether it parses | `manifest`, `readable` |
| `backup_before_write` | `StartInstaller`, `BackupCopy`, `BackupRecord` |
| `install -m` in the two scripts | `Install` |
| `restore_all`, first and second pass | `Check`; `RestoreEntry`, `RestoreFails`, `RestoreEnds` |

`was` in an entry is history: the content the file had when it was recorded, of
which the code keeps only whether there was one. A content stands for a whole
file with its mode. A file that is being written when the command stops is torn.
Commands run one after the other. When the manifest is torn the model allows no
further command that reads it: in the code each ends with an error, restores
included, until somebody repairs the file by hand.

### Run

`rollback_safety` — two files with two contents (a file that is recorded twice
with different contents, next to one that is not), three entries, four commands,
one interruption, a backup lost at any time, an edit by the operator between
commands. Three entries are the least in which a target recorded twice has
another entry between or around it; four commands let a restore follow three
installers. `PassedIsOriginal`, `MissingChangesNothing`.

### Proofs

`RollbackProofs` proves `Spec => []IInv` for any number of files, contents,
entries and commands. The core is `SecondPassBuilds`: of the entries the second
pass has gone through, the earliest of each target decides what the file holds;
at the end this is the first entry of all. `FirstPassStops` keeps a missing
backup in front of the first pass, `EntryInTheMaking` ties the copy to the entry
that is about to be recorded, and `BackupsAreExact` (theorem `BackupsStay`) says
that what is recorded is what the file held. Assumed: `ContentAssumption`,
`BoundAssumption`.

## 6. Secrets

### Correspondence

| code | model |
| --- | --- |
| `server.env`, `voice-ui.env` | `env` |
| `server-admin.txt` | `credentials` |
| key file and drop-in of `service_identity.py` | `identity` |
| key of `make_result_key.py` | `resultKey` |
| `gateway.env`, `gateway-bridges.txt` | `gateway` |
| `ensure_lines`, `fill`, `--adopt`, `--mirror` | `EnsureLines`, `Fill`, `Adopted`, `Mirror` |
| `main` of `generate_secrets.py` | `Generate`, `WriteCredentials`, `WriteEnv`, `Mirror`, `Check` |
| `service_identity.py`, `make_result_key.py` | `Enable` … `Disable`, `MakeKey`, `MakeKeyWrites` |
| two runs of `gateway_env.py` | `GatewayRuns`, `GatewayCredentials`, `GatewayEnv` |

A value is no line, an example, one that is too short, or a number no other draw
gives. Every write is atomic, as `secret_output.py` makes it, and a program may
be stopped between any two, at `MakeKey` inside one. The operator copies a
template, resets a value, rotates or takes away a file, only while no env program
runs. `recorded`, `overlapped` and `strayed` are history.

### Run and proofs

`secrets_safety` — four program runs (both installers, one of them again, and an
identity), two edits, one stop, a voice template with both shared keys.
`PasswordIsRecorded`, `IdentityIsUsable`, `ChoicesStay`; `SharedKeysAgree` has
the exception `strayed`: `--mirror KEY` fills every example of the other file and
gives only KEY the value of the server, so another shared key may get one of its
own (section 12); `GatewayCredentialsMatch` has `overlapped`: of two runs at once
one loses the env file and may keep the credentials.

`SecretsProofs` proves the five for any templates and bounds; it does not need
`SecretsAssumption`. The invariant: the text a program holds keeps the real
values of its file and agrees with the other file (`TextIsKind`), the server's
file is that text while the mirrors run (`MirrorsTheText`), the two files agree
(`FilesAgree`), a program about to name a key has a usable one (`KeyIsUsable`),
and a gateway run that is alone finds no file (`OneGatewayRun`).

## 7. Firewall

### Correspondence

| code | model |
| --- | --- |
| `firewall.nft`, which names its table | `conf` |
| the tables of nft (external) | `table`: name of `--table` -> rules |
| the boot unit, the table in its text, whether it was started | `unit` |
| the one transient timer and its command | `timer`, `firing`: the table it takes away |
| `apply` | `Apply`, `WriteConf`, `DeleteTable`, `LoadTable`, `NoSystemdRun`, `StopEarlier`, `StartTimer`, `WriteUnit`, `EnableUnit` |
| `confirm`, `revert` | `Confirm`; `Revert` … `RevertConf` |
| the three commands of the timer | `Fire`, `FireTable`, `FireDisable`, `FireRemove` |

Which rules a profile holds is left out: rules are a model value. nft has accepted
them before `Apply`, as the script asks it first. The timer is a second process;
`systemd-run` is refused while its service of that name still runs, and set -e
then ends the command (`StartTimer`). A machine without `systemd-run` unloads the
rules again (`NoSystemdRun`). The boot unit loads whatever the file names then,
and `disable --now` of a unit that was started takes away the table of its text
(`RevertUnit`). `standing`, `disturbed`, `collateral`, `alone` and `undone` are
history.

### Run and proofs

`firewall_safety` — two tables, two sets of rules, four commands (a trial, another
before its time, of this table or the other, confirm, revert in any order), two
troubles (a killed command and a reboot). Two tables are the least in which a
command meets what belongs to another. Each property names what it leaves out:

* `TrialHasAWayOut`: a step of the table's command failed or was killed, or the
  machine was restarted, since it was loaded (`disturbed`); or a trial or a revert
  of another table stopped the one timer (`collateral`). The second is no failure:
  `EveryTrialHasAWayOut` of section 12 is without it, and refuted.
* `ConfirmedStays`: only the revert of another table, through a started boot unit
  whose text names this one. A timer that fires late is no exception, whatever it
  races with, and neither is a restart as long as the table is loaded at boot: a
  later command about another table may take the boot unit or the file away, and
  then the table is gone with the next restart, unloaded by nobody.
* `TakenAwayStaysAway`: a timer whose command met an apply (`alone`): one that
  fires while `--persist` is writing the boot unit removes a unit that is not
  there yet.

`FirewallProofs` proves the three for any tables, rules and bounds. The invariant:
an apply brings rules under its own name (`ApplyBringsRules`); the timer does not
wait while its command runs (`OneTimer`); rules on trial or confirmed are loaded,
and no timer is left, runs or is about to start for the confirmed ones
(`LoadedAndKept`, which needs `RevertUnloads`); an undisturbed trial has a timer
or a command about to start one (`TrialEnds`); what a timer's command has passed
is gone (`FiringUndoes`) and stays gone until the next apply (`UndoneStays`).
Assumed: `FirewallAssumption`.

## 8. Agent

### Correspondence

| code | model |
| --- | --- |
| `load_config`, `probes`, `health` | `AgentChecks` |
| `_free_the_path`, `start`, `close` | `Lstat`, `Connect`, `Unlink`, `Bind`, `Chmod`, `Listen`; `Close`, `CloseUnlink` |
| whose socket the path names | `path` |
| the loop of `serve`, `ReportGate` | `ReadHealth`, `ShouldEmit`, `Sleep`; `gate`, `journal` |
| the thread, `_cached` | `AnswerStarts`, `AnswerLooks`, `AnswerComputed`, `AnswerCached`; `thread`, `cached` |

Time passes in ticks. An instant is kept as its age, which stops growing at the
limit the code compares it with, so that the state space is finite without a
bound on time. One agent has its memory followed, the others only their way to
the socket. An agent may be killed at every step. `describe` and `query` change
nothing.

### Run and proofs

`agent_safety` — two agents (a third would only be one more that starts beside
them), two checks (a change of one that leaves the state of the whole as it
was), PASS and FAIL, a cache of two ticks and a heartbeat of two.
`ServingIsReachable` leaves out two agents that start or close at the very same
time (`overlap`): there the model does lose the socket of a live agent, although
the docstring of `_free_the_path` says that a live one is never touched.
`JournalIsCurrent` and `AnswersAreFresh` have no exception.

`NodeProofs` proves the three for any agents, checks, words and limits. The
invariant has three parts about different variables: who has bound the path owns
it and who is about to unlink found nobody serving (`PathIsOwned`); what was
written is what the gate remembers (`LoopInv`); a report saw the machine after
its clock was read (`AnswerInv`). Assumed: `AgentAssumption`.

## 9. VersionBump and ProjectTool

A version is the sequence of its numbers; `style` is one of the six kinds of
native file, of which a pubspec and an npm manifest hold three numbers, a file of
separate fields only with a build field four. A command is a series of writes in
the order of the code (`Order`); `Edit` is what a project's own script or another
hand does to the native file, `EditLock` to the lock file: a merge leaves a
`package-lock.json` with conflict marks, or a `Cargo.lock` without an entry of the
package (`Unreadable`), or a package manager writes it anew. `WriteLock` leaves an
unreadable lock file as it is and the command goes on to status 0; a lock file
whose text cannot be decoded, or that is JSON but not an object, ends the command
with a traceback, as a kill does. `ProjectTool` runs those commands as children:
`ToolBump`, `StartChild`, `ChildEnds`, `CheckResult`, and lets a kill, a commit,
an edit or a command of others come between them; the child of a killed tool goes
on.

`bump_safety` — five starts, each next to a carry (0.6.9, 0.7.8 and from there
over 0.7.9 to 0.8.0.0, 0.8.0.8, 0.9.9.9, 9.9.9.9), all styles, three commands (a
bump, a `--sync` and one more), one edit of the native or the lock file, one kill,
two runs of the tool and one commit. Three commands let a bump be killed, finished
and repeated.
`SuccessMeansAgreement`, `ABumpCanBeFinished`, `NoVersionIsSkipped`,
`BumpedIsTheNext`.

`BumpProofs` proves the four for any first versions, styles and bounds. The
invariant is about the order of the writes. A command knows at each of them what
the earlier ones left (`Knows`): before the manifest is written its next version
is the one under way, after the first write the native file reads back as it, and
the change log, the lock file and the generated constants follow one by one. The
entries of the change log are never later than the manifest (`LogInOrder`): the
code writes no entry for a version the log has anywhere, so one further down would
stay there. The mirrors follow where nothing was killed or edited
(`MirrorsFollow`), and a native file only its own commands wrote is at the
manifest's version or at the next one (`CanBeFinished`), which is what a kill
leaves. `SuccessMeansAgreement` is a conjunct, as nothing else is known of the
files once a command is idle. `ToolKnows` adds what the tool compares. Below it
lie the lemmas on numbers: a version is its digits (`VersionParts`, and back
`ThreeMake`, `FourMake`), counting as one number is carrying (`Carry`), and the
next version is one further in their order (`NextIs`); these are why
`NoVersionIsSkipped` holds over every carry and into the fourth number, and not
only next to the carries the run starts from. Assumed: `BumpAssumption` (a version
has three numbers below 0.8.0 and four from there on, each but the first a digit).

## 10. Decisions

The programs that only decide are operators: each takes the input as records and
sets and gives the answer. `Decisions` is the smallest system around them: a
behaviour is one question and its answer, so TLC goes through every input of the
sets in `MCDecisions`, and the properties compare the answer with what it is
relied on for, never with a copy of the same rule.

| property | asks | of |
| --- | --- | --- |
| `TableAgrees` | deploy and rollback act on the same folder, health route and, with the exception below, unit; sudo allows what the command accepts; `--replace`, of all scripts or of one and stopped after any, keeps both | `InstallPlan` |
| `SavedIsRestorable`, `RestoreStaysInside` | an archive made beside running programs restores; an archive of any origin changes no file outside its scope but through a link | `RecoveryScope` |
| `PassIsEarned` | READY, an installed base and a verified runtime mean what they say | `AgentChecks`, `HostChecks` |
| `NamesTellApart` | two devices share a name only if they share an identifier | `HostChecks` |
| `LightsStayHonest` | a table that passes is honest, also after an interrupted `--apply` | `StatusLights` |
| `PassedIsSound` | a repository that passes `ci` is what a reader takes it for | `ReadmeLayout`, `RepoTree`, `CiValidate` |

The inputs: two installers, one arbitrary and one clean, three registries;
configurations that differ from a sound one in a block or two, on machines whose
probes answer each way; files in and beside the scope, databases and journals
among them, of which one or two come or go between a backup's looks at the device
(`Moments`: the paths it lists, the databases it copies, the live files it leaves
out, what tar reads), with a snapshot or a list of live files that may fail;
members in and out of scope with and without `..`, links, an entry of the root,
on devices where the data folder is a link or a folder; `--replace` of one script
or all, stopped after any; two devices of which each identifier may be
missing, zeros or shared; tables of two rows in three languages, stopped after
some of the READMEs; repositories that differ from a sound one in the places
where two checks meet. A name is a model value or what the code tells apart of
it (a stem and an ending, a set of matches for a pattern); text is never built.
What a path is compared by is `PathOf`, its folder and its own name: a unit file
in `/etc/systemd/system` is in scope by its name, a file beside it is not.

`DecisionsAssumption` says of what kind the inputs are: what each question holds;
that a script has every field `read_script` gives it and no two scripts install
one repository; that temperatures and limits are numbers; that a file on a device
has a path below the root and the state a backup saves no links, while a member
of an archive may be anything; that a
table of lights is a sequence of rows; that a README is a sequence of lines in which
a heading has the icon of a section or another, and the changelog one of entries;
and that there is a README for each language (`readmes` says of each whether the
file is there).

Exceptions the properties name: a program with a unit file of its folder's name
that the registry does not list, which `deploy` restarts and `rollback` does not
(`OnlyDeployKnows`); a database that appears after a backup made its copies, and a
journal that appears after it listed the live files; what a restore reaches
through a link of the device or of the archive (`ThroughALink`: `tar` keeps or
refuses links by rules of its own, so `through` is any of the two); a flutter
project, which `ci` only analyzes where the host has no target for it; the data
file of the glance, without which `ci` skips a check that `doctor` fails; the
source of the READMEs' generator, which a second `--apply` cannot repair because
it finds the English README as wanted and patches nothing.

`NodeProofs` proves all seven for any such inputs, each from a lemma about
the answer (`BackupRestores`, `RestoreInside`, `SameNameSharesIdentifier`,
`ReadyIsSound` and so on) and from `QuestionStays`. The arguments worth knowing:
for the table, that a row found by its name is the row of its source because no
two scripts share one (`UpdaterIsAccepted`), that the service a row without
problems begins is its source and so the registry says of both the same
(`SettlesItsOwn`), and that a generated script is again such a row
(`ReplacedIsAccepted`); for the lights, that a ceiling is the least of its reasons
(`CeilingHolds`), that no write of `--apply` changes a reason (`SameCeiling`), so
that the second pass, however far the first one came, works below the same
ceilings (`WholePassAgrees`, `RaisedHonestly`); for a repository that passes
(`PassesAreSound`), that turning at each fence and counting the fences above tell
the same code blocks (`TurningIsCounting`), so that what a reader sees of a README
are the sections the check reads (`SeenAreSections`), and that `ci` left `doctor`
nothing of its own to find in the READMEs and the changelog (`DoctorAgrees`); for
an archive, that a file that stayed is one of its place at every look, so that it
is left out only as a database or a journal of one (`BackupRestores`), and that
what a restore changes lies where a member lands (`RestoreChanges`, `LandsThere`).
`TurningIsCounting` is an induction over the lines: no induction theorem of the
library can be used, since each takes an operator, so it looks at the first line
where the two would differ (`LeastIs`, by `WFMin`); the turning function exists
because the count is one. Assumed: `DecisionsAssumption`, and
that there is a language (`LayoutAssumption`).

`decisions_v_snapshot` — the names of the copied databases come from a process
substitution, whose exit status `set -e` does not see: a backup whose snapshot
fails prints CM5_RECOVERY=PASS and has no database. It refutes
`PassedBackupHasDatabases`, which says what docs/CM5_PROVISIONING.md says.

## 11. Bounds and fairness in common

Two of each kind of actor or datum unless a property needs three; one crash, stop
or interruption, since each leaves a state that is then an initial state of the
next command; as many commands as it takes to have one that sets up, one that
disturbs and one that comes after. Every bound is a constant and a guard, and the
proofs hold for all its values. `CHECK_DEADLOCK FALSE` stands where the bound on
commands ends a behaviour, and for the agent, which may be down for good. Only
`wifi_live` assumes fairness.

## 12. Disagreements the model refutes without a run of their own

Each of these is a property of its module with the comment it comes from. To
repeat one, put it into a configuration of the module with the constants named;
the deployment ones take the other values from `deploy_safety.cfg` with no
interruption.

| property | constants | what happens |
| --- | --- | --- |
| `RunningAttemptIsWaitedFor` | `Spec`, one request, one network, no faults, no crash | the loop reads the clock and `busy()`, then a handler passes `begin`: the window closes under it |
| `AttemptEnds` | `FairSpec`, two requests, one network, `Faults = {"answer"}` | the phone hangs up, the answer raises before the join thread starts, "joining" stays |
| `WayBackInUnlessRefused` | `Spec`, one request, one network, `Faults = {"status"}` | the second look at the interface raises, `run_join` reports a failed attempt, and nobody restarts the access point |
| `JoinedIsNeverUndone` | `Spec`, two requests, two networks, no faults | a second submission before the loop sees `joined[0]` takes the device off its network |
| `EarlierProgramIsPutBack` | `Faults = {"installer", "health"}` | after an installer that stopped half-way the next `begin` remembers half a program |
| `UnitIsRestartedOnIt` | `Faults = {"restart"}` | `try-restart` does nothing for a unit the failed restart left down, and settle does not look at a second one that fails and leaves the failed program running |
| `UnchangedNeedsNothing` | `Faults = {"installer"}` | the next installer says "unchanged" while the unit runs the earlier program |
| `EveryTrialHasAWayOut` | `firewall_safety.cfg` | `apply --table B --rollback-after` or `revert --table B` stops the one timer, which was to take table A away: A stays on trial for good |
| `SuccessMeansTheLockToo` | `bump_safety.cfg` | a bump over a `package-lock.json` with conflict marks says it moved the version and ends with 0, and the lock file was not touched |
| `RollbackRestartsTheUnit` | `decisions_safety.cfg` | two rows of the table (`install_voice_ui.sh`, `install_node_healing.sh`) are of this kind: the registry lists no unit, deploy restarts the one named after the folder (deploy_lib.sh:69) and rollback none (hydra_umc_os.py:136), so the earlier program is back and the later one runs on |
| `NoJournalBesideACopy` | `decisions_safety.cfg` | a program opens its database between the list of live files (cm5_recovery.sh:48) and tar's look at the folder (l. 50): the journal is archived beside the consistent copy |
| `RestoreLeavesTheRoot` | `decisions_safety.cfg` | `check-members` takes the entry `./` (recovery_scope.py:55), and tar gives the root of the device its owner and mode (cm5_recovery.sh:75) |
| `RestoreFollowsNoLink` | `decisions_safety.cfg` | links are accepted by their name: a member below a link of the device, or of the archive where tar follows it, lands outside the state |
| `PassedIsCompiled` | `decisions_safety.cfg` | `build_test.py` analyzes a flutter project without a target on the host, prints FLUTTER_BUILD=SKIPPED and passes (l. 118-120) |
| `PartialNamesRestored` | two entries, three commands, no interruption | a target is named as restored when only its later backup is back |
| `ReachesBothFiles` | one command, two edits, no stops | a mirror gives another shared key a value of its own |

Seen while modelling: after a crash the access point of the dead process is still
up, the restarted service finds a connected interface and reports
ALREADY_CONNECTED, so the form is gone until a reboot; exit status 3 is reported
as "rolled-back" by `hydra_umc_os.py` also with `rollbackOnFailure` off, when
nothing was put back; `deploy_release.py` names a folder as removed also when
`rmtree` left it there; `hydra_firewall.sh` keeps one rules file and one boot unit
for all tables, so that the last `apply` decides which table a boot loads, and on
a machine without `systemd-run` the file of the rules it "removed again" stays for
the boot unit of an earlier `--persist`; the link that `deploy_release.py` makes is relative to the
wrong folder; a backup passes also when the list of its live files fails, and then
holds live databases and journals beside the copies; a folder of the scope that is
itself a link is archived as a link, while its databases are copied from where it
leads.

## 13. What is only model-checked, and what is not shown

* Liveness (`AttemptEnds`, `ServiceEnds`) is checked on the instance of
  `wifi_live` and not proved: it rests on fairness, which is out of the prover's
  reach.
* The counterexample runs show a trace, and nothing about how often it happens.
* The proofs are about the specifications. That a specification is the code is a
  matter of reading; `PROJECT.json` "map" gives the lines of every definition.
* Two commands of one component at once are not modelled, but for
  `gateway_env.py`, the agents and the firewall's timer. Nothing in the code
  excludes them; they would break most properties that speak of a command's end.

## 14. Not modelled

* The failure counter and lockout of the setup code, and its credentials file.
* Backup and restore of settings (`restore_settings.sh`): a shell script of its
  own kind; its swap of the data folder is a hazard of the list.
* TLS of the MQTT broker: a sequence of openssl calls.
* `first_boot.sh` and the inventory of projects; the installers' own apt, npm and
  systemctl lines; polkit rules (static text); the checks of the diagnostics that
  only call systemctl, stat and curl.
* Kiosk and local screen (display I/O), the Debian package (ordered by dpkg).
* `coverage` of the project tool, whose figure comes from other tools; the
  drawing of pictures and trees, coloured output.
* Cryptography is assumed to do what it promises; what a power cut does to pages
  that were not synced is left out everywhere.

What would come next: the setup code composed with the request threads of
`WifiProvision`; `restore_settings.sh` with a stop in its swap; the pair of key
and certificate after a failed renewal; two commands of one component at once;
abstract specifications of `Rollback` (a restore that passes gives back what was
first recorded) and of `JoinTracker` (a lock with an outcome).
