----------------------------- MODULE DeployTree -----------------------------
(***************************************************************************)
(* The deployment contract of the installers: tools/deploy_tree.py with    *)
(* the parts of tools/deploy_release.py it uses (the state file, the name  *)
(* of a release, prune) and provisioning/deploy_lib.sh, which calls it     *)
(* around an installer.                                                    *)
(*                                                                         *)
(* One command runs at a time: an installation (begin, the installer's own *)
(* copy, settle) or a rollback.  What survives a command is on disk: the   *)
(* payload of the target, the kept releases, state.json.  A step of the    *)
(* model ends where the disk changes, so that a command can be interrupted *)
(* between any two such changes, and the unit may stop or start in         *)
(* between.                                                                *)
(*                                                                         *)
(* A payload is a set of <<part, program>> pairs: the top-level entries of *)
(* the target and the program each of them comes from.  An entry is there  *)
(* or not (a folder cut in the middle of its copy counts as not there),    *)
(* and a payload stands for its own sha256.  The state folders are no part *)
(* of any payload.  All programs carry the same version, the case in which *)
(* the names of releases are reused most.                                  *)
(***************************************************************************)
EXTENDS DeploySettings, FiniteSets

CONSTANTS
  Programs,           \* the programs an installer may bring
  Parts,              \* the top-level entries of a program
  Leftover,           \* the name of a .restore- folder nobody removed
  MaxReleases,        \* bound: the numbers a release folder may get
  Faults,             \* which things may go wrong, of FaultKinds
  MaxCommands,        \* bound: installations and rollbacks
  MaxInterrupts       \* bound: kills of a command and power cuts

FaultKinds ==
  {"keep",       \* a copy of the payload cannot be kept (disk full)
   "move",       \* an entry of the target cannot be moved aside
   "copy",       \* an entry of a release cannot be copied back
   "off",        \* an installer runs with HYDRA_UMC_DEPLOY=off
   "installer",  \* the installer stops (set -e) between begin and settle
   "restart",    \* the restart command does not return 0 in its time
   "ask",        \* systemctl is-active does not answer for a running unit
   "prune",      \* rmtree leaves a folder, or a part of it
   "health",     \* the health check does not pass in its time
   "unit"}       \* the unit stops by itself

ASSUME PartsAssumption == Parts # {} /\ Leftover \notin Parts
ASSUME BoundsAssumption ==
  /\ MaxReleases \in Nat \ {0}
  /\ MaxCommands \in Nat
  /\ MaxInterrupts \in Nat
ASSUME FaultsAssumption == Faults \subseteq FaultKinds

VARIABLES
  tree,       \* the payload of the target
  aside,      \* what a running restore moved to its .restore- folder
  kept,       \* the release folders: number -> what is in it, {} = no folder
  state,      \* state.json: current, previous, pending
  unit,       \* the payload the running unit was started from, {} = down
  missed,     \* the last restart the unit should have had left it as it was
              \* (history)
  cmd,        \* the command that runs: its place and its local variables
  found,      \* the payload of the target when the command began (history)
  orderly,    \* every command so far ran to its end, under the contract and
              \* without a file operation that failed (history)
  commands,   \* how many commands were started
  interrupts  \* how many were interrupted

disk == <<tree, aside, kept, state>>
running == <<unit, missed>>
counters == <<found, orderly, commands, interrupts>>
vars == <<tree, aside, kept, state, unit, missed, cmd, found, orderly,
          commands, interrupts>>

-----------------------------------------------------------------------------
(* Data *)

Stray == <<Leftover, Leftover>>
Payload == (Parts \X Programs) \cup {Stray}
Payloads == SUBSET Payload
Whole(p) == Parts \X {p}
PartNames(payload) == {e[1] : e \in payload}

Releases == 1 .. MaxReleases

(* What a removal that stopped half-way leaves in a release folder. *)
Ruin == {<<Leftover>>}

(* An entry of state.json: the release folder and the digest of what was   *)
(* copied into it.  Number 0 stands for null.                              *)
Entry == [release : 0 .. MaxReleases, sha : Payloads]
None == [release |-> 0, sha |-> {}]

Places ==
  {"idle", "begin", "remember", "copying", "settle", "write", "look",
   "prune", "health", "failed", "move", "copy", "undo", "return", "back", "again"}

Results ==
  {"none", "running", "deployed", "installed", "unchanged", "refused",
   "stopped", "not_held", "gone", "rolled_back", "not_restored",
   "went_back", "not_healthy", "interrupted", "done"}

(* What a command remembers besides the disk: the program its installer    *)
(* brings, the entry it made, the release in use before it (in_use; the    *)
(* release a rollback goes back to), the previous one of its snapshot and  *)
(* the folders its prune has not come to yet.                              *)
Command ==
  [pc : Places, flow : {"install", "rollback"}, want : Programs,
   entry : Entry, inUse : Entry, before : Entry,
   doomed : SUBSET Releases, result : Results]

TypeOK ==
  /\ tree \in Payloads
  /\ aside \in Payloads
  /\ kept \in [Releases -> Payloads \cup {Ruin}]
  /\ state \in [current : Entry, previous : Entry, pending : Entry]
  /\ unit \in Payloads
  /\ missed \in BOOLEAN
  /\ cmd \in Command
  /\ found \in Payloads
  /\ orderly \in BOOLEAN
  /\ commands \in 0 .. MaxCommands
  /\ interrupts \in 0 .. MaxInterrupts

(* A device that never ran the contract: an empty target, or a program put *)
(* there by an installer older than the contract.                          *)
Init ==
  /\ tree \in {{}} \cup {Whole(p) : p \in Programs}
  /\ aside = {}
  /\ kept = [n \in Releases |-> {}]
  /\ state = [current |-> None, previous |-> None, pending |-> None]
  /\ unit = {}
  /\ missed = FALSE
  /\ \E p \in Programs :
       cmd = [pc |-> "idle", flow |-> "install", want |-> p, entry |-> None,
              inUse |-> None, before |-> None, doomed |-> {},
              result |-> "none"]
  /\ found = {}
  /\ orderly = TRUE
  /\ commands = 0
  /\ interrupts = 0

-----------------------------------------------------------------------------
(* Helpers *)

May(fault) == fault \in Faults

At(place) == cmd.pc = place
Goto(place) == cmd' = [cmd EXCEPT !.pc = place]
End(result) ==
  cmd' = [cmd EXCEPT !.pc = "idle", !.result = result, !.doomed = {}]
Abandon(result) == End(result) /\ orderly' = FALSE

(* release_path and is_dir: the folder of an entry is there. *)
IsThere(entry) == entry.release # 0 /\ kept[entry.release] # {}

(* Mutant: the number of a release is one more than the folders there are. *)
NumberByCount(n) ==
  /\ n \in Releases
  /\ n = Cardinality({m \in Releases : kept[m] # {}}) + 1

(* next_release_name: the first number without a folder. *)
NextName(n) ==
  /\ n \in Releases
  /\ kept[n] = {}
  /\ \A m \in 1 .. n - 1 : kept[m] # {}

(* keep_copy: the copy appears under its name in one rename. *)
KeepCopy(place) ==
  \E n \in Releases :
    /\ NextName(n)
    /\ kept' = [kept EXCEPT ![n] = tree]
    /\ cmd' = [cmd EXCEPT !.pc = place,
                          !.entry = [release |-> n, sha |-> tree]]

KeepCopyFails(result) ==
  /\ May("keep")
  /\ Abandon(result)
  /\ UNCHANGED <<disk, running, found, commands, interrupts>>

(* prune keeps the newest folders and whatever the state names as current  *)
(* or previous.  "Newest" is by modification time, and a clock that was    *)
(* set back can put the folders in any order: any set of that size may be  *)
(* the newest.                                                             *)
Protected == {state.current.release, state.previous.release} \ {0}
Folders == {n \in Releases : kept[n] # {}}
Larger(a, b) == IF a >= b THEN a ELSE b

PruneThen(result) ==
  \E newest \in SUBSET Folders :
    /\ \/ newest = Folders
       \/ Cardinality(newest) = Larger(TreeKeep, Cardinality(Protected))
    /\ newest = Folders
         => Cardinality(Folders) <= Larger(TreeKeep, Cardinality(Protected))
    /\ cmd' = [cmd EXCEPT !.pc = "prune", !.result = result,
                          !.doomed = Folders \ (newest \cup Protected)]

(* rmtree goes on after an error: the folder may stay, whole or in part.   *)
PruneFolder(n) ==
  /\ At("prune")
  /\ n \in cmd.doomed
  /\ cmd' = [cmd EXCEPT !.doomed = cmd.doomed \ {n}]
  /\ \/ kept' = [kept EXCEPT ![n] = {}]
     \/ May("prune") /\ (kept' = [kept EXCEPT ![n] = Ruin] \/ kept' = kept)
  /\ UNCHANGED <<tree, aside, state, running, counters>>

PruneEnds ==
  /\ At("prune")
  /\ cmd.doomed = {}
  /\ Goto("idle")
  /\ UNCHANGED <<disk, running, counters>>

Prune == (\E n \in Releases : PruneFolder(n)) \/ PruneEnds

-----------------------------------------------------------------------------
(* deploy_begin: begin *)

(* An operator or the updater runs the installer of the program p. *)
StartInstall(p) ==
  /\ At("idle")
  /\ commands < MaxCommands
  /\ commands' = commands + 1
  /\ found' = tree
  /\ cmd' = [pc |-> "begin", flow |-> "install", want |-> p, entry |-> None,
             inUse |-> None, before |-> None, doomed |-> {},
             result |-> "running"]
  /\ UNCHANGED <<disk, running, orderly, interrupts>>

BeginNothing ==
  /\ At("begin")
  /\ tree = {}
  /\ state' = [state EXCEPT !.pending = None]
  /\ Goto("copying")
  /\ UNCHANGED <<tree, aside, kept, running, counters>>

(* The program in the target is the current release, and it is kept. *)
AlreadyKept == state.current.sha = tree /\ IsThere(state.current)

BeginAlreadyKept ==
  /\ At("begin")
  /\ tree # {}
  /\ AlreadyKept
  /\ state' = [state EXCEPT !.pending = state.current]
  /\ Goto("copying")
  /\ UNCHANGED <<tree, aside, kept, running, counters>>

BeginKeep ==
  /\ At("begin")
  /\ tree # {}
  /\ ~AlreadyKept
  /\ KeepCopy("remember")
  /\ UNCHANGED <<tree, aside, state, running, counters>>

BeginKeepFails ==
  /\ At("begin")
  /\ tree # {}
  /\ ~AlreadyKept
  /\ KeepCopyFails("stopped")

BeginRemember ==
  /\ At("remember")
  /\ state' = [state EXCEPT !.pending = cmd.entry]
  /\ Goto("copying")
  /\ UNCHANGED <<tree, aside, kept, running, counters>>

Begin ==
  BeginNothing \/ BeginAlreadyKept \/ BeginKeep \/ BeginKeepFails
    \/ BeginRemember

-----------------------------------------------------------------------------
(* The installer itself, between begin and settle *)

InstallPart(part) ==
  /\ At("copying")
  /\ <<part, cmd.want>> \notin tree
  /\ tree' = {e \in tree : e[1] # part} \cup {<<part, cmd.want>>}
  /\ UNCHANGED <<aside, kept, state, running, cmd, counters>>

InstallerEnds ==
  /\ At("copying")
  /\ Whole(cmd.want) \subseteq tree
  /\ Goto("settle")
  /\ UNCHANGED <<disk, running, counters>>

InstallerFails ==
  /\ May("installer")
  /\ At("copying")
  /\ Abandon("stopped")
  /\ UNCHANGED <<disk, running, found, commands, interrupts>>

(* With HYDRA_UMC_DEPLOY=off neither begin nor settle runs: the installer   *)
(* copies, and nothing is kept, written or restarted.                      *)
InstallOff(p) ==
  /\ May("off")
  /\ At("idle")
  /\ commands < MaxCommands
  /\ commands' = commands + 1
  /\ found' = tree
  /\ tree' = {e \in tree : e[1] \notin Parts} \cup Whole(p)
  /\ Abandon("done")
  /\ UNCHANGED <<aside, kept, state, running, interrupts>>

Installer ==
  (\E part \in Parts : InstallPart(part)) \/ InstallerEnds \/ InstallerFails

-----------------------------------------------------------------------------
(* deploy_finish: settle *)

Same == state.pending.release # 0 /\ state.pending.sha = tree

SettleUnchanged ==
  /\ At("settle")
  /\ Same
  /\ state' = [state EXCEPT !.pending = None]
  /\ End("unchanged")
  /\ UNCHANGED <<tree, aside, kept, running, counters>>

SettleKeep ==
  /\ At("settle")
  /\ ~Same
  /\ KeepCopy("write")
  /\ UNCHANGED <<tree, aside, state, running, counters>>

SettleKeepFails ==
  /\ At("settle")
  /\ ~Same
  /\ KeepCopyFails("refused")

(* Mutant: settle goes back to what the state called current. *)
InUseOfState == state.current

(* in_use: what begin remembered, else the current release of the state. *)
InUse == IF state.pending.release # 0 THEN state.pending ELSE state.current

SettleWrite ==
  /\ At("write")
  /\ cmd' = [cmd EXCEPT !.pc = "look", !.inUse = InUse,
                        !.before = state.previous]
  /\ state' = [current |-> cmd.entry, previous |-> InUse, pending |-> None]
  /\ UNCHANGED <<tree, aside, kept, running, counters>>

(* A unit that is not running, or must not be restarted, is left alone,    *)
(* and so is one is-active does not answer for.                            *)
LeaveUnit ==
  \/ (unit = {} \/ ~RestartOnDeploy) /\ UNCHANGED running
  \/ /\ May("ask") /\ unit # {} /\ RestartOnDeploy
     /\ missed' = TRUE
     /\ UNCHANGED unit

SettleLeave ==
  /\ At("look")
  /\ LeaveUnit
  /\ PruneThen("installed")
  /\ UNCHANGED <<disk, counters>>

(* The unit runs the program of the target from now on. *)
UnitTakes == unit' = tree /\ missed' = FALSE

(* run_command says no: the restart was refused or not even tried and the  *)
(* unit runs on as it was, or it stopped and did not start, or its restart *)
(* came through without a status 0.                                        *)
RestartFails ==
  /\ May("restart")
  /\ \/ UNCHANGED unit /\ missed' = TRUE
     \/ unit' = {} /\ missed' = FALSE
     \/ UnitTakes

SettleRestart ==
  /\ At("look")
  /\ unit # {}
  /\ RestartOnDeploy
  /\ \/ UnitTakes /\ Goto("health")
     \/ RestartFails /\ Goto("failed")
  /\ UNCHANGED <<disk, counters>>

HealthPasses ==
  /\ At("health")
  /\ unit # {}
  /\ PruneThen("deployed")
  /\ UNCHANGED <<disk, running, counters>>

HealthFails ==
  /\ At("health")
  /\ May("health") \/ unit = {}
  /\ Goto("failed")
  /\ UNCHANGED <<disk, running, counters>>

NoWayBack == ~RollbackOnFailure \/ cmd.inUse.release = 0

(* It did not hold and stays (only the history of the state grows), or the *)
(* release in use before is put back.  prune never removes that release:   *)
(* the refusal for a folder that is gone has no state to fire in.          *)
SettleFails ==
  /\ At("failed")
  /\ \/ NoWayBack /\ End("not_held")
     \/ ~NoWayBack /\ IsThere(cmd.inUse) /\ Goto("move")
  /\ UNCHANGED <<disk, running, counters>>

Settle ==
  SettleUnchanged \/ SettleKeep \/ SettleKeepFails \/ SettleWrite
    \/ SettleLeave \/ SettleRestart \/ HealthPasses \/ HealthFails
    \/ Prune \/ SettleFails

-----------------------------------------------------------------------------
(* restore: the payload of the target moves to a folder of its own, the    *)
(* release is copied, and the folder is removed                            *)

Old == kept[cmd.inUse.release]

RestoreMove(e) ==
  /\ At("move")
  /\ e \in tree
  /\ tree' = tree \ {e}
  /\ aside' = aside \cup {e}
  /\ UNCHANGED <<kept, state, running, cmd, counters>>

RestoreMoved ==
  /\ At("move")
  /\ tree = {}
  /\ Goto("copy")
  /\ UNCHANGED <<disk, running, counters>>

RestoreCopy(e) ==
  /\ At("copy")
  /\ e \in Old \ tree
  /\ tree' = tree \cup {e}
  /\ UNCHANGED <<aside, kept, state, running, cmd, counters>>

RestoreCopied ==
  /\ At("copy")
  /\ Old \subseteq tree
  /\ aside' = {}
  /\ Goto("back")
  /\ UNCHANGED <<tree, kept, state, running, counters>>

RestoreFails ==
  /\ \/ At("move") /\ tree # {} /\ May("move")
     \/ At("copy") /\ ~(Old \subseteq tree) /\ May("copy")
  /\ Goto("undo")
  /\ UNCHANGED <<disk, running, counters>>

(* The handler removes every name of the release from the target ...       *)
UndoRemove ==
  /\ At("undo")
  /\ tree' = {e \in tree : e[1] \notin PartNames(Old)}
  /\ Goto("return")
  /\ UNCHANGED <<aside, kept, state, running, counters>>

(* ... and then returns what was moved; the folder goes with the finally.  *)
UndoReturn ==
  /\ At("return")
  /\ tree' = tree \cup aside
  /\ aside' = {}
  /\ Abandon("not_restored")
  /\ UNCHANGED <<kept, state, running, found, commands, interrupts>>

Restore ==
  (\E e \in Payload : RestoreMove(e) \/ RestoreCopy(e)) \/ RestoreMoved
    \/ RestoreCopied \/ RestoreFails \/ UndoRemove \/ UndoReturn

-----------------------------------------------------------------------------
(* What follows a restore: in settle, and in rollback *)

(* Mutant: the state is not put back with the program. *)
BackForgets ==
  /\ At("back")
  /\ state' = [state EXCEPT !.pending = None]
  /\ Goto("again")
  /\ UNCHANGED <<tree, aside, kept, running, counters>>

(* Mutant: the release that failed becomes the one to go back to. *)
BackSwaps ==
  /\ At("back")
  /\ state' = [current |-> cmd.inUse, previous |-> state.current,
               pending |-> None]
  /\ Goto("again")
  /\ UNCHANGED <<tree, aside, kept, running, counters>>

BackWrite ==
  /\ At("back")
  /\ state' =
       [current |-> cmd.inUse,
        previous |-> IF cmd.flow = "install" THEN cmd.before
                                             ELSE state.current,
        pending |-> None]
  /\ Goto("again")
  /\ UNCHANGED <<tree, aside, kept, running, counters>>

(* systemctl try-restart restarts a unit that runs and leaves another one  *)
(* as it is, with status 0.                                                *)
TryRestart ==
  \/ unit = {} /\ UNCHANGED running
  \/ unit # {} /\ (UnitTakes \/ RestartFails)

(* Mutant: nothing restarts the unit after the way back. *)
SettleEnds ==
  /\ At("again")
  /\ cmd.flow = "install"
  /\ End("rolled_back")
  /\ UNCHANGED <<disk, running, counters>>

(* settle does not look at how this restart ended. *)
SettleAgain ==
  /\ At("again")
  /\ cmd.flow = "install"
  /\ TryRestart
  /\ End("rolled_back")
  /\ UNCHANGED <<disk, counters>>

StartRollback ==
  /\ At("idle")
  /\ commands < MaxCommands
  /\ IsThere(state.previous)
  /\ commands' = commands + 1
  /\ found' = tree
  /\ cmd' = [cmd EXCEPT !.pc = "move", !.flow = "rollback",
                        !.inUse = state.previous, !.result = "running"]
  /\ UNCHANGED <<disk, running, orderly, interrupts>>

RollbackLeave ==
  /\ At("again")
  /\ cmd.flow = "rollback"
  /\ LeaveUnit
  /\ End("went_back")
  /\ UNCHANGED <<disk, counters>>

RollbackRestart ==
  /\ At("again")
  /\ cmd.flow = "rollback"
  /\ unit # {}
  /\ RestartOnDeploy
  /\ \/ UnitTakes /\ End("went_back")
     \/ May("health") /\ UnitTakes /\ End("not_healthy")
     \/ RestartFails /\ End("not_healthy")
  /\ UNCHANGED <<disk, counters>>

Back ==
  BackWrite \/ SettleAgain \/ StartRollback \/ RollbackLeave
    \/ RollbackRestart

-----------------------------------------------------------------------------
(* Around the command *)

(* systemd, or the operator, starts the unit on what is in the target. *)
UnitStarts ==
  /\ unit = {}
  /\ tree # {}
  /\ UnitTakes
  /\ UNCHANGED <<disk, cmd, counters>>

UnitStops ==
  /\ May("unit")
  /\ unit # {}
  /\ unit' = {}
  /\ missed' = FALSE
  /\ UNCHANGED <<disk, cmd, counters>>

(* The command is killed, or the power goes and the unit starts again with *)
(* the device.  A .restore- folder stays in the target with what it holds, *)
(* and a folder prune was at with what was not removed yet.                *)
InRestore == cmd.pc \in {"move", "copy", "undo", "return"}

Interrupted ==
  /\ ~At("idle")
  /\ interrupts < MaxInterrupts
  /\ interrupts' = interrupts + 1
  /\ tree' = IF InRestore THEN tree \cup {Stray} ELSE tree
  /\ aside' = {}
  /\ \/ UNCHANGED kept
     \/ \E n \in cmd.doomed : kept' = [kept EXCEPT ![n] = Ruin]
  /\ Abandon("interrupted")
  /\ \/ UNCHANGED running
     \/ unit # {} /\ unit' = tree' /\ missed' = FALSE
  /\ UNCHANGED <<state, found, commands>>

Next ==
  \/ \E p \in Programs : StartInstall(p) \/ InstallOff(p)
  \/ Begin
  \/ Installer
  \/ Settle
  \/ Restore
  \/ Back
  \/ UnitStarts
  \/ UnitStops
  \/ Interrupted

Spec == Init /\ [][Next]_vars

-----------------------------------------------------------------------------
(* Safety *)

Entries == {state.current, state.previous, state.pending}

(* What state.json names is kept, and is what its digest says: no prune    *)
(* removes it, no release that gets a freed number replaces it, and no     *)
(* interruption leaves an entry without its folder (deploy_tree.py         *)
(* keep_copy, deploy_release.py prune, next_release_name).                 *)
NamedIsKept ==
  \A entry \in Entries :
    entry.release # 0 => /\ kept[entry.release] = entry.sha
                         /\ entry.sha # {}

(* A deployment that ends by going back leaves in the target exactly what  *)
(* was there when it began, and the state says so: whatever was installed  *)
(* outside the contract or half copied before counts as what was there     *)
(* (deploy_tree.py settle, the way back).  A target that was empty has     *)
(* nothing to come back to but the release the state still names.          *)
BackMeansBack ==
  (At("idle") /\ cmd.result = "rolled_back" /\ found # {})
    => tree = found /\ state.current.sha = found

(* After a command that kept, restored or went back, the release the state *)
(* calls current is what the target holds (deploy_tree.py settle and       *)
(* rollback: the copy, the restore and the write of the state agree).      *)
CurrentIsInstalled ==
  (At("idle") /\ cmd.result \in {"deployed", "installed", "not_held",
                                 "rolled_back", "went_back", "not_healthy"})
    => tree = state.current.sha

(* While every command runs under the contract to its end and no file      *)
(* operation fails, a unit that runs afterwards runs the program that is   *)
(* in the target: after a new program, the same one, a way back and a      *)
(* rollback alike, wherever the unit stopped or started in between, unless *)
(* the last restart it should have had did not reach it: the restart       *)
(* command failed and the unit ran on, or is-active did not answer and no  *)
(* restart was asked for.  The next restart or start ends that.  A command *)
(* that says "deployed" has no such exception, whatever happened before    *)
(* (deploy_tree.py settle and rollback: who restarts, and when).           *)
RunsWhatIsInstalled ==
  At("idle") /\ unit # {} =>
    /\ orderly /\ RestartOnDeploy => unit = tree \/ missed
    /\ cmd.result = "deployed" => unit = tree

-----------------------------------------------------------------------------
(* The inductive invariant: what a command knows at each of its places     *)

Settling == {"look", "health", "failed"}
Restoring == {"move", "copy", "undo", "return", "back"}

(* What the command remembers outside the state is kept as well. *)
RememberedIsKept ==
  /\ At("write") \/ At("remember")
       => /\ cmd.entry.release # 0
          /\ cmd.entry.sha = tree
          /\ tree # {}
          /\ kept[cmd.entry.release] = tree
  /\ cmd.pc \in Settling \cup Restoring /\ cmd.before.release # 0
                                       /\ cmd.flow = "install"
       => kept[cmd.before.release] = cmd.before.sha /\ cmd.before.sha # {}

(* From begin to settle the state is pending on what was found. *)
PendingIsFound ==
  /\ cmd.pc \in {"begin", "remember"} => tree = found
  /\ cmd.pc \in {"copying", "settle", "write"}
       => IF found = {} THEN state.pending.release = 0
          ELSE state.pending.release # 0 /\ state.pending.sha = found
  /\ At("settle") => tree # {}
  /\ cmd.pc \in Settling \cup {"begin", "remember", "copying", "settle", "write"}
       => cmd.flow = "install"

(* settle wrote the new release and, before it, the one to go back to. *)
InUseIsPrevious ==
  /\ cmd.pc \in Settling \cup {"prune"} => state.current.sha = tree
  /\ cmd.pc \in Settling \cup Restoring => state.previous = cmd.inUse
  /\ cmd.pc \in Settling \cup {"prune"} => state.pending = None
  /\ cmd.pc \in Restoring => cmd.inUse.release # 0
  /\ cmd.pc \in Settling \cup Restoring \cup {"again"} /\ cmd.flow = "install"
                                                      /\ found # {}
       => cmd.inUse.sha = found

(* A restore builds the release from nothing and then writes it down. *)
RestoreBuilds ==
  /\ At("copy") => tree \subseteq cmd.inUse.sha
  /\ At("back") => tree = cmd.inUse.sha
  /\ At("again") => state.current = cmd.inUse /\ tree = cmd.inUse.sha

(* Prune comes last and removes folders that nobody names. *)
DoomedIsUnnamed ==
  /\ At("prune") => cmd.result \in {"installed", "deployed"}
  /\ ~At("prune") => cmd.doomed = {}
  /\ cmd.doomed \subseteq Folders \ Protected

(* An installer that changed anything left an entry that was not found, so *)
(* a target that is the same at settle was never another one.              *)
SameWasNeverOther ==
  cmd.pc \in {"copying", "settle"}
    => \/ tree = found
       \/ \E part \in Parts : <<part, cmd.want>> \in tree \ found

(* What the unit runs is known wherever nothing changes the target. *)
UnitKnown == unit \in {{}, tree}
UnitFollows ==
  /\ At("health") => UnitKnown
  /\ cmd.result = "deployed" /\ cmd.pc \in {"idle", "prune"} => UnitKnown
  /\ orderly /\ RestartOnDeploy /\ ~missed
       => /\ cmd.pc \in {"idle", "begin", "remember", "prune", "failed"}
               => UnitKnown
          /\ cmd.pc \in {"copying", "settle"} /\ tree = found => UnitKnown

Safety ==
  /\ NamedIsKept
  /\ RememberedIsKept
  /\ PendingIsFound
  /\ InUseIsPrevious
  /\ RestoreBuilds
  /\ DoomedIsUnnamed
  /\ SameWasNeverOther
  /\ BackMeansBack
  /\ CurrentIsInstalled
  /\ UnitFollows
  /\ RunsWhatIsInstalled

IInv == TypeOK /\ Safety

-----------------------------------------------------------------------------
(* The releases and state.json, seen without the target *)

(* The release settle will write back as `previous` if it goes back. *)
OnTrial == cmd.flow = "install" /\ cmd.pc \in Settling \cup Restoring

Store == INSTANCE ReleaseState WITH
  Names <- Releases,
  Null <- 0,
  folders <- Folders,
  current <- state.current.release,
  previous <- state.previous.release,
  trial <- [on |-> OnTrial,
            earlier |-> IF OnTrial THEN cmd.before.release ELSE 0]

(* Whatever is installed, fails, goes back, is pruned or interrupted, the  *)
(* releases and the two names of state.json follow the protocol of         *)
(* ReleaseState: this tool and deploy_release.py keep the same promises    *)
(* (deploy_tree.py settle and rollback, deploy_release.py prune).          *)
FollowsProtocol == Store!StoreSpec

-----------------------------------------------------------------------------
(* What a docstring or the contract says and the code does not keep *)

(* restore: "What is in the target now moves aside first and comes back if *)
(* the copy fails" (deploy_tree.py).                                       *)
FailedRestoreGivesBack ==
  (At("idle") /\ cmd.result = "not_restored") => tree = state.current.sha

(* DEPLOY_CONTRACT.md: when it does not hold "the earlier program is put   *)
(* back in the target": not half of one while a whole one is kept.         *)
EarlierProgramIsPutBack ==
  (At("idle") /\ cmd.result = "rolled_back"
     /\ \E n \in Releases \ {cmd.entry.release} :
          \E p \in Programs : kept[n] = Whole(p))
    => \E p \in Programs : tree = Whole(p)

(* DEPLOY_CONTRACT.md: "the unit is restarted on it" when the program that *)
(* was put back is in the target.                                          *)
UnitIsRestartedOnIt ==
  (At("idle") /\ cmd.result = "rolled_back") => unit = tree

(* deploy_tree.py: "If the program is the same one, nothing else happens": *)
(* a unit that runs a program then runs the one in the target.             *)
UnchangedNeedsNothing ==
  (At("idle") /\ cmd.result = "unchanged"
     /\ \E p \in Programs : unit = Whole(p))
    => unit = tree
=============================================================================
