--------------------------- MODULE DeployRelease ---------------------------
(***************************************************************************)
(* tools/deploy_release.py: a device installs the signed packages of one   *)
(* component as numbered releases, switches to them, checks them and goes  *)
(* back, while tools/package_component.py packs and publishes (Packages).  *)
(*                                                                         *)
(* One command runs at a time on the device.  A release is named by its    *)
(* version and a number.  What the unit runs is what the last restart      *)
(* command was told: the commands themselves are settings, run without a   *)
(* shell, and fail or not.                                                 *)
(***************************************************************************)
EXTENDS Packages, DeploySettings

CONSTANTS MaxCopies,    \* bound: the numbers of one version
          MaxCommands   \* bound: commands on the device

ASSUME DeviceAssumption ==
  /\ MaxCopies \in Nat \ {0} /\ MaxCommands \in Nat

VARIABLES
  folders,   \* releases/: what each name holds, Missing = no folder, Torn =
             \* what a removal that stopped half-way left
  state,     \* state.json: the current and the previous release
  link,      \* the name `current` links to, None = no link
  told,      \* the release the last restart command was told, None = none
  cmd,       \* the command: its place and its local variables
  checked,   \* the releases whose restart and health check passed (history)
  commands

device == <<folders, state, link, told, cmd, checked, commands>>
vars == <<packing, device>>

Names == Versions \X (1 .. MaxCopies)
None == <<0, 0>>
Pair == [current : Names \cup {None}, previous : Names \cup {None}]
Ends == {"none", "running", "refused", "installed", "back", "rolled", "sick",
         "pruned"}
Command ==
  [pc : {"idle", "extract", "write", "link", "restart", "health", "undo",
         "relink", "again", "prune", "remove"},
   flow : {"install", "rollback", "prune"}, new : Names \cup {None},
   bytes : Bytes, found : Pair, doomed : SUBSET Names, end : Ends,
   clean : BOOLEAN]

DeviceTypeOK ==
  /\ folders \in [Names -> Bytes]
  /\ state \in Pair
  /\ link \in Names \cup {None} /\ told \in Names \cup {None}
  /\ cmd \in Command
  /\ checked \subseteq Names
  /\ commands \in 0 .. MaxCommands

Init ==
  /\ PackingInit
  /\ folders = [n \in Names |-> Missing]
  /\ state = [current |-> None, previous |-> None]
  /\ link = None /\ told = None
  /\ cmd = [pc |-> "idle", flow |-> "install", new |-> None,
            bytes |-> Missing, found |-> state, doomed |-> {},
            end |-> "none", clean |-> TRUE]
  /\ checked = {} /\ commands = 0

At(place) == cmd.pc = place
Goto(place) == cmd' = [cmd EXCEPT !.pc = place]
End(result) == cmd' = [cmd EXCEPT !.pc = "idle", !.end = result]
Folders == {n \in Names : folders[n] # Missing}

(* next_release_name: the first number of the version without a folder.    *)
NextName(v, n) ==
  /\ n[1] = v /\ n \notin Folders
  /\ \A k \in 1 .. n[2] - 1 : <<v, k>> \in Folders

(* The version is refused unless it is newer than the one in use; the      *)
(* package is refused unless it verifies.  The file the operator names     *)
(* `v` may be the one published as `w`.                                    *)
Acceptable(v, f, allow) ==
  Verified(v, f) /\ (state.current # None => allow \/ v > state.current[1])

StartInstall(v, w, allow) ==
  /\ At("idle") /\ commands < MaxCommands
  /\ commands' = commands + 1
  /\ assets[w].bytes # Missing
  /\ IF Acceptable(v, assets[w], allow)
     THEN \E n \in Names :
            /\ NextName(v, n)
            /\ cmd' = [pc |-> "extract", flow |-> "install", new |-> n,
                       bytes |-> assets[w].bytes, found |-> state,
                       doomed |-> {}, end |-> "running", clean |-> cmd.clean]
     ELSE cmd' = [cmd EXCEPT !.end = "refused", !.found = state]
  /\ UNCHANGED <<packing, folders, state, link, told, checked>>

(* Extracted aside and renamed: the folder is whole or not there.          *)
Extract ==
  /\ At("extract")
  /\ \/ folders' = [folders EXCEPT ![cmd.new] = cmd.bytes] /\ Goto("write")
     \/ UNCHANGED folders /\ End("refused")
  /\ UNCHANGED <<packing, state, link, told, checked, commands>>

Switch ==
  /\ At("write")
  /\ state' = [current |-> cmd.new, previous |-> cmd.found.current]
  /\ Goto("link")
  /\ UNCHANGED <<packing, folders, link, told, checked, commands>>

(* point_link; a host that cannot make links goes on without.              *)
PointLink ==
  /\ At("link")
  /\ \/ link' = cmd.new /\ Goto("restart")
     \/ cmd' = [cmd EXCEPT !.pc = "restart", !.clean = FALSE]
        /\ UNCHANGED link
  /\ UNCHANGED <<packing, folders, state, told, checked, commands>>

(* Mutant: nothing goes back. *)
StaysAnyway == End("sick")

(* run_command; after a restart that failed an installation goes back and  *)
(* a rollback stays.                                                       *)
NotHealthy ==
  IF cmd.flow = "install" THEN Goto("undo") ELSE End("sick")

Restart ==
  /\ At("restart")
  /\ told' = cmd.new
  /\ Goto("health") \/ NotHealthy
  /\ UNCHANGED <<packing, folders, state, link, checked, commands>>

(* wait_healthy *)
Health ==
  /\ At("health")
  /\ \/ /\ checked' = checked \cup {cmd.new}
        /\ IF cmd.flow = "install" THEN Goto("prune") ELSE End("rolled")
     \/ NotHealthy /\ UNCHANGED checked
  /\ UNCHANGED <<packing, folders, state, link, told, commands>>

(* Mutant: the way back forgets the release before the one in use.         *)
UndoSwaps ==
  /\ At("undo")
  /\ state' = [current |-> cmd.found.current, previous |-> cmd.new]
  /\ Goto("relink")
  /\ UNCHANGED <<packing, folders, link, told, checked, commands>>

Undo ==
  /\ At("undo")
  /\ state' = cmd.found
  /\ Goto("relink")
  /\ UNCHANGED <<packing, folders, link, told, checked, commands>>

Relink ==
  /\ At("relink")
  /\ \/ link' = cmd.found.current /\ Goto("again")
     \/ /\ cmd.found.current # None
        /\ cmd' = [cmd EXCEPT !.pc = "again", !.clean = FALSE]
        /\ UNCHANGED link
  /\ UNCHANGED <<packing, folders, state, told, checked, commands>>

(* Mutant: the second restart is told the release that failed.             *)
AgainTheSame ==
  /\ At("again")
  /\ told' = cmd.new
  /\ End("back")
  /\ UNCHANGED <<packing, folders, state, link, checked, commands>>

(* Nobody looks at how the second restart ends.                            *)
Again ==
  /\ At("again")
  /\ told' = cmd.found.current
  /\ End("back")
  /\ UNCHANGED <<packing, folders, state, link, checked, commands>>

StartRollback ==
  /\ At("idle") /\ commands < MaxCommands
  /\ state.previous \in Folders
  /\ commands' = commands + 1
  /\ cmd' = [cmd EXCEPT !.pc = "link", !.flow = "rollback",
                        !.new = state.previous, !.found = state,
                        !.end = "running"]
  /\ state' = [current |-> state.previous, previous |-> state.current]
  /\ UNCHANGED <<packing, folders, link, told, checked>>

(* Mutant: only the release in use is protected. *)
OnlyCurrent == {state.current} \ {None}

(* prune: whatever order the clock gives the folders, the ones the state   *)
(* names stay; of the others those beyond the room go.                     *)
Protected == {state.current, state.previous} \ {None}
Excess(keep) ==
  LET held == Cardinality(Protected)
      room == IF keep > held THEN keep ELSE held
  IN  {Folders \ (newest \cup Protected) :
         newest \in {some \in SUBSET Folders :
                      \/ Cardinality(some) = room
                      \/ some = Folders /\ Cardinality(Folders) <= room}}

Prune ==
  /\ At("prune")
  /\ \E doomed \in Excess(ReleaseKeep) :
       cmd' = [cmd EXCEPT !.pc = "remove", !.doomed = doomed]
  /\ UNCHANGED <<packing, folders, state, link, told, checked, commands>>

PruneCommand(keep) ==
  /\ At("idle") /\ commands < MaxCommands
  /\ commands' = commands + 1
  /\ \E doomed \in Excess(IF keep < 2 THEN 2 ELSE keep) :
       cmd' = [cmd EXCEPT !.pc = "remove", !.flow = "prune",
                          !.doomed = doomed, !.end = "running"]
  /\ UNCHANGED <<packing, folders, state, link, told, checked>>

(* One folder after the other; rmtree ignores its errors, so a folder may  *)
(* stay, whole or in part.                                                 *)
RemoveFolder(n) ==
  /\ At("remove") /\ n \in cmd.doomed
  /\ \E rest \in {Missing, Torn, folders[n]} :
       folders' = [folders EXCEPT ![n] = rest]
  /\ checked' = checked \ {n}
  /\ cmd' = [cmd EXCEPT !.doomed = cmd.doomed \ {n}]
  /\ UNCHANGED <<packing, state, link, told, commands>>

RemoveEnds ==
  /\ At("remove") /\ cmd.doomed = {}
  /\ End(IF cmd.flow = "install" THEN "installed" ELSE "pruned")
  /\ UNCHANGED <<packing, folders, state, link, told, checked, commands>>

(* Killed, or the power goes: also in the middle of removing a folder.     *)
DeviceStops ==
  /\ ~At("idle") /\ stops < MaxStops
  /\ stops' = stops + 1
  /\ cmd' = [cmd EXCEPT !.pc = "idle", !.end = "none", !.doomed = {},
                        !.clean = FALSE]
  /\ \/ UNCHANGED folders
     \/ \E n \in cmd.doomed : folders' = [folders EXCEPT ![n] = Torn]
  /\ UNCHANGED <<out, assets, job, packed, packs, state, link, told, checked,
                 commands>>

DeviceNext ==
  \/ \E v, w \in Versions, allow \in {AllowDowngrade, TRUE} : StartInstall(v, w, allow)
  \/ Extract \/ Switch \/ PointLink \/ Restart \/ Health
  \/ Undo \/ Relink \/ Again
  \/ StartRollback
  \/ Prune
  \/ \E keep \in {1, ReleaseKeep} : PruneCommand(keep)
  \/ \E n \in Names : RemoveFolder(n)
  \/ RemoveEnds
  \/ DeviceStops

Next == (PackingNext /\ UNCHANGED device) \/ DeviceNext

Spec == Init /\ [][Next]_vars

-----------------------------------------------------------------------------
(* Safety *)

InUse == {state.current, state.previous} \ {None}

(* What state.json names is a whole release, packed under the very version *)
(* of its name, and so is what any other folder holds, but for folders the *)
(* state does not name that prune began to remove and left in part:        *)
(* neither a stopped packing, a half-done upload, a renamed file, a        *)
(* stopped extraction nor a stopped or failing prune can make it otherwise *)
(* (package_component.py verify_package, deploy_release install,           *)
(* next_release_name, prune).                                              *)
ReleasesAreSound ==
  /\ PackingTypeOK /\ DeviceTypeOK
  /\ InUse \subseteq Folders
  /\ \A n \in Folders :
       \/ <<n[1], folders[n]>> \in packed /\ folders[n] \notin OffLayout
       \/ folders[n] = Torn /\ n \notin InUse

(* While no command is stopped, the two releases the state names once      *)
(* passed their check: installations that fail, rollbacks that stay and    *)
(* prunes in any order never leave a way back that was never seen to hold  *)
(* (deploy_release.py install and rollback).                               *)
WayBackWasChecked == (At("idle") /\ stops = 0) => InUse \subseteq checked

(* An installation that did not hold leaves the state exactly as it was    *)
(* found, the release before the one in use included.                      *)
FailedInstallChangesNothing == (cmd.end = "back") => state = cmd.found

(* While no command is stopped and links can be made, the link names the   *)
(* release in use and the last restart command was told that release       *)
(* (deploy_release.py install and rollback: the order of state, link and   *)
(* restart on every way out).                                              *)
LinkAndUnitFollow ==
  (At("idle") /\ cmd.clean) => link = state.current /\ told = state.current

-----------------------------------------------------------------------------
(* The protocol it shares with deploy_tree.py *)

OnTrial == cmd.flow = "install" /\ cmd.pc \in {"link", "restart", "health",
                                               "undo", "prune"}
Store == INSTANCE ReleaseState WITH
  Names <- Names,
  Null <- None,
  folders <- Folders,
  current <- state.current,
  previous <- state.previous,
  trial <- [on |-> OnTrial,
            earlier |-> IF OnTrial THEN cmd.found.previous ELSE None]

(* Every change of the folders and of the two names is one the protocol of *)
(* ReleaseState allows.                                                    *)
FollowsProtocol == Store!StoreSpec
=============================================================================
