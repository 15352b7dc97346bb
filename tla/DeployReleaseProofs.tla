------------------------ MODULE DeployReleaseProofs ------------------------
(***************************************************************************)
(* The safety properties of DeployRelease, and that it keeps the protocol  *)
(* of ReleaseState, for all versions, builds, settings and bounds.         *)
(*                                                                         *)
(* IInv is inductive.  Its first part is about the packing program alone;  *)
(* the second says what an installation and a rollback know at each of     *)
(* their places.                                                           *)
(***************************************************************************)
EXTENDS DeployRelease, TLAPS

\* Whatever deploy.json holds, room is left for two releases at least, the
\* one in use and the one to go back to (load_settings and _number of
\* deploy_release.py, load_settings of deploy_tree.py).
THEOREM KeepsTwoOrMore == ReleaseKeep \in 2 .. 100 /\ TreeKeep \in 2 .. 100
<1>1. ReleaseKeep \in 2 .. 100
  BY FileAssumption DEF ReleaseKeep, Usable, Other
<1> QED
  BY <1>1 DEF TreeKeep

-----------------------------------------------------------------------------
(* The packing program *)

(* Only whole packages are signed to any effect: a signature over a build  *)
(* is one of a package that was written under that version.                *)
Vouched(sig) == sig[2] \in Builds => sig \in packed

SignedWasPacked ==
  /\ job.pc = "write" => job.build \in Builds
  /\ \A v \in Versions :
       /\ Vouched(<<v, out[v].bytes>>)
       /\ Vouched(out[v].sig)
       /\ Vouched(assets[v].sig)

PackingInv == PackingTypeOK /\ SignedWasPacked

(* The packing program signs what it packed, and forgets none of it.       *)
LEMMA PackingStep ==
  ASSUME PackingInv, PackingNext
  PROVE  PackingInv' /\ packed \subseteq packed'
<1> DEFINE Kept == PackingInv' /\ packed \subseteq packed'
<1>a. /\ Missing \in Bytes /\ Torn \in Bytes /\ Builds \subseteq Bytes
      /\ Missing \notin Builds /\ Torn \notin Builds
  BY PackagesAssumption DEF Bytes
<1>b. \A v \in Versions, b \in Bytes :
        <<v, b>> \in (Versions \X Bytes) \cup {NoSignature}
  OBVIOUS
<1>c. /\ out \in [Versions -> Package] /\ assets \in [Versions -> Package]
      /\ job.version \in Versions
      /\ \A v \in Versions : out[v] \in Package /\ assets[v] \in Package
  BY DEF PackingInv, PackingTypeOK
<1>1. ASSUME NEW v \in Versions, NEW b \in Builds,
             NEW t \in {"pack", "sign", "publish"}, Build(v, b, t)
      PROVE  Kept
  <2>1. out' = [out EXCEPT ![v] = [out[v] EXCEPT !.bytes = Torn]]
    BY <1>1 DEF Build
  <2>2. [out[v] EXCEPT !.bytes = Torn] \in Package
    BY <1>a, <1>c DEF Package
  <2>3. PackingTypeOK'
    BY <1>1, <1>a, <1>c, <2>1, <2>2, PackagesAssumption
       DEF Build, PackingInv, PackingTypeOK
  <2>4. SignedWasPacked'
    BY <1>1, <1>a, <1>c, <2>1
       DEF Build, PackingInv, SignedWasPacked, Vouched, Package
  <2> QED
    BY <1>1, <2>3, <2>4 DEF Build, PackingInv
<1>2. CASE BuildWritten
  <2>1. out' = [out EXCEPT ![job.version] =
                  [out[job.version] EXCEPT !.bytes = job.build]]
    BY <1>2 DEF BuildWritten, Write
  <2>2. job.build \in Builds
    BY <1>2 DEF BuildWritten, PackingInv, SignedWasPacked
  <2>3. [out[job.version] EXCEPT !.bytes = job.build] \in Package
    BY <1>a, <1>c, <2>2 DEF Package
  <2>4. PackingTypeOK'
    BY <1>2, <1>a, <1>c, <2>1, <2>2, <2>3
       DEF BuildWritten, PackingInv, PackingTypeOK, Step
  <2>5. SignedWasPacked'
    <3>1. job'.pc = "hash"
      BY <1>2 DEF BuildWritten, Step, PackingInv, PackingTypeOK
    <3>2. /\ \A w \in Versions : out'[w].sig = out[w].sig
          /\ \A w \in Versions : \/ out'[w].bytes = out[w].bytes
                                 \/ w = job.version /\ out'[w].bytes = job.build
      BY <1>c, <2>1 DEF Package
    <3>3. packed' = packed \cup {<<job.version, job.build>>} /\ assets' = assets
      BY <1>2 DEF BuildWritten
    <3> QED
      BY <3>1, <3>2, <3>3 DEF PackingInv, SignedWasPacked, Vouched
  <2> QED
    BY <1>2, <2>4, <2>5 DEF BuildWritten, PackingInv
<1>3. CASE BuildHashed
  <2>1. out' = [out EXCEPT ![job.version] =
                  [out[job.version] EXCEPT !.sha = out[job.version].bytes]]
    BY <1>3 DEF BuildHashed, Write, Mine
  <2>2. [out[job.version] EXCEPT !.sha = out[job.version].bytes] \in Package
    BY <1>c DEF Package
  <2>3. PackingTypeOK'
    BY <1>3, <1>c, <2>1, <2>2 DEF BuildHashed, PackingInv, PackingTypeOK, Step
  <2>4. SignedWasPacked'
    BY <1>3, <1>c, <2>1
       DEF BuildHashed, PackingInv, SignedWasPacked, Vouched, Package, Step
  <2> QED
    BY <1>3, <2>3, <2>4 DEF BuildHashed, PackingInv
<1>4. ASSUME NEW v \in Versions, SignCommand(v)
      PROVE  Kept
  <2>1. PackingTypeOK'
    <3>1. job' \in [pc : {"sign"}, version : Versions,
                   build : Builds \cup {Missing}, then : {"sign"},
                   left : SUBSET Files]
      BY <1>4 DEF SignCommand, PackingInv, PackingTypeOK
    <3>2. packs' \in 0 .. MaxPacks
      BY <1>4, PackagesAssumption DEF SignCommand, PackingInv, PackingTypeOK
    <3> QED
      BY <1>4, <3>1, <3>2 DEF SignCommand, PackingInv, PackingTypeOK
  <2>2. SignedWasPacked'
    BY <1>4 DEF SignCommand, PackingInv, SignedWasPacked, Vouched, PackingTypeOK
  <2> QED
    BY <1>4, <2>1, <2>2 DEF SignCommand, PackingInv
<1>5. CASE Sign
  <2> DEFINE signature == <<job.version, out[job.version].bytes>>
  <2>1. CASE Mine.sha \in {Missing, Mine.bytes}
    <3>1. out' = [out EXCEPT ![job.version] =
                    [out[job.version] EXCEPT !.sig = signature]]
      BY <1>5, <2>1 DEF Sign, Write, Mine
    <3>2. [out[job.version] EXCEPT !.sig = signature] \in Package
      BY <1>c DEF Package
    <3>3. PackingTypeOK'
      BY <1>5, <1>c, <2>1, <3>1, <3>2 DEF Sign, PackingInv, PackingTypeOK, Step
    <3>4. SignedWasPacked'
      <4>1. job'.pc \in {"check", "idle"} /\ packed' = packed /\ assets' = assets
        BY <1>5, <2>1 DEF Sign, Step, PackingInv, PackingTypeOK
      <4>2. /\ \A w \in Versions : out'[w].bytes = out[w].bytes
            /\ \A w \in Versions : \/ out'[w].sig = out[w].sig
                                   \/ out'[w].sig = <<w, out[w].bytes>>
        BY <1>c, <3>1 DEF Package
      <4> QED
        BY <4>1, <4>2 DEF PackingInv, SignedWasPacked, Vouched
    <3> QED
      BY <1>5, <3>3, <3>4 DEF Sign, PackingInv
  <2>2. CASE Mine.sha \notin {Missing, Mine.bytes}
    <3>1. PackingTypeOK'
      BY <1>5, <2>2 DEF Sign, PackingInv, PackingTypeOK, Step
    <3>2. SignedWasPacked'
      BY <1>5, <2>2 DEF Sign, PackingInv, SignedWasPacked, Vouched, Step, PackingTypeOK
    <3> QED
      BY <1>5, <3>1, <3>2 DEF Sign, PackingInv
  <2> QED
    BY <2>1, <2>2
<1>6. CASE PublishChecks
  <2>1. PackingTypeOK'
    BY <1>6 DEF PublishChecks, PackingInv, PackingTypeOK
  <2>2. SignedWasPacked'
    BY <1>6 DEF PublishChecks, PackingInv, SignedWasPacked, Vouched, PackingTypeOK
  <2> QED
    BY <1>6, <2>1, <2>2 DEF PublishChecks, PackingInv
<1>7. ASSUME NEW file \in Files, Upload(file)
      PROVE  Kept
  <2> DEFINE v == job.version
  <2>1. \/ assets' = [assets EXCEPT ![v] = [assets[v] EXCEPT !.bytes = out[v].bytes]]
        \/ assets' = [assets EXCEPT ![v] = [assets[v] EXCEPT !.sha = out[v].sha]]
        \/ assets' = [assets EXCEPT ![v] = [assets[v] EXCEPT !.sig = out[v].sig]]
    BY <1>7 DEF Upload, Files, Mine
  <2>2. /\ [assets[v] EXCEPT !.bytes = out[v].bytes] \in Package
        /\ [assets[v] EXCEPT !.sha = out[v].sha] \in Package
        /\ [assets[v] EXCEPT !.sig = out[v].sig] \in Package
    BY <1>c DEF Package
  <2>3. assets' \in [Versions -> Package]
    BY <1>c, <2>1, <2>2
  <2>4. /\ job' \in [pc : {"idle", "write", "hash", "sign", "check", "upload"},
                     version : Versions, build : Builds \cup {Missing},
                     then : {"pack", "sign", "publish"}, left : SUBSET Files]
        /\ job'.pc # "write"
    BY <1>7 DEF Upload, PackingInv, PackingTypeOK
  <2>5. PackingTypeOK'
    BY <1>7, <2>3, <2>4 DEF Upload, PackingInv, PackingTypeOK
  <2>6. \A w \in Versions : assets'[w].sig \in {assets[w].sig, out[w].sig}
    BY <1>c, <2>1 DEF Package
  <2>7. SignedWasPacked'
    <3>1. out' = out /\ packed' = packed
      BY <1>7 DEF Upload
    <3> QED
      BY <2>4, <2>6, <3>1 DEF PackingInv, SignedWasPacked, Vouched
  <2> QED
    BY <1>7, <2>5, <2>7 DEF Upload, PackingInv
<1>8. CASE PackingStops
  <2>1. PackingTypeOK'
    BY <1>8, PackagesAssumption DEF PackingStops, PackingInv, PackingTypeOK, Step
  <2>2. SignedWasPacked'
    BY <1>8 DEF PackingStops, PackingInv, SignedWasPacked, Vouched, Step, PackingTypeOK
  <2> QED
    BY <1>8, <2>1, <2>2 DEF PackingStops, PackingInv
<1> QED
  BY <1>1, <1>2, <1>3, <1>4, <1>5, <1>6, <1>7, <1>8 DEF PackingNext

-----------------------------------------------------------------------------
(* The device *)

Coming == {"extract", "write"}                      \* not named yet
Trying == {"link", "restart", "health"}             \* named by the state
Left(names) == names \ {None}

(* What is in a folder was packed under the version of its name, and what  *)
(* the command is about to extract too.                                    *)
Sound(n, bytes) == <<n[1], bytes>> \in packed /\ bytes \notin OffLayout

FoldersSound ==
  /\ InUse \subseteq Folders
  /\ \A n \in Folders : \/ Sound(n, folders[n])
                        \/ folders[n] = Torn /\ n \notin InUse

InstallKnows ==
  /\ cmd.pc \in Coming \cup {"undo", "prune"} => cmd.flow = "install"
  /\ cmd.pc \in Coming => cmd.found = state
  /\ At("extract") => cmd.new \in Names \ Folders /\ Sound(cmd.new, cmd.bytes)
  /\ At("write") => cmd.new \in Folders /\ Sound(cmd.new, folders[cmd.new])
  /\ cmd.pc \in Trying => cmd.new = state.current /\ cmd.new # None

(* While a release is on trial the state has it before the one that was in *)
(* use, and the release before that one is still there, whole, to come     *)
(* back to.                                                                *)
TrialKnows ==
  OnTrial => /\ state = [current |-> cmd.new, previous |-> cmd.found.current]
             /\ \A n \in Left({cmd.found.previous}) :
                  n \in Folders /\ Sound(n, folders[n])

(* Only a prune has folders to remove, and the state names none of them.   *)
PruneKnows ==
  /\ cmd.doomed \subseteq Folders \ InUse
  /\ ~At("remove") => cmd.doomed = {}

BackIsFound ==
  /\ cmd.pc \in {"relink", "again"} => state = cmd.found
  /\ cmd.end = "back" => At("idle") /\ state = cmd.found

DeviceInv ==
  /\ DeviceTypeOK
  /\ FoldersSound
  /\ InstallKnows
  /\ TrialKnows
  /\ PruneKnows
  /\ BackIsFound

(* "No release" is not the name of one.                                    *)
LEMMA NoneIsNoName == None \notin Names
  BY PackagesAssumption DEF None, Names

(* prune chooses among the folders, and never one the state names.         *)
LEMMA ExcessIsUnnamed ==
  ASSUME NEW keep, NEW doomed \in Excess(keep)
  PROVE  doomed \subseteq Folders \ InUse
  BY DEF Excess, Protected, InUse

(* Removing a folder, whole or in part, changes no other one.              *)
LEMMA RemovedAlone ==
  ASSUME DeviceInv, NEW n \in Names, RemoveFolder(n)
  PROVE  /\ UNCHANGED state /\ n \in Folders \ InUse
         /\ \A m \in Names \ {n} : folders'[m] = folders[m]
         /\ folders'[n] \in {Missing, Torn, folders[n]}
         /\ Folders' \subseteq Folders /\ Folders \ {n} \subseteq Folders'
<1>1. folders \in [Names -> Bytes] /\ cmd.doomed \subseteq Folders \ InUse
  BY DEF DeviceInv, DeviceTypeOK, PruneKnows
<1>2. PICK rest \in {Missing, Torn, folders[n]} :
        folders' = [folders EXCEPT ![n] = rest]
  BY DEF RemoveFolder
<1>3. UNCHANGED state /\ n \in Folders \ InUse
  BY <1>1 DEF RemoveFolder
<1> QED
  BY <1>1, <1>2, <1>3 DEF Folders

(* A stop leaves the folders as they are, but for one prune had chosen.    *)
LEMMA StopTears ==
  ASSUME DeviceInv, DeviceStops
  PROVE  /\ folders' \in [Names -> Bytes] /\ Folders' = Folders
         /\ \A n \in Names : \/ folders'[n] = folders[n]
                             \/ folders'[n] = Torn /\ n \in cmd.doomed
<1>1. folders \in [Names -> Bytes] /\ cmd.doomed \subseteq Folders
  BY DEF DeviceInv, DeviceTypeOK, PruneKnows
<1>2. Torn \in Bytes /\ Torn # Missing
  BY DEF Bytes, Torn, Missing
<1>3. CASE UNCHANGED folders
  BY <1>1, <1>3 DEF Folders
<1>4. CASE \E n \in cmd.doomed : folders' = [folders EXCEPT ![n] = Torn]
  <2>1. PICK n \in cmd.doomed : folders' = [folders EXCEPT ![n] = Torn]
    BY <1>4
  <2> QED
    BY <1>1, <1>2, <2>1 DEF Folders
<1> QED
  BY <1>3, <1>4 DEF DeviceStops

(* Every step of an installation, a rollback or a prune keeps the types.   *)
LEMMA DeviceType ==
  ASSUME DeviceInv, PackingTypeOK, DeviceNext
  PROVE  DeviceTypeOK'
<1> USE DeviceAssumption, PackagesAssumption
<1>a. Missing \in Bytes /\ Builds \subseteq Bytes
  BY DEF Bytes
<1>b. /\ cmd \in Command /\ state \in Pair /\ folders \in [Names -> Bytes]
      /\ link \in Names \cup {None} /\ told \in Names \cup {None}
      /\ checked \subseteq Names /\ commands \in 0 .. MaxCommands
  BY DEF DeviceInv, DeviceTypeOK
<1>c. ASSUME cmd' \in Command, state' \in Pair, folders' \in [Names -> Bytes],
             link' \in Names \cup {None}, told' \in Names \cup {None},
             checked' \subseteq Names, commands' \in 0 .. MaxCommands
      PROVE  DeviceTypeOK'
  BY <1>c DEF DeviceTypeOK
<1>1. ASSUME NEW v \in Versions, NEW w \in Versions,
             NEW allow \in {AllowDowngrade, TRUE},
             StartInstall(v, w, allow)
      PROVE  DeviceTypeOK'
  <2>1. assets[w].bytes \in Bytes
    BY DEF PackingTypeOK, Package
  <2>2. cmd' \in Command
    <3>1. CASE Acceptable(v, assets[w], allow)
      <4>1. PICK n \in Names :
              cmd' = [pc |-> "extract", flow |-> "install", new |-> n,
                      bytes |-> assets[w].bytes, found |-> state,
                      doomed |-> {}, end |-> "running", clean |-> cmd.clean]
        BY <1>1, <3>1 DEF StartInstall
      <4> QED
        BY <1>b, <2>1, <4>1 DEF Ends, Command
    <3>2. CASE ~Acceptable(v, assets[w], allow)
      <4>1. cmd' = [cmd EXCEPT !.end = "refused", !.found = state]
        BY <1>1, <3>2 DEF StartInstall
      <4> QED
        BY <1>b, <4>1 DEF Ends, Command
    <3> QED
      BY <3>1, <3>2
  <2> QED
    BY <1>1, <1>b, <1>c, <2>2 DEF StartInstall
<1>2. CASE Extract
  <2>1. cmd' \in Command
    BY <1>2, <1>b DEF Extract, Goto, End, Ends, Command
  <2>2. folders' \in [Names -> Bytes]
    BY <1>2, <1>b DEF Extract, Command
  <2> QED
    BY <1>2, <1>b, <1>c, <2>1, <2>2 DEF Extract
<1>3. CASE Switch
  <2>1. cmd' \in Command /\ state' \in Pair
    BY <1>3, <1>b DEF Switch, Goto, Pair, Command
  <2> QED
    BY <1>3, <1>b, <1>c, <2>1 DEF Switch
<1>4. CASE PointLink
  <2>1. cmd' \in Command /\ link' \in Names \cup {None}
    BY <1>4, <1>b DEF PointLink, Goto, Command
  <2> QED
    BY <1>4, <1>b, <1>c, <2>1 DEF PointLink
<1>5. CASE Restart
  <2>1. cmd' \in Command /\ told' \in Names \cup {None}
    <3>1. cmd' \in {[cmd EXCEPT !.pc = "health"], [cmd EXCEPT !.pc = "undo"],
                    [cmd EXCEPT !.pc = "idle", !.end = "sick"]}
      BY <1>5 DEF Restart, NotHealthy, Goto, End
    <3>2. told' \in Names \cup {None}
      BY <1>5, <1>b DEF Restart, Command
    <3>3. [cmd EXCEPT !.pc = "health"] \in Command /\ [cmd EXCEPT !.pc = "undo"] \in Command
      BY <1>b DEF Command
    <3>4. [cmd EXCEPT !.pc = "idle", !.end = "sick"] \in Command
      BY <1>b DEF Ends, Command
    <3> QED
      BY <3>1, <3>2, <3>3, <3>4
  <2> QED
    BY <1>5, <1>b, <1>c, <2>1 DEF Restart
<1>6. CASE Health
  <2>1. cmd' \in Command
    <3>1. cmd' \in {[cmd EXCEPT !.pc = "prune"], [cmd EXCEPT !.pc = "undo"],
                    [cmd EXCEPT !.pc = "idle", !.end = "rolled"],
                    [cmd EXCEPT !.pc = "idle", !.end = "sick"]}
      BY <1>6 DEF Health, NotHealthy, Goto, End
    <3>2. [cmd EXCEPT !.pc = "prune"] \in Command /\ [cmd EXCEPT !.pc = "undo"] \in Command
      BY <1>b DEF Command
    <3>3. [cmd EXCEPT !.pc = "idle", !.end = "rolled"] \in Command
      BY <1>b DEF Ends, Command
    <3>4. [cmd EXCEPT !.pc = "idle", !.end = "sick"] \in Command
      BY <1>b DEF Ends, Command
    <3> QED
      BY <3>1, <3>2, <3>3, <3>4
  <2>2. cmd.new \in Names \cup {None}
    BY <1>b DEF Command
  <2>4. At("health") => cmd.new # None
    BY DEF DeviceInv, InstallKnows, Trying, At
  <2>3. checked' \subseteq Names
    BY <1>6, <1>b, <2>2, <2>4 DEF Health
  <2> QED
    BY <1>6, <1>b, <1>c, <2>1, <2>3 DEF Health
<1>7. CASE Undo
  <2>1. cmd' \in Command /\ state' \in Pair
    BY <1>7, <1>b DEF Undo, Goto, End, Ends, Pair, Command
  <2> QED
    BY <1>7, <1>b, <1>c, <2>1 DEF Undo
<1>8. CASE Relink
  <2>1. cmd' \in Command /\ link' \in Names \cup {None}
    BY <1>8, <1>b DEF Relink, Goto, End, Ends, Pair, Command
  <2> QED
    BY <1>8, <1>b, <1>c, <2>1 DEF Relink
<1>9. CASE Again
  <2>1. cmd' \in Command /\ told' \in Names \cup {None}
    BY <1>9, <1>b DEF Again, Goto, End, Ends, Pair, Command
  <2> QED
    BY <1>9, <1>b, <1>c, <2>1 DEF Again
<1>10. CASE StartRollback
  <2>1. state.previous \in Names
    BY <1>10, <1>b DEF StartRollback, Folders
  <2>2. cmd' \in Command /\ state' \in Pair
    BY <1>10, <1>b, <2>1 DEF StartRollback, Ends, Pair, Command
  <2> QED
    BY <1>10, <1>b, <1>c, <2>2 DEF StartRollback
<1>11. CASE Prune
  <2>1. PICK doomed \in Excess(ReleaseKeep) :
          cmd' = [cmd EXCEPT !.pc = "remove", !.doomed = doomed]
    BY <1>11 DEF Prune
  <2>2. doomed \subseteq Names
    BY <2>1, ExcessIsUnnamed DEF Folders
  <2>3. cmd' \in Command
    BY <1>b, <2>1, <2>2 DEF Command
  <2> QED
    BY <1>11, <1>b, <1>c, <2>3 DEF Prune
<1>12. ASSUME NEW keep \in {1, ReleaseKeep}, PruneCommand(keep)
       PROVE  DeviceTypeOK'
  <2>1. PICK doomed \in Excess(IF keep < 2 THEN 2 ELSE keep) :
          cmd' = [cmd EXCEPT !.pc = "remove", !.flow = "prune",
                             !.doomed = doomed, !.end = "running"]
    BY <1>12 DEF PruneCommand
  <2>2. doomed \subseteq Names
    BY <2>1, ExcessIsUnnamed DEF Folders
  <2>3. cmd' \in Command
    BY <1>b, <2>1, <2>2 DEF Command, Ends
  <2> QED
    BY <1>12, <1>b, <1>c, <2>3 DEF PruneCommand
<1>14. ASSUME NEW n \in Names, RemoveFolder(n)
       PROVE  DeviceTypeOK'
  <2>1. cmd' \in Command
    BY <1>14, <1>b DEF RemoveFolder, Command
  <2>2. folders' \in [Names -> Bytes]
    <3>1. PICK rest \in {Missing, Torn, folders[n]} :
            folders' = [folders EXCEPT ![n] = rest]
      BY <1>14 DEF RemoveFolder
    <3> QED
      BY <1>b, <3>1 DEF Bytes
  <2> QED
    BY <1>14, <1>b, <1>c, <2>1, <2>2 DEF RemoveFolder
<1>15. CASE RemoveEnds
  <2>1. cmd' \in Command
    BY <1>15, <1>b DEF RemoveEnds, End, Ends, Command
  <2> QED
    BY <1>15, <1>b, <1>c, <2>1 DEF RemoveEnds
<1>13. CASE DeviceStops
  <2>1. cmd' \in Command
    BY <1>13, <1>b DEF DeviceStops, Ends, Command
  <2>2. folders' \in [Names -> Bytes]
    BY <1>13, StopTears
  <2> QED
    BY <1>13, <1>b, <1>c, <2>1, <2>2 DEF DeviceStops
<1> QED
  BY <1>1, <1>2, <1>3, <1>4, <1>5, <1>6, <1>7, <1>8, <1>9, <1>10, <1>11,
     <1>12, <1>13, <1>14, <1>15 DEF DeviceNext

(* What an installation accepts was packed under its version.              *)
LEMMA AcceptableIsSound ==
  ASSUME PackingInv, NEW v \in Versions, NEW w \in Versions,
         NEW allow \in {AllowDowngrade, TRUE}, Acceptable(v, assets[w], allow)
  PROVE  <<v, assets[w].bytes>> \in packed /\ assets[w].bytes \notin OffLayout
<1>1. /\ assets[w].sig = <<v, assets[w].bytes>>
      /\ assets[w].bytes \in Builds \ OffLayout
  BY DEF Acceptable, Verified, SignatureOk, MembersOk
<1>2. Vouched(assets[w].sig)
  BY DEF PackingInv, SignedWasPacked
<1>3. assets[w].sig[2] \in Builds
  BY <1>1
<1> QED
  BY <1>1, <1>2, <1>3 DEF Vouched

(* A step of the device, one action at a time.                             *)
LEMMA DeviceStep ==
  ASSUME DeviceInv, PackingInv, DeviceNext
  PROVE  DeviceInv'
<1> DEFINE Rest == FoldersSound /\ InstallKnows /\ TrialKnows /\ PruneKnows
                   /\ BackIsFound
<1>a. DeviceTypeOK' /\ DeviceTypeOK
  BY DeviceType DEF PackingInv, DeviceInv
<1>b. /\ cmd \in Command
      /\ state \in Pair /\ folders \in [Names -> Bytes]
      /\ None \notin Names /\ Folders \subseteq Names
  BY <1>a, NoneIsNoName DEF DeviceTypeOK, Folders
<1>c. Rest
  BY DEF DeviceInv
<1> SUFFICES Rest'
  BY <1>a DEF DeviceInv
<1> USE DEF At, Coming, Trying, Left, InUse, Sound, OnTrial, Pair, Command
<1>1. ASSUME NEW v \in Versions, NEW w \in Versions,
             NEW allow \in {AllowDowngrade, TRUE},
             StartInstall(v, w, allow)
      PROVE  Rest'
  <2>1. UNCHANGED <<folders, state, packed, Folders>> /\ At("idle")
    BY <1>1 DEF StartInstall, packing, Folders
  <2>2. CASE Acceptable(v, assets[w], allow)
    <3>1. PICK n \in Names :
            /\ NextName(v, n)
            /\ cmd' = [pc |-> "extract", flow |-> "install", new |-> n,
                       bytes |-> assets[w].bytes, found |-> state,
                       doomed |-> {}, end |-> "running", clean |-> cmd.clean]
      BY <1>1, <2>2 DEF StartInstall
    <3>2. n[1] = v /\ n \notin Folders
      BY <3>1 DEF NextName
    <3>3. Sound(n, assets[w].bytes)
      BY <2>2, <3>2, AcceptableIsSound
    <3> QED
      BY <1>c, <2>1, <3>1, <3>2, <3>3
         DEF FoldersSound, InstallKnows, TrialKnows, PruneKnows, BackIsFound
  <2>3. CASE ~Acceptable(v, assets[w], allow)
    <3>1. cmd' = [cmd EXCEPT !.end = "refused", !.found = state]
      BY <1>1, <2>3 DEF StartInstall
    <3> QED
      BY <1>b, <1>c, <2>1, <3>1
         DEF FoldersSound, InstallKnows, TrialKnows, PruneKnows, BackIsFound
  <2> QED
    BY <2>2, <2>3
<1>2. CASE Extract
  <2>1. UNCHANGED <<state, packed>> /\ At("extract") /\ cmd.flow = "install"
    BY <1>2, <1>c DEF Extract, packing, InstallKnows
  <2>2. CASE UNCHANGED folders /\ End("refused")
    <3>1. cmd' = [cmd EXCEPT !.pc = "idle", !.end = "refused"]
      BY <2>2 DEF End
    <3>2. Folders' = Folders
      BY <2>2 DEF Folders
    <3> QED
      BY <1>b, <1>c, <2>1, <2>2, <3>1, <3>2
         DEF FoldersSound, InstallKnows, TrialKnows, PruneKnows, BackIsFound
  <2>3. CASE folders' = [folders EXCEPT ![cmd.new] = cmd.bytes] /\ Goto("write")
    <3>1. cmd' = [cmd EXCEPT !.pc = "write"]
      BY <2>3 DEF Goto
    <3>2. cmd.new \in Names \ Folders /\ Sound(cmd.new, cmd.bytes)
      BY <1>c, <2>1 DEF InstallKnows
    <3>3. cmd.bytes # Missing
      BY <3>2, PackagesAssumption DEF PackingInv, PackingTypeOK
    <3>4. Folders' = Folders \cup {cmd.new}
      BY <1>b, <2>3, <3>2, <3>3 DEF Folders
    <3>5. \A n \in Folders' : folders'[n] = IF n = cmd.new THEN cmd.bytes
                                            ELSE folders[n]
      BY <1>b, <2>3, <3>2, <3>4
    <3> QED
      BY <1>b, <1>c, <2>1, <3>1, <3>2, <3>4, <3>5
         DEF FoldersSound, InstallKnows, TrialKnows, PruneKnows, BackIsFound
  <2> QED
    BY <1>2, <2>2, <2>3 DEF Extract
<1>3. CASE Switch
  <2>1. UNCHANGED <<folders, packed, Folders>> /\ At("write")
    BY <1>3 DEF Switch, packing, Folders
  <2>2. cmd' = [cmd EXCEPT !.pc = "link"]
    BY <1>3 DEF Switch, Goto
  <2>3. state' = [current |-> cmd.new, previous |-> cmd.found.current]
    BY <1>3 DEF Switch
  <2> QED
    BY <1>b, <1>c, <2>1, <2>2, <2>3
       DEF FoldersSound, InstallKnows, TrialKnows, PruneKnows, BackIsFound
<1>k. ASSUME UNCHANGED <<folders, state, packed, Folders>>,
             cmd.pc \in Trying,
             cmd'.pc \in Trying \cup {"undo", "prune", "idle"},
             cmd'.pc \in {"undo", "prune"} => cmd.flow = "install",
             UNCHANGED <<cmd.flow, cmd.new, cmd.found, cmd.doomed>>,
             cmd'.end \in {cmd.end, "rolled", "sick"}
      PROVE  Rest'
  <2>1. FoldersSound' /\ PruneKnows'
    BY <1>b, <1>c, <1>k DEF FoldersSound, PruneKnows
  <2>2. InstallKnows'
    BY <1>b, <1>c, <1>k DEF InstallKnows
  <2>3. TrialKnows' /\ BackIsFound'
    BY <1>b, <1>c, <1>k DEF InstallKnows, TrialKnows, BackIsFound
  <2> QED
    BY <2>1, <2>2, <2>3
<1>4. CASE PointLink
  <2>1. UNCHANGED <<state, folders, packed, Folders>> /\ At("link")
    BY <1>4 DEF PointLink, packing, Folders
  <2>2. cmd' \in {[cmd EXCEPT !.pc = "restart"],
                 [cmd EXCEPT !.pc = "restart", !.clean = FALSE]}
    BY <1>4 DEF PointLink, Goto
  <2>3. /\ cmd'.pc = "restart"
        /\ UNCHANGED <<cmd.flow, cmd.new, cmd.found, cmd.doomed, cmd.end>>
    BY <1>b, <2>2
  <2> QED
    BY <1>k, <2>1, <2>3
<1>5. CASE Restart
  <2>1. UNCHANGED <<state, folders, packed, Folders>> /\ At("restart")
    BY <1>5 DEF Restart, packing, Folders
  <2>2. cmd' \in {[cmd EXCEPT !.pc = "health"],
                 [cmd EXCEPT !.pc = "undo"],
                 [cmd EXCEPT !.pc = "idle", !.end = "sick"]}
    BY <1>5 DEF Restart, NotHealthy, Goto, End
  <2>3. cmd'.pc = "undo" => cmd.flow = "install"
    BY <1>5, <1>b DEF Restart, NotHealthy, Goto, End
  <2>4. /\ cmd'.pc \in {"health", "undo", "idle"}
        /\ UNCHANGED <<cmd.flow, cmd.new, cmd.found, cmd.doomed>>
        /\ cmd'.end \in {cmd.end, "rolled", "sick"}
    BY <1>b, <2>2
  <2> QED
    BY <1>k, <2>1, <2>3, <2>4
<1>6. CASE Health
  <2>1. UNCHANGED <<state, folders, packed, Folders>> /\ At("health")
    BY <1>6 DEF Health, packing, Folders
  <2>2. cmd' \in {[cmd EXCEPT !.pc = "prune"],
                 [cmd EXCEPT !.pc = "undo"],
                 [cmd EXCEPT !.pc = "idle", !.end = "rolled"],
                 [cmd EXCEPT !.pc = "idle", !.end = "sick"]}
    BY <1>6 DEF Health, NotHealthy, Goto, End
  <2>3. cmd'.pc \in {"undo", "prune"} => cmd.flow = "install"
    BY <1>6, <1>b DEF Health, NotHealthy, Goto, End
  <2>4. /\ cmd'.pc \in {"prune", "undo", "idle"}
        /\ UNCHANGED <<cmd.flow, cmd.new, cmd.found, cmd.doomed>>
        /\ cmd'.end \in {cmd.end, "rolled", "sick"}
    BY <1>b, <2>2
  <2> QED
    BY <1>k, <2>1, <2>3, <2>4
<1>7. CASE Undo
  <2>1. UNCHANGED <<folders, packed, Folders>> /\ At("undo")
    BY <1>7 DEF Undo, packing, Folders
  <2>2. cmd' = [cmd EXCEPT !.pc = "relink"]
    BY <1>7 DEF Undo, Goto
  <2>3. state' = cmd.found
    BY <1>7 DEF Undo
  <2>4. /\ cmd'.pc = "relink"
        /\ UNCHANGED <<cmd.flow, cmd.new, cmd.found, cmd.doomed, cmd.end>>
    BY <1>b, <2>2
  <2>5. /\ cmd.doomed = {} /\ cmd.end # "back"
        /\ state.previous = cmd.found.current
        /\ \A n \in {cmd.found.previous} \ {None} :
             n \in Folders /\ Sound(n, folders[n])
    BY <1>c, <2>1 DEF InstallKnows, TrialKnows, PruneKnows, BackIsFound
  <2>6. FoldersSound'
    BY <1>b, <1>c, <2>1, <2>3, <2>5 DEF FoldersSound
  <2>7. InstallKnows' /\ TrialKnows' /\ PruneKnows' /\ BackIsFound'
    BY <1>b, <2>1, <2>3, <2>4, <2>5
       DEF InstallKnows, TrialKnows, PruneKnows, BackIsFound
  <2> QED
    BY <2>6, <2>7
<1>8. CASE Relink
  <2>1. UNCHANGED <<state, folders, packed, Folders>> /\ At("relink")
    BY <1>8 DEF Relink, packing, Folders
  <2>2. cmd' \in {[cmd EXCEPT !.pc = "again"],
                 [cmd EXCEPT !.pc = "again", !.clean = FALSE]}
    BY <1>8 DEF Relink, Goto
  <2>3. /\ cmd'.pc = "again" /\ cmd'.flow = cmd.flow /\ cmd'.new = cmd.new
        /\ cmd'.found = cmd.found /\ cmd'.end = cmd.end
        /\ cmd'.doomed = cmd.doomed
    BY <1>b, <2>2
  <2>4. FoldersSound' /\ PruneKnows'
    BY <1>c, <2>1, <2>3 DEF FoldersSound, PruneKnows
  <2>5. InstallKnows' /\ TrialKnows' /\ BackIsFound'
    BY <1>c, <2>1, <2>3 DEF InstallKnows, TrialKnows, BackIsFound
  <2> QED
    BY <2>4, <2>5
<1>9. CASE Again
  <2>1. UNCHANGED <<state, folders, packed, Folders>> /\ At("again")
    BY <1>9 DEF Again, packing, Folders
  <2>2. cmd' = [cmd EXCEPT !.pc = "idle", !.end = "back"]
    BY <1>9 DEF Again, End
  <2> QED
    BY <1>b, <1>c, <2>1, <2>2
       DEF FoldersSound, InstallKnows, TrialKnows, PruneKnows, BackIsFound
<1>10. CASE StartRollback
  <2>1. UNCHANGED <<folders, packed, Folders>> /\ At("idle")
    BY <1>10 DEF StartRollback, packing, Folders
  <2>2. /\ cmd' = [cmd EXCEPT !.pc = "link", !.flow = "rollback",
                             !.new = state.previous, !.found = state,
                             !.end = "running"]
        /\ state' = [current |-> state.previous, previous |-> state.current]
        /\ state.previous \in Folders
    BY <1>10 DEF StartRollback
  <2> QED
    BY <1>b, <1>c, <2>1, <2>2
       DEF FoldersSound, InstallKnows, TrialKnows, PruneKnows, BackIsFound
<1>11. CASE Prune
  <2>1. UNCHANGED <<folders, state, packed, Folders>> /\ At("prune")
    BY <1>11 DEF Prune, packing, Folders
  <2>2. PICK doomed \in Excess(ReleaseKeep) :
          cmd' = [cmd EXCEPT !.pc = "remove", !.doomed = doomed]
    BY <1>11 DEF Prune
  <2>3. doomed \subseteq Folders \ InUse
    BY <2>2, ExcessIsUnnamed
  <2> QED
    BY <1>b, <1>c, <2>1, <2>2, <2>3
       DEF FoldersSound, InstallKnows, TrialKnows, PruneKnows, BackIsFound
<1>12. ASSUME NEW keep \in {1, ReleaseKeep}, PruneCommand(keep)
       PROVE  Rest'
  <2>1. UNCHANGED <<folders, state, packed, Folders>> /\ At("idle")
    BY <1>12 DEF PruneCommand, packing, Folders
  <2>2. PICK doomed \in Excess(IF keep < 2 THEN 2 ELSE keep) :
          cmd' = [cmd EXCEPT !.pc = "remove", !.flow = "prune",
                             !.doomed = doomed, !.end = "running"]
    BY <1>12 DEF PruneCommand
  <2>3. doomed \subseteq Folders \ InUse
    BY <2>2, ExcessIsUnnamed
  <2> QED
    BY <1>b, <1>c, <2>1, <2>2, <2>3
       DEF FoldersSound, InstallKnows, TrialKnows, PruneKnows, BackIsFound
<1>14. ASSUME NEW n \in Names, RemoveFolder(n)
       PROVE  Rest'
  <2>1. /\ UNCHANGED state /\ n \in Folders \ InUse
        /\ \A m \in Names \ {n} : folders'[m] = folders[m]
        /\ folders'[n] \in {Missing, Torn, folders[n]}
        /\ Folders' \subseteq Folders /\ Folders \ {n} \subseteq Folders'
    BY <1>14, RemovedAlone
  <2>2. UNCHANGED packed /\ At("remove")
    BY <1>14 DEF RemoveFolder, packing
  <2>3. cmd' = [cmd EXCEPT !.doomed = cmd.doomed \ {n}]
    BY <1>14 DEF RemoveFolder
  <2>4. FoldersSound'
    <3>1. InUse' \subseteq Folders'
      BY <1>c, <2>1 DEF FoldersSound
    <3>2. \A m \in Folders' : \/ Sound(m, folders'[m])
                              \/ folders'[m] = Torn /\ m \notin InUse
      <4> TAKE m \in Folders'
      <4>1. m \in Folders /\ m \in Names
        BY <1>b, <2>1
      <4>2. CASE m # n
        <5>1. folders'[m] = folders[m]
          BY <2>1, <4>1, <4>2
        <5> QED
          BY <1>c, <4>1, <5>1 DEF FoldersSound
      <4>3. CASE m = n
        <5>1. folders'[m] # Missing
          BY DEF Folders
        <5> QED
          BY <1>c, <2>1, <4>1, <4>3, <5>1 DEF FoldersSound
      <4> QED
        BY <4>2, <4>3
    <3> QED
      BY <2>1, <2>2, <3>1, <3>2 DEF FoldersSound
  <2>5. InstallKnows' /\ TrialKnows' /\ BackIsFound'
    BY <1>b, <1>c, <2>1, <2>2, <2>3 DEF InstallKnows, TrialKnows, BackIsFound
  <2>6. PruneKnows'
    BY <1>b, <1>c, <2>1, <2>2, <2>3 DEF PruneKnows
  <2> QED
    BY <2>4, <2>5, <2>6
<1>15. CASE RemoveEnds
  <2>1. UNCHANGED <<folders, state, packed, Folders>> /\ At("remove")
    BY <1>15 DEF RemoveEnds, packing, Folders
  <2>2. /\ cmd.doomed = {}
        /\ \/ cmd' = [cmd EXCEPT !.pc = "idle", !.end = "installed"]
           \/ cmd' = [cmd EXCEPT !.pc = "idle", !.end = "pruned"]
    BY <1>15 DEF RemoveEnds, End
  <2>3. /\ cmd'.pc = "idle" /\ cmd'.end \in {"installed", "pruned"}
        /\ UNCHANGED <<cmd.flow, cmd.new, cmd.found, cmd.doomed>>
    BY <1>b, <2>2
  <2>4. FoldersSound' /\ PruneKnows'
    BY <1>c, <2>1, <2>2, <2>3 DEF FoldersSound, PruneKnows
  <2>5. InstallKnows' /\ TrialKnows' /\ BackIsFound'
    BY <2>3 DEF InstallKnows, TrialKnows, BackIsFound
  <2> QED
    BY <2>4, <2>5
<1>13. CASE DeviceStops
  <2>1. UNCHANGED <<state, packed>>
    BY <1>13 DEF DeviceStops
  <2>2. cmd' = [cmd EXCEPT !.pc = "idle", !.end = "none", !.doomed = {},
                           !.clean = FALSE]
    BY <1>13 DEF DeviceStops
  <2>3. /\ Folders' = Folders /\ cmd.doomed \cap InUse = {}
        /\ \A n \in Names : \/ folders'[n] = folders[n]
                            \/ folders'[n] = Torn /\ n \in cmd.doomed
    BY <1>13, <1>c, StopTears DEF PruneKnows
  <2>4. FoldersSound'
    BY <1>b, <1>c, <2>1, <2>3 DEF FoldersSound
  <2>5. InstallKnows' /\ TrialKnows' /\ PruneKnows' /\ BackIsFound'
    BY <1>b, <1>c, <2>1, <2>2
       DEF InstallKnows, TrialKnows, PruneKnows, BackIsFound
  <2> QED
    BY <2>4, <2>5
<1> QED
  BY <1>1, <1>2, <1>3, <1>4, <1>5, <1>6, <1>7, <1>8, <1>9, <1>10, <1>11,
     <1>12, <1>13, <1>14, <1>15 DEF DeviceNext

(* What was in use when an installation began had passed its check, and    *)
(* what is in use at the end of one that holds has.                        *)
WayBack ==
  stops = 0 =>
    IF cmd.flow = "install" /\ cmd.pc \in Trying \cup {"undo"}
    THEN Left({cmd.found.current, cmd.found.previous}) \subseteq checked
    ELSE InUse \subseteq checked

(* How far the link and the unit are, as long as links can be made.        *)
Follows ==
  cmd.clean =>
    /\ cmd.pc \in Coming \cup {"idle", "restart", "health", "again", "prune",
                           "remove"}
         => link = state.current
    /\ cmd.pc \in Coming \cup {"idle", "health", "prune", "remove"}
         => told = state.current

(* Every step keeps what is known of the way back, the link and the unit.  *)
LEMMA FollowStep ==
  ASSUME DeviceInv, PackingTypeOK, WayBack, Follows, DeviceNext
  PROVE  WayBack' /\ Follows'
<1> DEFINE Rest == WayBack /\ Follows
<1>b. /\ cmd \in Command
      /\ state \in Pair /\ checked \subseteq Names
      /\ None \notin Names /\ stops \in Nat
  BY NoneIsNoName, PackagesAssumption DEF DeviceInv, DeviceTypeOK, PackingTypeOK
<1>c. InstallKnows /\ TrialKnows /\ PruneKnows /\ BackIsFound
  BY DEF DeviceInv
<1> USE DEF At, Coming, Trying, Left, InUse, OnTrial, Pair, Command
<1>1. ASSUME NEW v \in Versions, NEW w \in Versions,
             NEW allow \in {AllowDowngrade, TRUE},
             StartInstall(v, w, allow)
      PROVE  Rest'
  <2>1. UNCHANGED <<state, link, told, checked, stops>>
    BY <1>1 DEF StartInstall, packing
  <2>2. At("idle")
    BY <1>1 DEF StartInstall
  <2>3. \/ \E n \in Names :
             cmd' = [pc |-> "extract", flow |-> "install", new |-> n,
                     bytes |-> assets[w].bytes, found |-> state,
                     doomed |-> {}, end |-> "running", clean |-> cmd.clean]
        \/ cmd' = [cmd EXCEPT !.end = "refused", !.found = state]
    BY <1>1 DEF StartInstall
  <2>4. cmd'.pc \in {"idle", "extract"} /\ cmd'.clean = cmd.clean
    <3>1. ASSUME NEW n \in Names,
                 cmd' = [pc |-> "extract", flow |-> "install", new |-> n,
                         bytes |-> assets[w].bytes, found |-> state,
                         doomed |-> {}, end |-> "running", clean |-> cmd.clean]
          PROVE  cmd'.pc = "extract" /\ cmd'.clean = cmd.clean
      BY <3>1
    <3>2. CASE cmd' = [cmd EXCEPT !.end = "refused", !.found = state]
      BY <1>b, <2>2, <3>2
    <3> QED
      BY <2>3, <3>1, <3>2
  <2> QED
    BY <1>b, <2>1, <2>2, <2>4 DEF WayBack, Follows
<1>2. CASE Extract
  <2>1. UNCHANGED <<state, link, told, checked, stops>>
    BY <1>2 DEF Extract, packing
  <2>2. /\ At("extract")
        /\ \/ cmd' = [cmd EXCEPT !.pc = "write"]
           \/ cmd' = [cmd EXCEPT !.pc = "idle", !.end = "refused"]
    BY <1>2 DEF Extract, NotHealthy, Goto, End
  <2> QED
    BY <1>b, <1>c, <2>1, <2>2
       DEF WayBack, Follows, InstallKnows, TrialKnows, BackIsFound
<1>3. CASE Switch
  <2>1. UNCHANGED <<link, told, checked, stops>>
    BY <1>3 DEF Switch, packing
  <2>2. At("write") /\ cmd' = [cmd EXCEPT !.pc = "link"]
    BY <1>3 DEF Switch, NotHealthy, Goto, End
  <2>3. state' = [current |-> cmd.new, previous |-> cmd.found.current]
    BY <1>3 DEF Switch, NotHealthy, Goto, End
  <2> QED
    BY <1>b, <1>c, <2>1, <2>2, <2>3
       DEF WayBack, Follows, InstallKnows, TrialKnows, BackIsFound
<1>4. CASE PointLink
  <2>1. UNCHANGED <<state, told, checked, stops>>
    BY <1>4 DEF PointLink, packing
  <2>2. /\ At("link")
        /\ \/ link' = cmd.new /\ cmd' = [cmd EXCEPT !.pc = "restart"]
           \/ cmd' = [cmd EXCEPT !.pc = "restart", !.clean = FALSE]
    BY <1>4 DEF PointLink, NotHealthy, Goto, End
  <2> QED
    BY <1>b, <1>c, <2>1, <2>2
       DEF WayBack, Follows, InstallKnows, TrialKnows, BackIsFound
<1>5. CASE Restart
  <2>1. UNCHANGED <<state, link, checked, stops>>
    BY <1>5 DEF Restart, packing
  <2>2. /\ At("restart") /\ told' = cmd.new
        /\ \/ cmd' = [cmd EXCEPT !.pc = "health"]
           \/ cmd.flow = "install" /\ cmd' = [cmd EXCEPT !.pc = "undo"]
           \/ /\ cmd.flow # "install"
              /\ cmd' = [cmd EXCEPT !.pc = "idle", !.end = "sick"]
    BY <1>5 DEF Restart, NotHealthy, Goto, End
  <2> QED
    BY <1>b, <1>c, <2>1, <2>2
       DEF WayBack, Follows, InstallKnows, TrialKnows, BackIsFound
<1>6. CASE Health
  <2>1. UNCHANGED <<state, link, told, stops>> /\ At("health")
    BY <1>6 DEF Health, packing
  <2>2. CASE /\ cmd.flow = "install" /\ cmd' = [cmd EXCEPT !.pc = "prune"]
             /\ checked' = checked \cup {cmd.new}
    <3>1. /\ cmd'.pc = "prune" /\ cmd'.clean = cmd.clean
          /\ cmd'.flow = "install"
      BY <1>b, <2>2
    <3>2. state = [current |-> cmd.new, previous |-> cmd.found.current]
      BY <1>c, <2>1, <2>2 DEF TrialKnows
    <3> QED
      BY <2>1, <2>2, <3>1, <3>2 DEF WayBack, Follows
  <2>3. CASE /\ cmd.flow = "install" /\ cmd' = [cmd EXCEPT !.pc = "undo"]
             /\ checked' = checked
    <3>1. /\ cmd'.pc = "undo" /\ cmd'.found = cmd.found
          /\ cmd'.flow = "install"
      BY <1>b, <2>3
    <3> QED
      BY <2>1, <2>3, <3>1 DEF WayBack, Follows
  <2>4. CASE /\ cmd.flow # "install" /\ checked \subseteq checked'
             /\ \/ cmd' = [cmd EXCEPT !.pc = "idle", !.end = "rolled"]
                \/ cmd' = [cmd EXCEPT !.pc = "idle", !.end = "sick"]
    <3>1. /\ cmd'.pc = "idle" /\ cmd'.clean = cmd.clean
          /\ cmd'.flow # "install"
      BY <1>b, <2>4
    <3> QED
      BY <2>1, <2>4, <3>1 DEF WayBack, Follows
  <2> QED
    BY <1>6, <2>2, <2>3, <2>4 DEF Health, NotHealthy, Goto, End
<1>7. CASE Undo
  <2>1. UNCHANGED <<link, told, checked, stops>>
    BY <1>7 DEF Undo, packing
  <2>2. At("undo") /\ cmd' = [cmd EXCEPT !.pc = "relink"] /\ state' = cmd.found
    BY <1>7 DEF Undo, NotHealthy, Goto, End
  <2> QED
    BY <1>b, <1>c, <2>1, <2>2
       DEF WayBack, Follows, InstallKnows, TrialKnows, BackIsFound
<1>8. CASE Relink
  <2>1. UNCHANGED <<state, told, checked, stops>>
    BY <1>8 DEF Relink, packing
  <2>2. /\ At("relink")
        /\ \/ link' = cmd.found.current /\ cmd' = [cmd EXCEPT !.pc = "again"]
           \/ cmd' = [cmd EXCEPT !.pc = "again", !.clean = FALSE]
    BY <1>8 DEF Relink, NotHealthy, Goto, End
  <2>3. /\ cmd'.pc = "again"
        /\ cmd'.clean => cmd.clean /\ link' = cmd.found.current
    BY <1>b, <2>2
  <2>4. state = cmd.found
    BY <1>c, <2>2 DEF BackIsFound
  <2> QED
    BY <1>b, <2>1, <2>2, <2>3, <2>4 DEF WayBack, Follows
<1>9. CASE Again
  <2>1. UNCHANGED <<state, link, checked, stops>>
    BY <1>9 DEF Again, packing
  <2>2. /\ At("again") /\ told' = cmd.found.current
        /\ cmd' = [cmd EXCEPT !.pc = "idle", !.end = "back"]
    BY <1>9 DEF Again, NotHealthy, Goto, End
  <2> QED
    BY <1>b, <1>c, <2>1, <2>2
       DEF WayBack, Follows, InstallKnows, TrialKnows, BackIsFound
<1>10. CASE StartRollback
  <2>1. UNCHANGED <<link, told, checked, stops>>
    BY <1>10 DEF StartRollback, packing
  <2>2. /\ At("idle")
        /\ cmd' = [cmd EXCEPT !.pc = "link", !.flow = "rollback",
                             !.new = state.previous, !.found = state,
                             !.end = "running"]
        /\ state' = [current |-> state.previous, previous |-> state.current]
    BY <1>10 DEF StartRollback, NotHealthy, Goto, End
  <2> QED
    BY <1>b, <1>c, <2>1, <2>2
       DEF WayBack, Follows, InstallKnows, TrialKnows, BackIsFound
<1>11. CASE Prune
  <2>1. UNCHANGED <<state, link, told, checked, stops>> /\ At("prune")
    BY <1>11 DEF Prune, packing
  <2>2. PICK doomed \in Excess(ReleaseKeep) :
          cmd' = [cmd EXCEPT !.pc = "remove", !.doomed = doomed]
    BY <1>11 DEF Prune
  <2> QED
    BY <1>b, <1>c, <2>1, <2>2 DEF WayBack, Follows, InstallKnows
<1>12. ASSUME NEW keep \in {1, ReleaseKeep}, PruneCommand(keep)
       PROVE  Rest'
  <2>1. UNCHANGED <<state, link, told, checked, stops>> /\ At("idle")
    BY <1>12 DEF PruneCommand, packing
  <2>2. PICK doomed \in Excess(IF keep < 2 THEN 2 ELSE keep) :
          cmd' = [cmd EXCEPT !.pc = "remove", !.flow = "prune",
                             !.doomed = doomed, !.end = "running"]
    BY <1>12 DEF PruneCommand
  <2> QED
    BY <1>b, <2>1, <2>2 DEF WayBack, Follows
<1>14. ASSUME NEW n \in Names, RemoveFolder(n)
       PROVE  Rest'
  <2>1. UNCHANGED <<state, link, told, stops>> /\ At("remove")
    BY <1>14 DEF RemoveFolder, packing
  <2>2. cmd' = [cmd EXCEPT !.doomed = cmd.doomed \ {n}]
    BY <1>14 DEF RemoveFolder
  <2>3. n \notin InUse /\ checked' = checked \ {n}
    BY <1>14, <1>c DEF RemoveFolder, PruneKnows
  <2> QED
    BY <1>b, <1>c, <2>1, <2>2, <2>3 DEF WayBack, Follows
<1>15. CASE RemoveEnds
  <2>1. UNCHANGED <<state, link, told, checked, stops>> /\ At("remove")
    BY <1>15 DEF RemoveEnds, packing
  <2>2. \/ cmd' = [cmd EXCEPT !.pc = "idle", !.end = "installed"]
        \/ cmd' = [cmd EXCEPT !.pc = "idle", !.end = "pruned"]
    BY <1>15 DEF RemoveEnds, End
  <2> QED
    BY <1>b, <1>c, <2>1, <2>2 DEF WayBack, Follows
<1>13. CASE DeviceStops
  <2>1. stops' # 0 /\ ~cmd'.clean
    BY <1>13, <1>b DEF DeviceStops
  <2> QED
    BY <2>1 DEF WayBack, Follows
<1> QED
  BY <1>1, <1>2, <1>3, <1>4, <1>5, <1>6, <1>7, <1>8, <1>9, <1>10, <1>11,
     <1>12, <1>13, <1>14, <1>15 DEF DeviceNext

-----------------------------------------------------------------------------
(* The specification *)

IInv == PackingInv /\ DeviceInv /\ WayBack /\ Follows

(* At first there is no package, no folder and no release.                 *)
LEMMA InitIInv == Init => IInv
<1> SUFFICES ASSUME Init PROVE IInv
  OBVIOUS
<1>a. Missing \in Bytes /\ Missing \notin Builds
  BY PackagesAssumption DEF Bytes
<1>1. PackingInv
  BY <1>a, PackagesAssumption
     DEF Init, PackingInit, PackingInv, PackingTypeOK, SignedWasPacked, Vouched,
         Package, Nothing, NoSignature, Bytes
<1>2. DeviceTypeOK
  BY <1>a, DeviceAssumption DEF Init, DeviceTypeOK, Command, Pair, Ends
<1>3. Folders = {}
  BY DEF Init, Folders
<1>4. DeviceInv
  BY <1>2, <1>3
     DEF Init, DeviceInv, FoldersSound, InstallKnows, TrialKnows, PruneKnows, BackIsFound,
         At, Coming, Trying, OnTrial, InUse
<1>5. WayBack /\ Follows
  BY DEF Init, WayBack, Follows, InUse, Coming, Trying, Left
<1> QED
  BY <1>1, <1>4, <1>5 DEF IInv

(* Packing and the device step by turns; each keeps what both know.        *)
LEMMA NextIInv == IInv /\ [Next]_vars => IInv'
<1> SUFFICES ASSUME IInv, [Next]_vars PROVE IInv'
  OBVIOUS
<1>1. CASE PackingNext /\ UNCHANGED device
  <2>1. PackingInv' /\ packed \subseteq packed'
    BY <1>1, PackingStep DEF IInv
  <2>2. DeviceInv'
    BY <1>1, <2>1
       DEF IInv, device, DeviceInv, DeviceTypeOK, FoldersSound, Sound, Folders,
           InUse, Left, InstallKnows, TrialKnows, PruneKnows, BackIsFound,
           At, OnTrial
  <2>3. stops' = 0 => stops = 0
    <3>1. stops' = stops \/ stops' = stops + 1
      BY <1>1 DEF PackingNext, Build, BuildWritten, BuildHashed, SignCommand,
                  Sign, PublishChecks, Upload, PackingStops
    <3>2. stops \in Nat
      BY PackagesAssumption DEF IInv, PackingInv, PackingTypeOK
    <3> QED
      BY <3>1, <3>2
  <2>4. WayBack' /\ Follows'
    BY <1>1, <2>3 DEF IInv, device, WayBack, Follows, InUse
  <2> QED
    BY <2>1, <2>2, <2>4 DEF IInv
<1>2. CASE DeviceNext
  <2>1. DeviceInv'
    BY <1>2, DeviceStep DEF IInv
  <2>2. WayBack' /\ Follows'
    BY <1>2, FollowStep DEF IInv, PackingInv
  <2>3. /\ out' = out /\ assets' = assets /\ job' = job /\ packed' = packed
        /\ packs' = packs
        /\ stops' = stops \/ (stops < MaxStops /\ stops' = stops + 1)
    BY <1>2 DEF DeviceNext, packing, StartInstall, Extract, Switch, PointLink,
                Restart, Health, Undo, Relink, Again, StartRollback, Prune,
                PruneCommand, RemoveFolder, RemoveEnds, DeviceStops
  <2>4. PackingInv'
    BY <2>3, PackagesAssumption
       DEF IInv, PackingInv, PackingTypeOK, SignedWasPacked, Vouched
  <2> QED
    BY <2>1, <2>2, <2>4 DEF IInv
<1>3. CASE UNCHANGED vars
  <2>1. UNCHANGED packing /\ UNCHANGED device
    BY <1>3 DEF vars
  <2>2. PackingInv'
    BY <2>1 DEF packing, IInv, PackingInv, PackingTypeOK, SignedWasPacked, Vouched
  <2>3. DeviceInv'
    BY <2>1
       DEF packing, device, IInv, DeviceInv, DeviceTypeOK, FoldersSound, Sound,
           Folders, InUse, InstallKnows, TrialKnows, PruneKnows, BackIsFound, At, OnTrial
  <2>4. WayBack' /\ Follows'
    BY <2>1 DEF packing, device, IInv, WayBack, Follows, InUse
  <2> QED
    BY <2>2, <2>3, <2>4 DEF IInv
<1> QED
  BY <1>1, <1>2, <1>3 DEF Next

(* The invariant the theorems below follow from.                           *)
THEOREM Invariance == Spec => []IInv
  BY InitIInv, NextIInv, PTL DEF Spec

(* What state.json names is a whole release packed under the version of    *)
(* its name, and so is what any other folder holds unless a prune that     *)
(* stopped or failed half-way left it in part, whatever packing, upload,   *)
(* extraction or prune was stopped (package_component.py verify_package,   *)
(* deploy_release.py install, prune).                                      *)
THEOREM ReleasesStaySound == Spec => []ReleasesAreSound
<1>1. IInv => ReleasesAreSound
  BY DEF IInv, PackingInv, DeviceInv, FoldersSound, Sound, ReleasesAreSound
<1> QED
  BY <1>1, Invariance, PTL

(* As long as no command is stopped, both releases state.json names once   *)
(* passed their check, after any sequence of installations, rollbacks and  *)
(* prunes (deploy_release.py install, rollback, prune).                    *)
THEOREM WayBackIsChecked == Spec => []WayBackWasChecked
<1>1. IInv => WayBackWasChecked
  BY DEF IInv, WayBack, WayBackWasChecked, At, Trying
<1> QED
  BY <1>1, Invariance, PTL

(* After an installation that went back the state is the one it found      *)
(* (deploy_release.py install).                                            *)
THEOREM FailedInstallsChangeNothing == Spec => []FailedInstallChangesNothing
<1>1. IInv => FailedInstallChangesNothing
  BY DEF IInv, DeviceInv, BackIsFound, FailedInstallChangesNothing
<1> QED
  BY <1>1, Invariance, PTL

(* As long as no command is stopped and links can be made, the link and    *)
(* the last restart command name the release in use (deploy_release.py     *)
(* install and rollback).                                                  *)
THEOREM LinkAndUnitDoFollow == Spec => []LinkAndUnitFollow
<1>1. IInv => LinkAndUnitFollow
  BY DEF IInv, Follows, LinkAndUnitFollow, At
<1> QED
  BY <1>1, Invariance, PTL

-----------------------------------------------------------------------------
(* The protocol of ReleaseState *)

LEMMA InitImplements == Init => Store!StoreInit
<1> SUFFICES ASSUME Init PROVE Store!StoreInit
  OBVIOUS
<1>1. Folders = {} /\ ~OnTrial
  BY DEF Init, Folders, OnTrial
<1>2. OnTrial = FALSE
  BY <1>1 DEF OnTrial
<1>3. state.current = None /\ state.previous = None
  BY DEF Init
<1> QED
  BY <1>1, <1>2, <1>3 DEF Store!StoreInit, Store!Idle

(* A trial begins with Switch and ends with Undo, Prune or a stop; all the *)
(* steps in between leave the folders and the names alone.                 *)
LEMMA NextImplements ==
  ASSUME IInv, [Next]_vars
  PROVE  [Store!StoreNext]_Store!store
<1>b. /\ cmd \in Command
      /\ state \in Pair /\ folders \in [Names -> Bytes]
      /\ None \notin Names /\ Folders \subseteq Names /\ DeviceTypeOK
  BY NoneIsNoName DEF IInv, DeviceInv, DeviceTypeOK, Folders
<1>c. /\ FoldersSound /\ InstallKnows /\ TrialKnows /\ BackIsFound
      /\ DeviceInv
  BY DEF IInv, DeviceInv
<1>s. ASSUME UNCHANGED <<folders, state>>, OnTrial' = OnTrial,
             OnTrial => cmd'.found = cmd.found
      PROVE  UNCHANGED Store!store
  <2>1. Folders' = Folders
    BY <1>s DEF Folders
  <2> QED
    BY <1>s, <2>1 DEF Store!store
<1>t. ASSUME UNCHANGED state, ~OnTrial', Folders' \subseteq Folders,
             Folders \cap InUse \subseteq Folders'
      PROVE  Store!Accept
  <2>1. OnTrial' = FALSE
    BY <1>t DEF OnTrial
  <2>2. Folders \cap {state.current, state.previous} \subseteq Folders'
    BY <1>t, <1>b DEF InUse
  <2> QED
    BY <1>t, <2>1, <2>2 DEF Store!Accept, Store!Idle
<1> USE DEF At, OnTrial, Coming, Trying, Left, InUse, Command
<1>1. CASE PackingNext /\ UNCHANGED device
  BY <1>1, <1>s DEF device
<1>2. ASSUME NEW v \in Versions, NEW w \in Versions,
             NEW allow \in {AllowDowngrade, TRUE},
             StartInstall(v, w, allow)
      PROVE  UNCHANGED Store!store
  <2>1. UNCHANGED <<folders, state>> /\ ~OnTrial
    BY <1>2 DEF StartInstall
  <2>2. ~OnTrial'
    <3>1. ASSUME NEW n \in Names,
                 cmd' = [pc |-> "extract", flow |-> "install", new |-> n,
                         bytes |-> assets[w].bytes, found |-> state,
                         doomed |-> {}, end |-> "running", clean |-> cmd.clean]
          PROVE  ~OnTrial'
      BY <3>1
    <3>2. CASE cmd' = [cmd EXCEPT !.end = "refused", !.found = state]
      BY <1>b, <1>2, <3>2 DEF StartInstall
    <3> QED
      BY <1>2, <3>1, <3>2 DEF StartInstall
  <2> QED
    BY <1>s, <2>1, <2>2
<1>3. CASE Extract
  <2>1. UNCHANGED state /\ At("extract") /\ ~OnTrial
    BY <1>3 DEF Extract
  <2>2. CASE UNCHANGED folders /\ End("refused")
    BY <1>b, <1>s, <2>1, <2>2 DEF End
  <2>3. CASE folders' = [folders EXCEPT ![cmd.new] = cmd.bytes] /\ Goto("write")
    <3>1. cmd.new \in Names \ Folders /\ Sound(cmd.new, cmd.bytes)
      BY <1>c, <2>1 DEF InstallKnows
    <3>2. cmd.bytes # Missing
      BY <3>1, PackagesAssumption DEF Sound, IInv, PackingInv, PackingTypeOK
    <3>3. Folders' = Folders \cup {cmd.new}
      BY <1>b, <2>3, <3>1, <3>2 DEF Folders
    <3>4. ~OnTrial'
      BY <1>b, <2>3 DEF Goto
    <3> QED
      BY <2>1, <3>1, <3>3, <3>4 DEF Store!StoreNext, Store!KeepAs
  <2> QED
    BY <1>3, <2>2, <2>3 DEF Extract
<1>4. CASE Switch
  <2>1. /\ UNCHANGED <<folders, Folders>> /\ At("write") /\ ~OnTrial
        /\ state' = [current |-> cmd.new, previous |-> cmd.found.current]
    BY <1>4 DEF Switch, Folders
  <2>2. /\ cmd.flow = "install" /\ cmd.found = state
        /\ cmd.new \in Folders
    BY <1>c, <2>1 DEF InstallKnows
  <2>3. OnTrial' /\ cmd'.found = cmd.found
    BY <1>4, <1>b, <2>2 DEF Switch, Goto
  <2>4. state.current \in Folders \cup {None}
    BY <1>c DEF FoldersSound
  <2>5. Store!PutInUse(cmd.new, state.current)
    BY <2>1, <2>2, <2>3, <2>4 DEF Store!PutInUse, Store!OnTrial
  <2> QED
    BY <1>b, <2>2, <2>4, <2>5 DEF Store!StoreNext
<1>5. CASE PointLink
  <2>1. UNCHANGED <<folders, state>>
    BY <1>5 DEF PointLink
  <2>2. OnTrial' = OnTrial /\ cmd'.found = cmd.found
    BY <1>5, <1>b DEF PointLink, Goto
  <2> QED
    BY <1>s, <2>1, <2>2
<1>6. CASE Restart
  <2>1. UNCHANGED <<folders, state>>
    BY <1>6 DEF Restart
  <2>2. OnTrial' = OnTrial /\ cmd'.found = cmd.found
    BY <1>6, <1>b DEF Restart, NotHealthy, Goto, End
  <2> QED
    BY <1>s, <2>1, <2>2
<1>7. CASE Health
  <2>1. UNCHANGED <<folders, state>>
    BY <1>7 DEF Health
  <2>2. OnTrial' = OnTrial /\ cmd'.found = cmd.found
    BY <1>7, <1>b DEF Health, NotHealthy, Goto, End
  <2> QED
    BY <1>s, <2>1, <2>2
<1>8. CASE Undo
  <2>1. /\ UNCHANGED <<folders, Folders>> /\ At("undo") /\ cmd.flow = "install"
        /\ state' = cmd.found
    BY <1>8, <1>c DEF Undo, Folders, InstallKnows
  <2>2. state.previous = cmd.found.current
    BY <1>c, <2>1 DEF TrialKnows
  <2>3. ~OnTrial'
    BY <1>8, <1>b DEF Undo, Goto
  <2>4. Store!GoBack
    BY <2>1, <2>2, <2>3 DEF Store!GoBack, Store!Idle
  <2> QED
    BY <2>4 DEF Store!StoreNext
<1>9. CASE Relink
  <2>1. UNCHANGED <<folders, state>> /\ ~OnTrial
    BY <1>9 DEF Relink
  <2>2. ~OnTrial'
    BY <1>9, <1>b DEF Relink, Goto
  <2> QED
    BY <1>s, <2>1, <2>2
<1>10. CASE Again
  <2>1. UNCHANGED <<folders, state>> /\ ~OnTrial /\ ~OnTrial'
    BY <1>10, <1>b DEF Again, End
  <2> QED
    BY <1>s, <2>1
<1>11. CASE StartRollback
  <2>1. /\ UNCHANGED <<folders, Folders>> /\ ~OnTrial
        /\ state.previous \in Folders
        /\ state' = [current |-> state.previous, previous |-> state.current]
    BY <1>11 DEF StartRollback, Folders
  <2>2. ~OnTrial'
    BY <1>11, <1>b DEF StartRollback
  <2>3. Store!SwapReleases
    BY <2>1, <2>2 DEF Store!SwapReleases
  <2> QED
    BY <2>3 DEF Store!StoreNext
<1>12. CASE Prune
  <2>1. UNCHANGED <<state, Folders>>
    BY <1>12 DEF Prune, Folders
  <2>2. ~OnTrial'
    BY <1>12, <1>b DEF Prune
  <2> QED
    BY <1>t, <2>1, <2>2 DEF Store!StoreNext
<1>13. ASSUME NEW keep \in {1, ReleaseKeep}, PruneCommand(keep)
       PROVE  Store!Accept
  <2>1. UNCHANGED <<state, Folders>>
    BY <1>13 DEF PruneCommand, Folders
  <2>2. ~OnTrial'
    BY <1>13, <1>b DEF PruneCommand
  <2> QED
    BY <1>t, <2>1, <2>2
<1>16. ASSUME NEW n \in Names, RemoveFolder(n)
       PROVE  Store!Accept
  <2>1. /\ UNCHANGED state /\ n \notin InUse
        /\ Folders' \subseteq Folders /\ Folders \ {n} \subseteq Folders'
    BY <1>16, <1>c, RemovedAlone
  <2>2. ~OnTrial'
    BY <1>16, <1>b DEF RemoveFolder
  <2> QED
    BY <1>t, <2>1, <2>2
<1>17. CASE RemoveEnds
  <2>1. UNCHANGED <<folders, state>> /\ ~OnTrial /\ ~OnTrial'
    BY <1>17, <1>b DEF RemoveEnds, End
  <2> QED
    BY <1>s, <2>1
<1>14. CASE DeviceStops
  <2>1. UNCHANGED <<state, Folders>>
    BY <1>14, <1>c, StopTears DEF DeviceStops
  <2>2. ~OnTrial'
    BY <1>14, <1>b DEF DeviceStops
  <2> QED
    BY <1>t, <2>1, <2>2 DEF Store!StoreNext
<1>15. CASE UNCHANGED vars
  BY <1>15, <1>s DEF vars, device
<1> QED
  BY <1>1, <1>2, <1>3, <1>4, <1>5, <1>6, <1>7, <1>8, <1>9, <1>10, <1>11,
     <1>12, <1>13, <1>14, <1>15, <1>16, <1>17 DEF Next, DeviceNext, Store!StoreNext

(* deploy_release.py keeps the protocol of ReleaseState: a release comes   *)
(* into use on trial, and either it holds or the two names are exactly     *)
(* what they were (deploy_release.py install, rollback, prune).            *)
THEOREM ImplementsProtocol == Spec => FollowsProtocol
<1>1. IInv /\ [Next]_vars => [Store!StoreNext]_Store!store
  BY NextImplements
<1> QED
  BY <1>1, InitImplements, Invariance, PTL DEF Spec, FollowsProtocol, Store!StoreSpec

-----------------------------------------------------------------------------
(* What the protocol itself promises, which both tools follow *)

(* Every step of the protocol keeps what is named.                         *)
LEMMA StoreStep ==
  ASSUME Store!NamedHasFolder, [Store!StoreNext]_Store!store
  PROVE  Store!NamedHasFolder'
<1> USE DEF Store!NamedHasFolder, Store!Named
<1>1. CASE \E n \in Names : Store!KeepAs(n)
  BY <1>1 DEF Store!KeepAs
<1>2. CASE \E n \in Names, old \in Names \cup {None} : Store!PutInUse(n, old)
  BY <1>2 DEF Store!PutInUse, Store!OnTrial
<1>3. CASE Store!Accept
  BY <1>3 DEF Store!Accept, Store!Idle
<1>4. CASE Store!GoBack
  BY <1>4 DEF Store!GoBack, Store!Idle
<1>5. CASE Store!SwapReleases
  BY <1>5 DEF Store!SwapReleases
<1>6. CASE UNCHANGED Store!store
  BY <1>6 DEF Store!store
<1> QED
  BY <1>1, <1>2, <1>3, <1>4, <1>5, <1>6 DEF Store!StoreNext

(* What a state.json that follows the protocol names has its folder, the   *)
(* release a failed trial would come back to included: whatever is kept,   *)
(* put in use, taken back, swapped or pruned (deploy_release.py install,   *)
(* rollback and prune).                                                    *)
THEOREM NamedStays == Spec => []Store!NamedHasFolder
<1>1. Store!StoreInit => Store!NamedHasFolder
  BY DEF Store!StoreInit, Store!NamedHasFolder, Store!Named, Store!Idle
<1>2. Store!NamedHasFolder /\ [Store!StoreNext]_Store!store
        => Store!NamedHasFolder'
  BY StoreStep
<1>3. Store!StoreSpec => []Store!NamedHasFolder
  BY <1>1, <1>2, PTL DEF Store!StoreSpec
<1> QED
  BY <1>3, ImplementsProtocol, PTL DEF FollowsProtocol
=============================================================================
