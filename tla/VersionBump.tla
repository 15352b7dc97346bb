----------------------------- MODULE VersionBump -----------------------------
(***************************************************************************)
(* bump_manifest_version.py and bump_version.py: one version, kept in the  *)
(* native file, the manifest, the changelog, the lock file, the generated  *)
(* constants and the __version__ lines, moved by commands that write one   *)
(* file after another and may be killed between two of them.               *)
(*                                                                         *)
(* A version is the sequence of its three or four numbers.                 *)
(***************************************************************************)
EXTENDS Integers, Sequences, Functions

CONSTANTS Starts,       \* versions a repository may begin with
          Styles,       \* kinds of native file, of AllStyles
          MaxCommands,  \* bound: commands
          MaxEdits,     \* bound: changes of the native or lock file by other hands
          MaxKills      \* bound: killed commands

AllStyles == {"plain", "cargo", "pubspec", "npm", "fields", "fields+build"}

ASSUME BumpAssumption ==
  /\ Styles \subseteq AllStyles
  /\ Starts \subseteq Seq(Nat)
  /\ \A v \in Starts : /\ Len(v) = (IF v[1] > 0 \/ v[2] >= 8 THEN 4 ELSE 3)
                       /\ \A i \in 2 .. Len(v) : v[i] <= 9
  /\ MaxCommands \in Nat /\ MaxEdits \in Nat /\ MaxKills \in Nat

VARIABLES
  style,      \* the native file: its kind,
  native,     \* the numbers it holds,
  counter,    \* and its build number (pubspec)
  manifest, lock, mirror,
  changelog,  \* its versions, the newest first
  app,        \* lib/app_version.dart: the version and the build number
  agent,      \* the __version__ line of the agent
  cmd,        \* the command: its next step, its versions, its exit status,
              \* whether bump_version.py runs it, and `edits` when it began
  touched,    \* other hands set the native file to no next version (history)
  killed,     \* a command was killed (history)
  commands, edits, kills

files == <<native, counter, manifest, changelog, lock, mirror, app, agent>>
history == <<touched, killed>>
counters == <<commands, edits, kills>>
vars == <<style, files, cmd, history, counters>>

-----------------------------------------------------------------------------
(* Versions *)

Three(v) == SubSeq(v, 1, 3)
FromFour(v) == \/ v[1] > 0 \/ v[2] >= 8

(* Mutant: a patch that overflows does not reach the minor. *)
NextKeepsMinor(v) ==
  IF Len(v) = 4 /\ v[4] < 9 THEN [v EXCEPT ![4] = @ + 1]
  ELSE LET w == <<v[1], v[2], (v[3] + 1) % 10>>
       IN IF Len(v) = 4 \/ FromFour(w) THEN Append(w, 0) ELSE w

(* next_version: each number rolls over past nine, except the first.       *)
NextVersion(v) ==
  IF Len(v) = 4 /\ v[4] < 9 THEN [v EXCEPT ![4] = @ + 1]
  ELSE LET n == v[1] * 100 + v[2] * 10 + v[3] + 1
           w == <<n \div 100, (n \div 10) % 10, n % 10>>
       IN IF Len(v) = 4 \/ FromFour(w) THEN Append(w, 0) ELSE w

(* to_native: what a file of that kind can hold of a version.              *)
ToNative(v) == IF style \in {"pubspec", "npm"} THEN Three(v) ELSE v

SameVersion(read, declared) ==
  CASE style = "npm" -> read \in {declared, ToNative(declared)}
    [] style = "pubspec" -> ToNative(read) = ToNative(declared)
    [] OTHER -> read = declared

(* read_version: a build field counts from the version that has one.       *)
ReadVersion ==
  CASE style = "fields+build" /\ ~FromFour(native) -> Three(native)
    [] style = "pubspec" -> Three(native)
    [] OTHER -> native

(* replace_version: separate fields need a build field for four numbers.   *)
CanHold(v) == ~(style = "fields" /\ Len(v) = 4)
Replaced(v) == IF style = "fields+build" /\ Len(v) = 3 THEN Append(v, native[4])
               ELSE ToNative(v)

-----------------------------------------------------------------------------

(* A lock file nobody can take a version from: conflict marks in           *)
(* package-lock.json, a Cargo.lock without an entry of the package.        *)
Unreadable == <<-1>>

Lock(v) == IF style \in {"npm", "cargo"} THEN ToNative(v) ELSE <<>>
App(parts, n) == IF style = "pubspec" THEN <<parts, n>> ELSE <<>>

Init ==
  /\ style \in Styles
  /\ manifest \in {v \in Starts : CanHold(v)}
  /\ native = IF style = "fields+build" /\ Len(manifest) = 3
              THEN Append(manifest, 0) ELSE ToNative(manifest)
  /\ counter = 0 /\ changelog = <<manifest>> /\ lock = Lock(manifest)
  /\ mirror = manifest /\ app = App(native, 0) /\ agent = manifest
  /\ cmd = [step |-> "idle", old |-> manifest, new |-> manifest, code |-> 1,
            own |-> TRUE, at |-> 0]
  /\ touched = FALSE /\ killed = FALSE
  /\ commands = 0 /\ edits = 0 /\ kills = 0

At(step) == cmd.step = step

(* Mutant: the manifest is written first. *)
ManifestFirst == <<"manifest", "native", "mirrors", "changelog", "lock", "agent">>

(* The order of the writes of a command.                                   *)
Order == <<"native", "mirrors", "manifest", "changelog", "lock", "agent">>
Advance ==
  \E i \in 1 .. Len(Order) - 1 :
    /\ At(Order[i])
    /\ cmd' = [cmd EXCEPT !.step = Order[i + 1]]

Start == At("idle") /\ commands < MaxCommands /\ commands' = commands + 1
         /\ UNCHANGED <<style, files, history, edits, kills>>

Refuse(own) == cmd' = [cmd EXCEPT !.code = 1, !.own = own, !.at = edits]
Go(step, v, own) ==
  cmd' = [step |-> step, old |-> ReadVersion, new |-> v, code |-> 1, own |-> own,
          at |-> edits]

(* main without --sync: the native file is the manifest's version.         *)
Bump(own) ==
  /\ Start
  /\ LET new == NextVersion(manifest)
     IN IF SameVersion(ReadVersion, manifest) /\ CanHold(new)
        THEN Go(Order[1], new, own)
        ELSE Refuse(own)

(* main --sync: the native file is the manifest's version, or the next     *)
(* one, or its first three numbers with a zero to add.                     *)
Sync(own) ==
  /\ Start
  /\ LET read == ReadVersion
         new == NextVersion(manifest)
     IN CASE SameVersion(read, manifest) -> Go("changelog", manifest, own)
          [] ~SameVersion(read, manifest) /\ SameVersion(read, new) ->
               Go("manifest", new, own)
          [] ~SameVersion(read, manifest) /\ ~SameVersion(read, new)
               /\ new = Append(read, 0) ->
               IF CanHold(new) THEN Go("native", new, own) ELSE Refuse(own)
          [] OTHER -> Refuse(own)

(* A bump raises the build number of a pubspec.                            *)
WriteNative ==
  /\ At("native")
  /\ native' = Replaced(cmd.new)
  /\ counter' = counter + (IF style = "pubspec" THEN 1 ELSE 0)
  /\ Advance
  /\ UNCHANGED <<style, manifest, changelog, lock, mirror, app, agent,
                 history, counters>>

(* Only a line that holds the version read before is carried along.        *)
WriteMirrors ==
  /\ At("mirrors")
  /\ mirror' = IF mirror = cmd.old THEN cmd.new ELSE mirror
  /\ Advance
  /\ UNCHANGED <<style, native, counter, manifest, changelog, lock, app,
                 agent, history, counters>>

WriteManifest ==
  /\ At("manifest")
  /\ manifest' = cmd.new
  /\ Advance
  /\ UNCHANGED <<style, native, counter, changelog, lock, mirror, app, agent,
                 history, counters>>

WriteChangelog ==
  /\ At("changelog")
  /\ changelog' = IF cmd.new \in Range(changelog) THEN changelog
                   ELSE <<cmd.new>> \o changelog
  /\ Advance
  /\ UNCHANGED <<style, native, counter, manifest, lock, mirror, app, agent,
                 history, counters>>

(* Mutant: the lock file has the version as the native file had it. *)
LockedOld == Lock(cmd.old)

Locked == Lock(cmd.new)

(* sync_package_lock; finish: Cargo.lock or lib/app_version.dart.  A lock  *)
(* file that cannot be read is left as it is, and nobody asks.             *)
WriteLock ==
  /\ At("lock")
  /\ lock' = IF lock = Unreadable THEN lock ELSE Locked
  /\ app' = App(native, counter)
  /\ Advance
  /\ UNCHANGED <<style, native, counter, manifest, changelog, mirror, agent,
                 history, counters>>

(* bump_version.py: sync_agent_version, from the manifest.                 *)
WriteAgent ==
  /\ At("agent")
  /\ agent' = IF cmd.own THEN manifest ELSE agent
  /\ cmd' = [cmd EXCEPT !.step = "idle", !.code = 0]
  /\ UNCHANGED <<style, native, counter, manifest, changelog, lock, mirror,
                 app, history, counters>>

Kill ==
  /\ ~At("idle") /\ kills < MaxKills
  /\ kills' = kills + 1
  /\ killed' = TRUE
  /\ cmd' = [cmd EXCEPT !.step = "idle", !.code = 1]
  /\ UNCHANGED <<style, files, touched, commands, edits>>

(* A script of the project raises the native file, by the rule or without  *)
(* the fourth number; anything else is a version nobody expects.           *)
Edit ==
  /\ At("idle") /\ edits < MaxEdits
  /\ edits' = edits + 1
  /\ LET next == NextVersion(manifest)
     IN \E v \in {next, Three(next), NextVersion(next)} :
          /\ CanHold(v)
          /\ native' = Replaced(v)
          /\ touched' = (touched \/ v # next)
  /\ UNCHANGED <<style, cmd, counter, manifest, changelog, lock, mirror, app, agent,
                 killed, commands, kills>>

(* A merge or a package manager changes the lock file: it cannot be read,  *)
(* or has the version of the native file.                                  *)
EditLock ==
  /\ At("idle") /\ edits < MaxEdits /\ style \in {"npm", "cargo"}
  /\ edits' = edits + 1
  /\ lock' \in {Unreadable, native}
  /\ UNCHANGED <<style, cmd, native, counter, manifest, changelog, mirror, app,
                 agent, history, commands, kills>>

Next ==
  \/ \E own \in BOOLEAN : Bump(own) \/ Sync(own)
  \/ WriteNative \/ WriteMirrors \/ WriteManifest \/ WriteChangelog
  \/ WriteLock \/ WriteAgent
  \/ Kill \/ Edit \/ EditLock

Spec == Init /\ [][Next]_vars

-----------------------------------------------------------------------------
(* Safety *)

(* A command that ends with status 0, with no edit after it began, leaves  *)
(* one version everywhere, after whatever was killed or edited before it:  *)
(* the native file reads back as the manifest's, the changelog begins with *)
(* it, the lock file if it can be read, the generated constants and, by    *)
(* bump_version.py, the agent carry it (bump_manifest_version.py main,     *)
(* bump_version.py main).                                                  *)
(* The other __version__ lines follow where the native file holds all      *)
(* numbers and nothing was killed or edited.                               *)
LockHas(v) == lock = Unreadable \/ lock = Lock(v)

SuccessMeansAgreement ==
  (At("idle") /\ cmd.code = 0 /\ cmd.at = edits) =>
    /\ SameVersion(ReadVersion, manifest)
    /\ changelog[1] = manifest
    /\ LockHas(manifest) /\ (cmd.own => agent = manifest)
    /\ app = App(native, counter)
    /\ (style \notin {"npm", "pubspec"} /\ ~killed /\ edits = 0)
         => mirror = manifest

(* Refuted: the lock file is among them.  sync_package_lock returns False  *)
(* where it cannot read it, and no caller looks                            *)
(* (bump_manifest_version.py:238-242).                                     *)
SuccessMeansTheLockToo ==
  (At("idle") /\ cmd.code = 0 /\ cmd.at = edits) => lock = Lock(manifest)

(* The manifest goes through the versions one by one, none twice and none  *)
(* left out, over every carry and into the fourth number (next_version).   *)
Place(v) == v[1] * 1000 + v[2] * 100 + v[3] * 10 + (IF Len(v) = 4 THEN v[4] ELSE 0)
NoVersionIsSkipped ==
  [][manifest' # manifest =>
       /\ Place(manifest') - Place(manifest)
            = (IF Len(manifest) = 4 THEN 1 ELSE 10)
       /\ \A i \in 2 .. Len(manifest') : manifest'[i] \in 0 .. 9]_vars

(* A killed bump can be finished: whatever was killed, where other hands   *)
(* did no more than one increment, the native file has the manifest's      *)
(* version or the next one, which is what --sync accepts                   *)
(* (bump_manifest_version.py main, the order of its writes).               *)
ABumpCanBeFinished ==
  (At("idle") /\ ~touched) =>
    \/ SameVersion(ReadVersion, manifest)
    \/ SameVersion(ReadVersion, NextVersion(manifest))
=============================================================================
