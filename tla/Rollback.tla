------------------------------- MODULE Rollback -------------------------------
(***************************************************************************)
(* The backup of system files the installers overwrite, and the way back:  *)
(* provisioning/rollback.py, called by install_local_agent.sh and          *)
(* install_wifi_provision.sh, which share one manifest.                    *)
(*                                                                         *)
(* An installer backs a file up (the copy first, the manifest second) and  *)
(* then overwrites it; `set -e` stops it when the backup fails.  An        *)
(* operator restores everything the manifest records.  Commands run one    *)
(* after the other; each may be interrupted at any step, and a backup file *)
(* may disappear at any time.  The manifest is never cleared, so an        *)
(* installer that runs again records the same file again.                  *)
(*                                                                         *)
(* A content stands for a whole file with its mode.  The name of a backup  *)
(* file is the number of its entry and the name of its target.             *)
(***************************************************************************)
EXTENDS Naturals, Sequences

CONSTANTS
  Targets,        \* the system files installers overwrite
  Contents,       \* what a file may hold
  Absent,         \* there is no such file
  Torn,           \* a file whose copy stopped half-way
  MaxEntries,     \* bound: the entries of the manifest
  MaxCommands,    \* bound: installers and restores
  MaxInterrupts   \* bound: kills and power cuts

ASSUME ContentAssumption ==
  /\ Absent \notin Contents
  /\ Torn \notin Contents
  /\ Absent # Torn
ASSUME BoundAssumption ==
  /\ MaxEntries \in Nat
  /\ MaxCommands \in Nat
  /\ MaxInterrupts \in Nat

VARIABLES
  files,      \* the system files
  store,      \* the backup files, by number of entry and target
  manifest,   \* the entries of manifest.json
  readable,   \* manifest.json is the JSON text of these entries
  cmd,        \* the command that runs: its place and its local variables
  begun,      \* the files and the missing backups when it began (history)
  commands,   \* how many commands were started
  interrupts  \* how many were interrupted

vars == <<files, store, manifest, readable, cmd, begun, commands, interrupts>>

-----------------------------------------------------------------------------
File == Contents \cup {Absent, Torn}
Slots == 1 .. MaxEntries

(* RollbackEntry.  `was` is what the file held when it was recorded; the   *)
(* code has only existed_before of it (history).                           *)
Entry == [target : Targets, was : File]
ExistedBefore(e) == e.was # Absent

Places == {"idle", "copy", "record", "install", "check", "restore"}
Results == {"none", "running", "installed", "stopped", "passed", "refused",
            "partial", "interrupted"}

TypeOK ==
  /\ files \in [Targets -> File]
  /\ store \in [Slots -> [Targets -> File]]
  /\ manifest \in Seq(Entry)
  /\ Len(manifest) <= MaxEntries
  /\ readable \in BOOLEAN
  /\ cmd \in [pc : Places, target : Targets, next : 0 .. MaxEntries,
              restored : SUBSET Targets, result : Results]
  /\ begun \in [files : [Targets -> File], missing : BOOLEAN]
  /\ commands \in 0 .. MaxCommands
  /\ interrupts \in 0 .. MaxInterrupts

Init ==
  /\ files \in [Targets -> Contents \cup {Absent}]
  /\ store = [i \in Slots |-> [t \in Targets |-> Absent]]
  /\ manifest = <<>>
  /\ readable = TRUE
  /\ \E t \in Targets :
       cmd = [pc |-> "idle", target |-> t, next |-> 0, restored |-> {},
              result |-> "none"]
  /\ begun = [files |-> files, missing |-> FALSE]
  /\ commands = 0
  /\ interrupts = 0

-----------------------------------------------------------------------------
(* The backup of an entry is not where the manifest says. *)
Gone(i) ==
  /\ ExistedBefore(manifest[i])
  /\ store[i][manifest[i].target] = Absent

Entries == 1 .. Len(manifest)
SomethingGone == \E i \in Entries : Gone(i)

Goto(place) == cmd' = [cmd EXCEPT !.pc = place]
End(result) == cmd' = [cmd EXCEPT !.pc = "idle", !.result = result]

Start(place, t, next) ==
  /\ cmd.pc = "idle"
  /\ commands < MaxCommands
  /\ commands' = commands + 1
  /\ begun' = [files |-> files, missing |-> SomethingGone]
  /\ cmd' = [pc |-> place, target |-> t, next |-> next, restored |-> {},
             result |-> "running"]
  /\ UNCHANGED <<files, store, manifest, readable, interrupts>>

-----------------------------------------------------------------------------
(* backup_before_write, and the installer around it *)

(* The installer runs and its backup reads the manifest. *)
StartInstaller(t) ==
  /\ readable
  /\ Len(manifest) < MaxEntries
  /\ Start("copy", t, 0)

(* Mutant: every backup of a target has the same name. *)
SlotOfTarget == 1

(* The number in the name of a backup is the number of entries so far. *)
Slot == Len(manifest) + 1

(* copy2 of a file that exists; it may fail half-way. *)
BackupCopy ==
  /\ cmd.pc = "copy"
  /\ \/ /\ files[cmd.target] = Absent
        /\ Goto("record")
        /\ UNCHANGED store
     \/ /\ files[cmd.target] # Absent
        /\ store' = [store EXCEPT ![Slot][cmd.target] = files[cmd.target]]
        /\ Goto("record")
     \/ /\ files[cmd.target] # Absent
        /\ store' = [store EXCEPT ![Slot][cmd.target] = Torn]
        /\ End("stopped")
  /\ UNCHANGED <<files, manifest, readable, begun, commands, interrupts>>

(* The manifest is written with the new entry at its end. *)
BackupRecord ==
  /\ cmd.pc = "record"
  /\ manifest' = Append(manifest, [target |-> cmd.target,
                                   was |-> files[cmd.target]])
  /\ Goto("install")
  /\ UNCHANGED <<files, store, readable, begun, commands, interrupts>>

(* `install -m 0644` puts the new file in place. *)
Install(c) ==
  /\ cmd.pc = "install"
  /\ files' = [files EXCEPT ![cmd.target] = c]
  /\ End("installed")
  /\ UNCHANGED <<store, manifest, readable, begun, commands, interrupts>>

-----------------------------------------------------------------------------
(* restore_all *)

(* A manifest that is not there or does not parse restores nothing: the    *)
(* command ends with an error and changes no state.                        *)
StartRestore ==
  /\ readable
  /\ manifest # <<>>
  /\ \E t \in Targets : Start("check", t, Len(manifest))

(* Mutant: no first pass. *)
NoFirstPass ==
  /\ cmd.pc = "check"
  /\ cmd' = [cmd EXCEPT !.pc = "restore", !.next = Len(manifest)]
  /\ UNCHANGED <<files, store, manifest, readable, begun, commands, interrupts>>

(* The first pass looks at every backup, from the last entry to the first. *)
Check ==
  /\ cmd.pc = "check"
  /\ \/ /\ cmd.next = 0
        /\ cmd' = [cmd EXCEPT !.pc = "restore", !.next = Len(manifest)]
     \/ /\ cmd.next > 0
        /\ ~Gone(cmd.next)
        /\ cmd' = [cmd EXCEPT !.next = cmd.next - 1]
     \/ /\ cmd.next > 0
        /\ Gone(cmd.next)
        /\ End("refused")
  /\ UNCHANGED <<files, store, manifest, readable, begun, commands, interrupts>>

(* Mutant: the second pass goes from the first entry to the last. *)
FirstToLast == Len(manifest) + 1 - cmd.next

(* The entry the second pass is at: from the last one to the first. *)
Current == cmd.next

(* copy2 of the backup, or the removal of a file that was not there. *)
RestoreEntry ==
  LET e == manifest[Current] IN
  /\ cmd.pc = "restore"
  /\ cmd.next > 0
  /\ ~Gone(Current)
  /\ files' = [files EXCEPT ![e.target] = IF ExistedBefore(e)
                                            THEN store[Current][e.target]
                                            ELSE Absent]
  /\ cmd' = [cmd EXCEPT !.next = cmd.next - 1,
                        !.restored = cmd.restored \cup {e.target}]
  /\ UNCHANGED <<store, manifest, readable, begun, commands, interrupts>>

(* PartialRestoreError: the backup went after the first pass, or the file  *)
(* cannot be written (nothing, or half of it, is), or cannot be removed.   *)
RestoreFails ==
  LET e == manifest[Current] IN
  /\ cmd.pc = "restore"
  /\ cmd.next > 0
  /\ \/ UNCHANGED files
     \/ /\ ExistedBefore(e)
        /\ ~Gone(Current)
        /\ files' = [files EXCEPT ![e.target] = Torn]
  /\ End("partial")
  /\ UNCHANGED <<store, manifest, readable, begun, commands, interrupts>>

RestoreEnds ==
  /\ cmd.pc = "restore"
  /\ cmd.next = 0
  /\ End("passed")
  /\ UNCHANGED <<files, store, manifest, readable, begun, commands, interrupts>>

-----------------------------------------------------------------------------
(* Around the commands *)

(* The operator edits or removes a system file between two commands. *)
Edit(t, c) ==
  /\ cmd.pc = "idle"
  /\ files' = [files EXCEPT ![t] = c]
  /\ cmd' = [cmd EXCEPT !.result = "none"]
  /\ UNCHANGED <<store, manifest, readable, begun, commands, interrupts>>

(* A backup file disappears. *)
LoseBackup(i, t) ==
  /\ store[i][t] # Absent
  /\ store' = [store EXCEPT ![i][t] = Absent]
  /\ UNCHANGED <<files, manifest, readable, cmd, begun, commands, interrupts>>

(* A kill or a power cut: the file that is being written is torn, be it a  *)
(* backup, the manifest (write_text truncates it first) or a system file.  *)
Interrupted ==
  /\ cmd.pc # "idle"
  /\ interrupts < MaxInterrupts
  /\ interrupts' = interrupts + 1
  /\ End("interrupted")
  /\ \/ UNCHANGED <<files, store, readable>>
     \/ /\ cmd.pc = "copy" /\ files[cmd.target] # Absent
        /\ store' = [store EXCEPT ![Slot][cmd.target] = Torn]
        /\ UNCHANGED <<files, readable>>
     \/ /\ cmd.pc = "record"
        /\ readable' = FALSE
        /\ UNCHANGED <<files, store>>
     \/ /\ cmd.pc = "install"
        /\ files' = [files EXCEPT ![cmd.target] = Torn]
        /\ UNCHANGED <<store, readable>>
     \/ /\ cmd.pc = "restore" /\ cmd.next > 0
        /\ ExistedBefore(manifest[Current]) /\ ~Gone(Current)
        /\ files' = [files EXCEPT ![manifest[Current].target] = Torn]
        /\ UNCHANGED <<store, readable>>
  /\ UNCHANGED <<manifest, begun, commands>>

Next ==
  \/ \E t \in Targets : StartInstaller(t)
  \/ BackupCopy \/ BackupRecord
  \/ \E c \in Contents : Install(c)
  \/ StartRestore \/ Check
  \/ RestoreEntry \/ RestoreFails \/ RestoreEnds
  \/ \E t \in Targets, c \in Contents \cup {Absent} : Edit(t, c)
  \/ \E i \in Slots, t \in Targets : LoseBackup(i, t)
  \/ Interrupted

Spec == Init /\ [][Next]_vars

-----------------------------------------------------------------------------
(* Safety *)

(* The first entry of a target is what was there before any installer.     *)
First(i) == \A j \in 1 .. i - 1 : manifest[j].target # manifest[i].target

(* A restore that passes leaves every recorded file as it was before the   *)
(* first installer touched it: however often it was recorded, edited in    *)
(* between, restored half-way or torn, and whatever earlier backup was     *)
(* interrupted (restore_all: most-recent first).                           *)
PassedIsOriginal ==
  cmd.pc = "idle" /\ cmd.result = "passed"
    => \A i \in Entries :
         First(i) => files[manifest[i].target] = manifest[i].was

(* A backup that is missing when the restore begins aborts it before any   *)
(* file is changed, whichever entry it belongs to (restore_all: "aborts    *)
(* with zero mutations").                                                  *)
MissingChangesNothing ==
  begun.missing /\ (cmd.pc \in {"check", "restore"}
                    \/ cmd.result \in {"passed", "refused", "partial"})
    => /\ files = begun.files
       /\ cmd.pc # "restore"
       /\ cmd.result \notin {"passed", "partial"}

(* A backup the manifest names, if it is still there, is what the file     *)
(* held when it was recorded: no later backup has its name, no interrupted *)
(* or failed copy is recorded as a backup (backup_before_write).           *)
BackupsAreExact ==
  \A i \in Entries :
    LET e == manifest[i] IN
    ExistedBefore(e) => store[i][e.target] \in {e.was, Absent}

-----------------------------------------------------------------------------
(* The inductive invariant                                                 *)

(* The entry being made has a number of its own and is copied first. *)
EntryInTheMaking ==
  /\ cmd.pc \in {"copy", "record"} => Len(manifest) < MaxEntries
  /\ cmd.pc = "record" /\ files[cmd.target] # Absent
       => store[Slot][cmd.target] \in {files[cmd.target], Absent}

(* The first pass has a missing backup still before it. *)
FirstPassStops ==
  /\ cmd.pc \in {"check", "restore"} => cmd.next <= Len(manifest)
  /\ cmd.pc = "check" /\ begun.missing => \E i \in 1 .. cmd.next : Gone(i)

(* What the second pass has passed holds what its earliest entry recorded. *)
SecondPassBuilds ==
  cmd.pc = "restore"
    => \A i \in cmd.next + 1 .. Len(manifest) :
         (\A j \in cmd.next + 1 .. i - 1 :
            manifest[j].target # manifest[i].target)
           => files[manifest[i].target] = manifest[i].was

IInv ==
  /\ TypeOK
  /\ EntryInTheMaking
  /\ FirstPassStops
  /\ SecondPassBuilds
  /\ BackupsAreExact
  /\ MissingChangesNothing
  /\ PassedIsOriginal

-----------------------------------------------------------------------------
(* What the docstring of PartialRestoreError says and the code does not    *)
(* keep: "Carries exactly which targets were already restored": each of    *)
(* them holds what it held before the installers.                          *)
PartialNamesRestored ==
  cmd.pc = "idle" /\ cmd.result = "partial"
    => \A i \in Entries :
         First(i) /\ manifest[i].target \in cmd.restored
           => files[manifest[i].target] = manifest[i].was
=============================================================================
