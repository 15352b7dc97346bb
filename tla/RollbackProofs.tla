---------------------------- MODULE RollbackProofs ----------------------------
(***************************************************************************)
(* The safety properties of Rollback, for every set of targets and         *)
(* contents, every number of entries, commands and interruptions.          *)
(*                                                                         *)
(* The heart of the argument is SecondPassBuilds: walking the manifest     *)
(* from its end, every target already passed holds what the earliest entry *)
(* passed so far recorded, so that at the beginning of the manifest it     *)
(* holds what its first entry recorded.                                    *)
(***************************************************************************)
EXTENDS Rollback, TLAPS

\* The initial state satisfies the invariant: the manifest is empty.
LEMMA InitIInv == Init => IInv
<1> SUFFICES ASSUME Init
             PROVE  IInv
  OBVIOUS
<1> USE ContentAssumption, BoundAssumption DEF Init, Entries, Gone
<1>1. TypeOK
  BY DEF TypeOK, File, Slots, Entry, Places, Results
<1>2. EntryInTheMaking /\ FirstPassStops /\ SecondPassBuilds
  BY DEF EntryInTheMaking, FirstPassStops, SecondPassBuilds
<1>3. BackupsAreExact /\ MissingChangesNothing /\ PassedIsOriginal
  BY DEF BackupsAreExact, MissingChangesNothing, PassedIsOriginal
<1> QED
  BY <1>1, <1>2, <1>3 DEF IInv

\* A backup file is written or removed.
LEMMA StoreType ==
  ASSUME store \in [Slots -> [Targets -> File]],
         NEW i \in Slots, NEW t \in Targets, NEW c \in File,
         store' = [store EXCEPT ![i][t] = c]
  PROVE  store' \in [Slots -> [Targets -> File]]
  OBVIOUS

\* Every step preserves the types.
LEMMA TypeStep ==
  ASSUME TypeOK, EntryInTheMaking, FirstPassStops, [Next]_vars
  PROVE  TypeOK'
<1> USE ContentAssumption, BoundAssumption DEF TypeOK, EntryInTheMaking,
       FirstPassStops, File, Slots, Entry, Entries, Places, Results, Slot
<1>1. ASSUME NEW t \in Targets, StartInstaller(t)
      PROVE  TypeOK'
  <2>1. cmd' \in [pc : Places, target : Targets, next : 0 .. MaxEntries,
                   restored : SUBSET Targets, result : Results]
    BY <1>1 DEF StartInstaller, Start
  <2>2. begun' \in [files : [Targets -> File], missing : BOOLEAN]
    BY <1>1 DEF StartInstaller, Start, SomethingGone
  <2> QED
    BY <2>1, <2>2, <1>1 DEF StartInstaller, Start
<1>2. ASSUME BackupCopy
      PROVE  TypeOK'
  <2>1. cmd' \in [pc : Places, target : Targets, next : 0 .. MaxEntries,
                   restored : SUBSET Targets, result : Results]
    BY <1>2 DEF BackupCopy, Goto, End
  <2>2. store' \in [Slots -> [Targets -> File]]
    <3>1. cmd.pc = "copy" /\ Slot \in Slots
      BY <1>2 DEF BackupCopy
    <3>2. files[cmd.target] \in File /\ Torn \in File
      OBVIOUS
    <3>3. \/ store' = store
          \/ \E c \in File : store' = [store EXCEPT ![Slot][cmd.target] = c]
      BY <1>2, <3>2 DEF BackupCopy
    <3>4. ASSUME NEW c \in File, store' = [store EXCEPT ![Slot][cmd.target] = c]
          PROVE  store' \in [Slots -> [Targets -> File]]
      <4>1. cmd.target \in Targets
        OBVIOUS
      <4> HIDE DEF Slots, File, Slot
      <4> QED
        BY <3>1, <3>4, <4>1, StoreType
    <3> QED
      BY <3>3, <3>4
  <2> QED
    BY <2>1, <2>2, <1>2 DEF BackupCopy, Goto, End
<1>3. ASSUME BackupRecord
      PROVE  TypeOK'
  <2>1. cmd' \in [pc : Places, target : Targets, next : 0 .. MaxEntries,
                   restored : SUBSET Targets, result : Results]
    BY <1>3 DEF BackupRecord, Goto
  <2>2. [target |-> cmd.target, was |-> files[cmd.target]] \in Entry
    BY <1>3 DEF BackupRecord
  <2>3. manifest' \in Seq(Entry) /\ Len(manifest') <= MaxEntries
    BY <1>3, <2>2 DEF BackupRecord
  <2> QED
    BY <2>1, <2>2, <2>3, <1>3 DEF BackupRecord, Goto
<1>4. ASSUME NEW c \in Contents, Install(c)
      PROVE  TypeOK'
  BY <1>4 DEF Install, End
<1>5. ASSUME StartRestore
      PROVE  TypeOK'
  <2>1. cmd' \in [pc : Places, target : Targets, next : 0 .. MaxEntries,
                   restored : SUBSET Targets, result : Results]
    BY <1>5 DEF StartRestore, Start
  <2>2. begun' \in [files : [Targets -> File], missing : BOOLEAN]
    BY <1>5 DEF StartRestore, Start, SomethingGone
  <2> QED
    BY <2>1, <2>2, <1>5 DEF StartRestore, Start
<1>6. ASSUME Check
      PROVE  TypeOK'
  <2>1. Len(manifest) \in 0 .. MaxEntries
    OBVIOUS
  <2>2. cmd' \in [pc : Places, target : Targets, next : 0 .. MaxEntries,
                   restored : SUBSET Targets, result : Results]
    <3>1. \/ cmd' = [cmd EXCEPT !.pc = "restore", !.next = Len(manifest)]
          \/ cmd.next > 0 /\ cmd' = [cmd EXCEPT !.next = cmd.next - 1]
          \/ cmd' = [cmd EXCEPT !.pc = "idle", !.result = "refused"]
      BY <1>6 DEF Check, End
    <3>2. CASE cmd' = [cmd EXCEPT !.pc = "restore", !.next = Len(manifest)]
      BY <2>1, <3>2
    <3>3. CASE cmd.next > 0 /\ cmd' = [cmd EXCEPT !.next = cmd.next - 1]
      <4>1. cmd.next - 1 \in 0 .. MaxEntries
        BY <3>3
      <4> QED
        BY <3>3, <4>1
    <3>4. CASE cmd' = [cmd EXCEPT !.pc = "idle", !.result = "refused"]
      BY <3>4
    <3> QED
      BY <3>1, <3>2, <3>3, <3>4
  <2> QED
    BY <2>1, <2>2, <1>6 DEF Check, End
<1>7. ASSUME RestoreEntry
      PROVE  TypeOK'
  <2>1. manifest[Current] \in Entry
    <3>1. cmd.next \in 1 .. Len(manifest)
      BY <1>7 DEF RestoreEntry
    <3> HIDE DEF Entry
    <3> QED
      BY <3>1 DEF Current
  <2>2. cmd' \in [pc : Places, target : Targets, next : 0 .. MaxEntries,
                   restored : SUBSET Targets, result : Results]
    <3>1. cmd' = [cmd EXCEPT !.next = cmd.next - 1,
                       !.restored = cmd.restored \cup {manifest[Current].target}]
      BY <1>7 DEF RestoreEntry
    <3>2. /\ cmd.next - 1 \in 0 .. MaxEntries
          /\ cmd.restored \cup {manifest[Current].target} \in SUBSET Targets
      BY <1>7, <2>1 DEF RestoreEntry
    <3> QED
      BY <3>1, <3>2
  <2>3. files' \in [Targets -> File]
    BY <1>7, <2>1 DEF RestoreEntry, Current
  <2> QED
    BY <2>1, <2>2, <2>3, <1>7 DEF RestoreEntry, Current
<1>8. ASSUME RestoreFails
      PROVE  TypeOK'
  BY <1>8 DEF RestoreFails, Current, End
<1>9. ASSUME RestoreEnds
      PROVE  TypeOK'
  BY <1>9 DEF RestoreEnds, End
<1>10. ASSUME NEW t \in Targets, NEW c \in Contents \cup {Absent}, Edit(t, c)
      PROVE  TypeOK'
  BY <1>10 DEF Edit
<1>11. ASSUME NEW i \in Slots, NEW t \in Targets, LoseBackup(i, t)
      PROVE  TypeOK'
  BY <1>11 DEF LoseBackup
<1>12. ASSUME Interrupted
      PROVE  TypeOK'
  <2>1. cmd' \in [pc : Places, target : Targets, next : 0 .. MaxEntries,
                   restored : SUBSET Targets, result : Results]
    BY <1>12 DEF Interrupted, End
  <2>2. files' \in [Targets -> File]
    BY <1>12 DEF Interrupted, End
  <2>3. store' \in [Slots -> [Targets -> File]]
    <3>1. \/ store' = store
          \/ /\ cmd.pc = "copy"
             /\ store' = [store EXCEPT ![Slot][cmd.target] = Torn]
      BY <1>12 DEF Interrupted
    <3>2. cmd.pc = "copy" => Slot \in Slots
      OBVIOUS
    <3>3. CASE cmd.pc = "copy" /\ store' = [store EXCEPT ![Slot][cmd.target] = Torn]
      <4>1. cmd.target \in Targets /\ Torn \in File
        OBVIOUS
      <4> HIDE DEF Slots, File, Slot
      <4> QED
        BY <3>2, <3>3, <4>1, StoreType
    <3> QED
      BY <3>1, <3>3
  <2>4. readable' \in BOOLEAN
    BY <1>12, Zenon DEF Interrupted
  <2>5. interrupts' \in 0 .. MaxInterrupts
    BY <1>12 DEF Interrupted
  <2> QED
    BY <2>1, <2>2, <2>3, <2>4, <2>5, <1>12 DEF Interrupted, Current, End
<1>13. CASE UNCHANGED vars
  BY <1>13 DEF vars
<1> QED
  BY <1>1, <1>2, <1>3, <1>4, <1>5, <1>6, <1>7, <1>8, <1>9, <1>10, <1>11, <1>12, <1>13 DEF Next

\* Every step preserves the rest, given the types.
LEMMA SafetyStep ==
  ASSUME IInv, TypeOK', [Next]_vars
  PROVE  IInv'
<1> USE ContentAssumption, BoundAssumption DEF IInv, TypeOK,
       EntryInTheMaking, FirstPassStops, SecondPassBuilds, BackupsAreExact,
       MissingChangesNothing, PassedIsOriginal, Entries, Gone, ExistedBefore, First, Slot
<1>1. ASSUME NEW t \in Targets, StartInstaller(t)
      PROVE  IInv'
  BY <1>1 DEF StartInstaller, Start, SomethingGone
<1>2. ASSUME BackupCopy
      PROVE  IInv'
  <2>0. /\ cmd.pc = "copy"
        /\ Slot \in Slots
        /\ \A i \in Entries : i # Slot /\ i \in Slots
    BY <1>2 DEF BackupCopy, Slots
  <2>1. EntryInTheMaking'
    <3>1. CASE cmd' = [cmd EXCEPT !.pc = "record"] /\ files[cmd.target] = Absent
      BY <1>2, <3>1 DEF BackupCopy
    <3>2. CASE /\ cmd' = [cmd EXCEPT !.pc = "record"]
               /\ store' = [store EXCEPT ![Slot][cmd.target] = files[cmd.target]]
      <4>1. store'[Slot][cmd.target] = files[cmd.target]
        BY <2>0, <3>2
      <4> QED
        BY <1>2, <3>2, <4>1 DEF BackupCopy
    <3>3. CASE cmd' = [cmd EXCEPT !.pc = "idle", !.result = "stopped"]
      BY <3>3
    <3> QED
      BY <1>2, <3>1, <3>2, <3>3 DEF BackupCopy, Goto, End
  <2>2. FirstPassStops'
    BY <1>2 DEF BackupCopy, Goto, End
  <2>3. SecondPassBuilds'
    BY <1>2 DEF BackupCopy, Goto, End
  <2>4. BackupsAreExact'
    <3>1. \A i \in Entries : store'[i] = store[i]
      BY <1>2, <2>0 DEF BackupCopy
    <3> QED
      BY <1>2, <3>1 DEF BackupCopy
  <2>5. MissingChangesNothing'
    BY <1>2 DEF BackupCopy, Goto, End
  <2>6. PassedIsOriginal'
    BY <1>2 DEF BackupCopy, Goto, End
  <2> QED
    BY <2>1, <2>2, <2>3, <2>4, <2>5, <2>6
<1>3. ASSUME BackupRecord
      PROVE  IInv'
  <2>1. EntryInTheMaking'
    BY <1>3 DEF BackupRecord, Goto
  <2>2. FirstPassStops'
    BY <1>3 DEF BackupRecord, Goto
  <2>3. SecondPassBuilds'
    BY <1>3 DEF BackupRecord, Goto
  <2>4. BackupsAreExact'
    BY <1>3 DEF BackupRecord, Goto
  <2>5. MissingChangesNothing'
    BY <1>3 DEF BackupRecord, Goto
  <2>6. PassedIsOriginal'
    BY <1>3 DEF BackupRecord, Goto
  <2> QED
    BY <2>1, <2>2, <2>3, <2>4, <2>5, <2>6
<1>4. ASSUME NEW c \in Contents, Install(c)
      PROVE  IInv'
  BY <1>4 DEF Install, End
<1>5. ASSUME StartRestore
      PROVE  IInv'
  BY <1>5 DEF StartRestore, Start, SomethingGone
<1>6. ASSUME Check
      PROVE  IInv'
  <2>0. cmd.pc = "check" /\ UNCHANGED <<files, store, manifest, begun>>
    BY <1>6 DEF Check
  <2>1. CASE cmd' = [cmd EXCEPT !.pc = "restore", !.next = Len(manifest)]
    <3>1. cmd.next = 0
      BY <1>6, <2>1 DEF Check, End
    <3> QED
      BY <2>0, <2>1, <3>1
  <2>2. CASE cmd' = [cmd EXCEPT !.next = cmd.next - 1]
    <3>1. cmd.next > 0 /\ ~Gone(cmd.next)
      BY <1>6, <2>2 DEF Check, End
    <3>2. cmd'.next = cmd.next - 1 /\ cmd'.pc = "check" /\ cmd'.result = cmd.result
      BY <2>0, <2>2
    <3>3. \A i \in 1 .. cmd.next : Gone(i) => i \in 1 .. cmd'.next
      BY <3>1, <3>2
    <3> QED
      BY <2>0, <3>2, <3>3
  <2>3. CASE cmd' = [cmd EXCEPT !.pc = "idle", !.result = "refused"]
    BY <2>0, <2>3
  <2> QED
    BY <1>6, <2>1, <2>2, <2>3 DEF Check, End
<1>7. ASSUME RestoreEntry
      PROVE  IInv'
  <2>1. EntryInTheMaking'
    BY <1>7 DEF RestoreEntry, Current
  <2>2. FirstPassStops'
    BY <1>7 DEF RestoreEntry, Current
  <2>3. SecondPassBuilds'
    <3> DEFINE e == manifest[cmd.next]
    <3>1. /\ cmd.pc = "restore" /\ cmd.next \in 1 .. Len(manifest)
          /\ cmd'.next = cmd.next - 1
          /\ UNCHANGED <<store, manifest>>
      BY <1>7 DEF RestoreEntry
    <3>2. files' = [files EXCEPT ![e.target] = e.was]
      BY <1>7, <3>1 DEF RestoreEntry, Current
    <3>3. ASSUME NEW i \in cmd.next .. Len(manifest),
                 \A j \in cmd.next .. i - 1 :
                   manifest[j].target # manifest[i].target
          PROVE  files'[manifest[i].target] = manifest[i].was
      <4>1. CASE i = cmd.next
        BY <3>1, <3>2, <4>1 DEF Entry
      <4>2. CASE i # cmd.next
        <5>1. manifest[i].target # e.target
          BY <3>1, <3>3, <4>2
        <5>2. files[manifest[i].target] = manifest[i].was
          BY <3>1, <3>3, <4>2
        <5> QED
          BY <3>2, <5>1, <5>2
      <4> QED
        BY <4>1, <4>2
    <3> QED
      BY <3>1, <3>3
  <2>4. BackupsAreExact'
    BY <1>7 DEF RestoreEntry, Current
  <2>5. MissingChangesNothing'
    BY <1>7 DEF RestoreEntry, Current
  <2>6. PassedIsOriginal'
    BY <1>7 DEF RestoreEntry, Current
  <2> QED
    BY <2>1, <2>2, <2>3, <2>4, <2>5, <2>6
<1>8. ASSUME RestoreFails
      PROVE  IInv'
  BY <1>8 DEF RestoreFails, Current, End
<1>9. ASSUME RestoreEnds
      PROVE  IInv'
  BY <1>9 DEF RestoreEnds, End
<1>10. ASSUME NEW t \in Targets, NEW c \in Contents \cup {Absent}, Edit(t, c)
      PROVE  IInv'
  BY <1>10 DEF Edit
<1>11. ASSUME NEW i \in Slots, NEW t \in Targets, LoseBackup(i, t)
      PROVE  IInv'
  BY <1>11 DEF LoseBackup
<1>12. ASSUME Interrupted
      PROVE  IInv'
  <2>1. EntryInTheMaking'
    BY <1>12 DEF Interrupted, Current, End
  <2>2. FirstPassStops'
    BY <1>12 DEF Interrupted, Current, End
  <2>3. SecondPassBuilds'
    BY <1>12 DEF Interrupted, Current, End
  <2>4. BackupsAreExact'
    <3>1. \A i \in Entries : store'[i] = store[i]
      BY <1>12 DEF Interrupted, Slots
    <3> QED
      BY <1>12, <3>1 DEF Interrupted
  <2>5. MissingChangesNothing'
    BY <1>12 DEF Interrupted, Current, End
  <2>6. PassedIsOriginal'
    BY <1>12 DEF Interrupted, Current, End
  <2> QED
    BY <2>1, <2>2, <2>3, <2>4, <2>5, <2>6
<1>13. CASE UNCHANGED vars
  BY <1>13 DEF vars
<1> QED
  BY <1>1, <1>2, <1>3, <1>4, <1>5, <1>6, <1>7, <1>8, <1>9,
     <1>10, <1>11, <1>12, <1>13 DEF Next

\* The invariant of which the theorems below are consequences.
THEOREM Invariance == Spec => []IInv
<1>1. Init => IInv
  BY InitIInv
<1>2. IInv /\ [Next]_vars => IInv'
  <2> SUFFICES ASSUME IInv, [Next]_vars
               PROVE  IInv'
    OBVIOUS
  <2>1. TypeOK'
    BY TypeStep DEF IInv
  <2> QED
    BY <2>1, SafetyStep
<1> QED
  BY <1>1, <1>2, PTL DEF Spec

\* Every variable keeps its type.
THEOREM TypeCorrect == Spec => []TypeOK
<1>1. IInv => TypeOK
  BY DEF IInv
<1> QED
  BY <1>1, Invariance, PTL

\* restore_all, last entry first, ends at what the first entries recorded.
THEOREM RestoreIsExact == Spec => []PassedIsOriginal
<1>1. IInv => PassedIsOriginal
  BY DEF IInv
<1> QED
  BY <1>1, Invariance, PTL

\* restore_all validates every entry before it changes a file.
THEOREM RefusedInTime == Spec => []MissingChangesNothing
<1>1. IInv => MissingChangesNothing
  BY DEF IInv
<1> QED
  BY <1>1, Invariance, PTL

\* backup_before_write never overwrites a backup the manifest names.
THEOREM BackupsStay == Spec => []BackupsAreExact
<1>1. IInv => BackupsAreExact
  BY DEF IInv
<1> QED
  BY <1>1, Invariance, PTL

==============================================================================
