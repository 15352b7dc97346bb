-------------------------- MODULE DeployTreeProofs --------------------------
(***************************************************************************)
(* The safety properties of DeployTree, for every set of programs and      *)
(* parts, every number of release names, every setting and every bound on  *)
(* commands and interruptions.                                             *)
(*                                                                         *)
(* IInv is inductive.  The types are preserved by themselves; the rest of  *)
(* it, Safety, in one step per action.                                     *)
(***************************************************************************)
EXTENDS DeployTree, TLAPS

\* The settings are read once: no step changes them.
LEMMA SettingsStay ==
  /\ RestartOnDeploy \in BOOLEAN
  /\ RestartOnDeploy' = RestartOnDeploy
<1>1. RestartOnDeploy \in BOOLEAN
  <2> DEFINE value == File["restartOnDeploy"]
  <2>1. CASE "restartOnDeploy" \in DOMAIN File /\ value.is = "bool"
    <3>1. value \in [is : {"bool"}, b : BOOLEAN]
      BY <2>1, FileAssumption DEF Other
    <3> QED
      BY <2>1, <3>1 DEF RestartOnDeploy, OnOff
  <2> QED
    BY <2>1 DEF RestartOnDeploy, OnOff
<1>2. RestartOnDeploy' = RestartOnDeploy
  BY DEF RestartOnDeploy, OnOff
<1> QED
  BY <1>1, <1>2

\* Every step preserves the types.
LEMMA TypeStep ==
  ASSUME TypeOK, [Next]_vars
  PROVE  TypeOK'
<1>a. /\ None \in Entry
      /\ \A n \in Releases, t \in Payloads :
           [release |-> n, sha |-> t] \in Entry
  BY BoundsAssumption DEF None, Entry, Payloads, Releases
<1>b. /\ {} \in Payloads
      /\ {} \in SUBSET Releases
      /\ Stray \in Payload
      /\ \A p \in Programs : Whole(p) \in Payloads
      /\ \A p \in Programs, part \in Parts : <<part, p>> \in Payload
  BY DEF Payloads, Payload, Stray, Whole
<1> USE <1>a, <1>b, BoundsAssumption
    DEF disk, running, counters, TypeOK, Payloads, Command, Places, Results, At
<1>1. ASSUME NEW p \in Programs, StartInstall(p)
      PROVE  TypeOK'
  BY <1>1 DEF StartInstall
<1>2. ASSUME NEW p \in Programs, InstallOff(p)
      PROVE  TypeOK'
  <2>1. tree' \subseteq tree \cup Whole(p)
    BY <1>2 DEF InstallOff
  <2>2. tree' \in Payloads
    BY <2>1
  <2>3. cmd' \in Command
    BY <1>2 DEF InstallOff, Abandon, End
  <2>4. orderly' = FALSE /\ commands' \in 0 .. MaxCommands
    BY <1>2 DEF InstallOff, Abandon
  <2> QED
    BY <1>2, <2>2, <2>3, <2>4 DEF InstallOff
<1>3. ASSUME BeginNothing
      PROVE  TypeOK'
  BY <1>3 DEF BeginNothing, Goto
<1>4. ASSUME BeginAlreadyKept
      PROVE  TypeOK'
  BY <1>4 DEF BeginAlreadyKept, Goto, AlreadyKept, IsThere
<1>5. ASSUME BeginKeep
      PROVE  TypeOK'
  <2>1. PICK n \in Releases :
          /\ kept' = [kept EXCEPT ![n] = tree]
          /\ cmd' = [cmd EXCEPT !.pc = "remember",
                                !.entry = [release |-> n, sha |-> tree]]
    BY <1>5 DEF BeginKeep, KeepCopy
  <2>2. kept' \in [Releases -> Payloads \cup {Ruin}]
    BY <2>1
  <2>3. cmd' \in Command
    BY <2>1
  <2> QED
    BY <1>5, <2>2, <2>3 DEF BeginKeep
<1>6. ASSUME BeginKeepFails
      PROVE  TypeOK'
  BY <1>6 DEF BeginKeepFails, KeepCopyFails, Abandon, End
<1>7. ASSUME BeginRemember
      PROVE  TypeOK'
  BY <1>7 DEF BeginRemember, Goto
<1>8. ASSUME NEW part \in Parts, InstallPart(part)
      PROVE  TypeOK'
  BY <1>8 DEF InstallPart
<1>9. ASSUME InstallerEnds
      PROVE  TypeOK'
  BY <1>9 DEF InstallerEnds, Goto, Whole
<1>10. ASSUME InstallerFails
      PROVE  TypeOK'
  BY <1>10 DEF InstallerFails, Abandon, End
<1>11. ASSUME SettleUnchanged
      PROVE  TypeOK'
  BY <1>11 DEF SettleUnchanged, Same, End
<1>12. ASSUME SettleKeep
      PROVE  TypeOK'
  <2>1. PICK n \in Releases :
          /\ kept' = [kept EXCEPT ![n] = tree]
          /\ cmd' = [cmd EXCEPT !.pc = "write",
                                !.entry = [release |-> n, sha |-> tree]]
    BY <1>12 DEF SettleKeep, KeepCopy
  <2>2. kept' \in [Releases -> Payloads \cup {Ruin}]
    BY <2>1
  <2>3. cmd' \in Command
    BY <2>1
  <2> QED
    BY <1>12, <2>2, <2>3 DEF SettleKeep
<1>13. ASSUME SettleKeepFails
      PROVE  TypeOK'
  BY <1>13 DEF SettleKeepFails, KeepCopyFails, Abandon, End
<1>14. ASSUME SettleWrite
      PROVE  TypeOK'
  BY <1>14 DEF SettleWrite, InUse
<1>c. ASSUME NEW result \in {"installed", "deployed"}, PruneThen(result)
      PROVE  cmd' \in Command
  <2>1. PICK newest \in SUBSET Folders :
          cmd' = [cmd EXCEPT !.pc = "prune", !.result = result,
                             !.doomed = Folders \ (newest \cup Protected)]
    BY <1>c DEF PruneThen
  <2>2. Folders \ (newest \cup Protected) \in SUBSET Releases
    BY DEF Folders
  <2> QED
    BY <2>1, <2>2
<1>15. ASSUME SettleLeave
      PROVE  TypeOK'
  BY <1>15, <1>c DEF SettleLeave, LeaveUnit
<1>16. ASSUME SettleRestart
      PROVE  TypeOK'
  BY <1>16 DEF SettleRestart, UnitTakes, RestartFails, Goto
<1>17. ASSUME HealthPasses
      PROVE  TypeOK'
  BY <1>17, <1>c DEF HealthPasses
<1>p. ASSUME NEW n \in Releases, PruneFolder(n)
      PROVE  TypeOK'
  <2>1. kept' \in [Releases -> Payloads \cup {Ruin}]
    BY <1>p DEF PruneFolder
  <2>2. cmd' \in Command
    BY <1>p DEF PruneFolder
  <2> QED
    BY <1>p, <2>1, <2>2 DEF PruneFolder
<1>q. ASSUME PruneEnds
      PROVE  TypeOK'
  BY <1>q DEF PruneEnds, Goto
<1>18. ASSUME HealthFails
      PROVE  TypeOK'
  BY <1>18 DEF HealthFails, Goto
<1>19. ASSUME SettleFails
      PROVE  TypeOK'
  BY <1>19 DEF SettleFails, End, Goto, NoWayBack, IsThere
<1>20. ASSUME NEW e \in Payload, RestoreMove(e)
      PROVE  TypeOK'
  BY <1>20 DEF RestoreMove
<1>21. ASSUME NEW e \in Payload, RestoreCopy(e)
      PROVE  TypeOK'
  BY <1>21 DEF RestoreCopy, Old
<1>22. ASSUME RestoreMoved
      PROVE  TypeOK'
  BY <1>22 DEF RestoreMoved, Goto
<1>23. ASSUME RestoreCopied
      PROVE  TypeOK'
  BY <1>23 DEF RestoreCopied, Goto, Old
<1>24. ASSUME RestoreFails
      PROVE  TypeOK'
  BY <1>24 DEF RestoreFails, Goto
<1>25. ASSUME UndoRemove
      PROVE  TypeOK'
  BY <1>25 DEF UndoRemove, Goto
<1>26. ASSUME UndoReturn
      PROVE  TypeOK'
  BY <1>26 DEF UndoReturn, Abandon, End
<1>27. ASSUME BackWrite
      PROVE  TypeOK'
  BY <1>27 DEF BackWrite, Goto
<1>28. ASSUME SettleAgain
      PROVE  TypeOK'
  BY <1>28 DEF SettleAgain, TryRestart, UnitTakes, RestartFails, End
<1>29. ASSUME StartRollback
      PROVE  TypeOK'
  <2>1. cmd' \in Command
    BY <1>29 DEF StartRollback
  <2>2. commands' \in 0 .. MaxCommands
    BY <1>29 DEF StartRollback
  <2> QED
    BY <1>29, <2>1, <2>2 DEF StartRollback
<1>30. ASSUME RollbackLeave
      PROVE  TypeOK'
  BY <1>30 DEF RollbackLeave, LeaveUnit, End
<1>31. ASSUME RollbackRestart
      PROVE  TypeOK'
  BY <1>31 DEF RollbackRestart, UnitTakes, RestartFails, End
<1>32. ASSUME UnitStarts
      PROVE  TypeOK'
  BY <1>32 DEF UnitStarts, UnitTakes
<1>33. ASSUME UnitStops
      PROVE  TypeOK'
  BY <1>33 DEF UnitStops
<1>34. ASSUME Interrupted
      PROVE  TypeOK'
  <2>1. tree' \in Payloads
    BY <1>34 DEF Interrupted
  <2>2. unit' \in Payloads
    BY <1>34, <2>1 DEF Interrupted
  <2>3. cmd' \in Command
    BY <1>34 DEF Interrupted, Abandon, End
  <2>4. interrupts' \in 0 .. MaxInterrupts
    BY <1>34 DEF Interrupted
  <2>5. kept' \in [Releases -> Payloads \cup {Ruin}]
    BY <1>34 DEF Interrupted
  <2>6. missed' \in BOOLEAN
    BY <1>34 DEF Interrupted
  <2> QED
    BY <1>34, <2>1, <2>2, <2>3, <2>4, <2>5, <2>6 DEF Interrupted, Abandon
<1>35. CASE UNCHANGED vars
  BY <1>35 DEF vars
<1> QED
    BY <1>1, <1>2, <1>3, <1>4, <1>5, <1>6, <1>7, <1>8, <1>9, <1>10, <1>11,
     <1>12, <1>13, <1>14, <1>15, <1>16, <1>17, <1>18, <1>19, <1>20, <1>21,
     <1>22, <1>23, <1>24, <1>25, <1>26, <1>27, <1>28, <1>29, <1>30, <1>31,
     <1>32, <1>33, <1>34, <1>35, <1>p, <1>q
  DEF Next, Begin, Installer, Settle, Prune, Restore, Back

\* Every step preserves the rest.  A release is kept under a number without a
\* folder, so no folder that the state or the command names is written again;
\* prune runs when nothing is pending and leaves what is current or previous;
\* the release put back is the one begin remembered, copied into an empty
\* target.
LEMMA SafetyStep ==
  ASSUME TypeOK, Safety, [Next]_vars
  PROVE  Safety'
<1> USE PartsAssumption, BoundsAssumption
    DEF disk, running, counters, TypeOK, Entry, None, Command, Releases, At, Safety,
        Settling, Restoring, Entries, NamedIsKept, RememberedIsKept,
        PendingIsFound, InUseIsPrevious, RestoreBuilds, BackMeansBack,
        CurrentIsInstalled, UnitFollows, RunsWhatIsInstalled, UnitKnown,
        DoomedIsUnnamed, SameWasNeverOther, Protected, Folders
<1>1. ASSUME NEW p \in Programs, StartInstall(p)
      PROVE  Safety'
  BY <1>1 DEF StartInstall
<1>2. ASSUME NEW p \in Programs, InstallOff(p)
      PROVE  Safety'
  BY <1>2 DEF InstallOff, Abandon, End
<1>3. ASSUME BeginNothing
      PROVE  Safety'
  BY <1>3 DEF BeginNothing, Goto
<1>4. ASSUME BeginAlreadyKept
      PROVE  Safety'
  BY <1>4 DEF BeginAlreadyKept, Goto, AlreadyKept, IsThere
<1>5. ASSUME BeginKeep
      PROVE  Safety'
  BY <1>5 DEF BeginKeep, KeepCopy, NextName
<1>6. ASSUME BeginKeepFails
      PROVE  Safety'
  BY <1>6 DEF BeginKeepFails, KeepCopyFails, Abandon, End
<1>7. ASSUME BeginRemember
      PROVE  Safety'
  BY <1>7 DEF BeginRemember, Goto
<1>8. ASSUME NEW part \in Parts, InstallPart(part)
      PROVE  Safety'
  BY <1>8 DEF InstallPart
<1>9. ASSUME InstallerEnds
      PROVE  Safety'
  <2>1. PICK part \in Parts : TRUE
    OBVIOUS
  <2>2. <<part, cmd.want>> \in tree
    BY <1>9 DEF InstallerEnds, Whole
  <2> QED
    BY <1>9, <2>2 DEF InstallerEnds, Goto
<1>10. ASSUME InstallerFails
      PROVE  Safety'
  BY <1>10 DEF InstallerFails, Abandon, End
<1>11. ASSUME SettleUnchanged
      PROVE  Safety'
  <2>1. tree = found
    BY <1>11 DEF SettleUnchanged, Same
  <2>2. /\ cmd' = [cmd EXCEPT !.pc = "idle", !.result = "unchanged",
                              !.doomed = {}]
        /\ UNCHANGED <<tree, aside, kept, unit, missed, found, orderly>>
        /\ state' = [state EXCEPT !.pending = None]
        /\ cmd.pc = "settle"
    BY <1>11 DEF SettleUnchanged, End
  <2>3. UnitFollows' /\ RunsWhatIsInstalled'
    BY <2>1, <2>2, SettingsStay
  <2>4. /\ NamedIsKept' /\ RememberedIsKept' /\ PendingIsFound'
        /\ InUseIsPrevious' /\ RestoreBuilds' /\ BackMeansBack'
        /\ CurrentIsInstalled' /\ DoomedIsUnnamed' /\ SameWasNeverOther'
    BY <2>2
  <2> QED
    BY <2>3, <2>4
<1>12. ASSUME SettleKeep
      PROVE  Safety'
  BY <1>12 DEF SettleKeep, KeepCopy, NextName
<1>13. ASSUME SettleKeepFails
      PROVE  Safety'
  BY <1>13 DEF SettleKeepFails, KeepCopyFails, Abandon, End
<1>14. ASSUME SettleWrite
      PROVE  Safety'
  BY <1>14 DEF SettleWrite, InUse
<1>c. ASSUME NEW result \in {"installed", "deployed"}, PruneThen(result)
      PROVE  \E doomed \in SUBSET Releases :
               /\ doomed \subseteq Folders \ Protected
               /\ cmd' = [cmd EXCEPT !.pc = "prune", !.result = result,
                                     !.doomed = doomed]
  <2>1. PICK newest \in SUBSET Folders :
          cmd' = [cmd EXCEPT !.pc = "prune", !.result = result,
                             !.doomed = Folders \ (newest \cup Protected)]
    BY <1>c DEF PruneThen
  <2>2. Folders \ (newest \cup Protected) \in SUBSET Releases
    BY DEF Folders
  <2> QED
    BY <2>1, <2>2
<1>15. ASSUME SettleLeave
      PROVE  Safety'
  <2>1. PICK doomed \in SUBSET Releases :
          /\ doomed \subseteq Folders \ Protected
          /\ cmd' = [cmd EXCEPT !.pc = "prune", !.result = "installed",
                                !.doomed = doomed]
    BY <1>15, <1>c DEF SettleLeave
  <2> QED
    BY <1>15, <2>1, SettingsStay DEF SettleLeave, LeaveUnit
<1>16. ASSUME SettleRestart
      PROVE  Safety'
  <2>1. CASE UnitTakes /\ cmd' = [cmd EXCEPT !.pc = "health"]
    BY <1>16, <2>1, SettingsStay DEF SettleRestart, UnitTakes
  <2>2. CASE RestartFails /\ cmd' = [cmd EXCEPT !.pc = "failed"]
    BY <1>16, <2>2, SettingsStay DEF SettleRestart, RestartFails, UnitTakes
  <2> QED
    BY <1>16, <2>1, <2>2 DEF SettleRestart, Goto
<1>17. ASSUME HealthPasses
      PROVE  Safety'
  <2>1. PICK doomed \in SUBSET Releases :
          /\ doomed \subseteq Folders \ Protected
          /\ cmd' = [cmd EXCEPT !.pc = "prune", !.result = "deployed",
                                !.doomed = doomed]
    BY <1>17, <1>c DEF HealthPasses
  <2> QED
    BY <1>17, <2>1, SettingsStay DEF HealthPasses
<1>p. ASSUME NEW n \in Releases, PruneFolder(n)
      PROVE  Safety'
  <2>1. \A m \in Protected : kept'[m] = kept[m]
    BY <1>p DEF PruneFolder
  <2> QED
    BY <1>p, <2>1, SettingsStay DEF PruneFolder
<1>q. ASSUME PruneEnds
      PROVE  Safety'
  <2>1. /\ cmd' = [cmd EXCEPT !.pc = "idle"]
        /\ UNCHANGED <<tree, aside, kept, state, unit, missed, found, orderly>>
        /\ cmd.pc = "prune" /\ cmd.doomed = {}
    BY <1>q DEF PruneEnds, Goto
  <2>2. UnitFollows' /\ RunsWhatIsInstalled'
    BY <2>1, SettingsStay
  <2>3. BackMeansBack' /\ CurrentIsInstalled' /\ DoomedIsUnnamed'
    BY <2>1
  <2>4. /\ NamedIsKept' /\ RememberedIsKept' /\ PendingIsFound'
        /\ InUseIsPrevious' /\ RestoreBuilds' /\ SameWasNeverOther'
    BY <2>1
  <2> QED
    BY <2>2, <2>3, <2>4
<1>18. ASSUME HealthFails
      PROVE  Safety'
  BY <1>18 DEF HealthFails, Goto
<1>19. ASSUME SettleFails
      PROVE  Safety'
  <2>1. CASE cmd' = [cmd EXCEPT !.pc = "idle", !.result = "not_held",
                               !.doomed = {}]
    BY <1>19, <2>1 DEF SettleFails
  <2>2. CASE cmd' = [cmd EXCEPT !.pc = "move"] /\ cmd.inUse.release # 0
    BY <1>19, <2>2 DEF SettleFails
  <2> QED
    BY <1>19, <2>1, <2>2 DEF SettleFails, End, Goto, NoWayBack
<1>20. ASSUME NEW e \in Payload, RestoreMove(e)
      PROVE  Safety'
  BY <1>20 DEF RestoreMove
<1>21. ASSUME NEW e \in Payload, RestoreCopy(e)
      PROVE  Safety'
  BY <1>21 DEF RestoreCopy, Old
<1>22. ASSUME RestoreMoved
      PROVE  Safety'
  BY <1>22 DEF RestoreMoved, Goto
<1>23. ASSUME RestoreCopied
      PROVE  Safety'
  <2>1. Old = cmd.inUse.sha
    BY <1>23 DEF RestoreCopied, Old
  <2>2. tree = cmd.inUse.sha
    BY <1>23, <2>1 DEF RestoreCopied
  <2>3. /\ cmd' = [cmd EXCEPT !.pc = "back"]
        /\ UNCHANGED <<tree, kept, state, found>>
        /\ cmd.pc = "copy"
    BY <1>23 DEF RestoreCopied, Goto
  <2> QED
    BY <2>2, <2>3
<1>24. ASSUME RestoreFails
      PROVE  Safety'
  BY <1>24 DEF RestoreFails, Goto
<1>25. ASSUME UndoRemove
      PROVE  Safety'
  BY <1>25 DEF UndoRemove, Goto
<1>26. ASSUME UndoReturn
      PROVE  Safety'
  BY <1>26 DEF UndoReturn, Abandon, End
<1>27. ASSUME BackWrite
      PROVE  Safety'
  BY <1>27 DEF BackWrite, Goto
<1>28. ASSUME SettleAgain
      PROVE  Safety'
  BY <1>28 DEF SettleAgain, TryRestart, UnitTakes, RestartFails, End
<1>29. ASSUME StartRollback
      PROVE  Safety'
  BY <1>29 DEF StartRollback, IsThere
<1>30. ASSUME RollbackLeave
      PROVE  Safety'
  BY <1>30 DEF RollbackLeave, LeaveUnit, End
<1>31. ASSUME RollbackRestart
      PROVE  Safety'
  <2>1. PICK result \in {"went_back", "not_healthy"} :
          cmd' = [cmd EXCEPT !.pc = "idle", !.result = result, !.doomed = {}]
    BY <1>31 DEF RollbackRestart, End
  <2>2. unit' = tree \/ unit' = {} \/ missed' = TRUE
    BY <1>31 DEF RollbackRestart, UnitTakes, RestartFails
  <2>3. /\ UNCHANGED <<tree, aside, kept, state, found, orderly>>
        /\ cmd.pc = "again"
    BY <1>31 DEF RollbackRestart
  <2>4. UnitFollows' /\ RunsWhatIsInstalled'
    BY <2>1, <2>2, <2>3, SettingsStay
  <2>5. /\ NamedIsKept' /\ RememberedIsKept' /\ PendingIsFound'
        /\ InUseIsPrevious' /\ RestoreBuilds' /\ BackMeansBack'
        /\ CurrentIsInstalled' /\ DoomedIsUnnamed' /\ SameWasNeverOther'
    BY <2>1, <2>3
  <2> QED
    BY <2>4, <2>5
<1>32. ASSUME UnitStarts
      PROVE  Safety'
  <2>1. UnitFollows' /\ RunsWhatIsInstalled'
    BY <1>32, SettingsStay DEF UnitStarts, UnitTakes
  <2>2. UNCHANGED <<tree, aside, kept, state, cmd, found>>
    BY <1>32 DEF UnitStarts
  <2>3. /\ NamedIsKept' /\ RememberedIsKept' /\ PendingIsFound'
        /\ InUseIsPrevious' /\ RestoreBuilds'
    BY <2>2
  <2>4. /\ BackMeansBack' /\ CurrentIsInstalled'
        /\ DoomedIsUnnamed' /\ SameWasNeverOther'
    BY <2>2
  <2> QED
    BY <2>1, <2>3, <2>4
<1>33. ASSUME UnitStops
      PROVE  Safety'
  <2>1. UnitFollows'
    BY <1>33 DEF UnitStops
  <2>2. RunsWhatIsInstalled'
    BY <1>33 DEF UnitStops
  <2>3. UNCHANGED <<tree, aside, kept, state, cmd, found>>
    BY <1>33 DEF UnitStops
  <2>4. /\ NamedIsKept' /\ RememberedIsKept' /\ PendingIsFound'
        /\ InUseIsPrevious' /\ RestoreBuilds'
    BY <2>3
  <2>5. /\ BackMeansBack' /\ CurrentIsInstalled'
        /\ DoomedIsUnnamed' /\ SameWasNeverOther'
    BY <2>3
  <2> QED
    BY <2>1, <2>2, <2>4, <2>5
<1>34. ASSUME Interrupted
      PROVE  Safety'
  <2>1. /\ cmd' = [cmd EXCEPT !.pc = "idle", !.result = "interrupted",
                              !.doomed = {}]
        /\ orderly' = FALSE /\ state' = state /\ found' = found
    BY <1>34 DEF Interrupted, Abandon, End
  <2>2. /\ \A m \in Protected : kept'[m] = kept[m]
        /\ state.pending.release # 0 =>
             kept'[state.pending.release] = kept[state.pending.release]
    BY <1>34 DEF Interrupted
  <2>3. NamedIsKept'
    BY <2>1, <2>2
  <2> QED
    BY <2>1, <2>3
<1>35. CASE UNCHANGED vars
  <2>1. UnitFollows'
    BY <1>35 DEF vars
  <2> QED
    BY <1>35, <2>1, SettingsStay DEF vars
<1> QED
    BY <1>1, <1>2, <1>3, <1>4, <1>5, <1>6, <1>7, <1>8, <1>9, <1>10, <1>11,
     <1>12, <1>13, <1>14, <1>15, <1>16, <1>17, <1>18, <1>19, <1>20, <1>21,
     <1>22, <1>23, <1>24, <1>25, <1>26, <1>27, <1>28, <1>29, <1>30, <1>31,
     <1>32, <1>33, <1>34, <1>35, <1>p, <1>q
  DEF Next, Begin, Installer, Settle, Prune, Restore, Back

\* Before the first command nothing is kept, named or running.
LEMMA InitIInv == Init => IInv
<1> SUFFICES ASSUME Init
             PROVE  IInv
  OBVIOUS
<1> USE BoundsAssumption DEF Init
<1>1. TypeOK
  <2>1. None \in Entry
    BY DEF None, Entry, Payloads
  <2>2. tree \in Payloads
    BY DEF Payloads, Payload, Whole
  <2>5. kept \in [Releases -> Payloads \cup {Ruin}]
    BY DEF Payloads
  <2>3. state \in [current : Entry, previous : Entry, pending : Entry]
    BY <2>1
  <2>4. cmd \in Command
    BY <2>1 DEF Command, Places, Results
  <2>6. aside \in Payloads /\ unit \in Payloads /\ found \in Payloads
    BY DEF Payloads
  <2>7. commands \in 0 .. MaxCommands /\ interrupts \in 0 .. MaxInterrupts
    BY SMT
  <2>8. orderly \in BOOLEAN /\ missed \in BOOLEAN
    BY Zenon
  <2> QED
    BY <2>2, <2>3, <2>4, <2>5, <2>6, <2>7, <2>8, Zenon DEF TypeOK
<1>2. NamedIsKept
  BY DEF NamedIsKept, Entries, None
<1>3. RememberedIsKept /\ PendingIsFound /\ InUseIsPrevious /\ RestoreBuilds
  BY DEF RememberedIsKept, PendingIsFound, InUseIsPrevious, RestoreBuilds,
     Settling, Restoring, At
<1>4. /\ BackMeansBack /\ CurrentIsInstalled
      /\ UnitFollows /\ RunsWhatIsInstalled
      /\ DoomedIsUnnamed /\ SameWasNeverOther
  BY DEF BackMeansBack, CurrentIsInstalled, UnitFollows, RunsWhatIsInstalled,
     DoomedIsUnnamed, SameWasNeverOther, UnitKnown, At
<1> QED
  BY <1>1, <1>2, <1>3, <1>4 DEF IInv, Safety

\* Every reachable state satisfies the invariant.
THEOREM Invariance == Spec => []IInv
<1>1. ASSUME IInv, [Next]_vars
      PROVE  IInv'
  BY <1>1, TypeStep, SafetyStep DEF IInv
<1> QED
  BY InitIInv, <1>1, PTL DEF Spec

\* Every variable keeps its type.
THEOREM TypeCorrect == Spec => []TypeOK
<1>1. IInv => TypeOK
  BY DEF IInv, Safety
<1> QED
  BY Invariance, <1>1, PTL

\* What state.json names is kept and is what its digest says, after any number
\* of installations, rollbacks, prunings and interruptions at any step.
THEOREM StateNamesKeptReleases == Spec => []NamedIsKept
<1>1. IInv => NamedIsKept
  BY DEF IInv, Safety
<1> QED
  BY Invariance, <1>1, PTL

\* A deployment that goes back leaves exactly the payload it found.
THEOREM WayBackIsExact == Spec => []BackMeansBack
<1>1. IInv => BackMeansBack
  BY DEF IInv, Safety
<1> QED
  BY Invariance, <1>1, PTL

\* A command that ends having written the state leaves in the target what the
\* state calls current.
THEOREM CurrentIsTheTarget == Spec => []CurrentIsInstalled
<1>1. IInv => CurrentIsInstalled
  BY DEF IInv, Safety
<1> QED
  BY Invariance, <1>1, PTL

\* After commands that ran to their end a running unit runs the program of the
\* target, wherever it stopped or started in between, unless the last restart
\* it should have had failed and left it running, or was not asked for because
\* is-active did not answer; after "deployed" it does without an exception.
THEOREM UnitRunsTheTarget == Spec => []RunsWhatIsInstalled
<1>1. IInv => RunsWhatIsInstalled
  BY DEF IInv, Safety
<1> QED
  BY Invariance, <1>1, PTL

-----------------------------------------------------------------------------
\* The protocol of ReleaseState

\* A release on trial is one that settle has put in use and not yet accepted.
LEMMA InitImplements == Init => Store!StoreInit
<1> SUFFICES ASSUME Init
             PROVE  Store!StoreInit
  OBVIOUS
<1>1. Folders = {}
  BY DEF Init, Folders
<1>2. OnTrial = FALSE
  BY DEF Init, OnTrial, Settling, Restoring
<1>3. state.current.release = 0 /\ state.previous.release = 0
  BY DEF Init, None
<1> QED
  BY <1>1, <1>2, <1>3 DEF Store!StoreInit, Store!Idle

\* Keeping a copy adds a folder; settle puts it in use with the release to go
\* back to; a command that ends or prunes, also when it fails or is interrupted,
\* accepts; BackWrite goes back or swaps.  Everything else leaves the folders
\* and the two names alone.
LEMMA NextImplements ==
  ASSUME IInv, [Next]_vars
  PROVE  [Store!StoreNext]_Store!store
<1>a. /\ kept \in [Releases -> Payloads \cup {Ruin}]
      /\ state \in [current : Entry, previous : Entry, pending : Entry]
      /\ cmd \in Command
      /\ Folders \subseteq Releases /\ 0 \notin Releases
  BY DEF IInv, TypeOK, Folders, Releases
<1>b. /\ NamedIsKept /\ RememberedIsKept /\ PendingIsFound
      /\ InUseIsPrevious /\ DoomedIsUnnamed
  BY DEF IInv, Safety
<1>n. \A entry \in Entries : entry.release \in Folders \cup {0}
  BY <1>a, <1>b DEF NamedIsKept, Entries, Folders, Entry, Releases
<1>s. ASSUME UNCHANGED kept, OnTrial' = OnTrial,
             state'.current = state.current,
             state'.previous = state.previous,
             OnTrial => cmd'.before = cmd.before
      PROVE  UNCHANGED Store!store
  <2>1. Folders' = Folders
    BY <1>s DEF Folders
  <2> QED
    BY <1>s, <2>1 DEF Store!store
<1>t. ASSUME UNCHANGED state, OnTrial' = FALSE, Folders' \subseteq Folders,
             Folders \cap Protected \subseteq Folders'
      PROVE  Store!Accept
  <2>1. Folders \cap {state.current.release, state.previous.release}
          \subseteq Folders'
    BY <1>a, <1>t DEF Protected
  <2> QED
    BY <1>t, <2>1 DEF Store!Accept, Store!Idle
<1>u. ASSUME UNCHANGED <<kept, state>>, cmd'.pc \in {"idle", "prune"}
      PROVE  Store!StoreNext
  <2>1. Folders' = Folders
    BY <1>u DEF Folders
  <2>2. OnTrial' = FALSE
    BY <1>u DEF OnTrial, Settling, Restoring
  <2> QED
    BY <1>t, <1>u, <2>1, <2>2 DEF Store!StoreNext
<1>p. ASSUME NEW n \in cmd.doomed, UNCHANGED state,
             kept' \in {kept, [kept EXCEPT ![n] = {}],
                        [kept EXCEPT ![n] = Ruin]},
             cmd'.pc \in {"idle", "prune"}
      PROVE  Store!StoreNext
  <2>1. n \in Folders /\ n \notin Protected
    BY <1>a, <1>b, <1>p DEF DoomedIsUnnamed
  <2>2. Folders' \subseteq Folders /\ Folders \cap Protected \subseteq Folders'
    BY <1>a, <1>p, <2>1 DEF Folders, Ruin
  <2>3. OnTrial' = FALSE
    BY <1>p DEF OnTrial, Settling, Restoring
  <2> QED
    BY <1>p, <1>t, <2>2, <2>3 DEF Store!StoreNext
<1>k. ASSUME NEW place \in {"remember", "write"}, KeepCopy(place), tree # {},
             UNCHANGED state, cmd.pc \in {"begin", "settle"}
      PROVE  Store!StoreNext
  <2>1. PICK n \in Releases :
          /\ NextName(n)
          /\ kept' = [kept EXCEPT ![n] = tree]
          /\ cmd' = [cmd EXCEPT !.pc = place,
                                !.entry = [release |-> n, sha |-> tree]]
    BY <1>k DEF KeepCopy
  <2>2. n \notin Folders /\ Folders' = Folders \cup {n}
    BY <1>a, <1>k, <2>1 DEF Folders, NextName
  <2>3. cmd'.pc = place
    BY <1>a, <2>1 DEF Command
  <2>4. OnTrial = FALSE /\ OnTrial' = FALSE
    BY <1>k, <2>3 DEF OnTrial, Settling, Restoring
  <2>5. Store!KeepAs(n)
    BY <1>k, <2>2, <2>4 DEF Store!KeepAs
  <2> QED
    BY <2>5 DEF Store!StoreNext
<1> USE DEF At, Goto, disk, running, counters
<1>1. ASSUME NEW p \in Programs, StartInstall(p) \/ InstallOff(p)
      PROVE  UNCHANGED Store!store
  <2>1. cmd.pc = "idle" /\ cmd'.pc \in {"idle", "begin"}
    <3>1. CASE StartInstall(p)
      BY <3>1 DEF StartInstall
    <3>2. CASE InstallOff(p)
      <4>1. /\ cmd.pc = "idle"
            /\ cmd' = [cmd EXCEPT !.pc = "idle", !.result = "done",
                                  !.doomed = {}]
        BY <3>2 DEF InstallOff, Abandon, End
      <4> QED
        BY <1>a, <4>1 DEF Command
    <3> QED
      BY <1>1, <3>1, <3>2
  <2>2. OnTrial = FALSE /\ OnTrial' = FALSE
    BY <2>1 DEF OnTrial, Settling, Restoring
  <2> QED
    BY <1>1, <1>s, <2>2 DEF StartInstall, InstallOff
<1>2. ASSUME BeginNothing \/ BeginAlreadyKept \/ BeginRemember
               \/ SettleUnchanged
      PROVE  UNCHANGED Store!store
  <2>1. /\ cmd.pc \in {"begin", "remember", "settle"}
        /\ cmd'.pc \in {"copying", "idle"}
    BY <1>a, <1>2
    DEF BeginNothing, BeginAlreadyKept, BeginRemember, SettleUnchanged, End,
        Command
  <2>2. OnTrial = FALSE /\ OnTrial' = FALSE
    BY <2>1 DEF OnTrial, Settling, Restoring
  <2>3. /\ UNCHANGED kept
        /\ state'.current = state.current /\ state'.previous = state.previous
    BY <1>a, <1>2
    DEF BeginNothing, BeginAlreadyKept, BeginRemember, SettleUnchanged
  <2> QED
    BY <1>s, <2>2, <2>3
<1>3. CASE BeginKeep
  BY <1>3, <1>k DEF BeginKeep
<1>4. CASE SettleKeep
  BY <1>4, <1>k, <1>b DEF SettleKeep, PendingIsFound
<1>5. ASSUME BeginKeepFails \/ SettleKeepFails \/ InstallerFails
               \/ UndoReturn
      PROVE  Store!StoreNext
  <2>1. cmd'.pc = "idle" /\ UNCHANGED <<kept, state>>
    BY <1>a, <1>5
    DEF BeginKeepFails, SettleKeepFails, KeepCopyFails, InstallerFails,
        UndoReturn, Abandon, End, Command
  <2> QED
    BY <1>u, <2>1
<1>15. CASE Interrupted
  <2>1. cmd'.pc = "idle" /\ UNCHANGED state
    BY <1>a, <1>15 DEF Interrupted, Abandon, End, Command
  <2>2. CASE UNCHANGED kept
    BY <1>u, <2>1, <2>2
  <2>3. CASE \E n \in cmd.doomed : kept' = [kept EXCEPT ![n] = Ruin]
    BY <1>p, <2>1, <2>3
  <2> QED
    BY <1>15, <2>2, <2>3 DEF Interrupted
<1>16. CASE Prune
  <2>1. ASSUME NEW n \in Releases, PruneFolder(n)
        PROVE  Store!StoreNext
    <3>1. /\ n \in cmd.doomed /\ UNCHANGED state
          /\ kept' \in {kept, [kept EXCEPT ![n] = {}],
                        [kept EXCEPT ![n] = Ruin]}
          /\ cmd'.pc = "prune"
      BY <1>a, <2>1 DEF PruneFolder, Command
    <3> QED
      BY <1>p, <3>1
  <2>2. ASSUME PruneEnds
        PROVE  Store!StoreNext
    <3>1. cmd'.pc = "idle" /\ UNCHANGED <<kept, state>>
      BY <1>a, <2>2 DEF PruneEnds, Command
    <3> QED
      BY <1>u, <3>1
  <2> QED
    BY <1>16, <2>1, <2>2 DEF Prune
<1>6. ASSUME (\E part \in Parts : InstallPart(part)) \/ UnitStarts \/ UnitStops
               \/ (\E e \in Payload : RestoreMove(e) \/ RestoreCopy(e))
      PROVE  UNCHANGED Store!store
  <2>1. UNCHANGED <<kept, state, cmd>>
    BY <1>6 DEF InstallPart, UnitStarts, UnitStops, RestoreMove, RestoreCopy
  <2> QED
    BY <1>s, <2>1 DEF OnTrial
<1>7. ASSUME InstallerEnds \/ HealthFails \/ RestoreMoved \/ RestoreCopied
               \/ RestoreFails \/ UndoRemove
      PROVE  UNCHANGED Store!store
  <2>1. /\ UNCHANGED <<kept, state>>
        /\ cmd'.flow = cmd.flow /\ cmd'.before = cmd.before
        /\ \/ cmd.pc = "copying" /\ cmd'.pc = "settle"
           \/ /\ cmd.pc \in Settling \cup Restoring
              /\ cmd'.pc \in Settling \cup Restoring
    BY <1>a, <1>7
    DEF InstallerEnds, HealthFails, RestoreMoved, RestoreCopied, RestoreFails,
        UndoRemove, Command, Settling, Restoring
  <2>2. OnTrial' = OnTrial
    BY <2>1 DEF OnTrial, Settling, Restoring
  <2> QED
    BY <1>s, <2>1, <2>2
<1>8. CASE SettleWrite
  <2>1. /\ cmd.pc = "write" /\ cmd.flow = "install"
        /\ UNCHANGED kept
        /\ state'.current = cmd.entry /\ state'.previous = InUse
        /\ cmd'.pc = "look" /\ cmd'.flow = "install"
        /\ cmd'.before = state.previous
    BY <1>a, <1>b, <1>8 DEF SettleWrite, PendingIsFound, Command
  <2>2. OnTrial = FALSE /\ OnTrial' = TRUE /\ Folders' = Folders
    BY <2>1 DEF OnTrial, Settling, Restoring, Folders
  <2>3. cmd.entry.release \in Folders
    BY <1>a, <1>b, <2>1 DEF RememberedIsKept, Folders, Command, Entry, Releases
  <2>4. InUse.release \in Folders \cup {0}
    BY <1>n DEF InUse, Entries
  <2>5. Store!PutInUse(cmd.entry.release, InUse.release)
    BY <2>1, <2>2, <2>3, <2>4 DEF Store!PutInUse, Store!OnTrial
  <2> QED
    BY <1>a, <2>3, <2>4, <2>5 DEF Store!StoreNext
<1>9. CASE SettleLeave \/ HealthPasses
  <2>1. cmd'.pc = "prune" /\ UNCHANGED <<kept, state>>
    BY <1>a, <1>9 DEF SettleLeave, HealthPasses, PruneThen, Command
  <2> QED
    BY <1>u, <2>1
<1>10. CASE SettleRestart
  <2>1. /\ UNCHANGED <<kept, state>>
        /\ cmd'.flow = cmd.flow /\ cmd'.before = cmd.before
        /\ cmd.pc \in Settling /\ cmd'.pc \in Settling
    BY <1>a, <1>10 DEF SettleRestart, Command, Settling
  <2>2. OnTrial' = OnTrial
    BY <2>1 DEF OnTrial
  <2> QED
    BY <1>s, <2>1, <2>2
<1>11. CASE SettleFails
  <2>1. UNCHANGED <<kept, state>> /\ cmd.pc = "failed"
    BY <1>11 DEF SettleFails
  <2>2. CASE End("not_held")
    <3>1. cmd'.pc = "idle"
      BY <1>a, <2>2 DEF End, Command
    <3> QED
      BY <1>u, <2>1, <3>1
  <2>3. CASE Goto("move")
    <3>1. cmd'.flow = cmd.flow /\ cmd'.before = cmd.before /\ cmd'.pc = "move"
      BY <1>a, <2>3 DEF Command
    <3>2. OnTrial' = OnTrial
      BY <2>1, <3>1 DEF OnTrial, Settling, Restoring
    <3> QED
      BY <1>s, <2>1, <3>1, <3>2
  <2> QED
    BY <1>11, <2>2, <2>3 DEF SettleFails
<1>12. CASE BackWrite
  <2>1. /\ cmd.pc = "back" /\ UNCHANGED kept
        /\ state'.current = cmd.inUse
        /\ state'.previous = (IF cmd.flow = "install" THEN cmd.before
                                                      ELSE state.current)
        /\ cmd'.pc = "again"
    BY <1>a, <1>12 DEF BackWrite, Command
  <2>2. /\ OnTrial' = FALSE /\ Folders' = Folders
        /\ state.previous = cmd.inUse /\ cmd.inUse.release # 0
    BY <1>b, <2>1 DEF OnTrial, Settling, Restoring, Folders, InUseIsPrevious
  <2>3. CASE cmd.flow = "install"
    <3>1. OnTrial = TRUE
      BY <2>1, <2>3 DEF OnTrial, Restoring
    <3>2. Store!GoBack
      BY <2>1, <2>2, <2>3, <3>1 DEF Store!GoBack, Store!Idle
    <3> QED
      BY <3>2 DEF Store!StoreNext
  <2>4. CASE cmd.flow # "install"
    <3>1. OnTrial = FALSE
      BY <2>4 DEF OnTrial
    <3>2. state.previous.release \in Folders
      BY <1>n, <2>2 DEF Entries
    <3>3. Store!SwapReleases
      BY <2>1, <2>2, <2>4, <3>1, <3>2 DEF Store!SwapReleases
    <3> QED
      BY <3>3 DEF Store!StoreNext
  <2> QED
    BY <2>3, <2>4
<1>13. ASSUME SettleAgain \/ StartRollback \/ RollbackLeave \/ RollbackRestart
       PROVE  UNCHANGED Store!store
  <2>1. /\ UNCHANGED <<kept, state>>
        /\ cmd.pc \in {"again", "idle"}
        /\ cmd'.pc = "idle" \/ cmd'.flow = "rollback"
    BY <1>a, <1>13
    DEF SettleAgain, StartRollback, RollbackLeave, RollbackRestart, End,
        Command
  <2>2. OnTrial = FALSE /\ OnTrial' = FALSE
    BY <2>1 DEF OnTrial, Settling, Restoring
  <2> QED
    BY <1>s, <2>1, <2>2
<1>14. CASE UNCHANGED vars
  <2>1. UNCHANGED <<kept, state, cmd>>
    BY <1>14 DEF vars
  <2> QED
    BY <1>s, <2>1 DEF OnTrial
<1> QED
  BY <1>1, <1>2, <1>3, <1>4, <1>5, <1>6, <1>7, <1>8, <1>9, <1>10, <1>11,
     <1>12, <1>13, <1>14, <1>15, <1>16
  DEF Next, Begin, Installer, Settle, Restore, Back

\* The releases and the two names of state.json change as the protocol of
\* ReleaseState allows: the same protocol the package tool follows.
THEOREM ImplementsProtocol == Spec => FollowsProtocol
<1>1. ASSUME IInv, [Next]_vars
      PROVE  [Store!StoreNext]_Store!store
  BY <1>1, NextImplements
<1> QED
  BY Invariance, InitImplements, <1>1, PTL
  DEF Spec, FollowsProtocol, Store!StoreSpec
=============================================================================
