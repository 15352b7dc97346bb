--------------------------- MODULE FirewallProofs ---------------------------
(***************************************************************************)
(* The safety properties of Firewall, for all tables, rules and bounds.    *)
(***************************************************************************)
EXTENDS Firewall, TLAPS

(* What an apply loads are rules, under the name the command was given.    *)
ApplyBringsRules ==
  /\ At("write") => cmd.rules \in Rules
  /\ cmd.pc \in Applying \ {"write"} => conf.table = cmd.table /\ Some(conf.rules)

(* There is one timer: it does not wait while its command runs, nor while  *)
(* a command has stopped it.                                               *)
OneTimer ==
  /\ timer # NoTable => firing.step = "no"
  /\ At("timer") => timer = NoTable

(* What a revert has unloaded is neither on trial nor confirmed.           *)
RevertUnloads == At("disable") => standing[cmd.table] = "plain"

(* Rules that are on trial or confirmed are loaded; no timer is left, runs *)
(* or is about to be started for what was confirmed.                       *)
Held(t) ==
  /\ Some(table[t])
  /\ standing[t] = "confirmed"
       => /\ timer # t
          /\ ~(firing.step = "table" /\ firing.table = t)
          /\ ~(cmd.pc \in {"stop", "timer"} /\ cmd.table = t)
LoadedAndKept ==
  \A t \in Tables \ collateral : standing[t] # "plain" => Held(t)

(* A trial that nothing disturbed has its timer, or a command is about to  *)
(* start one or to take the rules away.                                    *)
Ends(t) ==
  \/ timer = t
  \/ firing.step = "table" /\ firing.table = t
  \/ cmd.pc \in {"stop", "timer", "table"} /\ cmd.table = t
TrialEnds ==
  \A t \in Tables \ (disturbed \cup collateral) : standing[t] = "trial" => Ends(t)

(* While the timer's command runs and met no apply, none runs, and the     *)
(* table it has passed is gone.                                            *)
FiringUndoes ==
  (firing.step # "no" /\ alone)
    => /\ cmd.pc \notin Applying
       /\ firing.step \in {"disable", "remove"} => ~Some(table[firing.table])

(* What was undone is undone until the next apply of that table.           *)
UndoneStays ==
  \A t \in undone : /\ ~Some(table[t]) /\ ~AtBoot(t)
                    /\ ~(cmd.pc \in Applying /\ cmd.table = t)

IInv ==
  /\ TypeOK
  /\ ApplyBringsRules /\ OneTimer /\ RevertUnloads /\ LoadedAndKept
  /\ TrialEnds /\ FiringUndoes /\ UndoneStays

-----------------------------------------------------------------------------

(* At first nothing is loaded, written or pending.                         *)
LEMMA InitIInv == Init => IInv
<1> SUFFICES ASSUME Init PROVE IInv
  OBVIOUS
<1> USE FirewallAssumption DEF Init
<1>1. cmd \in Command
  BY DEF Command, Applying, Reverting
<1>2. /\ commands \in 0 .. MaxCommands /\ trouble \in 0 .. MaxTrouble
      /\ conf \in [table : Tables, rules : Rules \cup {NoRules}]
      /\ table \in [Tables -> Rules \cup {NoRules}]
      /\ standing \in [Tables -> {"trial", "confirmed", "plain"}]
  OBVIOUS
<1>3. /\ unit \in [is : {"none", "written", "enabled"}, table : Tables,
                   started : BOOLEAN]
      /\ firing \in [step : {"no", "table", "disable", "remove"},
                     table : Tables]
  OBVIOUS
<1>4. alone \in BOOLEAN /\ timer \in Tables \cup {NoTable}
  OBVIOUS
<1>5. TypeOK
  BY <1>1, <1>2, <1>3, <1>4 DEF TypeOK
<1>6. /\ ApplyBringsRules /\ OneTimer /\ RevertUnloads /\ LoadedAndKept
      /\ TrialEnds
  BY DEF ApplyBringsRules, OneTimer, RevertUnloads, LoadedAndKept, TrialEnds,
         At, Applying
<1>7. FiringUndoes /\ UndoneStays
  BY DEF FiringUndoes, UndoneStays
<1> QED
  BY <1>5, <1>6, <1>7 DEF IInv

(* Every step keeps the types.                                             *)
LEMMA TypeStep ==
  ASSUME TypeOK, [Next]_vars
  PROVE  TypeOK'
<1> DEFINE Places == {"idle"} \cup Applying \cup Reverting
<1>c. \A place \in Places : [cmd EXCEPT !.pc = place] \in Command
  BY DEF TypeOK, Command
<1>p. /\ {"idle", "write", "delete", "load", "stop", "timer", "unit", "enable",
          "table", "disable", "unlink", "remove"} \subseteq Places
      /\ AfterTimer \in Places
  BY DEF Applying, Reverting, AfterTimer
<1>g. ASSUME NEW place \in Places, Goto(place) PROVE cmd' \in Command
  BY <1>c, <1>g DEF Goto
<1> HIDE DEF Places
<1>s. ASSUME Start
      PROVE  commands' \in 0 .. MaxCommands /\ trouble' \in 0 .. MaxTrouble
  BY <1>s, FirewallAssumption DEF Start, TypeOK
<1>t. ASSUME Trouble
      PROVE  commands' \in 0 .. MaxCommands /\ trouble' \in 0 .. MaxTrouble
  BY <1>t, FirewallAssumption DEF Trouble, TypeOK
<1>u. ASSUME NEW t \in Tables, Unload(t)
      PROVE  /\ table' \in [Tables -> Rules \cup {NoRules}]
             /\ standing' \in [Tables -> {"trial", "confirmed", "plain"}]
  BY <1>u DEF Unload, TypeOK
<1>v. cmd.table \in Tables /\ conf.table \in Tables /\ conf.rules \in Rules \cup {NoRules}
  BY DEF TypeOK, Command
<1> USE DEF TypeOK, host, history, counters
<1>1. ASSUME NEW t \in Tables, NEW r \in Rules, NEW rollback \in BOOLEAN,
             NEW persist \in BOOLEAN, Apply(t, r, rollback, persist)
      PROVE  TypeOK'
  <2>1. cmd' \in Command
    BY <1>1 DEF Apply, Command, Applying
  <2>2. UNCHANGED <<conf, table, unit, timer, firing, standing, disturbed,
                    collateral>>
    BY <1>1 DEF Apply
  <2>3. undone' \subseteq Tables /\ alone' = FALSE
    BY <1>1 DEF Apply
  <2>4. commands' \in 0 .. MaxCommands /\ trouble' \in 0 .. MaxTrouble
    BY <1>1, <1>s DEF Apply
  <2> QED
    BY <2>1, <2>2, <2>3, <2>4
<1>2. CASE WriteConf
  <2>1. cmd' \in Command
    BY <1>2, <1>g, <1>p DEF WriteConf
  <2>2. conf' \in [table : Tables, rules : Rules \cup {NoRules}]
    BY <1>2, <1>v DEF WriteConf, Command
  <2> QED
    BY <1>2, <2>1, <2>2 DEF WriteConf
<1>3. CASE DeleteTable \/ NoSystemdRun \/ RevertTable
  <2>1. cmd' \in Command
    BY <1>3, <1>g, <1>p DEF DeleteTable, NoSystemdRun, RevertTable
  <2>2. /\ table' \in [Tables -> Rules \cup {NoRules}]
        /\ standing' \in [Tables -> {"trial", "confirmed", "plain"}]
    BY <1>3, <1>u, <1>v DEF DeleteTable, NoSystemdRun, RevertTable
  <2>3. UNCHANGED <<conf, unit, timer, firing, disturbed, collateral, alone,
                    undone, commands, trouble>>
    BY <1>3 DEF DeleteTable, NoSystemdRun, RevertTable
  <2> QED
    BY <2>1, <2>2, <2>3
<1>4. CASE LoadTable
  <2>1. cmd' \in Command
    BY <1>4, <1>g, <1>p DEF LoadTable
  <2>2. /\ table' \in [Tables -> Rules \cup {NoRules}]
        /\ standing' \in [Tables -> {"trial", "confirmed", "plain"}]
        /\ disturbed' \subseteq Tables /\ collateral' \subseteq Tables
    BY <1>4, <1>v DEF LoadTable
  <2>3. UNCHANGED <<conf, unit, timer, firing, alone, undone, commands, trouble>>
    BY <1>4 DEF LoadTable
  <2> QED
    BY <2>1, <2>2, <2>3
<1>5. CASE StopEarlier
  <2>1. cmd' \in Command
    BY <1>5, <1>g, <1>p DEF StopEarlier
  <2>2. timer' \in Tables \cup {NoTable} /\ collateral' \subseteq Tables
    BY <1>5 DEF StopEarlier, StopTimer
  <2>3. UNCHANGED <<conf, table, unit, firing, standing, disturbed, alone,
                    undone, commands, trouble>>
    BY <1>5 DEF StopEarlier
  <2> QED
    BY <2>1, <2>2, <2>3
<1>6. CASE StartTimer
  <2>1. cmd' \in Command
    BY <1>6, <1>g, <1>p DEF StartTimer
  <2>2. timer' \in Tables \cup {NoTable} /\ disturbed' \subseteq Tables
    BY <1>6, <1>v DEF StartTimer
  <2>3. UNCHANGED <<conf, table, unit, firing, standing, collateral, alone,
                    undone, commands, trouble>>
    BY <1>6 DEF StartTimer
  <2> QED
    BY <2>1, <2>2, <2>3
<1>7. CASE WriteUnit \/ EnableUnit \/ RevertFile
  <2>1. cmd' \in Command
    BY <1>7, <1>g, <1>p DEF WriteUnit, EnableUnit, RevertFile
  <2>2. unit' \in [is : {"none", "written", "enabled"}, table : Tables,
                   started : BOOLEAN]
    BY <1>7, <1>v DEF WriteUnit, EnableUnit, RevertFile
  <2> QED
    BY <1>7, <2>1, <2>2 DEF WriteUnit, EnableUnit, RevertFile
<1>8. CASE Confirm
  <2>1. Kept \in [Tables -> {"trial", "confirmed", "plain"}]
    BY DEF Kept
  <2>2. commands' \in 0 .. MaxCommands /\ trouble' \in 0 .. MaxTrouble
    BY <1>8, <1>s DEF Confirm
  <2>3. /\ UNCHANGED <<conf, table, unit, firing, cmd, disturbed, collateral,
                       alone, undone>>
        /\ timer' = NoTable /\ standing' = Kept
    BY <1>8 DEF Confirm
  <2> QED
    BY <2>1, <2>2, <2>3
<1>9. ASSUME NEW t \in Tables, Revert(t)
      PROVE  TypeOK'
  <2>1. cmd' \in Command
    BY <1>9 DEF Revert, Command, Reverting
  <2>2. timer' \in Tables \cup {NoTable} /\ collateral' \subseteq Tables
    BY <1>9 DEF Revert, StopTimer
  <2>3. commands' \in 0 .. MaxCommands /\ trouble' \in 0 .. MaxTrouble
    BY <1>9, <1>s DEF Revert
  <2>4. UNCHANGED <<conf, table, unit, firing, standing, disturbed, alone, undone>>
    BY <1>9 DEF Revert
  <2> QED
    BY <2>1, <2>2, <2>3, <2>4
<1>10. CASE RevertUnit
  <2>1. cmd' \in Command
    BY <1>10, <1>g, <1>p DEF RevertUnit
  <2>2. unit' \in [is : {"none", "written", "enabled"}, table : Tables,
                   started : BOOLEAN]
    BY <1>10 DEF RevertUnit
  <2>3. table' \in [Tables -> Rules \cup {NoRules}] /\ collateral' \subseteq Tables
    BY <1>10 DEF RevertUnit
  <2>4. UNCHANGED <<conf, timer, firing, standing, disturbed, alone, undone,
                    commands, trouble>>
    BY <1>10 DEF RevertUnit
  <2> QED
    BY <2>1, <2>2, <2>3, <2>4
<1>11. CASE RevertConf
  <2>1. cmd' \in Command
    BY <1>11, <1>g, <1>p DEF RevertConf
  <2>2. conf' \in [table : Tables, rules : Rules \cup {NoRules}]
    BY <1>11 DEF RevertConf
  <2> QED
    BY <1>11, <2>1, <2>2 DEF RevertConf
<1>12. CASE Fire
  <2>1. /\ timer' = NoTable
        /\ firing' \in [step : {"no", "table", "disable", "remove"},
                        table : Tables]
    BY <1>12 DEF Fire
  <2>2. alone' \in BOOLEAN
    BY <1>12 DEF Fire
  <2>3. UNCHANGED <<conf, table, unit, cmd, standing, disturbed, collateral,
                    undone, commands, trouble>>
    BY <1>12 DEF Fire
  <2> QED
    BY <2>1, <2>2, <2>3
<1>13. CASE FireTable \/ FireDisable \/ FireRemove
  <2>1. firing' \in [step : {"no", "table", "disable", "remove"}, table : Tables]
    BY <1>13 DEF FireTable, FireDisable, FireRemove, Fires
  <2>2. /\ table' \in [Tables -> Rules \cup {NoRules}]
        /\ standing' \in [Tables -> {"trial", "confirmed", "plain"}]
    BY <1>13 DEF FireTable, FireDisable, FireRemove
  <2>3. unit' \in [is : {"none", "written", "enabled"}, table : Tables,
                   started : BOOLEAN]
    BY <1>13 DEF FireTable, FireDisable, FireRemove
  <2>4. undone' \subseteq Tables
    BY <1>13 DEF FireTable, FireDisable, FireRemove
  <2>5. UNCHANGED <<conf, timer, cmd, disturbed, collateral, alone, commands,
                    trouble>>
    BY <1>13 DEF FireTable, FireDisable, FireRemove
  <2> QED
    BY <2>1, <2>2, <2>3, <2>4, <2>5
<1>14. CASE CommandStops
  <2>1. cmd' \in Command
    BY <1>14, <1>g, <1>p DEF CommandStops
  <2>2. commands' \in 0 .. MaxCommands /\ trouble' \in 0 .. MaxTrouble
    BY <1>14, <1>t DEF CommandStops
  <2>3. disturbed' \subseteq Tables
    BY <1>14, <1>v DEF CommandStops
  <2> QED
    BY <1>14, <2>1, <2>2, <2>3 DEF CommandStops
<1>15. CASE Reboot
  <2>1. cmd' \in Command
    BY <1>15, <1>g, <1>p DEF Reboot
  <2>2. commands' \in 0 .. MaxCommands /\ trouble' \in 0 .. MaxTrouble
    BY <1>15, <1>t DEF Reboot
  <2>3. /\ table' \in [Tables -> Rules \cup {NoRules}]
        /\ standing' \in [Tables -> {"trial", "confirmed", "plain"}]
    BY <1>15, <1>v DEF Reboot, BootTables
  <2>4. unit' \in [is : {"none", "written", "enabled"}, table : Tables,
                   started : BOOLEAN]
    BY <1>15 DEF Reboot, Some
  <2>5. firing' \in [step : {"no", "table", "disable", "remove"}, table : Tables]
    BY <1>15 DEF Reboot, Fires
  <2>6. /\ UNCHANGED <<conf, collateral, alone, undone>>
        /\ timer' = NoTable /\ disturbed' = Tables
    BY <1>15 DEF Reboot
  <2> QED
    BY <2>1, <2>2, <2>3, <2>4, <2>5, <2>6
<1>16. CASE UNCHANGED vars
  BY <1>16 DEF vars
<1> QED
  BY <1>1, <1>2, <1>3, <1>4, <1>5, <1>6, <1>7, <1>8, <1>9, <1>10, <1>11,
     <1>12, <1>13, <1>14, <1>15, <1>16 DEF Next

(* Every step keeps the rest, one after the other.                         *)
LEMMA SafetyStep ==
  ASSUME IInv, [Next]_vars
  PROVE  ApplyBringsRules' /\ OneTimer' /\ RevertUnloads' /\ LoadedAndKept'
           /\ TrialEnds' /\ FiringUndoes' /\ UndoneStays'
<1> DEFINE Safe == ApplyBringsRules' /\ OneTimer' /\ RevertUnloads'
                     /\ LoadedAndKept' /\ TrialEnds' /\ FiringUndoes'
                     /\ UndoneStays'
<1> USE FirewallAssumption
    DEF IInv, TypeOK, Command, Applying, Reverting, At, Goto, Start, Some, host,
        history, counters, ApplyBringsRules, OneTimer, RevertUnloads,
        LoadedAndKept, Held,
        TrialEnds, Ends, FiringUndoes, UndoneStays, AtBoot, Fires, Unload,
        StopTimer
<1>1. ASSUME NEW t \in Tables, NEW r \in Rules, NEW rollback \in BOOLEAN,
             NEW persist \in BOOLEAN, Apply(t, r, rollback, persist)
      PROVE  Safe
  BY <1>1 DEF Apply
<1>2. CASE WriteConf
  BY <1>2 DEF WriteConf
<1>3. CASE DeleteTable
  BY <1>3 DEF DeleteTable
<1>4. CASE LoadTable
  BY <1>4 DEF LoadTable, AfterTimer
<1>5. CASE NoSystemdRun
  BY <1>5 DEF NoSystemdRun
<1>6. CASE StopEarlier
  BY <1>6 DEF StopEarlier
<1>7. CASE StartTimer
  BY <1>7 DEF StartTimer, AfterTimer
<1>8. CASE WriteUnit
  BY <1>8 DEF WriteUnit
<1>9. CASE EnableUnit
  BY <1>9 DEF EnableUnit
<1>10. CASE Confirm
  BY <1>10 DEF Confirm, Kept
<1>11. ASSUME NEW t \in Tables, Revert(t)
       PROVE  Safe
  BY <1>11 DEF Revert
<1>12. CASE RevertTable
  BY <1>12 DEF RevertTable
<1>13. CASE RevertUnit
  <2>1. /\ \A t \in Tables : table'[t] \in {table[t], NoRules}
        /\ \A t \in Tables \ collateral' : table'[t] = table[t] \/ t = cmd.table
        /\ collateral \subseteq collateral'
    BY <1>13 DEF RevertUnit
  <2>2. unit'.is # "enabled"
    BY <1>13 DEF RevertUnit
  <2>3. /\ UNCHANGED <<conf, timer, firing, standing, disturbed, alone, undone>>
        /\ cmd' = [cmd EXCEPT !.pc = "unlink"] /\ At("disable")
    BY <1>13 DEF RevertUnit
  <2>4. ApplyBringsRules' /\ OneTimer' /\ RevertUnloads' /\ TrialEnds'
    BY <2>1, <2>3
  <2>5. FiringUndoes' /\ UndoneStays'
    BY <2>1, <2>2, <2>3
  <2>6. LoadedAndKept'
    BY <2>1, <2>3
  <2> QED
    BY <2>4, <2>5, <2>6
<1>14. CASE RevertFile
  BY <1>14 DEF RevertFile
<1>15. CASE RevertConf
  BY <1>15 DEF RevertConf
<1>16. CASE Fire
  BY <1>16 DEF Fire
<1>17. CASE FireTable
  BY <1>17 DEF FireTable
<1>18. CASE FireDisable
  BY <1>18 DEF FireDisable
<1>19. CASE FireRemove
  BY <1>19 DEF FireRemove
<1>20. CASE CommandStops
  BY <1>20 DEF CommandStops, Trouble
<1>21. CASE Reboot
  BY <1>21 DEF Reboot, BootTables, Trouble
<1>22. CASE UNCHANGED vars
  BY <1>22 DEF vars
<1> QED
  BY <1>1, <1>2, <1>3, <1>4, <1>5, <1>6, <1>7, <1>8, <1>9, <1>10, <1>11,
     <1>12, <1>13, <1>14, <1>15, <1>16, <1>17, <1>18, <1>19, <1>20, <1>21, <1>22
  DEF Next

-----------------------------------------------------------------------------

(* Every reachable state satisfies the invariant.                          *)
THEOREM Invariance == Spec => []IInv
<1>1. ASSUME IInv, [Next]_vars PROVE IInv'
  BY <1>1, TypeStep, SafetyStep DEF IInv
<1> QED
  BY InitIInv, <1>1, PTL DEF Spec

(* Rules loaded on trial have a way out until they are confirmed, for any  *)
(* tables and any number of commands, unless a step failed, was killed or  *)
(* met a restart, or a trial or a revert of another table stopped the one  *)
(* timer (hydra_firewall.sh apply --rollback-after).                       *)
THEOREM TrialAlwaysHasAWayOut == Spec => []TrialHasAWayOut
<1>1. IInv => TrialHasAWayOut
  <2> SUFFICES ASSUME IInv, NEW t \in Tables \ (disturbed \cup collateral),
                      standing[t] = "trial", At("idle")
               PROVE  HasAWayOut(t)
    BY DEF TrialHasAWayOut
  <2>1. timer = t \/ (firing.step = "table" /\ firing.table = t)
    BY DEF IInv, TrialEnds, Ends, At
  <2>2. firing \in [step : {"no", "table", "disable", "remove"}, table : Tables]
    BY DEF IInv, TypeOK
  <2> QED
    BY <2>1, <2>2 DEF HasAWayOut
<1> QED
  BY Invariance, <1>1, PTL

(* What was confirmed is never taken away by a timer, nor by a restart of  *)
(* a machine that loads it at boot; only the revert of another table can,  *)
(* through the boot unit (hydra_firewall.sh confirm).                      *)
THEOREM ConfirmedDoesStay == Spec => []ConfirmedStays
<1>1. IInv => ConfirmedStays
  BY DEF IInv, LoadedAndKept, ConfirmedStays, Held
<1> QED
  BY Invariance, <1>1, PTL

(* What a timer took away stays away until the next apply of that table,   *)
(* through any number of restarts (hydra_firewall.sh, the timer's command).*)
THEOREM TakenAwayIsGone == Spec => []TakenAwayStaysAway
<1>1. IInv => TakenAwayStaysAway
  BY DEF IInv, UndoneStays, TakenAwayStaysAway
<1> QED
  BY Invariance, <1>1, PTL
=============================================================================
