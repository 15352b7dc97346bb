------------------------------ MODULE Firewall ------------------------------
(***************************************************************************)
(* provisioning/hydra_firewall.sh: the rules of the host, loaded on trial  *)
(* or for good, the transient timer that takes them away again, the boot   *)
(* unit that loads them, confirm, revert and the reboot of the machine.    *)
(*                                                                         *)
(* Each command is about one table (--table), but there is one rules file, *)
(* one timer and one boot unit for all of them.  One command runs at a     *)
(* time, under set -e, and may be killed between any two of its steps.     *)
(* The timer's own command is a second process: it runs its three parts    *)
(* whenever its time comes, also while a command runs.                     *)
(***************************************************************************)
EXTENDS Naturals

CONSTANTS Tables,         \* the tables an operator may name with --table
          DefaultTable,   \* hydra_core
          NoTable,        \* no timer
          Rules,          \* sets of rules an operator may apply
          NoRules,        \* no table, no file
          MaxCommands,    \* bound: commands
          MaxTrouble      \* bound: killed commands, failing steps, reboots

ASSUME FirewallAssumption ==
  /\ DefaultTable \in Tables /\ NoTable \notin Tables
  /\ NoRules \notin Rules /\ MaxCommands \in Nat /\ MaxTrouble \in Nat

VARIABLES
  conf,       \* firewall.nft: a table and its rules
  table,      \* what the kernel has loaded under each name
  unit,       \* the boot unit, the table its text names, and whether it was
              \* started
  timer,      \* the table the pending rollback timer is to take away
  firing,     \* what the timer's command does next, "no" = it does not run
  cmd,        \* the command: its place, its table, its rules, its options
  standing,   \* of each loaded table: "trial", "confirmed" or "plain"
  disturbed,  \* the tables a step of whose command failed or was killed, or
              \* that a restart met, since they were loaded (history)
  collateral, \* the tables whose timer was stopped, or that were unloaded,
              \* by a command about another one (history)
  alone,      \* the timer's command met no apply (history)
  undone,     \* the tables a timer took away, until they are applied again
  commands, trouble

host == <<conf, table, unit, timer, firing>>
history == <<standing, disturbed, collateral, alone, undone>>
counters == <<commands, trouble>>
vars == <<host, cmd, history, counters>>

Some(rules) == rules # NoRules
Applying == {"write", "delete", "load", "stop", "timer", "unit", "enable"}
Reverting == {"table", "disable", "unlink", "remove"}
Command == [pc : {"idle"} \cup Applying \cup Reverting, table : Tables,
            rules : Rules \cup {NoRules}, rollback : BOOLEAN, persist : BOOLEAN]

TypeOK ==
  /\ conf \in [table : Tables, rules : Rules \cup {NoRules}]
  /\ table \in [Tables -> Rules \cup {NoRules}]
  /\ unit \in [is : {"none", "written", "enabled"}, table : Tables,
               started : BOOLEAN]
  /\ timer \in Tables \cup {NoTable}
  /\ firing \in [step : {"no", "table", "disable", "remove"}, table : Tables]
  /\ cmd \in Command
  /\ standing \in [Tables -> {"trial", "confirmed", "plain"}]
  /\ disturbed \subseteq Tables /\ collateral \subseteq Tables
  /\ undone \subseteq Tables
  /\ alone \in BOOLEAN
  /\ commands \in 0 .. MaxCommands /\ trouble \in 0 .. MaxTrouble

Init ==
  /\ conf = [table |-> DefaultTable, rules |-> NoRules]
  /\ table = [t \in Tables |-> NoRules]
  /\ unit = [is |-> "none", table |-> DefaultTable, started |-> FALSE]
  /\ timer = NoTable /\ firing = [step |-> "no", table |-> DefaultTable]
  /\ cmd = [pc |-> "idle", table |-> DefaultTable, rules |-> NoRules,
            rollback |-> FALSE, persist |-> FALSE]
  /\ standing = [t \in Tables |-> "plain"]
  /\ disturbed = {} /\ collateral = {} /\ undone = {}
  /\ alone = FALSE
  /\ commands = 0 /\ trouble = 0

At(place) == cmd.pc = place
Goto(place) == cmd' = [cmd EXCEPT !.pc = place]
Fires(step) == firing' = [firing EXCEPT !.step = step]
Start ==
  /\ At("idle") /\ commands < MaxCommands
  /\ commands' = commands + 1
  /\ UNCHANGED trouble

(* nft delete table: on purpose, so nothing is promised of it any more.    *)
Unload(t) ==
  /\ table' = [table EXCEPT ![t] = NoRules]
  /\ standing' = [standing EXCEPT ![t] = "plain"]

(* systemctl stop of the one timer, whichever table it is for.             *)
StopTimer(t) ==
  /\ timer' = NoTable
  /\ collateral' = collateral \cup ({timer} \ {NoTable, t})

-----------------------------------------------------------------------------
(* apply: nft has accepted the rules; what is loaded goes before they come *)

Apply(t, rules, rollback, persist) ==
  /\ Start
  /\ cmd' = [pc |-> "write", table |-> t, rules |-> rules,
             rollback |-> rollback, persist |-> persist]
  /\ undone' = undone \ {t}
  /\ alone' = FALSE
  /\ UNCHANGED <<host, standing, disturbed, collateral>>

WriteConf ==
  /\ At("write")
  /\ conf' = [table |-> cmd.table, rules |-> cmd.rules]
  /\ Goto("delete")
  /\ UNCHANGED <<table, unit, timer, firing, history, counters>>

DeleteTable ==
  /\ At("delete")
  /\ Unload(cmd.table)
  /\ Goto("load")
  /\ UNCHANGED <<conf, unit, timer, firing, disturbed, collateral,
                 alone, undone, counters>>

AfterTimer == IF cmd.persist THEN "unit" ELSE "idle"

LoadTable ==
  LET t == conf.table
  IN  /\ At("load")
      /\ table' = [table EXCEPT ![t] = conf.rules]
      /\ standing' = [standing EXCEPT
                        ![t] = IF cmd.rollback THEN "trial" ELSE "plain"]
      /\ Goto(IF cmd.rollback THEN "stop" ELSE AfterTimer)
      /\ disturbed' = disturbed \ {t}
      /\ collateral' = collateral \ {t}
      /\ UNCHANGED <<conf, unit, timer, firing, alone, undone, counters>>

(* --rollback-after on a machine without systemd-run.                      *)
NoSystemdRun ==
  /\ At("stop")
  /\ Unload(cmd.table)
  /\ Goto("idle")
  /\ UNCHANGED <<conf, unit, timer, firing, disturbed, collateral,
                 alone, undone, counters>>

StopEarlier ==
  /\ At("stop")
  /\ StopTimer(cmd.table)
  /\ Goto("timer")
  /\ UNCHANGED <<conf, table, unit, firing, standing, disturbed, alone,
                 undone, counters>>

(* Mutant: no new timer when the rules are loaded at boot. *)
StartsUnlessPersisted ==
  /\ At("timer")
  /\ timer' = IF cmd.persist THEN timer ELSE cmd.table
  /\ Goto(AfterTimer)
  /\ UNCHANGED <<conf, table, unit, firing, history, counters>>

(* systemd-run; it is refused while the command of the last one runs.      *)
StartTimer ==
  /\ At("timer")
  /\ IF firing.step = "no"
     THEN /\ timer' = cmd.table
          /\ Goto(AfterTimer)
          /\ UNCHANGED disturbed
     ELSE /\ disturbed' = disturbed \cup {cmd.table}
          /\ Goto("idle")
          /\ UNCHANGED timer
  /\ UNCHANGED <<conf, table, unit, firing, standing, collateral, alone,
                 undone, counters>>

WriteUnit ==
  /\ At("unit")
  /\ unit' = [unit EXCEPT !.is = IF unit.is = "none" THEN "written" ELSE unit.is,
                          !.table = cmd.table]
  /\ Goto("enable")
  /\ UNCHANGED <<conf, table, timer, firing, history, counters>>

EnableUnit ==
  /\ At("enable")
  /\ unit' = [unit EXCEPT !.is = IF unit.is = "none" THEN "none" ELSE "enabled"]
  /\ Goto("idle")
  /\ UNCHANGED <<conf, table, timer, firing, history, counters>>

-----------------------------------------------------------------------------
(* confirm and revert *)

(* Rules on trial whose timer is stopped by confirm are confirmed.         *)
Kept == [t \in Tables |-> IF t = timer /\ standing[t] = "trial"
                          THEN "confirmed" ELSE standing[t]]

(* Mutant: confirm only says so. *)
ConfirmSaysSo ==
  /\ Start
  /\ standing' = Kept
  /\ UNCHANGED <<host, cmd, disturbed, collateral, alone, undone>>

Confirm ==
  /\ Start
  /\ timer' = NoTable
  /\ standing' = Kept
  /\ UNCHANGED <<conf, table, unit, firing, cmd, disturbed, collateral,
                 alone, undone>>

Revert(t) ==
  /\ Start
  /\ StopTimer(t)
  /\ cmd' = [cmd EXCEPT !.pc = "table", !.table = t]
  /\ UNCHANGED <<conf, table, unit, firing, standing, disturbed, alone,
                 undone>>

RevertTable ==
  /\ At("table")
  /\ Unload(cmd.table)
  /\ Goto(IF unit.is = "none" THEN "remove" ELSE "disable")
  /\ UNCHANGED <<conf, unit, timer, firing, disturbed, collateral,
                 alone, undone, counters>>

(* disable --now: a unit that was started takes its own table away.        *)
RevertUnit ==
  /\ At("disable")
  /\ unit' = [unit EXCEPT !.is = IF unit.is = "none" THEN "none" ELSE "written",
                          !.started = FALSE]
  /\ table' = IF unit.started THEN [table EXCEPT ![unit.table] = NoRules]
                              ELSE table
  /\ collateral' = IF unit.started THEN collateral \cup ({unit.table} \ {cmd.table})
                                   ELSE collateral
  /\ Goto("unlink")
  /\ UNCHANGED <<conf, timer, firing, standing, disturbed, alone, undone,
                 counters>>

RevertFile ==
  /\ At("unlink")
  /\ unit' = [unit EXCEPT !.is = "none"]
  /\ Goto("remove")
  /\ UNCHANGED <<conf, table, timer, firing, history, counters>>

RevertConf ==
  /\ At("remove")
  /\ conf' = [conf EXCEPT !.rules = NoRules]
  /\ Goto("idle")
  /\ UNCHANGED <<table, unit, timer, firing, history, counters>>

-----------------------------------------------------------------------------
(* The timer's command *)

Fire ==
  /\ timer # NoTable
  /\ timer' = NoTable
  /\ firing' = [step |-> "table", table |-> timer]
  /\ alone' = (cmd.pc \notin Applying)
  /\ UNCHANGED <<conf, table, unit, cmd, standing, disturbed, collateral,
                 undone, counters>>

(* What is confirmed would go without ceasing to be confirmed.             *)
FireTable ==
  LET t == firing.table
  IN  /\ firing.step = "table"
      /\ table' = [table EXCEPT ![t] = NoRules]
      /\ standing' = [standing EXCEPT
                        ![t] = IF @ = "trial" THEN "plain" ELSE @]
      /\ Fires("disable")
      /\ UNCHANGED <<conf, unit, timer, cmd, disturbed, collateral,
                     alone, undone, counters>>

(* Mutant: the boot unit stays. *)
FireKeepsUnit ==
  /\ firing.step = "disable"
  /\ Fires("no")
  /\ undone' = IF alone THEN undone \cup {firing.table} ELSE undone
  /\ UNCHANGED <<conf, table, unit, timer, cmd, standing, disturbed,
                 collateral, alone, counters>>

FireDisable ==
  /\ firing.step = "disable"
  /\ unit' = [unit EXCEPT !.is = IF unit.is = "none" THEN "none" ELSE "written"]
  /\ Fires("remove")
  /\ UNCHANGED <<conf, table, timer, cmd, history, counters>>

FireRemove ==
  /\ firing.step = "remove"
  /\ unit' = [unit EXCEPT !.is = "none"]
  /\ Fires("no")
  /\ undone' = IF alone THEN undone \cup {firing.table} ELSE undone
  /\ UNCHANGED <<conf, table, timer, cmd, standing, disturbed,
                 collateral, alone, counters>>

-----------------------------------------------------------------------------
(* Trouble *)

Trouble == trouble < MaxTrouble /\ trouble' = trouble + 1 /\ UNCHANGED commands

(* A command is killed, or one of its steps fails and set -e ends it.      *)
CommandStops ==
  /\ ~At("idle") /\ Trouble
  /\ Goto("idle")
  /\ disturbed' = disturbed \cup {cmd.table}
  /\ UNCHANGED <<host, standing, collateral, alone, undone>>

(* The boot unit loads firewall.nft, whichever table it has.               *)
AtBoot(t) == unit.is = "enabled" /\ conf.table = t /\ Some(conf.rules)

(* Mutant: the machine comes back without its boot unit. *)
BootBare == [t \in Tables |-> NoRules]
BootTables == [t \in Tables |-> IF AtBoot(t) THEN conf.rules ELSE NoRules]

(* The transient timer is forgotten.                                       *)
Reboot ==
  /\ Trouble
  /\ table' = BootTables
  /\ unit' = [unit EXCEPT !.started = unit.is = "enabled" /\ Some(conf.rules)]
  /\ timer' = NoTable /\ Fires("no")
  /\ Goto("idle")
  /\ standing' = [t \in Tables |-> IF AtBoot(t) /\ conf.rules = table[t]
                                   THEN standing[t] ELSE "plain"]
  /\ disturbed' = Tables
  /\ UNCHANGED <<conf, collateral, alone, undone>>

Next ==
  \/ \E t \in Tables, r \in Rules, rollback, persist \in BOOLEAN :
       Apply(t, r, rollback, persist)
  \/ WriteConf \/ DeleteTable \/ LoadTable
  \/ NoSystemdRun \/ StopEarlier \/ StartTimer
  \/ WriteUnit \/ EnableUnit
  \/ Confirm
  \/ \E t \in Tables : Revert(t)
  \/ RevertTable \/ RevertUnit \/ RevertFile \/ RevertConf
  \/ Fire \/ FireTable \/ FireDisable \/ FireRemove
  \/ CommandStops \/ Reboot

Spec == Init /\ [][Next]_vars

-----------------------------------------------------------------------------
(* Safety *)

HasAWayOut(t) == timer = t \/ firing = [step |-> "table", table |-> t]

(* Rules loaded on trial have a way out until they are confirmed: the      *)
(* timer is pending for their table or its command is about to take it     *)
(* away, whatever was applied, reverted or pending before.  Two exceptions *)
(* are named: a step of the command failed or was killed, or the machine   *)
(* was restarted (disturbed); and a later trial or revert of another table *)
(* stopped the one timer they share (collateral)                           *)
(* (hydra_firewall.sh apply --rollback-after).                             *)
TrialHasAWayOut ==
  \A t \in Tables \ (disturbed \cup collateral) :
    standing[t] = "trial" /\ At("idle") => HasAWayOut(t)

(* What was confirmed stays: no timer is left that would take it away, and *)
(* it is loaded, also while the machine restarts any number of times if it *)
(* is loaded at boot.  One exception is named: the revert of another table *)
(* stopped the boot unit whose text names this one (collateral)            *)
(* (hydra_firewall.sh confirm, the boot unit).                             *)
ConfirmedStays ==
  \A t \in Tables \ collateral :
    standing[t] = "confirmed" => timer # t /\ Some(table[t])

(* Once a timer has taken the rules away they stay away, after any number  *)
(* of restarts, until somebody applies rules to that table again: the boot *)
(* unit went with them.  Left out is a timer whose command met an apply    *)
(* (hydra_firewall.sh, "must hold after a reboot too").                    *)
TakenAwayStaysAway == \A t \in undone : ~Some(table[t]) /\ ~AtBoot(t)

(* Refuted: that a trial keeps its way out whatever is done with another   *)
(* table.  The timer has one name: a trial or a revert of another table    *)
(* stops it, and no other is started for the first (hydra_firewall.sh,     *)
(* "a rule that shut you out undoes itself").                              *)
EveryTrialHasAWayOut ==
  \A t \in Tables \ disturbed :
    standing[t] = "trial" /\ At("idle") => HasAWayOut(t)
=============================================================================
