---------------------------- MODULE ReleaseState ----------------------------
(***************************************************************************)
(* What the two deployment tools promise about the releases of a component *)
(* and its state.json, whatever they install and however it goes: a folder *)
(* that is named is there; a release comes into use on trial, and either   *)
(* it holds, or the two names are exactly what they were; a rollback swaps *)
(* the two names.  tools/deploy_release.py (packages) and                  *)
(* tools/deploy_tree.py (installers) each implement it.                    *)
(***************************************************************************)
CONSTANTS Names,  \* the names a release folder may get
          Null    \* no release

VARIABLES folders,   \* the names that have a folder
          current, previous,
          trial      \* the release before `previous`, while one is on trial

store == <<folders, current, previous, trial>>

Idle == [on |-> FALSE, earlier |-> Null]
OnTrial(earlier) == [on |-> TRUE, earlier |-> earlier]
Named == {current, previous} \cup (IF trial.on THEN {trial.earlier} ELSE {})

StoreInit ==
  /\ folders = {} /\ trial = Idle
  /\ current = Null /\ previous = Null

(* A program is kept under a name no folder has. *)
KeepAs(n) ==
  /\ n \notin folders
  /\ folders' = folders \cup {n}
  /\ UNCHANGED <<current, previous, trial>>

(* The new release is in use and `old` is the one to go back to: the       *)
(* release in use until now, or the copy begin made of what was installed. *)
PutInUse(n, old) ==
  /\ ~trial.on
  /\ n \in folders
  /\ old \in folders \cup {Null}
  /\ current' = n
  /\ previous' = old
  /\ trial' = OnTrial(previous)
  /\ UNCHANGED folders

(* It held, or the command was interrupted: only folders nobody names go.  *)
Accept ==
  /\ trial' = Idle
  /\ folders' \subseteq folders
  /\ folders \cap {current, previous} \subseteq folders'
  /\ UNCHANGED <<current, previous>>

(* It did not hold. *)
GoBack ==
  /\ trial.on
  /\ current' = previous
  /\ previous' = trial.earlier
  /\ trial' = Idle
  /\ UNCHANGED folders

SwapReleases ==
  /\ ~trial.on
  /\ previous \in folders
  /\ current' = previous
  /\ previous' = current
  /\ UNCHANGED <<folders, trial>>

StoreNext ==
  \/ \E n \in Names : KeepAs(n) \/ \E old \in Names \cup {Null} : PutInUse(n, old)
  \/ Accept
  \/ GoBack
  \/ SwapReleases

StoreSpec == StoreInit /\ [][StoreNext]_store

(* What state.json names has its folder.                                   *)
NamedHasFolder == Named \ {Null} \subseteq folders
=============================================================================
