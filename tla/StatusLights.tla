---------------------------- MODULE StatusLights ----------------------------
(***************************************************************************)
(* status_lights.py: the lights of the status table of the READMEs stay    *)
(* below the ceiling that the manifest, its evidence and the files of the  *)
(* repository give.  A table is the sequence of its rows; a README without *)
(* one has the empty sequence, one that is not there has Missing.          *)
(***************************************************************************)
EXTENDS Integers, Sequences, FiniteSets

CONSTANTS Languages     \* the READMEs, in the order of the program

English == Languages[1]
Missing == <<[kinds |-> {}, light |-> -1]>>

(* The lights, worst to best; 0 stands for any other text.                 *)
Orange == 2
Yellow == 3
Green == 4
Lights == 1 .. Green

Levels == {"none", "host-test", "simulator", "bench", "field"}
Least(S) == CHOOSE x \in S : \A y \in S : x <= y

(* kind_of: the first of these that the label of a row speaks of.          *)
Kinds == <<"integration", "hardware", "tests", "docs", "software">>
KindOf(row) ==
  LET named == {i \in DOMAIN Kinds : Kinds[i] \in row.kinds}
  IN IF named = {} THEN "other" ELSE Kinds[Least(named)]
OfHardware == {"integration", "hardware"}
OfSoftware == {"software", "tests", "docs"}

EvidenceCeiling(evidence) ==
  CASE evidence = "field" -> Green
    [] evidence = "bench" -> Yellow
    [] OTHER -> Orange

(* Mutant: a row of integration is not held by the evidence. *)
CeilingOfBoards(kind, repo, ciNow) ==
  Least({Green}
    \cup (IF repo.immature THEN {Yellow} ELSE {})
    \cup (IF kind = "hardware" /\ repo.bound
          THEN {EvidenceCeiling(repo.evidence)} ELSE {})
    \cup (IF kind \in OfSoftware /\ (~repo.tests \/ ~repo.workflow \/ ciNow = "red")
          THEN {Yellow} ELSE {}))

Ceiling(kind, repo, ciNow) ==
  Least({Green}
    \cup (IF repo.immature THEN {Yellow} ELSE {})
    \cup (IF kind \in OfHardware /\ repo.bound
          THEN {EvidenceCeiling(repo.evidence)} ELSE {})
    \cup (IF kind \in OfSoftware /\ (~repo.tests \/ ~repo.workflow \/ ciNow = "red")
          THEN {Yellow} ELSE {}))

(* evaluate: what it can be asked of.                                      *)
HasTable(table) == table \notin {<<>>, Missing}
CanEvaluate(repo) == repo.manifest /\ HasTable(repo.tables[English])

LightsOf(table) == [i \in DOMAIN table |-> table[i].light]

(* hydra_problems: what the glance data says of the hardware.              *)
EvidenceFor(hardware) ==
  CASE hardware = "not_run" -> {"none", "host-test"}
    [] hardware = "simulated" -> {"simulator"}
    [] hardware = "bench" -> {"bench"}
    [] hardware = "in_use" -> {"field"}
    [] OTHER -> Levels \cup {"missing", "odd"}

HydraProblems(repo) ==
  IF ~repo.hydra \/ repo.hardware = "not listed" THEN {}
  ELSE IF repo.hardware = "not_applicable"
       THEN (IF repo.bound THEN {"bound"} ELSE {})
       ELSE (IF repo.bound THEN {} ELSE {"unbound"})
            \cup (IF repo.evidence \in EvidenceFor(repo.hardware) THEN {}
                  ELSE {"evidence against glance"})

(* problems_of.                                                            *)
LightProblems(repo, ciNow) ==
  LET table == repo.tables[English]
      above == {i \in DOMAIN table :
                  \/ table[i].light \notin Lights
                  \/ table[i].light > Ceiling(KindOf(table[i]), repo, ciNow)}
      differ == {l \in 2 .. Len(Languages) :
                   /\ repo.tables[Languages[l]] # Missing
                   /\ LightsOf(repo.tables[Languages[l]]) # LightsOf(table)}
  IN (IF repo.evidence \in Levels THEN {} ELSE {"evidence"})
     \cup HydraProblems(repo)
     \cup (IF above = {} THEN {} ELSE {"above"})
     \cup (IF differ = {} THEN {} ELSE {"differ"})

(* run_in_ci: a table that is not there is not its business.               *)
LightsInCi(repo) ==
  IF ~HasTable(repo.tables[English]) THEN {}
  ELSE IF CanEvaluate(repo) THEN LightProblems(repo, "unknown") ELSE {"unreadable"}

(* --suggest: the rows that could be better.                               *)
Suggested(repo, ciNow) ==
  {i \in DOMAIN repo.tables[English] :
     LET row == repo.tables[English][i]
     IN row.light \in Lights /\ row.light < Ceiling(KindOf(row), repo, ciNow)}

-----------------------------------------------------------------------------
(* --apply: the READMEs one after another, then the source of the          *)
(* generator; it may be stopped after any of those writes.                 *)

WantedLight(row, repo, ciNow, raise) ==
  LET top == Ceiling(KindOf(row), repo, ciNow)
  IN CASE row.light \in Lights /\ row.light > top -> top
       [] row.light \in Lights /\ row.light < top /\ raise
            /\ KindOf(row) \in OfHardware -> row.light + 1
       [] OTHER -> row.light

Wanted(repo, ciNow, raise) ==
  [i \in DOMAIN repo.tables[English] |->
     WantedLight(repo.tables[English][i], repo, ciNow, raise)]

WithLights(table, wanted) ==
  [i \in DOMAIN table |-> [table[i] EXCEPT !.light = wanted[i]]]

(* A table of another length ends the command, with the earlier READMEs    *)
(* written; `stop` is how many READMEs are reached.                        *)
Reached(repo, wanted, stop) ==
  {l \in 1 .. stop : \A k \in 1 .. l :
     repo.tables[Languages[k]] # Missing
       => Len(repo.tables[Languages[k]]) = Len(wanted)}

(* patch_armor_source, patch_urtc_source: the rows of the generator.        *)
Patched(source, wanted) ==
  IF Len(source) = Len(wanted) THEN wanted ELSE source

Apply(repo, ciNow, raise, stop) ==
  LET wanted == Wanted(repo, ciNow, raise)
      reached == Reached(repo, wanted, stop)
      written == [l \in DOMAIN repo.tables |->
        IF repo.tables[l] # Missing /\ \E k \in reached : Languages[k] = l
        THEN WithLights(repo.tables[l], wanted) ELSE repo.tables[l]]
      whole == reached = DOMAIN Languages
      patches == whole /\ wanted # LightsOf(repo.tables[English])
                   /\ repo.source # <<>>
  IN IF repo.hydra \/ ~CanEvaluate(repo)
     THEN [repo |-> repo, applied |-> FALSE]
     ELSE [repo |-> [repo EXCEPT
                       !.tables = written,
                       !.source = IF patches THEN Patched(@, wanted) ELSE @],
           applied |-> whole /\ (patches => Len(repo.source) = Len(wanted))]
=============================================================================
