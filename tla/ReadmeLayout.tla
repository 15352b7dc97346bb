---------------------------- MODULE ReadmeLayout ----------------------------
(***************************************************************************)
(* universal_readme_check.py and _readme_parity.py: two readings of the    *)
(* sections of the READMEs.  A README is a record: `lines` are those that  *)
(* matter here (headings, fences, other text), the rest says what else of  *)
(* it is looked at.                                                        *)
(***************************************************************************)
EXTENDS StatusLights

CONSTANTS Order,        \* the known sections, in their fixed order
          Required      \* those that every repository has

ASSUME LayoutAssumption ==
  /\ \A i, j \in DOMAIN Order : Order[i] = Order[j] => i = j
  /\ Required \subseteq {Order[i] : i \in DOMAIN Order}
  /\ Len(Order) >= 4 /\ Len(Languages) >= 1

Rank(id) == CHOOSE i \in DOMAIN Order : Order[i] = id

Indices(lines, is) == {i \in DOMAIN lines : lines[i].is = is}

(* Mutant: a heading in a code block is a heading. *)
NeverFenced(lines, i) == FALSE

(* Readme: a line after an odd number of fences is in a code block.        *)
Fenced(lines, i) ==
  Cardinality({k \in Indices(lines, "fence") : k < i}) % 2 = 1

(* A number before the icon hides it; one after it is noticed.             *)
SectionOf(line) ==
  [id |-> IF line.number = "before" THEN "unknown" ELSE line.icon,
   numbered |-> line.number = "after", named |-> line.named]

\* The numbers of a set in ascending order.
Ascending(S) ==
  [k \in 1 .. Cardinality(S) |->
     CHOOSE i \in S : Cardinality({j \in S : j <= i}) = k]

Headings(lines) == Ascending({i \in Indices(lines, "h2") : ~Fenced(lines, i)})
Sections(lines) ==
  LET at == Headings(lines) IN [s \in DOMAIN at |-> SectionOf(lines[at[s]])]
SubSections(lines) ==
  LET at == Headings(lines)
  IN [s \in DOMAIN at |->
        Cardinality({i \in Indices(lines, "h3") :
           /\ ~Fenced(lines, i) /\ i > at[s]
           /\ s < Len(at) => i < at[s + 1]})]

Ids(readme) == LET found == Sections(readme.lines)
               IN [s \in DOMAIN found |-> found[s].id]

(* The order that check_file asks of the sections it knows.                *)
InOrder(ids) ==
  LET known == {s \in DOMAIN ids : ids[s] # "unknown"}
  IN /\ \A s, t \in known : s < t => Rank(ids[s]) <= Rank(ids[t])
     /\ \A s, t \in known : ids[s] = ids[t] => s = t

(* check_file; `has` are the parts of the header and of the sections that  *)
(* are there, `forbidden` what the prose must not have.                    *)
HeaderParts == {"banner", "title", "bar", "description", "badges", "honesty"}
PartOf == [glance |-> "jump", status |-> "lights", architecture |-> "diagram"]

LayoutProblems(readme, english) ==
  LET ids == Ids(readme)
      sections == Sections(readme.lines)
      of(s) == IF sections[s].id = "unknown" \/ sections[s].numbered
                  \/ ~sections[s].named
               THEN {"section"} ELSE {}
      when(problem, found) == IF found THEN {problem} ELSE {}
  IN (UNION {of(s) : s \in DOMAIN sections})
     \cup when("header", ~(HeaderParts \subseteq readme.has))
     \cup when("order", ~InOrder(ids))
     \cup when("required", ~(Required \subseteq {ids[s] : s \in DOMAIN ids}))
     \cup when("first", Len(ids) < 2 \/ SubSeq(ids, 1, 2) # SubSeq(Order, 1, 2))
     \cup when("last", \/ Len(ids) < 2
                       \/ SubSeq(ids, Len(ids) - 1, Len(ids))
                            # SubSeq(Order, Len(Order) - 1, Len(Order)))
     \cup when("parts", \E s \in DOMAIN ids :
                 ids[s] \in DOMAIN PartOf /\ PartOf[ids[s]] \notin readme.has)
     \cup when("prose", readme.forbidden # {})
     \cup when("counts", Cardinality(readme.counts) > 1)
     \cup when("sequence", ids # Ids(english))
     \cup when("subsections", ids = Ids(english)
                 /\ SubSections(readme.lines) # SubSections(english.lines))

(* check_repository; `ran` is what the tests report, where they are run.   *)
There(repo, l) == repo.readmes[l].there
ReadmeProblems(repo, run) ==
  LET english == repo.readmes[English]
      of(l) == IF ~There(repo, l) THEN {"missing"}
               ELSE LayoutProblems(repo.readmes[l],
                      IF There(repo, English) THEN english ELSE repo.readmes[l])
  IN (UNION {of(Languages[l]) : l \in DOMAIN Languages})
     \cup (IF ~run \/ ~There(repo, English) THEN {}
           ELSE IF repo.ran = {} THEN {"not run"}
           ELSE IF english.counts \notin {{}, repo.ran} THEN {"ran"} ELSE {})

(* strict_requested, FAMILY_STRICT, family_of.                             *)
Strict(repo) ==
  CASE repo.strictVariable = "" -> repo.family \in {"ARMOR", "URTC", "HYDRA", "EH3D"}
    [] OTHER -> repo.strictVariable \notin {"0", "false", "no"}

(* run_in_ci: a fault of the check is no failure.                          *)
LayoutInCi(repo) ==
  ~repo.checkFaults /\ ReadmeProblems(repo, FALSE) # {} /\ Strict(repo)

-----------------------------------------------------------------------------
(* _readme_parity.py: headings by a pattern, in code blocks too, and with  *)
(* a number before the icon left out.                                      *)

SectionSignature(readme) ==
  LET headings == SelectSeq(readme.lines, LAMBDA line : line.is = "h2")
  IN [s \in DOMAIN headings |-> headings[s].icon]

RequiredLanguages == {Languages[Len(Languages)]}

Parity(repo) ==
  LET english == repo.readmes[English]
      others == {Languages[l] : l \in 2 .. Len(Languages)}
  IN /\ There(repo, English)
     /\ \A l \in RequiredLanguages : There(repo, l)
     /\ \A l \in others : There(repo, l) =>
          /\ SectionSignature(repo.readmes[l]) = SectionSignature(english)
          /\ repo.readmes[l].links = english.links
=============================================================================
