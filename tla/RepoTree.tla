------------------------------ MODULE RepoTree ------------------------------
(***************************************************************************)
(* make_structure.py, make_architecture.py and the file trees of the       *)
(* READMEs: what a drawing, the tree that goes with it and the repository  *)
(* must agree on.                                                          *)
(*                                                                         *)
(* A listed name is the set of the names that match it, so a pattern is a  *)
(* set of more than one.  A row is the sequence of the names it lists, a   *)
(* tree the sequence of its items.                                         *)
(***************************************************************************)
EXTENDS Integers, Sequences, FiniteSets

CONSTANTS Hidden,       \* first-level names of READMEs and dotfiles
          Ordinary      \* first-level names that every repository has

GitHub == ".github"
Plain(listed) == Cardinality(listed) = 1

(* tree_items: a group lists its rows, a folder itself and then its rows,  *)
(* unless it has one description for the tree.                             *)
Item(depth, names) == [depth |-> depth, names |-> names]
RowItems(card, depth) == [r \in DOMAIN card.rows |-> Item(depth, card.rows[r])]
CardItems(card) ==
  CASE card.kind = "group" -> RowItems(card, 1)
    [] card.tree -> <<Item(1, <<card.name>>)>>
    [] OTHER -> <<Item(1, <<card.name>>)>> \o RowItems(card, 2)

TreeItems(spec) ==
  LET upTo[i \in 0 .. Len(spec.cards)] ==
        IF i = 0 THEN <<>> ELSE upTo[i - 1] \o CardItems(spec.cards[i])
  IN upTo[Len(spec.cards)]

(* tree_names.                                                             *)
NamesOf(item) == {item.names[k] : k \in DOMAIN item.names}
First(items) ==
  UNION {NamesOf(items[i]) : i \in {j \in DOMAIN items : items[j].depth = 1}}
FolderOf(items, i) ==
  LET above == {j \in 1 .. i : items[j].depth = 1}
  IN items[CHOOSE j \in above : \A k \in above : k <= j].names[1]
Second(items) ==
  UNION {{<<FolderOf(items, i), name>> : name \in NamesOf(items[i])} :
           i \in {j \in DOMAIN items : items[j].depth = 2}}

(* validate_spec, and render_tree in every language.                       *)
SpecProblems(spec) ==
  IF spec.keys /\ spec.texts
     /\ \A i \in DOMAIN spec.cards :
          LET card == spec.cards[i]
          IN card.rows # <<>> /\ (\/ \A r \in DOMAIN card.rows : card.rows[r] # <<>>
                                  \/ card.kind = "folder" /\ card.tree)
  THEN {} ELSE {"specification"}

(* NEVER_LISTED: READMEs and dotfiles, but not the workflows.              *)
NeverListed(name) == name \in Hidden /\ name # GitHub

(* check_disk: the files as Git has them, or as they are where it cannot   *)
(* be asked.                                                               *)
CheckDisk(spec, repo) ==
  LET items == TreeItems(spec)
      first == First(items)
      deep == {f \in repo.tracked : Len(f) > 1}
      below == {SubSeq(f, 1, 2) : f \in deep}
      known == IF repo.git THEN {f[1] : f \in repo.tracked} ELSE repo.entries
      missing == {n \in known : ~NeverListed(n)
                                  /\ n \notin (UNION first) \cup spec.exempt}
      phantom == {l \in first : Plain(l) /\ l \cap (repo.entries \cup known) = {}}
      gone == {p \in Second(items) :
                 /\ Plain(p[2])
                 /\ (p[1] \X p[2]) \cap (repo.inside \cup below) = {}}
      complete == {i \in DOMAIN spec.cards :
                     spec.cards[i].complete /\ spec.cards[i].kind = "folder"}
      rows(card) == UNION {row[1] : row \in {card.rows[r] : r \in
                      {q \in DOMAIN card.rows :
                         Len(card.rows[q]) = 1 /\ Plain(card.rows[q][1])}}}
      lacking == {f \in below : \E i \in complete :
                    /\ f[1] \in spec.cards[i].name
                    /\ f[2] \notin rows(spec.cards[i]) \cup {"__init__.py"}}
  IN (IF missing = {} THEN {} ELSE {"missing"})
     \cup (IF phantom = {} THEN {} ELSE {"phantom"})
     \cup (IF gone = {} THEN {} ELSE {"gone"})
     \cup (IF repo.git /\ lacking # {} THEN {"incomplete"} ELSE {})

(* check_readmes and the rest of run --check: the pictures and the trees   *)
(* are those of this specification.                                        *)
PictureLanguages(spec, languages) ==
  IF spec.pictures = "all" THEN languages ELSE {"en"} \cap languages

StructureProblems(spec, repo) ==
  LET languages == DOMAIN repo.readmes
      carries(l) == /\ repo.readmes[l].there
                    /\ \E t \in DOMAIN repo.readmes[l].trees :
                         repo.readmes[l].trees[t] = TreeItems(spec)
  IN IF SpecProblems(spec) # {} THEN SpecProblems(spec)
     ELSE CheckDisk(spec, repo)
          \cup {"picture" : l \in {m \in PictureLanguages(spec, languages) :
                                     repo.drawn.structure[m] # spec}}
          \cup {"readme" : l \in {m \in languages : ~carries(m)}}

-----------------------------------------------------------------------------
(* make_architecture.py.                                                   *)

MaxNodes == 12
Top == 116
Bottom == 530
NodeHeight(node) ==
  48 + 18 * (IF node.lines > 1 THEN node.lines - 1 ELSE 0) + 24
     + (IF node.level = "untested" THEN 12 ELSE 0)

InColumn(spec, column) == SelectSeq(spec.nodes, LAMBDA n : n.column = column)
Tallest(nodes) == CHOOSE h \in {NodeHeight(nodes[i]) : i \in DOMAIN nodes} :
                    \A j \in DOMAIN nodes : NodeHeight(nodes[j]) <= h

(* layout: the boxes of the repository in rows of one to three.            *)
PerRow(inner) == CASE Len(inner) <= 3 -> 1 [] Len(inner) \in 4 .. 8 -> 2 [] OTHER -> 3
BoxAt(inner, id) ==
  LET i == CHOOSE j \in DOMAIN inner : inner[j].id = id
  IN [row |-> (i - 1) \div PerRow(inner), sub |-> (i - 1) % PerRow(inner)]
SideEnd(nodes) ==
  LET end[i \in 0 .. Len(nodes)] ==
        IF i = 0 THEN Top - 16 ELSE end[i - 1] + NodeHeight(nodes[i]) + 16
  IN end[Len(nodes)]
InnerEnd(inner) ==
  LET per == PerRow(inner)
      rows == (Len(inner) + per - 1) \div per
      row(r) == SubSeq(inner, r * per + 1,
                       IF (r + 1) * per < Len(inner) THEN (r + 1) * per ELSE Len(inner))
      end[r \in 0 .. rows] ==
        IF r = 0 THEN Top + 20 ELSE end[r - 1] + Tallest(row(r - 1)) + 20
  IN end[rows]
Fits(spec) == /\ \A column \in {0, 2} : SideEnd(InColumn(spec, column)) <= Bottom
              /\ InnerEnd(InColumn(spec, 1)) <= Bottom + 8

(* edge_geometry: two boxes of the repository are joined side by side.     *)
Distance(a, b) == IF a < b THEN b - a ELSE a - b
NextTo(one, other) ==
  Distance(one.row, other.row) + Distance(one.sub, other.sub) = 1

NodeOf(spec, id) == spec.nodes[CHOOSE i \in DOMAIN spec.nodes : spec.nodes[i].id = id]
EdgeOk(spec, edge) ==
  LET ids == {spec.nodes[i].id : i \in DOMAIN spec.nodes}
      a == NodeOf(spec, edge.from)
      b == NodeOf(spec, edge.to)
      inner == InColumn(spec, 1)
  IN /\ {edge.from, edge.to} \subseteq ids
     /\ {a.column, b.column} # {0, 2}
     /\ (a.column = 1 /\ b.column = 1)
          => NextTo(BoxAt(inner, a.id), BoxAt(inner, b.id))

(* validate_spec.                                                          *)
ArchitectureOk(spec) ==
  /\ spec.keys
  /\ Len(spec.nodes) \in 1 .. MaxNodes
  /\ \A i, j \in DOMAIN spec.nodes : spec.nodes[i].id = spec.nodes[j].id => i = j
  /\ \A i \in DOMAIN spec.nodes : spec.nodes[i].column \in {0, 1, 2}
  /\ InColumn(spec, 1) # <<>>
  /\ \A edge \in spec.edges : EdgeOk(spec, edge)
  /\ Fits(spec)

(* check_code_refs: the file is there, and the text is in it.              *)
RefHolds(ref, repo) ==
  /\ ref.path \in DOMAIN repo.paths
  /\ ref.text # "" => /\ ~repo.paths[ref.path].folder
                      /\ ref.text \in repo.paths[ref.path].texts

ArchitectureProblems(spec, repo) ==
  IF ~ArchitectureOk(spec) THEN {"specification"}
  ELSE {"reference" : i \in {j \in DOMAIN spec.nodes :
                               \E ref \in spec.nodes[j].code : ~RefHolds(ref, repo)}}
       \cup (IF repo.drawn.architecture = spec THEN {} ELSE {"picture"})

-----------------------------------------------------------------------------
(* extra_checks.py: each where its tool and its specification are there.   *)
ExtraProblems(repo) ==
  (IF "architecture" \in repo.specified
   THEN ArchitectureProblems(repo.architecture, repo) ELSE {})
  \cup (IF "structure" \in repo.specified
        THEN StructureProblems(repo.structure, repo) ELSE {})

(* _readme_parity.py: the tree of a README is the one with most rows, and  *)
(* of a row it reads the first of the names between blanks.                *)
Rows(tree) == SelectSeq(tree, LAMBDA item : item.depth = 1)
LongestTree(trees) ==
  LET longest == {t \in DOMAIN trees : \A u \in DOMAIN trees :
                    Len(Rows(trees[u])) <= Len(Rows(trees[t]))}
  IN Rows(trees[CHOOSE t \in longest : \A u \in longest : t <= u])
ParityNames(trees) ==
  UNION {LongestTree(trees)[i].names[1] : i \in DOMAIN LongestTree(trees)}

TreeExempt == Hidden \cup Ordinary
TreeOk(readme, repo) ==
  ~readme.there \/ readme.trees = <<>> \/ ~repo.git
    \/ {f[1] : f \in repo.tracked} \ TreeExempt \subseteq ParityNames(readme.trees)
=============================================================================
