----------------------------- MODULE CiValidate -----------------------------
(***************************************************************************)
(* ci_validate.py, _doc_policy.py, build_test.py and the reading commands  *)
(* of hydra_project_tool.py: what makes a repository pass.  Versions are   *)
(* sequences of numbers; one that cannot be read is NoVersion.             *)
(***************************************************************************)
EXTENDS ReadmeLayout, RepoTree

CONSTANTS Keys,         \* what a manifest must have
          Documents     \* the files that must be there

NoVersion == <<-1>>
When(problem, found) == IF found THEN {problem} ELSE {}
Short(v) == SubSeq(v, 1, 3)
Padded(v) == [i \in 1 .. 4 |-> IF i \in DOMAIN v THEN v[i] ELSE 0]
Before(v, w) ==
  \E i \in 1 .. 4 : /\ Padded(v)[i] < Padded(w)[i]
                    /\ \A j \in 1 .. i - 1 : Padded(v)[j] = Padded(w)[j]

(* main: what each kind of native file must hold.                          *)
NativeSame(style, native, version) ==
  CASE style = "pubspec" -> native = Short(version)
    [] style = "npm" -> native \in {version, Short(version)}
    [] OTHER -> native = version

ManifestProblems(repo) ==
  When("manifest", ~repo.manifest \/ ~(Keys \subseteq repo.declares.keys))
  \cup When("values", repo.declares.wrong # {})
  \cup When("documents", ~(Documents \subseteq repo.documents))
  \cup When("native", \/ repo.native = NoVersion
                      \/ ~NativeSame(repo.style, repo.native, repo.version))

(* check_changelog_note: of the first heading with that version.           *)
NoteProblems(repo) ==
  LET of == {i \in DOMAIN repo.changelog : repo.changelog[i].version = repo.version}
  IN IF of = {} THEN {"no heading"}
     ELSE When("no note", ~repo.changelog[Least(of)].note)
          \cup When("tag", repo.tag \notin {<<>>, repo.version})

ChangelogProblems(repo) ==
  IF repo.changelog = <<>> \/ repo.changelog[1].version # repo.version
  THEN {"changelog"} ELSE NoteProblems(repo)

(* validate_readme_version_prose: `states` are the versions on the lines   *)
(* that speak of the current one and have no arrow; and the counts of      *)
(* tests in the notes.                                                     *)
ProseProblems(repo) ==
  When("prose version", \E l \in DOMAIN repo.readmes :
         repo.readmes[l].there /\ ~(repo.readmes[l].states \subseteq {repo.version}))
  \cup When("notes", repo.declares.counted)

(* .gitignore and the links between files.                                 *)
FileProblems(repo) ==
  When("gitignore", ~({".env", "!.env.example"} \subseteq repo.ignored))
  \cup When("links", ~(repo.linked \subseteq repo.reachable))

(* check_public_private_boundary: of what Git tracks, or of every text     *)
(* file outside the folders that hold no versioned text.                   *)
Private == {"marker", "phrase", "code"}
Searched(repo) ==
  {f \in repo.texts : ~f.binary /\ (IF repo.git THEN f.tracked ELSE ~f.unversioned)}
BoundaryProblems(repo) ==
  IF ~repo.searchable THEN {"boundary"}
  ELSE When("boundary", \E f \in Searched(repo) : f.holds \cap Private # {})

(* The scripts of the top and of scripts/, comments and printed lines left *)
(* out; and of package.json those that are not named for it.               *)
ScriptProblems(repo) ==
  LET code == {line \in repo.scripts : line.kind = "code"}
  IN When("bumps", \/ (\E line \in code : line.does = "bump")
                   \/ \E npm \in repo.npm : ~npm.named /\ npm.does = "bump")
     \cup When("activates", \E line \in code : line.does = "activate")

(* check_glance: only with the tool of the other repository (`there`) and  *)
(* its data file.                                                          *)
GlanceProblems(repo) ==
  IF ~repo.glance.there \/ ~repo.glance.data THEN {}
  ELSE When("glance", \/ ~repo.glance.readable
                      \/ repo.glance.listed /\ repo.glance.stale)

(* check_ecosystem_release.                                                *)
ReleaseProblems(repo) ==
  LET release == repo.release
  IN IF ~release.there THEN {}
     ELSE IF ~release.readable THEN {"release"}
     ELSE IF ~release.listed THEN {}
     ELSE When("ahead", \/ release.version = NoVersion
                        \/ Before(repo.version, release.version))
          \cup When("commit", \/ release.commit = "malformed"
                              \/ release.commit = "unknown" /\ ~repo.shallow)

(* Each check ends the program at its first problem, so it passes when     *)
(* there is none.                                                          *)
CiProblems(repo) ==
  LET early == ManifestProblems(repo)
  IN IF early # {} THEN early
     ELSE ChangelogProblems(repo) \cup ProseProblems(repo)
          \cup FileProblems(repo) \cup BoundaryProblems(repo)
          \cup ScriptProblems(repo)
          \cup When("parity", ~Parity(repo))
          \cup When("tree", \E l \in DOMAIN repo.readmes :
                              ~TreeOk(repo.readmes[l], repo))
          \cup When("layout", LayoutInCi(repo))
          \cup When("lights", LightsInCi(repo) # {})
          \cup GlanceProblems(repo) \cup ReleaseProblems(repo)
          \cup ExtraProblems(repo)

Validates(repo) == CiProblems(repo) = {}

-----------------------------------------------------------------------------
(* build_test.py, with the steps of this repository after it.              *)

Compiled == {"rust", "go", "android", "flutter", "firmware-c"}
Stacks == Compiled \cup {"python", "python-bare", "node"}

(* The commands of the stack: a flutter project is built where the host has*)
(* a target for it and only analyzed elsewhere.                            *)
Analyzed(repo, env) == repo.stack = "flutter" /\ ~env.target
StackPasses(repo, env) ==
  IF Analyzed(repo, env) THEN repo.analyzes ELSE repo.builds

(* local_build_refusal: what compiles is built by GitHub.                  *)
Refused(repo, env) == repo.stack \in Compiled /\ ~env.allowed /\ ~env.ci

(* Mutant: a build that is refused ends well. *)
BuildTestMildly(repo, env) ==
  CASE ~repo.manifest \/ repo.stack \notin Stacks -> 1
    [] Refused(repo, env) -> 0
    [] OTHER -> IF StackPasses(repo, env) /\ repo.ownSteps THEN 0 ELSE 1

BuildTest(repo, env) ==
  CASE ~repo.manifest \/ repo.stack \notin Stacks -> 1
    [] Refused(repo, env) -> 2
    [] OTHER -> IF StackPasses(repo, env) /\ repo.ownSteps THEN 0 ELSE 1

(* hydra_project_tool.py ci: a check that moves the version fails.         *)
ToolCi(repo, env) ==
  CASE ~Validates(repo) -> 1
    [] repo.moves -> 1
    [] OTHER -> BuildTest(repo, env)

(* native_version_problem: Cargo has the fourth number after a plus sign.  *)
Builds(repo) ==
  /\ repo.native # NoVersion
  /\ ~(repo.style = "cargo" /\ Len(repo.native) = 4 /\ repo.dotted)

(* doctor: the findings of each of its checks.                             *)
DoctorManifest(repo) ==
  IF ~repo.manifest THEN {"manifest"}
  ELSE When("keys", ~(Keys \subseteq repo.declares.keys))
       \cup When("values", repo.declares.wrong
                             \cap {"ecosystem", "name", "version"} # {})
       \cup When("enums", repo.declares.odd # {})
       \cup When("native", ~Builds(repo))

(* doctor_glance: without the data file it cannot be read.                 *)
DoctorGlance(repo) ==
  IF ~repo.glance.there THEN {}
  ELSE When("glance", \/ ~repo.glance.data \/ ~repo.glance.readable
                      \/ repo.glance.listed /\ repo.glance.stale)

DoctorChangelog(repo) ==
  IF repo.changelog = <<>> \/ repo.changelog[1].version # repo.version
  THEN {"heading"} ELSE When("note", ~repo.changelog[1].note)

DoctorPin(repo) ==
  IF repo.isSdk \/ repo.pins = {} THEN {}
  ELSE When("not a release", NoVersion \in repo.pins)
       \cup When("older", repo.newest # <<>>
                            /\ repo.pins \ {NoVersion, repo.newest} # {})

Doctor(repo) ==
  DoctorManifest(repo) \cup ReadmeProblems(repo, FALSE) \cup DoctorGlance(repo)
    \cup DoctorChangelog(repo) \cup DoctorPin(repo)
    \cup When("shared tools", repo.drift.known /\ repo.drift.files # {})

(* status: a clean tree, not behind the last tag.                          *)
StatusOk(repo) ==
  repo.clean /\ (repo.lastTag = <<>> \/ ~Before(repo.version, repo.lastTag))
=============================================================================
