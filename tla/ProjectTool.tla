----------------------------- MODULE ProjectTool -----------------------------
(***************************************************************************)
(* hydra_project_tool.py bump: it runs the bump commands of VersionBump    *)
(* one after another, and what other hands do comes between them: edits,   *)
(* commands of their own, a commit, a kill of either program.              *)
(***************************************************************************)
EXTENDS VersionBump

CONSTANTS MaxTools,     \* bound: runs of the tool
          MaxCommits    \* bound: commits

ASSUME ToolAssumption == MaxTools \in Nat /\ MaxCommits \in Nat

VARIABLES
  head,       \* the files as committed
  tool,       \* what runs, the children left, the versions it compares, what
              \* it said, and the number of edits when its last child began
  tools, commits

toolVars == <<head, tool, tools, commits>>
allVars == <<vars, toolVars>>

ToolInit ==
  /\ Init
  /\ head = files
  /\ tool = [step |-> "idle", left |-> <<>>, before |-> manifest,
             wanted |-> manifest, says |-> "nothing"]
  /\ tools = 0 /\ commits = 0

Dirty == head # files

ToolAt(step) == tool.step = step
Says(what) == tool' = [tool EXCEPT !.step = "idle", !.left = <<>>, !.says = what]

(* bump: the script of the repository and then --sync, or the shared       *)
(* utility alone.                                                          *)
Children(own) == IF own THEN <<"own", "sync">> ELSE <<"shared">>

ToolBump(own, allowDirty) ==
  /\ ToolAt("idle") /\ tools < MaxTools
  /\ tools' = tools + 1
  /\ IF Dirty /\ ~allowDirty THEN Says("FAIL")
     ELSE tool' = [step |-> "between", left |-> Children(own), before |-> manifest,
                   wanted |-> NextVersion(manifest), says |-> "nothing"]
  /\ UNCHANGED <<vars, head, commits>>

(* A child is a command of VersionBump; the tool waits for it.             *)
StartChild ==
  /\ ToolAt("between") /\ tool.left # <<>>
  /\ CASE Head(tool.left) = "own" -> Bump(TRUE)
       [] Head(tool.left) = "shared" -> Bump(FALSE)
       [] Head(tool.left) = "sync" -> Sync(FALSE)
  /\ tool' = [tool EXCEPT !.step = "waits", !.left = Tail(@)]
  /\ UNCHANGED <<head, tools, commits>>

ChildEnds ==
  /\ ToolAt("waits") /\ At("idle")
  /\ IF cmd.code # 0 THEN Says("FAIL")
     ELSE tool' = [tool EXCEPT !.step = "between"]
  /\ UNCHANGED <<vars, head, tools, commits>>

(* Mutant: whatever the manifest says is what was wanted. *)
AnyVersion == TRUE

AsWanted == manifest = tool.wanted

CheckResult ==
  /\ ToolAt("between") /\ tool.left = <<>>
  /\ Says(IF AsWanted THEN "BUMPED" ELSE "FAIL")
  /\ UNCHANGED <<vars, head, tools, commits>>

(* The tool is killed; a child it waits for goes on.                       *)
KillTool ==
  /\ ~ToolAt("idle") /\ kills < MaxKills
  /\ kills' = kills + 1
  /\ Says("nothing")
  /\ UNCHANGED <<style, files, cmd, history, commands, edits, head, tools, commits>>

Commit ==
  /\ At("idle") /\ Dirty /\ commits < MaxCommits
  /\ commits' = commits + 1
  /\ head' = files
  /\ UNCHANGED <<vars, tool, tools>>

(* What a command does by itself, and what others begin while the tool     *)
(* does not wait for a child.                                              *)
CommandSteps == WriteNative \/ WriteMirrors \/ WriteManifest \/ WriteChangelog
                  \/ WriteLock \/ WriteAgent \/ Kill
Others == /\ ~ToolAt("waits")
          /\ Edit \/ EditLock \/ \E own \in BOOLEAN : Bump(own) \/ Sync(own)

ToolNext ==
  \/ \E own, allowDirty \in BOOLEAN : ToolBump(own, allowDirty)
  \/ StartChild \/ ChildEnds \/ CheckResult \/ KillTool \/ Commit
  \/ (CommandSteps \/ Others) /\ UNCHANGED toolVars

ToolSpec == ToolInit /\ [][ToolNext]_allVars

-----------------------------------------------------------------------------

(* What CI reads there (ci_validate.py read_native_version).  Its patterns  *)
(* are those of the manifest: one for a pubspec goes on to the plus sign.  *)
CiReads ==
  IF style = "pubspec" \/ (style = "fields+build" /\ ~FromFour(native))
  THEN Three(native) ELSE native

(* What CI asks of the native file (ci_validate.py main).                  *)
NativeSame(read, version) ==
  CASE style = "pubspec" -> read = Three(version)
    [] style = "npm" -> read \in {version, Three(version)}
    [] OTHER -> read = version

(* BUMPED is said of exactly one step, whatever came before and between    *)
(* the children: the manifest is the next of the version the tool began    *)
(* with; and, when the last command ended well and nothing was edited      *)
(* after it began, the change log begins with it, the lock file has it if  *)
(* it can be read, and CI accepts the native file (hydra_project_tool.py   *)
(* bump).                                                                  *)
BumpedIsTheNext ==
  [][tool'.says = "BUMPED" /\ tool.says # "BUMPED" =>
       /\ manifest = NextVersion(tool.before)
       /\ cmd.code = 0 /\ cmd.at = edits =>
            /\ changelog[1] = manifest /\ LockHas(manifest)
            /\ NativeSame(CiReads, manifest)]_allVars
=============================================================================
