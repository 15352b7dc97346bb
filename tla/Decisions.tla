------------------------------ MODULE Decisions ------------------------------
(***************************************************************************)
(* The programs that only decide: each reads its input and answers.  A     *)
(* behaviour is one question, asked of one of them, and its answer; the    *)
(* properties compare the answer with what it is relied on for.            *)
(***************************************************************************)
EXTENDS InstallPlan, RecoveryScope, HostChecks, CiValidate, Functions

CONSTANTS Tables,      \* the scripts of a table and the registry
          Reports,     \* a configuration of the agent and a machine
          Backups,     \* the files while a backup runs, what fails, a device
          Restores,    \* the members of any archive, and a device
          Hosts,       \* what the installer of the base and the panel see
          Pairs,       \* two devices
          Boards,      \* a repository's lights and a command stopped in it
          Repositories \* a repository and where its checks run

\* A script is there with everything read_script looks for, and no two of them
\* install one repository (provisioning/install_plan.json).
ScriptKeys == {"script", "source", "target", "user", "units", "installs_manifest",
               "contract", "begins", "finishes", "finish_after_reload", "user_dirs",
               "deploy_exempt"}
InstallersApart(scripts) ==
  /\ DOMAIN scripts \subseteq Nat
  /\ \A i \in DOMAIN scripts : /\ DOMAIN scripts[i] = ScriptKeys
                               /\ scripts[i].script # None
  /\ \A i, j \in DOMAIN scripts :
       scripts[i].source = scripts[j].source /\ scripts[i].source # None => i = j

\* Numbers and words are what the programs compare them as.
Measured(config, machine) ==
  LET maximum == Get(config.maximum_temperature_celsius, DefaultMaximum)
  IN /\ machine.temperature \in {Null} \cup [is : {"float"}, n : Int]
     /\ machine.vcgencmd.answer \in [now : SUBSET STRING, past : SUBSET STRING]
     /\ IsNumber(maximum) => maximum.n \in Int

\* A file of a device has a path below the root, and there is one in a place;
\* a member of an archive has any.  The state that is saved has no links.
Paths == Seq(STRING)
OnDevice(file) ==
  /\ file.folder \in Paths /\ ~file.absolute
  /\ \A i \in DOMAIN PathOf(file) : PathOf(file)[i] # ".."
Moments == {"listed", "before", "later", "read"}
OfFiles(files) ==
  /\ \A f \in files : OnDevice(f) /\ f.is = "file"
  /\ \A f, g \in files : SamePlace(f, g) => f = g

IsRecord(r) == r = [key \in DOMAIN r |-> r[key]]

\* Every README has a table, which may be empty or Missing.
LightRows == [kinds : SUBSET STRING, light : Int]
Tabled(board) ==
  /\ {"tables", "source"} \subseteq DOMAIN board
  /\ board.tables \in [{Languages[l] : l \in DOMAIN Languages} -> Seq(LightRows)]

\* A README is lines; the icon of a heading is one of a section or another.
ReadmeLines ==
  [is : {"h2", "h3", "fence", "text"}, icon : STRING,
   number : {"none", "before", "after"}, named : BOOLEAN]
Legible(lines) ==
  /\ lines \in Seq(ReadmeLines)
  /\ \A i \in Indices(lines, "h2") : lines[i].icon \in Range(Order) \cup {"unknown"}
Surveyed(repo) ==
  /\ DOMAIN repo.readmes = {Languages[l] : l \in DOMAIN Languages}
  /\ \A l \in DOMAIN repo.readmes : Legible(repo.readmes[l].lines)
  /\ repo.changelog \in Seq([version : Seq(Int), note : BOOLEAN])

ASSUME DecisionsAssumption ==
  /\ \A q \in Tables : /\ DOMAIN q = {"scripts", "registry", "hooksMissing", "only", "last"}
                       /\ InstallersApart(q.scripts)
  /\ \A q \in Reports : /\ DOMAIN q = {"config", "machine"}
                        /\ Measured(q.config, q.machine)
  /\ \A q \in Backups : /\ DOMAIN q = {"moments", "copied", "named", "device"}
                        /\ DOMAIN q.moments = Moments /\ q.moments.listed \subseteq Allowed
                        /\ \A at \in Moments \ {"listed"} : OfFiles(q.moments[at])
                        /\ OfFiles(q.device)
  /\ \A q \in Restores : /\ DOMAIN q = {"members", "device", "through"}
                         /\ \A f \in q.members :
                              /\ {"folder", "name", "is"} \subseteq DOMAIN f
                              /\ f.folder \in Paths
                         /\ \A f \in q.device : f.is # "root"
  /\ \A q \in Hosts : /\ DOMAIN q = {"host", "folder"}
                      /\ IsRecord(q.host.identity.holds)
  /\ \A q \in Pairs : /\ DOMAIN q = {"pair"}
                      /\ \A i \in 1 .. 2 : q.pair[i].macs \in Seq(STRING)
  /\ \A q \in Boards : /\ DOMAIN q = {"lights", "ciNow", "raise", "stop"}
                       /\ Tabled(q.lights)
  /\ Languages \in Seq(STRING) /\ Order \in Seq(STRING)
  /\ \A q \in Repositories : DOMAIN q = {"repository", "env"} /\ Surveyed(q.repository)

VARIABLES question, answer
decided == <<question, answer>>

DecisionsInit ==
  /\ \/ question \in Tables \/ question \in Reports \/ question \in Backups
     \/ question \in Restores \/ question \in Hosts \/ question \in Pairs
     \/ question \in Boards \/ question \in Repositories
  /\ answer = [of |-> "nothing"]

\* Which program is asked shows in what it is given.
Asked(input) == input \in DOMAIN question /\ answer.of = "nothing"
Answers(a) == answer' = a /\ UNCHANGED question

\* install_plan.py, then generate_installers.py --replace.
AskTable ==
  /\ Asked("scripts")
  /\ LET rows == Build(question.scripts, question.registry)
     IN Answers([of |-> "table", rows |-> rows,
                 replaced |-> Replace(rows, question.hooksMissing, question.only,
                                      question.last)])

\* hydra-umc-agent health.
AskReport ==
  /\ Asked("config")
  /\ Answers([of |-> "report",
              state |-> IF ConfigOk(question.config)
                        THEN Health(question.config, question.machine)
                        ELSE "refused"])

\* cm5_recovery.sh backup, and its archive restored.
AskBackup ==
  /\ Asked("moments")
  /\ LET archive == Archive(question.moments, question.copied, question.named)
     IN Answers([of |-> "backup", archive |-> archive,
                 files |-> Restore(question.device, Members(archive), FALSE).files])

\* cm5_recovery.sh restore of an archive of any origin.
AskRestore ==
  /\ Asked("members")
  /\ LET after == Restore(question.device, question.members, question.through)
     IN Answers([of |-> "restore", files |-> after.files, root |-> after.root])

\* install_cm5_base.sh and verify_cm5_runtime.sh --secrets.
AskHost ==
  /\ Asked("folder")
  /\ Answers([of |-> "host", changed |-> BaseInstalls(question.host),
              passes |-> RuntimePasses(TRUE, TRUE, question.folder)])

\* device_identity.py on two devices.
AskNames ==
  /\ Asked("pair")
  /\ Answers([of |-> "names", names |-> <<HostName(question.pair[1]),
                                          HostName(question.pair[2])>>])

\* status_lights.py --suggest, then --apply, stopped after some READMEs, and
\* then again.
AskLights ==
  /\ Asked("lights")
  /\ LET once == Apply(question.lights, question.ciNow, question.raise,
                       question.stop)
         again == Apply(once.repo, question.ciNow, FALSE, Len(Languages))
     IN Answers([of |-> "lights", once |-> once, again |-> again,
                 suggested |-> IF CanEvaluate(question.lights)
                               THEN Suggested(question.lights, question.ciNow)
                               ELSE {},
                 accepted |-> CanEvaluate(question.lights)
                                /\ LightProblems(question.lights, "unknown") = {}])

\* hydra_project_tool.py ci, doctor and status of one repository.
AskRepository ==
  /\ Asked("repository")
  /\ LET repo == question.repository
     IN Answers([of |-> "repository", ci |-> ToolCi(repo, question.env),
                 doctor |-> Doctor(repo), status |-> StatusOk(repo)])

Done == answer.of # "nothing" /\ UNCHANGED decided

DecisionsNext == AskTable \/ AskReport \/ AskBackup \/ AskRestore \/ AskHost
                   \/ AskNames \/ AskLights \/ AskRepository \/ Done

DecisionsSpec == DecisionsInit /\ [][DecisionsNext]_decided

-----------------------------------------------------------------------------
(* Properties.                                                             *)

Accepts(rows) == \A i \in DOMAIN rows : NoProblems(rows[i])

Projects(rows) ==
  {[as |-> "source", name |-> rows[i].source] : i \in DOMAIN rows}
    \cup {[as |-> "short", name |-> rows[i].script] : i \in DOMAIN rows}

OnlyDeployKnows(row, deploy, back) ==
  /\ row.unit = None /\ back.on.unit = None
  /\ row.target \in row.units /\ deploy.on.unit = row.target

SameUnitBothWays(rows, registry) ==
  \A project \in Projects(rows) :
    LET deploy == Command("deploy", rows, registry, project)
        back == Command("rollback", rows, registry, project)
        row == Find(rows, project)
    IN /\ deploy.does = "refused" <=> back.does = "refused"
       /\ deploy.does = "settle" =>
            /\ deploy.on.component = back.on.component
            /\ deploy.on.serves = back.on.serves
            /\ deploy.on.unit = back.on.unit \/ OnlyDeployKnows(row, deploy, back)

UpdaterMayDeploy(rows, registry) ==
  \A name \in DeployableProjects(rows) :
    Command("deploy", rows, registry, [as |-> "source", name |-> name]).does
      = "settle"

\* A table without problems: deploy and rollback refuse the same projects and
\* work on the same folder and health route, and on the same unit but for a
\* program whose unit the registry does not list: deploy restarts the unit of
\* its folder, rollback none (deploy_lib.sh:69, hydra_umc_os.py:136).  One
\* takes them from the registry by the name in deploy_begin and the other
\* from the table.  Every project sudo allows the updater is one the command
\* accepts; and all of it still holds after generate_installers.py --replace,
\* of all scripts or of one, stopped after any of them, which leaves a table
\* without problems (problems, "must name the same service").
TableAgrees ==
  answer.of = "table" /\ Accepts(answer.rows) =>
    /\ Accepts(answer.replaced)
    /\ \A rows \in {answer.rows, answer.replaced} :
         /\ SameUnitBothWays(rows, question.registry)
         /\ UpdaterMayDeploy(rows, question.registry)

\* Refuted: rollback restarts what deploy restarts (hydra_umc_os.py:11,
\* "restart and health check when the unit runs").
RollbackRestartsTheUnit ==
  answer.of = "table" /\ Accepts(answer.rows) =>
    \A project \in Projects(answer.rows) :
      LET deploy == Command("deploy", answer.rows, question.registry, project)
          back == Command("rollback", answer.rows, question.registry, project)
      IN deploy.does = "settle" => deploy.on.unit = back.on.unit

\* A backup taken while the programs run, whose copies of the databases and
\* whose list of live files could be made, can be restored: whatever was there
\* from its beginning to its end is in the archive; a database is there as the
\* consistent copy, never as the live file and never with a journal that was
\* there when the live files were listed (cm5_recovery.sh:48; one that comes
\* between that list and tar's look at it, l.50, is archived); the restore
\* accepts every member, and leaves no journal of an older database beside a
\* restored one (cm5_recovery.sh: it "would be replayed over the restored
\* one").
SavedIsRestorable ==
  answer.of = "backup" /\ question.copied /\ question.named =>
    LET at == question.moments
        archive == answer.archive
        members == Members(archive)
        stayed == Below(at.before, at.listed) \cap at.later \cap at.read
    IN /\ \A f \in stayed \ members :
            \E db \in Databases(at.later) : SidecarOf(f, db)
       /\ at.listed # {} => Databases(at.before) \subseteq members
       /\ \A db \in archive.staged \cap at.later :
            /\ ~InPlaceOf(db, archive.live)
            /\ ~\E f \in archive.live : SidecarOf(f, db) /\ InPlaceOf(f, at.later)
       /\ members # {} => members \subseteq answer.files
       /\ \A db \in archive.staged : ~\E f \in answer.files \ members :
            SidecarOf(f, db)

\* Refuted: no journal of a live database is archived beside its copy
\* (recovery_scope.py:17, "so the archive leaves them out").
NoJournalBesideACopy ==
  answer.of = "backup" /\ question.copied /\ question.named =>
    \A db \in answer.archive.staged \cap question.moments.later :
      ~\E f \in answer.archive.live : SidecarOf(f, db)

\* A backup that passes has every database that was there when it began and
\* when it ended (docs/CM5_PROVISIONING.md: "SQLite databases are copied with
\* the SQLite backup API").
PassedBackupHasDatabases ==
  answer.of = "backup" /\ question.moments.listed # {} =>
    Databases(question.moments.before) \cap question.moments.read
      \subseteq Members(answer.archive)

\* An archive of any origin changes no file outside the state of HYDRA-UMC but
\* through a link: what a restore adds, replaces or removes is inside it, or
\* where a link of the device or of the archive leads a member, or the archive
\* is refused and nothing is changed at all (check-members before the rest).
Touched(before, after) == (after \cup before) \ (after \cap before)
ThroughALink(f, members, device) ==
  \E m \in members, l \in members \cup device :
    Leads(l, m) /\ f.folder = Led(l, m)

RestoreStaysInside ==
  answer.of = "restore" =>
    \A f \in Touched(question.device, answer.files) :
      \/ InScope(f) /\ \A i \in DOMAIN f.folder : f.folder[i] # ".."
      \/ ThroughALink(f, question.members, question.device)

\* Refuted: a restore is of "only HYDRA-UMC state" (cm5_recovery.sh:7), also
\* where the archive has an entry of its root, or links are on the way.
RestoreLeavesTheRoot == answer.of = "restore" => answer.root = "as it was"
RestoreFollowsNoLink ==
  answer.of = "restore" => \A f \in Touched(question.device, answer.files) : InScope(f)

ReadyMeansSound ==
  answer.state = "READY" =>
    LET config == question.config
        machine == question.machine
        probes == config.probes
    IN /\ FreeBytes(config, machine) >= config.minimum_free_bytes.n
       /\ machine.interfaces > 0
       /\ machine.temperature # Null
       /\ machine.temperature.n
            < Get(config.maximum_temperature_celsius, DefaultMaximum).n
       /\ InForce(probes) =>
            /\ machine.vcgencmd.status = 0
            /\ machine.vcgencmd.answer = [now |-> {}, past |-> {}]
            /\ ~NotGiven(probes.hailo_device) => machine.hailo
            /\ Get(probes.units, List(0, TRUE)).n > 0
                 => \A run \in machine.units : run.answer = "active"

HostChecked ==
  /\ answer.changed =>
       /\ question.host.identity.holds = [n \in IdentityNames |-> "reviewed"]
       /\ ~question.host.skipSdk => question.host.sdkContract = 0
       /\ ~question.host.env.present \/ question.host.env.weak = {}
       /\ question.host.guard = "enforce"
            => Supports(question.host.release, question.host.supported)
       /\ question.host.guard \in {"warn", "enforce", "off"}
  /\ answer.passes /\ question.folder.present /\ question.folder.readable =>
       \A f \in question.folder.files :
         f.regular /\ f.matches => f.owner = "root" /\ ~OpenToOthers(f)

\* A verdict is earned.  READY is said of a node only when its disk has the
\* configured room, it has a network, its temperature is known and below the
\* limit and, with the probes in force, the board reports no condition now or
\* since the boot, the accelerator is there and every unit is active (health:
\* "READY" when no check warns or fails).  The installer of the base changes
\* a host only after its checks, the release among them where it is enforced;
\* and the runtime verification with a panel that ran passes only when no
\* secret is open to others or belongs to anyone but root.
PassIsEarned ==
  /\ answer.of = "report" => ReadyMeansSound
  /\ answer.of = "host" => HostChecked

Identifiers(device) ==
  LET numbers ==
        {device.serial} \cup {device.macs[i] : i \in DOMAIN device.macs}
  IN ((numbers \ {"zeros"}) \cup {device.machineId}) \ Unusable

\* Two devices get the same default name only when they share an identifier,
\* or when neither has one (_from_cpuinfo: "every such board would share one
\* name").
NamesTellApart ==
  answer.of = "names" =>
    LET one == question.pair[1]
        other == question.pair[2]
    IN answer.names[1] = answer.names[2] /\ answer.names[1] # NoName
       /\ one.chosen = NoName /\ other.chosen = NoName
       => Identifiers(one) \cap Identifiers(other) # {}

\* The lights a reader relies on (status_lights.py, the ceilings of its
\* heading): none of hardware without having run on a board.
Shown(repo) == {repo.tables[English][i] : i \in DOMAIN repo.tables[English]}
Honest(repo, row) ==
  /\ {"hardware", "integration"} \cap row.kinds # {} /\ repo.bound =>
       /\ row.light = Green => repo.evidence = "field"
       /\ row.light = Yellow => repo.evidence \in {"bench", "field"}
  /\ row.light = Green => ~repo.immature
  /\ row.light = Green /\ KindOf(row) \in OfSoftware => repo.tests /\ repo.workflow

\* An accepted table is honest, also where a row names two kinds.  Lights are
\* only lowered, except those of hardware that --raise may raise by one, where
\* --suggest says they could be better; and
\* a command stopped between two READMEs is made good by another one: the
\* lights are below their ceilings and the same in every language
\* (status_lights.py apply).
LightsStayHonest ==
  answer.of = "lights" =>
    LET before == question.lights
        after == answer.again.repo
    IN /\ answer.accepted => \A row \in Shown(before) : Honest(before, row)
       /\ before.hydra => after = before
       /\ answer.again.applied /\ (\A row \in Shown(before) : row.light \in Lights) =>
            LightProblems(after, question.ciNow) \cap {"above", "differ"} = {}
       /\ CanEvaluate(before) =>
            \A i \in DOMAIN before.tables[English] :
              LET was == before.tables[English][i]
                  is == after.tables[English][i].light
              IN is > was.light => /\ question.raise /\ is = was.light + 1
                                   /\ i \in answer.suggested
                                   /\ Honest(before, [was EXCEPT !.light = is])

\* The headings a reader sees: those outside the code blocks.
InBlock(lines) ==
  LET open[i \in 0 .. Len(lines)] ==
        IF i = 0 THEN FALSE
        ELSE IF lines[i].is = "fence" THEN ~open[i - 1] ELSE open[i - 1]
  IN open
Visible(lines) ==
  LET seen == Ascending({i \in DOMAIN lines : lines[i].is = "h2" /\ ~InBlock(lines)[i]})
  IN [s \in DOMAIN seen |-> lines[seen[s]].icon]

\* What a reader takes a repository for: every README shows the required
\* sections in the fixed order, the same in each language; each carries the
\* tree of the specification, which lists every versioned entry that is not
\* hidden, the workflows too; the code the picture of the architecture points
\* to is there; what compiles was compiled, but a flutter project without a
\* target on the host, which was analyzed; and `doctor` has nothing to say of
\* the READMEs, the changelog and the glance data, which it reads by itself,
\* but that the data file is not there, where `ci` takes the check for absent.
TakenFor(repo, env, doctor) ==
  LET seen(l) == Visible(repo.readmes[l].lines)
      spec == repo.structure
  IN /\ \A l \in DOMAIN repo.readmes :
          /\ seen(l) = seen(English)
          /\ \A s, t \in DOMAIN seen(l) : s < t => Rank(seen(l)[s]) < Rank(seen(l)[t])
          /\ Required \subseteq Range(seen(l)) /\ Range(seen(l)) \subseteq Range(Order)
     /\ "structure" \in repo.specified /\ repo.git =>
          /\ \A f \in repo.tracked : f[1] \notin Hidden \/ f[1] = GitHub =>
               f[1] \in (UNION First(TreeItems(spec))) \cup spec.exempt
          /\ \A l \in DOMAIN repo.readmes :
               TreeItems(spec) \in Range(repo.readmes[l].trees)
     /\ "architecture" \in repo.specified =>
          \A i \in DOMAIN repo.architecture.nodes :
            \A ref \in repo.architecture.nodes[i].code :
              ref.path \in DOMAIN repo.paths
     /\ repo.stack \in Compiled =>
          /\ env.allowed \/ env.ci
          /\ repo.builds \/ (Analyzed(repo, env) /\ repo.analyzes)
     /\ doctor \subseteq {"enums", "native", "not a release", "older", "shared tools"}
                         \cup When("glance", ~repo.glance.data)

\* A passing `ci` of a strict family: the repository is what a reader takes it
\* for (ci_validate.py, the two readings of the READMEs, build_test.py, doctor).
PassedIsSound ==
  answer.of = "repository" /\ answer.ci = 0 /\ Strict(question.repository)
      /\ ~question.repository.checkFaults
    => TakenFor(question.repository, question.env, answer.doctor)

\* Refuted: what compiles was compiled (build_test.py:34, "the check of these
\* compiles").
PassedIsCompiled ==
  answer.of = "repository" /\ answer.ci = 0 /\ question.repository.stack \in Compiled
    => question.repository.builds
=============================================================================
