---------------------------- MODULE MCDecisions ----------------------------
(* Small inputs for Decisions.                                              *)
EXTENDS Decisions

\* Two installers: any script of program a beside a clean one of program b.
FirstScripts ==
  [script : {"a"}, source : {None, "a"}, target : {None, "a"}, user : {TRUE},
   units : {{}, {"a"}, {"b"}}, installs_manifest : BOOLEAN,
   contract : {0, 1, 2}, begins : {None, "a", "b"}, finishes : {None, "a", "b"},
   finish_after_reload : BOOLEAN, user_dirs : {{"data"}, {"data", "models"}, {"log"}},
   deploy_exempt : BOOLEAN]
SecondScript ==
  ScriptOf("b", "b", "b", {"b"}, 1, "b", "b")
Registries ==
  {[p \in {"b"} |-> [unit |-> "b", serves |-> TRUE]],
   [p \in {"a", "b"} |-> [unit |-> p, serves |-> p = "a"]],
   [p \in {"a", "b"} |-> [unit |-> None, serves |-> TRUE]]}
MCTables ==
  LET Table(scripts, missing, only, last) ==
        [scripts : {<<s, SecondScript>> : s \in scripts}, registry : Registries,
         hooksMissing : {missing}, only : {only}, last : {last}]
      plain == {s \in FirstScripts : s.user_dirs = {"data"} /\ ~s.deploy_exempt}
  IN Table(FirstScripts, FALSE, None, 2) \cup Table(plain, FALSE, None, 1)
       \cup Table(plain, FALSE, "b", 2) \cup Table(plain, TRUE, None, 2)

\* Configurations that differ from a sound one in one block or two.
Sound ==
  [schema_version |-> Text("1.0"), id |-> Text("name"), profile |-> Absent,
   minimum_free_bytes |-> Whole(2), maximum_temperature_celsius |-> Absent,
   storage_path |-> Absent, probes |-> Absent, local_socket |-> Absent]
Probes ==
  [is : {"object"}, unknown : {FALSE},
   enabled : {Absent, Flag(TRUE), Text("name")},
   vcgencmd : {Absent, Null}, systemctl : {Absent},
   hailo_device : {Null, Text("path")}, units : {Absent, List(2, TRUE)},
   timeout_seconds : {Absent}]
Configs ==
  {[Sound EXCEPT !.probes = p, !.storage_path = s] :
     p \in Probes \cup {Absent}, s \in {Absent, Text("name")}}
    \cup {[Sound EXCEPT !.maximum_temperature_celsius = m] :
            m \in {Whole(60), Whole(0), NotFinite}}
Vcgencmds ==
  {[status |-> NoStatus, answer |-> Unreadable],
   [status |-> 0, answer |-> Unreadable]}
    \cup {[status |-> 0, answer |-> [now |-> n, past |-> p]] :
            n \in {{}, {"throttled"}}, p \in {{}, {"under-voltage"}}}
UnitRuns ==
  {{[status |-> 0, answer |-> "active"], [status |-> 3, answer |-> a]} :
     a \in {"inactive", "failed"}}
  \cup {{[status |-> s, answer |-> "active"]} : s \in {0, NoStatus}}
Machines ==
  [storage_is_dir : BOOLEAN, free_there : {3}, free_here : {1, 2},
   interfaces : {0, 1}, temperature : {Null, Real(59), Real(60), Real(80)},
   vcgencmd : Vcgencmds, hailo : BOOLEAN, units : UnitRuns]
MCReports == [config : Configs, machine : Machines]

File(folder, stem, db, side, sqlite) ==
  [folder |-> folder, name |-> [stem |-> stem, db |-> db, side |-> side],
   sqlite |-> sqlite, absolute |-> FALSE, is |-> "file", to |-> <<>>]
Entry(folder, stem, is, to) ==
  [File(folder, stem, FALSE, "", FALSE) EXCEPT !.is = is, !.to = to]
Data == <<"opt", "hydra-umc", "server", "data">>
Files ==
  {File(Data, "x", TRUE, "", TRUE), File(Data, "x", TRUE, "-wal", FALSE),
   File(<<"etc", "systemd", "system">>, "hydra-umc-x.service", FALSE, "", FALSE),
   File(<<"etc", "hydra-umc">>, "x", TRUE, "", FALSE),
   File(<<"etc", "hydra-umc">>, "x", TRUE, "-journal", FALSE),
   File(<<"opt", "hydra-umc", "server">>, "x", TRUE, "", TRUE)}
\* Between two looks at the device a file or two come or go.
Differ(a, b) == (a \cup b) \ (a \cap b)
MCMoments ==
  {[listed |-> tops, before |-> a, later |-> Differ(a, b), read |-> Differ(Differ(a, b), c)] :
     tops \in {{}, {Data}, {Data, <<"etc", "hydra-umc">>}}, a \in SUBSET Files,
     b \in {{f, g} : f, g \in Files} \cup {{}}, c \in {{f} : f \in Files} \cup {{}}}
MCBackups ==
  [moments : MCMoments, copied : {TRUE}, named : {TRUE}, device : {Files}]
    \cup [moments : {m \in MCMoments : m.later = m.before}, copied : BOOLEAN,
          named : BOOLEAN, device : {{}}]

\* Members in and out of the scope, an entry of the root, a link in the state
\* and a file below it; a device where the data folder is a link.
Link == Entry(<<"etc", "hydra-umc">>, "disk", "link", <<"mnt">>)
Moved == Entry(<<"opt", "hydra-umc", "server">>, "data", "link", <<"mnt", "data">>)
Elsewhere == File(<<"mnt", "data">>, "x", TRUE, "-wal", FALSE)
Foreign ==
  {File(<<"etc", "hydra-umc", "..", "cron.d">>, "x", FALSE, "", FALSE),
   File(<<"etc">>, "x", TRUE, "", FALSE), File(<<"etc">>, "x", TRUE, "-wal", FALSE),
   [File(<<"etc", "hydra-umc">>, "x", TRUE, "", TRUE) EXCEPT !.absolute = TRUE]}
Inside == Files \ {File(<<"etc", "hydra-umc">>, "x", TRUE, "-journal", FALSE)}
MCRestores ==
  [members : SUBSET (Files \cup Foreign), through : {FALSE},
   device : {Files \cup {f \in Foreign : OnDevice(f)}}]
    \cup [members : SUBSET (Inside \cup
             {Link, Entry(<<"etc", "hydra-umc", "disk">>, "y", "file", <<>>),
              Entry(<<>>, "", "root", <<>>), [Moved EXCEPT !.is = "folder", !.to = <<>>]}),
          device : {Files, Files \cup {Link}, {Moved, Elsewhere}}, through : BOOLEAN]

Identity(names) ==
  [readable |-> TRUE, holds |-> [n \in names |-> "reviewed"]]
FineHost ==
  [config |-> Sound,
   profile |-> [schema_version |-> Text("1.0"), profile |-> Text("base"),
                enabled_services |-> [is |-> "list", plain |-> TRUE, repeats |-> FALSE],
                requires |-> [is |-> "list", plain |-> TRUE, repeats |-> FALSE]],
   identity |-> Identity(IdentityNames), agentContract |-> 0, skipSdk |-> FALSE,
   sdkContract |-> 0,
   env |-> [present |-> FALSE, readable |-> TRUE, weak |-> {}],
   server |-> [readable |-> TRUE, user |-> "hydra-umc-server",
               group |-> "hydra-umc-server", installer |-> "hydra-umc-server",
               complete |-> TRUE],
   guard |-> "warn", release |-> [id |-> "debian", codename |-> "trixie"],
   supported |-> {}, apply |-> TRUE]
Checked ==
  {[FineHost EXCEPT !.identity = i, !.env = e, !.guard = g, !.release = r,
                    !.supported = s, !.apply = a] :
     i \in {Identity(IdentityNames), Identity(IdentityNames \cup {"extra"}),
            [FineHost.identity EXCEPT !.holds["hostname"] = "other"]},
     e \in [present : BOOLEAN, readable : BOOLEAN, weak : {{}, {"TOKEN"}}],
     g \in {"warn", "enforce", "off", "sometimes"},
     r \in [id : {"debian", "other"}, codename : {"trixie", "bookworm"}],
     s \in {{}, {"bookworm"}}, a \in BOOLEAN}
  \cup {[FineHost EXCEPT !.config.id = c, !.profile.profile = p,
                         !.profile.requires.repeats = n, !.skipSdk = k,
                         !.sdkContract = d, !.server.user = u] :
          c \in {Text("name"), Text("blank")}, p \in {Text("base"), Text("control")},
          n \in BOOLEAN, k \in BOOLEAN, d \in {0, 1},
          u \in {"hydra-umc-server", "root"}}
SecretFiles ==
  [mode : {MaxMode, MaxMode \cup {<<"g", "w">>}, MaxMode \cup {<<"o", "r">>}},
   owner : {"root", "hydra-umc-x"}, group : {"root", "hydra-umc-x", "users"},
   empty : BOOLEAN, regular : BOOLEAN, matches : {TRUE}]
Panel(files) == [present |-> TRUE, readable |-> TRUE, files |-> files]
Panels ==
  {Panel({f, g}) : f \in SecretFiles, g \in {h \in SecretFiles : h.regular /\ ~h.empty}}
    \cup [present : BOOLEAN, readable : BOOLEAN, files : {{}}]
MCHosts ==
  [host : Checked, folder : {Panel({})}] \cup [host : {FineHost}, folder : Panels]

Devices ==
  [serial : {"missing", "odd", "zeros", "d1", "d2"},
   macs : {<<>>, <<"zeros">>, <<"zeros", "d1">>, <<"d3">>},
   machineId : {"missing", "d1", "d4"}, chosen : {NoName, "picked"}, off : BOOLEAN]
MCPairs == [pair : Devices \X {d \in Devices : d.chosen = NoName}]

-----------------------------------------------------------------------------
\* A repository that passes, and those that differ from it in a few places.
MCLanguages == <<"en", "es", "por">>
MCOrder == <<"glance", "status", "overview", "architecture", "structure", "author",
             "license">>
MCRequired == {"glance", "status", "overview", "author", "license"}

H2(id) == [is |-> "h2", icon |-> id, number |-> "none", named |-> TRUE]
Mark(is) == [is |-> is, icon |-> "", number |-> "none", named |-> TRUE]
FineLines ==
  <<H2("glance"), H2("status"), H2("overview"), Mark("h3"), Mark("fence"), Mark("text"),
    Mark("fence"), H2("author"), H2("license")>>

Group(rows) == [kind |-> "group", name |-> {"files"}, rows |-> rows, tree |-> FALSE,
                complete |-> FALSE]
Folder(name, tree, complete, rows) ==
  [kind |-> "folder", name |-> {name}, rows |-> rows, tree |-> tree,
   complete |-> complete]
Structure(cards) ==
  [keys |-> TRUE, texts |-> TRUE, pictures |-> "en", exempt |-> {"LICENSE"},
   cards |-> cards]
FineStructure ==
  Structure(<<Folder("src", FALSE, TRUE, <<<<{"a.py"}>>>>),
              Folder("docs", TRUE, FALSE, <<<<{"b.md"}>>>>),
              Group(<<<<{"run.sh", "run.bat"}>>, <<{".github"}>>, <<{"notes"}>>>>)>>)
Node(id, column) == [id |-> id, column |-> column, lines |-> 2, level |-> "tested",
                     code |-> {[path |-> "src", text |-> ""]}]
FineArchitecture ==
  [keys |-> TRUE, nodes |-> <<Node("a", 0), Node("b", 1), Node("c", 1), Node("d", 2)>>,
   edges |-> {[from |-> "a", to |-> "b"], [from |-> "b", to |-> "c"],
              [from |-> "c", to |-> "d"]}]

FineReadme ==
  [there |-> TRUE, lines |-> FineLines,
   has |-> HeaderParts \cup {"jump", "lights", "diagram"}, forbidden |-> {},
   counts |-> {}, links |-> {"web"}, states |-> {<<0, 7, 9>>},
   trees |-> <<TreeItems(FineStructure)>>]
Lit(kinds, light) == [kinds |-> kinds, light |-> light]
FineTable == <<Lit({"software"}, Green), Lit({"hardware"}, Orange)>>

FineRepo ==
  [manifest |-> TRUE, evidence |-> "host-test", immature |-> FALSE, bound |-> TRUE,
   tests |-> TRUE, workflow |-> TRUE, hydra |-> TRUE, hardware |-> "not_run",
   tables |-> [l \in Range(MCLanguages) |-> FineTable], source |-> <<>>,
   readmes |-> [l \in Range(MCLanguages) |-> FineReadme], ran |-> {},
   strictVariable |-> "", family |-> "HYDRA", checkFaults |-> FALSE,
   declares |-> [keys |-> {"name", "stack"}, wrong |-> {}, odd |-> {}, counted |-> FALSE],
   documents |-> {"CHANGELOG.md", "LICENSE"}, native |-> <<0, 7, 9>>, style |-> "plain",
   dotted |-> TRUE, version |-> <<0, 7, 9>>, tag |-> <<>>,
   changelog |-> <<[version |-> <<0, 7, 9>>, note |-> TRUE],
                   [version |-> <<0, 7, 8>>, note |-> TRUE]>>,
   ignored |-> {".env", "!.env.example"}, linked |-> {"src"}, reachable |-> {"src"},
   git |-> TRUE, searchable |-> TRUE,
   texts |-> {[binary |-> FALSE, tracked |-> TRUE, unversioned |-> FALSE, holds |-> {}],
              [binary |-> FALSE, tracked |-> FALSE, unversioned |-> TRUE,
               holds |-> {"marker"}]},
   scripts |-> {[kind |-> "comment", does |-> "bump"], [kind |-> "code", does |-> "build"]},
   npm |-> {[named |-> TRUE, does |-> "bump"]},
   glance |-> [there |-> TRUE, data |-> TRUE, readable |-> TRUE, listed |-> TRUE, stale |-> FALSE],
   release |-> [there |-> TRUE, readable |-> TRUE, listed |-> TRUE,
                version |-> <<0, 7, 9>>, commit |-> "known"],
   shallow |-> FALSE, specified |-> {"architecture", "structure"},
   structure |-> FineStructure, architecture |-> FineArchitecture,
   drawn |-> [structure |-> [l \in Range(MCLanguages) |-> FineStructure],
              architecture |-> FineArchitecture],
   tracked |-> {<<"src", "a.py">>, <<"docs", "b.md">>, <<"run.sh">>, <<"LICENSE">>,
                <<".github", "ci.yml">>, <<"notes">>, <<"README.md">>},
   entries |-> {"src", "docs", "run.sh", "LICENSE", ".github", "notes", "README.md",
                ".venv"},
   inside |-> {<<"src", "a.py">>, <<"docs", "b.md">>},
   paths |-> [p \in {"src"} |-> [folder |-> TRUE, texts |-> {}]],
   stack |-> "python", builds |-> TRUE, analyzes |-> TRUE, ownSteps |-> TRUE, moves |-> FALSE,
   isSdk |-> FALSE, pins |-> {<<0, 7, 5>>}, newest |-> <<0, 7, 5>>,
   drift |-> [known |-> FALSE, files |-> {}], clean |-> TRUE, lastTag |-> <<0, 7, 8>>]

FineBoard ==
  [manifest |-> TRUE, evidence |-> "host-test", immature |-> FALSE, bound |-> TRUE,
   tests |-> TRUE, workflow |-> TRUE, hydra |-> TRUE, hardware |-> "not_run",
   tables |-> FineRepo.tables, source |-> <<Orange, Orange>>]

\* Lights: every table of two rows in English, another in a translation.
Tables2 == {<<Lit(k, a), Lit(m, b)>> :
              k \in {{"hardware"}, {"tests", "integration"}}, a \in Lights,
              m \in {{"software"}, {}}, b \in {0, Green}}
MCBoards ==
  [lights : {[FineBoard EXCEPT !.evidence = e, !.immature = i, !.bound = b, !.tests = t,
                              !.hydra = FALSE, !.tables["en"] = en, !.tables["es"] = es,
                              !.tables["por"] = por] :
               e \in {"none", "bench", "field"}, i \in BOOLEAN, b \in BOOLEAN,
               t \in BOOLEAN, en \in Tables2,
               es \in {FineTable, <<Lit({}, Green)>>}, por \in {Missing, FineTable}}
             \cup {[FineBoard EXCEPT !.tables["en"] = en, !.hardware = w] :
                     en \in Tables2, w \in {"bench", "not_run"}},
   ciNow : {"unknown", "red"}, raise : BOOLEAN, stop : {0, 1, 3}]

Begin == <<H2("glance"), H2("status")>>
End == <<H2("author"), H2("license")>>
Linings ==
  {FineLines, SubSeq(FineLines, 1, 8), SubSeq(FineLines, 1, 1)}
    \cup {Begin \o middle \o End : middle \in
            {<<Mark("fence"), H2("overview"), Mark("fence")>>,
             <<H2("overview"), Mark("fence"), H2("structure"), Mark("fence")>>,
             <<H2("structure"), H2("overview")>>,
             <<H2("overview"), [H2("structure") EXCEPT !.number = "before"]>>,
             <<[H2("overview") EXCEPT !.number = "after"]>>}}
Written ==
  {[FineRepo EXCEPT !.readmes["en"].lines = one, !.readmes["es"].lines = two,
                    !.readmes["por"].lines = two, !.family = f, !.strictVariable = v,
                    !.readmes["por"].there = p] :
     one \in Linings, two \in Linings, f \in {"HYDRA", ""}, v \in {"", "0", "1"},
     p \in BOOLEAN}
Structures ==
  {FineStructure,
   Structure(<<Folder("src", FALSE, TRUE, <<<<{"a.py"}>>>>),
               Group(<<<<{"docs"}>>, <<{"run.sh"}, {"notes"}>>>>)>>),
   Structure(<<Folder("src", FALSE, FALSE, <<<<{"c.py"}>>>>),
               Group(<<<<{"docs"}>>, <<{"run.sh", "run.bat"}>>, <<{".github"}>>>>)>>)}
Listed ==
  {[FineRepo EXCEPT !.structure = s,
                    !.readmes["en"].trees = <<TreeItems(t)>>,
                    !.readmes["es"].trees = u \o <<TreeItems(t)>>,
                    !.readmes["por"].trees = <<TreeItems(t)>>,
                    !.drawn.structure["en"] = d, !.tracked = f, !.entries = e, !.git = g,
                    !.specified = h] :
     s \in Structures, t \in Structures, u \in {<<TreeItems(x)>> : x \in Structures},
     d \in Structures,
     f \in {FineRepo.tracked, FineRepo.tracked \ {<<".github", "ci.yml">>},
             FineRepo.tracked \cup {<<"src", "lib", "d.py">>}, FineRepo.tracked \ {<<"notes">>}},
     e \in {FineRepo.entries, FineRepo.entries \ {".github"}}, g \in BOOLEAN,
     h \in {{}, {"structure"}}}
Drawn ==
  {[FineRepo EXCEPT !.architecture = a, !.drawn.architecture = a, !.paths = p] :
     a \in {[FineArchitecture EXCEPT !.edges = e, !.nodes[3].column = c,
                                    !.nodes[2].lines = n] :
              e \in SUBSET {[from |-> "a", to |-> "b"], [from |-> "a", to |-> "c"],
                            [from |-> "b", to |-> "c"], [from |-> "c", to |-> "d"],
                            [from |-> "a", to |-> "d"]},
              c \in {1, 2}, n \in {2, 30}},
     p \in {FineRepo.paths, [q \in {} |-> [folder |-> TRUE, texts |-> {}]]}}
Versioned ==
  {[FineRepo EXCEPT !.version = v, !.native = n, !.style = s, !.tag = t,
                    !.changelog[1].note = c, !.changelog[1].version = w,
                    !.release.commit = r, !.glance = g] :
     v \in {<<0, 7, 9>>, <<0, 8, 0, 0>>}, n \in {<<0, 7, 9>>, <<0, 8, 0, 0>>, <<0, 8, 0>>},
     s \in {"plain", "npm", "pubspec", "cargo"}, t \in {<<>>, <<0, 7, 9>>},
     c \in BOOLEAN, w \in {<<0, 7, 9>>, <<0, 8, 0, 0>>},
     r \in {"known", "unknown", "malformed"},
     g \in {FineRepo.glance, [FineRepo.glance EXCEPT !.stale = TRUE],
            [FineRepo.glance EXCEPT !.data = FALSE]}}
Committed ==
  {[FineRepo EXCEPT !.texts = {[binary |-> b, tracked |-> t, unversioned |-> u,
                                holds |-> h]}, !.git = g] :
     b \in BOOLEAN, t \in BOOLEAN, u \in BOOLEAN, h \in {{}, {"code"}}, g \in BOOLEAN}
Built ==
  {[FineRepo EXCEPT !.scripts = s, !.ignored = i, !.declares = d, !.stack = k,
                    !.moves = m, !.builds = b, !.analyzes = a] :
     s \in {FineRepo.scripts, {[kind |-> "code", does |-> "activate"]}},
     i \in {FineRepo.ignored, {".env"}}, m \in BOOLEAN, b \in BOOLEAN, a \in BOOLEAN,
     d \in {FineRepo.declares, [FineRepo.declares EXCEPT !.odd = {"role"}],
            [FineRepo.declares EXCEPT !.keys = {"name"}]},
     k \in {"python", "rust", "flutter", "cobol"}}
Environments == [allowed : BOOLEAN, ci : BOOLEAN, target : BOOLEAN]
MCRepositories ==
  UNION {[repository : r, env : {[allowed |-> FALSE, ci |-> TRUE, target |-> FALSE]}] :
           r \in {Written, Listed, Drawn, Versioned, Committed}}
    \cup [repository : Built, env : Environments]
=============================================================================
