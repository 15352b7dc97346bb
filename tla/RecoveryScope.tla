---------------------------- MODULE RecoveryScope ----------------------------
(***************************************************************************)
(* provisioning/recovery_scope.py and cm5_recovery.sh: what belongs to the *)
(* state of a device, how it is archived while its programs run and how it *)
(* is put back.  A path is the sequence of its words; a file is its folder,*)
(* its name and what it `is`: a name is a stem, whether it ends like a     *)
(* database, and the ending of a sidecar.  A link leads `to` a folder; the *)
(* root is the entry an archive may have of its own folder.                *)
(***************************************************************************)
EXTENDS Naturals, Sequences

Sidecars == {"-wal", "-shm", "-journal"}
Programs == {"server", "datalake"}
Folders == {"hydra-umc", "hydra-umc-nodes"}

(* ALLOWED_MEMBER: the beginnings a path inside the scope may have.        *)
Allowed ==
  {<<"etc", f>> : f \in Folders} \cup {<<"var", "lib", f>> : f \in Folders}
    \cup {<<"opt", "hydra-umc", p, "data">> : p \in Programs}
    \cup {<<"etc", "systemd", "system", "hydra-umc-x.service">>,
          <<"etc", "systemd", "system", "hydra-umc-x.service.d">>,
          <<"etc", "polkit-1", "rules.d", "10-hydra-umc.rules">>}

BeginsWith(path, top) == Len(top) <= Len(path) /\ SubSeq(path, 1, Len(top)) = top

(* Mutant: a path that climbs out is inside if it begins inside. *)
MemberOkUnclean(path, absolute) ==
  path = <<>> \/ (~absolute /\ \E top \in Allowed : BeginsWith(path, top))

(* member_problem: of the name; the entry of the root passes.              *)
MemberOk(path, absolute) ==
  \/ path = <<>>
  \/ /\ ~absolute
     /\ \A i \in DOMAIN path : path[i] # ".."
     /\ \E top \in Allowed : BeginsWith(path, top)

-----------------------------------------------------------------------------

(* No name in Allowed is one of a database or of a file beside one.        *)
PathOf(file) ==
  IF file.is = "root" THEN <<>>
  ELSE Append(file.folder, IF file.name.db THEN "database" ELSE file.name.stem)
InScope(file) == \E top \in Allowed : BeginsWith(PathOf(file), top)

SamePlace(f, g) == f.folder = g.folder /\ f.name = g.name
InPlaceOf(f, files) == \E g \in files : SamePlace(f, g)

(* top_level_paths and the walk below them.                                *)
Saved(files) == {f \in files : InScope(f)}

LooksLikeDb(file) ==
  file.is \in {"file", "link"} /\ file.name.db /\ file.name.side = ""
IsSqlite(file) == LooksLikeDb(file) /\ file.is = "file" /\ file.sqlite
Databases(files) == {f \in Saved(files) : IsSqlite(f)}

SidecarOf(file, db) ==
  /\ file.folder = db.folder /\ file.name.stem = db.name.stem
  /\ file.name.db /\ file.name.side \in Sidecars

(* Mutant: the sidecars of a database are archived with it. *)
LiveDbOnly(files) == Databases(files)

LiveDbFiles(files) ==
  Databases(files)
    \cup {f \in files : \E db \in Databases(files) : SidecarOf(f, db)}

(* backup looks at the device four times: at the paths that will be        *)
(* archived (`listed`), at the databases it copies (`before`), at the      *)
(* files it leaves out for them (`later`) and, as tar, at what there is    *)
(* below the paths (`read`).  A snapshot or a list of live files that      *)
(* fails prints nothing, and its status goes nowhere: the shell reads the  *)
(* output only, and the backup passes.  With no path there is no archive.  *)
Below(files, tops) ==
  {f \in files : \E top \in tops : BeginsWith(PathOf(f), top)}
Archive(moments, copied, named) ==
  [live |-> {f \in Below(moments.read, moments.listed) :
               ~(named /\ InPlaceOf(f, LiveDbFiles(moments.later)))},
   staged |-> IF copied /\ moments.listed # {} THEN Databases(moments.before) ELSE {}]

(* The copies are appended: of two members for one place the last counts.  *)
Members(archive) ==
  archive.staged \cup {f \in archive.live : ~InPlaceOf(f, archive.staged)}

(* restore: a member outside the scope refuses the whole archive.          *)
Accepted(members) ==
  members # {} /\ \A m \in members : MemberOk(PathOf(m), m.absolute)

(* What is below a link is where the link leads.                           *)
Leads(link, file) == link.is = "link" /\ BeginsWith(file.folder, PathOf(link))
Led(link, file) ==
  link.to \o SubSeq(file.folder, Len(PathOf(link)) + 1, Len(file.folder))
Landing(file, links) ==
  LET ways == {l \in links : Leads(l, file)}
  IN IF ways = {} THEN file
     ELSE [file EXCEPT !.folder = Led(CHOOSE l \in ways : TRUE, file)]

(* The sidecars of what looks like a database go before the extraction.    *)
DropSidecars(files, members) ==
  {f \in files :
     ~\E m \in members : LooksLikeDb(m) /\ SidecarOf(f, Landing(m, files))}

(* tar writes each member over what is in its place, through the links     *)
(* that it does not replace; a link of the archive is there for the        *)
(* members below it (`through`) or they are not written.  The entry of the *)
(* root sets the owner and the mode of the root.                           *)
Restore(files, members, through) ==
  LET left == DropSidecars(files, members)
      links == {m \in members : m.is = "link"}
      inPlace == {f \in left : ~InPlaceOf(f, members)}
                   \cup (IF through THEN links ELSE {})
      written == {m \in members : /\ m.is # "root"
                                  /\ through \/ ~\E l \in links : Leads(l, m)}
      landed == {Landing(m, inPlace) : m \in written}
  IN IF ~Accepted(members) THEN [files |-> files, root |-> "as it was"]
     ELSE [files |-> {f \in left : ~InPlaceOf(f, landed)} \cup landed,
           root |-> IF \E m \in members : m.is = "root" THEN "as archived"
                    ELSE "as it was"]
=============================================================================
