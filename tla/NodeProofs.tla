------------------------------ MODULE NodeProofs ------------------------------
(***************************************************************************)
(* The properties of the programs that keep little or no state: those of   *)
(* Agent, for any number of agents and checks and every length of the      *)
(* cache and of the heartbeat, and those of Decisions, for any input the   *)
(* programs may be given.                                                  *)
(***************************************************************************)
EXTENDS Agent, Decisions, FiniteSetTheorems, SequenceTheorems, WellFoundedInduction, TLAPS

-----------------------------------------------------------------------------
(* The agent.  The three parts of the invariant are about different        *)
(* variables: the socket path, the loop that writes the journal, the       *)
(* thread that answers.                                                    *)

(* Unless two agents started or closed at the same time, one that has      *)
(* bound the path owns it, and one about to unlink found nobody serving.   *)
PathIsOwned ==
  ~overlap =>
    /\ \A a, b \in Agents : a # b => ~(Between(a) /\ Between(b))
    /\ \A a \in Agents :
         pc[a] \in {"chmod", "listen", "serve", "close"} => path = a
    /\ \A a, b \in Agents : pc[a] = "unlink" => pc[b] # "serve"

SocketInv ==
  /\ pc \in [Agents -> Starting \cup {"down", "serve", "close"}]
  /\ PathIsOwned

(* What was last written is what the gate remembers, and the loop sleeps   *)
(* when that is what it has just read.                                     *)
LoopInv ==
  /\ report \in [step : {"read", "judge", "sleep"},
                 found : Findings \cup {Nothing}]
  /\ gate \in [signature : {Signature(f) : f \in Findings} \cup {Nothing},
               age : 0 .. Heartbeat]
  /\ report.step = "judge" => report.found \in Findings
  /\ journal = gate.signature
  /\ report.step = "sleep" => gate.signature = Signature(report.found)

(* A report saw the machine after its clock was read.                      *)
Stamps == [age : 0 .. CacheSeconds, saw : 0 .. CacheSeconds, looked : BOOLEAN]
StampIsOlder(stamped) ==
  stamped # Nothing => stamped \in Stamps /\ stamped.saw <= stamped.age

AnswerInv ==
  /\ StampIsOlder(thread) /\ StampIsOlder(cached)
  /\ AnswersAreFresh

IInv == machine \in Findings /\ SocketInv /\ LoopInv /\ AnswerInv

-----------------------------------------------------------------------------

(* At first nobody serves and nothing was read.                            *)
LEMMA InitIInv == Init => IInv
<1> SUFFICES ASSUME Init PROVE IInv
  OBVIOUS
<1> USE AgentAssumption DEF Init
<1>1. SocketInv
  BY DEF SocketInv, PathIsOwned, Starting, Between
<1>2. LoopInv
  BY DEF LoopInv
<1>3. AnswerInv
  BY DEF AnswerInv, StampIsOlder, AnswersAreFresh
<1> QED
  BY <1>1, <1>2, <1>3 DEF IInv

(* The steps of one agent on its way up or down.                           *)
LEMMA SocketStep ==
  ASSUME SocketInv, NEW a \in Agents,
         \/ Start(a) \/ Lstat(a) \/ Connect(a) \/ Unlink(a) \/ Bind(a)
         \/ Chmod(a) \/ Listen(a) \/ Close(a) \/ CloseUnlink(a) \/ Kill(a)
  PROVE  SocketInv'
<1> USE AgentAssumption DEF SocketInv, PathIsOwned, Starting, Between, Goto
<1>e. ASSUME Ends(a)
      PROVE  Goto(a, "down")
  BY <1>e DEF Ends
<1>1. CASE Start(a)
  BY <1>1 DEF Start, Alone
<1>2. CASE Lstat(a)
  BY <1>2 DEF Lstat
<1>3. CASE Connect(a)
  BY <1>3, <1>e DEF Connect, Listens
<1>4. CASE Unlink(a)
  BY <1>4, <1>e DEF Unlink
<1>5. CASE Bind(a)
  BY <1>5, <1>e DEF Bind
<1>6. CASE Chmod(a)
  BY <1>6, <1>e DEF Chmod
<1>7. CASE Listen(a)
  BY <1>7 DEF Listen
<1>8. CASE Close(a)
  BY <1>8 DEF Close, Alone
<1>9. CASE CloseUnlink(a)
  BY <1>9, <1>e DEF CloseUnlink
<1>10. CASE Kill(a)
  BY <1>10, <1>e DEF Kill
<1> QED
  BY <1>1, <1>2, <1>3, <1>4, <1>5, <1>6, <1>7, <1>8, <1>9, <1>10

(* What they do to the reporter's memory: nothing, or it starts anew.      *)
LEMMA MemoryStep ==
  ASSUME NEW a \in Agents,
         \/ Start(a) \/ Lstat(a) \/ Connect(a) \/ Unlink(a) \/ Bind(a)
         \/ Chmod(a) \/ Listen(a) \/ Close(a) \/ CloseUnlink(a) \/ Kill(a)
  PROVE  /\ UNCHANGED <<loop, answers>> \/ (FreshLoop /\ FreshAnswers)
         /\ UNCHANGED machine
BY DEF Start, Lstat, Connect, Unlink, Bind, Chmod, Listen, Close, CloseUnlink,
       Kill, Ends

(* When a second passes the clock of a report and what it saw age alike.   *)
LEMMA TickStep ==
  ASSUME NEW stamped, StampIsOlder(stamped)
  PROVE  StampIsOlder(Older(stamped))
<1> USE AgentAssumption DEF StampIsOlder, Older, Stamps, Capped
<1>1. CASE stamped = Nothing
  BY <1>1
<1>2. CASE stamped # Nothing
  <2> DEFINE age == Capped(stamped.age, CacheSeconds)
             saw == IF stamped.looked THEN Capped(stamped.saw, CacheSeconds)
                    ELSE 0
  <2>1. stamped \in Stamps /\ stamped.saw <= stamped.age
    BY <1>2
  <2>2. age \in 0 .. CacheSeconds /\ saw \in 0 .. CacheSeconds /\ saw <= age
    <3>1. /\ stamped.age \in 0 .. CacheSeconds
          /\ stamped.saw \in 0 .. CacheSeconds
      BY <2>1
    <3>2. CASE stamped.looked
      <4>1. saw = Capped(stamped.saw, CacheSeconds)
        BY <3>2
      <4> QED
        BY <2>1, <3>1, <4>1
    <3>3. CASE ~stamped.looked
      <4>1. saw = 0
        BY <3>3
      <4> QED
        BY <3>1, <4>1
    <3> QED
      BY <3>2, <3>3
  <2>3. Older(stamped) = [stamped EXCEPT !.age = age, !.saw = saw]
    BY <1>2
  <2> HIDE DEF age, saw
  <2>4. [stamped EXCEPT !.age = age, !.saw = saw] \in Stamps
    BY <2>1, <2>2
  <2>5. /\ [stamped EXCEPT !.age = age, !.saw = saw].age = age
        /\ [stamped EXCEPT !.age = age, !.saw = saw].saw = saw
    BY <2>1
  <2> QED
    BY <2>2, <2>3, <2>4, <2>5
<1> QED
  BY <1>1, <1>2

(* Every step keeps the invariant: it is about one of the three parts.     *)
LEMMA NextIInv ==
  ASSUME IInv, [Next]_vars
  PROVE  IInv'
<1> USE AgentAssumption DEF IInv, At, Serving
<1>s. ASSUME UNCHANGED sockets
      PROVE  SocketInv'
  BY <1>s DEF sockets, SocketInv, PathIsOwned, Between
<1>l. ASSUME UNCHANGED loop
      PROVE  LoopInv'
  BY <1>l DEF loop, LoopInv
<1>a. ASSUME UNCHANGED answers
      PROVE  AnswerInv'
  BY <1>a DEF answers, AnswerInv, StampIsOlder, AnswersAreFresh
<1>1. ASSUME NEW a \in Agents,
             \/ Start(a) \/ Lstat(a) \/ Connect(a) \/ Unlink(a) \/ Bind(a)
             \/ Chmod(a) \/ Listen(a) \/ Close(a) \/ CloseUnlink(a) \/ Kill(a)
      PROVE  IInv'
  <2>1. SocketInv' /\ UNCHANGED machine
    BY <1>1, SocketStep, MemoryStep
  <2>2. CASE UNCHANGED <<loop, answers>>
    BY <1>l, <1>a, <2>1, <2>2
  <2>3. CASE FreshLoop /\ FreshAnswers
    <3>1. LoopInv'
      BY <2>3 DEF FreshLoop, LoopInv
    <3>2. AnswerInv'
      BY <2>3 DEF FreshAnswers, AnswerInv, StampIsOlder, AnswersAreFresh
    <3> QED
      BY <2>1, <3>1, <3>2
  <2> QED
    BY <1>1, <2>2, <2>3, MemoryStep
<1>2. CASE ReadHealth
  <2>1. LoopInv'
    BY <1>2 DEF ReadHealth, LoopInv
  <2> QED
    BY <1>2, <1>s, <1>a, <2>1 DEF ReadHealth
<1>3. CASE ShouldEmit
  <2>1. LoopInv'
    BY <1>3 DEF ShouldEmit, Changed, LoopInv
  <2> QED
    BY <1>3, <1>s, <1>a, <2>1 DEF ShouldEmit
<1>4. CASE Sleep
  <2>1. LoopInv'
    BY <1>4 DEF Sleep, LoopInv
  <2> QED
    BY <1>4, <1>s, <1>a, <2>1 DEF Sleep
<1>5. CASE AnswerCached
  <2>1. AnswerInv'
    BY <1>5
    DEF AnswerCached, Fresh, AnswerInv, StampIsOlder, Stamps, AnswersAreFresh
  <2> QED
    BY <1>5, <1>s, <1>l, <2>1 DEF AnswerCached
<1>6. CASE AnswerStarts
  <2>1. AnswerInv'
    BY <1>6 DEF AnswerStarts, AnswerInv, StampIsOlder, Stamps, AnswersAreFresh
  <2> QED
    BY <1>6, <1>s, <1>l, <2>1 DEF AnswerStarts
<1>7. CASE AnswerLooks
  <2>1. /\ thread \in Stamps /\ thread.saw <= thread.age
        /\ thread' = [thread EXCEPT !.saw = 0, !.looked = TRUE]
    BY <1>7 DEF AnswerLooks, AnswerInv, StampIsOlder
  <2>2. thread' = [age |-> thread.age, saw |-> 0, looked |-> TRUE]
    BY <2>1 DEF Stamps
  <2>3. StampIsOlder(thread')
    <3>1. thread.age \in 0 .. CacheSeconds /\ 0 <= thread.age
      BY <2>1 DEF Stamps
    <3>2. /\ [age |-> thread.age, saw |-> 0, looked |-> TRUE] \in Stamps
          /\ [age |-> thread.age, saw |-> 0, looked |-> TRUE].saw <= thread.age
      BY <3>1 DEF Stamps
    <3> QED
      BY <2>2, <3>2 DEF StampIsOlder
  <2>4. AnswerInv'
    BY <1>7, <2>3 DEF AnswerLooks, AnswerInv, StampIsOlder, AnswersAreFresh
  <2> QED
    BY <1>7, <1>s, <1>l, <2>4 DEF AnswerLooks
<1>8. CASE AnswerComputed
  <2>1. AnswerInv'
    BY <1>8
    DEF AnswerComputed, Stamp, AnswerInv, StampIsOlder, AnswersAreFresh
  <2> QED
    BY <1>8, <1>s, <1>l, <2>1 DEF AnswerComputed
<1>9. CASE MachineChanges
  BY <1>9, <1>s, <1>l, <1>a DEF MachineChanges
<1>10. CASE Tick
  <2>1. LoopInv'
    BY <1>10 DEF Tick, LoopInv, Capped
  <2>2. StampIsOlder(Older(thread)) /\ StampIsOlder(Older(cached))
    BY TickStep DEF AnswerInv
  <2>3. AnswerInv'
    BY <1>10, <2>2 DEF Tick, AnswerInv, StampIsOlder, AnswersAreFresh
  <2> QED
    BY <1>10, <1>s, <2>1, <2>3 DEF Tick
<1>11. CASE UNCHANGED vars
  BY <1>11, <1>s, <1>l, <1>a DEF vars
<1> QED
  BY <1>1, <1>2, <1>3, <1>4, <1>5, <1>6, <1>7, <1>8, <1>9, <1>10, <1>11
  DEF Next

-----------------------------------------------------------------------------

(* Every reachable state satisfies the invariant.                          *)
THEOREM Invariance == Spec => []IInv
BY InitIInv, NextIInv, PTL DEF Spec

(* However many agents of a node start, refuse to start, close or die, an  *)
(* agent that serves keeps its path, as long as no two of them start or    *)
(* close at the same time (agent.py _free_the_path, start, close).         *)
THEOREM ServingStaysReachable == Spec => []ServingIsReachable
<1>1. IInv => ServingIsReachable
  BY DEF IInv, SocketInv, PathIsOwned, ServingIsReachable
<1> QED
  BY Invariance, <1>1, PTL

(* After every turn of the loop the last line of the journal has the       *)
(* states the loop has just read (agent.py ReportGate).                    *)
THEOREM JournalStaysCurrent == Spec => []JournalIsCurrent
<1>1. IInv => JournalIsCurrent
  BY DEF IInv, LoopInv, JournalIsCurrent, At
<1> QED
  BY Invariance, <1>1, PTL

(* No client gets a report that saw the machine cache_seconds ago or       *)
(* earlier, unless it was computed for it (agent.py answer).               *)
THEOREM AnswersStayFresh == Spec => []AnswersAreFresh
<1>1. IInv => AnswersAreFresh
  BY DEF IInv, AnswerInv
<1> QED
  BY Invariance, <1>1, PTL

-----------------------------------------------------------------------------
(* The scope of a recovery archive *)

(* A path begins where its folder and its name say.                        *)
LEMMA FolderOfPath ==
  ASSUME NEW file, file.folder \in Paths, file.is # "root"
  PROVE  /\ \A i \in DOMAIN file.folder :
               i \in DOMAIN PathOf(file) /\ PathOf(file)[i] = file.folder[i]
         /\ PathOf(file) # <<>>
<1> DEFINE name == IF file.name.db THEN "database" ELSE file.name.stem
<1>1. PICK s \in Paths : s = file.folder
  OBVIOUS
<1>2. PathOf(file) = Append(s, name)
  BY <1>1 DEF PathOf
<1> HIDE DEF name
<1>3. PICK S : s \in Seq(S) /\ name \in S
  <2>1. s \in Seq(STRING \cup {name})
    BY <1>1, SeqDef DEF Paths
  <2> QED
    BY <2>1
<1>4. /\ DOMAIN Append(s, name) = 1 .. Len(s) + 1 /\ DOMAIN s = 1 .. Len(s)
      /\ \A i \in 1 .. Len(s) : Append(s, name)[i] = s[i]
      /\ Len(s) \in Nat /\ Len(Append(s, name)) = Len(s) + 1
  BY <1>3, AppendProperties, LenProperties
<1>5. Append(s, name) # <<>>
  BY <1>3, AppendProperties
<1> QED
  BY <1>1, <1>2, <1>4, <1>5

(* A member check-members accepts is inside the scope, but for the root.   *)
LEMMA AcceptedIsInside ==
  ASSUME NEW members, Accepted(members), NEW m \in members, m.folder \in Paths,
         m.is # "root"
  PROVE  InScope(m) /\ \A i \in DOMAIN m.folder : m.folder[i] # ".."
<1>1. MemberOk(PathOf(m), m.absolute) /\ PathOf(m) # <<>>
  BY FolderOfPath DEF Accepted
<1>2. /\ \A i \in DOMAIN PathOf(m) : PathOf(m)[i] # ".."
      /\ \E top \in Allowed : BeginsWith(PathOf(m), top)
  BY <1>1 DEF MemberOk
<1> QED
  BY <1>2, FolderOfPath DEF InScope

(* A member lands in its place, or in its folder's where a link leads it.  *)
LEMMA LandsThere ==
  ASSUME NEW m, NEW links, {"folder", "name", "is"} \subseteq DOMAIN m
  PROVE  LET g == Landing(m, links)
         IN /\ g.name = m.name /\ g.is = m.is
            /\ \/ g.folder = m.folder
               \/ \E l \in links : Leads(l, m) /\ g.folder = Led(l, m)
<1> DEFINE ways == {l \in links : Leads(l, m)}
           way == CHOOSE l \in ways : TRUE
<1>1. CASE ways = {}
  BY <1>1 DEF Landing
<1>2. CASE ways # {}
  <2>1. way \in ways
    BY <1>2
  <2>2. Landing(m, links) = [m EXCEPT !.folder = Led(way, m)]
    BY <1>2 DEF Landing
  <2> HIDE DEF way
  <2>3. way \in links /\ Leads(way, m)
    BY <2>1
  <2>4. /\ Landing(m, links).folder = Led(way, m)
        /\ Landing(m, links).name = m.name /\ Landing(m, links).is = m.is
    BY <2>2
  <2> QED
    BY <2>3, <2>4
<1> QED
  BY <1>1, <1>2

(* What a restore changes is where a member lands, a file in the place of  *)
(* one that did, or a file beside a database that did.                     *)
LEMMA RestoreChanges ==
  ASSUME NEW device, NEW members, NEW through,
         \A m \in members : {"folder", "name", "is"} \subseteq DOMAIN m,
         \A g \in device : g.is # "root",
         NEW f \in Touched(device, Restore(device, members, through).files)
  PROVE  /\ Accepted(members) /\ f.is # "root"
         /\ \E m \in members, links \in SUBSET (members \cup device) :
              /\ m.is # "root" /\ f.folder = Landing(m, links).folder
              /\ f.name = m.name \/ (f.name.db /\ m.name.db)
<1> DEFINE left == DropSidecars(device, members)
           linked == {m \in members : m.is = "link"}
           inPlace == {g \in left : ~InPlaceOf(g, members)}
                        \cup (IF through THEN linked ELSE {})
           written == {m \in members : /\ m.is # "root"
                                       /\ through \/ ~\E l \in linked : Leads(l, m)}
           landed == {Landing(m, inPlace) : m \in written}
<1>1. Accepted(members)
  BY DEF Restore, Touched
<1>2. Restore(device, members, through).files
        = {g \in left : ~InPlaceOf(g, landed)} \cup landed
  BY <1>1 DEF Restore
<1>3. left \subseteq device /\ inPlace \in SUBSET (members \cup device)
  BY DEF DropSidecars
<1> HIDE DEF inPlace
<1>4. \/ f \in landed
      \/ f \in left /\ InPlaceOf(f, landed)
      \/ f \in device \ left
  BY <1>2, <1>3 DEF Touched
<1>5. CASE f \in landed
  <2>1. PICK m \in written : f = Landing(m, inPlace)
    BY <1>5
  <2>2. f.name = m.name /\ f.is = m.is
    BY <2>1, LandsThere
  <2> QED
    BY <1>1, <1>3, <2>1, <2>2
<1>6. CASE f \in left /\ InPlaceOf(f, landed)
  <2>1. PICK m \in written : SamePlace(f, Landing(m, inPlace))
    BY <1>6 DEF InPlaceOf
  <2>2. Landing(m, inPlace).name = m.name
    BY LandsThere
  <2> QED
    BY <1>1, <1>3, <1>6, <2>1, <2>2 DEF SamePlace
<1>7. CASE f \in device \ left
  <2>1. PICK m \in members : LooksLikeDb(m) /\ SidecarOf(f, Landing(m, device))
    BY <1>7 DEF DropSidecars
  <2>2. m.name.db /\ m.is # "root"
    BY <2>1 DEF LooksLikeDb
  <2>3. f.folder = Landing(m, device).folder /\ f.name.db
    BY <2>1 DEF SidecarOf
  <2>4. device \in SUBSET (members \cup device)
    OBVIOUS
  <2> QED
    BY <1>1, <1>7, <2>2, <2>3, <2>4
<1> QED
  BY <1>4, <1>5, <1>6, <1>7

(* Whatever an archive holds, a restore changes nothing outside the scope  *)
(* but through a link.                                                     *)
LEMMA RestoreInside ==
  ASSUME NEW device, NEW members, NEW through,
         \A m \in members : /\ m.folder \in Paths
                             /\ {"folder", "name", "is"} \subseteq DOMAIN m,
         \A g \in device : g.is # "root",
         NEW f \in Touched(device, Restore(device, members, through).files)
  PROVE  \/ InScope(f) /\ \A i \in DOMAIN f.folder : f.folder[i] # ".."
         \/ ThroughALink(f, members, device)
<1>1. /\ Accepted(members) /\ f.is # "root"
      /\ \E m \in members, links \in SUBSET (members \cup device) :
           /\ m.is # "root" /\ f.folder = Landing(m, links).folder
           /\ f.name = m.name \/ (f.name.db /\ m.name.db)
  BY RestoreChanges
<1>2. PICK m \in members, links \in SUBSET (members \cup device) :
        /\ m.is # "root" /\ f.folder = Landing(m, links).folder
        /\ f.name = m.name \/ (f.name.db /\ m.name.db)
  BY <1>1
<1>3. \/ f.folder = m.folder
      \/ \E l \in links : Leads(l, m) /\ f.folder = Led(l, m)
  BY <1>2, LandsThere
<1>4. CASE f.folder = m.folder
  <2>1. PathOf(f) = PathOf(m)
    BY <1>1, <1>2, <1>4 DEF PathOf
  <2>2. InScope(m) /\ \A i \in DOMAIN m.folder : m.folder[i] # ".."
    BY <1>1, <1>2, AcceptedIsInside
  <2> QED
    BY <1>4, <2>1, <2>2 DEF InScope
<1>5. CASE \E l \in links : Leads(l, m) /\ f.folder = Led(l, m)
  BY <1>5 DEF ThroughALink
<1> QED
  BY <1>3, <1>4, <1>5

(* A file of the archive that was on a device is one it may restore.       *)
LEMMA SavedIsAccepted ==
  ASSUME NEW file, OnDevice(file), InScope(file)
  PROVE  MemberOk(PathOf(file), file.absolute)
BY DEF OnDevice, InScope, MemberOk

(* Where there are no links every member lands in its place.               *)
LEMMA RestoredInPlace ==
  ASSUME NEW device, NEW members, Accepted(members),
         \A f \in members \cup device : f.is = "file"
  PROVE  LET files == Restore(device, members, FALSE).files
         IN /\ members \subseteq files
            /\ \A f \in files \ members, m \in members :
                 LooksLikeDb(m) => ~SidecarOf(f, m)
<1> DEFINE left == DropSidecars(device, members)
           linked == {m \in members : m.is = "link"}
           inPlace == {g \in left : ~InPlaceOf(g, members)}
                        \cup (IF FALSE THEN linked ELSE {})
           written == {m \in members : /\ m.is # "root"
                                       /\ FALSE \/ ~\E l \in linked : Leads(l, m)}
           landed == {Landing(m, inPlace) : m \in written}
<1>1. Restore(device, members, FALSE).files
        = {g \in left : ~InPlaceOf(g, landed)} \cup landed
  BY DEF Restore
<1>2. left \subseteq device /\ inPlace \subseteq device
  BY DEF DropSidecars
<1>3. ASSUME NEW m \in members, NEW files \in SUBSET device
      PROVE  Landing(m, files) = m
  BY DEF Landing, Leads
<1>4. written = members
  <2>1. linked = {}
    OBVIOUS
  <2>2. \A m \in members : m.is # "root"
    OBVIOUS
  <2> QED
    BY <2>1, <2>2
<1> HIDE DEF inPlace, written
<1>5. landed = members
  BY <1>2, <1>3, <1>4
<1> HIDE DEF landed
<1>6. ASSUME NEW f \in left, NEW m \in members, LooksLikeDb(m)
      PROVE  ~SidecarOf(f, m)
  BY <1>3, <1>6 DEF DropSidecars
<1> QED
  BY <1>1, <1>5, <1>6

(* What SavedIsRestorable asks of an archive and of what is restored.      *)
Restorable(at, archive, files) ==
  LET members == Members(archive)
      stayed == Below(at.before, at.listed) \cap at.later \cap at.read
  IN /\ \A f \in stayed \ members :
          \E db \in Databases(at.later) : SidecarOf(f, db)
     /\ at.listed # {} => Databases(at.before) \subseteq members
     /\ \A db \in archive.staged \cap at.later :
          /\ ~InPlaceOf(db, archive.live)
          /\ ~\E f \in archive.live : SidecarOf(f, db) /\ InPlaceOf(f, at.later)
     /\ members # {} => members \subseteq files
     /\ \A db \in archive.staged : ~\E f \in files \ members :
          SidecarOf(f, db)

(* An archive made with its copies and its list of live files restores     *)
(* what it should, whatever comes and goes between the looks at the device.*)
LEMMA BackupRestores ==
  ASSUME NEW at, NEW device, at.listed \subseteq Allowed,
         OfFiles(at.before), OfFiles(at.later), OfFiles(at.read), OfFiles(device)
  PROVE  LET archive == Archive(at, TRUE, TRUE)
         IN Restorable(at, archive, Restore(device, Members(archive), FALSE).files)
<1> DEFINE archive == Archive(at, TRUE, TRUE)
           members == Members(archive)
           files == Restore(device, members, FALSE).files
<1>1. /\ archive.live = {f \in Below(at.read, at.listed) :
                            ~InPlaceOf(f, LiveDbFiles(at.later))}
      /\ archive.staged = IF at.listed # {} THEN Databases(at.before) ELSE {}
  BY DEF Archive
<1>2. members = archive.staged \cup {f \in archive.live : ~InPlaceOf(f, archive.staged)}
  BY DEF Members
<1> HIDE DEF archive, members
<1>3. ASSUME NEW m \in members
      PROVE  OnDevice(m) /\ InScope(m) /\ m.is = "file"
  BY <1>1, <1>2 DEF Below, Databases, Saved, InScope, OfFiles
<1>4. ASSUME NEW f \in Below(at.before, at.listed) \cap at.later \cap at.read,
             f \notin members
      PROVE  \E db \in Databases(at.later) : SidecarOf(f, db)
  <2>1. at.listed # {} /\ InScope(f) /\ f \in at.before /\ f \in Below(at.read, at.listed)
    BY <1>4 DEF Below, InScope
  <2>2. CASE InPlaceOf(f, LiveDbFiles(at.later))
    <3>1. f \in LiveDbFiles(at.later)
      BY <2>2, <1>4 DEF InPlaceOf, LiveDbFiles, Databases, Saved, OfFiles
    <3>2. CASE f \in Databases(at.later)
      BY <1>1, <1>2, <1>4, <2>1, <3>2 DEF Databases, Saved
    <3> QED
      BY <3>1, <3>2 DEF LiveDbFiles
  <2>3. CASE ~InPlaceOf(f, LiveDbFiles(at.later))
    <3>1. f \in archive.live /\ InPlaceOf(f, archive.staged)
      BY <1>1, <1>2, <1>4, <2>1, <2>3
    <3>2. f \in archive.staged
      BY <1>1, <2>1, <3>1 DEF InPlaceOf, Databases, Saved, OfFiles
    <3> QED
      BY <1>2, <1>4, <3>2
  <2> QED
    BY <2>2, <2>3
<1>5. at.listed # {} => Databases(at.before) \subseteq members
  BY <1>1, <1>2
<1>6. ASSUME NEW db \in archive.staged \cap at.later
      PROVE  /\ ~InPlaceOf(db, archive.live)
             /\ ~\E f \in archive.live : SidecarOf(f, db) /\ InPlaceOf(f, at.later)
  <2>1. db \in Databases(at.later)
    BY <1>1 DEF Databases, Saved
  <2>2. ASSUME NEW f \in archive.live, SamePlace(db, f)
        PROVE  FALSE
    BY <1>1, <2>1, <2>2 DEF InPlaceOf, SamePlace, LiveDbFiles
  <2>3. ASSUME NEW f \in archive.live, SidecarOf(f, db), NEW g \in at.later, SamePlace(f, g)
        PROVE  FALSE
    <3>1. SidecarOf(g, db)
      BY <2>3 DEF SidecarOf, SamePlace
    <3>2. g \in LiveDbFiles(at.later)
      BY <2>1, <3>1 DEF LiveDbFiles
    <3> QED
      BY <1>1, <2>3, <3>2 DEF InPlaceOf
  <2> QED
    BY <2>2, <2>3 DEF InPlaceOf
<1>7. members # {} => Accepted(members)
  BY <1>3, SavedIsAccepted DEF Accepted
<1>8. \A f \in members \cup device : f.is = "file"
  BY <1>3 DEF OfFiles
<1>9. members # {} => members \subseteq files
  BY <1>7, <1>8, RestoredInPlace
<1>10. ASSUME NEW db \in archive.staged, NEW f \in files \ members
       PROVE  ~SidecarOf(f, db)
  <2>1. db \in members /\ LooksLikeDb(db)
    BY <1>1, <1>2 DEF Databases, IsSqlite
  <2> QED
    BY <1>7, <1>8, <2>1, RestoredInPlace
<1> QED
  BY <1>4, <1>5, <1>6, <1>9, <1>10 DEF archive, members, Restorable

-----------------------------------------------------------------------------
(* Names of devices *)

(* The least of some numbers is one of them, and no other is below it.     *)
LEMMA LeastIs ==
  ASSUME NEW S \in SUBSET Nat, S # {}
  PROVE  Least(S) \in S /\ \A x \in S : Least(S) <= x
<1> DEFINE R == {ss \in Nat \X Nat : ss[1] < ss[2]}
<1>1. IsWellFoundedOn(R, Nat)
  BY NatLessThanWellFounded, Zenon DEF OpToRel
<1>2. \A i, j \in Nat : i < j => <<i, j>> \in R
  OBVIOUS
<1> HIDE DEF R
<1>3. PICK i \in S : \A j \in S : ~(<<j, i>> \in R)
  BY <1>1, WFMin
<1>4. \A j \in S : i <= j
  <2> TAKE j \in S
  <2>1. i \in Nat /\ j \in Nat /\ ~(j < i)
    BY <1>2, <1>3
  <2> QED
    BY <2>1
<1> QED
  BY <1>4 DEF Least

(* The first of some cards is one of them.                                 *)
LEMMA FirstCard ==
  ASSUME NEW S \in SUBSET Nat, S # {}
  PROVE  (CHOOSE i \in S : \A j \in S : i <= j) \in S
BY LeastIs DEF Least

(* A suffix is one of the identifiers of its device.                       *)
LEMMA SuffixIsIdentifier ==
  ASSUME NEW device, device.macs \in Seq(STRING), Suffix(device) # NoName
  PROVE  Suffix(device) \in Identifiers(device)
<1> DEFINE macs == device.macs
           usable == {i \in DOMAIN macs : macs[i] \notin Unusable \cup {"zeros"}}
<1>1. CASE FromSerial(device.serial) # NoName
  BY <1>1 DEF Suffix, FromSerial, Identifiers
<1>2. CASE FromSerial(device.serial) = NoName /\ FromCards(macs) # NoName
  <2>1. usable # {} /\ usable \in SUBSET Nat
    BY <1>2 DEF FromCards
  <2>2. PICK i \in usable : FromCards(macs) = macs[i]
    BY <2>1, FirstCard DEF FromCards
  <2> QED
    BY <1>2, <2>2 DEF Suffix, Identifiers
<1>3. CASE FromSerial(device.serial) = NoName /\ FromCards(macs) = NoName
  BY <1>3 DEF Suffix, FromMachineId, Identifiers
<1> QED
  BY <1>1, <1>2, <1>3

(* Two names that are the same come from an identifier of both devices.    *)
LEMMA SameNameSharesIdentifier ==
  ASSUME NEW one, NEW other, one.macs \in Seq(STRING), other.macs \in Seq(STRING),
         HostName(one) = HostName(other), HostName(one) # NoName,
         one.chosen = NoName, other.chosen = NoName
  PROVE  Identifiers(one) \cap Identifiers(other) # {}
<1>1. Suffix(one) = Suffix(other) /\ Suffix(one) # NoName
  BY DEF HostName
<1>2. Suffix(one) \in Identifiers(one) /\ Suffix(one) \in Identifiers(other)
  BY <1>1, SuffixIsIdentifier
<1> QED
  BY <1>2

-----------------------------------------------------------------------------
(* Verdicts *)

(* READY is said when every check passed.                                  *)
LEMMA ReadyIsSound ==
  ASSUME NEW config, NEW board, Measured(config, board), ConfigOk(config),
         Health(config, board) = "READY"
  PROVE  LET probes == config.probes
         IN /\ FreeBytes(config, board) >= config.minimum_free_bytes.n
            /\ board.interfaces > 0
            /\ board.temperature # Null
            /\ board.temperature.n
                 < Get(config.maximum_temperature_celsius, DefaultMaximum).n
            /\ InForce(probes) =>
                 /\ board.vcgencmd.status = 0
                 /\ board.vcgencmd.answer = [now |-> {}, past |-> {}]
                 /\ ~NotGiven(probes.hailo_device) => board.hailo
                 /\ Get(probes.units, List(0, TRUE)).n > 0
                      => \A run \in board.units : run.answer = "active"
<1> DEFINE states == CheckStates(config, board)
           probes == config.probes
           maximum == Get(config.maximum_temperature_celsius, DefaultMaximum)
<1>1. "FAIL" \notin states /\ "WARN" \notin states
  BY DEF Health, Overall
<1>2. FreeBytes(config, board) >= config.minimum_free_bytes.n
  BY <1>1 DEF CheckStates
<1>3. board.interfaces > 0
  BY <1>1 DEF CheckStates
<1>4. TemperatureCheck(config, board) \notin {"FAIL", "WARN"}
  BY <1>1 DEF CheckStates
<1>5. board.temperature # Null /\ ~(board.temperature.n >= maximum.n)
  BY <1>4 DEF TemperatureCheck
<1>6. board.temperature.n \in Int /\ maximum.n \in Int
  BY <1>5 DEF Measured, ConfigOk
<1>7. board.temperature.n < maximum.n
  BY <1>5, <1>6
<1>8. ASSUME InForce(probes)
      PROVE  /\ board.vcgencmd.status = 0
             /\ board.vcgencmd.answer = [now |-> {}, past |-> {}]
             /\ ~NotGiven(probes.hailo_device) => board.hailo
             /\ Get(probes.units, List(0, TRUE)).n > 0
                  => \A run \in board.units : run.answer = "active"
  <2>1. "FAIL" \notin ProbeChecks(probes, board)
        /\ "WARN" \notin ProbeChecks(probes, board)
    BY <1>1 DEF CheckStates
  <2>2. ThrottleCheck(board.vcgencmd) \notin {"FAIL", "WARN"}
    BY <1>8, <2>1 DEF ProbeChecks
  <2>3. /\ board.vcgencmd.status = 0
        /\ board.vcgencmd.answer.now = {} /\ board.vcgencmd.answer.past = {}
    BY <2>2 DEF ThrottleCheck
  <2>4. board.vcgencmd.answer = [now |-> {}, past |-> {}]
    BY <2>3 DEF Measured
  <2>5. ~NotGiven(probes.hailo_device) => board.hailo
    BY <1>8, <2>1 DEF ProbeChecks
  <2>6. ASSUME Get(probes.units, List(0, TRUE)).n > 0, NEW run \in board.units
        PROVE  run.answer = "active"
    <3>1. ASSUME Get(probes.units, List(0, TRUE)).n = 0
          PROVE  FALSE
      <4>1. ~(0 > 0)
        OBVIOUS
      <4> QED
        BY <2>6, <3>1, <4>1, Zenon
    <3>2. UnitCheck(run) \in ProbeChecks(probes, board)
      BY <1>8, <3>1 DEF ProbeChecks
    <3> QED
      BY <2>1, <3>2 DEF UnitCheck
  <2> QED
    BY <2>3, <2>4, <2>5, <2>6
<1> QED
  BY <1>2, <1>3, <1>5, <1>7, <1>8

(* A base is installed on a host that passed every check.                  *)
LEMMA InstallIsChecked ==
  ASSUME NEW h, IsRecord(h.identity.holds), BaseInstalls(h)
  PROVE  /\ h.identity.holds = [n \in IdentityNames |-> "reviewed"]
         /\ ~h.skipSdk => h.sdkContract = 0
         /\ ~h.env.present \/ h.env.weak = {}
         /\ h.guard = "enforce" => Supports(h.release, h.supported)
         /\ h.guard \in {"warn", "enforce", "off"}
<1>1. Preflight(h) /\ Guard(h.guard, h.release, h.supported) = 0
  BY DEF BaseInstalls
<1>2. h.identity.holds = [n \in IdentityNames |-> "reviewed"]
  BY <1>1 DEF Preflight, IdentityOk, IsRecord
<1>3. h.guard \in {"warn", "enforce", "off"}
      /\ (h.guard = "enforce" => Supports(h.release, h.supported))
  BY <1>1 DEF Guard
<1> QED
  BY <1>1, <1>2, <1>3 DEF Preflight, CheckOk, EnvSecretsOk

(* A panel that passes the runtime verification has no exposed secret.     *)
LEMMA PanelIsChecked ==
  ASSUME NEW folder, RuntimePasses(TRUE, TRUE, folder), folder.present,
         folder.readable, NEW f \in folder.files, f.regular, f.matches
  PROVE  f.owner = "root" /\ ~OpenToOthers(f)
<1>1. "FAIL" \notin Lines(folder)
  BY DEF RuntimePasses
<1>2. Judge(f) # "fail"
  BY <1>1 DEF Lines, Scan
<1>3. OpenToOthers(f) => Loose(f)
  BY DEF OpenToOthers, Loose, MaxMode
<1> QED
  BY <1>2, <1>3 DEF Judge, WorldAccessIsFailure

-----------------------------------------------------------------------------
(* The table of installers *)

(* What a table is that was built from scripts or replaced: a row knows    *)
(* the unit and the health route of its source.                            *)
KnownRows(rows, registry) ==
  /\ DOMAIN rows \subseteq Nat
  /\ \A i \in DOMAIN rows :
       LET known == rows[i].source \in DOMAIN registry
       IN /\ {"unit", "serves"} \subseteq DOMAIN rows[i]
          /\ rows[i].script # None
          /\ rows[i].unit = IF known THEN registry[rows[i].source].unit ELSE None
          /\ rows[i].serves = (known /\ registry[rows[i].source].serves)
  /\ \A i, j \in DOMAIN rows :
       rows[i].source = rows[j].source /\ rows[i].source # None => i = j

(* Of two functions put together, the first one counts.                    *)
LEMMA FirstCounts ==
  ASSUME NEW f, NEW g
  PROVE  /\ \A x \in DOMAIN f : Over(f, g)[x] = f[x]
         /\ \A x \in DOMAIN g \ DOMAIN f : Over(f, g)[x] = g[x]
BY DEF Over

(* A row has what the script says and what the registry knows of it.       *)
LEMMA RowKnows ==
  ASSUME NEW script, NEW registry, DOMAIN script = ScriptKeys
  PROVE  LET row == Row(script, registry)
             known == script.source \in DOMAIN registry
         IN /\ {"unit", "serves"} \subseteq DOMAIN row
            /\ \A key \in ScriptKeys : row[key] = script[key]
            /\ row.unit = IF known THEN registry[script.source].unit ELSE None
            /\ row.serves = (known /\ registry[script.source].serves)
<1> DEFINE known == script.source \in DOMAIN registry
<1>1. PICK r : r = [unit |-> IF known THEN registry[script.source].unit ELSE None,
                    serves |-> known /\ registry[script.source].serves]
  OBVIOUS
<1>2. Row(script, registry) = Over(script, r)
  BY <1>1 DEF Row
<1>3. {"unit", "serves"} \subseteq DOMAIN r \ DOMAIN script
  BY <1>1 DEF ScriptKeys
<1>4. \A key \in ScriptKeys : Row(script, registry)[key] = script[key]
  BY <1>2, FirstCounts
<1>5. /\ Row(script, registry).unit = r.unit
      /\ Row(script, registry).serves = r.serves
  BY <1>2, <1>3, FirstCounts
<1>6. DOMAIN Row(script, registry) = DOMAIN script \cup DOMAIN r
  BY <1>2 DEF Over
<1>7. /\ r.unit = IF known THEN registry[script.source].unit ELSE None
      /\ r.serves = (known /\ registry[script.source].serves)
  BY <1>1
<1> QED
  BY <1>3, <1>4, <1>5, <1>6, <1>7

(* The rows of install_plan.py are such rows.                              *)
LEMMA BuiltIsKnown ==
  ASSUME NEW scripts, NEW registry, InstallersApart(scripts)
  PROVE  KnownRows(Build(scripts, registry), registry)
<1> DEFINE rows == Build(scripts, registry)
<1>1. DOMAIN rows = DOMAIN scripts
      /\ \A i \in DOMAIN scripts : rows[i] = Row(scripts[i], registry)
  BY DEF Build
<1>2. ASSUME NEW i \in DOMAIN scripts
      PROVE  LET known == scripts[i].source \in DOMAIN registry
             IN /\ {"unit", "serves"} \subseteq DOMAIN rows[i]
                /\ rows[i].source = scripts[i].source
                /\ rows[i].script = scripts[i].script
                /\ rows[i].unit = IF known THEN registry[scripts[i].source].unit
                                  ELSE None
                /\ rows[i].serves = (known /\ registry[scripts[i].source].serves)
  <2>1. DOMAIN scripts[i] = ScriptKeys
    BY DEF InstallersApart
  <2>2. {"source", "script"} \subseteq ScriptKeys
    BY DEF ScriptKeys
  <2> QED
    BY <1>1, <2>1, <2>2, RowKnows
<1> HIDE DEF rows
<1> QED
  BY <1>1, <1>2 DEF InstallersApart, KnownRows, rows

(* The first row a project is spelled by is one of those.                  *)
LEMMA FoundIsSpelled ==
  ASSUME NEW rows, NEW project, DOMAIN rows \subseteq Nat
  PROVE  \/ Find(rows, project) = NoRow
              /\ \A i \in DOMAIN rows : ~Spelled(rows[i], project)
         \/ \E i \in DOMAIN rows : /\ Find(rows, project) = rows[i]
                                   /\ Spelled(rows[i], project)
<1> DEFINE hits == {i \in DOMAIN rows : Spelled(rows[i], project)}
<1>1. CASE hits = {}
  BY <1>1 DEF Find
<1>2. CASE hits # {}
  <2>1. (CHOOSE i \in hits : \A j \in hits : i <= j) \in hits
    BY <1>2, FirstCard
  <2> QED
    BY <1>2, <2>1 DEF Find
<1> QED
  BY <1>1, <1>2

(* The service a row without problems begins is its source, so that only a *)
(* unit the registry does not list tells the two commands apart.           *)
LEMMA SettlesItsOwn ==
  ASSUME NEW rows, NEW registry, KnownRows(rows, registry), NEW i \in DOMAIN rows,
         NoProblems(rows[i]), rows[i].contract = Supported, rows[i].source # None,
         NEW settle, settle = SettleOf(rows[i], registry),
         NEW back, back = RollbackOf(rows[i])
  PROVE  /\ settle.component = back.component /\ settle.serves = back.serves
         /\ back.unit = rows[i].unit
         /\ settle.unit # back.unit =>
              rows[i].unit = None /\ rows[i].target \in rows[i].units
                /\ settle.unit = rows[i].target
<1>1. rows[i].begins = rows[i].source
  BY DEF NoProblems, Claims, ContractHeld, BeginsItsSource, Supported
<1>2. rows[i].unit = IF rows[i].source \in DOMAIN registry
                     THEN registry[rows[i].source].unit ELSE None
  BY DEF KnownRows
<1>3. rows[i].serves = (rows[i].source \in DOMAIN registry
                          /\ registry[rows[i].source].serves)
  BY DEF KnownRows
<1>4. /\ settle.component = rows[i].target
      /\ settle.unit = IF rows[i].unit = None /\ rows[i].target \in rows[i].units
                       THEN rows[i].target ELSE rows[i].unit
      /\ settle.serves = rows[i].serves
  BY <1>1, <1>2, <1>3 DEF SettleOf
<1>5. /\ back.component = rows[i].target /\ back.unit = rows[i].unit
      /\ back.serves = rows[i].serves
  BY DEF RollbackOf
<1> QED
  BY <1>4, <1>5

(* In a table without problems both commands settle on the same unit.      *)
LEMMA CommandsAgree ==
  ASSUME NEW rows, NEW registry, KnownRows(rows, registry), Accepts(rows)
  PROVE  SameUnitBothWays(rows, registry)
<1> SUFFICES ASSUME NEW project
             PROVE  LET deploy == Command("deploy", rows, registry, project)
                        back == Command("rollback", rows, registry, project)
                        row == Find(rows, project)
                    IN /\ deploy.does = "refused" <=> back.does = "refused"
                       /\ deploy.does = "settle" =>
                            /\ deploy.on.component = back.on.component
                            /\ deploy.on.serves = back.on.serves
                            /\ \/ deploy.on.unit = back.on.unit
                               \/ OnlyDeployKnows(row, deploy, back)
  BY DEF SameUnitBothWays
<1> DEFINE row == Find(rows, project)
<1>1. CASE ~Deployable(row)
  BY <1>1 DEF Command
<1>2. CASE Deployable(row)
  <2> DEFINE deploy == Command("deploy", rows, registry, project)
             back == Command("rollback", rows, registry, project)
  <2>1. /\ deploy = [does |-> "settle", on |-> SettleOf(row, registry)]
        /\ back = [does |-> "rollback", on |-> RollbackOf(row)]
    BY <1>2 DEF Command
  <2>2. PICK i \in DOMAIN rows : row = rows[i] /\ rows[i].source # None
    BY <1>2, FoundIsSpelled DEF KnownRows, Deployable, NoRow, Spelled
  <2>3. /\ NoProblems(rows[i]) /\ rows[i].contract = Supported
        /\ deploy.on = SettleOf(rows[i], registry) /\ back.on = RollbackOf(rows[i])
        /\ deploy.does = "settle" /\ back.does = "rollback"
    BY <1>2, <2>1, <2>2 DEF Accepts, Deployable
  <2> HIDE DEF deploy, back, row
  <2>4. /\ deploy.on.component = back.on.component
        /\ deploy.on.serves = back.on.serves
        /\ back.on.unit = row.unit
        /\ deploy.on.unit # back.on.unit =>
             row.unit = None /\ row.target \in row.units /\ deploy.on.unit = row.target
    BY <2>2, <2>3, SettlesItsOwn
  <2>5. deploy.on.unit = back.on.unit \/ OnlyDeployKnows(row, deploy, back)
    BY <2>4 DEF OnlyDeployKnows
  <2> QED
    BY <2>3, <2>4, <2>5 DEF deploy, back, row
<1> QED
  BY <1>1, <1>2

(* A project of the rule of sudo is one that deploy accepts: no other      *)
(* installer is found by its name.                                         *)
LEMMA UpdaterIsAccepted ==
  ASSUME NEW rows, NEW registry, KnownRows(rows, registry)
  PROVE  UpdaterMayDeploy(rows, registry)
<1> SUFFICES ASSUME NEW name \in DeployableProjects(rows)
             PROVE  Command("deploy", rows, registry,
                            [as |-> "source", name |-> name]).does = "settle"
  BY DEF UpdaterMayDeploy
<1> DEFINE project == [as |-> "source", name |-> name]
<1>1. PICK j \in DOMAIN rows : /\ name = rows[j].source /\ rows[j].source # None
                               /\ rows[j].contract = Supported
  BY DEF DeployableProjects
<1>2. Spelled(rows[j], project)
  BY <1>1 DEF Spelled
<1>3. PICK i \in DOMAIN rows : Find(rows, project) = rows[i] /\ Spelled(rows[i], project)
  BY <1>2, FoundIsSpelled DEF KnownRows
<1>4. i = j
  BY <1>1, <1>3 DEF Spelled, KnownRows
<1>5. Deployable(Find(rows, project))
  BY <1>1, <1>3, <1>4 DEF Deployable, KnownRows
<1>6. Command("deploy", rows, registry, project)
        = [does |-> "settle", on |-> SettleOf(Find(rows, project), registry)]
  BY <1>5 DEF Command
<1> QED
  BY <1>6

(* A generated script, over the row it was generated from.                 *)
LEMMA GeneratedRow ==
  ASSUME NEW row
  PROVE  LET made == Over(Generated(row), row)
         IN /\ made.script = row.script /\ made.source = row.source
            /\ made.target = row.target /\ made.units = row.units
            /\ made.contract = Supported
            /\ made.begins = row.source /\ made.finishes = row.source
            /\ made.finish_after_reload = TRUE /\ made.installs_manifest = TRUE
            /\ made.user_dirs \subseteq {"data"}
            /\ \A key \in DOMAIN row \ ScriptKeys : made[key] = row[key]
<1>1. PICK back : back = Generated(row)
  OBVIOUS
<1>2. /\ back.script = row.script /\ back.source = row.source
      /\ back.target = row.target /\ back.units = row.units
      /\ back.contract = Supported
      /\ back.begins = row.source /\ back.finishes = row.source
      /\ back.finish_after_reload = TRUE /\ back.installs_manifest = TRUE
      /\ back.user_dirs \subseteq {"data"}
  BY <1>1 DEF Generated, ScriptOf
<1>3. DOMAIN back = ScriptKeys
  BY <1>1 DEF Generated, ScriptOf, ScriptKeys
<1>4. \A key \in ScriptKeys : Over(back, row)[key] = back[key]
  BY <1>3, FirstCounts
<1>5. \A key \in DOMAIN row \ ScriptKeys : Over(back, row)[key] = row[key]
  BY <1>3, FirstCounts
<1>6. {"script", "source", "target", "units", "contract", "begins", "finishes",
       "finish_after_reload", "installs_manifest", "user_dirs"} \subseteq ScriptKeys
  BY DEF ScriptKeys
<1> QED
  BY <1>1, <1>2, <1>4, <1>5, <1>6

(* --replace leaves a table without problems and its rows known.           *)
LEMMA ReplacedIsAccepted ==
  ASSUME NEW rows, NEW registry, NEW hooksMissing, NEW only, NEW last,
         KnownRows(rows, registry), Accepts(rows)
  PROVE  /\ Accepts(Replace(rows, hooksMissing, only, last))
         /\ KnownRows(Replace(rows, hooksMissing, only, last), registry)
<1> DEFINE after == Replace(rows, hooksMissing, only, last)
           Made(i) == Over(Generated(rows[i]), rows[i])
<1>1. CASE after = rows
  BY <1>1
<1>2. CASE after # rows
  <2>1. after = [i \in DOMAIN rows |-> IF Chosen(rows[i], only) /\ i <= last
                                       THEN Made(i) ELSE rows[i]]
    BY <1>2 DEF Replace
  <2> HIDE DEF after
  <2>2. ASSUME NEW i \in DOMAIN rows, Chosen(rows[i], only)
        PROVE  /\ NoProblems(Made(i)) /\ rows[i].source = Made(i).source
               /\ rows[i].script = Made(i).script
               /\ {"unit", "serves"} \subseteq DOMAIN Made(i)
               /\ rows[i].unit = Made(i).unit /\ rows[i].serves = Made(i).serves
    <3>1. /\ Made(i).script = rows[i].script /\ Made(i).source = rows[i].source
          /\ Made(i).target = rows[i].target /\ Made(i).units = rows[i].units
          /\ Made(i).contract = Supported
          /\ Made(i).begins = rows[i].source /\ Made(i).finishes = rows[i].source
          /\ Made(i).finish_after_reload = TRUE /\ Made(i).installs_manifest = TRUE
          /\ Made(i).user_dirs \subseteq {"data"}
      BY GeneratedRow
    <3>2. Made(i).unit = rows[i].unit /\ Made(i).serves = rows[i].serves
      <4>1. {"unit", "serves"} \subseteq DOMAIN rows[i] \ ScriptKeys
        BY DEF KnownRows, ScriptKeys
      <4>2. \A key \in DOMAIN rows[i] \ ScriptKeys : Made(i)[key] = rows[i][key]
        BY GeneratedRow
      <4> QED
        BY <4>1, <4>2
    <3>3. rows[i].source # None
      BY <2>2 DEF Chosen, Eligible
    <3>4. rows[i].unit # None => /\ rows[i].unit \in rows[i].units
                                 /\ rows[i].target \in {None, rows[i].unit}
      BY DEF Accepts, NoProblems
    <3> HIDE DEF Made
    <3>5. ContractHeld(Made(i)) /\ Claims(Made(i))
      BY <3>1, <3>3 DEF ContractHeld, BeginsItsSource, Claims, Supported, StateDirs
    <3>6. NoProblems(Made(i))
      BY <3>1, <3>2, <3>4, <3>5 DEF NoProblems
    <3>7. {"unit", "serves"} \subseteq DOMAIN Made(i)
      BY DEF Made, Over, KnownRows
    <3> QED
      BY <3>1, <3>2, <3>6, <3>7
  <2> HIDE DEF Made
  <2>3. Accepts(after)
    BY <2>1, <2>2 DEF Accepts
  <2>4. /\ DOMAIN after = DOMAIN rows
        /\ \A i \in DOMAIN rows : /\ {"unit", "serves"} \subseteq DOMAIN after[i]
                                  /\ after[i].source = rows[i].source
                                  /\ after[i].script = rows[i].script
                                  /\ after[i].unit = rows[i].unit
                                  /\ after[i].serves = rows[i].serves
    BY <2>1, <2>2 DEF KnownRows
  <2>5. KnownRows(after, registry)
    BY <2>4 DEF KnownRows
  <2> QED
    BY <2>3, <2>5 DEF after
<1> QED
  BY <1>1, <1>2

-----------------------------------------------------------------------------
(* The lights *)

(* The ceiling of a row is a light, and each reason for it holds it down.  *)
LEMMA CeilingHolds ==
  ASSUME NEW kind, NEW repo, NEW ciNow
  PROVE  LET top == Ceiling(kind, repo, ciNow)
         IN /\ top \in {Orange, Yellow, Green}
            /\ repo.immature => top <= Yellow
            /\ kind \in OfHardware /\ repo.bound => top <= EvidenceCeiling(repo.evidence)
            /\ kind \in OfSoftware /\ (~repo.tests \/ ~repo.workflow) => top <= Yellow
<1> DEFINE S == {Green}
                 \cup (IF repo.immature THEN {Yellow} ELSE {})
                 \cup (IF kind \in OfHardware /\ repo.bound
                       THEN {EvidenceCeiling(repo.evidence)} ELSE {})
                 \cup (IF kind \in OfSoftware
                            /\ (~repo.tests \/ ~repo.workflow \/ ciNow = "red")
                       THEN {Yellow} ELSE {})
<1>1. EvidenceCeiling(repo.evidence) \in {Orange, Yellow, Green}
  BY DEF EvidenceCeiling
<1>2. S \subseteq {Orange, Yellow, Green} /\ Green \in S
  BY <1>1
<1>3. S \in SUBSET Nat
  BY <1>2 DEF Orange, Yellow, Green
<1>4. Least(S) \in S /\ \A x \in S : Least(S) <= x
  BY <1>2, <1>3, LeastIs
<1>5. /\ repo.immature => Yellow \in S
      /\ kind \in OfHardware /\ repo.bound => EvidenceCeiling(repo.evidence) \in S
      /\ kind \in OfSoftware /\ (~repo.tests \/ ~repo.workflow) => Yellow \in S
  OBVIOUS
<1>6. Ceiling(kind, repo, ciNow) = Least(S)
  BY DEF Ceiling
<1> HIDE DEF S
<1> QED
  BY <1>2, <1>4, <1>5, <1>6

(* The lights as numbers.                                                  *)
LEMMA LightsAre ==
  Lights = {1, 2, 3, 4} /\ Orange = 2 /\ Yellow = 3 /\ Green = 4
BY DEF Lights, Green, Yellow, Orange

(* A row that speaks of hardware or of integration is one of hardware.     *)
LEMMA HardwareKind ==
  ASSUME NEW row, {"hardware", "integration"} \cap row.kinds # {}
  PROVE  KindOf(row) \in OfHardware
<1> DEFINE named == {i \in DOMAIN Kinds : Kinds[i] \in row.kinds}
<1>1. DOMAIN Kinds = 1 .. 5 /\ Kinds[1] = "integration" /\ Kinds[2] = "hardware"
  BY DEF Kinds
<1>2. 1 \in named \/ 2 \in named
  BY <1>1
<1>3. named \in SUBSET Nat /\ named \subseteq 1 .. 5
  BY <1>1
<1> HIDE DEF named
<1>4. Least(named) \in named /\ \A x \in named : Least(named) <= x
  BY <1>2, <1>3, LeastIs
<1>5. Least(named) \in {1, 2}
  <2>1. PICK n \in 1 .. 5 : n = Least(named)
    BY <1>3, <1>4
  <2>2. n <= 1 \/ n <= 2
    BY <1>2, <1>4, <2>1
  <2> QED
    BY <2>1, <2>2
<1>6. KindOf(row) = Kinds[Least(named)]
  BY <1>2 DEF KindOf, named
<1> QED
  BY <1>1, <1>5, <1>6 DEF OfHardware

(* A light no higher than its ceiling is honest.                           *)
LEMMA BelowIsHonest ==
  ASSUME NEW repo, NEW ciNow, NEW row, row.light \in Lights,
         row.light <= Ceiling(KindOf(row), repo, ciNow)
  PROVE  Honest(repo, row)
<1> DEFINE top == Ceiling(KindOf(row), repo, ciNow)
<1>1. /\ top \in {Orange, Yellow, Green}
      /\ repo.immature => top <= Yellow
      /\ KindOf(row) \in OfHardware /\ repo.bound => top <= EvidenceCeiling(repo.evidence)
      /\ KindOf(row) \in OfSoftware /\ (~repo.tests \/ ~repo.workflow) => top <= Yellow
  BY CeilingHolds
<1>2. row.light <= top
  OBVIOUS
<1> HIDE DEF top
<1>3. row.light = Green => top = Green
  BY <1>1, <1>2, LightsAre
<1>4. row.light = Yellow => top \in {Yellow, Green}
  BY <1>1, <1>2, LightsAre
<1>5. EvidenceCeiling(repo.evidence) \in {Orange, Yellow, Green}
      /\ (EvidenceCeiling(repo.evidence) = Green => repo.evidence = "field")
      /\ (EvidenceCeiling(repo.evidence) # Orange => repo.evidence \in {"bench", "field"})
  BY LightsAre DEF EvidenceCeiling
<1>6. ASSUME {"hardware", "integration"} \cap row.kinds # {}, repo.bound
      PROVE  /\ row.light = Green => repo.evidence = "field"
             /\ row.light = Yellow => repo.evidence \in {"bench", "field"}
  <2>1. top <= EvidenceCeiling(repo.evidence)
    BY <1>1, <1>6, HardwareKind
  <2>2. top = Green => EvidenceCeiling(repo.evidence) = Green
    BY <2>1, <1>5, LightsAre
  <2>3. top = Yellow => EvidenceCeiling(repo.evidence) # Orange
    BY <2>1, <1>5, LightsAre
  <2> QED
    BY <2>2, <2>3, <1>3, <1>4, <1>5, LightsAre
<1>7. row.light = Green => ~repo.immature
  BY <1>1, <1>3, LightsAre
<1>8. row.light = Green /\ KindOf(row) \in OfSoftware => repo.tests /\ repo.workflow
  BY <1>1, <1>3, LightsAre
<1> QED
  BY <1>6, <1>7, <1>8 DEF Honest

(* A pass of --apply keeps what the ceilings are read from.                *)
SameBoard(repo, other) ==
  /\ other.immature = repo.immature /\ other.bound = repo.bound
  /\ other.evidence = repo.evidence /\ other.tests = repo.tests
  /\ other.workflow = repo.workflow /\ other.hydra = repo.hydra

(* A ceiling depends on nothing that --apply writes.                       *)
LEMMA SameCeiling ==
  ASSUME NEW repo, NEW other, SameBoard(repo, other), NEW kind, NEW ciNow
  PROVE  Ceiling(kind, other, ciNow) = Ceiling(kind, repo, ciNow)
BY DEF SameBoard, Ceiling

(* The light a row should have: below its ceiling, and above what it was   *)
(* by one at most, where --raise asks for it.                              *)
LEMMA WantedIs ==
  ASSUME NEW row \in LightRows, NEW repo, NEW ciNow, NEW raise
  PROVE  LET w == WantedLight(row, repo, ciNow, raise)
             top == Ceiling(KindOf(row), repo, ciNow)
         IN /\ w \in Int
            /\ row.light \in Lights => w \in Lights /\ w <= top
            /\ row.light \notin Lights => w = row.light
            /\ w > row.light => raise /\ w = row.light + 1 /\ row.light < top
                                /\ row.light \in Lights
<1> DEFINE w == WantedLight(row, repo, ciNow, raise)
           top == Ceiling(KindOf(row), repo, ciNow)
<1>1. top \in {2, 3, 4} /\ row.light \in Int
  BY CeilingHolds, LightsAre DEF LightRows
<1>2. \/ row.light \in Lights /\ row.light > top /\ w = top
      \/ row.light \in Lights /\ row.light < top /\ raise /\ w = row.light + 1
      \/ w = row.light /\ ~(row.light \in Lights /\ row.light > top)
  BY DEF WantedLight
<1> HIDE DEF w, top
<1>3. /\ w \in Int
      /\ row.light \in Lights => w \in Lights /\ w <= top
      /\ row.light \notin Lights => w = row.light
      /\ w > row.light => raise /\ w = row.light + 1 /\ row.light < top
                          /\ row.light \in Lights
  BY <1>1, <1>2, LightsAre
<1> QED
  BY <1>3 DEF w, top

(* The lights that should be there, one for each row of the English table. *)
LEMMA WantedLights ==
  ASSUME NEW repo, Tabled(repo), NEW ciNow, NEW raise
  PROVE  LET table == repo.tables[English]
             wanted == Wanted(repo, ciNow, raise)
         IN /\ table \in Seq(LightRows) /\ wanted \in Seq(Int)
            /\ DOMAIN wanted = DOMAIN table /\ Len(wanted) = Len(table)
            /\ \A i \in DOMAIN table : /\ table[i] \in LightRows
                 /\ wanted[i] = WantedLight(table[i], repo, ciNow, raise)
<1> DEFINE table == repo.tables[English]
           wanted == Wanted(repo, ciNow, raise)
<1>1. Languages \in Seq(STRING) /\ 1 \in DOMAIN Languages
  BY DecisionsAssumption, LayoutAssumption, LenProperties
<1>2. table \in Seq(LightRows)
  BY <1>1 DEF Tabled, English
<1>3. \A i \in DOMAIN table : table[i] \in LightRows
  BY <1>2, ElementOfSeq, LenProperties
<1>4. wanted = [i \in DOMAIN table |-> WantedLight(table[i], repo, ciNow, raise)]
  BY DEF Wanted
<1>5. DOMAIN table = 1 .. Len(table) /\ Len(table) \in Nat
  BY <1>2, LenProperties
<1> HIDE DEF table, wanted
<1>6. \A i \in DOMAIN table : WantedLight(table[i], repo, ciNow, raise) \in Int
  BY <1>3, WantedIs
<1>7. wanted \in [1 .. Len(table) -> Int]
  BY <1>4, <1>5, <1>6
<1>8. wanted \in Seq(Int)
  BY <1>5, <1>7, SeqDef
<1>9. Len(wanted) = Len(table)
  BY <1>5, <1>7, <1>8, LenProperties
<1> QED
  BY <1>2, <1>3, <1>4, <1>8, <1>9 DEF table, wanted

(* A table with other lights is the same table otherwise.                  *)
LEMMA Relighted ==
  ASSUME NEW table \in Seq(LightRows), NEW wanted \in Seq(Int),
         Len(wanted) = Len(table)
  PROVE  LET new == WithLights(table, wanted)
         IN /\ new \in Seq(LightRows) /\ DOMAIN new = DOMAIN table
            /\ \A i \in DOMAIN table : /\ new[i].kinds = table[i].kinds
                                       /\ new[i].light = wanted[i]
            /\ LightsOf(new) = wanted
<1> DEFINE new == WithLights(table, wanted)
<1>1. DOMAIN table = 1 .. Len(table) /\ DOMAIN wanted = 1 .. Len(table)
      /\ Len(table) \in Nat
  BY LenProperties
<1>2. \A i \in DOMAIN table : table[i] \in LightRows /\ wanted[i] \in Int
  BY <1>1, ElementOfSeq
<1>3. new = [i \in DOMAIN table |-> [table[i] EXCEPT !.light = wanted[i]]]
  BY DEF WithLights
<1> HIDE DEF new
<1>4. ASSUME NEW i \in DOMAIN table
      PROVE  /\ [table[i] EXCEPT !.light = wanted[i]] \in LightRows
             /\ new[i].kinds = table[i].kinds /\ new[i].light = wanted[i]
  <2>1. table[i] \in LightRows /\ wanted[i] \in Int
    BY <1>2
  <2> QED
    BY <2>1, <1>3 DEF LightRows
<1>5. new \in [1 .. Len(table) -> LightRows]
  BY <1>1, <1>3, <1>4
<1>6. new \in Seq(LightRows)
  BY <1>1, <1>5, SeqDef
<1>7. LightsOf(new) = [i \in DOMAIN table |-> wanted[i]]
  BY <1>3, <1>4 DEF LightsOf
<1>8. wanted = [i \in DOMAIN table |-> wanted[i]]
  <2>1. wanted \in [1 .. Len(table) -> Int]
    BY <1>1, LenProperties
  <2> QED
    BY <2>1, <1>1
<1> QED
  BY <1>3, <1>4, <1>6, <1>7, <1>8 DEF new

(* What a pass of --apply, stopped or not, makes of a repository.          *)
LEMMA AppliedIs ==
  ASSUME NEW repo, Tabled(repo), NEW ciNow, NEW raise, NEW stop
  PROVE  LET after == Apply(repo, ciNow, raise, stop).repo
             wanted == Wanted(repo, ciNow, raise)
         IN /\ Tabled(after) /\ SameBoard(repo, after)
            /\ repo.hydra => after = repo
            /\ \A l \in DOMAIN repo.tables :
                 \/ after.tables[l] = repo.tables[l]
                 \/ /\ repo.tables[l] # Missing
                    /\ Len(repo.tables[l]) = Len(wanted)
                    /\ after.tables[l] = WithLights(repo.tables[l], wanted)
<1> DEFINE after == Apply(repo, ciNow, raise, stop).repo
           wanted == Wanted(repo, ciNow, raise)
           reached == Reached(repo, wanted, stop)
           written == [l \in DOMAIN repo.tables |->
             IF repo.tables[l] # Missing /\ \E k \in reached : Languages[k] = l
             THEN WithLights(repo.tables[l], wanted) ELSE repo.tables[l]]
<1>1. CASE repo.hydra \/ ~CanEvaluate(repo)
  BY <1>1 DEF Apply, SameBoard
<1>2. CASE ~(repo.hydra \/ ~CanEvaluate(repo))
  <2>1. PICK source : after = [repo EXCEPT !.tables = written, !.source = source]
    BY <1>2 DEF Apply
  <2>2. ASSUME NEW l \in DOMAIN repo.tables, NEW k \in reached, Languages[k] = l,
               repo.tables[l] # Missing
        PROVE  Len(repo.tables[l]) = Len(wanted)
    <3>1. k \in 1 .. stop /\ \A j \in 1 .. k : repo.tables[Languages[j]] # Missing
                => Len(repo.tables[Languages[j]]) = Len(wanted)
      BY <2>2 DEF Reached
    <3>2. k \in 1 .. k
      BY <3>1
    <3> QED
      BY <2>2, <3>1, <3>2
  <2> HIDE DEF reached, wanted
  <2>3. \A l \in DOMAIN repo.tables :
          \/ written[l] = repo.tables[l]
          \/ /\ repo.tables[l] # Missing
             /\ Len(repo.tables[l]) = Len(wanted)
             /\ written[l] = WithLights(repo.tables[l], wanted)
    BY <2>2
  <2>4. DOMAIN written = DOMAIN repo.tables
    OBVIOUS
  <2> HIDE DEF written, after
  <2>5. /\ after.tables = written /\ SameBoard(repo, after)
        /\ {"tables", "source"} \subseteq DOMAIN after
    BY <2>1 DEF Tabled, SameBoard
  <2>6. wanted \in Seq(Int)
    BY WantedLights DEF wanted
  <2>7. \A l \in DOMAIN repo.tables :
          repo.tables[l] \in Seq(LightRows) /\ written[l] \in Seq(LightRows)
    BY <2>3, <2>6, Relighted DEF Tabled
  <2>8. written = [l \in DOMAIN repo.tables |-> written[l]]
    BY DEF written
  <2>9. Tabled(after)
    BY <2>5, <2>7, <2>8 DEF Tabled
  <2> QED
    BY <1>2, <2>3, <2>5, <2>9 DEF after, wanted
<1> QED
  BY <1>1, <1>2

(* English is the first of the languages.                                  *)
LEMMA EnglishIs ==
  /\ English = Languages[1] /\ 1 \in DOMAIN Languages
  /\ DOMAIN Languages = 1 .. Len(Languages) /\ Len(Languages) \in Nat
BY DecisionsAssumption, LayoutAssumption, LenProperties DEF English

(* A row after a pass of --apply: its light is the one it had or the one   *)
(* it should have.                                                         *)
LEMMA RowAfter ==
  ASSUME NEW repo, Tabled(repo), NEW ciNow, NEW raise, NEW stop
  PROVE  LET table == repo.tables[English]
             after == Apply(repo, ciNow, raise, stop).repo.tables[English]
         IN /\ DOMAIN after = DOMAIN table
            /\ \A i \in DOMAIN table :
                 /\ table[i] \in LightRows /\ after[i] \in LightRows
                 /\ after[i].kinds = table[i].kinds
                 /\ after[i].light
                      \in {table[i].light, WantedLight(table[i], repo, ciNow, raise)}
<1> DEFINE table == repo.tables[English]
           new == Apply(repo, ciNow, raise, stop).repo
           after == new.tables[English]
           wanted == Wanted(repo, ciNow, raise)
<1>1. English \in DOMAIN repo.tables
  BY EnglishIs DEF Tabled
<1>2. \/ after = table
      \/ Len(table) = Len(wanted) /\ after = WithLights(table, wanted)
  BY <1>1, AppliedIs
<1>3. Tabled(new)
  BY AppliedIs
<1>4. table \in Seq(LightRows) /\ after \in Seq(LightRows)
  BY <1>3, EnglishIs DEF Tabled
<1>5. /\ wanted \in Seq(Int)
      /\ \A i \in DOMAIN table : /\ table[i] \in LightRows
           /\ wanted[i] = WantedLight(table[i], repo, ciNow, raise)
  BY WantedLights
<1> HIDE DEF table, new, after, wanted
<1>6. DOMAIN after = DOMAIN table
      /\ \A i \in DOMAIN table : /\ after[i].kinds = table[i].kinds
                                 /\ after[i].light \in {table[i].light, wanted[i]}
  <2>1. CASE after = table
    BY <2>1
  <2>2. CASE Len(table) = Len(wanted) /\ after = WithLights(table, wanted)
    <3>1. /\ DOMAIN WithLights(table, wanted) = DOMAIN table
          /\ \A i \in DOMAIN table :
               /\ WithLights(table, wanted)[i].kinds = table[i].kinds
               /\ WithLights(table, wanted)[i].light = wanted[i]
      BY <2>2, <1>4, <1>5, Relighted
    <3> QED
      BY <2>2, <3>1
  <2> QED
    BY <1>2, <2>1, <2>2
<1>7. \A i \in DOMAIN table : after[i] \in LightRows
  <2>1. DOMAIN after = 1 .. Len(after)
    BY <1>4, LenProperties
  <2> QED
    BY <1>4, <1>6, <2>1, ElementOfSeq
<1>8. \A i \in DOMAIN table :
        /\ table[i] \in LightRows /\ after[i] \in LightRows
        /\ after[i].kinds = table[i].kinds
        /\ after[i].light \in {table[i].light, WantedLight(table[i], repo, ciNow, raise)}
  BY <1>5, <1>6, <1>7
<1> QED
  BY <1>6, <1>8 DEF table, after, new

(* The kind of a row is in its label, not in its light.                    *)
LEMMA KindStays ==
  ASSUME NEW row, NEW other, other.kinds = row.kinds
  PROVE  KindOf(other) = KindOf(row)
BY DEF KindOf

(* A light that is higher after two passes, the second without --raise,    *)
(* was raised by one, where --suggest says it could be better.             *)
LEMMA RaisedHonestly ==
  ASSUME NEW before, Tabled(before), NEW ciNow, NEW raise, NEW stop,
         NEW i \in DOMAIN before.tables[English]
  PROVE  LET once == Apply(before, ciNow, raise, stop).repo
             after == Apply(once, ciNow, FALSE, Len(Languages)).repo
             was == before.tables[English][i]
             is == after.tables[English][i].light
         IN is > was.light => /\ raise /\ is = was.light + 1
                              /\ i \in Suggested(before, ciNow)
                              /\ Honest(before, [was EXCEPT !.light = is])
<1> DEFINE once == Apply(before, ciNow, raise, stop).repo
           after == Apply(once, ciNow, FALSE, Len(Languages)).repo
           was == before.tables[English][i]
           mid == once.tables[English][i]
           now == after.tables[English][i]
           top == Ceiling(KindOf(was), before, ciNow)
<1>1. Tabled(once) /\ SameBoard(before, once)
  BY AppliedIs
<1>2. /\ was \in LightRows /\ mid \in LightRows /\ mid.kinds = was.kinds
      /\ mid.light \in {was.light, WantedLight(was, before, ciNow, raise)}
      /\ i \in DOMAIN once.tables[English]
  BY RowAfter
<1> HIDE DEF once
<1>3. PICK w : w = WantedLight(mid, once, ciNow, FALSE)
  OBVIOUS
<1>4. top \in {2, 3, 4}
  BY CeilingHolds, LightsAre
<1> HIDE DEF was, mid, now, top
<1> SUFFICES ASSUME now.light > was.light
             PROVE  /\ raise /\ now.light = was.light + 1
                    /\ i \in Suggested(before, ciNow)
                    /\ Honest(before, [was EXCEPT !.light = now.light])
  BY DEF once, was, now
<1>5. now.light \in {mid.light, w}
  BY <1>1, <1>2, <1>3, RowAfter DEF now, mid, after
<1>6. /\ was.light \in Int /\ mid.light \in Int /\ w \in Int /\ w <= mid.light
      /\ now.light \in Int
  <2>1. mid.light \in Int /\ was.light \in Int
    BY <1>2 DEF LightRows
  <2>2. w \in Int /\ ~(w > mid.light)
    BY <1>2, <1>3, WantedIs
  <2> QED
    BY <1>5, <2>1, <2>2
<1>7. mid.light > was.light
  BY <1>5, <1>6
<1>8. /\ raise /\ mid.light = was.light + 1 /\ was.light < top
      /\ was.light \in Lights
  <2>1. mid.light = WantedLight(was, before, ciNow, raise)
    BY <1>2, <1>6, <1>7
  <2> QED
    BY <1>2, <1>7, <2>1, WantedIs DEF top
<1>9. now.light = was.light + 1
  BY <1>5, <1>6, <1>8
<1>10. i \in Suggested(before, ciNow)
  BY <1>8 DEF Suggested, was, top
<1>11. Honest(before, [was EXCEPT !.light = now.light])
  <2>1. PICK row : row = [was EXCEPT !.light = now.light]
    OBVIOUS
  <2>2. row.light = now.light /\ row.kinds = was.kinds
    BY <1>2, <2>1 DEF LightRows
  <2>3. row.light \in Lights /\ row.light <= top
    BY <1>4, <1>8, <1>9, <2>2, LightsAre
  <2>4. Ceiling(KindOf(row), before, ciNow) = top
    BY <2>2, KindStays DEF top
  <2> QED
    BY <2>1, <2>3, <2>4, BelowIsHonest
<1> QED
  BY <1>8, <1>9, <1>10, <1>11

(* A pass that reached every README leaves no light above its ceiling and  *)
(* the same ones in every language.                                        *)
LEMMA WholePassAgrees ==
  ASSUME NEW repo, Tabled(repo), NEW ciNow, NEW raise,
         Apply(repo, ciNow, raise, Len(Languages)).applied,
         \A i \in DOMAIN repo.tables[English] : repo.tables[English][i].light \in Lights
  PROVE  LET after == Apply(repo, ciNow, raise, Len(Languages)).repo
         IN LightProblems(after, ciNow) \cap {"above", "differ"} = {}
<1> DEFINE result == Apply(repo, ciNow, raise, Len(Languages))
           after == result.repo
           wanted == Wanted(repo, ciNow, raise)
           table == repo.tables[English]
           written == [l \in DOMAIN repo.tables |->
             IF repo.tables[l] # Missing
                  /\ \E k \in Reached(repo, wanted, Len(Languages)) : Languages[k] = l
             THEN WithLights(repo.tables[l], wanted) ELSE repo.tables[l]]
<1>1. /\ Reached(repo, wanted, Len(Languages)) = DOMAIN Languages
      /\ CanEvaluate(repo)
      /\ \E source : after = [repo EXCEPT !.tables = written, !.source = source]
  BY DEF Apply
<1>2. \A l \in DOMAIN Languages :
        /\ Languages[l] \in DOMAIN repo.tables
        /\ repo.tables[Languages[l]] \in Seq(LightRows)
        /\ repo.tables[Languages[l]] # Missing
             => Len(repo.tables[Languages[l]]) = Len(wanted)
  <2> SUFFICES ASSUME NEW l \in DOMAIN Languages
               PROVE  /\ Languages[l] \in DOMAIN repo.tables
                      /\ repo.tables[Languages[l]] \in Seq(LightRows)
                      /\ repo.tables[Languages[l]] # Missing
                           => Len(repo.tables[Languages[l]]) = Len(wanted)
    OBVIOUS
  <2>1. l \in Reached(repo, wanted, Len(Languages)) /\ l \in 1 .. l
    BY <1>1, EnglishIs
  <2>2. repo.tables[Languages[l]] # Missing
          => Len(repo.tables[Languages[l]]) = Len(wanted)
    BY <2>1 DEF Reached
  <2> QED
    BY <2>2 DEF Tabled
<1>3. \A l \in DOMAIN Languages :
        after.tables[Languages[l]]
          = IF repo.tables[Languages[l]] = Missing THEN Missing
            ELSE WithLights(repo.tables[Languages[l]], wanted)
  <2>1. after.tables = written
    BY <1>1 DEF Tabled
  <2> QED
    BY <1>1, <1>2, <2>1
<1>4. SameBoard(repo, after)
  BY AppliedIs
<1>5. /\ wanted \in Seq(Int) /\ table \in Seq(LightRows)
      /\ Len(wanted) = Len(table)
      /\ \A i \in DOMAIN table : /\ table[i] \in LightRows
           /\ wanted[i] = WantedLight(table[i], repo, ciNow, raise)
  BY WantedLights
<1>6. table # Missing
  BY <1>1 DEF CanEvaluate, HasTable
<1>7. \A i \in DOMAIN table : table[i].light \in Lights
  OBVIOUS
<1> HIDE DEF result, after, wanted, table, written
<1>8. after.tables[English] = WithLights(table, wanted)
  BY <1>3, <1>6, EnglishIs DEF table
<1>9. ASSUME NEW i \in DOMAIN after.tables[English]
      PROVE  LET row == after.tables[English][i]
             IN row.light \in Lights /\ row.light <= Ceiling(KindOf(row), after, ciNow)
  <2> DEFINE row == after.tables[English][i]
  <2>1. /\ i \in DOMAIN table /\ row.kinds = table[i].kinds
        /\ row.light = wanted[i]
    <3>1. /\ DOMAIN WithLights(table, wanted) = DOMAIN table
          /\ \A j \in DOMAIN table :
               /\ WithLights(table, wanted)[j].kinds = table[j].kinds
               /\ WithLights(table, wanted)[j].light = wanted[j]
      BY <1>5, Relighted
    <3> QED
      BY <1>8, <3>1
  <2>2. row.light \in Lights /\ row.light <= Ceiling(KindOf(table[i]), repo, ciNow)
    BY <1>5, <1>7, <2>1, WantedIs
  <2>3. KindOf(row) = KindOf(table[i])
    BY <2>1, KindStays
  <2> HIDE DEF row
  <2>4. Ceiling(KindOf(row), after, ciNow) = Ceiling(KindOf(table[i]), repo, ciNow)
    BY <1>4, <2>3, SameCeiling
  <2> QED
    BY <2>2, <2>4 DEF row
<1>10. ASSUME NEW l \in 2 .. Len(Languages), after.tables[Languages[l]] # Missing
       PROVE  LightsOf(after.tables[Languages[l]]) = LightsOf(after.tables[English])
  <2>1. l \in DOMAIN Languages
    BY EnglishIs
  <2>2. /\ after.tables[Languages[l]] = WithLights(repo.tables[Languages[l]], wanted)
        /\ repo.tables[Languages[l]] \in Seq(LightRows)
        /\ Len(repo.tables[Languages[l]]) = Len(wanted)
    BY <1>2, <1>3, <1>10, <2>1
  <2>3. LightsOf(after.tables[Languages[l]]) = wanted
    BY <1>5, <2>2, Relighted
  <2>4. LightsOf(after.tables[English]) = wanted
    BY <1>5, <1>8, Relighted
  <2> QED
    BY <2>3, <2>4
<1>11. {i \in DOMAIN after.tables[English] :
          \/ after.tables[English][i].light \notin Lights
          \/ after.tables[English][i].light
               > Ceiling(KindOf(after.tables[English][i]), after, ciNow)} = {}
  <2> SUFFICES ASSUME NEW i \in DOMAIN after.tables[English],
                      \/ after.tables[English][i].light \notin Lights
                      \/ after.tables[English][i].light
                           > Ceiling(KindOf(after.tables[English][i]), after, ciNow)
               PROVE  FALSE
    OBVIOUS
  <2>1. PICK light, top : /\ light = after.tables[English][i].light
                          /\ top = Ceiling(KindOf(after.tables[English][i]), after, ciNow)
    OBVIOUS
  <2>2. top \in {2, 3, 4}
    BY <2>1, CeilingHolds, LightsAre
  <2>3. light \in Lights /\ light <= top
    BY <1>9, <2>1
  <2>4. light > top
    BY <2>1, <2>3
  <2> QED
    BY <2>2, <2>3, <2>4, LightsAre
<1>12. {l \in 2 .. Len(Languages) :
          /\ after.tables[Languages[l]] # Missing
          /\ LightsOf(after.tables[Languages[l]]) # LightsOf(after.tables[English])} = {}
  BY <1>10
<1>13. "above" \notin LightProblems(after, ciNow)
       /\ "differ" \notin LightProblems(after, ciNow)
  BY <1>11, <1>12 DEF LightProblems, HydraProblems
<1> QED
  BY <1>13 DEF after, result

-----------------------------------------------------------------------------
(* What `ci` lets pass.  Induction over the lines of a README goes by the  *)
(* first line where a claim would fail.                                    *)

UpTo(S, i) == {j \in S : j <= i}

(* How many of some numbers are at most i: none at 0, one more at each of  *)
(* them, and as many as before elsewhere.                                  *)
LEMMA UpToGrows ==
  ASSUME NEW n \in Nat, NEW S \in SUBSET (1 .. n)
  PROVE  /\ Cardinality(UpTo(S, 0)) = 0
         /\ Cardinality(UpTo(S, n)) = Cardinality(S)
         /\ \A i \in 0 .. n : Cardinality(UpTo(S, i)) \in Nat
         /\ \A i \in 1 .. n :
              Cardinality(UpTo(S, i)) =
                IF i \in S THEN Cardinality(UpTo(S, i - 1)) + 1
                           ELSE Cardinality(UpTo(S, i - 1))
<1>1. IsFiniteSet(1 .. n)
  BY FS_Interval
<1>2. \A T \in SUBSET (1 .. n) : IsFiniteSet(T) /\ Cardinality(T) \in Nat
  BY <1>1, FS_Subset, FS_CardinalityType
<1>3. \A i : UpTo(S, i) \in SUBSET (1 .. n)
  BY DEF UpTo
<1>4. \A j \in S : j \in Nat /\ 0 < j /\ j <= n
  OBVIOUS
<1>5. UpTo(S, 0) = {} /\ UpTo(S, n) = S
  <2>1. \A j \in S : ~(j <= 0) /\ j <= n
    BY <1>4
  <2> QED
    BY <2>1, Zenon DEF UpTo
<1>6. ASSUME NEW i \in 1 .. n
      PROVE  Cardinality(UpTo(S, i)) =
               IF i \in S THEN Cardinality(UpTo(S, i - 1)) + 1
                          ELSE Cardinality(UpTo(S, i - 1))
  <2>0. \A j \in S : (j <= i - 1) <=> (j <= i /\ j # i)
    BY <1>4
  <2>1. CASE i \in S
    <3>0. i <= i
      OBVIOUS
    <3>1. UpTo(S, i) = UpTo(S, i - 1) \cup {i} /\ i \notin UpTo(S, i - 1)
      BY <2>0, <2>1, <3>0, Zenon DEF UpTo
    <3> QED
      BY <1>2, <1>3, <2>1, <3>1, FS_AddElement
  <2>2. CASE i \notin S
    <3>1. UpTo(S, i) = UpTo(S, i - 1)
      BY <2>0, <2>2, Zenon DEF UpTo
    <3> QED
      BY <2>2, <3>1
  <2> QED
    BY <2>1, <2>2
<1> QED
  BY <1>2, <1>3, <1>5, <1>6, FS_EmptySet

(* The ascending order of some numbers has each place filled by one of     *)
(* them.                                                                   *)
LEMMA AscendingIsOf ==
  ASSUME NEW n \in Nat, NEW S \in SUBSET (1 .. n)
  PROVE  /\ Cardinality(S) \in Nat
         /\ DOMAIN Ascending(S) = 1 .. Cardinality(S)
         /\ \A k \in 1 .. Cardinality(S) : Ascending(S)[k] \in S
<1> DEFINE c(i) == Cardinality(UpTo(S, i))
<1>1. /\ c(0) = 0 /\ c(n) = Cardinality(S)
      /\ \A i \in 0 .. n : c(i) \in Nat
      /\ \A i \in 1 .. n : c(i) = IF i \in S THEN c(i - 1) + 1 ELSE c(i - 1)
  BY UpToGrows
<1> HIDE DEF c
<1>2. ASSUME NEW k \in 1 .. Cardinality(S)
      PROVE  \E i \in S : c(i) = k
  <2> DEFINE T == {i \in 0 .. n : c(i) >= k}
  <2>1. T # {} /\ T \in SUBSET Nat
    BY <1>1
  <2>2. PICK m \in T : \A x \in T : m <= x
    BY <2>1, LeastIs
  <2>3. m \in 1 .. n
    BY <1>1, <2>2
  <2>4. m - 1 \in 0 .. n /\ m - 1 \notin T
    BY <2>2, <2>3
  <2>5. c(m - 1) < k /\ c(m) >= k
    BY <1>1, <2>2, <2>4
  <2> QED
    BY <1>1, <2>3, <2>4, <2>5
<1>3. ASSUME NEW k \in 1 .. Cardinality(S)
      PROVE  Ascending(S)[k] \in S
  <2>1. Ascending(S)[k] = CHOOSE i \in S : c(i) = k
    BY DEF Ascending, c, UpTo
  <2> QED
    BY <1>2, <2>1
<1>4. DOMAIN Ascending(S) = 1 .. Cardinality(S)
  BY DEF Ascending
<1>5. Cardinality(S) \in Nat
  BY <1>1
<1> QED
  BY <1>3, <1>4, <1>5

(* To tell code blocks by turning at each fence, as a reader does, and by  *)
(* counting the fences above is the same.                                  *)
LEMMA TurningIsCounting ==
  ASSUME NEW lines \in Seq(ReadmeLines), NEW i \in DOMAIN lines,
         lines[i].is # "fence"
  PROVE  InBlock(lines)[i] <=> Fenced(lines, i)
<1> DEFINE n == Len(lines)
           F == Indices(lines, "fence")
           c(j) == Cardinality(UpTo(F, j))
           Turned(h) == h = [j \in 0 .. n |->
                               IF j = 0 THEN FALSE
                               ELSE IF lines[j].is = "fence" THEN ~h[j - 1]
                               ELSE h[j - 1]]
           g == [j \in 0 .. n |-> c(j) % 2 = 1]
           h == InBlock(lines)
<1>1. n \in Nat /\ DOMAIN lines = 1 .. n
  BY LenProperties
<1>2. F \in SUBSET (1 .. n)
  BY <1>1 DEF Indices
<1>3. /\ c(0) = 0
      /\ \A j \in 0 .. n : c(j) \in Nat
      /\ \A j \in 1 .. n : c(j) = IF j \in F THEN c(j - 1) + 1 ELSE c(j - 1)
  <2> HIDE DEF F, n
  <2> QED
    BY <1>1, <1>2, UpToGrows
<1>4. \A j \in 1 .. n : j \in F <=> lines[j].is = "fence"
  BY <1>1 DEF Indices
<1>5. F = {j \in F : j < i} \cup {j \in F : j > i} /\ UpTo(F, i) = {j \in F : j < i}
  BY <1>1, <1>2, <1>4 DEF UpTo
<1> HIDE DEF F, c
<1>6. Turned(g)
  <2>1. ASSUME NEW j \in 1 .. n, j \in F
        PROVE  (c(j) % 2 = 1) = ~(c(j - 1) % 2 = 1)
    <3>1. \A x \in Nat : ((x + 1) % 2 = 1) = ~(x % 2 = 1)
      OBVIOUS
    <3>2. c(j - 1) \in Nat /\ c(j) = c(j - 1) + 1
      BY <1>1, <1>3, <2>1
    <3> QED
      BY <3>1, <3>2
  <2>2. ASSUME NEW j \in 1 .. n, j \notin F
        PROVE  (c(j) % 2 = 1) = (c(j - 1) % 2 = 1)
    BY <1>1, <1>3, <2>2
  <2>3. ASSUME NEW j \in 0 .. n
        PROVE  g[j] = IF j = 0 THEN FALSE
                      ELSE IF lines[j].is = "fence" THEN ~g[j - 1] ELSE g[j - 1]
    <3>1. CASE j = 0
      <4>1. 0 \in 0 .. n /\ ~(0 % 2 = 1)
        BY <1>1
      <4>2. g[0] = (c(0) % 2 = 1)
        BY <4>1
      <4> QED
        BY <1>3, <3>1, <4>1, <4>2
    <3>2. CASE j # 0
      <4>1. j \in 1 .. n /\ j - 1 \in 0 .. n
        BY <1>1, <3>2
      <4>2. g[j] = (c(j) % 2 = 1) /\ g[j - 1] = (c(j - 1) % 2 = 1)
        BY <4>1
      <4> QED
        BY <1>4, <2>1, <2>2, <3>2, <4>1, <4>2
    <3> QED
      BY <3>1, <3>2
  <2> QED
    BY <2>3
<1>7. Turned(h)
  <2>1. h = CHOOSE f : Turned(f)
    BY DEF InBlock
  <2> HIDE DEF Turned, g, h
  <2> QED
    BY <1>6, <2>1
<1>8. \A j \in 0 .. n : h[j] = g[j]
  <2> HIDE DEF h, g
  <2> DEFINE T == {j \in 0 .. n : h[j] # g[j]}
  <2>1. SUFFICES ASSUME T # {} PROVE FALSE
    OBVIOUS
  <2>2. T \in SUBSET Nat
    BY <1>1
  <2>3. PICK m \in T : \A x \in T : m <= x
    BY <2>1, <2>2, LeastIs
  <2>4. m \in 0 .. n /\ h[m] # g[m]
    BY <2>3
  <2>5. \A f : Turned(f) => /\ f[0] = FALSE
                            /\ m # 0 => f[m] = IF lines[m].is = "fence" THEN ~f[m - 1]
                                               ELSE f[m - 1]
    <3>1. 0 \in 0 .. n
      BY <1>1
    <3> QED
      BY <2>4, <3>1
  <2>6. m # 0
    BY <1>6, <1>7, <2>4, <2>5
  <2>7. m - 1 \in 0 .. n /\ ~(m <= m - 1)
    BY <1>1, <2>4, <2>6
  <2>8. h[m - 1] = g[m - 1]
    BY <2>3, <2>7
  <2> HIDE DEF Turned, T
  <2> QED
    BY <1>6, <1>7, <2>4, <2>5, <2>6, <2>8
<1>9. g[i] = (c(i) % 2 = 1)
  BY <1>1
<1>10. Fenced(lines, i) = (c(i) % 2 = 1)
  BY <1>5 DEF Fenced, F, c
<1>11. h[i] = g[i]
  BY <1>1, <1>8
<1> QED
  BY <1>9, <1>10, <1>11

(* In a README without problems a reader sees the sections that the check  *)
(* reads: known ones, the required ones among them, in the fixed order.    *)
LEMMA SeenAreSections ==
  ASSUME NEW readme, NEW english, Legible(readme.lines),
         LayoutProblems(readme, english) = {}
  PROVE  LET seen == Visible(readme.lines)
         IN /\ seen = Ids(readme) /\ Ids(readme) = Ids(english)
            /\ \A s, t \in DOMAIN seen : s < t => Rank(seen[s]) < Rank(seen[t])
            /\ Required \subseteq Range(seen) /\ Range(seen) \subseteq Range(Order)
<1> DEFINE lines == readme.lines
           S == {i \in Indices(lines, "h2") : ~Fenced(lines, i)}
           at == Ascending(S)
           ids == Ids(readme)
           seen == Visible(lines)
           sections == Sections(lines)
<1>1. /\ lines \in Seq(ReadmeLines) /\ Len(lines) \in Nat
      /\ DOMAIN lines = 1 .. Len(lines)
  BY LenProperties DEF Legible
<1>2. S \in SUBSET (1 .. Len(lines))
  BY <1>1 DEF Indices
<1>3. S = {i \in DOMAIN lines : lines[i].is = "h2" /\ ~InBlock(lines)[i]}
  <2>1. \A i \in DOMAIN lines : lines[i].is = "h2" =>
          (InBlock(lines)[i] <=> Fenced(lines, i))
    BY <1>1, TurningIsCounting
  <2> QED
    BY <2>1, Zenon DEF Indices
<1>4. /\ DOMAIN at = 1 .. Cardinality(S) /\ Cardinality(S) \in Nat
      /\ \A s \in DOMAIN at : at[s] \in S
  BY <1>1, <1>2, AscendingIsOf
<1>5. seen = [s \in DOMAIN at |-> lines[at[s]].icon]
  <2> HIDE DEF S
  <2> QED
    BY <1>3 DEF Visible
<1>6. /\ sections = [s \in DOMAIN at |-> SectionOf(lines[at[s]])]
      /\ ids = [s \in DOMAIN at |-> SectionOf(lines[at[s]]).id]
  <2>1. sections = [s \in DOMAIN at |-> SectionOf(lines[at[s]])]
    BY DEF Sections, Headings
  <2> HIDE DEF at
  <2> QED
    BY <2>1 DEF Ids
<1> HIDE DEF at, S, sections
<1>7. /\ \A s \in DOMAIN sections : sections[s].id # "unknown"
      /\ InOrder(ids) /\ Required \subseteq {ids[s] : s \in DOMAIN ids}
      /\ ids = Ids(english)
  <2> HIDE DEF ids
  <2>1. ASSUME NEW s \in DOMAIN sections
        PROVE  (IF sections[s].id = "unknown" \/ sections[s].numbered
                   \/ ~sections[s].named THEN {"section"} ELSE {}) = {}
    BY DEF LayoutProblems, sections
  <2>2. InOrder(ids) \/ "order" \in LayoutProblems(readme, english)
    BY DEF LayoutProblems, ids
  <2>3. Required \subseteq {ids[s] : s \in DOMAIN ids}
          \/ "required" \in LayoutProblems(readme, english)
    BY DEF LayoutProblems, ids
  <2>4. ids = Ids(english) \/ "sequence" \in LayoutProblems(readme, english)
    BY DEF LayoutProblems, ids
  <2> QED
    BY <2>1, <2>2, <2>3, <2>4
<1>8. ASSUME NEW s \in DOMAIN at
      PROVE  /\ SectionOf(lines[at[s]]).id = lines[at[s]].icon
             /\ lines[at[s]].icon # "unknown"
             /\ lines[at[s]].icon \in Range(Order)
  <2>1. SectionOf(lines[at[s]]).id # "unknown"
    BY <1>6, <1>7
  <2>2. SectionOf(lines[at[s]]).id = lines[at[s]].icon
    BY <2>1 DEF SectionOf
  <2>3. at[s] \in Indices(lines, "h2")
    BY <1>4 DEF S
  <2> QED
    BY <2>1, <2>2, <2>3 DEF Legible
<1>9. seen = ids
  BY <1>5, <1>6, <1>8
<1>10. /\ DOMAIN ids = 1 .. Cardinality(S)
       /\ \A s \in DOMAIN ids : ids[s] # "unknown" /\ ids[s] \in Range(Order)
  BY <1>4, <1>6, <1>8
<1> HIDE DEF ids, seen
<1>11. ASSUME NEW s \in DOMAIN ids, NEW t \in DOMAIN ids, s < t
       PROVE  Rank(ids[s]) < Rank(ids[t])
  <2>1. Rank(ids[s]) <= Rank(ids[t]) /\ ids[s] # ids[t]
    BY <1>4, <1>7, <1>10, <1>11 DEF InOrder
  <2>2. \A id \in Range(Order) : Rank(id) \in DOMAIN Order /\ Order[Rank(id)] = id
    BY DEF Rank, Range
  <2>3. DOMAIN Order \subseteq Int
    BY DecisionsAssumption, LenProperties
  <2> QED
    BY <1>10, <2>1, <2>2, <2>3
<1> QED
  BY <1>7, <1>9, <1>10, <1>11 DEF Range, seen, ids

(* What a passing `ci` found nothing wrong with.                           *)
LEMMA PassMeans ==
  ASSUME NEW repo, NEW env, ToolCi(repo, env) = 0
  PROVE  /\ ManifestProblems(repo) = {} /\ ChangelogProblems(repo) = {}
         /\ ~LayoutInCi(repo) /\ GlanceProblems(repo) = {}
         /\ ExtraProblems(repo) = {}
         /\ StackPasses(repo, env) /\ ~Refused(repo, env)
<1>1. Validates(repo) /\ BuildTest(repo, env) = 0
  BY DEF ToolCi
<1>2. CiProblems(repo) = {}
  BY <1>1 DEF Validates
<1>3. ManifestProblems(repo) = {} /\ ChangelogProblems(repo) = {}
      /\ GlanceProblems(repo) = {} /\ ExtraProblems(repo) = {}
  BY <1>2 DEF CiProblems
<1>4. When("layout", LayoutInCi(repo)) = {}
  BY <1>2, <1>3 DEF CiProblems
<1>5. ~LayoutInCi(repo)
  BY <1>4 DEF When
<1>6. StackPasses(repo, env) /\ ~Refused(repo, env)
  BY <1>1 DEF BuildTest
<1> QED
  BY <1>3, <1>5, <1>6

(* A tree without problems lists every versioned entry that is not hidden, *)
(* and every README carries it.                                            *)
LEMMA TreeIsShown ==
  ASSUME NEW repo, repo.git, StructureProblems(repo.structure, repo) = {}
  PROVE  LET spec == repo.structure
         IN /\ \A f \in repo.tracked : f[1] \notin Hidden \/ f[1] = GitHub =>
                 f[1] \in (UNION First(TreeItems(spec))) \cup spec.exempt
            /\ \A l \in DOMAIN repo.readmes :
                 TreeItems(spec) \in Range(repo.readmes[l].trees)
<1> DEFINE spec == repo.structure
<1>1. /\ CheckDisk(spec, repo) = {}
      /\ \A l \in DOMAIN repo.readmes :
           \E t \in DOMAIN repo.readmes[l].trees :
             repo.readmes[l].trees[t] = TreeItems(spec)
  BY DEF StructureProblems
<1>2. {n \in {f[1] : f \in repo.tracked} :
         ~NeverListed(n) /\ n \notin (UNION First(TreeItems(spec))) \cup spec.exempt} = {}
  BY <1>1 DEF CheckDisk
<1> QED
  BY <1>1, <1>2 DEF NeverListed, Range

(* Of a repository that passes, `doctor` reads by itself what `ci` did and *)
(* finds nothing wrong with it.                                            *)
LEMMA DoctorAgrees ==
  ASSUME NEW repo, Surveyed(repo), ManifestProblems(repo) = {},
         ChangelogProblems(repo) = {}, GlanceProblems(repo) = {},
         ReadmeProblems(repo, FALSE) = {}
  PROVE  Doctor(repo) \subseteq
           {"enums", "native", "not a release", "older", "shared tools"}
             \cup When("glance", ~repo.glance.data)
<1>1. repo.changelog # <<>> /\ repo.changelog[1].version = repo.version
      /\ NoteProblems(repo) = {}
  BY DEF ChangelogProblems
<1>2. 1 \in DOMAIN repo.changelog /\ DOMAIN repo.changelog \subseteq Nat \ {0}
  BY <1>1, LenProperties, EmptySeq DEF Surveyed
<1>3. repo.changelog[1].note
  <2> DEFINE of == {i \in DOMAIN repo.changelog :
                      repo.changelog[i].version = repo.version}
  <2>1. 1 \in of /\ of \in SUBSET Nat
    BY <1>1, <1>2
  <2>2. Least(of) = 1
    <3>1. Least(of) \in of /\ Least(of) <= 1
      BY <2>1, LeastIs
    <3> QED
      BY <1>2, <3>1
  <2>3. When("no note", ~repo.changelog[Least(of)].note) = {}
    BY <1>1, <2>1 DEF NoteProblems
  <2> QED
    BY <2>2, <2>3 DEF When
<1>4. DoctorChangelog(repo) = {}
  BY <1>1, <1>3 DEF DoctorChangelog, When
<1>5. DoctorManifest(repo) \subseteq {"enums", "native"}
  <2>1. When("manifest", ~repo.manifest \/ ~(Keys \subseteq repo.declares.keys)) = {}
        /\ When("values", repo.declares.wrong # {}) = {}
    BY DEF ManifestProblems
  <2>2. repo.manifest /\ Keys \subseteq repo.declares.keys /\ repo.declares.wrong = {}
    BY <2>1 DEF When
  <2> QED
    BY <2>2 DEF DoctorManifest, When
<1>6. DoctorPin(repo) \subseteq {"not a release", "older"}
  BY DEF DoctorPin, When
<1>7. DoctorGlance(repo) \subseteq When("glance", ~repo.glance.data)
  BY DEF DoctorGlance, GlanceProblems, When
<1> QED
  BY <1>4, <1>5, <1>6, <1>7 DEF Doctor, When

(* A repository that passes is what a reader takes it for.                 *)
LEMMA PassedIs ==
  ASSUME NEW repo, NEW env, Surveyed(repo), ToolCi(repo, env) = 0,
         Strict(repo), ~repo.checkFaults
  PROVE  TakenFor(repo, env, Doctor(repo))
<1>1. /\ ManifestProblems(repo) = {} /\ ChangelogProblems(repo) = {}
      /\ ~LayoutInCi(repo) /\ GlanceProblems(repo) = {}
      /\ ExtraProblems(repo) = {}
      /\ StackPasses(repo, env) /\ ~Refused(repo, env)
  BY PassMeans
<1>2. ReadmeProblems(repo, FALSE) = {}
  BY <1>1 DEF LayoutInCi
<1>3. English \in DOMAIN repo.readmes
  <2>1. 1 \in DOMAIN Languages
    BY DecisionsAssumption, LayoutAssumption, LenProperties
  <2> QED
    BY <2>1 DEF English, Surveyed
<1>4. ASSUME NEW l \in DOMAIN repo.readmes
      PROVE  LayoutProblems(repo.readmes[l], repo.readmes[English]) = {}
  <2> DEFINE of(m) == IF ~There(repo, m) THEN {"missing"}
                      ELSE LayoutProblems(repo.readmes[m],
                             IF There(repo, English) THEN repo.readmes[English]
                             ELSE repo.readmes[m])
  <2>1. \A k \in DOMAIN Languages : of(Languages[k]) = {}
    BY <1>2 DEF ReadmeProblems
  <2> HIDE DEF of
  <2>2. of(l) = {} /\ of(English) = {}
    BY <1>3, <2>1 DEF Surveyed
  <2> QED
    BY <2>2 DEF of
<1>5. ASSUME NEW l \in DOMAIN repo.readmes
      PROVE  LET seen(m) == Visible(repo.readmes[m].lines)
             IN /\ seen(l) = seen(English)
                /\ \A s, t \in DOMAIN seen(l) : s < t => Rank(seen(l)[s]) < Rank(seen(l)[t])
                /\ Required \subseteq Range(seen(l)) /\ Range(seen(l)) \subseteq Range(Order)
  <2>1. Legible(repo.readmes[l].lines) /\ Legible(repo.readmes[English].lines)
    BY <1>3 DEF Surveyed
  <2>2. Visible(repo.readmes[English].lines) = Ids(repo.readmes[English])
    BY <1>3, <1>4, <2>1, SeenAreSections
  <2> QED
    BY <1>4, <2>1, <2>2, SeenAreSections
<1>6. /\ "structure" \in repo.specified => StructureProblems(repo.structure, repo) = {}
      /\ "architecture" \in repo.specified
           => ArchitectureProblems(repo.architecture, repo) = {}
  BY <1>1 DEF ExtraProblems
<1>7. ASSUME "architecture" \in repo.specified, NEW i \in DOMAIN repo.architecture.nodes,
             NEW ref \in repo.architecture.nodes[i].code
      PROVE  ref.path \in DOMAIN repo.paths
  BY <1>6, <1>7 DEF ArchitectureProblems, RefHolds
<1>8. repo.stack \in Compiled =>
        /\ env.allowed \/ env.ci
        /\ repo.builds \/ (Analyzed(repo, env) /\ repo.analyzes)
  BY <1>1 DEF Refused, StackPasses
<1>9. Doctor(repo) \subseteq
        {"enums", "native", "not a release", "older", "shared tools"}
          \cup When("glance", ~repo.glance.data)
  BY <1>1, <1>2, DoctorAgrees
<1> QED
  BY <1>1, <1>5, <1>6, <1>7, <1>8, <1>9, TreeIsShown DEF TakenFor

-----------------------------------------------------------------------------
(* Questions and answers *)

Questions == UNION {Tables, Reports, Backups, Restores, Hosts, Pairs, Boards,
                    Repositories}

(* Only the program a question is for answers it.                          *)
LEMMA WhoIsAsked ==
  ASSUME NEW q \in Questions
  PROVE  /\ "scripts" \in DOMAIN q => q \in Tables
         /\ "config" \in DOMAIN q => q \in Reports
         /\ "moments" \in DOMAIN q => q \in Backups
         /\ "members" \in DOMAIN q => q \in Restores
         /\ "folder" \in DOMAIN q => q \in Hosts
         /\ "pair" \in DOMAIN q => q \in Pairs
         /\ "lights" \in DOMAIN q => q \in Boards
         /\ "repository" \in DOMAIN q => q \in Repositories
BY DecisionsAssumption DEF Questions

(* The question stays what it was.                                         *)
LEMMA QuestionStays ==
  DecisionsSpec => [](question \in Questions)
<1>1. DecisionsInit => question \in Questions
  BY DEF DecisionsInit, Questions
<1>2. question \in Questions /\ [DecisionsNext]_decided => (question \in Questions)'
  BY DEF DecisionsNext, decided, Answers, Done, AskTable, AskReport, AskBackup,
         AskRestore, AskHost, AskNames, AskLights, AskRepository
<1> QED
  BY <1>1, <1>2, PTL DEF DecisionsSpec

(* What each program answers to its own questions.                         *)
LEMMA AnswersOf ==
  ASSUME question \in Questions, DecisionsNext, UNCHANGED decided => FALSE
  PROVE  /\ question' = question
         /\ answer'.of = "report" =>
              /\ question \in Reports
              /\ answer' = [of |-> "report",
                   state |-> IF ConfigOk(question.config)
                             THEN Health(question.config, question.machine)
                             ELSE "refused"]
         /\ answer'.of = "backup" =>
              /\ question \in Backups
              /\ LET archive == Archive(question.moments, question.copied,
                                        question.named)
                 IN answer' = [of |-> "backup", archive |-> archive,
                      files |-> Restore(question.device, Members(archive), FALSE).files]
         /\ answer'.of = "restore" =>
              /\ question \in Restores
              /\ LET after == Restore(question.device, question.members,
                                      question.through)
                 IN answer' = [of |-> "restore", files |-> after.files,
                      root |-> after.root]
         /\ answer'.of = "host" =>
              /\ question \in Hosts
              /\ answer' = [of |-> "host", changed |-> BaseInstalls(question.host),
                   passes |-> RuntimePasses(TRUE, TRUE, question.folder)]
         /\ answer'.of = "names" =>
              /\ question \in Pairs
              /\ answer' = [of |-> "names",
                   names |-> <<HostName(question.pair[1]), HostName(question.pair[2])>>]
         /\ answer'.of = "table" =>
              /\ question \in Tables
              /\ LET rows == Build(question.scripts, question.registry)
                 IN answer' = [of |-> "table", rows |-> rows,
                      replaced |-> Replace(rows, question.hooksMissing, question.only,
                                           question.last)]
         /\ answer'.of = "lights" =>
              /\ question \in Boards
              /\ answer'.once
                   = Apply(question.lights, question.ciNow, question.raise, question.stop)
              /\ answer'.again
                   = Apply(answer'.once.repo, question.ciNow, FALSE, Len(Languages))
              /\ CanEvaluate(question.lights)
                   => answer'.suggested = Suggested(question.lights, question.ciNow)
              /\ answer'.accepted =>
                   /\ CanEvaluate(question.lights)
                   /\ LightProblems(question.lights, "unknown") = {}
         /\ answer'.of = "repository" =>
              /\ question \in Repositories
              /\ answer'.ci = ToolCi(question.repository, question.env)
              /\ answer'.doctor = Doctor(question.repository)
<1>1. CASE AskTable
  BY <1>1, WhoIsAsked DEF AskTable, Asked, Answers
<1>2. CASE AskReport
  BY <1>2, WhoIsAsked DEF AskReport, Asked, Answers
<1>3. CASE AskBackup
  BY <1>3, WhoIsAsked DEF AskBackup, Asked, Answers
<1>4. CASE AskRestore
  BY <1>4, WhoIsAsked DEF AskRestore, Asked, Answers
<1>5. CASE AskHost
  BY <1>5, WhoIsAsked DEF AskHost, Asked, Answers
<1>6. CASE AskNames
  BY <1>6, WhoIsAsked DEF AskNames, Asked, Answers
<1>7. CASE AskLights
  BY <1>7, WhoIsAsked DEF AskLights, Asked, Answers
<1>8. CASE AskRepository
  BY <1>8, WhoIsAsked DEF AskRepository, Asked, Answers
<1> QED
  BY <1>1, <1>2, <1>3, <1>4, <1>5, <1>6, <1>7, <1>8 DEF DecisionsNext, Done

-----------------------------------------------------------------------------
(* The properties *)

(* Whatever archive is restored on whatever device, nothing outside the    *)
(* state of HYDRA-UMC is added, replaced or removed, but where a link of   *)
(* the archive or of the device leads a member (cm5_recovery.sh,           *)
(* recovery_scope.py check-members).                                       *)
THEOREM NothingOutsideChanges == DecisionsSpec => []RestoreStaysInside
<1>1. DecisionsInit => RestoreStaysInside
  BY DEF DecisionsInit, RestoreStaysInside
<1>2. question \in Questions /\ RestoreStaysInside /\ [DecisionsNext]_decided
        => RestoreStaysInside'
  <2> SUFFICES ASSUME question \in Questions, RestoreStaysInside, [DecisionsNext]_decided
               PROVE  RestoreStaysInside'
    OBVIOUS
  <2>1. CASE UNCHANGED decided
    BY <2>1 DEF decided, RestoreStaysInside
  <2>2. CASE UNCHANGED decided => FALSE
    <3> SUFFICES ASSUME answer'.of = "restore",
                        NEW f \in Touched(question'.device, answer'.files)
                 PROVE  \/ InScope(f) /\ \A i \in DOMAIN f.folder : f.folder[i] # ".."
                        \/ ThroughALink(f, question'.members, question'.device)
      BY DEF RestoreStaysInside
    <3>1. /\ question \in Restores /\ question' = question
          /\ answer'.files = Restore(question.device, question.members,
                                     question.through).files
      BY <2>2, AnswersOf
    <3>2. /\ \A m \in question.members :
               m.folder \in Paths /\ {"folder", "name", "is"} \subseteq DOMAIN m
          /\ \A g \in question.device : g.is # "root"
      BY <3>1, DecisionsAssumption
    <3> QED
      BY <3>1, <3>2, RestoreInside
  <2> QED
    BY <2>1, <2>2
<1> QED
  BY <1>1, <1>2, QuestionStays, PTL DEF DecisionsSpec

(* A backup whose copies and whose list of live files were made restores   *)
(* every file that stayed, a database as its consistent copy and with no   *)
(* journal of another beside it, whatever files come and go between its    *)
(* looks at the device (cm5_recovery.sh backup).                           *)
THEOREM BackupsRestore == DecisionsSpec => []SavedIsRestorable
<1>1. DecisionsInit => SavedIsRestorable
  BY DEF DecisionsInit, SavedIsRestorable
<1>2. question \in Questions /\ SavedIsRestorable /\ [DecisionsNext]_decided
        => SavedIsRestorable'
  <2> SUFFICES ASSUME question \in Questions, SavedIsRestorable, [DecisionsNext]_decided
               PROVE  SavedIsRestorable'
    OBVIOUS
  <2>1. CASE UNCHANGED decided
    BY <2>1 DEF decided, SavedIsRestorable
  <2>2. CASE UNCHANGED decided => FALSE
    <3> SUFFICES ASSUME answer'.of = "backup", question'.copied, question'.named
                 PROVE  SavedIsRestorable'
      BY DEF SavedIsRestorable
    <3>1. /\ question \in Backups /\ question' = question
          /\ answer'.archive = Archive(question.moments, question.copied, question.named)
          /\ answer'.files = Restore(question.device, Members(answer'.archive), FALSE).files
      <4> DEFINE archive == Archive(question.moments, question.copied, question.named)
                 files == Restore(question.device, Members(archive), FALSE).files
      <4>1. /\ question \in Backups /\ question' = question
            /\ answer' = [of |-> "backup", archive |-> archive, files |-> files]
        BY <2>2, AnswersOf
      <4>2. answer'.archive = archive /\ answer'.files = files
        <5> HIDE DEF archive, files
        <5> QED
          BY <4>1
      <4> QED
        BY <4>1, <4>2
    <3>2. /\ question.moments.listed \subseteq Allowed
          /\ OfFiles(question.moments.before) /\ OfFiles(question.moments.later)
          /\ OfFiles(question.moments.read) /\ OfFiles(question.device)
      BY <3>1, DecisionsAssumption DEF Moments
    <3>3. answer'.archive = Archive(question.moments, TRUE, TRUE)
      BY <3>1 DEF Archive
    <3>4. Restorable(question.moments, answer'.archive, answer'.files)
      BY <3>1, <3>2, <3>3, BackupRestores
    <3>5. question'.moments = question.moments
      BY <3>1
    <3> QED
      BY <3>4, <3>5 DEF SavedIsRestorable, Restorable
  <2> QED
    BY <2>1, <2>2
<1> QED
  BY <1>1, <1>2, QuestionStays, PTL DEF DecisionsSpec

(* Two devices, whatever their numbers, have the same default name only    *)
(* when they share an identifier (device_identity.py).                     *)
THEOREM NamesComeFromIdentifiers == DecisionsSpec => []NamesTellApart
<1>1. DecisionsInit => NamesTellApart
  BY DEF DecisionsInit, NamesTellApart
<1>2. question \in Questions /\ NamesTellApart /\ [DecisionsNext]_decided
        => NamesTellApart'
  <2> SUFFICES ASSUME question \in Questions, NamesTellApart, [DecisionsNext]_decided
               PROVE  NamesTellApart'
    OBVIOUS
  <2>1. CASE UNCHANGED decided
    BY <2>1 DEF decided, NamesTellApart
  <2>2. CASE UNCHANGED decided => FALSE
    <3> SUFFICES ASSUME answer'.of = "names",
                        answer'.names[1] = answer'.names[2], answer'.names[1] # NoName,
                        question'.pair[1].chosen = NoName,
                        question'.pair[2].chosen = NoName
                 PROVE  Identifiers(question'.pair[1])
                          \cap Identifiers(question'.pair[2]) # {}
      BY DEF NamesTellApart
    <3>1. /\ question \in Pairs /\ question' = question
          /\ answer'.names[1] = HostName(question.pair[1])
          /\ answer'.names[2] = HostName(question.pair[2])
      BY <2>2, AnswersOf
    <3>2. /\ question.pair[1].macs \in Seq(STRING)
          /\ question.pair[2].macs \in Seq(STRING)
      BY <3>1, DecisionsAssumption
    <3> QED
      BY <3>1, <3>2, SameNameSharesIdentifier
  <2> QED
    BY <2>1, <2>2
<1> QED
  BY <1>1, <1>2, QuestionStays, PTL DEF DecisionsSpec

(* READY is said, the base installed and the secrets of a panel passed     *)
(* only when every check behind the verdict passed, for every              *)
(* configuration, machine, host and folder (the agent's health,            *)
(* install_cm5_base.sh, verify_cm5_runtime.sh).                            *)
THEOREM VerdictsAreEarned == DecisionsSpec => []PassIsEarned
<1>1. DecisionsInit => PassIsEarned
  BY DEF DecisionsInit, PassIsEarned
<1>2. question \in Questions /\ PassIsEarned /\ [DecisionsNext]_decided
        => PassIsEarned'
  <2> SUFFICES ASSUME question \in Questions, PassIsEarned, [DecisionsNext]_decided
               PROVE  PassIsEarned'
    OBVIOUS
  <2>1. CASE UNCHANGED decided
    BY <2>1 DEF decided, PassIsEarned, ReadyMeansSound, HostChecked
  <2>2. CASE UNCHANGED decided => FALSE
    <3>1. ASSUME answer'.of = "report"
          PROVE  ReadyMeansSound'
      <4> SUFFICES ASSUME answer'.state = "READY"
                   PROVE  ReadyMeansSound'
        BY DEF ReadyMeansSound
      <4>1. /\ question \in Reports /\ question' = question
            /\ answer'.state = IF ConfigOk(question.config)
                               THEN Health(question.config, question.machine)
                               ELSE "refused"
        BY <2>2, <3>1, AnswersOf
      <4>2. /\ ConfigOk(question.config)
            /\ Health(question.config, question.machine) = "READY"
            /\ Measured(question.config, question.machine)
        BY <4>1, DecisionsAssumption
      <4> QED
        BY <4>1, <4>2, ReadyIsSound DEF ReadyMeansSound
    <3>2. ASSUME answer'.of = "host"
          PROVE  HostChecked'
      <4>1. /\ question \in Hosts /\ question' = question
            /\ answer'.changed = BaseInstalls(question.host)
            /\ answer'.passes = RuntimePasses(TRUE, TRUE, question.folder)
        <5>1. /\ question \in Hosts /\ question' = question
              /\ answer' = [of |-> "host", changed |-> BaseInstalls(question.host),
                            passes |-> RuntimePasses(TRUE, TRUE, question.folder)]
          BY <2>2, <3>2, AnswersOf
        <5>2. ASSUME NEW x, NEW y,
                     answer' = [of |-> "host", changed |-> x, passes |-> y]
              PROVE  answer'.changed = x /\ answer'.passes = y
          BY <5>2
        <5> QED
          BY <5>1, <5>2, Zenon
      <4>2. IsRecord(question.host.identity.holds)
        BY <4>1, DecisionsAssumption
      <4> QED
        BY <4>1, <4>2, InstallIsChecked, PanelIsChecked DEF HostChecked
    <3> QED
      BY <3>1, <3>2 DEF PassIsEarned
  <2> QED
    BY <2>1, <2>2
<1> QED
  BY <1>1, <1>2, QuestionStays, PTL DEF DecisionsSpec

(* A table without problems, of any scripts and any registry: deploy and   *)
(* rollback work on the same folder, health route and unit, but for a unit *)
(* only the folder is named after, the updater's projects are accepted,    *)
(* and all of it holds of the scripts however many are generated           *)
(* (install_plan.py problems, generate_installers.py --replace).           *)
THEOREM TablesAgree == DecisionsSpec => []TableAgrees
<1>1. DecisionsInit => TableAgrees
  BY DEF DecisionsInit, TableAgrees
<1>2. question \in Questions /\ TableAgrees /\ [DecisionsNext]_decided
        => TableAgrees'
  <2> SUFFICES ASSUME question \in Questions, TableAgrees, [DecisionsNext]_decided
               PROVE  TableAgrees'
    OBVIOUS
  <2>1. CASE UNCHANGED decided
    BY <2>1 DEF decided, TableAgrees
  <2>2. CASE UNCHANGED decided => FALSE
    <3> SUFFICES ASSUME answer'.of = "table", Accepts(answer'.rows)
                 PROVE  TableAgrees'
      BY DEF TableAgrees
    <3>1. /\ question \in Tables /\ question' = question
          /\ answer'.rows = Build(question.scripts, question.registry)
          /\ answer'.replaced = Replace(answer'.rows, question.hooksMissing,
                                        question.only, question.last)
      BY <2>2, AnswersOf
    <3>2. KnownRows(answer'.rows, question.registry)
      BY <3>1, BuiltIsKnown, DecisionsAssumption
    <3>3. Accepts(answer'.replaced) /\ KnownRows(answer'.replaced, question.registry)
      BY <3>1, <3>2, ReplacedIsAccepted
    <3>4. \A rows \in {answer'.rows, answer'.replaced} :
            /\ SameUnitBothWays(rows, question.registry)
            /\ UpdaterMayDeploy(rows, question.registry)
      BY <3>2, <3>3, CommandsAgree, UpdaterIsAccepted
    <3> QED
      BY <3>1, <3>3, <3>4 DEF TableAgrees
  <2> QED
    BY <2>1, <2>2
<1> QED
  BY <1>1, <1>2, QuestionStays, PTL DEF DecisionsSpec

(* The lights of any table, stopped anywhere while they are applied: an    *)
(* accepted table is honest, a pass after it makes good what the stop left *)
(* undone, and only --raise raises (status_lights.py).                     *)
THEOREM LightsAreHonest == DecisionsSpec => []LightsStayHonest
<1>1. DecisionsInit => LightsStayHonest
  BY DEF DecisionsInit, LightsStayHonest
<1>2. question \in Questions /\ LightsStayHonest /\ [DecisionsNext]_decided
        => LightsStayHonest'
  <2> SUFFICES ASSUME question \in Questions, LightsStayHonest, [DecisionsNext]_decided
               PROVE  LightsStayHonest'
    OBVIOUS
  <2>1. CASE UNCHANGED decided
    BY <2>1 DEF decided, LightsStayHonest
  <2>2. CASE UNCHANGED decided => FALSE
    <3> SUFFICES ASSUME answer'.of = "lights"
                 PROVE  LightsStayHonest'
      BY DEF LightsStayHonest
    <3> DEFINE before == question.lights
               once == Apply(before, question.ciNow, question.raise, question.stop).repo
               again == Apply(once, question.ciNow, FALSE, Len(Languages))
    <3>1. /\ question \in Boards /\ question' = question
          /\ answer'.again = again
          /\ CanEvaluate(before) => answer'.suggested = Suggested(before, question.ciNow)
          /\ answer'.accepted => /\ CanEvaluate(before)
                                 /\ LightProblems(before, "unknown") = {}
      BY <2>2, AnswersOf
    <3>2. Tabled(before)
      BY <3>1, DecisionsAssumption
    <3>3. Tabled(once) /\ SameBoard(before, once)
      BY <3>2, AppliedIs
    <3>4. ASSUME answer'.accepted, NEW row \in Shown(before)
          PROVE  Honest(before, row)
      <4>1. LightProblems(before, "unknown") = {}
        BY <3>1, <3>4
      <4>2. /\ row.light \in Lights
            /\ ~(row.light > Ceiling(KindOf(row), before, "unknown"))
        BY <4>1 DEF LightProblems, Shown
      <4>3. PICK light, top : /\ light = row.light
                              /\ top = Ceiling(KindOf(row), before, "unknown")
        OBVIOUS
      <4>4. top \in {2, 3, 4}
        BY <4>3, CeilingHolds, LightsAre
      <4>5. light <= top
        BY <4>2, <4>3, <4>4, LightsAre
      <4> QED
        BY <4>2, <4>3, <4>5, BelowIsHonest
    <3>5. before.hydra => again.repo = before
      <4>1. before.hydra => once = before
        BY <3>2, AppliedIs
      <4>2. once.hydra = before.hydra
        BY <3>3 DEF SameBoard
      <4> HIDE DEF once
      <4>3. once.hydra => again.repo = once
        BY DEF Apply
      <4> HIDE DEF again
      <4> QED
        BY <4>1, <4>2, <4>3
    <3>6. ASSUME again.applied, \A row \in Shown(before) : row.light \in Lights
          PROVE  LightProblems(again.repo, question.ciNow) \cap {"above", "differ"} = {}
      <4>1. \A i \in DOMAIN once.tables[English] : once.tables[English][i].light \in Lights
        <5> SUFFICES ASSUME NEW i \in DOMAIN once.tables[English]
                     PROVE  once.tables[English][i].light \in Lights
          OBVIOUS
        <5>1. /\ i \in DOMAIN before.tables[English]
              /\ before.tables[English][i] \in LightRows
              /\ once.tables[English][i].light
                   \in {before.tables[English][i].light,
                        WantedLight(before.tables[English][i], before, question.ciNow,
                                    question.raise)}
          BY <3>2, RowAfter
        <5>2. before.tables[English][i].light \in Lights
          BY <3>6, <5>1 DEF Shown
        <5> QED
          BY <5>1, <5>2, WantedIs
      <4> HIDE DEF once
      <4> QED
        BY <3>3, <3>6, <4>1, WholePassAgrees
    <3>7. ASSUME CanEvaluate(before), NEW i \in DOMAIN before.tables[English]
          PROVE  LET was == before.tables[English][i]
                     is == again.repo.tables[English][i].light
                 IN is > was.light => /\ question.raise /\ is = was.light + 1
                                      /\ i \in answer'.suggested
                                      /\ Honest(before, [was EXCEPT !.light = is])
      <4>1. answer'.suggested = Suggested(before, question.ciNow)
        BY <3>1, <3>7
      <4> QED
        <5> DEFINE was == before.tables[English][i]
                   is == again.repo.tables[English][i].light
        <5>1. is > was.light => /\ question.raise /\ is = was.light + 1
                                /\ i \in Suggested(before, question.ciNow)
                                /\ Honest(before, [was EXCEPT !.light = is])
          BY <3>2, <3>7, RaisedHonestly
        <5> HIDE DEF was, is
        <5>2. is > was.light => /\ question.raise /\ is = was.light + 1
                                /\ i \in answer'.suggested
                                /\ Honest(before, [was EXCEPT !.light = is])
          BY <4>1, <5>1
        <5> QED
          BY <5>2 DEF was, is
    <3> HIDE DEF again
    <3> QED
      BY <3>1, <3>4, <3>5, <3>6, <3>7 DEF LightsStayHonest
  <2> QED
    BY <2>1, <2>2
<1> QED
  BY <1>1, <1>2, QuestionStays, PTL DEF DecisionsSpec

(* A repository of any contents: one that passes `ci` under the strict      *)
(* rules is what a reader takes it for (hydra_project_tool.py ci, doctor).  *)
THEOREM PassesAreSound == DecisionsSpec => []PassedIsSound
<1>1. DecisionsInit => PassedIsSound
  BY DEF DecisionsInit, PassedIsSound
<1>2. question \in Questions /\ PassedIsSound /\ [DecisionsNext]_decided
        => PassedIsSound'
  <2> SUFFICES ASSUME question \in Questions, PassedIsSound, [DecisionsNext]_decided
               PROVE  PassedIsSound'
    OBVIOUS
  <2>1. CASE UNCHANGED decided
    BY <2>1 DEF decided, PassedIsSound
  <2>2. CASE UNCHANGED decided => FALSE
    <3> DEFINE repo == question.repository
    <3> SUFFICES ASSUME answer'.of = "repository", answer'.ci = 0, Strict(question'.repository),
                        ~question'.repository.checkFaults
                 PROVE  PassedIsSound'
      BY DEF PassedIsSound
    <3>1. /\ question \in Repositories /\ question' = question
          /\ ToolCi(repo, question.env) = 0
          /\ answer'.doctor = Doctor(repo)
      BY <2>2, AnswersOf
    <3>2. Surveyed(repo) /\ Strict(repo) /\ ~repo.checkFaults
      BY <3>1, DecisionsAssumption
    <3>3. TakenFor(repo, question.env, Doctor(repo))
      BY <3>1, <3>2, PassedIs
    <3> QED
      BY <3>1, <3>3 DEF PassedIsSound
  <2> QED
    BY <2>1, <2>2
<1> QED
  BY <1>1, <1>2, QuestionStays, PTL DEF DecisionsSpec
=============================================================================
