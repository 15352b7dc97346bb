-------------------------------- MODULE Agent --------------------------------
(***************************************************************************)
(* hydra_umc_os/agent.py serve: the agents of one node at one socket path, *)
(* and, in one of them, the loop that writes reports to the journal        *)
(* (ReportGate) beside the thread that answers clients from a cached       *)
(* report (LocalSocketServer).                                             *)
(*                                                                         *)
(* An agent may be stopped (close runs) or killed (it does not) anywhere.  *)
(* Time passes in ticks; instants are kept as ages, which stop growing     *)
(* where the code no longer tells them apart.                              *)
(***************************************************************************)
EXTENDS AgentChecks

CONSTANTS Agents,        \* processes that may serve
          Reporter,      \* the one whose reports are followed
          Checks,        \* the checks of a report
          Words,         \* what a check may find
          CacheSeconds,  \* ticks a cached report is reused
          Heartbeat,     \* ticks without a written report
          Nothing        \* not yet

ASSUME AgentAssumption ==
  /\ Reporter \in Agents
  /\ {"none", "dead"} \cap Agents = {}
  /\ Words \subseteq {"PASS", "WARN", "FAIL"}
  /\ CacheSeconds \in Nat \ {0} /\ Heartbeat \in Nat \ {0}

VARIABLES
  pc,       \* where each agent is
  path,     \* whose socket the path names: an agent's, a "dead" one, "none"
  overlap,  \* two agents started or closed at the same time (history)
  machine,  \* what each check would find now
  report,   \* the loop: what it read and what it does with it
  gate,     \* ReportGate: the signature and the age of the last written one
  journal,  \* the signature of the last report in the journal (history)
  thread,   \* the answer being computed: age of its clock and of what it saw
  cached,   \* _cached: age of its clock and of what it saw
  answered  \* the age of what the last answer saw, and how it was made

sockets == <<pc, path, overlap>>
loop == <<report, gate, journal>>
answers == <<thread, cached, answered>>
vars == <<sockets, machine, loop, answers>>

Starting == {"lstat", "connect", "unlink", "bind", "chmod", "listen"}
Findings == [Checks -> Words]

Capped(age, limit) == IF age < limit THEN age + 1 ELSE limit
Signature(found) == <<Overall({found[c] : c \in Checks}), found>>

FreshLoop ==
  /\ report' = [step |-> "read", found |-> Nothing]
  /\ gate' = [signature |-> Nothing, age |-> Heartbeat]
  /\ journal' = Nothing
FreshAnswers ==
  /\ thread' = Nothing /\ cached' = Nothing
  /\ answered' = [saw |-> 0, own |-> TRUE]

Init ==
  /\ pc = [a \in Agents |-> "down"] /\ path = "none" /\ overlap = FALSE
  /\ machine \in Findings
  /\ report = [step |-> "read", found |-> Nothing]
  /\ gate = [signature |-> Nothing, age |-> Heartbeat]
  /\ journal = Nothing
  /\ thread = Nothing /\ cached = Nothing
  /\ answered = [saw |-> 0, own |-> TRUE]

-----------------------------------------------------------------------------
(* LocalSocketServer.start: _free_the_path, then bind, chmod and listen    *)

Goto(a, place) == pc' = [pc EXCEPT ![a] = place]

(* A process ends: its memory goes, and a socket it leaves behind is dead. *)
Ends(a) ==
  /\ Goto(a, "down")
  /\ IF a = Reporter THEN FreshLoop /\ FreshAnswers
     ELSE UNCHANGED <<loop, answers>>

Between(a) == pc[a] \in Starting \cup {"close"}
Alone(a) == \A b \in Agents \ {a} : ~Between(b)

Start(a) ==
  /\ pc[a] = "down"
  /\ Goto(a, "lstat")
  /\ overlap' = (overlap \/ ~Alone(a))
  /\ UNCHANGED <<path, machine, loop, answers>>

Lstat(a) ==
  /\ pc[a] = "lstat"
  /\ Goto(a, IF path = "none" THEN "bind" ELSE "connect")
  /\ UNCHANGED <<path, overlap, machine, loop, answers>>

Listens(b) == b \in Agents /\ pc[b] = "serve"

(* Mutant: a socket is a leftover, whoever listens. *)
ConnectAnyway(a) ==
  /\ pc[a] = "connect"
  /\ Goto(a, "unlink")
  /\ UNCHANGED <<path, overlap, machine, loop, answers>>

(* Somebody answers: the agent refuses to start.                           *)
Connect(a) ==
  /\ pc[a] = "connect"
  /\ IF Listens(path) THEN Ends(a)
     ELSE Goto(a, "unlink") /\ UNCHANGED <<loop, answers>>
  /\ UNCHANGED <<path, overlap, machine>>

Unlink(a) ==
  /\ pc[a] = "unlink"
  /\ path' = "none"
  /\ IF path = "none" THEN Ends(a)
     ELSE Goto(a, "bind") /\ UNCHANGED <<loop, answers>>
  /\ UNCHANGED <<overlap, machine>>

Bind(a) ==
  /\ pc[a] = "bind"
  /\ IF path = "none"
     THEN path' = a /\ Goto(a, "chmod") /\ UNCHANGED <<loop, answers>>
     ELSE UNCHANGED path /\ Ends(a)
  /\ UNCHANGED <<overlap, machine>>

(* chmod and listen do not look whose socket the path names; without a     *)
(* file chmod raises.                                                      *)
Chmod(a) ==
  /\ pc[a] = "chmod"
  /\ IF path = "none" THEN Ends(a)
     ELSE Goto(a, "listen") /\ UNCHANGED <<loop, answers>>
  /\ UNCHANGED <<path, overlap, machine>>

Listen(a) ==
  /\ pc[a] = "listen"
  /\ Goto(a, "serve")
  /\ UNCHANGED <<path, overlap, machine, loop, answers>>

(* close: the socket is closed, then whatever is at the path is unlinked.  *)
Close(a) ==
  /\ pc[a] = "serve"
  /\ Goto(a, "close")
  /\ overlap' = (overlap \/ ~Alone(a))
  /\ UNCHANGED <<path, machine, loop, answers>>

CloseUnlink(a) ==
  /\ pc[a] = "close"
  /\ path' = "none"
  /\ Ends(a)
  /\ UNCHANGED <<overlap, machine>>

Kill(a) ==
  /\ pc[a] # "down"
  /\ path' = IF path = a THEN "dead" ELSE path
  /\ Ends(a)
  /\ UNCHANGED <<overlap, machine>>

-----------------------------------------------------------------------------
(* The loop of serve, and ReportGate                                       *)

Serving == pc[Reporter] = "serve"
At(step) == Serving /\ report.step = step

ReadHealth ==
  /\ At("read")
  /\ report' = [step |-> "judge", found |-> machine]
  /\ UNCHANGED <<sockets, machine, gate, journal, answers>>

(* Mutant: only the state of the whole report counts as a change. *)
ChangedState(found) ==
  \/ gate.signature = Nothing
  \/ Overall({found[c] : c \in Checks}) # gate.signature[1]

Changed(found) == gate.signature # Signature(found)

(* should_emit and emit.                                                   *)
ShouldEmit ==
  /\ At("judge")
  /\ report' = [report EXCEPT !.step = "sleep"]
  /\ IF Changed(report.found) \/ gate.age >= Heartbeat
     THEN /\ gate' = [signature |-> Signature(report.found), age |-> 0]
          /\ journal' = Signature(report.found)
     ELSE UNCHANGED <<gate, journal>>
  /\ UNCHANGED <<sockets, machine, answers>>

Sleep ==
  /\ At("sleep")
  /\ report' = [report EXCEPT !.step = "read"]
  /\ UNCHANGED <<sockets, machine, gate, journal, answers>>

-----------------------------------------------------------------------------
(* The thread: answer, one client at a time                                *)

ClientReaches == path = Reporter /\ Serving /\ thread = Nothing

Fresh == cached # Nothing /\ cached.age < CacheSeconds

(* A client gets the cached report.                                        *)
AnswerCached ==
  /\ ClientReaches /\ Fresh
  /\ answered' = [saw |-> cached.saw, own |-> FALSE]
  /\ UNCHANGED <<sockets, machine, loop, thread, cached>>

(* The clock is read, then health looks at the machine.                    *)
AnswerStarts ==
  /\ ClientReaches /\ ~Fresh
  /\ thread' = [age |-> 0, saw |-> 0, looked |-> FALSE]
  /\ UNCHANGED <<sockets, machine, loop, cached, answered>>

AnswerLooks ==
  /\ Serving /\ thread # Nothing
  /\ ~thread.looked
  /\ thread' = [thread EXCEPT !.saw = 0, !.looked = TRUE]
  /\ UNCHANGED <<sockets, machine, loop, cached, answered>>

(* Mutant: the report is stamped when it is ready. *)
StampLate == [thread EXCEPT !.age = 0]

Stamp == thread

AnswerComputed ==
  /\ Serving /\ thread # Nothing
  /\ thread.looked
  /\ cached' = Stamp
  /\ answered' = [saw |-> thread.saw, own |-> TRUE]
  /\ thread' = Nothing
  /\ UNCHANGED <<sockets, machine, loop>>

-----------------------------------------------------------------------------
(* The world *)

MachineChanges ==
  /\ machine' \in Findings \ {machine}
  /\ UNCHANGED <<sockets, loop, answers>>

Older(stamped) ==
  IF stamped = Nothing THEN Nothing
  ELSE [stamped EXCEPT !.age = Capped(@, CacheSeconds),
                       !.saw = IF stamped.looked THEN Capped(@, CacheSeconds)
                               ELSE 0]

Tick ==
  /\ Serving
  /\ gate' = [gate EXCEPT !.age = Capped(@, Heartbeat)]
  /\ thread' = Older(thread) /\ cached' = Older(cached)
  /\ UNCHANGED <<sockets, machine, report, journal, answered>>

Next ==
  \/ \E a \in Agents :
       \/ Start(a) \/ Lstat(a) \/ Connect(a) \/ Unlink(a) \/ Bind(a)
       \/ Chmod(a) \/ Listen(a) \/ Close(a) \/ CloseUnlink(a) \/ Kill(a)
  \/ ReadHealth \/ ShouldEmit \/ Sleep
  \/ AnswerCached \/ AnswerStarts \/ AnswerLooks \/ AnswerComputed
  \/ MachineChanges \/ Tick

Spec == Init /\ [][Next]_vars

-----------------------------------------------------------------------------
(* Safety *)

(* An agent that serves can be reached at the path: no other agent that    *)
(* starts, fails to start, closes or dies takes its socket away, as long   *)
(* as no two of them start or close at the same time (agent.py             *)
(* _free_the_path, start, close).                                          *)
ServingIsReachable == \A a \in Agents : (pc[a] = "serve" /\ ~overlap) => path = a

(* The journal tells what the node is: after every turn of the loop its    *)
(* last line has the states of every check that the loop has just read     *)
(* (agent.py ReportGate.should_emit).                                      *)
JournalIsCurrent == At("sleep") => journal = Signature(report.found)

(* A client never gets a report that saw the machine cache_seconds ago or  *)
(* earlier, unless it was computed for it: however long health takes, the  *)
(* time it takes counts (agent.py answer).                                 *)
AnswersAreFresh == answered.own \/ answered.saw < CacheSeconds
=============================================================================
