---------------------------- MODULE WifiProvision ----------------------------
(***************************************************************************)
(* First-contact Wi-Fi provisioning: provisioning/wifi_provision.py.       *)
(*                                                                         *)
(* The service is one process with a main thread (serve_until_joined), one *)
(* daemon thread per POST of the form (do_POST) and the daemon thread the  *)
(* accepted POST starts (run_join).  They share the JoinTracker and the    *)
(* one-element list `joined`, and all of them drive the single radio       *)
(* through nmcli.  NetworkManager is modelled from the calls the code      *)
(* makes.  systemd restarts the process when it fails, not when it ends.   *)
(*                                                                         *)
(* A request r of Requests stands for one POST that arrives at most once:  *)
(* pc[r] follows the thread that serves it and then the join thread it     *)
(* starts.  A GET changes no state and is left out.  The check of the      *)
(* setup code is one of the reasons of Refuse; its counter is left out.    *)
(***************************************************************************)
EXTENDS Naturals

CONSTANTS
  Requests,    \* the POSTs of a behaviour
  Networks,    \* the networks the form can name
  NoNetwork,   \* no network
  Faults,      \* what may go wrong in this instance, of FaultKinds
  MaxCrashes,  \* bound: how often the process dies by itself
  MaxBoots     \* bound: how often the device is rebooted

FaultKinds == {
  "status",   \* nmcli device status raises NmcliError
  "start",    \* nmcli device wifi hotspot raises NmcliError
  "stop",     \* nmcli connection down raises NmcliError with the AP up
  "bind",     \* the form's port is taken
  "answer",   \* the phone hangs up before the 202 is written
  "file" }    \* last_join.json cannot be written

ASSUME WifiAssumption ==
  /\ NoNetwork \notin Networks
  /\ {"down", "ap"} \cap Networks = {}
  /\ Faults \subseteq FaultKinds
  /\ MaxCrashes \in Nat
  /\ MaxBoots \in Nat

MissedKinds == {
  "refused",  \* nmcli refused the restart of the access point
  "unasked",  \* an attempt failed and no restart was asked for
  "file" }    \* the outcome was not written

\* The last failed attempt has not brought the access point back.
ApMissed == {"refused", "unasked"}

VARIABLES
  \* NetworkManager and the disk: they survive the process
  radio,       \* what is active on the interface: "down", "ap" or a network
  activating,  \* the network NetworkManager is connecting to
  saved,       \* the profiles it keeps and connects to by itself
  lastJoin,    \* last_join.json
  missed,      \* history: what the last try could not do, of MissedKinds
  \* the process
  main,        \* where the main thread is
  expired,     \* the deadline has passed
  tracker,     \* JoinTracker._state
  joined,      \* joined[0]
  pc,          \* where the thread of each request is
  target,      \* the network the request names
  outcome,     \* the JoinResult of its attempt
  \* what was printed last, and the bounds
  verdict,
  crashes,
  boots

network == <<radio, activating, saved>>
threads == <<pc, target, outcome>>
records == <<lastJoin, missed>>
bounds  == <<crashes, boots>>
program == <<records, main, expired, tracker, joined, threads, verdict, bounds>>
vars    == <<network, program>>

-----------------------------------------------------------------------------
MainPc == {"start", "hotspot", "bind", "test_joined", "test_deadline",
           "test_busy", "serve", "close", "stop", "report", "exited", "failed"}

\* The main thread is in the serving loop.
Looping == {"test_joined", "test_deadline", "test_busy", "serve"}

\* The request was accepted by begin() and finish() has not returned.
AttemptPc == {"answer", "stop", "connect", "connecting", "check", "restart",
              "file", "memory"}

RequestPc == {"new", "received", "signal", "done"} \cup AttemptPc

Idle == [state |-> "idle", ssid |-> NoNetwork]

Attempting(r) == pc[r] \in AttemptPc
SnapshotOfTracker(r) == tracker  \* mutant: finish() keeps what begin() set
Snapshot(r)   == [state |-> outcome[r], ssid |-> target[r]]

\* JoinTracker.busy, and the test of begin.
NeverBusy == FALSE  \* mutant: no test
Busy == tracker.state = "joining"

TypeOK ==
  /\ radio \in {"down", "ap"} \cup Networks
  /\ activating \in Networks \cup {NoNetwork}
  /\ saved \in SUBSET Networks
  /\ lastJoin \in [state : {"none", "joined", "failed"},
                   ssid : Networks \cup {NoNetwork}]
  /\ missed \subseteq MissedKinds
  /\ main \in MainPc
  /\ expired \in BOOLEAN
  /\ tracker \in [state : {"idle", "joining", "joined", "failed"},
                  ssid : Networks \cup {NoNetwork}]
  /\ joined \in BOOLEAN
  /\ pc \in [Requests -> RequestPc]
  /\ target \in [Requests -> Networks \cup {NoNetwork}]
  /\ outcome \in [Requests -> {"none", "joined", "failed"}]
  /\ verdict \in {"none", "ALREADY_CONNECTED", "JOINED", "WINDOW_CLOSED"}
  /\ crashes \in 0 .. MaxCrashes
  /\ boots \in 0 .. MaxBoots

Init ==
  /\ radio = "down"
  /\ activating = NoNetwork
  /\ saved = {}
  /\ lastJoin = [state |-> "none", ssid |-> NoNetwork]
  /\ missed = {}
  /\ main = "start"
  /\ expired = FALSE
  /\ tracker = Idle
  /\ joined = FALSE
  /\ pc = [r \in Requests |-> "new"]
  /\ target = [r \in Requests |-> NoNetwork]
  /\ outcome = [r \in Requests |-> "none"]
  /\ verdict = "none"
  /\ crashes = 0
  /\ boots = 0

-----------------------------------------------------------------------------
(* NetworkManager.  nmcli answers for whatever is active on the interface, *)
(* the access point included: its profile is "Hotspot" and the device is   *)
(* "connected".                                                            *)

ActiveConnection == radio # "down"

\* nmcli device wifi hotspot.  Killed by its timeout it raises, and the
\* access point may or may not come up.
HotspotUp   == radio' = "ap" /\ activating' = NoNetwork /\ UNCHANGED saved
HotspotFails ==
  /\ "start" \in Faults
  /\ HotspotUp \/ UNCHANGED network

\* mutant: whatever is active goes down
InterfaceDown == radio' = "down" /\ UNCHANGED <<activating, saved>>

\* nmcli connection down Hotspot.
HotspotDown ==
  /\ \/ radio' = IF radio = "ap" THEN "down" ELSE radio
     \/ "stop" \in Faults /\ UNCHANGED radio
  /\ UNCHANGED <<activating, saved>>

\* An activation that was asked for, by nmcli or by NetworkManager itself,
\* ends: the profile is kept when it worked.
NmActivated ==
  /\ activating # NoNetwork
  /\ radio' = activating
  /\ saved' = saved \cup {activating}
  /\ activating' = NoNetwork
  /\ UNCHANGED program

NmActivationFails ==
  /\ activating # NoNetwork
  /\ activating' = NoNetwork
  /\ UNCHANGED <<radio, saved, program>>

\* NetworkManager tries a profile it keeps whenever the interface is free.
NmAutoconnect ==
  /\ radio = "down"
  /\ activating = NoNetwork
  /\ activating' \in saved
  /\ UNCHANGED <<radio, saved, program>>

\* The device loses the network it is on.
NmDrop ==
  /\ radio \in Networks
  /\ radio' = "down"
  /\ UNCHANGED <<activating, saved, program>>

-----------------------------------------------------------------------------
(* The process ends: its memory is gone and its daemon threads die where   *)
(* they are, also in the middle of an attempt.                             *)

MemoryLost ==
  /\ expired' = FALSE
  /\ tracker' = Idle
  /\ joined' = FALSE
  /\ pc' = [r \in Requests |-> IF pc[r] = "new" THEN "new" ELSE "done"]
  /\ target' = [r \in Requests |-> NoNetwork]
  /\ outcome' = [r \in Requests |-> "none"]

Exit(line) ==
  /\ main' = "exited"
  /\ verdict' = line
  /\ MemoryLost

\* An exception leaves main(): a non-zero exit, which systemd restarts.
Fail ==
  /\ main' = "failed"
  /\ MemoryLost
  /\ UNCHANGED verdict

-----------------------------------------------------------------------------
(* The main thread.                                                        *)

\* ensure_hotspot_if_disconnected: the interface is asked first ...
EnsureCheck ==
  /\ main = "start"
  /\ \/ /\ ActiveConnection
        /\ Exit("ALREADY_CONNECTED")
     \/ /\ ~ActiveConnection
        /\ main' = "hotspot"
        /\ UNCHANGED <<expired, tracker, joined, threads, verdict>>
     \/ /\ "status" \in Faults
        /\ Fail
  /\ UNCHANGED <<network, records, bounds>>

\* ... and the access point is started on what that answer said.
EnsureHotspot ==
  /\ main = "hotspot"
  /\ \/ /\ HotspotUp
        /\ missed' = missed \ ApMissed
        /\ main' = "bind"
        /\ UNCHANGED <<expired, tracker, joined, threads, verdict>>
     \/ /\ HotspotFails
        /\ Fail
        /\ UNCHANGED missed
  /\ UNCHANGED <<lastJoin, bounds>>

\* The form's port is bound and the deadline is set.
BindServer ==
  /\ main = "bind"
  /\ \/ /\ main' = "test_joined"
        /\ UNCHANGED <<expired, tracker, joined, threads, verdict>>
     \/ /\ "bind" \in Faults
        /\ Fail
  /\ UNCHANGED <<network, records, bounds>>

\* The condition of the loop reads joined[0], the clock and busy(), in that
\* order and not in one step.
MainOnly ==
  UNCHANGED <<network, records, expired, tracker, joined, threads, verdict, bounds>>

TestJoined ==
  main = "test_joined" /\ main' = IF joined THEN "close" ELSE "test_deadline"

TestNoDeadline == main = "test_deadline" /\ main' = "serve"  \* mutant
TestDeadline ==
  main = "test_deadline" /\ main' = IF expired THEN "test_busy" ELSE "serve"

TestBusy ==
  /\ main = "test_busy"
  /\ main' = IF Busy THEN "serve" ELSE "close"

\* handle_request: nobody came within POLL_INTERVAL_S ...
PollTimesOut == main = "serve" /\ main' = "test_joined"

\* ... or a POST did, and a thread of its own serves it.
Accept(r) ==
  /\ main = "serve"
  /\ pc[r] = "new"
  /\ main' = "test_joined"
  /\ pc' = [pc EXCEPT ![r] = "received"]
  /\ \E n \in Networks : target' = [target EXCEPT ![r] = n]
  /\ UNCHANGED <<network, records, expired, tracker, joined, outcome,
                 verdict, bounds>>

\* server_close does not wait for daemon threads; joined[0] is read again.
CloseServer ==
  /\ main = "close"
  /\ \/ joined /\ Exit("JOINED")
     \/ /\ ~joined
        /\ main' = "stop"
        /\ UNCHANGED <<expired, tracker, joined, threads, verdict>>
  /\ UNCHANGED <<network, records, bounds>>

StopAtClose ==
  /\ main = "stop"
  /\ main' = "report"
  /\ HotspotDown
  /\ UNCHANGED <<records, expired, tracker, joined, threads, verdict, bounds>>

ReportClosed ==
  /\ main = "report"
  /\ Exit("WINDOW_CLOSED")
  /\ UNCHANGED <<network, records, bounds>>

MainStep ==
  \/ EnsureCheck \/ EnsureHotspot \/ BindServer
  \/ (TestJoined \/ TestDeadline \/ TestBusy \/ PollTimesOut) /\ MainOnly
  \/ \E r \in Requests : Accept(r)
  \/ CloseServer \/ StopAtClose \/ ReportClosed

-----------------------------------------------------------------------------
(* The thread of a request, and the join thread it starts.                 *)

Goto(r, label) ==
  /\ pc' = [pc EXCEPT ![r] = label]
  /\ UNCHANGED <<main, expired, joined, verdict, bounds>>

Ends(r) ==
  /\ Goto(r, "done")
  /\ target' = [target EXCEPT ![r] = NoNetwork]
  /\ outcome' = [outcome EXCEPT ![r] = "none"]

\* Another path, a body too large, a wrong code, no network name.
Refuse(r) ==
  /\ pc[r] = "received"
  /\ Ends(r)
  /\ UNCHANGED <<network, records, tracker>>

\* JoinTracker.begin, under its lock: 409 while an attempt runs.
Begin(r) ==
  /\ pc[r] = "received"
  /\ \/ /\ Busy
        /\ Ends(r)
        /\ UNCHANGED tracker
     \/ /\ ~Busy
        /\ tracker' = [state |-> "joining", ssid |-> target[r]]
        /\ Goto(r, "answer")
        /\ UNCHANGED <<target, outcome>>
  /\ UNCHANGED <<network, records>>

\* The 202 is written and the join thread is started, unless the write
\* raises: only the flush after it is guarded.
Answer(r) ==
  /\ pc[r] = "answer"
  /\ \/ Goto(r, "stop") /\ UNCHANGED <<target, outcome>>
     \/ "answer" \in Faults /\ Ends(r)
  /\ UNCHANGED <<network, records, tracker>>

\* attempt_join: the access point goes down; a failure is ignored ...
StopForJoin(r) ==
  /\ pc[r] = "stop"
  /\ Goto(r, "connect")
  /\ HotspotDown
  /\ UNCHANGED <<records, tracker, target, outcome>>

\* ... NetworkManager is told to connect, which frees the radio ...
ConnectStart(r) ==
  /\ pc[r] = "connect"
  /\ Goto(r, "connecting")
  /\ radio' = "down"
  /\ activating' = target[r]
  /\ UNCHANGED <<saved, records, tracker, target, outcome>>

\* ... and nmcli returns when the device is connected, or raises: the
\* activation failed, or NMCLI_TIMEOUT_S is over and nmcli is killed while
\* NetworkManager is still at it.
ConnectReturns(r) ==
  /\ pc[r] = "connecting"
  /\ activating # target[r]
  /\ radio = target[r]
  /\ Goto(r, "check")
  /\ UNCHANGED <<network, records, tracker, target, outcome>>

\* Mutant: a failed connect is reported without restarting the hotspot.
ConnectRaisesSilently(r) ==
  /\ pc[r] = "connecting"
  /\ Goto(r, "file")
  /\ outcome' = [outcome EXCEPT ![r] = "failed"]
  /\ UNCHANGED <<network, records, tracker, target>>

ConnectRaises(r) ==
  /\ pc[r] = "connecting"
  /\ Goto(r, "restart")
  /\ UNCHANGED <<network, records, tracker, target, outcome>>

\* The second look.  An NmcliError of this call is not caught by
\* attempt_join: run_join turns it into a failed result, and nobody asks for
\* the access point.
CheckActive(r) ==
  /\ pc[r] = "check"
  /\ \/ /\ ActiveConnection
        /\ Goto(r, "file")
        /\ outcome' = [outcome EXCEPT ![r] = "joined"]
        /\ UNCHANGED missed
     \/ /\ ~ActiveConnection
        /\ Goto(r, "restart")
        /\ UNCHANGED <<outcome, missed>>
     \/ /\ "status" \in Faults
        /\ Goto(r, "file")
        /\ outcome' = [outcome EXCEPT ![r] = "failed"]
        /\ missed' = (missed \ ApMissed) \cup {"unasked"}
  /\ UNCHANGED <<network, lastJoin, tracker, target>>

\* _restart_hotspot_best_effort: a failure is ignored.
RestartHotspot(r) ==
  /\ pc[r] = "restart"
  /\ \/ HotspotUp /\ missed' = missed \ ApMissed
     \/ HotspotFails /\ missed' = (missed \ ApMissed) \cup {"refused"}
  /\ Goto(r, "file")
  /\ outcome' = [outcome EXCEPT ![r] = "failed"]
  /\ UNCHANGED <<lastJoin, tracker, target>>

\* Mutant: only a success is written.
WriteJoinedOnly(r) ==
  lastJoin' = IF outcome[r] = "joined" THEN Snapshot(r) ELSE lastJoin

WriteLastJoin(r) == lastJoin' = Snapshot(r)

\* JoinTracker.finish: the file first; an OSError is ignored ...
FinishFile(r) ==
  /\ pc[r] = "file"
  /\ Goto(r, "memory")
  /\ \/ WriteLastJoin(r) /\ missed' = missed \ {"file"}
     \/ "file" \in Faults /\ missed' = missed \cup {"file"} /\ UNCHANGED lastJoin
  /\ UNCHANGED <<network, tracker, target, outcome>>

\* ... then the state, under the lock.
FinishMemory(r) ==
  /\ pc[r] = "memory"
  /\ tracker' = Snapshot(r)
  /\ IF outcome[r] = "joined"
       THEN Goto(r, "signal") /\ UNCHANGED <<target, outcome>>
       ELSE Ends(r)
  /\ UNCHANGED <<network, records>>

\* on_joined[0] = True, after finish() and not in one step with it.
Signal(r) ==
  /\ pc[r] = "signal"
  /\ joined' = TRUE
  /\ pc' = [pc EXCEPT ![r] = "done"]
  /\ target' = [target EXCEPT ![r] = NoNetwork]
  /\ outcome' = [outcome EXCEPT ![r] = "none"]
  /\ UNCHANGED <<network, records, main, expired, tracker, verdict, bounds>>

RequestStep(r) ==
  \/ Refuse(r) \/ Begin(r) \/ Answer(r)
  \/ StopForJoin(r) \/ ConnectStart(r) \/ ConnectReturns(r) \/ ConnectRaises(r)
  \/ CheckActive(r) \/ RestartHotspot(r)
  \/ FinishFile(r) \/ FinishMemory(r) \/ Signal(r)

-----------------------------------------------------------------------------
(* Time, systemd, the power switch.                                        *)

WindowEnds ==
  /\ main \in Looping
  /\ ~expired
  /\ expired' = TRUE
  /\ UNCHANGED <<network, records, main, tracker, joined, threads, verdict,
                 bounds>>

\* The process is killed or dies of an exception.
Crash ==
  /\ main \notin {"exited", "failed"}
  /\ crashes < MaxCrashes
  /\ crashes' = crashes + 1
  /\ Fail
  /\ UNCHANGED <<network, records, boots>>

\* Restart=on-failure.
ServiceRestarts ==
  /\ main = "failed"
  /\ main' = "start"
  /\ MainOnly

\* A boot starts the service again; the access point's profile is not one
\* NetworkManager connects by itself.
Reboot ==
  /\ boots < MaxBoots
  /\ boots' = boots + 1
  /\ radio' = "down"
  /\ activating' = NoNetwork
  /\ main' = "start"
  /\ verdict' = "none"
  /\ MemoryLost
  /\ UNCHANGED <<saved, records, crashes>>

\* The service has ended; nothing is left to do until the next boot.
Ended == main = "exited" /\ UNCHANGED vars

Next ==
  \/ MainStep
  \/ \E r \in Requests : RequestStep(r)
  \/ NmActivated \/ NmActivationFails \/ NmAutoconnect \/ NmDrop
  \/ WindowEnds \/ Crash \/ ServiceRestarts \/ Reboot
  \/ Ended

\* Threads are scheduled, systemd restarts what failed and an activation
\* ends.  No fairness for the phone, for what NetworkManager does by itself or
\* for failures; the clock is fair where a property is about the window.
ThreadFairness ==
  /\ WF_vars(MainStep)
  /\ \A r \in Requests : WF_vars(RequestStep(r))
  /\ WF_vars(NmActivated \/ NmActivationFails)
  /\ WF_vars(ServiceRestarts)

Spec       == Init /\ [][Next]_vars
FairSpec   == Spec /\ ThreadFairness
WindowSpec == FairSpec /\ WF_vars(WindowEnds)

-----------------------------------------------------------------------------
(* Properties.                                                             *)

\* One attempt runs at a time: between begin() and the end of finish() there
\* is never a second thread, whichever way handlers, join threads and the
\* main loop interleave (JoinTracker: "the one join attempt that may run at
\* a time").
AtMostOneAttempt ==
  \A r, s \in Requests : Attempting(r) /\ Attempting(s) => r = s

\* Whoever sees an outcome in memory finds the same outcome in
\* last_join.json (the comment in JoinTracker.finish), unless that outcome
\* could not be written.
FileBeforeMemory ==
  "file" \notin missed /\ tracker.state \in {"joined", "failed"}
    => lastJoin = tracker

\* While the form is served and no attempt runs or has worked, the access
\* point is up: a failed attempt leaves the operator a way back in
\* (attempt_join), with two exceptions, each of the last failed attempt:
\* nmcli refused the restart, or the second look raised and the code asked
\* for none.  The next restart that works ends either.
ReachableWhenServing ==
  /\ missed \cap ApMissed = {}
  /\ main \in Looping
  /\ tracker.state \in {"idle", "failed"}
  => radio = "ap"

\* Once an attempt has worked, no thread of the service takes the device off
\* that network until another attempt is accepted: not the restart of the
\* access point, and not the closing of the window, which may well come
\* between finish() and joined[0] = True.
JoinedIsKept ==
  [][tracker.state = "joined" /\ radio \in Networks /\ radio' # radio
       => NmDrop \/ Reboot]_vars

\* An accepted attempt comes to an end, so that the form opens again ("the
\* state must leave joining or the form stays locked", run_join).
AttemptEnds == tracker.state = "joining" ~> tracker.state # "joining"

\* The service does not run for ever, whatever is submitted before or after
\* the window has passed and however the attempts end.
ServiceEnds == <>[](main = "exited")

(* The inductive invariant behind the safety properties.                   *)

\* Before the loop and after the end nothing of an earlier run is left.
FreshOutsideLoop ==
  main \in {"start", "hotspot", "bind", "exited", "failed"}
    => /\ tracker = Idle
       /\ \A r \in Requests : pc[r] \in {"new", "done"}

\* The thread between begin() and finish() is the one the tracker names.
TrackerNamesAttempt ==
  \A r \in Requests :
    Attempting(r) => tracker = [state |-> "joining", ssid |-> target[r]]

\* What finish() is about to publish: a decided outcome, in the file first.
OutcomeDecided ==
  \A r \in Requests :
    /\ pc[r] \in {"file", "memory"} => outcome[r] \in {"joined", "failed"}
    /\ "file" \notin missed /\ pc[r] = "memory" => lastJoin = Snapshot(r)

\* The radio is free while an activation runs.
OneRadio == activating # NoNetwork => radio = "down"

\* The access point is up when the loop starts and when a failure is about
\* to be published.
HotspotRestored ==
  missed \cap ApMissed = {}
    => /\ main = "bind" => radio = "ap"
       /\ main \in Looping =>
            \A r \in Requests :
              pc[r] \in {"file", "memory"} /\ outcome[r] = "failed"
                => radio = "ap"

\* Joining is safe in every reachable state, and every step keeps it so.
IInv ==
  /\ TypeOK
  /\ FreshOutsideLoop
  /\ AtMostOneAttempt
  /\ TrackerNamesAttempt
  /\ OutcomeDecided
  /\ FileBeforeMemory
  /\ OneRadio
  /\ HotspotRestored
  /\ ReachableWhenServing

(* What the comments of the code say and the code does not do. *)

\* "an attempt that is running is waited for even after the window: closing
\* the setup network under it would undo it" (serve_until_joined): the
\* window is never closed under an attempt.
RunningAttemptIsWaitedFor ==
  main \in {"stop", "report"} => tracker.state # "joining"

\* It "re-raises the hotspot ONLY on failure, so an operator [...] can retry
\* instead of the device being stranded with no way back in" (attempt_join):
\* only a restart that nmcli refuses leaves the form without its access
\* point.
WayBackInUnlessRefused ==
  /\ "refused" \notin missed
  /\ main \in Looping
  /\ tracker.state \in {"idle", "failed"}
  => radio = "ap"

\* "Never re-raises it on success - that would undo the very connection this
\* call just made" (attempt_join): after an attempt has worked, the service
\* does not take the device off its network.
JoinedIsNeverUndone ==
  [][main # "start" /\ lastJoin.state = "joined" /\ radio \in Networks
       /\ radio' # radio => NmDrop \/ Reboot]_vars

=============================================================================
