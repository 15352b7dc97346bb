-------------------------- MODULE WifiProvisionProofs --------------------------
(***************************************************************************)
(* The safety properties of WifiProvision, for every set of requests and   *)
(* networks, every set of faults and every bound on crashes and boots.     *)
(*                                                                         *)
(* IInv is inductive.  TypeOK is preserved first: it needs OutcomeDecided, *)
(* because finish() copies the outcome of the attempt into the tracker,    *)
(* whose type has no "none".  The other conjuncts follow in one step per   *)
(* action.                                                                 *)
(***************************************************************************)
EXTENDS WifiProvision, TLAPS

\* The memory of a process that has just ended has the type it started with.
LEMMA MemoryLostType ==
  ASSUME TypeOK, MemoryLost
  PROVE  /\ expired' \in BOOLEAN
         /\ tracker' \in [state : {"idle", "joining", "joined", "failed"},
                          ssid : Networks \cup {NoNetwork}]
         /\ joined' \in BOOLEAN
         /\ pc' \in [Requests -> RequestPc]
         /\ target' \in [Requests -> Networks \cup {NoNetwork}]
         /\ outcome' \in [Requests -> {"none", "joined", "failed"}]
  BY DEF TypeOK, MemoryLost, Idle, RequestPc

\* The initial state satisfies the invariant: nothing runs yet.
LEMMA InitIInv == Init => IInv
<1> SUFFICES ASSUME Init
             PROVE  IInv
  OBVIOUS
<1> USE WifiAssumption DEF Init
<1>1. TypeOK
  <2>1. /\ lastJoin \in [state : {"none", "joined", "failed"},
                          ssid : Networks \cup {NoNetwork}]
        /\ tracker \in [state : {"idle", "joining", "joined", "failed"},
                         ssid : Networks \cup {NoNetwork}]
    BY DEF Idle
  <2>2. /\ pc \in [Requests -> RequestPc]
        /\ target \in [Requests -> Networks \cup {NoNetwork}]
        /\ outcome \in [Requests -> {"none", "joined", "failed"}]
    BY DEF RequestPc
  <2>3. /\ crashes \in 0 .. MaxCrashes
        /\ boots \in 0 .. MaxBoots
    OBVIOUS
  <2> QED
    BY <2>1, <2>2, <2>3 DEF TypeOK, MainPc
<1>2. FreshOutsideLoop /\ AtMostOneAttempt /\ TrackerNamesAttempt
  BY DEF FreshOutsideLoop, AtMostOneAttempt, TrackerNamesAttempt, Attempting,
     AttemptPc
<1>3. OutcomeDecided /\ FileBeforeMemory /\ OneRadio
  BY DEF OutcomeDecided, FileBeforeMemory, OneRadio, Idle
<1>4. HotspotRestored /\ ReachableWhenServing
  BY DEF HotspotRestored, ReachableWhenServing, Looping
<1> QED
  BY <1>1, <1>2, <1>3, <1>4 DEF IInv

\* Every step preserves the types.
LEMMA TypeStep ==
  ASSUME TypeOK, OutcomeDecided, [Next]_vars
  PROVE  TypeOK'
<1> USE WifiAssumption DEF network, threads, bounds, records, program,
       TypeOK, OutcomeDecided, MissedKinds, ApMissed, MainPc, Looping, RequestPc,
       AttemptPc
<1>1. ASSUME EnsureCheck
      PROVE  TypeOK'
  BY <1>1, MemoryLostType DEF EnsureCheck, Exit, Fail, ActiveConnection
<1>2. ASSUME EnsureHotspot
      PROVE  TypeOK'
  BY <1>2, MemoryLostType DEF EnsureHotspot, HotspotUp, HotspotFails, Fail
<1>3. ASSUME BindServer
      PROVE  TypeOK'
  BY <1>3, MemoryLostType DEF BindServer, Fail
<1>4. ASSUME TestJoined, MainOnly
      PROVE  TypeOK'
  BY <1>4 DEF TestJoined, MainOnly
<1>5. ASSUME TestDeadline, MainOnly
      PROVE  TypeOK'
  BY <1>5 DEF TestDeadline, MainOnly
<1>6. ASSUME TestBusy, MainOnly
      PROVE  TypeOK'
  BY <1>6 DEF TestBusy, MainOnly
<1>7. ASSUME PollTimesOut, MainOnly
      PROVE  TypeOK'
  BY <1>7 DEF PollTimesOut, MainOnly
<1>8. ASSUME CloseServer
      PROVE  TypeOK'
  BY <1>8, MemoryLostType DEF CloseServer, Exit
<1>9. ASSUME StopAtClose
      PROVE  TypeOK'
  BY <1>9 DEF StopAtClose, HotspotDown
<1>10. ASSUME ReportClosed
      PROVE  TypeOK'
  BY <1>10, MemoryLostType DEF ReportClosed, Exit
<1>11. ASSUME NEW r \in Requests, Accept(r)
      PROVE  TypeOK'
  BY <1>11 DEF Accept
<1>12. ASSUME NEW r \in Requests, Refuse(r)
      PROVE  TypeOK'
  BY <1>12 DEF Refuse, Ends, Goto
<1>13. ASSUME NEW r \in Requests, Begin(r)
      PROVE  TypeOK'
  BY <1>13 DEF Begin, Busy, Ends, Goto
<1>14. ASSUME NEW r \in Requests, Answer(r)
      PROVE  TypeOK'
  BY <1>14 DEF Answer, Ends, Goto
<1>15. ASSUME NEW r \in Requests, StopForJoin(r)
      PROVE  TypeOK'
  BY <1>15 DEF StopForJoin, HotspotDown, Goto
<1>16. ASSUME NEW r \in Requests, ConnectStart(r)
      PROVE  TypeOK'
  BY <1>16 DEF ConnectStart, Goto
<1>17. ASSUME NEW r \in Requests, ConnectReturns(r)
      PROVE  TypeOK'
  BY <1>17 DEF ConnectReturns, Goto
<1>18. ASSUME NEW r \in Requests, ConnectRaises(r)
      PROVE  TypeOK'
  BY <1>18 DEF ConnectRaises, Goto
<1>19. ASSUME NEW r \in Requests, CheckActive(r)
      PROVE  TypeOK'
  <2>1. missed' \subseteq MissedKinds
    BY <1>19, ZenonT(20) DEF CheckActive
  <2> QED
    BY <2>1, <1>19 DEF CheckActive, Goto, ActiveConnection
<1>20. ASSUME NEW r \in Requests, RestartHotspot(r)
      PROVE  TypeOK'
  <2>1. missed' \subseteq MissedKinds
    BY <1>20, ZenonT(20) DEF RestartHotspot
  <2> QED
    BY <2>1, <1>20 DEF RestartHotspot, HotspotUp, HotspotFails, Goto
<1>21. ASSUME NEW r \in Requests, FinishFile(r)
      PROVE  TypeOK'
  <2>1. missed' \subseteq MissedKinds
    BY <1>21, ZenonT(20) DEF FinishFile
  <2> QED
    BY <2>1, <1>21 DEF FinishFile, WriteLastJoin, Goto, Snapshot
<1>22. ASSUME NEW r \in Requests, FinishMemory(r)
      PROVE  TypeOK'
  BY <1>22 DEF FinishMemory, Ends, Goto, Snapshot
<1>23. ASSUME NEW r \in Requests, Signal(r)
      PROVE  TypeOK'
  BY <1>23 DEF Signal
<1>24. ASSUME NmActivated
      PROVE  TypeOK'
  BY <1>24 DEF NmActivated
<1>25. ASSUME NmActivationFails
      PROVE  TypeOK'
  BY <1>25 DEF NmActivationFails
<1>26. ASSUME NmAutoconnect
      PROVE  TypeOK'
  BY <1>26 DEF NmAutoconnect
<1>27. ASSUME NmDrop
      PROVE  TypeOK'
  BY <1>27 DEF NmDrop
<1>28. ASSUME WindowEnds
      PROVE  TypeOK'
  BY <1>28 DEF WindowEnds
<1>29. ASSUME Crash
      PROVE  TypeOK'
  BY <1>29, MemoryLostType DEF Crash, Fail
<1>30. ASSUME ServiceRestarts
      PROVE  TypeOK'
  BY <1>30 DEF ServiceRestarts, MainOnly
<1>31. ASSUME Reboot
      PROVE  TypeOK'
  BY <1>31, MemoryLostType DEF Reboot
<1>32. ASSUME Ended
      PROVE  TypeOK'
  BY <1>32 DEF Ended, vars
<1>33. CASE UNCHANGED vars
  BY <1>33 DEF vars
<1> QED
  BY <1>1, <1>2, <1>3, <1>4, <1>5, <1>6, <1>7, <1>8, <1>9, <1>10, <1>11,
     <1>12, <1>13, <1>14, <1>15, <1>16, <1>17, <1>18, <1>19, <1>20, <1>21,
     <1>22, <1>23, <1>24, <1>25, <1>26, <1>27, <1>28, <1>29, <1>30, <1>31,
     <1>32, <1>33
     DEF Next, MainStep, RequestStep

\* Every step preserves the rest, given the types.
LEMMA SafetyStep ==
  ASSUME IInv, TypeOK', [Next]_vars
  PROVE  IInv'
<1> USE DEF network, threads, bounds, records, program,
       IInv, TypeOK, FreshOutsideLoop,
       AtMostOneAttempt, TrackerNamesAttempt, OutcomeDecided, FileBeforeMemory,
       OneRadio, HotspotRestored, ReachableWhenServing, Attempting, Snapshot,
       Looping, RequestPc, AttemptPc, Idle, ApMissed
<1>1. ASSUME EnsureCheck
      PROVE  IInv'
  BY <1>1 DEF EnsureCheck, Exit, Fail, ActiveConnection, MemoryLost
<1>2. ASSUME EnsureHotspot
      PROVE  IInv'
  BY <1>2 DEF EnsureHotspot, HotspotUp, HotspotFails, Fail, MemoryLost
<1>3. ASSUME BindServer
      PROVE  IInv'
  BY <1>3 DEF BindServer, Fail, MemoryLost
<1>4. ASSUME TestJoined, MainOnly
      PROVE  IInv'
  BY <1>4 DEF TestJoined, MainOnly
<1>5. ASSUME TestDeadline, MainOnly
      PROVE  IInv'
  BY <1>5 DEF TestDeadline, MainOnly
<1>6. ASSUME TestBusy, MainOnly
      PROVE  IInv'
  BY <1>6 DEF TestBusy, MainOnly
<1>7. ASSUME PollTimesOut, MainOnly
      PROVE  IInv'
  BY <1>7 DEF PollTimesOut, MainOnly
<1>8. ASSUME CloseServer
      PROVE  IInv'
  BY <1>8 DEF CloseServer, Exit, MemoryLost
<1>9. ASSUME StopAtClose
      PROVE  IInv'
  BY <1>9 DEF StopAtClose, HotspotDown
<1>10. ASSUME ReportClosed
      PROVE  IInv'
  BY <1>10 DEF ReportClosed, Exit, MemoryLost
<1>11. ASSUME NEW r \in Requests, Accept(r)
      PROVE  IInv'
  BY <1>11 DEF Accept
<1>12. ASSUME NEW r \in Requests, Refuse(r)
      PROVE  IInv'
  BY <1>12 DEF Refuse, Ends, Goto
<1>13. ASSUME NEW r \in Requests, Begin(r)
      PROVE  IInv'
  BY <1>13 DEF Begin, Busy, Ends, Goto
<1>14. ASSUME NEW r \in Requests, Answer(r)
      PROVE  IInv'
  BY <1>14 DEF Answer, Ends, Goto
<1>15. ASSUME NEW r \in Requests, StopForJoin(r)
      PROVE  IInv'
  BY <1>15 DEF StopForJoin, HotspotDown, Goto
<1>16. ASSUME NEW r \in Requests, ConnectStart(r)
      PROVE  IInv'
  BY <1>16 DEF ConnectStart, Goto
<1>17. ASSUME NEW r \in Requests, ConnectReturns(r)
      PROVE  IInv'
  BY <1>17 DEF ConnectReturns, Goto
<1>18. ASSUME NEW r \in Requests, ConnectRaises(r)
      PROVE  IInv'
  BY <1>18 DEF ConnectRaises, Goto
<1>19. ASSUME NEW r \in Requests, CheckActive(r)
      PROVE  IInv'
  BY <1>19 DEF CheckActive, Goto, ActiveConnection
<1>20. ASSUME NEW r \in Requests, RestartHotspot(r)
      PROVE  IInv'
  BY <1>20 DEF RestartHotspot, HotspotUp, HotspotFails, Goto
<1>21. ASSUME NEW r \in Requests, FinishFile(r)
      PROVE  IInv'
  BY <1>21 DEF FinishFile, WriteLastJoin, Goto, Snapshot
<1>22. ASSUME NEW r \in Requests, FinishMemory(r)
      PROVE  IInv'
  BY <1>22 DEF FinishMemory, Ends, Goto, Snapshot
<1>23. ASSUME NEW r \in Requests, Signal(r)
      PROVE  IInv'
  BY <1>23 DEF Signal
<1>24. ASSUME NmActivated
      PROVE  IInv'
  BY <1>24 DEF NmActivated
<1>25. ASSUME NmActivationFails
      PROVE  IInv'
  BY <1>25 DEF NmActivationFails
<1>26. ASSUME NmAutoconnect
      PROVE  IInv'
  BY <1>26 DEF NmAutoconnect
<1>27. ASSUME NmDrop
      PROVE  IInv'
  BY <1>27, WifiAssumption DEF NmDrop
<1>28. ASSUME WindowEnds
      PROVE  IInv'
  BY <1>28 DEF WindowEnds
<1>29. ASSUME Crash
      PROVE  IInv'
  BY <1>29 DEF Crash, Fail, MemoryLost
<1>30. ASSUME ServiceRestarts
      PROVE  IInv'
  BY <1>30 DEF ServiceRestarts, MainOnly
<1>31. ASSUME Reboot
      PROVE  IInv'
  BY <1>31 DEF Reboot, MemoryLost
<1>32. ASSUME Ended
      PROVE  IInv'
  BY <1>32 DEF Ended, vars
<1>33. CASE UNCHANGED vars
  BY <1>33 DEF vars
<1> QED
  BY <1>1, <1>2, <1>3, <1>4, <1>5, <1>6, <1>7, <1>8, <1>9, <1>10, <1>11,
     <1>12, <1>13, <1>14, <1>15, <1>16, <1>17, <1>18, <1>19, <1>20, <1>21,
     <1>22, <1>23, <1>24, <1>25, <1>26, <1>27, <1>28, <1>29, <1>30, <1>31,
     <1>32, <1>33
     DEF Next, MainStep, RequestStep

\* The invariant of which the theorems below are consequences.
THEOREM Invariance == Spec => []IInv
<1>1. Init => IInv
  BY InitIInv
<1>2. IInv /\ [Next]_vars => IInv'
  <2> SUFFICES ASSUME IInv, [Next]_vars
               PROVE  IInv'
    OBVIOUS
  <2>1. TypeOK'
    BY TypeStep DEF IInv
  <2> QED
    BY <2>1, SafetyStep
<1> QED
  BY <1>1, <1>2, PTL DEF Spec

\* Every variable keeps its type.
THEOREM TypeCorrect == Spec => []TypeOK
<1>1. IInv => TypeOK
  BY DEF IInv
<1> QED
  BY <1>1, Invariance, PTL

\* The lock of JoinTracker serialises the attempts, however many requests
\* there are.
THEOREM OneAttempt == Spec => []AtMostOneAttempt
<1>1. IInv => AtMostOneAttempt
  BY DEF IInv
<1> QED
  BY <1>1, Invariance, PTL

\* finish() publishes an outcome only after last_join.json has it.
THEOREM OutcomeInFileFirst == Spec => []FileBeforeMemory
<1>1. IInv => FileBeforeMemory
  BY DEF IInv
<1> QED
  BY <1>1, Invariance, PTL

\* The form that is served with no attempt running can be reached, unless the
\* last failed attempt had its restart of the access point refused or, after
\* a second look that raised, asked for none.
THEOREM Reachability == Spec => []ReachableWhenServing
<1>1. IInv => ReachableWhenServing
  BY DEF IInv
<1> QED
  BY <1>1, Invariance, PTL

\* No thread undoes a join before another one is accepted: whoever changes
\* the radio is the main thread before the loop (no attempt yet) or while it
\* takes the access point down (not a network), or the thread of the running
\* attempt (the tracker says "joining"), or NetworkManager.
THEOREM JoinedStays == Spec => JoinedIsKept
<1>1. IInv /\ [Next]_vars =>
        [tracker.state = "joined" /\ radio \in Networks /\ radio' # radio
           => NmDrop \/ Reboot]_vars
  <2> SUFFICES ASSUME IInv, Next, tracker.state = "joined", radio \in Networks,
                      radio' # radio
               PROVE  NmDrop \/ Reboot
    BY DEF vars, network
  <2> USE WifiAssumption DEF network, program, IInv, FreshOutsideLoop,
          TrackerNamesAttempt, OneRadio, Attempting, AttemptPc, Idle
  <2>1. ASSUME MainStep
        PROVE  FALSE
    BY <2>1 DEF MainStep, EnsureCheck, EnsureHotspot, BindServer, TestJoined,
       TestDeadline, TestBusy, PollTimesOut, Accept, CloseServer, StopAtClose,
       ReportClosed, MainOnly, HotspotDown
  <2>2. ASSUME NEW r \in Requests, RequestStep(r)
        PROVE  FALSE
    <3>1. Attempting(r) => FALSE
      OBVIOUS
    <3> QED
      BY <2>2, <3>1 DEF RequestStep, Refuse, Begin, Answer, StopForJoin,
         ConnectStart, ConnectReturns, ConnectRaises, CheckActive,
         RestartHotspot, FinishFile, FinishMemory, Signal
  <2>3. ASSUME NmActivated \/ NmActivationFails \/ NmAutoconnect
        PROVE  FALSE
    BY <2>3 DEF NmActivated, NmActivationFails, NmAutoconnect
  <2>4. ASSUME WindowEnds \/ Crash \/ ServiceRestarts \/ Ended
        PROVE  FALSE
    BY <2>4 DEF WindowEnds, Crash, ServiceRestarts, Ended, MainOnly, vars,
       program
  <2> QED
    BY <2>1, <2>2, <2>3, <2>4 DEF Next
<1> QED
  BY <1>1, Invariance, PTL DEF Spec, JoinedIsKept

==============================================================================
