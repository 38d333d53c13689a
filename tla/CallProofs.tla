---------------------------- MODULE CallProofs ----------------------------
(***************************************************************************)
(* Proofs about Call, for every value of its constants.                    *)
(***************************************************************************)
EXTENDS CallProperties, TLAPS

---------------------------------------------------------------------------
(* Types of the operators the actions are built from.                      *)

LEMMA PeerIsRole == \A p \in Roles : Peer(p) \in Roles /\ Peer(p) # p
BY DEF Peer, Roles

\* Suspending, resuming and finishing a handler keep the task sets well typed.
LEMMA SuspendType ==
  ASSUME tasks \in [Roles -> SUBSET Tasks], NEW p \in Roles,
         NEW next \in Steps, NEW n \in Nat, Suspend(p, next, n)
  PROVE  tasks' \in [Roles -> SUBSET Tasks]
<1>1. [next |-> next, seq |-> n, open |-> TRUE] \in Tasks
  BY DEF Tasks, Steps
<1>. QED BY <1>1 DEF Suspend

LEMMA FinishType ==
  ASSUME tasks \in [Roles -> SUBSET Tasks], NEW p \in Roles, NEW t, Finish(p, t)
  PROVE  tasks' \in [Roles -> SUBSET Tasks]
BY DEF Finish

LEMMA SuspendAgainType ==
  ASSUME tasks \in [Roles -> SUBSET Tasks], NEW p \in Roles,
         NEW t \in Tasks, NEW next \in Steps, SuspendAgain(p, t, next)
  PROVE  tasks' \in [Roles -> SUBSET Tasks]
<1>1. [t EXCEPT !.next = next] \in Tasks
  BY DEF Tasks, Steps
<1>. QED BY <1>1 DEF SuspendAgain

LEMMA FrameType == \A type \in FrameTypes, n \in Nat : Frame(type, n) \in Frames
BY DEF Frame, Frames

LEMMA TransmitType ==
  ASSUME wire \in [Roles -> Seq(Frames)], NEW p \in Roles, NEW f \in Frames, Transmit(p, f)
  PROVE  wire' \in [Roles -> Seq(Frames)]
<1>1. Append(wire[Peer(p)], f) \in Seq(Frames)
  BY PeerIsRole
<1>. QED BY <1>1, PeerIsRole DEF Transmit

LEMMA SendTimeoutEndType ==
  ASSUME wire \in [Roles -> Seq(Frames)], seqOut \in [Roles -> Nat],
         NEW p \in Roles, SendTimeoutEnd(p)
  PROVE  seqOut' \in [Roles -> Nat] /\ wire' \in [Roles -> Seq(Frames)]
<1>1. Frame("END", seqOut[p] + 1) \in Frames
  BY FrameType DEF FrameTypes
<1>2. CASE up[p]
  <2>1. Transmit(p, Frame("END", seqOut[p] + 1)) /\ seqOut' = [seqOut EXCEPT ![p] = @ + 1]
    BY <1>2 DEF SendTimeoutEnd
  <2>. QED BY <1>1, <2>1, TransmitType
<1>3. CASE ~up[p]
  BY <1>3 DEF SendTimeoutEnd
<1>. QED BY <1>2, <1>3

LEMMA ConsumeType ==
  ASSUME wire \in [Roles -> Seq(Frames)], NEW p \in Roles, wire[p] # <<>>
  PROVE  /\ Head(wire[p]) \in Frames
         /\ Tail(wire[p]) \in Seq(Frames)
         /\ Consume(p) => wire' \in [Roles -> Seq(Frames)]
         /\ \A f \in Frames : ConsumeAndReply(p, f) => wire' \in [Roles -> Seq(Frames)]
<1>1. Head(wire[p]) \in Frames /\ Tail(wire[p]) \in Seq(Frames)
  OBVIOUS
<1>2. Consume(p) => wire' \in [Roles -> Seq(Frames)]
  BY <1>1 DEF Consume
<1>3. ASSUME NEW f \in Frames, ConsumeAndReply(p, f)
      PROVE  wire' \in [Roles -> Seq(Frames)]
  <2>1. Append(wire[Peer(p)], f) \in Seq(Frames)
    BY PeerIsRole
  <2>. QED BY <1>1, <1>3, <2>1, PeerIsRole DEF ConsumeAndReply
<1>. QED BY <1>1, <1>2, <1>3

---------------------------------------------------------------------------
(* Every step keeps every variable in its type.                            *)

LEMMA TypeStep == TypeOK /\ [Next]_vars => TypeOK'
<1>. SUFFICES ASSUME TypeOK, [Next]_vars PROVE TypeOK'
  OBVIOUS
<1>. USE DEF TypeOK, record, link, promise, bounds
<1>r. "caller" \in Roles /\ "callee" \in Roles
  BY DEF Roles
<1>s. \A p \in Roles : \A t \in tasks[p] : t \in Tasks /\ t.seq \in Nat
  BY DEF Tasks
<1>f. \A p \in Roles : wire[p] # <<>> => Head(wire[p]).seq \in Nat
  BY ConsumeType DEF Frames
<1>1. ASSUME Invite PROVE TypeOK'
  BY <1>1, <1>r, <1>s, <1>f, SuspendType DEF Invite, States, Steps, ClientSteps, HandlerSteps
<1>2. ASSUME NEW t \in tasks["caller"], NumberInvite(t) PROVE TypeOK'
  <2>1. [next |-> "sendInvite", seq |-> seqOut["caller"] + 1, open |-> t.open] \in Tasks
    BY <1>r, <1>s DEF Tasks, Steps, ClientSteps
  <2>2. tasks' \in [Roles -> SUBSET Tasks]
    BY <1>2, <1>r, <2>1 DEF NumberInvite
  <2>. QED BY <1>2, <1>r, <2>2 DEF NumberInvite
<1>3. ASSUME NEW t \in tasks["caller"], SendInvite(t) PROVE TypeOK'
  BY <1>3, <1>r, <1>s, <1>f, FinishType, TransmitType, FrameType DEF SendInvite, FrameTypes
<1>4. ASSUME InviteTimeout PROVE TypeOK'
  <2>2. seqOut' \in [Roles -> Nat] /\ wire' \in [Roles -> Seq(Frames)]
    BY <1>4, <1>r, SendTimeoutEndType DEF InviteTimeout
  <2>3. state' \in [Roles -> States]
    BY <1>4, <1>r DEF InviteTimeout, States
  <2>4. pending' \in BOOLEAN /\ up' \in [Roles -> BOOLEAN] /\ alive' \in BOOLEAN
    BY <1>4, Zenon DEF InviteTimeout
  <2>. QED BY <1>4, <2>2, <2>3, <2>4 DEF InviteTimeout
<1>5. ASSUME NEW p \in Roles, ReceiveInvite(p) PROVE TypeOK'
  BY <1>5, <1>r, <1>s, <1>f, SuspendType, ConsumeType, FrameType DEF ReceiveInvite, Arrives, FrameTypes, Steps, ClientSteps, HandlerSteps
<1>6. ASSUME NEW p \in Roles, NEW t \in tasks[p], Refuse(p, t) PROVE TypeOK'
  BY <1>6, <1>r, <1>s, <1>f, FinishType, TransmitType, FrameType DEF Refuse, FrameTypes
<1>7. ASSUME NEW p \in Roles, NEW t \in tasks[p], Ring(p, t) PROVE TypeOK'
  BY <1>7, <1>r, <1>s, <1>f, SuspendAgainType DEF Ring, States, Steps, ClientSteps, HandlerSteps
<1>8. ASSUME Accept PROVE TypeOK'
  <2>1. seqOut["callee"] + 1 \in Nat
    BY <1>r
  <2>2. tasks' \in [Roles -> SUBSET Tasks]
    BY <1>8, <1>r, <2>1, SuspendType DEF Accept, Steps, ClientSteps
  <2>3. seqOut' \in [Roles -> Nat]
    BY <1>8, <1>r, <2>1 DEF Accept
  <2>4. state' \in [Roles -> States]
    BY <1>8, <1>r DEF Accept, StateOnAccept, States
  <2>. QED BY <1>8, <2>2, <2>3, <2>4 DEF Accept
<1>9. ASSUME NEW t \in tasks["callee"], SendAccept(t) PROVE TypeOK'
  BY <1>9, <1>r, <1>s, <1>f, FinishType, SuspendAgainType, TransmitType, FrameType DEF SendAccept, FrameTypes, Steps, ClientSteps, HandlerSteps
<1>10. ASSUME Deny PROVE TypeOK'
  <2>1. seqOut["callee"] + 1 \in Nat
    BY <1>r
  <2>2. tasks' \in [Roles -> SUBSET Tasks]
    BY <1>10, <1>r, <2>1, SuspendType DEF Deny, Steps, ClientSteps
  <2>3. seqOut' \in [Roles -> Nat]
    BY <1>10, <1>r, <2>1 DEF Deny
  <2>4. state' \in [Roles -> States]
    BY <1>10, <1>r DEF Deny, StateOnAccept, States
  <2>. QED BY <1>10, <2>2, <2>3, <2>4 DEF Deny
<1>11. ASSUME NEW t \in tasks["callee"], SendDeny(t) PROVE TypeOK'
  BY <1>11, <1>r, <1>s, <1>f, FinishType, TransmitType, FrameType DEF SendDeny, FrameTypes
<1>12. ASSUME NEW p \in Roles, NEW t \in tasks[p], ApplyAccepted(p, t) PROVE TypeOK'
  <2>2. seqOut' \in [Roles -> Nat] /\ wire' \in [Roles -> Seq(Frames)]
    BY <1>12, SendTimeoutEndType DEF ApplyAccepted
  <2>3. state' \in [Roles -> States]
    BY <1>12 DEF ApplyAccepted, States
  <2>4. /\ pending' \in BOOLEAN
        /\ outcome' \in {"none", "waiting", "accepted", "denied", "timeout", "error"}
    BY <1>12, Zenon DEF ApplyAccepted, Settle
  <2>5. tasks' \in [Roles -> SUBSET Tasks]
    BY <1>12, FinishType DEF ApplyAccepted
  <2>. QED BY <1>12, <2>2, <2>3, <2>4, <2>5 DEF ApplyAccepted
<1>13. ASSUME NEW p \in Roles, NEW t \in tasks[p], ApplyRejected(p, t) PROVE TypeOK'
  BY <1>13, <1>r, <1>s, <1>f, FinishType DEF ApplyRejected, TooLate, Settle, States
<1>14. ASSUME NEW p \in Roles, Speak(p) PROVE TypeOK'
  <2>1. seqOut[p] + 1 \in Nat
    OBVIOUS
  <2>2. tasks' \in [Roles -> SUBSET Tasks]
    BY <1>14, <2>1, SuspendType DEF Speak, Steps, ClientSteps
  <2>3. seqOut' \in [Roles -> Nat] /\ asked' \in Nat
    BY <1>14, <2>1 DEF Speak, Asks
  <2>4. UNCHANGED <<state, floor, seqIn, wire, up, alive, pending, outcome, heard, firstFloor, faults>>
    BY <1>14 DEF Speak, Asks
  <2>. QED BY <2>2, <2>3, <2>4
<1>15. ASSUME NEW p \in Roles, NEW t \in tasks[p], SendTurn(p, t) PROVE TypeOK'
  BY <1>15, <1>r, <1>s, <1>f, FinishType, TransmitType, FrameType, PeerIsRole DEF SendTurn, FloorAfterSpeaking, FrameTypes
<1>16. ASSUME NEW p \in Roles, ReceiveTurn(p) PROVE TypeOK'
  BY <1>16, <1>r, <1>s, <1>f, SuspendType, ConsumeType, FrameType DEF ReceiveTurn, Arrives, FrameTypes, Steps, ClientSteps, HandlerSteps
<1>17. ASSUME NEW p \in Roles, NEW t \in tasks[p], ApplyTurn(p, t) PROVE TypeOK'
  BY <1>17, <1>r, <1>s, <1>f, SuspendAgainType DEF ApplyTurn, FloorAfterHearing, Steps, ClientSteps, HandlerSteps
<1>18. ASSUME NEW p \in Roles, RequestPause(p) PROVE TypeOK'
  <2>1. seqOut[p] + 1 \in Nat
    OBVIOUS
  <2>2. PICK r \in {"pause", "resume"} :
          /\ Asks(p, r)
          /\ Suspend(p, IF r = "pause" THEN "sendPause" ELSE "sendResume", seqOut[p] + 1)
    BY <1>18 DEF RequestPause
  <2>3. tasks' \in [Roles -> SUBSET Tasks]
    BY <2>1, <2>2, SuspendType DEF Steps, ClientSteps
  <2>4. seqOut' \in [Roles -> Nat]
    BY <1>18, <2>1 DEF RequestPause
  <2>5. asked' \in Nat /\ UNCHANGED <<firstFloor, faults>>
    BY <2>2 DEF Asks
  <2>. QED BY <1>18, <2>3, <2>4, <2>5 DEF RequestPause
<1>19. ASSUME NEW p \in Roles, NEW t \in tasks[p], SendPause(p, t) PROVE TypeOK'
  BY <1>19, <1>r, <1>s, <1>f, FinishType, TransmitType, FrameType DEF SendPause, States, FrameTypes
<1>20. ASSUME NEW p \in Roles, NEW t \in tasks[p], ApplyPause(p, t) PROVE TypeOK'
  BY <1>20, <1>r, <1>s, <1>f, SuspendAgainType DEF ApplyPause, States, Steps, ClientSteps, HandlerSteps
<1>21. ASSUME NEW p \in Roles, RequestInject(p) PROVE TypeOK'
  <2>1. seqOut[p] + 1 \in Nat
    OBVIOUS
  <2>2. tasks' \in [Roles -> SUBSET Tasks]
    BY <1>21, <2>1, SuspendType DEF RequestInject, Steps, ClientSteps
  <2>3. seqOut' \in [Roles -> Nat] /\ asked' \in Nat
    BY <1>21, <2>1 DEF RequestInject, Asks
  <2>4. UNCHANGED <<state, floor, seqIn, wire, up, alive, pending, outcome, heard, firstFloor, faults>>
    BY <1>21 DEF RequestInject, Asks
  <2>. QED BY <2>2, <2>3, <2>4
<1>22. ASSUME NEW p \in Roles, NEW t \in tasks[p], SendInject(p, t) PROVE TypeOK'
  BY <1>22, <1>r, <1>s, <1>f, FinishType, TransmitType, FrameType DEF SendInject, FrameTypes
<1>23. ASSUME NEW p \in Roles, RequestEnd(p) PROVE TypeOK'
  BY <1>23, <1>r, <1>s, <1>f, SuspendType DEF RequestEnd, Asks, States, Steps, ClientSteps, HandlerSteps
<1>24. ASSUME NEW p \in Roles, NEW t \in tasks[p], SendEnd(p, t) PROVE TypeOK'
  BY <1>24, <1>r, <1>s, <1>f, SuspendAgainType, TransmitType, FrameType DEF SendEnd, States, FrameTypes, Steps, ClientSteps, HandlerSteps
<1>25. ASSUME NEW p \in Roles, NEW t \in tasks[p], ApplyEnd(p, t) PROVE TypeOK'
  BY <1>25, <1>r, <1>s, <1>f, SuspendAgainType DEF ApplyEnd, States, Steps, ClientSteps, HandlerSteps
<1>26. ASSUME NEW p \in Roles, ReceiveForCall(p) PROVE TypeOK'
  <2>1. PICK type \in DOMAIN StepFor :
          /\ Arrives(p, type)
          /\ IF Known(p) THEN Suspend(p, StepFor[type], Head(wire[p]).seq)
                         ELSE UNCHANGED tasks
    BY <1>26 DEF ReceiveForCall
  <2>2. StepFor[type] \in Steps
    BY DEF StepFor, Steps, ClientSteps, HandlerSteps
  <2>3. wire[p] # <<>>
    BY <2>1 DEF Arrives
  <2>4. tasks' \in [Roles -> SUBSET Tasks]
    BY <2>1, <2>2, <2>3, <1>f, SuspendType
  <2>5. wire' \in [Roles -> Seq(Frames)]
    BY <1>26, <2>3, ConsumeType DEF ReceiveForCall
  <2>. QED BY <1>26, <2>4, <2>5 DEF ReceiveForCall
<1>27. ASSUME NEW p \in Roles, ReceiveError(p) PROVE TypeOK'
  BY <1>27, <1>r, <1>s, <1>f, ConsumeType DEF ReceiveError, Arrives
<1>28. ASSUME NEW p \in Roles, NEW t \in tasks[p], Emit(p, t) PROVE TypeOK'
  BY <1>28, <1>r, <1>s, <1>f, FinishType DEF Emit, EventOf, Events
<1>29. ASSUME Break PROVE TypeOK'
  <2>1. alive' \in BOOLEAN
    BY <1>29, Zenon DEF Break
  <2>. QED BY <1>29, <2>1 DEF Break
<1>30. ASSUME NEW p \in Roles, NoticeClose(p) PROVE TypeOK'
  <2>1. \A t \in tasks[p] : [t EXCEPT !.open = FALSE] \in Tasks
    BY <1>s DEF Tasks
  <2>2. tasks' \in [Roles -> SUBSET Tasks]
    BY <1>30, <2>1 DEF NoticeClose
  <2>3. up' \in [Roles -> BOOLEAN] /\ alive' \in BOOLEAN
    BY <1>30, Zenon DEF NoticeClose
  <2>. QED BY <1>30, <2>2, <2>3 DEF NoticeClose
<1>31. ASSUME Reconnect PROVE TypeOK'
  BY <1>31, <1>r, <1>s, <1>f DEF Reconnect
<1>32. ASSUME NEW p \in Roles, Crash(p) PROVE TypeOK'
  <2>1. up' \in [Roles -> BOOLEAN] /\ alive' \in BOOLEAN
    BY <1>32, Zenon DEF Crash
  <2>2. /\ pending' \in BOOLEAN
        /\ outcome' \in {"none", "waiting", "accepted", "denied", "timeout", "error"}
    BY <1>32, Zenon DEF Crash
  <2>3. state' \in [Roles -> States]
    BY <1>32 DEF Crash, States
  <2>. QED BY <1>32, <2>1, <2>2, <2>3 DEF Crash
<1>33. CASE UNCHANGED vars
  BY <1>33 DEF vars
<1>. QED BY <1>1, <1>2, <1>3, <1>4, <1>5, <1>6, <1>7, <1>8, <1>9, <1>10, <1>11, <1>12, <1>13, <1>14, <1>15, <1>16, <1>17, <1>18, <1>19, <1>20, <1>21, <1>22, <1>23, <1>24, <1>25, <1>26, <1>27, <1>28, <1>29, <1>30, <1>31, <1>32, <1>33 DEF Next, Client, Receive, Resume, Fault

\* Every variable keeps its type, in every behaviour of a call.
THEOREM CallTypeCorrect == Spec => []TypeOK
<1>1. ASSUME Init PROVE TypeOK
  <2>1. alive \in BOOLEAN /\ pending \in BOOLEAN /\ up \in [Roles -> BOOLEAN]
    BY <1>1, Zenon DEF Init
  <2>2. firstFloor \in Roles
    BY <1>1, ConstantsAssumption DEF Init, ConstantsAssumption
  <2>. QED BY <1>1, <2>1, <2>2 DEF Init, TypeOK, States
<1>. QED BY <1>1, TypeStep, PTL DEF Spec
============================================================================
