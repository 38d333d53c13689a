------------------------- MODULE CallClosingProofs -------------------------
(***************************************************************************)
(* For every value of the constants under which no client pauses: a closed  *)
(* call stays closed and closes at both sides, what invite() reports is what *)
(* happened, and the floors agree once the call is quiet.                   *)
(***************************************************************************)
EXTENDS CallFloorProofs

---------------------------------------------------------------------------
(* What a suspended handler or an arriving frame says of the rest of the   *)
(* call, without any assumption on the clients.                            *)

LEMMA TaskSays ==
  ASSUME TypeOK, RingsOnce, NoPausing, NEW p \in Roles, NEW t \in tasks[p]
  PROVE  /\ t.next \in Steps /\ t.seq \in Nat
         /\ At(tasks[p], t.next)
         /\ outcome # "none"
         /\ t.next \notin {"ring", "refuse"} => Known(p)
         /\ t.next \notin {"sendPause", "sendResume", "applyPause", "applyResume"}
         /\ t.next = "ring" => p = "callee" /\ InviteTaken /\ Inviting
         /\ t.next \in {"numberInvite", "sendInvite"} /\ p = "caller" => InviteUnsent /\ Inviting
<1>1. t.next \in Steps /\ t.seq \in Nat
  BY DEF TypeOK, Tasks
<1>2. At(tasks[p], t.next)
  BY DEF At
<1>3. outcome # "none"
  BY <1>1, <1>2 DEF RingsOnce, NothingBeforeInvite
<1>4. t.next \notin {"ring", "refuse"} => Known(p)
  BY <1>1, <1>2 DEF RingsOnce, TasksHaveRecord
<1>5. t.next \notin {"sendPause", "sendResume", "applyPause", "applyResume"}
  BY <1>2 DEF NoPausing
<1>6. p = "caller" \/ p = "callee"
  BY DEF Roles
<1>7. t.next = "ring" => p = "callee" /\ InviteTaken /\ Inviting
  BY <1>2, <1>6 DEF RingsOnce, OneInvite, InviteTaken, Inviting
<1>8. t.next \in {"numberInvite", "sendInvite"} /\ p = "caller" => InviteUnsent /\ Inviting
  BY <1>2 DEF InviteUnsent, Inviting
<1>. QED BY <1>1, <1>2, <1>3, <1>4, <1>5, <1>7, <1>8

LEMMA FrameSays ==
  ASSUME TypeOK, RingsOnce, NoPausing, NEW p \in Roles, NEW type \in FrameTypes, Arrives(p, type)
  PROVE  /\ wire[p] # <<>>
         /\ Head(wire[p]).type = type
         /\ Head(wire[p]).seq \in Nat
         /\ Carries(wire[p], type)
         /\ outcome # "none"
         /\ type \notin {"PAUSE", "RESUME"}
         /\ type = "INVITE" => p = "callee" /\ InviteInFlight /\ Inviting
<1>1. wire[p] # <<>> /\ Head(wire[p]).type = type /\ wire[p] \in Seq(Frames)
  BY DEF Arrives, TypeOK
<1>2. Head(wire[p]).seq \in Nat
  BY <1>1, ConsumeType DEF TypeOK, Frames
<1>3. Carries(wire[p], type)
  BY <1>1, TailContents
<1>4. outcome # "none"
  BY <1>3 DEF RingsOnce, NothingBeforeInvite
<1>5. type \notin {"PAUSE", "RESUME"}
  BY <1>3 DEF NoPausing
<1>6. p = "caller" \/ p = "callee"
  BY DEF Roles
<1>7. type = "INVITE" => p = "callee" /\ InviteInFlight /\ Inviting
  BY <1>3, <1>6 DEF RingsOnce, OneInvite, InviteInFlight, Inviting
<1>. QED BY <1>1, <1>2, <1>3, <1>4, <1>5, <1>7

---------------------------------------------------------------------------
(* The callee makes its record once, and a closed call stays closed.       *)

PauseSteps == {"sendPause", "sendResume", "applyPause", "applyResume"}
PauseFrames == {"PAUSE", "RESUME"}

\* What ClosedIsFinal says of a step.
ClosedStays ==
  \A p \in Roles : state[p] = "CLOSED" => state'[p] \in {"CLOSED", "LOST"}

\* Only records that are there change, and they are still there.
RecordsStay ==
  \A q \in Roles : state'[q] = state[q] \/ (Known(q) /\ Known(q)')

\* The parts of RingsOnce that a step keeps which makes no record.
LEMMA KeepsRinging ==
  ASSUME RingsOnce, NoPausing, NEW p \in Roles, NEW steps, NEW types,
         RecordsStay, outcome' # "none",
         TasksGrow(p, steps), steps = {} \/ Known(p),
         steps \cap (InviteSteps \cup PauseSteps) = {},
         WireGrows(Peer(p), types), types \cap ({"INVITE"} \cup PauseFrames) = {}
  PROVE  RingsOnce' /\ NoPausing'
<1>1. /\ InviteSteps \subseteq Steps /\ PauseSteps \subseteq Steps
      /\ "INVITE" \in FrameTypes /\ PauseFrames \subseteq FrameTypes
      /\ "caller" \in Roles /\ "callee" \in Roles
  BY DEF InviteSteps, PauseSteps, PauseFrames, Steps, ClientSteps, HandlerSteps, FrameTypes, Roles
<1>2. \A q \in Roles, step \in InviteSteps \cup PauseSteps :
        /\ At(tasks'[q], step) => At(tasks[q], step)
        /\ SingleAt(tasks[q], step) => SingleAt(tasks'[q], step)
  BY <1>1 DEF TasksGrow
<1>3. \A q \in Roles, type \in {"INVITE"} \cup PauseFrames :
        /\ Carries(wire'[q], type) => Carries(wire[q], type)
        /\ SingleIn(wire[q], type) => SingleIn(wire'[q], type)
  BY <1>1 DEF WireGrows
<1>4. \A q \in Roles : Known(q) => Known(q)'
  BY DEF RecordsStay, Known
<1>5. TasksHaveRecord'
  BY <1>4 DEF RingsOnce, TasksHaveRecord, TasksGrow
<1>6. NothingBeforeInvite'
  BY DEF NothingBeforeInvite
<1>7. OneInvite'
  BY <1>1, <1>2, <1>3 DEF RingsOnce, OneInvite, InviteUnsent, InviteInFlight, InviteTaken, InviteSteps
<1>8. Inviting' => Inviting
  BY <1>1, <1>2, <1>3 DEF Inviting, InviteUnsent, InviteInFlight, InviteTaken, InviteSteps
<1>9. Inviting' => state'["callee"] = "NONE"
  BY <1>1, <1>8 DEF RingsOnce, RecordsStay, Known
<1>10. NoPausing'
  BY <1>1, <1>2, <1>3 DEF NoPausing, PauseSteps, PauseFrames
<1>. QED BY <1>5, <1>6, <1>7, <1>9, <1>10 DEF RingsOnce

\* No client may ask to pause or to resume.
NobodyPauses == Requests \cap {"pause", "resume"} = {}

\* What a client, a timer or the connection does, and frames that are only
\* taken off the wire.
LEMMA RequestsKeepRinging ==
  ASSUME TypeOK, RingsOnce, NoPausing, NobodyPauses
  PROVE  /\ InviteTimeout \/ Accept \/ Deny => RingsOnce' /\ NoPausing' /\ ClosedStays
         /\ \A p \in Roles :
              Speak(p) \/ RequestPause(p) \/ RequestInject(p) \/ RequestEnd(p) \/ ReceiveTurn(p)
                \/ ReceiveForCall(p) \/ ReceiveError(p) => RingsOnce' /\ NoPausing' /\ ClosedStays
<1>. USE DEF record, link, promise, bounds
<1>r. "caller" \in Roles /\ "callee" \in Roles
  BY DEF Roles
<1>o. \A p \in Roles : Known(p) => outcome # "none"
  BY DEF RingsOnce, NothingBeforeInvite, Known
<1>k. ASSUME UNCHANGED state PROVE RecordsStay /\ ClosedStays
  BY <1>k DEF RecordsStay, ClosedStays
<1>m. \A step \in {"sendAccept", "sendDeny", "sendTurn", "sendInject", "sendEnd", "applyTurn"} :
        {step} \cap (InviteSteps \cup PauseSteps) = {}
  BY DEF InviteSteps, PauseSteps
<1>1. ASSUME InviteTimeout PROVE RingsOnce' /\ NoPausing' /\ ClosedStays
  <2>1. TasksGrow("caller", {}) /\ outcome' # "none"
    BY <1>1, <1>r, Growth DEF InviteTimeout
  <2>2. WireGrows(Peer("caller"), {"END"})
    <3>1. CASE state["caller"] = "DIALING"
      BY <1>1, <1>r, <3>1, TimeoutEndGrowth DEF InviteTimeout
    <3>2. CASE state["caller"] # "DIALING"
      BY <1>1, <3>2 DEF InviteTimeout, WireGrows
    <3>. QED BY <3>1, <3>2
  <2>3. RecordsStay /\ ClosedStays
    BY <1>1 DEF RecordsStay, ClosedStays, InviteTimeout, Known, TypeOK
  <2>. QED BY <1>r, <2>1, <2>2, <2>3, KeepsRinging DEF PauseFrames
<1>2. ASSUME Accept PROVE RingsOnce' /\ NoPausing' /\ ClosedStays
  <2>1. Known("callee") /\ outcome # "none"
    BY <1>2, <1>r, <1>o DEF Accept, Known
  <2>2. TasksGrow("callee", {"sendAccept"})
    <3>1. Suspend("callee", "sendAccept", seqOut["callee"] + 1) \/ UNCHANGED tasks
      BY <1>2 DEF Accept
    <3>. QED BY <1>r, <3>1, Growth, TasksGrowMore
  <2>3. WireGrows(Peer("callee"), {}) /\ UNCHANGED outcome
    BY <1>2, <1>r, Growth DEF Accept
  <2>4. RecordsStay /\ ClosedStays
    BY <1>2 DEF RecordsStay, ClosedStays, Accept, StateOnAccept, Known, TypeOK
  <2>. QED BY <1>r, <1>m, <2>1, <2>2, <2>3, <2>4, KeepsRinging
<1>3. ASSUME Deny PROVE RingsOnce' /\ NoPausing' /\ ClosedStays
  <2>1. Known("callee") /\ outcome # "none"
    BY <1>3, <1>r, <1>o DEF Deny, Known
  <2>2. TasksGrow("callee", {"sendDeny"})
    <3>1. Suspend("callee", "sendDeny", seqOut["callee"] + 1) \/ UNCHANGED tasks
      BY <1>3 DEF Deny
    <3>. QED BY <1>r, <3>1, Growth, TasksGrowMore
  <2>3. WireGrows(Peer("callee"), {}) /\ UNCHANGED outcome
    BY <1>3, <1>r, Growth DEF Deny
  <2>4. RecordsStay /\ ClosedStays
    BY <1>3 DEF RecordsStay, ClosedStays, Deny, Known, TypeOK
  <2>. QED BY <1>r, <1>m, <2>1, <2>2, <2>3, <2>4, KeepsRinging
<1>4. ASSUME NEW p \in Roles, Speak(p) PROVE RingsOnce' /\ NoPausing' /\ ClosedStays
  <2>1. Known(p) /\ outcome # "none"
    BY <1>4, <1>o DEF Speak, MaySpeak, Known
  <2>2. TasksGrow(p, {"sendTurn"}) /\ WireGrows(Peer(p), {})
    BY <1>4, Growth DEF Speak
  <2>3. UNCHANGED <<state, outcome>>
    BY <1>4 DEF Speak
  <2>. QED BY <1>k, <1>m, <2>1, <2>2, <2>3, KeepsRinging
<1>5. ASSUME NEW p \in Roles, RequestPause(p) PROVE RingsOnce' /\ NoPausing' /\ ClosedStays
  BY <1>5 DEF RequestPause, Asks, NobodyPauses
<1>6. ASSUME NEW p \in Roles, RequestInject(p) PROVE RingsOnce' /\ NoPausing' /\ ClosedStays
  <2>1. Known(p) /\ outcome # "none"
    BY <1>6, <1>o DEF RequestInject, Active
  <2>2. TasksGrow(p, {"sendInject"}) /\ WireGrows(Peer(p), {})
    BY <1>6, Growth DEF RequestInject
  <2>3. UNCHANGED <<state, outcome>>
    BY <1>6 DEF RequestInject
  <2>. QED BY <1>k, <1>m, <2>1, <2>2, <2>3, KeepsRinging
<1>7. ASSUME NEW p \in Roles, RequestEnd(p) PROVE RingsOnce' /\ NoPausing' /\ ClosedStays
  <2>1. Known(p) /\ outcome # "none"
    BY <1>7, <1>o DEF RequestEnd, Active
  <2>2. TasksGrow(p, {"sendEnd"}) /\ WireGrows(Peer(p), {}) /\ UNCHANGED outcome
    BY <1>7, Growth DEF RequestEnd
  <2>3. RecordsStay /\ ClosedStays
    BY <1>7 DEF RecordsStay, ClosedStays, RequestEnd, Active, Known, TypeOK
  <2>. QED BY <1>m, <2>1, <2>2, <2>3, KeepsRinging
<1>8. ASSUME NEW p \in Roles, ReceiveTurn(p) PROVE RingsOnce' /\ NoPausing' /\ ClosedStays
  <2>1. /\ Arrives(p, "SEND") /\ "SEND" \in FrameTypes /\ wire[p] # <<>> /\ outcome # "none"
        /\ UNCHANGED <<state, outcome>>
    BY <1>8, FrameSays DEF ReceiveTurn, FrameTypes
  <2>2. CASE TurnAdmitted(p)
    <3>1. TasksGrow(p, {"applyTurn"}) /\ WireGrows(Peer(p), {}) /\ Known(p)
      BY <1>8, <2>1, <2>2, Growth DEF ReceiveTurn, TurnAdmitted, Known
    <3>. QED BY <1>k, <1>m, <2>1, <3>1, KeepsRinging
  <2>3. CASE ~TurnAdmitted(p)
    <3>1. TasksGrow(p, {}) /\ WireGrows(Peer(p), {"ERROR"})
      BY <1>8, <2>1, <2>3, Growth, ReplyGrowth DEF ReceiveTurn
    <3>. QED BY <1>k, <2>1, <3>1, KeepsRinging DEF PauseFrames
  <2>. QED BY <2>2, <2>3
<1>9. ASSUME NEW p \in Roles, ReceiveForCall(p) PROVE RingsOnce' /\ NoPausing' /\ ClosedStays
  <2>1. PICK type \in DOMAIN StepFor :
          /\ Arrives(p, type)
          /\ IF Known(p) THEN Suspend(p, StepFor[type], Head(wire[p]).seq)
                         ELSE UNCHANGED tasks
    BY <1>9 DEF ReceiveForCall
  <2>2. type \in FrameTypes
    BY DEF StepFor, FrameTypes
  <2>3. wire[p] # <<>> /\ outcome # "none" /\ type \notin {"PAUSE", "RESUME"}
    BY <2>1, <2>2, FrameSays
  <2>4. StepFor[type] \in {"applyAccepted", "applyRejected", "emitInject", "applyEnd"}
    BY <2>3 DEF StepFor
  <2>5. WireGrows(Peer(p), {}) /\ UNCHANGED <<state, outcome>>
    BY <1>9, <2>3, Growth DEF ReceiveForCall
  <2>6. CASE Known(p)
    <3>1. TasksGrow(p, {StepFor[type]})
      BY <2>1, <2>6, Growth
    <3>2. {StepFor[type]} \cap (InviteSteps \cup PauseSteps) = {}
      BY <2>4 DEF InviteSteps, PauseSteps
    <3>. QED BY <1>k, <2>3, <2>5, <2>6, <3>1, <3>2, KeepsRinging
  <2>7. CASE ~Known(p)
    <3>1. TasksGrow(p, {})
      BY <2>1, <2>7, Growth
    <3>. QED BY <1>k, <2>3, <2>5, <3>1, KeepsRinging
  <2>. QED BY <2>6, <2>7
<1>10. ASSUME NEW p \in Roles, ReceiveError(p) PROVE RingsOnce' /\ NoPausing' /\ ClosedStays
  <2>1. wire[p] # <<>> /\ outcome # "none"
    BY <1>10, FrameSays DEF ReceiveError, FrameTypes
  <2>2. TasksGrow(p, {}) /\ WireGrows(Peer(p), {}) /\ UNCHANGED <<state, outcome>>
    BY <1>10, <2>1, Growth DEF ReceiveError
  <2>. QED BY <1>k, <2>1, <2>2, KeepsRinging
<1>. QED BY <1>1, <1>2, <1>3, <1>4, <1>5, <1>6, <1>7, <1>8, <1>9, <1>10

\* What a suspended handler does that makes no record and is not the invite.
LEMMA ResumesKeepRinging ==
  ASSUME TypeOK, RingsOnce, NoPausing
  PROVE  /\ \A t \in tasks["callee"] :
              SendAccept(t) \/ SendDeny(t) => RingsOnce' /\ NoPausing' /\ ClosedStays
         /\ \A p \in Roles : \A t \in tasks[p] :
              Refuse(p, t) \/ ApplyAccepted(p, t) \/ ApplyRejected(p, t) \/ SendTurn(p, t)
                \/ ApplyTurn(p, t) \/ SendPause(p, t) \/ ApplyPause(p, t) \/ SendInject(p, t)
                \/ SendEnd(p, t) \/ ApplyEnd(p, t) \/ Emit(p, t)
                => RingsOnce' /\ NoPausing' /\ ClosedStays
<1>. USE DEF record, link, promise, bounds
<1>r. "caller" \in Roles /\ "callee" \in Roles
  BY DEF Roles
<1>k. ASSUME UNCHANGED state PROVE RecordsStay /\ ClosedStays
  BY <1>k DEF RecordsStay, ClosedStays
<1>m. \A step \in {"emitConnected", "emitMessage", "emitEnded"} :
        {step} \cap (InviteSteps \cup PauseSteps) = {}
  BY DEF InviteSteps, PauseSteps
<1>f. \A type \in {"ACCEPTED", "REJECTED", "SEND", "HUMAN_INJECT", "END"} :
        type \in FrameTypes /\ {type} \cap ({"INVITE"} \cup PauseFrames) = {}
  BY DEF FrameTypes, PauseFrames
<1>s. ASSUME NEW p \in Roles, NEW type \in {"ACCEPTED", "REJECTED", "SEND", "HUMAN_INJECT", "END"},
             NEW n \in Nat, Transmit(p, Frame(type, n)) \/ UNCHANGED wire
      PROVE  WireGrows(Peer(p), {type})
  BY <1>f, <1>s, SendGrowth
<1>1. ASSUME NEW t \in tasks["callee"], SendAccept(t) PROVE RingsOnce' /\ NoPausing' /\ ClosedStays
  <2>1. t.next = "sendAccept" /\ t.seq \in Nat /\ Known("callee") /\ outcome # "none"
    BY <1>1, <1>r, TaskSays DEF SendAccept
  <2>2. TasksGrow("callee", {"emitConnected"}) /\ UNCHANGED <<state, outcome>>
    BY <1>1, <1>r, <2>1, Growth DEF SendAccept
  <2>3. WireGrows(Peer("callee"), {"ACCEPTED"})
    BY <1>1, <1>r, <1>s, <2>1 DEF SendAccept
  <2>. QED BY <1>r, <1>k, <1>m, <1>f, <2>1, <2>2, <2>3, KeepsRinging
<1>2. ASSUME NEW t \in tasks["callee"], SendDeny(t) PROVE RingsOnce' /\ NoPausing' /\ ClosedStays
  <2>1. t.next = "sendDeny" /\ t.seq \in Nat /\ outcome # "none"
    BY <1>2, <1>r, TaskSays DEF SendDeny
  <2>2. TasksGrow("callee", {}) /\ UNCHANGED <<state, outcome>>
    BY <1>2, <1>r, <2>1, Growth DEF SendDeny
  <2>3. WireGrows(Peer("callee"), {"REJECTED"})
    BY <1>2, <1>r, <1>s, <2>1 DEF SendDeny
  <2>. QED BY <1>r, <1>k, <1>f, <2>1, <2>2, <2>3, KeepsRinging
<1>3. ASSUME NEW p \in Roles, NEW t \in tasks[p], Refuse(p, t)
      PROVE  RingsOnce' /\ NoPausing' /\ ClosedStays
  <2>1. outcome # "none"
    BY TaskSays
  <2>2. TasksGrow(p, {}) /\ UNCHANGED <<state, outcome>>
    BY <1>3, Growth DEF Refuse
  <2>3. WireGrows(Peer(p), {"REJECTED"})
    BY <1>3, <1>s DEF Refuse
  <2>. QED BY <1>k, <1>f, <2>1, <2>2, <2>3, KeepsRinging
<1>4. ASSUME NEW p \in Roles, NEW t \in tasks[p], ApplyAccepted(p, t)
      PROVE  RingsOnce' /\ NoPausing' /\ ClosedStays
  <2>1. Known(p) /\ outcome' # "none"
    BY <1>4, TaskSays DEF ApplyAccepted, Settle
  <2>2. TasksGrow(p, {})
    BY <1>4, Growth DEF ApplyAccepted
  <2>3. WireGrows(Peer(p), {"END"})
    <3>1. SendTimeoutEnd(p) \/ UNCHANGED wire
      BY <1>4 DEF ApplyAccepted
    <3>2. CASE UNCHANGED wire
      BY <3>2 DEF WireGrows
    <3>. QED BY <3>1, <3>2, TimeoutEndGrowth
  <2>4. RecordsStay /\ ClosedStays
    BY <1>4, <2>1 DEF RecordsStay, ClosedStays, ApplyAccepted, TooLate, Known, TypeOK
  <2>. QED BY <1>f, <2>1, <2>2, <2>3, <2>4, KeepsRinging
<1>5. ASSUME NEW p \in Roles, NEW t \in tasks[p], ApplyRejected(p, t)
      PROVE  RingsOnce' /\ NoPausing' /\ ClosedStays
  <2>1. Known(p) /\ outcome' # "none"
    BY <1>5, TaskSays DEF ApplyRejected, Settle
  <2>2. TasksGrow(p, {}) /\ WireGrows(Peer(p), {})
    BY <1>5, Growth DEF ApplyRejected
  <2>3. RecordsStay /\ ClosedStays
    BY <1>5, <2>1 DEF RecordsStay, ClosedStays, ApplyRejected, TooLate, Known, TypeOK
  <2>. QED BY <2>1, <2>2, <2>3, KeepsRinging
<1>6. ASSUME NEW p \in Roles, NEW t \in tasks[p], SendTurn(p, t)
      PROVE  RingsOnce' /\ NoPausing' /\ ClosedStays
  <2>1. t.seq \in Nat /\ outcome # "none"
    BY TaskSays
  <2>2. TasksGrow(p, {}) /\ UNCHANGED <<state, outcome>>
    BY <1>6, Growth DEF SendTurn
  <2>3. WireGrows(Peer(p), {"SEND"})
    BY <1>6, <1>s, <2>1 DEF SendTurn
  <2>. QED BY <1>k, <1>f, <2>1, <2>2, <2>3, KeepsRinging
<1>7. ASSUME NEW p \in Roles, NEW t \in tasks[p], ApplyTurn(p, t)
      PROVE  RingsOnce' /\ NoPausing' /\ ClosedStays
  <2>1. t.next = "applyTurn" /\ Known(p) /\ outcome # "none"
    BY <1>7, TaskSays DEF ApplyTurn
  <2>2. TasksGrow(p, {"emitMessage"}) /\ WireGrows(Peer(p), {}) /\ UNCHANGED <<state, outcome>>
    BY <1>7, <2>1, Growth DEF ApplyTurn
  <2>. QED BY <1>k, <1>m, <2>1, <2>2, KeepsRinging
<1>8. ASSUME NEW p \in Roles, NEW t \in tasks[p], SendPause(p, t) \/ ApplyPause(p, t)
      PROVE  RingsOnce' /\ NoPausing' /\ ClosedStays
  BY <1>8, TaskSays DEF SendPause, ApplyPause
<1>9. ASSUME NEW p \in Roles, NEW t \in tasks[p], SendInject(p, t)
      PROVE  RingsOnce' /\ NoPausing' /\ ClosedStays
  <2>1. t.seq \in Nat /\ outcome # "none"
    BY TaskSays
  <2>2. TasksGrow(p, {}) /\ UNCHANGED <<state, outcome>>
    BY <1>9, Growth DEF SendInject
  <2>3. WireGrows(Peer(p), {"HUMAN_INJECT"})
    BY <1>9, <1>s, <2>1 DEF SendInject
  <2>. QED BY <1>k, <1>f, <2>1, <2>2, <2>3, KeepsRinging
<1>10. ASSUME NEW p \in Roles, NEW t \in tasks[p], SendEnd(p, t)
       PROVE  RingsOnce' /\ NoPausing' /\ ClosedStays
  <2>1. t.next = "sendEnd" /\ t.seq \in Nat /\ Known(p) /\ outcome # "none"
    BY <1>10, TaskSays DEF SendEnd
  <2>2. TasksGrow(p, {"emitEnded"}) /\ UNCHANGED outcome
    BY <1>10, <2>1, Growth DEF SendEnd
  <2>3. WireGrows(Peer(p), {"END"})
    BY <1>10, <1>s, <2>1 DEF SendEnd
  <2>4. RecordsStay /\ ClosedStays
    BY <1>10, <2>1 DEF RecordsStay, ClosedStays, SendEnd, Known, TypeOK
  <2>. QED BY <1>m, <1>f, <2>1, <2>2, <2>3, <2>4, KeepsRinging
<1>11. ASSUME NEW p \in Roles, NEW t \in tasks[p], ApplyEnd(p, t)
       PROVE  RingsOnce' /\ NoPausing' /\ ClosedStays
  <2>1. t.next = "applyEnd" /\ Known(p) /\ outcome # "none"
    BY <1>11, TaskSays DEF ApplyEnd
  <2>2. TasksGrow(p, {"emitEnded"}) /\ WireGrows(Peer(p), {}) /\ UNCHANGED outcome
    BY <1>11, <2>1, Growth DEF ApplyEnd
  <2>3. RecordsStay /\ ClosedStays
    BY <1>11, <2>1 DEF RecordsStay, ClosedStays, ApplyEnd, Known, TypeOK
  <2>. QED BY <1>m, <2>1, <2>2, <2>3, KeepsRinging
<1>12. ASSUME NEW p \in Roles, NEW t \in tasks[p], Emit(p, t)
       PROVE  RingsOnce' /\ NoPausing' /\ ClosedStays
  <2>1. outcome # "none"
    BY TaskSays
  <2>2. TasksGrow(p, {}) /\ WireGrows(Peer(p), {}) /\ UNCHANGED <<state, outcome>>
    BY <1>12, Growth DEF Emit
  <2>. QED BY <1>k, <2>1, <2>2, KeepsRinging
<1>. QED BY <1>1, <1>2, <1>3, <1>4, <1>5, <1>6, <1>7, <1>8, <1>9, <1>10, <1>11, <1>12

\* The steps by which the callee's record comes about.
LEMMA InvitingKeepsRinging ==
  ASSUME TypeOK, RingsOnce, NoPausing
  PROVE  /\ Invite => RingsOnce' /\ NoPausing' /\ ClosedStays
         /\ \A t \in tasks["caller"] :
              NumberInvite(t) \/ SendInvite(t) => RingsOnce' /\ NoPausing' /\ ClosedStays
         /\ \A p \in Roles : ReceiveInvite(p) => RingsOnce' /\ NoPausing' /\ ClosedStays
         /\ \A p \in Roles : \A t \in tasks[p] : Ring(p, t) => RingsOnce' /\ NoPausing' /\ ClosedStays
<1>. USE DEF record, link, promise, bounds
<1>r. "caller" \in Roles /\ "callee" \in Roles /\ Peer("caller") = "callee" /\ Peer("callee") = "caller"
  BY DEF Roles, Peer
<1>d. \A q \in Roles : q = "caller" \/ q = "callee"
  BY DEF Roles
<1>m. /\ {"numberInvite", "sendInvite", "ring"} \subseteq Steps /\ PauseSteps \subseteq Steps
      /\ "INVITE" \in FrameTypes /\ PauseFrames \subseteq FrameTypes
  BY DEF Steps, ClientSteps, HandlerSteps, FrameTypes, PauseSteps, PauseFrames
\* What all of them keep.
<1>q. ASSUME NEW p \in Roles, NEW steps, NEW types, TasksGrow(p, steps), WireGrows(Peer(p), types),
             steps \cap PauseSteps = {}, types \cap PauseFrames = {}
      PROVE  NoPausing'
  BY <1>q, <1>m DEF NoPausing, PauseSteps, PauseFrames, TasksGrow, WireGrows
<1>h. ASSUME NEW p \in Roles, NEW steps, TasksGrow(p, steps), outcome' # "none",
             \A q \in Roles : Known(q) => Known(q)', steps \subseteq {"ring", "refuse"} \/ Known(p)'
      PROVE  TasksHaveRecord' /\ NothingBeforeInvite'
  BY <1>h DEF RingsOnce, TasksHaveRecord, NothingBeforeInvite, TasksGrow
<1>k. ASSUME UNCHANGED state PROVE ClosedStays /\ \A q \in Roles : Known(q) => Known(q)'
  BY <1>k DEF ClosedStays, Known
<1>1. ASSUME Invite PROVE RingsOnce' /\ NoPausing' /\ ClosedStays
  <2>1. \A q \in Roles : /\ state[q] = "NONE"
                         /\ \A step \in Steps : ~At(tasks[q], step)
                         /\ \A type \in FrameTypes : ~Carries(wire[q], type) /\ SingleIn(wire[q], type)
    <3>1. outcome = "none"
      BY <1>1 DEF Invite
    <3>. QED BY <3>1 DEF RingsOnce, NothingBeforeInvite, Carries, SingleIn
  <2>2. /\ TasksGrow("caller", {"numberInvite"}) /\ WireGrows("callee", {}) /\ outcome' = "waiting"
        /\ UNCHANGED wire
    BY <1>1, <1>r, Growth DEF Invite
  <2>3. state' = [state EXCEPT !["caller"] = "DIALING"]
    BY <1>1 DEF Invite
  <2>4. Known("caller")' /\ state'["callee"] = "NONE" /\ ClosedStays
    BY <1>r, <2>1, <2>3 DEF Known, TypeOK, ClosedStays
  <2>5. \A q \in Roles : \A step \in Steps :
          /\ At(tasks'[q], step) => q = "caller" /\ step = "numberInvite"
          /\ SingleAt(tasks'[q], step)
    <3>. DEFINE u == [next |-> "numberInvite", seq |-> 0, open |-> TRUE]
    <3>1. \A q \in Roles : tasks'[q] = IF q = "caller" THEN tasks[q] \cup {u} ELSE tasks[q]
      BY <1>1 DEF Invite, Suspend, TypeOK
    <3>2. u.next = "numberInvite"
      OBVIOUS
    <3>. HIDE DEF u
    <3>3. \A q \in Roles : \A v \in tasks[q] : v.next \in Steps
      BY DEF TypeOK, Tasks
    <3>4. \A q \in Roles : \A v \in tasks[q] : FALSE
      BY <2>1, <3>3 DEF At
    <3>. QED BY <3>1, <3>2, <3>4 DEF At, SingleAt
  <2>6. TasksHaveRecord' /\ NothingBeforeInvite'
    BY <1>r, <1>h, <1>d, <2>1, <2>2, <2>4 DEF Known
  <2>7. OneInvite'
    BY <1>r, <1>m, <2>1, <2>2, <2>5 DEF OneInvite, InviteUnsent, InviteInFlight, InviteTaken
  <2>8. NoPausing'
    BY <1>r, <1>q, <2>2 DEF PauseSteps
  <2>. QED BY <2>4, <2>6, <2>7, <2>8 DEF RingsOnce
<1>2. ASSUME NEW t \in tasks["caller"], NumberInvite(t) PROVE RingsOnce' /\ NoPausing' /\ ClosedStays
  <2>0. t.next = "numberInvite" /\ UNCHANGED <<state, wire, outcome>>
    BY <1>2 DEF NumberInvite
  <2>1. /\ Inviting /\ InviteUnsent /\ Known("caller") /\ outcome # "none"
        /\ ~InviteInFlight /\ ~InviteTaken
    BY <1>r, <2>0, TaskSays DEF RingsOnce, OneInvite
  <2>2. TasksGrow("caller", {"sendInvite"}) /\ ~At(tasks'["caller"], "numberInvite")
        /\ SingleAt(tasks'["caller"], "sendInvite")
    <3>. DEFINE u == [next |-> "sendInvite", seq |-> seqOut["caller"] + 1, open |-> t.open]
    <3>1. /\ u.next = "sendInvite"
          /\ tasks'["caller"] = (tasks["caller"] \ {t}) \cup {u}
          /\ tasks'["callee"] = tasks["callee"]
      BY <1>2, <1>r DEF NumberInvite, TypeOK
    <3>. HIDE DEF u
    <3>2. SingleAt(tasks["caller"], "numberInvite") /\ ~At(tasks["caller"], "sendInvite")
      BY <2>0 DEF RingsOnce, OneInvite, At
    <3>. QED BY <1>d, <2>0, <3>1, <3>2 DEF TasksGrow, At, SingleAt
  <2>3. WireGrows("callee", {})
    BY <2>0 DEF WireGrows
  <2>4. TasksHaveRecord' /\ NothingBeforeInvite' /\ ClosedStays
    BY <1>r, <1>h, <1>k, <2>0, <2>1, <2>2
  <2>5. NoPausing'
    BY <1>r, <1>q, <2>2, <2>3 DEF PauseSteps
  <2>6. OneInvite'
    <3>1. /\ \A q \in Roles : At(tasks'[q], "ring") => At(tasks[q], "ring")
          /\ SingleAt(tasks["callee"], "ring") => SingleAt(tasks'["callee"], "ring")
          /\ SingleAt(tasks'["caller"], "numberInvite")
      BY <1>r, <1>m, <2>2 DEF TasksGrow, SingleAt, At
    <3>. QED BY <1>r, <2>0, <2>1, <2>2, <3>1
             DEF RingsOnce, OneInvite, InviteUnsent, InviteInFlight, InviteTaken
  <2>7. state'["callee"] = "NONE"
    BY <2>0, <2>1 DEF RingsOnce
  <2>. QED BY <2>4, <2>5, <2>6, <2>7 DEF RingsOnce
<1>3. ASSUME NEW t \in tasks["caller"], SendInvite(t) PROVE RingsOnce' /\ NoPausing' /\ ClosedStays
  <2>0. t.next = "sendInvite" /\ Finish("caller", t) /\ UNCHANGED <<state, outcome>>
    BY <1>3 DEF SendInvite
  <2>1. /\ Inviting /\ InviteUnsent /\ Known("caller") /\ outcome # "none"
        /\ ~InviteInFlight /\ ~InviteTaken /\ t.seq \in Nat
    BY <1>r, <2>0, TaskSays DEF RingsOnce, OneInvite
  <2>2. TasksGrow("caller", {})
    BY <1>r, <2>0, Growth
  <2>3. ~At(tasks'["caller"], "numberInvite") /\ ~At(tasks'["caller"], "sendInvite")
    <3>1. SingleAt(tasks["caller"], "sendInvite") /\ ~At(tasks["caller"], "numberInvite")
      BY <2>0 DEF RingsOnce, OneInvite, At
    <3>. QED BY <1>r, <1>m, <2>0, <3>1, FinishEffect
  <2>4. Transmit("caller", Frame("INVITE", t.seq)) \/ UNCHANGED wire
    BY <1>3 DEF SendInvite
  <2>5. WireGrows("callee", {"INVITE"})
    BY <1>r, <1>m, <2>1, <2>4, SendGrowth
  <2>6. SingleIn(wire'["callee"], "INVITE")
    <3>1. ~Carries(wire["callee"], "INVITE") /\ SingleIn(wire["callee"], "INVITE")
      BY <2>1 DEF InviteInFlight, RingsOnce, OneInvite
    <3>2. Frame("INVITE", t.seq) \in Frames
      BY <1>m, <2>1, FrameType
    <3>. QED BY <1>r, <1>m, <2>4, <3>1, <3>2, TransmitEffect
  <2>7. TasksHaveRecord' /\ NothingBeforeInvite' /\ ClosedStays
    BY <1>r, <1>h, <1>k, <2>0, <2>1, <2>2
  <2>8. NoPausing'
    BY <1>r, <1>q, <2>2, <2>5 DEF PauseFrames
  <2>9. OneInvite'
    <3>1. /\ \A q \in Roles : At(tasks'[q], "ring") => At(tasks[q], "ring")
          /\ SingleAt(tasks["callee"], "ring") => SingleAt(tasks'["callee"], "ring")
          /\ ~Carries(wire["caller"], "INVITE") => ~Carries(wire'["caller"], "INVITE")
          /\ SingleAt(tasks'["caller"], "numberInvite") /\ SingleAt(tasks'["caller"], "sendInvite")
      BY <1>r, <1>m, <2>2, <2>3, <2>5 DEF TasksGrow, WireGrows, SingleAt, At
    <3>. QED BY <1>r, <2>1, <2>3, <2>6, <3>1
             DEF RingsOnce, OneInvite, InviteUnsent, InviteInFlight, InviteTaken
  <2>10. state'["callee"] = "NONE"
    BY <2>0, <2>1 DEF RingsOnce
  <2>. QED BY <2>7, <2>8, <2>9, <2>10 DEF RingsOnce
<1>4. ASSUME NEW p \in Roles, ReceiveInvite(p) PROVE RingsOnce' /\ NoPausing' /\ ClosedStays
  <2>1. /\ Head(wire[p]).type = "INVITE" /\ wire[p] # <<>> /\ Carries(wire[p], "INVITE")
        /\ outcome # "none" /\ p = "callee" /\ InviteInFlight /\ Inviting
    BY <1>4, <1>m, FrameSays DEF ReceiveInvite
  <2>2. ~InviteUnsent /\ ~InviteTaken /\ state["callee"] = "NONE"
    BY <2>1 DEF RingsOnce, OneInvite
  <2>3. UNCHANGED <<state, outcome>> /\ Consume("callee")
    BY <1>4, <2>1, <2>2 DEF ReceiveInvite, Known
  <2>4. PICK next \in {"ring", "refuse"} : Suspend("callee", next, Head(wire["callee"]).seq)
    BY <1>4, <2>1, <2>2 DEF ReceiveInvite, Known
  <2>5. TasksGrow("callee", {next}) /\ WireGrows("caller", {})
    BY <1>r, <2>1, <2>3, <2>4, Growth
  <2>6. ~Carries(wire'["callee"], "INVITE") /\ SingleIn(wire'["callee"], "INVITE")
    <3>1. SingleIn(wire["callee"], "INVITE")
      BY DEF RingsOnce, OneInvite
    <3>. QED BY <1>m, <1>r, <2>1, <2>3, <3>1, ConsumeEffect
  <2>7. SingleAt(tasks'["callee"], "ring")
    <3>1. SingleAt(tasks["callee"], "ring") /\ ~At(tasks["callee"], "ring")
      BY <2>2 DEF RingsOnce, OneInvite, InviteTaken
    <3>. QED BY <1>m, <1>r, <2>4, <3>1, SuspendEffect
  <2>8. TasksHaveRecord' /\ NothingBeforeInvite' /\ ClosedStays
    BY <1>r, <1>h, <1>k, <2>1, <2>3, <2>5
  <2>9. NoPausing'
    BY <1>r, <1>q, <2>5 DEF PauseSteps
  <2>10. OneInvite'
    <3>1. \A step \in Steps : /\ At(tasks'["caller"], step) => At(tasks["caller"], step)
                              /\ SingleAt(tasks["caller"], step) => SingleAt(tasks'["caller"], step)
      BY <1>r, <2>5 DEF TasksGrow
    <3>2. Carries(wire'["caller"], "INVITE") => Carries(wire["caller"], "INVITE")
      BY <1>r, <1>m, <2>5 DEF WireGrows
    <3>. QED BY <1>r, <1>m, <2>2, <2>6, <2>7, <3>1, <3>2
             DEF RingsOnce, OneInvite, InviteUnsent, InviteInFlight, InviteTaken
  <2>11. state'["callee"] = "NONE"
    BY <2>2, <2>3
  <2>. QED BY <2>8, <2>9, <2>10, <2>11 DEF RingsOnce
<1>5. ASSUME NEW p \in Roles, NEW t \in tasks[p], Ring(p, t)
      PROVE  RingsOnce' /\ NoPausing' /\ ClosedStays
  <2>1. t.next = "ring" /\ p = "callee" /\ InviteTaken /\ Inviting /\ outcome # "none"
    BY <1>5, TaskSays DEF Ring
  <2>2. ~InviteUnsent /\ ~InviteInFlight /\ state["callee"] = "NONE"
    BY <2>1 DEF RingsOnce, OneInvite
  <2>3. SuspendAgain("callee", t, "emitInvite") /\ t \in tasks["callee"]
    BY <1>5, <2>1 DEF Ring
  <2>4. TasksGrow("callee", {"emitInvite"}) /\ WireGrows("caller", {}) /\ UNCHANGED <<wire, outcome>>
    BY <1>5, <1>r, <2>1, <2>3, Growth DEF Ring
  <2>5. ~At(tasks'["callee"], "ring")
    <3>1. SingleAt(tasks["callee"], "ring")
      BY DEF RingsOnce, OneInvite
    <3>2. "emitInvite" # t.next
      BY <2>1
    <3>. QED BY <1>r, <2>1, <2>3, <3>1, <3>2, SuspendAgainEffect
  <2>6. state' = [state EXCEPT !["callee"] = "RINGING"]
    BY <1>5, <2>1 DEF Ring
  <2>7. Known("callee")' /\ ClosedStays /\ \A q \in Roles : Known(q) => Known(q)'
    BY <1>r, <1>d, <2>2, <2>6 DEF Known, TypeOK, ClosedStays
  <2>8. TasksHaveRecord' /\ NothingBeforeInvite'
    BY <1>r, <1>h, <2>1, <2>4, <2>7
  <2>9. NoPausing'
    BY <1>r, <1>q, <2>4 DEF PauseSteps
  <2>10. OneInvite' /\ ~Inviting'
    <3>1. \A step \in {"numberInvite", "sendInvite", "ring"} :
            /\ At(tasks'["caller"], step) => At(tasks["caller"], step)
            /\ SingleAt(tasks["caller"], step) => SingleAt(tasks'["caller"], step)
            /\ SingleAt(tasks["callee"], step) => SingleAt(tasks'["callee"], step)
      BY <1>r, <1>m, <2>4 DEF TasksGrow
    <3>. QED BY <1>r, <2>2, <2>4, <2>5, <3>1
             DEF RingsOnce, OneInvite, Inviting, InviteUnsent, InviteInFlight, InviteTaken
  <2>. QED BY <2>7, <2>8, <2>9, <2>10 DEF RingsOnce
<1>. QED BY <1>1, <1>2, <1>3, <1>4, <1>5

\* A closed connection and a crash take handlers and frames away; the record
\* of a handler that is left is still there.
LEMMA FaultTakes ==
  ASSUME TypeOK, NEW p \in Roles, NoticeClose(p) \/ Crash(p)
  PROVE  /\ \A q \in Roles, step \in Steps :
              /\ At(tasks'[q], step) => At(tasks[q], step) /\ (Known(q) => Known(q)')
              /\ SingleAt(tasks[q], step) => SingleAt(tasks'[q], step)
         /\ \A q \in Roles, type \in FrameTypes :
              /\ Carries(wire'[q], type) => Carries(wire[q], type)
              /\ SingleIn(wire[q], type) => SingleIn(wire'[q], type)
<1>. USE DEF record, link, promise, bounds
<1>1. \A q \in Roles : wire'[q] = IF q = p THEN <<>> ELSE wire[q]
  BY DEF NoticeClose, Crash, TypeOK
<1>2. \A q \in Roles, step \in Steps :
        /\ At(tasks'[q], step) => At(tasks[q], step) /\ (Known(q) => Known(q)')
        /\ SingleAt(tasks[q], step) => SingleAt(tasks'[q], step)
  <2>1. CASE NoticeClose(p)
    <3>. DEFINE Cut(t) == [t EXCEPT !.open = FALSE]
    <3>1. \A q \in Roles : tasks'[q] = IF q = p THEN {Cut(t) : t \in tasks[q]} ELSE tasks[q]
      BY <2>1 DEF NoticeClose, TypeOK
    <3>2. \A q \in Roles : \A t \in tasks[q] : Cut(t).next = t.next
      BY DEF TypeOK, Tasks
    <3>. HIDE DEF Cut
    <3>3. \A q \in Roles : \A u \in tasks'[q] : \E t \in tasks[q] :
            u.next = t.next /\ u = IF q = p THEN Cut(t) ELSE t
      BY <3>1, <3>2
    <3>4. \A q \in Roles : Known(q) => Known(q)'
      BY <2>1 DEF NoticeClose, Known
    <3>. QED BY <3>3, <3>4 DEF At, SingleAt
  <2>2. CASE Crash(p)
    <3>1. \A q \in Roles : /\ tasks'[q] = IF q = p THEN {} ELSE tasks[q]
                           /\ q # p => state'[q] = state[q]
      BY <2>2 DEF Crash, TypeOK
    <3>. QED BY <3>1 DEF At, SingleAt, Known
  <2>. QED BY <2>1, <2>2
<1>3. \A q \in Roles, type \in FrameTypes :
        /\ Carries(wire'[q], type) => Carries(wire[q], type)
        /\ SingleIn(wire[q], type) => SingleIn(wire'[q], type)
  BY <1>1, EmptyContents
<1>. QED BY <1>2, <1>3

\* What a fault takes away is not missed.
LEMMA FaultsKeepRinging ==
  ASSUME TypeOK, RingsOnce, NoPausing, NEW p \in Roles, NoticeClose(p) \/ Crash(p)
  PROVE  RingsOnce' /\ NoPausing' /\ ClosedStays
<1>. USE DEF record, link, promise, bounds
<1>r. "caller" \in Roles /\ "callee" \in Roles
  BY DEF Roles
<1>m. /\ {"numberInvite", "sendInvite", "ring"} \subseteq Steps /\ PauseSteps \subseteq Steps
      /\ "INVITE" \in FrameTypes /\ PauseFrames \subseteq FrameTypes
  BY DEF Steps, ClientSteps, HandlerSteps, FrameTypes, PauseSteps, PauseFrames
<1>1. \A q \in Roles, step \in Steps :
        /\ At(tasks'[q], step) => At(tasks[q], step) /\ (Known(q) => Known(q)')
        /\ SingleAt(tasks[q], step) => SingleAt(tasks'[q], step)
  BY FaultTakes
<1>2. \A q \in Roles, type \in FrameTypes :
        /\ Carries(wire'[q], type) => Carries(wire[q], type)
        /\ SingleIn(wire[q], type) => SingleIn(wire'[q], type)
  BY FaultTakes
<1>3. /\ outcome' = "none" => outcome = "none"
      /\ \A q \in Roles : /\ state[q] = "NONE" => state'[q] = "NONE"
                          /\ state'[q] \in {state[q], "LOST"}
      /\ outcome = "none" => floor'["caller"] = floor["caller"] /\ firstFloor' = firstFloor
  BY DEF NoticeClose, Crash, TypeOK
<1>4. TasksHaveRecord'
  BY <1>1 DEF RingsOnce, TasksHaveRecord
<1>5. NothingBeforeInvite'
  BY <1>1, <1>2, <1>3 DEF RingsOnce, NothingBeforeInvite
<1>6. OneInvite' /\ (Inviting' => Inviting)
  BY <1>r, <1>m, <1>1, <1>2
     DEF RingsOnce, OneInvite, Inviting, InviteUnsent, InviteInFlight, InviteTaken
<1>7. Inviting' => state'["callee"] = "NONE"
  BY <1>r, <1>3, <1>6 DEF RingsOnce
<1>8. NoPausing'
  BY <1>m, <1>1, <1>2 DEF NoPausing, PauseSteps, PauseFrames
<1>9. ClosedStays
  BY <1>3 DEF ClosedStays
<1>. QED BY <1>4, <1>5, <1>6, <1>7, <1>8, <1>9 DEF RingsOnce

LEMMA RingStep ==
  TypeOK /\ RingsOnce /\ NoPausing /\ NobodyPauses /\ [Next]_vars
    => RingsOnce' /\ NoPausing' /\ ClosedStays
<1>. SUFFICES ASSUME TypeOK, RingsOnce, NoPausing, NobodyPauses, [Next]_vars
     PROVE RingsOnce' /\ NoPausing' /\ ClosedStays
  OBVIOUS
<1>0. ASSUME UNCHANGED <<state, floor, tasks, wire, outcome, firstFloor>>
      PROVE  RingsOnce' /\ NoPausing' /\ ClosedStays
  <2>1. \A p \in Roles : Known(p)' <=> Known(p)
    BY <1>0 DEF Known
  <2>2. TasksHaveRecord' /\ NothingBeforeInvite' /\ NoPausing' /\ ClosedStays
    BY <1>0, <2>1 DEF RingsOnce, TasksHaveRecord, NothingBeforeInvite, NoPausing, ClosedStays
  <2>3. OneInvite' /\ (Inviting' => state'["callee"] = "NONE")
    BY <1>0 DEF RingsOnce, OneInvite, Inviting, InviteUnsent, InviteInFlight, InviteTaken
  <2>. QED BY <2>2, <2>3 DEF RingsOnce
<1>1. ASSUME NEW p \in Roles, Client(p) PROVE RingsOnce' /\ NoPausing' /\ ClosedStays
  BY <1>1, RequestsKeepRinging, InvitingKeepsRinging DEF Client
<1>2. ASSUME NEW p \in Roles, Receive(p) PROVE RingsOnce' /\ NoPausing' /\ ClosedStays
  BY <1>2, RequestsKeepRinging, InvitingKeepsRinging DEF Receive
<1>3. ASSUME NEW p \in Roles, Resume(p) PROVE RingsOnce' /\ NoPausing' /\ ClosedStays
  <2>1. PICK t \in tasks[p] :
          \/ p = "caller" /\ (NumberInvite(t) \/ SendInvite(t))
          \/ p = "callee" /\ (SendAccept(t) \/ SendDeny(t))
          \/ Refuse(p, t) \/ Ring(p, t)
          \/ ApplyAccepted(p, t) \/ ApplyRejected(p, t)
          \/ SendTurn(p, t) \/ ApplyTurn(p, t)
          \/ SendPause(p, t) \/ ApplyPause(p, t)
          \/ SendInject(p, t) \/ SendEnd(p, t) \/ ApplyEnd(p, t)
          \/ Emit(p, t)
    BY <1>3 DEF Resume
  <2>. QED BY <2>1, ResumesKeepRinging, InvitingKeepsRinging
<1>4. ASSUME Break \/ Reconnect \/ UNCHANGED vars PROVE RingsOnce' /\ NoPausing' /\ ClosedStays
  BY <1>0, <1>4 DEF Break, Reconnect, record, promise, bounds, vars
<1>5. ASSUME InviteTimeout PROVE RingsOnce' /\ NoPausing' /\ ClosedStays
  BY <1>5, RequestsKeepRinging
<1>6. ASSUME NEW p \in Roles, NoticeClose(p) \/ Crash(p)
      PROVE  RingsOnce' /\ NoPausing' /\ ClosedStays
  BY <1>6, FaultsKeepRinging
<1>. QED BY <1>1, <1>2, <1>3, <1>4, <1>5, <1>6 DEF Next, Fault

LEMMA RingInit == Init => RingsOnce /\ NoPausing
<1>. SUFFICES ASSUME Init PROVE RingsOnce /\ NoPausing
  OBVIOUS
<1>1. \A p \in Roles : /\ state[p] = "NONE" /\ floor[p] = firstFloor
                       /\ \A step : ~At(tasks[p], step) /\ SingleAt(tasks[p], step)
                       /\ \A type : ~Carries(wire[p], type) /\ SingleIn(wire[p], type)
  BY EmptyContents DEF Init, At, SingleAt
<1>2. "caller" \in Roles /\ "callee" \in Roles
  BY DEF Roles
<1>3. TasksHaveRecord /\ NothingBeforeInvite /\ NoPausing
  BY <1>1, <1>2 DEF TasksHaveRecord, NothingBeforeInvite, NoPausing
<1>4. OneInvite /\ ~Inviting
  BY <1>1, <1>2 DEF OneInvite, Inviting, InviteUnsent, InviteInFlight, InviteTaken
<1>. QED BY <1>3, <1>4 DEF RingsOnce

\* As long as no client pauses or resumes, the callee makes its record once,
\* whatever is lost, crashes or is suspended.
THEOREM RecordIsMadeOnce == NobodyPauses => (Spec => [](RingsOnce /\ NoPausing))
<1>1. NobodyPauses \in BOOLEAN
  BY DEF NobodyPauses
<1>. SUFFICES ASSUME NobodyPauses PROVE Spec => [](RingsOnce /\ NoPausing)
  BY <1>1
<1>2. TypeOK /\ RingsOnce /\ NoPausing /\ [Next]_vars => RingsOnce' /\ NoPausing'
  BY RingStep
<1>. QED BY <1>2, RingInit, CallTypeCorrect, PTL DEF Spec

\* A closed call stays closed as long as no client pauses or resumes: no answer,
\* timer, END or second request that was suspended while it closed reopens it.
THEOREM ClosedStaysClosed == NobodyPauses => (Spec => ClosedIsFinal)
<1>1. NobodyPauses \in BOOLEAN
  BY DEF NobodyPauses
<1>. SUFFICES ASSUME NobodyPauses PROVE Spec => ClosedIsFinal
  BY <1>1
<1>2. TypeOK /\ RingsOnce /\ NoPausing /\ [Next]_vars
        => [\A p \in Roles : state[p] = "CLOSED" => state'[p] \in {"CLOSED", "LOST"}]_vars
  BY RingStep DEF ClosedStays
<1>. QED BY <1>2, RecordIsMadeOnce, CallTypeCorrect, PTL DEF Spec, ClosedIsFinal

---------------------------------------------------------------------------
(* Steps in terms of exactly what they take away and add.                  *)

\* At p, handlers may leave the steps `gone` and do reach the steps `new`.
TasksMove(p, gone, new) ==
  \A q \in Roles, step \in Steps :
    /\ At(tasks'[q], step) => At(tasks[q], step) \/ (q = p /\ step \in new)
    /\ At(tasks[q], step) => At(tasks'[q], step) \/ (q = p /\ step \in gone)
    /\ q = p /\ step \in new => At(tasks'[q], step)

\* Frames of the types `off` may leave the wire of p; frames of the types
\* `sent` are sent to its peer.
WireMoves(p, off, sent) ==
  \A q \in Roles, type \in FrameTypes :
    /\ Carries(wire'[q], type) => Carries(wire[q], type) \/ (q = Peer(p) /\ type \in sent)
    /\ Carries(wire[q], type) => Carries(wire'[q], type) \/ (q = p /\ type \in off)
    /\ q = Peer(p) /\ type \in sent => Carries(wire'[q], type)

\* No handler has lost its connection.
AllOpen == \A q \in Roles : \A t \in tasks[q] : t.open

LEMMA SuspendMoves ==
  ASSUME TypeOK, NEW p \in Roles, NEW next, NEW n, Suspend(p, next, n)
  PROVE  TasksMove(p, {}, {next}) /\ (AllOpen => AllOpen')
<1>. DEFINE u == [next |-> next, seq |-> n, open |-> TRUE]
<1>1. \A q \in Roles : tasks'[q] = IF q = p THEN tasks[q] \cup {u} ELSE tasks[q]
  BY DEF Suspend, TypeOK
<1>2. u.next = next /\ u.open
  OBVIOUS
<1>. HIDE DEF u
<1>. QED BY <1>1, <1>2 DEF TasksMove, At, AllOpen

LEMMA FinishMoves ==
  ASSUME TypeOK, NEW p \in Roles, NEW t \in tasks[p], Finish(p, t)
  PROVE  TasksMove(p, {t.next}, {}) /\ (AllOpen => AllOpen')
<1>1. \A q \in Roles : tasks'[q] = IF q = p THEN tasks[q] \ {t} ELSE tasks[q]
  BY DEF Finish, TypeOK
<1>. QED BY <1>1 DEF TasksMove, At, AllOpen

LEMMA SuspendAgainMoves ==
  ASSUME TypeOK, NEW p \in Roles, NEW t \in tasks[p], NEW next, SuspendAgain(p, t, next)
  PROVE  TasksMove(p, {t.next}, {next}) /\ (AllOpen => AllOpen')
<1>. DEFINE u == [t EXCEPT !.next = next]
<1>1. \A q \in Roles : tasks'[q] = IF q = p THEN (tasks[q] \ {t}) \cup {u} ELSE tasks[q]
  BY DEF SuspendAgain, TypeOK
<1>2. u.next = next /\ u.open = t.open
  BY DEF TypeOK, Tasks
<1>. HIDE DEF u
<1>. QED BY <1>1, <1>2 DEF TasksMove, At, AllOpen

LEMMA TasksStay ==
  ASSUME UNCHANGED tasks, NEW p \in Roles
  PROVE  TasksMove(p, {}, {}) /\ (AllOpen => AllOpen')
BY DEF TasksMove, AllOpen

\* The connection stands, so that what is sent gets onto the wire.
LEMMA TransmitMoves ==
  ASSUME TypeOK, alive, NEW p \in Roles, NEW type \in FrameTypes, NEW n \in Nat,
         Transmit(p, Frame(type, n))
  PROVE  WireMoves(p, {}, {type})
<1>1. Frame(type, n) \in Frames /\ Frame(type, n).type = type
  BY FrameType DEF Frame
<1>2. \A q \in Roles : wire[q] \in Seq(Frames)
  BY DEF TypeOK
<1>3. \A q \in Roles : wire'[q] = IF q = Peer(p) THEN Append(wire[q], Frame(type, n)) ELSE wire[q]
  BY DEF Transmit, TypeOK
<1>4. \A q \in Roles : \A y : Carries(Append(wire[q], Frame(type, n)), y)
                                <=> Carries(wire[q], y) \/ type = y
  BY <1>1, <1>2, AppendContents
<1>. QED BY <1>3, <1>4 DEF WireMoves

LEMMA TailCarries ==
  ASSUME NEW s \in Seq(Frames), s # <<>>, NEW type, Carries(s, type)
  PROVE  Carries(Tail(s), type) \/ Head(s).type = type
<1>. DEFINE r == Tail(s)
<1>1. /\ Len(s) = Len(r) + 1 /\ Len(r) \in Nat
      /\ s[1] = Head(s)
      /\ \A i \in 1..Len(r) : r[i] = s[i + 1]
  OBVIOUS
<1>. HIDE DEF r
<1>2. PICK i \in 1..Len(s) : s[i].type = type
  BY DEF Carries
<1>3. CASE i = 1
  BY <1>1, <1>2, <1>3
<1>4. CASE i # 1
  <2>1. i - 1 \in 1..Len(r) /\ r[i - 1] = s[(i - 1) + 1] /\ (i - 1) + 1 = i
    BY <1>1, <1>2, <1>4
  <2>2. r[i - 1].type = type
    BY <1>2, <2>1
  <2>3. Carries(r, type)
    BY <2>1, <2>2 DEF Carries
  <2>. QED BY <2>3 DEF r
<1>. QED BY <1>3, <1>4

LEMMA ConsumeMoves ==
  ASSUME TypeOK, NEW p \in Roles, wire[p] # <<>>, Consume(p)
  PROVE  WireMoves(p, {Head(wire[p]).type}, {})
<1>1. \A q \in Roles : wire[q] \in Seq(Frames)
  BY DEF TypeOK
<1>2. \A q \in Roles : wire'[q] = IF q = p THEN Tail(wire[q]) ELSE wire[q]
  BY DEF Consume, TypeOK
<1>3. \A type \in FrameTypes : /\ Carries(Tail(wire[p]), type) => Carries(wire[p], type)
                               /\ Carries(wire[p], type)
                                    => Carries(Tail(wire[p]), type) \/ Head(wire[p]).type = type
  BY <1>1, TailContents, TailCarries
<1>. QED BY <1>2, <1>3 DEF WireMoves

LEMMA ReplyMoves ==
  ASSUME TypeOK, alive, NEW p \in Roles, wire[p] # <<>>, NEW n \in Nat,
         ConsumeAndReply(p, Frame("ERROR", n))
  PROVE  WireMoves(p, {Head(wire[p]).type}, {"ERROR"})
<1>. DEFINE f == Frame("ERROR", n)
<1>1. f \in Frames /\ f.type = "ERROR"
  BY FrameType DEF Frame, FrameTypes
<1>2. \A q \in Roles : wire[q] \in Seq(Frames)
  BY DEF TypeOK
<1>3. /\ wire'[p] = Tail(wire[p]) /\ wire'[Peer(p)] = Append(wire[Peer(p)], f)
      /\ Peer(p) \in Roles /\ Peer(p) # p
      /\ \A q \in Roles : q = p \/ q = Peer(p)
  BY PeerIsRole DEF ConsumeAndReply, TypeOK, Roles, Peer
<1>. HIDE DEF f
<1>4. \A type \in FrameTypes : /\ Carries(Tail(wire[p]), type) => Carries(wire[p], type)
                               /\ Carries(wire[p], type)
                                    => Carries(Tail(wire[p]), type) \/ Head(wire[p]).type = type
  BY <1>2, TailContents, TailCarries
<1>5. \A type : Carries(Append(wire[Peer(p)], f), type) <=> Carries(wire[Peer(p)], type) \/ f.type = type
  BY <1>1, <1>2, <1>3, AppendContents
<1>. QED BY <1>1, <1>3, <1>4, <1>5 DEF WireMoves

LEMMA WireStays ==
  ASSUME UNCHANGED wire, NEW p \in Roles
  PROVE  WireMoves(p, {}, {})
BY DEF WireMoves

\* How the answers and the ENDs on their way change.
LEMMA ComingMoves ==
  ASSUME NEW p \in Roles, NEW gone, NEW new, NEW off, NEW sent,
         TasksMove(p, gone, new), WireMoves(p, off, sent)
  PROVE  /\ AcceptComing' => \/ AcceptComing
                             \/ p = "callee" /\ ("sendAccept" \in new \/ "ACCEPTED" \in sent)
                             \/ p = "caller" /\ "applyAccepted" \in new
         /\ DenyComing' => \/ DenyComing
                           \/ p = "callee" /\ (new \cap {"sendDeny", "refuse"} # {} \/ "REJECTED" \in sent)
                           \/ p = "caller" /\ "applyRejected" \in new
         /\ \A q \in Roles :
              EndComing(q)' => \/ EndComing(q)
                               \/ q = Peer(p) /\ "END" \in sent
                               \/ q = p /\ "applyEnd" \in new
         /\ p = "callee" /\ ("sendAccept" \in new \/ "ACCEPTED" \in sent) => AcceptComing'
         /\ p = "caller" /\ "applyAccepted" \in new => AcceptComing'
         /\ p = "callee" /\ (new \cap {"sendDeny", "refuse"} # {} \/ "REJECTED" \in sent) => DenyComing'
         /\ p = "caller" /\ "applyRejected" \in new => DenyComing'
         /\ "END" \in sent => EndComing(Peer(p))'
         /\ "applyEnd" \in new => EndComing(p)'
         /\ AcceptComing => \/ AcceptComing'
                            \/ p = "callee" /\ "sendAccept" \in gone
                            \/ p = "caller" /\ ("ACCEPTED" \in off \/ "applyAccepted" \in gone)
         /\ DenyComing => \/ DenyComing'
                          \/ p = "callee" /\ gone \cap {"sendDeny", "refuse"} # {}
                          \/ p = "caller" /\ ("REJECTED" \in off \/ "applyRejected" \in gone)
         /\ \A q \in Roles :
              EndComing(q) => EndComing(q)' \/ (q = p /\ ("END" \in off \/ "applyEnd" \in gone))
<1>r. /\ "caller" \in Roles /\ "callee" \in Roles /\ Peer(p) \in Roles
      /\ (p = "caller" /\ Peer(p) = "callee") \/ (p = "callee" /\ Peer(p) = "caller")
  BY PeerIsRole DEF Roles, Peer
<1>s. /\ {"sendAccept", "applyAccepted", "sendDeny", "refuse", "applyRejected", "applyEnd"} \subseteq Steps
      /\ {"ACCEPTED", "REJECTED", "END"} \subseteq FrameTypes
  BY DEF Steps, ClientSteps, HandlerSteps, FrameTypes
<1>1. \A q \in Roles, step \in {"sendAccept", "applyAccepted", "sendDeny", "refuse",
                                "applyRejected", "applyEnd"} :
        /\ At(tasks'[q], step) => At(tasks[q], step) \/ (q = p /\ step \in new)
        /\ At(tasks[q], step) => At(tasks'[q], step) \/ (q = p /\ step \in gone)
        /\ q = p /\ step \in new => At(tasks'[q], step)
  BY <1>s DEF TasksMove
<1>2. \A q \in Roles, type \in {"ACCEPTED", "REJECTED", "END"} :
        /\ Carries(wire'[q], type) => Carries(wire[q], type) \/ (q = Peer(p) /\ type \in sent)
        /\ Carries(wire[q], type) => Carries(wire'[q], type) \/ (q = p /\ type \in off)
        /\ q = Peer(p) /\ type \in sent => Carries(wire'[q], type)
  BY <1>s DEF WireMoves
<1>3. /\ AcceptComing' => \/ AcceptComing
                          \/ p = "callee" /\ ("sendAccept" \in new \/ "ACCEPTED" \in sent)
                          \/ p = "caller" /\ "applyAccepted" \in new
      /\ AcceptComing => \/ AcceptComing'
                         \/ p = "callee" /\ "sendAccept" \in gone
                         \/ p = "caller" /\ ("ACCEPTED" \in off \/ "applyAccepted" \in gone)
      /\ p = "callee" /\ ("sendAccept" \in new \/ "ACCEPTED" \in sent) => AcceptComing'
      /\ p = "caller" /\ "applyAccepted" \in new => AcceptComing'
  BY <1>r, <1>1, <1>2 DEF AcceptComing
<1>4. /\ DenyComing' => \/ DenyComing
                        \/ p = "callee" /\ (new \cap {"sendDeny", "refuse"} # {} \/ "REJECTED" \in sent)
                        \/ p = "caller" /\ "applyRejected" \in new
      /\ DenyComing => \/ DenyComing'
                       \/ p = "callee" /\ gone \cap {"sendDeny", "refuse"} # {}
                       \/ p = "caller" /\ ("REJECTED" \in off \/ "applyRejected" \in gone)
      /\ p = "callee" /\ (new \cap {"sendDeny", "refuse"} # {} \/ "REJECTED" \in sent) => DenyComing'
      /\ p = "caller" /\ "applyRejected" \in new => DenyComing'
  BY <1>r, <1>1, <1>2 DEF DenyComing
<1>5. /\ \A q \in Roles :
           /\ EndComing(q)' => \/ EndComing(q)
                               \/ q = Peer(p) /\ "END" \in sent
                               \/ q = p /\ "applyEnd" \in new
           /\ EndComing(q) => EndComing(q)' \/ (q = p /\ ("END" \in off \/ "applyEnd" \in gone))
      /\ "END" \in sent => EndComing(Peer(p))'
      /\ "applyEnd" \in new => EndComing(p)'
  BY <1>r, <1>1, <1>2 DEF EndComing
<1>. QED BY <1>3, <1>4, <1>5

---------------------------------------------------------------------------
(* Without faults the call closes at both sides.                           *)

\* The invariant in the form the steps use: role by role.
LEMMA ClosingSays ==
  ASSUME AnswersFit, NothingLost, EndsMeet
  PROVE  /\ alive /\ AllOpen /\ \A p \in Roles : up[p] /\ state[p] # "LOST"
         /\ EndComing("caller") => state["callee"] = "CLOSED"
         /\ EndComing("callee") => state["caller"] = "CLOSED"
         /\ \A p \in Roles : \A step \in Steps :
              At(tasks[p], step) =>
                /\ (step = "sendAccept" /\ p = "callee") \/ step = "applyAccepted" => AcceptComing
                /\ (step = "sendDeny" /\ p = "callee") \/ step \in {"refuse", "applyRejected"} => DenyComing
                /\ step = "applyEnd" => EndComing(p)
                /\ step \in {"applyAccepted", "applyRejected"} => p = "caller"
                /\ step = "refuse" => p = "callee"
         /\ \A p \in Roles : \A type \in FrameTypes :
              Carries(wire[p], type) =>
                /\ type \in {"ACCEPTED", "REJECTED"} => p = "caller"
                /\ type = "ACCEPTED" => AcceptComing
                /\ type = "REJECTED" => DenyComing
                /\ type = "END" => EndComing(p)
<1>r. "caller" \in Roles /\ "callee" \in Roles /\ Peer("caller") = "callee" /\ Peer("callee") = "caller"
  BY DEF Roles, Peer
<1>d. \A p \in Roles : p = "caller" \/ p = "callee"
  BY DEF Roles
<1>1. /\ alive /\ AllOpen /\ \A p \in Roles : up[p] /\ state[p] # "LOST"
  BY DEF NothingLost, AllOpen
<1>2. /\ EndComing("caller") => state["callee"] = "CLOSED"
      /\ EndComing("callee") => state["caller"] = "CLOSED"
  BY <1>r DEF EndsMeet
<1>3. ASSUME NEW p \in Roles, NEW step \in Steps, At(tasks[p], step)
      PROVE  /\ (step = "sendAccept" /\ p = "callee") \/ step = "applyAccepted" => AcceptComing
             /\ (step = "sendDeny" /\ p = "callee") \/ step \in {"refuse", "applyRejected"} => DenyComing
             /\ step = "applyEnd" => EndComing(p)
             /\ step \in {"applyAccepted", "applyRejected"} => p = "caller"
             /\ step = "refuse" => p = "callee"
  BY <1>3, <1>d DEF AnswersFit, OnlyCalleeAnswers, AcceptComing, DenyComing, EndComing
<1>4. ASSUME NEW p \in Roles, NEW type \in FrameTypes, Carries(wire[p], type)
      PROVE  /\ type \in {"ACCEPTED", "REJECTED"} => p = "caller"
             /\ type = "ACCEPTED" => AcceptComing
             /\ type = "REJECTED" => DenyComing
             /\ type = "END" => EndComing(p)
  BY <1>4, <1>d DEF AnswersFit, OnlyCalleeAnswers, AcceptComing, DenyComing, EndComing
<1>. QED BY <1>1, <1>2, <1>3, <1>4

\* What a step has to show.
LEMMA ClosingMade ==
  ASSUME AnswersFit, NothingLost, EndsMeet,
         NEW p \in Roles, NEW gone, NEW new, NEW off, NEW sent,
         TasksMove(p, gone, new), WireMoves(p, off, sent), AllOpen => AllOpen',
         UNCHANGED <<up, alive>>,
         p = "callee" => new \cap {"applyAccepted", "applyRejected"} = {},
         p = "caller" => "refuse" \notin new /\ sent \cap {"ACCEPTED", "REJECTED"} = {},
         \A q \in Roles : state'[q] # "LOST",
         outcome' # "none" => Known("caller")',
         pending' => outcome' # "none",
         Inviting' => /\ ~AcceptComing' /\ ~DenyComing'
                      /\ outcome' \notin {"accepted", "denied"},
         AcceptComing' \/ outcome' = "accepted"
           => state'["callee"] \in {"CONNECTED", "CLOSING", "CLOSED"},
         DenyComing' \/ outcome' = "denied" => state'["callee"] \in {"NONE", "CLOSED"},
         \A q \in Roles : state'[q] = "CLOSING" => At(tasks'[q], "sendEnd"),
         EndComing("caller")' => state'["callee"] = "CLOSED",
         EndComing("callee")' => state'["caller"] = "CLOSED",
         state'["callee"] = "CLOSED" =>
           state'["caller"] = "CLOSED" \/ EndComing("caller")' \/ DenyComing',
         state'["caller"] = "CLOSED" /\ state'["callee"] = "CONNECTED" =>
           EndComing("callee")' \/ AcceptComing'
  PROVE  AnswersFit' /\ NothingLost' /\ EndsMeet'
<1>r. "caller" \in Roles /\ "callee" \in Roles /\ Peer("caller") = "callee" /\ Peer("callee") = "caller"
  BY DEF Roles, Peer
<1>d. \A q \in Roles : q = "caller" \/ q = "callee"
  BY DEF Roles
<1>s. /\ {"applyAccepted", "applyRejected", "refuse"} \subseteq Steps
      /\ {"ACCEPTED", "REJECTED"} \subseteq FrameTypes
  BY DEF Steps, HandlerSteps, FrameTypes
<1>1. /\ \A type \in {"ACCEPTED", "REJECTED"} : ~Carries(wire'["callee"], type)
      /\ \A step \in {"applyAccepted", "applyRejected"} : ~At(tasks'["callee"], step)
      /\ ~At(tasks'["caller"], "refuse")
  BY <1>r, <1>d, <1>s DEF AnswersFit, OnlyCalleeAnswers, TasksMove, WireMoves
<1>2. AnswersFit'
  BY <1>1 DEF AnswersFit, OnlyCalleeAnswers
<1>3. NothingLost'
  BY DEF NothingLost, AllOpen
<1>4. EndsMeet'
  BY <1>r, <1>d DEF EndsMeet
<1>. QED BY <1>2, <1>3, <1>4

\* The handlers and frames that matter for how a call closes.
ClosingSteps == {"sendAccept", "applyAccepted", "sendDeny", "refuse", "applyRejected", "applyEnd",
                 "sendEnd"}
ClosingFrames == {"ACCEPTED", "REJECTED", "END"}

LEMMA QuietStep ==
  ASSUME AnswersFit, NothingLost, EndsMeet,
         NEW p \in Roles, NEW gone, NEW new, NEW off, NEW sent,
         TasksMove(p, gone, new), WireMoves(p, off, sent), AllOpen => AllOpen',
         (gone \cup new) \cap ClosingSteps = {}, (off \cup sent) \cap ClosingFrames = {},
         UNCHANGED <<state, outcome, up, alive>>,
         pending' => outcome # "none",
         Inviting' => Inviting
  PROVE  AnswersFit' /\ NothingLost' /\ EndsMeet'
<1>r. "caller" \in Roles /\ "callee" \in Roles /\ Peer("caller") = "callee" /\ Peer("callee") = "caller"
  BY DEF Roles, Peer
<1>1. /\ \A step \in ClosingSteps : step \notin gone /\ step \notin new
      /\ \A type \in ClosingFrames : type \notin off /\ type \notin sent
  OBVIOUS
<1>2. /\ \A step \in {"sendAccept", "applyAccepted", "sendDeny", "refuse", "applyRejected", "applyEnd",
                       "sendEnd"} : step \notin gone /\ step \notin new
      /\ \A type \in {"ACCEPTED", "REJECTED", "END"} : type \notin off /\ type \notin sent
  BY <1>1 DEF ClosingSteps, ClosingFrames
<1>3. new \cap {"sendDeny", "refuse"} = {} /\ gone \cap {"sendDeny", "refuse"} = {}
      /\ new \cap {"applyAccepted", "applyRejected"} = {} /\ sent \cap {"ACCEPTED", "REJECTED"} = {}
  BY <1>2
<1>4. /\ AcceptComing' <=> AcceptComing
      /\ DenyComing' <=> DenyComing
      /\ \A q \in Roles : EndComing(q)' <=> EndComing(q)
  BY <1>2, <1>3, ComingMoves
<1>5. "sendEnd" \in Steps
  BY DEF Steps, ClientSteps
<1>6. \A q \in Roles : At(tasks[q], "sendEnd") => At(tasks'[q], "sendEnd")
  BY <1>2, <1>5 DEF TasksMove
<1>7. /\ \A q \in Roles : state'[q] # "LOST" /\ (state'[q] = "CLOSING" => At(tasks'[q], "sendEnd"))
      /\ outcome' # "none" => Known("caller")'
      /\ pending' => outcome' # "none"
  BY <1>6 DEF NothingLost, EndsMeet, Known
<1>8. /\ Inviting' => ~AcceptComing' /\ ~DenyComing' /\ outcome' \notin {"accepted", "denied"}
      /\ AcceptComing' \/ outcome' = "accepted"
           => state'["callee"] \in {"CONNECTED", "CLOSING", "CLOSED"}
      /\ DenyComing' \/ outcome' = "denied" => state'["callee"] \in {"NONE", "CLOSED"}
  BY <1>4 DEF AnswersFit
<1>9. /\ EndComing("caller")' => state'["callee"] = "CLOSED"
      /\ EndComing("callee")' => state'["caller"] = "CLOSED"
      /\ state'["callee"] = "CLOSED" =>
           state'["caller"] = "CLOSED" \/ EndComing("caller")' \/ DenyComing'
      /\ state'["caller"] = "CLOSED" /\ state'["callee"] = "CONNECTED" =>
           EndComing("callee")' \/ AcceptComing'
  BY <1>r, <1>4 DEF EndsMeet
<1>. QED BY <1>2, <1>3, <1>7, <1>8, <1>9, ClosingMade

\* Only a step of the invite itself can bring it about.
LEMMA InvitingGoes ==
  ASSUME NEW p \in Roles, NEW gone, NEW new, NEW off, NEW sent,
         TasksMove(p, gone, new), WireMoves(p, off, sent),
         new \cap InviteSteps = {}, "INVITE" \notin sent
  PROVE  Inviting' => Inviting
<1>1. /\ "caller" \in Roles /\ "callee" \in Roles /\ "INVITE" \in FrameTypes
      /\ {"numberInvite", "sendInvite", "ring"} \subseteq Steps
      /\ \A step \in {"numberInvite", "sendInvite", "ring"} : step \notin new
  BY DEF Roles, FrameTypes, Steps, ClientSteps, HandlerSteps, InviteSteps
<1>. QED BY <1>1 DEF Inviting, InviteUnsent, InviteInFlight, InviteTaken, TasksMove, WireMoves

\* Speaking, injecting and numbering have nothing to do with it.
LEMMA QuietSteps ==
  ASSUME TypeOK, ClosingInvariant
  PROVE  /\ \A t \in tasks["caller"] :
              NumberInvite(t) \/ SendInvite(t) => AnswersFit' /\ NothingLost' /\ EndsMeet'
         /\ \A p \in Roles : Speak(p) \/ RequestInject(p) \/ ReceiveTurn(p) \/ ReceiveError(p)
              => AnswersFit' /\ NothingLost' /\ EndsMeet'
         /\ \A p \in Roles : \A t \in tasks[p] :
              SendTurn(p, t) \/ ApplyTurn(p, t) \/ SendInject(p, t) \/ Emit(p, t)
                => AnswersFit' /\ NothingLost' /\ EndsMeet'
<1>. USE DEF record, link, promise, bounds
<1>r. "caller" \in Roles /\ "callee" \in Roles
  BY DEF Roles
<1>v. NoPausing /\ RingsOnce /\ AnswersFit /\ NothingLost /\ EndsMeet
  BY DEF ClosingInvariant
<1>a. alive /\ \A p \in Roles : up[p] /\ \A t \in tasks[p] : t.open
  BY <1>v DEF NothingLost
<1>p. pending => outcome # "none"
  BY <1>v DEF NothingLost
<1>f. {"SEND", "HUMAN_INJECT", "ERROR", "INVITE"} \subseteq FrameTypes
  BY DEF FrameTypes
<1>1. ASSUME NEW t \in tasks["caller"], NumberInvite(t) PROVE AnswersFit' /\ NothingLost' /\ EndsMeet'
  <2>1. t.next = "numberInvite" /\ UNCHANGED <<state, wire, outcome, up, alive, pending>>
    BY <1>1 DEF NumberInvite
  <2>2. Inviting
    BY <1>r, <1>v, <2>1, TaskSays
  <2>3. TasksMove("caller", {"numberInvite"}, {"sendInvite"}) /\ (AllOpen => AllOpen')
    <3>. DEFINE u == [next |-> "sendInvite", seq |-> seqOut["caller"] + 1, open |-> t.open]
    <3>1. \A q \in Roles : tasks'[q] = IF q = "caller" THEN (tasks[q] \ {t}) \cup {u} ELSE tasks[q]
      BY <1>1 DEF NumberInvite, TypeOK
    <3>2. u.next = "sendInvite" /\ u.open = t.open
      OBVIOUS
    <3>. HIDE DEF u
    <3>. QED BY <2>1, <3>1, <3>2 DEF TasksMove, At, AllOpen
  <2>4. WireMoves("caller", {}, {})
    BY <1>r, <2>1, WireStays
  <2>. QED BY <1>r, <1>v, <1>p, <2>1, <2>2, <2>3, <2>4, QuietStep DEF ClosingSteps
<1>2. ASSUME NEW t \in tasks["caller"], SendInvite(t) PROVE AnswersFit' /\ NothingLost' /\ EndsMeet'
  <2>1. t.next = "sendInvite" /\ UNCHANGED <<state, outcome, up, alive>>
    BY <1>2 DEF SendInvite
  <2>2. Inviting /\ outcome # "none" /\ t.seq \in Nat
    BY <1>r, <1>v, <2>1, TaskSays
  <2>3. TasksMove("caller", {"sendInvite"}, {}) /\ (AllOpen => AllOpen')
    BY <1>2, <1>r, <2>1, FinishMoves DEF SendInvite
  <2>4. WireMoves("caller", {}, {"INVITE"})
    BY <1>2, <1>r, <1>a, <1>f, <2>2, TransmitMoves DEF SendInvite
  <2>. QED BY <1>r, <1>v, <2>1, <2>2, <2>3, <2>4, QuietStep DEF ClosingSteps, ClosingFrames
<1>3. ASSUME NEW p \in Roles, Speak(p) PROVE AnswersFit' /\ NothingLost' /\ EndsMeet'
  <2>1. UNCHANGED <<state, outcome, up, alive, pending, wire>> /\ Suspend(p, "sendTurn", seqOut[p] + 1)
    BY <1>3 DEF Speak
  <2>2. TasksMove(p, {}, {"sendTurn"}) /\ (AllOpen => AllOpen') /\ WireMoves(p, {}, {})
    BY <2>1, SuspendMoves, WireStays
  <2>3. Inviting' => Inviting
    BY <2>2, InvitingGoes DEF InviteSteps
  <2>. QED BY <1>v, <1>p, <2>1, <2>2, <2>3, QuietStep DEF ClosingSteps
<1>4. ASSUME NEW p \in Roles, RequestInject(p) PROVE AnswersFit' /\ NothingLost' /\ EndsMeet'
  <2>1. UNCHANGED <<state, outcome, up, alive, pending, wire>> /\ Suspend(p, "sendInject", seqOut[p] + 1)
    BY <1>4 DEF RequestInject
  <2>2. TasksMove(p, {}, {"sendInject"}) /\ (AllOpen => AllOpen') /\ WireMoves(p, {}, {})
    BY <2>1, SuspendMoves, WireStays
  <2>3. Inviting' => Inviting
    BY <2>2, InvitingGoes DEF InviteSteps
  <2>. QED BY <1>v, <1>p, <2>1, <2>2, <2>3, QuietStep DEF ClosingSteps
<1>5. ASSUME NEW p \in Roles, ReceiveTurn(p) PROVE AnswersFit' /\ NothingLost' /\ EndsMeet'
  <2>1. /\ UNCHANGED <<state, outcome, up, alive, pending>>
        /\ wire[p] # <<>> /\ Head(wire[p]).type = "SEND"
    BY <1>5 DEF ReceiveTurn, Arrives
  <2>2. CASE TurnAdmitted(p)
    <3>1. TasksMove(p, {}, {"applyTurn"}) /\ (AllOpen => AllOpen') /\ WireMoves(p, {"SEND"}, {})
      BY <1>5, <2>1, <2>2, SuspendMoves, ConsumeMoves DEF ReceiveTurn
    <3>2. Inviting' => Inviting
      BY <3>1, InvitingGoes DEF InviteSteps
    <3>. QED BY <1>v, <1>p, <2>1, <3>1, <3>2, QuietStep DEF ClosingSteps, ClosingFrames
  <2>3. CASE ~TurnAdmitted(p)
    <3>1. TasksMove(p, {}, {}) /\ (AllOpen => AllOpen') /\ WireMoves(p, {"SEND"}, {"ERROR"})
      BY <1>5, <1>a, <2>1, <2>3, TasksStay, ReplyMoves DEF ReceiveTurn
    <3>2. Inviting' => Inviting
      BY <3>1, InvitingGoes
    <3>. QED BY <1>v, <1>p, <2>1, <3>1, <3>2, QuietStep DEF ClosingFrames
  <2>. QED BY <2>2, <2>3
<1>6. ASSUME NEW p \in Roles, ReceiveError(p) PROVE AnswersFit' /\ NothingLost' /\ EndsMeet'
  <2>1. /\ UNCHANGED <<state, outcome, up, alive, pending>>
        /\ wire[p] # <<>> /\ Head(wire[p]).type = "ERROR"
    BY <1>6 DEF ReceiveError, Arrives
  <2>2. TasksMove(p, {}, {}) /\ (AllOpen => AllOpen') /\ WireMoves(p, {"ERROR"}, {})
    BY <1>6, <2>1, TasksStay, ConsumeMoves DEF ReceiveError
  <2>3. Inviting' => Inviting
    BY <2>2, InvitingGoes
  <2>. QED BY <1>v, <1>p, <2>1, <2>2, <2>3, QuietStep DEF ClosingFrames
<1>7. ASSUME NEW p \in Roles, NEW t \in tasks[p], SendTurn(p, t)
      PROVE  AnswersFit' /\ NothingLost' /\ EndsMeet'
  <2>1. t.next = "sendTurn" /\ t.seq \in Nat /\ UNCHANGED <<state, outcome, up, alive, pending>>
    BY <1>7, <1>v, TaskSays DEF SendTurn
  <2>2. TasksMove(p, {"sendTurn"}, {}) /\ (AllOpen => AllOpen') /\ WireMoves(p, {}, {"SEND"})
    BY <1>7, <1>a, <1>f, <2>1, FinishMoves, TransmitMoves DEF SendTurn
  <2>3. Inviting' => Inviting
    BY <2>2, InvitingGoes
  <2>. QED BY <1>v, <1>p, <2>1, <2>2, <2>3, QuietStep DEF ClosingSteps, ClosingFrames
<1>8. ASSUME NEW p \in Roles, NEW t \in tasks[p], ApplyTurn(p, t)
      PROVE  AnswersFit' /\ NothingLost' /\ EndsMeet'
  <2>1. t.next = "applyTurn" /\ UNCHANGED <<state, outcome, up, alive, pending, wire>>
    BY <1>8 DEF ApplyTurn
  <2>2. TasksMove(p, {"applyTurn"}, {"emitMessage"}) /\ (AllOpen => AllOpen') /\ WireMoves(p, {}, {})
    BY <1>8, <2>1, SuspendAgainMoves, WireStays DEF ApplyTurn
  <2>3. Inviting' => Inviting
    BY <2>2, InvitingGoes DEF InviteSteps
  <2>. QED BY <1>v, <1>p, <2>1, <2>2, <2>3, QuietStep DEF ClosingSteps
<1>9. ASSUME NEW p \in Roles, NEW t \in tasks[p], SendInject(p, t)
      PROVE  AnswersFit' /\ NothingLost' /\ EndsMeet'
  <2>1. t.next = "sendInject" /\ t.seq \in Nat /\ UNCHANGED <<state, outcome, up, alive, pending>>
    BY <1>9, <1>v, TaskSays DEF SendInject
  <2>2. TasksMove(p, {"sendInject"}, {}) /\ (AllOpen => AllOpen') /\ WireMoves(p, {}, {"HUMAN_INJECT"})
    BY <1>9, <1>a, <1>f, <2>1, FinishMoves, TransmitMoves DEF SendInject
  <2>3. Inviting' => Inviting
    BY <2>2, InvitingGoes
  <2>. QED BY <1>v, <1>p, <2>1, <2>2, <2>3, QuietStep DEF ClosingSteps, ClosingFrames
<1>10. ASSUME NEW p \in Roles, NEW t \in tasks[p], Emit(p, t)
       PROVE  AnswersFit' /\ NothingLost' /\ EndsMeet'
  <2>1. t.next \notin ClosingSteps /\ UNCHANGED <<state, outcome, up, alive, pending, wire>>
    BY <1>10 DEF Emit, EventOf, ClosingSteps
  <2>2. TasksMove(p, {t.next}, {}) /\ (AllOpen => AllOpen') /\ WireMoves(p, {}, {})
    BY <1>10, <2>1, FinishMoves, WireStays DEF Emit
  <2>3. Inviting' => Inviting
    BY <2>2, InvitingGoes
  <2>. QED BY <1>v, <1>p, <2>1, <2>2, <2>3, QuietStep
<1>. QED BY <1>1, <1>2, <1>3, <1>4, <1>5, <1>6, <1>7, <1>8, <1>9, <1>10

LEMMA StillClosing ==
  ASSUME EndsMeet, NEW p \in Roles, NEW gone, NEW new, TasksMove(p, gone, new), "sendEnd" \notin gone
  PROVE  \A q \in Roles : state[q] = "CLOSING" => At(tasks'[q], "sendEnd")
<1>1. "sendEnd" \in Steps
  BY DEF Steps, ClientSteps
<1>. QED BY <1>1 DEF EndsMeet, TasksMove

\* The callee hears of the call and answers.
LEMMA AnsweringSteps ==
  ASSUME TypeOK, ClosingInvariant
  PROVE  /\ Invite \/ Accept \/ Deny => AnswersFit' /\ NothingLost' /\ EndsMeet'
         /\ \A t \in tasks["callee"] :
              SendAccept(t) \/ SendDeny(t) => AnswersFit' /\ NothingLost' /\ EndsMeet'
         /\ \A p \in Roles : \A t \in tasks[p] :
              Refuse(p, t) \/ Ring(p, t) => AnswersFit' /\ NothingLost' /\ EndsMeet'
<1>. USE DEF record, link, promise, bounds
<1>r. "caller" \in Roles /\ "callee" \in Roles /\ Peer("caller") = "callee" /\ Peer("callee") = "caller"
  BY DEF Roles, Peer
<1>d. \A q \in Roles : q = "caller" \/ q = "callee"
  BY DEF Roles
<1>v. NoPausing /\ RingsOnce /\ AnswersFit /\ NothingLost /\ EndsMeet
  BY DEF ClosingInvariant
<1>a. /\ alive /\ \A p \in Roles : up[p] /\ state[p] # "LOST" /\ \A t \in tasks[p] : t.open
      /\ pending => outcome # "none"
      /\ outcome # "none" => Known("caller")
  BY <1>v DEF NothingLost
<1>e. /\ EndComing("caller") => state["callee"] = "CLOSED"
      /\ EndComing("callee") => state["caller"] = "CLOSED"
      /\ state["callee"] = "CLOSED" =>
           state["caller"] = "CLOSED" \/ EndComing("caller") \/ DenyComing
      /\ state["caller"] = "CLOSED" /\ state["callee"] = "CONNECTED" =>
           EndComing("callee") \/ AcceptComing
  BY <1>r, <1>v DEF EndsMeet
<1>f. {"ACCEPTED", "REJECTED"} \subseteq FrameTypes
  BY DEF FrameTypes
<1>1. ASSUME Accept PROVE AnswersFit' /\ NothingLost' /\ EndsMeet'
  <2>1. /\ UNCHANGED <<outcome, up, alive, pending, wire>>
        /\ state["callee"] = "RINGING"
        /\ state'["callee"] = "CONNECTED" /\ state'["caller"] = state["caller"]
        /\ Suspend("callee", "sendAccept", seqOut["callee"] + 1)
    BY <1>1, <1>r, <1>a DEF Accept, StateOnAccept, TypeOK
  <2>2. /\ TasksMove("callee", {}, {"sendAccept"}) /\ (AllOpen => AllOpen')
        /\ WireMoves("callee", {}, {})
    BY <1>r, <2>1, SuspendMoves, WireStays
  <2>3. ~Inviting /\ ~AcceptComing /\ ~DenyComing /\ ~EndComing("caller")
        /\ outcome \notin {"accepted", "denied"}
    BY <1>v, <1>e, <2>1 DEF RingsOnce, AnswersFit
  <2>4. AcceptComing' /\ ~DenyComing' /\ ~EndComing("caller")' /\ (EndComing("callee")' => EndComing("callee"))
    BY <1>r, <2>2, <2>3, ComingMoves
  <2>5. ~Inviting'
    BY <1>r, <2>2, <2>3, InvitingGoes DEF InviteSteps
  <2>6. \A q \in Roles : /\ state'[q] # "LOST"
                         /\ state'[q] = "CLOSING" => At(tasks'[q], "sendEnd")
    BY <1>r, <1>d, <1>a, <1>v, <2>1, <2>2, StillClosing
  <2>7. outcome' # "none" => Known("caller")'
    BY <1>a, <2>1 DEF Known
  <2>. QED BY <1>r, <1>v, <1>a, <1>e, <2>1, <2>2, <2>3, <2>4, <2>5, <2>6, <2>7, ClosingMade
<1>2. ASSUME Deny PROVE AnswersFit' /\ NothingLost' /\ EndsMeet'
  <2>1. /\ UNCHANGED <<outcome, up, alive, pending, wire>>
        /\ state["callee"] = "RINGING"
        /\ state'["callee"] = "CLOSED" /\ state'["caller"] = state["caller"]
        /\ Suspend("callee", "sendDeny", seqOut["callee"] + 1)
    BY <1>2, <1>r, <1>a DEF Deny, TypeOK
  <2>2. /\ TasksMove("callee", {}, {"sendDeny"}) /\ (AllOpen => AllOpen')
        /\ WireMoves("callee", {}, {})
    BY <1>r, <2>1, SuspendMoves, WireStays
  <2>3. ~Inviting /\ ~AcceptComing /\ ~DenyComing /\ ~EndComing("caller")
        /\ outcome \notin {"accepted", "denied"}
    BY <1>v, <1>e, <2>1 DEF RingsOnce, AnswersFit
  <2>4. ~AcceptComing' /\ DenyComing' /\ ~EndComing("caller")' /\ (EndComing("callee")' => EndComing("callee"))
    BY <1>r, <2>2, <2>3, ComingMoves
  <2>5. ~Inviting'
    BY <1>r, <2>2, <2>3, InvitingGoes DEF InviteSteps
  <2>6. \A q \in Roles : /\ state'[q] # "LOST"
                         /\ state'[q] = "CLOSING" => At(tasks'[q], "sendEnd")
    BY <1>r, <1>d, <1>a, <1>v, <2>1, <2>2, StillClosing
  <2>7. outcome' # "none" => Known("caller")'
    BY <1>a, <2>1 DEF Known
  <2>. QED BY <1>r, <1>v, <1>a, <1>e, <2>1, <2>2, <2>3, <2>4, <2>5, <2>6, <2>7, ClosingMade
<1>3. ASSUME Invite PROVE AnswersFit' /\ NothingLost' /\ EndsMeet'
  <2>1. /\ UNCHANGED <<up, alive, pending, wire>> /\ outcome = "none" /\ outcome' = "waiting"
        /\ state["callee"] = "NONE" /\ state["caller"] = "NONE"
        /\ state'["callee"] = "NONE" /\ state'["caller"] = "DIALING"
        /\ Suspend("caller", "numberInvite", 0)
    BY <1>3, <1>r, <1>v DEF Invite, TypeOK, RingsOnce, NothingBeforeInvite
  <2>2. /\ TasksMove("caller", {}, {"numberInvite"}) /\ (AllOpen => AllOpen')
        /\ WireMoves("caller", {}, {})
    BY <1>r, <2>1, SuspendMoves, WireStays
  <2>3. ~AcceptComing /\ ~DenyComing /\ ~EndComing("caller") /\ ~EndComing("callee")
    <3>1. /\ {"sendAccept", "applyAccepted", "sendDeny", "refuse", "applyRejected", "applyEnd"} \subseteq Steps
          /\ {"ACCEPTED", "REJECTED", "END"} \subseteq FrameTypes
      BY DEF Steps, ClientSteps, HandlerSteps, FrameTypes
    <3>. QED BY <1>r, <1>v, <2>1, <3>1
             DEF RingsOnce, NothingBeforeInvite, AcceptComing, DenyComing, EndComing
  <2>4. ~AcceptComing' /\ ~DenyComing' /\ ~EndComing("caller")' /\ ~EndComing("callee")'
    BY <1>r, <2>2, <2>3, ComingMoves
  <2>5. Known("caller")' /\ \A q \in Roles : state'[q] \notin {"LOST", "CLOSING"}
    BY <1>d, <2>1 DEF Known
  <2>. QED BY <1>r, <1>v, <2>1, <2>2, <2>4, <2>5, ClosingMade
<1>4. ASSUME NEW t \in tasks["callee"], SendAccept(t) PROVE AnswersFit' /\ NothingLost' /\ EndsMeet'
  <2>1. /\ UNCHANGED <<state, outcome, up, alive, pending>>
        /\ t.next = "sendAccept" /\ t.seq \in Nat /\ outcome # "none" /\ t.next \in Steps
        /\ At(tasks["callee"], "sendAccept")
    BY <1>4, <1>r, <1>v, TaskSays DEF SendAccept
  <2>2. /\ TasksMove("callee", {"sendAccept"}, {"emitConnected"}) /\ (AllOpen => AllOpen')
        /\ WireMoves("callee", {}, {"ACCEPTED"})
    BY <1>4, <1>r, <1>a, <1>f, <2>1, SuspendAgainMoves, TransmitMoves DEF SendAccept
  <2>3. AcceptComing
    BY <2>1 DEF AcceptComing
  <2>4. /\ AcceptComing' /\ (DenyComing' <=> DenyComing)
        /\ \A q \in Roles : EndComing(q)' <=> EndComing(q)
    BY <1>r, <2>2, ComingMoves
  <2>5. ~Inviting /\ ~Inviting'
    BY <1>r, <1>v, <2>2, <2>3, InvitingGoes DEF InviteSteps, AnswersFit
  <2>6. \A q \in Roles : /\ state'[q] # "LOST"
                         /\ state'[q] = "CLOSING" => At(tasks'[q], "sendEnd")
    BY <1>r, <1>a, <1>v, <2>1, <2>2, StillClosing
  <2>7. outcome' # "none" => Known("caller")'
    BY <1>a, <2>1 DEF Known
  <2>8. /\ AcceptComing \/ outcome = "accepted"
             => state["callee"] \in {"CONNECTED", "CLOSING", "CLOSED"}
        /\ DenyComing \/ outcome = "denied" => state["callee"] \in {"NONE", "CLOSED"}
    BY <1>v DEF AnswersFit
  <2>. QED BY <1>r, <1>v, <1>e, <2>1, <2>2, <2>3, <2>4, <2>5, <2>6, <2>7, <2>8, ClosingMade
<1>5. ASSUME NEW t \in tasks["callee"], SendDeny(t) PROVE AnswersFit' /\ NothingLost' /\ EndsMeet'
  <2>1. /\ UNCHANGED <<state, outcome, up, alive, pending>>
        /\ t.next = "sendDeny" /\ t.seq \in Nat /\ outcome # "none"
        /\ At(tasks["callee"], "sendDeny")
    BY <1>5, <1>r, <1>v, TaskSays DEF SendDeny
  <2>2. /\ TasksMove("callee", {"sendDeny"}, {}) /\ (AllOpen => AllOpen')
        /\ WireMoves("callee", {}, {"REJECTED"})
    BY <1>5, <1>r, <1>a, <1>f, <2>1, FinishMoves, TransmitMoves DEF SendDeny
  <2>3. DenyComing
    BY <2>1 DEF DenyComing
  <2>4. /\ DenyComing' /\ (AcceptComing' <=> AcceptComing)
        /\ \A q \in Roles : EndComing(q)' <=> EndComing(q)
    BY <1>r, <2>2, ComingMoves
  <2>5. ~Inviting /\ ~Inviting'
    BY <1>r, <1>v, <2>2, <2>3, InvitingGoes DEF AnswersFit
  <2>6. \A q \in Roles : /\ state'[q] # "LOST"
                         /\ state'[q] = "CLOSING" => At(tasks'[q], "sendEnd")
    BY <1>r, <1>a, <1>v, <2>1, <2>2, StillClosing
  <2>7. outcome' # "none" => Known("caller")'
    BY <1>a, <2>1 DEF Known
  <2>8. /\ AcceptComing \/ outcome = "accepted"
             => state["callee"] \in {"CONNECTED", "CLOSING", "CLOSED"}
        /\ DenyComing \/ outcome = "denied" => state["callee"] \in {"NONE", "CLOSED"}
    BY <1>v DEF AnswersFit
  <2>. QED BY <1>r, <1>v, <1>e, <2>1, <2>2, <2>3, <2>4, <2>5, <2>6, <2>7, <2>8, ClosingMade
<1>6. ASSUME NEW p \in Roles, NEW t \in tasks[p], Refuse(p, t)
      PROVE  AnswersFit' /\ NothingLost' /\ EndsMeet'
  <2>1. /\ UNCHANGED <<state, outcome, up, alive, pending>>
        /\ t.next = "refuse" /\ outcome # "none" /\ At(tasks[p], "refuse") /\ p = "callee"
    BY <1>6, <1>d, <1>v, TaskSays DEF Refuse, AnswersFit, OnlyCalleeAnswers
  <2>2. /\ TasksMove("callee", {"refuse"}, {}) /\ (AllOpen => AllOpen')
        /\ WireMoves("callee", {}, {"REJECTED"})
    BY <1>6, <1>r, <1>a, <1>f, <2>1, FinishMoves, TransmitMoves DEF Refuse
  <2>3. DenyComing
    BY <2>1 DEF DenyComing
  <2>4. /\ DenyComing' /\ (AcceptComing' <=> AcceptComing)
        /\ \A q \in Roles : EndComing(q)' <=> EndComing(q)
    BY <1>r, <2>2, ComingMoves
  <2>5. ~Inviting /\ ~Inviting'
    BY <1>r, <1>v, <2>2, <2>3, InvitingGoes DEF AnswersFit
  <2>6. \A q \in Roles : /\ state'[q] # "LOST"
                         /\ state'[q] = "CLOSING" => At(tasks'[q], "sendEnd")
    BY <1>r, <1>a, <1>v, <2>1, <2>2, StillClosing
  <2>7. outcome' # "none" => Known("caller")'
    BY <1>a, <2>1 DEF Known
  <2>8. /\ AcceptComing \/ outcome = "accepted"
             => state["callee"] \in {"CONNECTED", "CLOSING", "CLOSED"}
        /\ DenyComing \/ outcome = "denied" => state["callee"] \in {"NONE", "CLOSED"}
    BY <1>v DEF AnswersFit
  <2>. QED BY <1>r, <1>v, <1>e, <2>1, <2>2, <2>3, <2>4, <2>5, <2>6, <2>7, <2>8, ClosingMade
<1>7. ASSUME NEW p \in Roles, NEW t \in tasks[p], Ring(p, t)
      PROVE  AnswersFit' /\ NothingLost' /\ EndsMeet'
  <2>1. /\ UNCHANGED <<outcome, up, alive, pending, wire>>
        /\ t.next = "ring" /\ outcome # "none" /\ p = "callee" /\ Inviting
    BY <1>7, <1>v, TaskSays DEF Ring
  <2>2. /\ state["callee"] = "NONE"
        /\ state'["callee"] = "RINGING" /\ state'["caller"] = state["caller"]
    BY <1>7, <1>r, <1>v, <2>1 DEF Ring, RingsOnce, TypeOK
  <2>3. /\ TasksMove("callee", {"ring"}, {"emitInvite"}) /\ (AllOpen => AllOpen')
        /\ WireMoves("callee", {}, {})
    BY <1>7, <1>r, <2>1, SuspendAgainMoves, WireStays DEF Ring
  <2>4. /\ ~AcceptComing /\ ~DenyComing /\ outcome \notin {"accepted", "denied"}
        /\ ~EndComing("caller")
    BY <1>v, <1>e, <2>1, <2>2 DEF AnswersFit
  <2>5. /\ ~AcceptComing' /\ ~DenyComing'
        /\ \A q \in Roles : EndComing(q)' <=> EndComing(q)
    BY <1>r, <2>3, <2>4, ComingMoves
  <2>6. \A q \in Roles : /\ state'[q] # "LOST"
                         /\ state'[q] = "CLOSING" => At(tasks'[q], "sendEnd")
    BY <1>r, <1>d, <1>a, <1>v, <2>2, <2>3, StillClosing
  <2>7. outcome' # "none" => Known("caller")'
    BY <1>a, <2>1, <2>2 DEF Known
  <2>. QED BY <1>r, <1>v, <1>e, <2>1, <2>2, <2>3, <2>4, <2>5, <2>6, <2>7, ClosingMade
<1>. QED BY <1>1, <1>2, <1>3, <1>4, <1>5, <1>6, <1>7

\* The frames of the invite, the answer and the end arrive.
LEMMA ArrivingSteps ==
  ASSUME TypeOK, ClosingInvariant, NEW p \in Roles, ReceiveInvite(p) \/ ReceiveForCall(p)
  PROVE  AnswersFit' /\ NothingLost' /\ EndsMeet'
<1>. USE DEF record, link, promise, bounds
<1>r. "caller" \in Roles /\ "callee" \in Roles /\ Peer("caller") = "callee" /\ Peer("callee") = "caller"
  BY DEF Roles, Peer
<1>d. \A q \in Roles : q = "caller" \/ q = "callee"
  BY DEF Roles
<1>v. NoPausing /\ RingsOnce /\ AnswersFit /\ NothingLost /\ EndsMeet
  BY DEF ClosingInvariant
<1>a. /\ alive /\ \A q \in Roles : up[q] /\ state[q] # "LOST" /\ \A t \in tasks[q] : t.open
      /\ pending => outcome # "none"
      /\ outcome # "none" => Known("caller")
  BY <1>v DEF NothingLost
<1>e. /\ EndComing("caller") => state["callee"] = "CLOSED"
      /\ EndComing("callee") => state["caller"] = "CLOSED"
      /\ state["callee"] = "CLOSED" =>
           state["caller"] = "CLOSED" \/ EndComing("caller") \/ DenyComing
      /\ state["caller"] = "CLOSED" /\ state["callee"] = "CONNECTED" =>
           EndComing("callee") \/ AcceptComing
  BY <1>r, <1>v DEF EndsMeet
<1>g. /\ Inviting => ~AcceptComing /\ ~DenyComing /\ outcome \notin {"accepted", "denied"}
      /\ AcceptComing \/ outcome = "accepted"
           => state["callee"] \in {"CONNECTED", "CLOSING", "CLOSED"}
      /\ DenyComing \/ outcome = "denied" => state["callee"] \in {"NONE", "CLOSED"}
  BY <1>v DEF AnswersFit
<1>u. UNCHANGED <<state, outcome, up, alive, pending>>
  BY DEF ReceiveInvite, ReceiveForCall
<1>k. /\ outcome' # "none" => Known("caller")'
      /\ \A q \in Roles : state'[q] # "LOST"
  BY <1>a, <1>u DEF Known
<1>1. CASE ReceiveInvite(p)
  <2>1. /\ Head(wire[p]).type = "INVITE" /\ wire[p] # <<>>
        /\ p = "callee" /\ Inviting /\ InviteInFlight
    BY <1>1, <1>v, FrameSays DEF ReceiveInvite, FrameTypes
  <2>2. state["callee"] = "NONE" /\ ~InviteUnsent /\ ~InviteTaken
    BY <1>v, <2>1 DEF RingsOnce, OneInvite
  <2>3. Consume("callee")
    BY <1>1, <2>1, <2>2 DEF ReceiveInvite, Known
  <2>4. PICK next \in {"ring", "refuse"} : Suspend("callee", next, Head(wire["callee"]).seq)
    BY <1>1, <2>1, <2>2 DEF ReceiveInvite, Known
  <2>5. /\ TasksMove("callee", {}, {next}) /\ (AllOpen => AllOpen')
        /\ WireMoves("callee", {"INVITE"}, {})
    BY <1>r, <2>1, <2>3, <2>4, SuspendMoves, ConsumeMoves
  <2>6. CASE next = "ring"
    BY <1>r, <1>a, <1>u, <1>v, <2>1, <2>5, <2>6, QuietStep DEF ClosingSteps, ClosingFrames
  <2>7. CASE next = "refuse"
    <3>1. ~Inviting'
      <4>1. SingleIn(wire["callee"], "INVITE") /\ "INVITE" \in FrameTypes
            /\ {"numberInvite", "sendInvite", "ring"} \subseteq Steps
        BY <1>v DEF RingsOnce, OneInvite, FrameTypes, Steps, ClientSteps, HandlerSteps
      <4>2. ~Carries(wire'["callee"], "INVITE")
        BY <1>r, <2>1, <2>3, <4>1, ConsumeEffect
      <4>. QED BY <1>r, <2>2, <2>5, <2>7, <4>1, <4>2
               DEF Inviting, InviteUnsent, InviteInFlight, InviteTaken, TasksMove
    <3>2. DenyComing' /\ ~AcceptComing' /\ \A q \in Roles : EndComing(q)' <=> EndComing(q)
      BY <1>r, <1>g, <2>1, <2>5, <2>7, ComingMoves
    <3>3. \A q \in Roles : state'[q] = "CLOSING" => At(tasks'[q], "sendEnd")
      BY <1>r, <1>v, <1>u, <2>5, StillClosing
    <3>. QED BY <1>r, <1>v, <1>a, <1>e, <1>g, <1>u, <1>k, <2>1, <2>2, <2>5, <2>7, <3>1, <3>2, <3>3, ClosingMade
  <2>. QED BY <2>4, <2>6, <2>7
<1>2. CASE ReceiveForCall(p)
  <2>1. PICK type \in DOMAIN StepFor :
          /\ Arrives(p, type)
          /\ IF Known(p) THEN Suspend(p, StepFor[type], Head(wire[p]).seq)
                         ELSE UNCHANGED tasks
    BY <1>2 DEF ReceiveForCall
  <2>2. type \in FrameTypes
    BY DEF StepFor, FrameTypes
  <2>3. /\ Head(wire[p]).type = type /\ wire[p] # <<>> /\ Carries(wire[p], type) /\ outcome # "none"
        /\ type \in {"ACCEPTED", "REJECTED", "HUMAN_INJECT", "END"}
    BY <1>v, <2>1, <2>2, FrameSays DEF StepFor
  <2>4. WireMoves(p, {type}, {})
    BY <1>2, <2>3, ConsumeMoves DEF ReceiveForCall
  <2>5. ASSUME Known(p) PROVE TasksMove(p, {}, {StepFor[type]})
    BY <2>1, <2>5, SuspendMoves
  <2>6. ASSUME ~Known(p) PROVE TasksMove(p, {}, {})
    BY <2>1, <2>6, TasksStay
  <2>7. AllOpen => AllOpen'
    BY <2>1, SuspendMoves, TasksStay
  <2>8. Inviting' => Inviting
    <3>1. {StepFor[type]} \cap InviteSteps = {}
      BY <2>3 DEF StepFor, InviteSteps
    <3>. QED BY <2>4, <2>5, <2>6, <3>1, InvitingGoes
  <2>9. \A q \in Roles : state'[q] = "CLOSING" => At(tasks'[q], "sendEnd")
    BY <1>u, <1>v, <2>5, <2>6, StillClosing
  <2>10. CASE type = "HUMAN_INJECT"
    <3>1. StepFor[type] = "emitInject"
      BY <2>10 DEF StepFor
    <3>. QED BY <1>v, <1>a, <1>u, <2>4, <2>5, <2>6, <2>7, <2>8, <2>10, <3>1, QuietStep
             DEF ClosingSteps, ClosingFrames
  <2>11. CASE type = "ACCEPTED"
    <3>1. StepFor[type] = "applyAccepted"
      BY <2>11 DEF StepFor
    <3>2. p = "caller" /\ AcceptComing /\ Known(p)
      BY <1>d, <1>v, <1>a, <2>2, <2>3, <2>11 DEF AnswersFit, OnlyCalleeAnswers, AcceptComing
    <3>3. AcceptComing' /\ (DenyComing' <=> DenyComing) /\ \A q \in Roles : EndComing(q)' <=> EndComing(q)
      BY <2>4, <2>5, <2>11, <3>1, <3>2, ComingMoves
    <3>. QED BY <1>r, <1>v, <1>a, <1>e, <1>g, <1>u, <1>k, <2>4, <2>5, <2>7, <2>8, <2>9, <3>1, <3>2, <3>3, ClosingMade
  <2>12. CASE type = "REJECTED"
    <3>1. StepFor[type] = "applyRejected"
      BY <2>12 DEF StepFor
    <3>2. p = "caller" /\ DenyComing /\ Known(p)
      BY <1>d, <1>v, <1>a, <2>2, <2>3, <2>12 DEF AnswersFit, OnlyCalleeAnswers, DenyComing
    <3>3. DenyComing' /\ (AcceptComing' <=> AcceptComing) /\ \A q \in Roles : EndComing(q)' <=> EndComing(q)
      BY <2>4, <2>5, <2>12, <3>1, <3>2, ComingMoves
    <3>. QED BY <1>r, <1>v, <1>a, <1>e, <1>g, <1>u, <1>k, <2>4, <2>5, <2>7, <2>8, <2>9, <3>1, <3>2, <3>3, ClosingMade
  <2>13. CASE type = "END"
    <3>1. StepFor[type] = "applyEnd"
      BY <2>13 DEF StepFor
    <3>2. EndComing(p)
      BY <2>3, <2>13 DEF EndComing
    <3>3. CASE Known(p)
      <4>1. /\ (AcceptComing' <=> AcceptComing) /\ (DenyComing' <=> DenyComing)
            /\ \A q \in Roles : EndComing(q)' <=> EndComing(q)
        BY <2>4, <2>5, <2>13, <3>1, <3>2, <3>3, ComingMoves
      <4>. QED BY <1>r, <1>v, <1>a, <1>e, <1>g, <1>u, <1>k, <2>4, <2>5, <2>7, <2>8, <2>9, <3>1, <3>3, <4>1, ClosingMade
    <3>4. CASE ~Known(p)
      <4>1. p = "callee" /\ state["callee"] = "NONE"
        BY <1>d, <1>a, <2>3, <3>4 DEF Known
      <4>2. /\ (AcceptComing' <=> AcceptComing) /\ (DenyComing' <=> DenyComing)
            /\ \A q \in Roles : EndComing(q)' => EndComing(q)
        BY <2>4, <2>6, <2>13, <3>4, ComingMoves
      <4>. QED BY <1>r, <1>v, <1>a, <1>e, <1>g, <1>u, <1>k, <2>4, <2>6, <2>7, <2>8, <2>9, <3>4, <4>1, <4>2, ClosingMade
    <3>. QED BY <3>3, <3>4
  <2>. QED BY <2>3, <2>10, <2>11, <2>12, <2>13
<1>. QED BY <1>1, <1>2

\* The caller takes the answer or gives up; either side ends the call.
LEMMA EndingSteps ==
  ASSUME TypeOK, ClosingInvariant
  PROVE  /\ InviteTimeout => AnswersFit' /\ NothingLost' /\ EndsMeet'
         /\ \A p \in Roles : RequestEnd(p) => AnswersFit' /\ NothingLost' /\ EndsMeet'
         /\ \A p \in Roles : \A t \in tasks[p] :
              ApplyAccepted(p, t) \/ ApplyRejected(p, t) \/ SendEnd(p, t) \/ ApplyEnd(p, t)
                => AnswersFit' /\ NothingLost' /\ EndsMeet'
<1>. USE DEF record, link, promise, bounds
<1>r. "caller" \in Roles /\ "callee" \in Roles /\ Peer("caller") = "callee" /\ Peer("callee") = "caller"
  BY DEF Roles, Peer
<1>d. \A q \in Roles : q = "caller" \/ q = "callee"
  BY DEF Roles
<1>v. NoPausing /\ RingsOnce /\ AnswersFit /\ NothingLost /\ EndsMeet
  BY DEF ClosingInvariant
<1>a. /\ alive /\ \A q \in Roles : up[q] /\ state[q] # "LOST" /\ \A t \in tasks[q] : t.open
      /\ pending => outcome # "none"
      /\ outcome # "none" => Known("caller")
  BY <1>v DEF NothingLost
<1>e. /\ EndComing("caller") => state["callee"] = "CLOSED"
      /\ EndComing("callee") => state["caller"] = "CLOSED"
      /\ state["callee"] = "CLOSED" =>
           state["caller"] = "CLOSED" \/ EndComing("caller") \/ DenyComing
      /\ state["caller"] = "CLOSED" /\ state["callee"] = "CONNECTED" =>
           EndComing("callee") \/ AcceptComing
  BY <1>r, <1>v DEF EndsMeet
<1>g. /\ Inviting => ~AcceptComing /\ ~DenyComing /\ outcome \notin {"accepted", "denied"}
      /\ AcceptComing \/ outcome = "accepted"
           => state["callee"] \in {"CONNECTED", "CLOSING", "CLOSED"}
      /\ DenyComing \/ outcome = "denied" => state["callee"] \in {"NONE", "CLOSED"}
  BY <1>v DEF AnswersFit
\* What SendTimeoutEnd sends.
<1>t. ASSUME SendTimeoutEnd("caller") PROVE WireMoves("caller", {}, {"END"})
  <2>1. seqOut["caller"] + 1 \in Nat /\ "END" \in FrameTypes
    BY <1>r DEF TypeOK, FrameTypes
  <2>. QED BY <1>t, <1>r, <1>a, <2>1, TransmitMoves DEF SendTimeoutEnd
<1>1. ASSUME InviteTimeout PROVE AnswersFit' /\ NothingLost' /\ EndsMeet'
  <2>1. /\ UNCHANGED <<tasks, up, alive>> /\ ~pending' /\ outcome' = "timeout" /\ outcome # "none"
        /\ state'["callee"] = state["callee"]
    BY <1>1, <1>r, <1>a DEF InviteTimeout, TypeOK
  <2>2. TasksMove("caller", {}, {}) /\ (AllOpen => AllOpen')
    BY <1>r, <2>1, TasksStay
  <2>3. CASE state["caller"] = "DIALING"
    <3>1. state'["caller"] = "CLOSED" /\ SendTimeoutEnd("caller")
      BY <1>1, <1>r, <2>3 DEF InviteTimeout, TypeOK
    <3>2. WireMoves("caller", {}, {"END"})
      BY <1>t, <3>1
    <3>3. /\ (AcceptComing' <=> AcceptComing) /\ (DenyComing' <=> DenyComing)
          /\ EndComing("callee")' /\ (EndComing("caller")' => EndComing("caller"))
      BY <1>r, <2>2, <3>2, ComingMoves
    <3>4. Inviting' => Inviting
      BY <1>r, <2>2, <3>2, InvitingGoes
    <3>5. \A q \in Roles : /\ state'[q] # "LOST"
                           /\ state'[q] = "CLOSING" => At(tasks'[q], "sendEnd")
      BY <1>r, <1>d, <1>a, <1>v, <2>1, <2>2, <3>1, StillClosing
    <3>6. Known("caller")'
      BY <3>1 DEF Known
    <3>. QED BY <1>r, <1>v, <1>a, <1>e, <1>g, <2>1, <2>2, <3>1, <3>2, <3>3, <3>4, <3>5, <3>6, ClosingMade
  <2>4. CASE state["caller"] # "DIALING"
    <3>1. UNCHANGED <<state, wire>>
      BY <1>1, <2>4 DEF InviteTimeout
    <3>2. WireMoves("caller", {}, {})
      BY <1>r, <3>1, WireStays
    <3>3. /\ (AcceptComing' <=> AcceptComing) /\ (DenyComing' <=> DenyComing)
          /\ \A q \in Roles : EndComing(q)' <=> EndComing(q)
      BY <1>r, <2>2, <3>2, ComingMoves
    <3>4. Inviting' => Inviting
      BY <1>r, <2>2, <3>2, InvitingGoes
    <3>5. \A q \in Roles : /\ state'[q] # "LOST"
                           /\ state'[q] = "CLOSING" => At(tasks'[q], "sendEnd")
      BY <1>r, <1>d, <1>a, <1>v, <2>1, <2>2, <3>1, StillClosing
    <3>6. Known("caller")'
      BY <1>a, <2>1, <3>1 DEF Known
    <3>. QED BY <1>r, <1>v, <1>a, <1>e, <1>g, <2>1, <2>2, <3>1, <3>2, <3>3, <3>4, <3>5, <3>6, ClosingMade
  <2>. QED BY <2>3, <2>4
<1>2. ASSUME NEW p \in Roles, RequestEnd(p) PROVE AnswersFit' /\ NothingLost' /\ EndsMeet'
  <2>1. /\ UNCHANGED <<outcome, up, alive, pending, wire>>
        /\ Suspend(p, "sendEnd", seqOut[p] + 1)
        /\ state[p] \notin {"NONE", "LOST", "CLOSING", "CLOSED"}
        /\ state'[p] = "CLOSING" /\ \A q \in Roles : q # p => state'[q] = state[q]
    BY <1>2 DEF RequestEnd, Active, Known, TypeOK
  <2>2. /\ TasksMove(p, {}, {"sendEnd"}) /\ (AllOpen => AllOpen')
        /\ WireMoves(p, {}, {})
    BY <2>1, SuspendMoves, WireStays
  <2>3. /\ (AcceptComing' <=> AcceptComing) /\ (DenyComing' <=> DenyComing)
        /\ \A q \in Roles : EndComing(q)' <=> EndComing(q)
    BY <2>2, ComingMoves
  <2>4. Inviting' => Inviting
    BY <2>2, InvitingGoes DEF InviteSteps
  <2>5. \A q \in Roles : /\ state'[q] # "LOST"
                         /\ state'[q] = "CLOSING" => At(tasks'[q], "sendEnd")
    <3>1. At(tasks'[p], "sendEnd")
      BY <2>2 DEF TasksMove, Steps, ClientSteps
    <3>. QED BY <1>a, <1>v, <2>1, <2>2, <3>1, StillClosing
  <2>6. outcome' # "none" => Known("caller")'
    BY <1>r, <1>a, <2>1 DEF Known
  <2>7. CASE p = "caller"
    BY <1>r, <1>v, <1>a, <1>e, <1>g, <2>1, <2>2, <2>3, <2>4, <2>5, <2>6, <2>7, ClosingMade
  <2>8. CASE p = "callee"
    BY <1>r, <1>v, <1>a, <1>e, <1>g, <2>1, <2>2, <2>3, <2>4, <2>5, <2>6, <2>8, ClosingMade
  <2>. QED BY <1>d, <2>7, <2>8
<1>3. ASSUME NEW p \in Roles, NEW t \in tasks[p], ApplyAccepted(p, t)
      PROVE  AnswersFit' /\ NothingLost' /\ EndsMeet'
  <2>1. /\ UNCHANGED <<up, alive>> /\ t.next = "applyAccepted" /\ At(tasks[p], "applyAccepted")
        /\ p = "caller" /\ AcceptComing /\ outcome # "none" /\ Finish("caller", t)
    BY <1>3, <1>d, <1>v, TaskSays DEF ApplyAccepted, AnswersFit, OnlyCalleeAnswers, AcceptComing
  <2>2. TasksMove("caller", {"applyAccepted"}, {}) /\ (AllOpen => AllOpen')
    BY <1>r, <2>1, FinishMoves
  <2>3. CASE TooLate("caller")
    <3>1. /\ UNCHANGED <<state, outcome, pending>> /\ state["caller"] = "CLOSED"
          /\ WireMoves("caller", {}, {"END"})
      BY <1>3, <1>t, <2>1, <2>3 DEF ApplyAccepted, TooLate
    <3>2. /\ (AcceptComing' => AcceptComing) /\ (DenyComing' <=> DenyComing)
          /\ EndComing("callee")' /\ (EndComing("caller")' => EndComing("caller"))
      BY <1>r, <2>2, <3>1, ComingMoves
    <3>3. Inviting' => Inviting
      BY <1>r, <2>2, <3>1, InvitingGoes
    <3>4. /\ outcome' # "none" => Known("caller")'
          /\ \A q \in Roles : /\ state'[q] # "LOST"
                              /\ state'[q] = "CLOSING" => At(tasks'[q], "sendEnd")
      BY <1>r, <1>a, <1>v, <2>2, <3>1, StillClosing DEF Known
    <3>. QED BY <1>r, <1>v, <1>a, <1>e, <1>g, <2>1, <2>2, <3>1, <3>2, <3>3, <3>4, ClosingMade
  <2>4. CASE ~TooLate("caller")
    <3>1. /\ state'["caller"] = "CONNECTED" /\ state'["callee"] = state["callee"]
          /\ outcome' \in {outcome, "accepted"} /\ ~pending' /\ UNCHANGED wire
          /\ state["caller"] # "CLOSED"
      BY <1>3, <1>r, <2>1, <2>4 DEF ApplyAccepted, TooLate, Settle, TypeOK
    <3>2. WireMoves("caller", {}, {})
      BY <1>r, <3>1, WireStays
    <3>3. /\ (AcceptComing' => AcceptComing) /\ (DenyComing' <=> DenyComing)
          /\ \A q \in Roles : EndComing(q)' <=> EndComing(q)
      BY <1>r, <2>2, <3>2, ComingMoves
    <3>4. Inviting' => Inviting
      BY <1>r, <2>2, <3>2, InvitingGoes
    <3>5. /\ outcome' # "none" => Known("caller")'
          /\ \A q \in Roles : /\ state'[q] # "LOST"
                              /\ state'[q] = "CLOSING" => At(tasks'[q], "sendEnd")
      BY <1>r, <1>d, <1>a, <1>v, <2>2, <3>1, StillClosing DEF Known
    <3>. QED BY <1>r, <1>v, <1>a, <1>e, <1>g, <2>1, <2>2, <3>1, <3>2, <3>3, <3>4, <3>5, ClosingMade
  <2>. QED BY <2>3, <2>4
<1>4. ASSUME NEW p \in Roles, NEW t \in tasks[p], ApplyRejected(p, t)
      PROVE  AnswersFit' /\ NothingLost' /\ EndsMeet'
  <2>1. /\ UNCHANGED <<up, alive, wire>> /\ t.next = "applyRejected" /\ At(tasks[p], "applyRejected")
        /\ p = "caller" /\ DenyComing /\ outcome # "none" /\ Finish("caller", t)
    BY <1>4, <1>d, <1>v, TaskSays DEF ApplyRejected, AnswersFit, OnlyCalleeAnswers, DenyComing
  <2>2. /\ TasksMove("caller", {"applyRejected"}, {}) /\ (AllOpen => AllOpen')
        /\ WireMoves("caller", {}, {})
    BY <1>r, <2>1, FinishMoves, WireStays
  <2>3. /\ (AcceptComing' <=> AcceptComing) /\ (DenyComing' => DenyComing)
        /\ \A q \in Roles : EndComing(q)' <=> EndComing(q)
    BY <1>r, <2>2, ComingMoves
  <2>4. Inviting' => Inviting
    BY <1>r, <2>2, InvitingGoes
  <2>5. /\ state'["caller"] = "CLOSED" /\ state'["callee"] = state["callee"]
        /\ outcome' \in {outcome, "denied"} /\ (pending' => pending)
    BY <1>4, <1>r, <2>1 DEF ApplyRejected, TooLate, Settle, TypeOK
  <2>6. /\ outcome' # "none" => Known("caller")'
        /\ \A q \in Roles : /\ state'[q] # "LOST"
                            /\ state'[q] = "CLOSING" => At(tasks'[q], "sendEnd")
    BY <1>r, <1>d, <1>a, <1>v, <2>2, <2>5, StillClosing DEF Known
  <2>. QED BY <1>r, <1>v, <1>a, <1>e, <1>g, <2>1, <2>2, <2>3, <2>4, <2>5, <2>6, ClosingMade
<1>5. ASSUME NEW p \in Roles, NEW t \in tasks[p], SendEnd(p, t)
      PROVE  AnswersFit' /\ NothingLost' /\ EndsMeet'
  <2>1. /\ UNCHANGED <<outcome, up, alive, pending>>
        /\ t.next = "sendEnd" /\ t.seq \in Nat /\ Known(p) /\ outcome # "none"
        /\ state'[p] = "CLOSED" /\ \A q \in Roles : q # p => state'[q] = state[q]
    BY <1>5, <1>v, TaskSays DEF SendEnd, TypeOK
  <2>2. /\ TasksMove(p, {"sendEnd"}, {"emitEnded"}) /\ (AllOpen => AllOpen')
        /\ WireMoves(p, {}, {"END"})
    BY <1>5, <1>a, <2>1, SuspendAgainMoves, TransmitMoves DEF SendEnd, FrameTypes
  <2>3. /\ (AcceptComing' <=> AcceptComing) /\ (DenyComing' <=> DenyComing)
        /\ EndComing(Peer(p))' /\ (EndComing(p)' => EndComing(p))
    BY <2>2, PeerIsRole, ComingMoves
  <2>4. Inviting' => Inviting
    BY <2>2, InvitingGoes DEF InviteSteps
  <2>5. \A q \in Roles : /\ state'[q] # "LOST"
                         /\ state'[q] = "CLOSING" => At(tasks'[q], "sendEnd")
    <3>1. \A q \in Roles : q # p => (At(tasks[q], "sendEnd") => At(tasks'[q], "sendEnd"))
      BY <2>2 DEF TasksMove, Steps, ClientSteps
    <3>. QED BY <1>a, <1>v, <2>1, <3>1 DEF EndsMeet
  <2>6. outcome' # "none" => Known("caller")'
    BY <1>r, <1>a, <2>1 DEF Known
  <2>7. CASE p = "caller"
    BY <1>r, <1>v, <1>a, <1>e, <1>g, <2>1, <2>2, <2>3, <2>4, <2>5, <2>6, <2>7, ClosingMade
  <2>8. CASE p = "callee"
    <3>1. state["callee"] # "NONE"
      BY <2>1, <2>8 DEF Known
    <3>. QED BY <1>r, <1>v, <1>a, <1>e, <1>g, <2>1, <2>2, <2>3, <2>4, <2>5, <2>6, <2>8, <3>1, ClosingMade
  <2>. QED BY <1>d, <2>7, <2>8
<1>6. ASSUME NEW p \in Roles, NEW t \in tasks[p], ApplyEnd(p, t)
      PROVE  AnswersFit' /\ NothingLost' /\ EndsMeet'
  <2>1. /\ UNCHANGED <<outcome, up, alive, pending, wire>>
        /\ t.next = "applyEnd" /\ At(tasks[p], "applyEnd") /\ Known(p) /\ outcome # "none"
        /\ state'[p] = "CLOSED" /\ \A q \in Roles : q # p => state'[q] = state[q]
    <3>1. /\ t.next = "applyEnd"
          /\ UNCHANGED <<outcome, up, alive, pending, wire>>
          /\ state' = [state EXCEPT ![p] = "CLOSED"]
      BY <1>6 DEF ApplyEnd, link, promise
    <3>2. At(tasks[p], "applyEnd") /\ Known(p) /\ outcome # "none"
      BY <3>1, <1>6, <1>v, TaskSays
    <3>3. state'[p] = "CLOSED" /\ \A q \in Roles : q # p => state'[q] = state[q]
      BY <3>1, <1>v DEF TypeOK
    <3>. QED BY <3>1, <3>2, <3>3
  <2>2. /\ TasksMove(p, {"applyEnd"}, {"emitEnded"}) /\ (AllOpen => AllOpen')
        /\ WireMoves(p, {}, {})
    BY <1>6, <2>1, SuspendAgainMoves, WireStays DEF ApplyEnd
  <2>3. /\ (AcceptComing' <=> AcceptComing) /\ (DenyComing' <=> DenyComing)
        /\ \A q \in Roles : EndComing(q)' => EndComing(q)
    BY <2>2, ComingMoves
  <2>4. Inviting' => Inviting
    BY <2>2, InvitingGoes DEF InviteSteps
  <2>5. \A q \in Roles : /\ state'[q] # "LOST"
                         /\ state'[q] = "CLOSING" => At(tasks'[q], "sendEnd")
    BY <1>a, <1>v, <2>1, <2>2, StillClosing
  <2>6. outcome' # "none" => Known("caller")'
    BY <1>r, <1>a, <2>1 DEF Known
  <2>7. EndComing(p)
    BY <2>1 DEF EndComing
  <2>8. CASE p = "caller"
    BY <1>r, <1>v, <1>a, <1>e, <1>g, <2>1, <2>2, <2>3, <2>4, <2>5, <2>6, <2>7, <2>8, ClosingMade
  <2>9. CASE p = "callee"
    <3>1. state["callee"] # "NONE"
      BY <2>1, <2>9 DEF Known
    <3>. QED BY <1>r, <1>v, <1>a, <1>e, <1>g, <2>1, <2>2, <2>3, <2>4, <2>5, <2>6, <2>7, <2>9, <3>1, ClosingMade
  <2>. QED BY <1>d, <2>8, <2>9
<1>. QED BY <1>1, <1>2, <1>3, <1>4, <1>5, <1>6

\* Nobody pauses, no connection breaks and no daemon crashes.
Undisturbed == NobodyPauses /\ MaxFaults = 0

LEMMA ClosingStep ==
  TypeOK /\ ClosingInvariant /\ Undisturbed /\ [Next]_vars => ClosingInvariant'
<1>. SUFFICES ASSUME TypeOK, ClosingInvariant, Undisturbed, [Next]_vars PROVE ClosingInvariant'
  OBVIOUS
<1>r. NoPausing' /\ RingsOnce'
  BY RingStep DEF ClosingInvariant, Undisturbed
<1>. SUFFICES AnswersFit' /\ NothingLost' /\ EndsMeet'
  BY <1>r DEF ClosingInvariant
<1>f. ~Fault /\ ~Reconnect /\ \A p \in Roles : ~NoticeClose(p)
  BY DEF Fault, Break, Crash, Reconnect, NoticeClose, TypeOK, Undisturbed, ClosingInvariant, NothingLost, Roles
<1>p. \A p \in Roles : /\ ~RequestPause(p)
                       /\ \A t \in tasks[p] : ~SendPause(p, t) /\ ~ApplyPause(p, t)
  <2>1. \A p \in Roles : ~RequestPause(p)
    BY DEF RequestPause, Asks, Undisturbed, NobodyPauses
  <2>2. \A p \in Roles : \A t \in tasks[p] : ~SendPause(p, t) /\ ~ApplyPause(p, t)
    BY TaskSays DEF SendPause, ApplyPause, ClosingInvariant
  <2>. QED BY <2>1, <2>2
<1>1. ASSUME NEW p \in Roles, Client(p) PROVE AnswersFit' /\ NothingLost' /\ EndsMeet'
  BY <1>1, <1>p, QuietSteps, AnsweringSteps, EndingSteps DEF Client
<1>2. ASSUME NEW p \in Roles, Receive(p) PROVE AnswersFit' /\ NothingLost' /\ EndsMeet'
  BY <1>2, QuietSteps, ArrivingSteps DEF Receive
<1>3. ASSUME NEW p \in Roles, Resume(p) PROVE AnswersFit' /\ NothingLost' /\ EndsMeet'
  <2>1. PICK t \in tasks[p] :
          \/ p = "caller" /\ (NumberInvite(t) \/ SendInvite(t))
          \/ p = "callee" /\ (SendAccept(t) \/ SendDeny(t))
          \/ Refuse(p, t) \/ Ring(p, t)
          \/ ApplyAccepted(p, t) \/ ApplyRejected(p, t)
          \/ SendTurn(p, t) \/ ApplyTurn(p, t)
          \/ SendPause(p, t) \/ ApplyPause(p, t)
          \/ SendInject(p, t) \/ SendEnd(p, t) \/ ApplyEnd(p, t)
          \/ Emit(p, t)
    BY <1>3 DEF Resume
  <2>2. CASE p = "caller" /\ (NumberInvite(t) \/ SendInvite(t))
    BY <2>2, QuietSteps
  <2>3. CASE (p = "callee" /\ (SendAccept(t) \/ SendDeny(t))) \/ Refuse(p, t) \/ Ring(p, t)
    BY <2>3, AnsweringSteps
  <2>4. CASE ApplyAccepted(p, t) \/ ApplyRejected(p, t) \/ SendEnd(p, t) \/ ApplyEnd(p, t)
    BY <2>4, EndingSteps
  <2>5. CASE SendTurn(p, t) \/ ApplyTurn(p, t) \/ SendInject(p, t) \/ Emit(p, t)
    BY <2>5, QuietSteps
  <2>. QED BY <2>1, <2>2, <2>3, <2>4, <2>5, <1>p
<1>4. ASSUME InviteTimeout PROVE AnswersFit' /\ NothingLost' /\ EndsMeet'
  BY <1>4, EndingSteps
<1>5. ASSUME UNCHANGED vars PROVE AnswersFit' /\ NothingLost' /\ EndsMeet'
  <2>1. UNCHANGED <<state, tasks, wire, outcome, up, alive, pending>>
    BY <1>5 DEF vars
  <2>2. AcceptComing' = AcceptComing /\ DenyComing' = DenyComing /\ Inviting' = Inviting
        /\ (\A p \in Roles : EndComing(p)' = EndComing(p)) /\ Known("caller")' = Known("caller")
    BY <2>1 DEF AcceptComing, DenyComing, EndComing, Inviting, InviteUnsent, InviteInFlight, InviteTaken, Known
  <2>3. AnswersFit' /\ EndsMeet'
    BY <2>1, <2>2 DEF AnswersFit, OnlyCalleeAnswers, EndsMeet, ClosingInvariant, Roles, Peer
  <2>4. NothingLost'
    BY <2>1, <2>2 DEF NothingLost, ClosingInvariant
  <2>. QED BY <2>3, <2>4
<1>. QED BY <1>f, <1>1, <1>2, <1>3, <1>4, <1>5 DEF Next

\* As long as nobody pauses and nothing fails, what the two records say of the
\* end of the call is held together by the answer or the END on its way.
THEOREM ClosingInvariantHolds == Undisturbed => (Spec => []ClosingInvariant)
<1>1. Undisturbed \in BOOLEAN
  BY DEF Undisturbed, NobodyPauses
<1>. SUFFICES ASSUME Undisturbed PROVE Spec => []ClosingInvariant
  BY <1>1
<1>2. ASSUME Init PROVE ClosingInvariant
  <2>1. /\ \A p \in Roles : /\ state[p] = "NONE" /\ up[p] /\ tasks[p] = {}
                            /\ \A step : ~At(tasks[p], step)
                            /\ \A type : ~Carries(wire[p], type)
        /\ alive /\ ~pending /\ outcome = "none"
    BY <1>2, EmptyContents DEF Init, At
  <2>2. "caller" \in Roles /\ "callee" \in Roles
    BY DEF Roles
  <2>3. ~AcceptComing /\ ~DenyComing /\ \A p \in Roles : ~EndComing(p)
    BY <2>1, <2>2 DEF AcceptComing, DenyComing, EndComing
  <2>4. AnswersFit
    BY <2>1, <2>2, <2>3 DEF AnswersFit, OnlyCalleeAnswers
  <2>5. NothingLost /\ EndsMeet
    BY <2>1, <2>2, <2>3 DEF NothingLost, EndsMeet
  <2>. QED BY <1>2, <2>4, <2>5, RingInit DEF ClosingInvariant
<1>3. TypeOK /\ ClosingInvariant /\ [Next]_vars => ClosingInvariant'
  BY ClosingStep
<1>. QED BY <1>2, <1>3, CallTypeCorrect, PTL DEF Spec

\* When everything has settled without a fault, the two records agree that the
\* call is over, except that the callee may ring on after the caller gave up.
THEOREM ClosesAtBothSides == Undisturbed => (Spec => []CloseAgreement)
<1>1. ClosingInvariant => CloseAgreement
  <2>. SUFFICES ASSUME ClosingInvariant, Quiet PROVE
         /\ state["callee"] = "CLOSED" => state["caller"] = "CLOSED"
         /\ state["caller"] = "CLOSED" => state["callee"] \notin {"CONNECTED", "CLOSING"}
    BY DEF CloseAgreement
  <2>1. \A p \in Roles : /\ \A step : ~At(tasks[p], step)
                         /\ \A type : ~Carries(wire[p], type)
    BY EmptyContents DEF Quiet, At
  <2>2. "caller" \in Roles /\ "callee" \in Roles
    BY DEF Roles
  <2>3. ~AcceptComing /\ ~DenyComing /\ \A p \in Roles : ~EndComing(p)
    BY <2>1, <2>2 DEF AcceptComing, DenyComing, EndComing
  <2>. QED BY <2>1, <2>2, <2>3 DEF ClosingInvariant, EndsMeet
<1>. QED BY <1>1, ClosingInvariantHolds, PTL

\* What invite() reports is what the callee did, whatever answer, timer and END
\* raced, as long as nobody pauses and nothing fails.
THEOREM ReportIsHonest == Undisturbed => (Spec => []OutcomeHonest)
<1>1. ClosingInvariant => OutcomeHonest
  BY DEF ClosingInvariant, AnswersFit, OutcomeHonest
<1>. QED BY <1>1, ClosingInvariantHolds, PTL

---------------------------------------------------------------------------
(* An invite that was given up stays down, whatever is lost or crashes, when *)
(* clients wait for their answers and nobody pauses.                       *)

\* A step that adds neither an answer at the callee nor an invite.
LEMMA AnswersGrow ==
  ASSUME OnlyCalleeAnswers, NEW p \in Roles, NEW steps, NEW types,
         TasksGrow(p, steps), WireGrows(Peer(p), types),
         p = "caller" => "refuse" \notin steps /\ types \cap {"ACCEPTED", "REJECTED"} = {},
         p = "callee" => steps \cap {"applyAccepted", "applyRejected"} = {}
  PROVE  /\ OnlyCalleeAnswers'
         /\ p = "callee" \/ steps \cap {"numberInvite", "sendInvite"} = {}
              => (InviteUnsent' => InviteUnsent)
<1>r. /\ "caller" \in Roles /\ "callee" \in Roles
      /\ (p = "caller" /\ Peer(p) = "callee") \/ (p = "callee" /\ Peer(p) = "caller")
  BY DEF Roles, Peer
<1>s. /\ {"applyAccepted", "applyRejected", "refuse", "numberInvite", "sendInvite"} \subseteq Steps
      /\ {"ACCEPTED", "REJECTED"} \subseteq FrameTypes
  BY DEF Steps, ClientSteps, HandlerSteps, FrameTypes
<1>1. /\ \A q \in Roles, step \in {"applyAccepted", "applyRejected", "refuse", "numberInvite", "sendInvite"} :
           At(tasks'[q], step) => At(tasks[q], step) \/ (q = p /\ step \in steps)
      /\ \A q \in Roles, type \in {"ACCEPTED", "REJECTED"} :
           Carries(wire'[q], type) => Carries(wire[q], type) \/ (q = Peer(p) /\ type \in types)
  BY <1>s DEF TasksGrow, WireGrows
<1>2. OnlyCalleeAnswers'
  BY <1>r, <1>1 DEF OnlyCalleeAnswers
<1>3. p = "callee" \/ steps \cap {"numberInvite", "sendInvite"} = {} => (InviteUnsent' => InviteUnsent)
  BY <1>r, <1>1 DEF InviteUnsent
<1>. QED BY <1>2, <1>3

\* Most steps leave the caller's record and its promise alone.
LEMMA GivenUpKept ==
  ASSUME GivenUpInvariant, NEW p \in Roles, NEW steps, NEW types,
         TasksGrow(p, steps), WireGrows(Peer(p), types),
         p = "caller" => /\ steps \cap {"refuse", "numberInvite", "sendInvite"} = {}
                         /\ types \cap {"ACCEPTED", "REJECTED"} = {},
         p = "callee" => steps \cap {"applyAccepted", "applyRejected"} = {},
         UNCHANGED <<pending, outcome>>, state'["caller"] = state["caller"]
  PROVE  GivenUpInvariant'
<1>1. OnlyCalleeAnswers' /\ (InviteUnsent' => InviteUnsent)
  BY AnswersGrow DEF GivenUpInvariant, Roles
<1>. QED BY <1>1 DEF GivenUpInvariant

\* The clients' requests, and frames that come off the wire.
LEMMA RequestsStayGivenUp ==
  ASSUME TypeOK, RingsOnce, NoPausing, NobodyPauses, GivenUpInvariant
  PROVE  /\ Accept \/ Deny => GivenUpInvariant'
         /\ \A p \in Roles :
              Speak(p) \/ RequestPause(p) \/ RequestInject(p) \/ ReceiveInvite(p) \/ ReceiveTurn(p)
                \/ ReceiveForCall(p) \/ ReceiveError(p) => GivenUpInvariant'
<1>. USE DEF record, link, promise, bounds
<1>r. "caller" \in Roles /\ "callee" \in Roles
  BY DEF Roles
<1>1. ASSUME Accept PROVE GivenUpInvariant'
  <2>1. TasksGrow("callee", {"sendAccept"})
    <3>1. Suspend("callee", "sendAccept", seqOut["callee"] + 1) \/ UNCHANGED tasks
      BY <1>1 DEF Accept
    <3>. QED BY <1>r, <3>1, Growth, TasksGrowMore
  <2>2. WireGrows(Peer("callee"), {}) /\ UNCHANGED <<pending, outcome>> /\ state'["caller"] = state["caller"]
    BY <1>1, <1>r, Growth DEF Accept, TypeOK
  <2>. QED BY <1>r, <2>1, <2>2, GivenUpKept
<1>2. ASSUME Deny PROVE GivenUpInvariant'
  <2>1. TasksGrow("callee", {"sendDeny"})
    <3>1. Suspend("callee", "sendDeny", seqOut["callee"] + 1) \/ UNCHANGED tasks
      BY <1>2 DEF Deny
    <3>. QED BY <1>r, <3>1, Growth, TasksGrowMore
  <2>2. WireGrows(Peer("callee"), {}) /\ UNCHANGED <<pending, outcome>> /\ state'["caller"] = state["caller"]
    BY <1>2, <1>r, Growth DEF Deny, TypeOK
  <2>. QED BY <1>r, <2>1, <2>2, GivenUpKept
<1>3. ASSUME NEW p \in Roles, Speak(p) PROVE GivenUpInvariant'
  <2>1. /\ TasksGrow(p, {"sendTurn"}) /\ WireGrows(Peer(p), {})
        /\ UNCHANGED <<pending, outcome>> /\ state'["caller"] = state["caller"]
    BY <1>3, Growth DEF Speak
  <2>. QED BY <2>1, GivenUpKept
<1>4. ASSUME NEW p \in Roles, RequestPause(p) PROVE GivenUpInvariant'
  BY <1>4 DEF RequestPause, Asks, NobodyPauses
<1>5. ASSUME NEW p \in Roles, RequestInject(p) PROVE GivenUpInvariant'
  <2>1. /\ TasksGrow(p, {"sendInject"}) /\ WireGrows(Peer(p), {})
        /\ UNCHANGED <<pending, outcome>> /\ state'["caller"] = state["caller"]
    BY <1>5, Growth DEF RequestInject
  <2>. QED BY <2>1, GivenUpKept
<1>6. ASSUME NEW p \in Roles, ReceiveInvite(p) PROVE GivenUpInvariant'
  <2>1. /\ wire[p] # <<>> /\ p = "callee"
        /\ UNCHANGED <<pending, outcome>> /\ state'["caller"] = state["caller"]
    BY <1>6, FrameSays DEF ReceiveInvite, FrameTypes
  <2>2. CASE Known(p)
    <3>1. TasksGrow(p, {}) /\ WireGrows(Peer(p), {"ERROR"})
      BY <1>6, <2>1, <2>2, Growth, ReplyGrowth DEF ReceiveInvite
    <3>. QED BY <2>1, <3>1, GivenUpKept
  <2>3. CASE ~Known(p)
    <3>1. PICK next \in {"ring", "refuse"} : Suspend(p, next, Head(wire[p]).seq)
      BY <1>6, <2>3 DEF ReceiveInvite
    <3>2. TasksGrow(p, {next}) /\ WireGrows(Peer(p), {})
      BY <1>6, <2>1, <2>3, <3>1, Growth DEF ReceiveInvite
    <3>. QED BY <2>1, <3>2, GivenUpKept
  <2>. QED BY <2>2, <2>3
<1>7. ASSUME NEW p \in Roles, ReceiveTurn(p) PROVE GivenUpInvariant'
  <2>1. /\ wire[p] # <<>> /\ UNCHANGED <<pending, outcome>> /\ state'["caller"] = state["caller"]
    BY <1>7, FrameSays DEF ReceiveTurn, FrameTypes
  <2>2. CASE TurnAdmitted(p)
    <3>1. TasksGrow(p, {"applyTurn"}) /\ WireGrows(Peer(p), {})
      BY <1>7, <2>1, <2>2, Growth DEF ReceiveTurn
    <3>. QED BY <2>1, <3>1, GivenUpKept
  <2>3. CASE ~TurnAdmitted(p)
    <3>1. TasksGrow(p, {}) /\ WireGrows(Peer(p), {"ERROR"})
      BY <1>7, <2>1, <2>3, Growth, ReplyGrowth DEF ReceiveTurn
    <3>. QED BY <2>1, <3>1, GivenUpKept
  <2>. QED BY <2>2, <2>3
<1>8. ASSUME NEW p \in Roles, ReceiveForCall(p) PROVE GivenUpInvariant'
  <2>1. PICK type \in DOMAIN StepFor :
          /\ Arrives(p, type)
          /\ IF Known(p) THEN Suspend(p, StepFor[type], Head(wire[p]).seq)
                         ELSE UNCHANGED tasks
    BY <1>8 DEF ReceiveForCall
  <2>2. type \in FrameTypes
    BY DEF StepFor, FrameTypes
  <2>3. wire[p] # <<>> /\ Carries(wire[p], type)
    BY <2>1, <2>2, FrameSays
  <2>4. type \in {"ACCEPTED", "REJECTED"} => p = "caller"
    BY <2>3 DEF GivenUpInvariant, OnlyCalleeAnswers, Roles
  <2>5. /\ StepFor[type] \notin {"refuse", "numberInvite", "sendInvite"}
        /\ p = "callee" => StepFor[type] \notin {"applyAccepted", "applyRejected"}
    BY <2>4 DEF StepFor
  <2>6. /\ WireGrows(Peer(p), {})
        /\ UNCHANGED <<pending, outcome>> /\ state'["caller"] = state["caller"]
    BY <1>8, <2>3, Growth DEF ReceiveForCall
  <2>7. TasksGrow(p, {StepFor[type]})
    BY <2>1, Growth, TasksGrowMore
  <2>. QED BY <2>5, <2>6, <2>7, GivenUpKept
<1>9. ASSUME NEW p \in Roles, ReceiveError(p) PROVE GivenUpInvariant'
  <2>1. wire[p] # <<>> /\ UNCHANGED <<pending, outcome>> /\ state'["caller"] = state["caller"]
    BY <1>9, FrameSays DEF ReceiveError, FrameTypes
  <2>2. TasksGrow(p, {}) /\ WireGrows(Peer(p), {})
    BY <1>9, <2>1, Growth DEF ReceiveError
  <2>. QED BY <2>1, <2>2, GivenUpKept
<1>. QED BY <1>1, <1>2, <1>3, <1>4, <1>5, <1>6, <1>7, <1>8, <1>9

\* Handlers that leave the caller's record and its promise alone.
LEMMA ResumesStayGivenUp ==
  ASSUME TypeOK, RingsOnce, NoPausing, GivenUpInvariant
  PROVE  /\ \A t \in tasks["callee"] : SendAccept(t) \/ SendDeny(t) => GivenUpInvariant'
         /\ \A p \in Roles : \A t \in tasks[p] :
              Refuse(p, t) \/ Ring(p, t) \/ SendTurn(p, t) \/ ApplyTurn(p, t) \/ SendInject(p, t)
                \/ Emit(p, t) => GivenUpInvariant'
<1>. USE DEF record, link, promise, bounds
<1>r. "caller" \in Roles /\ "callee" \in Roles
  BY DEF Roles
<1>s. ASSUME NEW p \in Roles, NEW type \in {"ACCEPTED", "REJECTED", "SEND", "HUMAN_INJECT"}, NEW n \in Nat,
             Transmit(p, Frame(type, n)) \/ UNCHANGED wire
      PROVE  WireGrows(Peer(p), {type})
  BY <1>s, SendGrowth DEF FrameTypes
<1>1. ASSUME NEW t \in tasks["callee"], SendAccept(t) PROVE GivenUpInvariant'
  <2>1. t.next = "sendAccept" /\ t.seq \in Nat
    BY <1>1, <1>r, TaskSays DEF SendAccept
  <2>2. TasksGrow("callee", {"emitConnected"})
    BY <1>1, <1>r, <2>1, Growth DEF SendAccept
  <2>3. WireGrows(Peer("callee"), {"ACCEPTED"})
    BY <1>1, <1>r, <1>s, <2>1 DEF SendAccept
  <2>4. UNCHANGED <<pending, outcome>> /\ state'["caller"] = state["caller"]
    BY <1>1 DEF SendAccept
  <2>. QED BY <1>r, <2>2, <2>3, <2>4, GivenUpKept
<1>2. ASSUME NEW t \in tasks["callee"], SendDeny(t) PROVE GivenUpInvariant'
  <2>1. t.next = "sendDeny" /\ t.seq \in Nat
    BY <1>2, <1>r, TaskSays DEF SendDeny
  <2>2. TasksGrow("callee", {})
    BY <1>2, <1>r, Growth DEF SendDeny
  <2>3. WireGrows(Peer("callee"), {"REJECTED"})
    BY <1>2, <1>r, <1>s, <2>1 DEF SendDeny
  <2>4. UNCHANGED <<pending, outcome>> /\ state'["caller"] = state["caller"]
    BY <1>2 DEF SendDeny
  <2>. QED BY <1>r, <2>2, <2>3, <2>4, GivenUpKept
<1>3. ASSUME NEW p \in Roles, NEW t \in tasks[p], Refuse(p, t) PROVE GivenUpInvariant'
  <2>1. p = "callee"
    BY <1>3, TaskSays DEF Refuse, GivenUpInvariant, OnlyCalleeAnswers, Roles
  <2>2. TasksGrow(p, {})
    BY <1>3, Growth DEF Refuse
  <2>3. WireGrows(Peer(p), {"REJECTED"})
    BY <1>3, <1>s DEF Refuse
  <2>4. UNCHANGED <<pending, outcome>> /\ state'["caller"] = state["caller"]
    BY <1>3 DEF Refuse
  <2>. QED BY <2>1, <2>2, <2>3, <2>4, GivenUpKept
<1>4. ASSUME NEW p \in Roles, NEW t \in tasks[p], Ring(p, t) PROVE GivenUpInvariant'
  <2>1. t.next = "ring" /\ p = "callee"
    BY <1>4, TaskSays DEF Ring
  <2>2. TasksGrow(p, {"emitInvite"}) /\ WireGrows(Peer(p), {})
    BY <1>4, <2>1, Growth DEF Ring
  <2>3. UNCHANGED <<pending, outcome>> /\ state'["caller"] = state["caller"]
    BY <1>4, <2>1 DEF Ring, TypeOK
  <2>. QED BY <2>1, <2>2, <2>3, GivenUpKept
<1>5. ASSUME NEW p \in Roles, NEW t \in tasks[p], SendTurn(p, t) PROVE GivenUpInvariant'
  <2>1. t.seq \in Nat
    BY TaskSays
  <2>2. TasksGrow(p, {}) /\ UNCHANGED <<pending, outcome>> /\ state'["caller"] = state["caller"]
    BY <1>5, Growth DEF SendTurn
  <2>3. WireGrows(Peer(p), {"SEND"})
    BY <1>5, <1>s, <2>1 DEF SendTurn
  <2>. QED BY <2>2, <2>3, GivenUpKept
<1>6. ASSUME NEW p \in Roles, NEW t \in tasks[p], ApplyTurn(p, t) PROVE GivenUpInvariant'
  <2>1. t.next = "applyTurn"
    BY <1>6 DEF ApplyTurn
  <2>2. /\ TasksGrow(p, {"emitMessage"}) /\ WireGrows(Peer(p), {})
        /\ UNCHANGED <<pending, outcome>> /\ state'["caller"] = state["caller"]
    BY <1>6, <2>1, Growth DEF ApplyTurn
  <2>. QED BY <2>2, GivenUpKept
<1>7. ASSUME NEW p \in Roles, NEW t \in tasks[p], SendInject(p, t) PROVE GivenUpInvariant'
  <2>1. t.seq \in Nat
    BY TaskSays
  <2>2. TasksGrow(p, {}) /\ UNCHANGED <<pending, outcome>> /\ state'["caller"] = state["caller"]
    BY <1>7, Growth DEF SendInject
  <2>3. WireGrows(Peer(p), {"HUMAN_INJECT"})
    BY <1>7, <1>s, <2>1 DEF SendInject
  <2>. QED BY <2>2, <2>3, GivenUpKept
<1>8. ASSUME NEW p \in Roles, NEW t \in tasks[p], Emit(p, t) PROVE GivenUpInvariant'
  <2>1. /\ TasksGrow(p, {}) /\ WireGrows(Peer(p), {})
        /\ UNCHANGED <<pending, outcome>> /\ state'["caller"] = state["caller"]
    BY <1>8, Growth DEF Emit
  <2>. QED BY <2>1, GivenUpKept
<1>. QED BY <1>1, <1>2, <1>3, <1>4, <1>5, <1>6, <1>7, <1>8

\* The steps that touch the caller's promise, and those that close a call.
LEMMA SettlingStaysGivenUp ==
  ASSUME Serial, TypeOK, RingsOnce, NoPausing, FloorInvariant, GivenUpInvariant
  PROVE  /\ Invite \/ InviteTimeout => GivenUpInvariant'
         /\ \A t \in tasks["caller"] : NumberInvite(t) \/ SendInvite(t) => GivenUpInvariant'
         /\ \A p \in Roles : RequestEnd(p) => GivenUpInvariant'
         /\ \A p \in Roles : \A t \in tasks[p] :
              ApplyAccepted(p, t) \/ ApplyRejected(p, t) \/ SendEnd(p, t) \/ ApplyEnd(p, t)
                => GivenUpInvariant'
<1>. USE DEF record, link, promise, bounds
<1>r. "caller" \in Roles /\ "callee" \in Roles /\ \A p \in Roles : p = "caller" \/ p = "callee"
  BY DEF Roles
<1>g. /\ OnlyCalleeAnswers
      /\ pending => ~InviteUnsent
      /\ pending \/ InviteUnsent => outcome = "waiting" /\ state["caller"] \in {"DIALING", "CLOSED"}
      /\ outcome \in {"timeout", "denied"} => state["caller"] \in {"CLOSED", "LOST"}
  BY DEF GivenUpInvariant
<1>1. ASSUME Invite PROVE GivenUpInvariant'
  <2>1. /\ outcome = "none" /\ outcome' = "waiting" /\ pending' = pending
        /\ state'["caller"] = "DIALING"
    BY <1>1, <1>r DEF Invite, TypeOK
  <2>2. TasksGrow("caller", {"numberInvite"}) /\ WireGrows(Peer("caller"), {})
    BY <1>1, <1>r, Growth DEF Invite
  <2>3. OnlyCalleeAnswers'
    BY <1>r, <1>g, <2>2, AnswersGrow
  <2>. QED BY <1>g, <2>1, <2>3 DEF GivenUpInvariant
<1>2. ASSUME InviteTimeout PROVE GivenUpInvariant'
  <2>1. /\ pending /\ ~pending' /\ outcome' = "timeout" /\ UNCHANGED tasks
        /\ state'["caller"] = "CLOSED"
    BY <1>2, <1>r, <1>g DEF InviteTimeout, TypeOK
  <2>2. WireGrows(Peer("caller"), {"END"})
    <3>1. CASE state["caller"] = "DIALING"
      BY <1>2, <1>r, <3>1, TimeoutEndGrowth DEF InviteTimeout
    <3>2. CASE state["caller"] # "DIALING"
      BY <1>2, <3>2 DEF InviteTimeout, WireGrows
    <3>. QED BY <3>1, <3>2
  <2>3. TasksGrow("caller", {})
    BY <1>r, <2>1, Growth
  <2>4. OnlyCalleeAnswers' /\ (InviteUnsent' => InviteUnsent)
    BY <1>r, <1>g, <2>2, <2>3, AnswersGrow
  <2>. QED BY <1>g, <2>1, <2>4 DEF GivenUpInvariant
<1>3. ASSUME NEW t \in tasks["caller"], NumberInvite(t) PROVE GivenUpInvariant'
  <2>1. /\ InviteUnsent
        /\ UNCHANGED <<pending, outcome, wire>> /\ state'["caller"] = state["caller"]
    BY <1>3, <1>r, TaskSays DEF NumberInvite
  <2>2. TasksGrow("caller", {"sendInvite"})
    <3>. DEFINE u == [next |-> "sendInvite", seq |-> seqOut["caller"] + 1, open |-> t.open]
    <3>1. /\ u.next = "sendInvite"
          /\ \A q \in Roles : tasks'[q] = IF q = "caller" THEN (tasks[q] \ {t}) \cup {u} ELSE tasks[q]
      BY <1>3, <1>r DEF NumberInvite, TypeOK
    <3>. HIDE DEF u
    <3>. QED BY <3>1 DEF TasksGrow, At, SingleAt
  <2>3. WireGrows(Peer("caller"), {})
    BY <2>1 DEF WireGrows
  <2>4. OnlyCalleeAnswers'
    BY <1>r, <1>g, <2>2, <2>3, AnswersGrow
  <2>. QED BY <1>g, <2>1, <2>4 DEF GivenUpInvariant
<1>4. ASSUME NEW t \in tasks["caller"], SendInvite(t) PROVE GivenUpInvariant'
  <2>1. /\ InviteUnsent /\ t.next = "sendInvite" /\ t.seq \in Nat /\ Finish("caller", t)
        /\ pending' /\ UNCHANGED outcome /\ state'["caller"] = state["caller"]
    BY <1>4, <1>r, TaskSays DEF SendInvite
  <2>2. TasksGrow("caller", {})
    BY <1>r, <2>1, Growth
  <2>3. WireGrows(Peer("caller"), {"INVITE"})
    BY <1>4, <1>r, <2>1, SendGrowth DEF SendInvite, FrameTypes
  <2>4. ~InviteUnsent'
    <3>1. SingleAt(tasks["caller"], "sendInvite") /\ ~At(tasks["caller"], "numberInvite")
      BY <2>1 DEF RingsOnce, OneInvite, At
    <3>2. {"numberInvite", "sendInvite"} \subseteq Steps
      BY DEF Steps, ClientSteps
    <3>. QED BY <1>r, <2>1, <3>1, <3>2, FinishEffect DEF InviteUnsent
  <2>5. OnlyCalleeAnswers'
    BY <1>r, <1>g, <2>2, <2>3, AnswersGrow
  <2>. QED BY <1>g, <2>1, <2>4, <2>5 DEF GivenUpInvariant
<1>5. ASSUME NEW p \in Roles, RequestEnd(p) PROVE GivenUpInvariant'
  <2>1. /\ TasksGrow(p, {"sendEnd"}) /\ WireGrows(Peer(p), {})
        /\ UNCHANGED <<pending, outcome>>
    BY <1>5, Growth DEF RequestEnd
  <2>2. CASE p = "callee"
    <3>1. state'["caller"] = state["caller"]
      BY <1>5, <2>2 DEF RequestEnd, TypeOK
    <3>. QED BY <2>1, <2>2, <3>1, GivenUpKept
  <2>3. CASE p = "caller"
    <3>1. outcome # "waiting" /\ state["caller"] \notin {"CLOSED", "LOST"}
      BY <1>5, <2>3 DEF RequestEnd, Asks, Busy, Active, Known
    <3>2. OnlyCalleeAnswers' /\ (InviteUnsent' => InviteUnsent)
      BY <1>g, <2>1, <2>3, AnswersGrow
    <3>. QED BY <1>g, <2>1, <3>1, <3>2 DEF GivenUpInvariant
  <2>. QED BY <1>r, <2>2, <2>3
<1>6. ASSUME NEW p \in Roles, NEW t \in tasks[p], ApplyAccepted(p, t) \/ ApplyRejected(p, t)
      PROVE  GivenUpInvariant'
  <2>1. /\ t.next \in {"applyAccepted", "applyRejected"} /\ p = "caller"
        /\ Known("caller") /\ ~InviteUnsent
    <3>1. t.next \in {"applyAccepted", "applyRejected"} /\ At(tasks[p], t.next)
      BY <1>6, TaskSays DEF ApplyAccepted, ApplyRejected
    <3>2. p = "caller"
      BY <1>r, <1>g, <3>1 DEF OnlyCalleeAnswers
    <3>3. Known("caller") /\ ~Inviting
      BY <3>1, <3>2, TaskMeans
    <3>. QED BY <3>1, <3>2, <3>3 DEF Inviting
  <2>2. TasksGrow("caller", {})
    BY <1>6, <1>r, <2>1, Growth DEF ApplyAccepted, ApplyRejected
  <2>3. WireGrows(Peer("caller"), {"END"})
    <3>1. SendTimeoutEnd("caller") \/ UNCHANGED wire
      BY <1>6, <2>1 DEF ApplyAccepted, ApplyRejected
    <3>2. CASE UNCHANGED wire
      BY <3>2 DEF WireGrows
    <3>. QED BY <1>r, <3>1, <3>2, TimeoutEndGrowth
  <2>4. OnlyCalleeAnswers' /\ ~InviteUnsent'
    BY <1>r, <1>g, <2>1, <2>2, <2>3, AnswersGrow
  <2>5. CASE TooLate(p)
    <3>1. UNCHANGED <<state, pending, outcome>>
      BY <1>6, <2>5 DEF ApplyAccepted, ApplyRejected
    <3>. QED BY <1>g, <2>4, <3>1 DEF GivenUpInvariant
  <2>6. CASE ~TooLate(p)
    <3>1. state["caller"] \notin {"CLOSED", "LOST"}
      BY <2>1, <2>6 DEF TooLate, Known
    <3>2. \/ state'["caller"] = "CONNECTED" /\ Settle("accepted")
          \/ state'["caller"] = "CLOSED" /\ Settle("denied")
      BY <1>6, <1>r, <2>1, <2>6 DEF ApplyAccepted, ApplyRejected, TypeOK
    <3>. QED BY <1>g, <2>4, <3>1, <3>2 DEF GivenUpInvariant, Settle
  <2>. QED BY <2>5, <2>6
<1>7. ASSUME NEW p \in Roles, NEW t \in tasks[p], SendEnd(p, t) \/ ApplyEnd(p, t)
      PROVE  GivenUpInvariant'
  <2>1. /\ t.next \in {"sendEnd", "applyEnd"} /\ t.seq \in Nat /\ SuspendAgain(p, t, "emitEnded")
        /\ UNCHANGED <<pending, outcome>> /\ state' = [state EXCEPT ![p] = "CLOSED"]
    BY <1>7, TaskSays DEF SendEnd, ApplyEnd
  <2>2. TasksGrow(p, {"emitEnded"})
    BY <2>1, Growth
  <2>3. WireGrows(Peer(p), {"END"})
    <3>1. Transmit(p, Frame("END", t.seq)) \/ UNCHANGED wire
      BY <1>7 DEF SendEnd, ApplyEnd
    <3>. QED BY <2>1, <3>1, SendGrowth DEF FrameTypes
  <2>4. OnlyCalleeAnswers' /\ (InviteUnsent' => InviteUnsent)
    BY <1>g, <2>2, <2>3, AnswersGrow
  <2>5. state'["caller"] \in {state["caller"], "CLOSED"}
    BY <1>r, <2>1 DEF TypeOK
  <2>. QED BY <1>g, <2>1, <2>4, <2>5 DEF GivenUpInvariant
<1>. QED BY <1>1, <1>2, <1>3, <1>4, <1>5, <1>6, <1>7

\* A fault takes handlers and frames away, and a crash of the caller its record
\* and its promise.
LEMMA FaultsStayGivenUp ==
  ASSUME TypeOK, GivenUpInvariant, NEW p \in Roles, NoticeClose(p) \/ Crash(p)
  PROVE  GivenUpInvariant'
<1>. USE DEF record, link, promise, bounds
<1>r. "caller" \in Roles /\ "callee" \in Roles
  BY DEF Roles
<1>1. \A q \in Roles, step \in Steps : At(tasks'[q], step) => At(tasks[q], step)
  BY FaultTakes
<1>2. \A q \in Roles, type \in FrameTypes : Carries(wire'[q], type) => Carries(wire[q], type)
  BY FaultTakes
<1>3. OnlyCalleeAnswers' /\ (InviteUnsent' => InviteUnsent)
  BY <1>r, <1>1, <1>2 DEF GivenUpInvariant, OnlyCalleeAnswers, InviteUnsent, Steps, ClientSteps,
     HandlerSteps, FrameTypes
<1>4. CASE Crash("caller")
  <2>1. /\ ~pending' /\ outcome' \in {outcome, "error"}
        /\ state'["caller"] \in {"NONE", "LOST"}
        /\ state["caller"] # "NONE" => state'["caller"] = "LOST"
    BY <1>r, <1>4 DEF Crash, TypeOK
  <2>2. ~InviteUnsent'
    BY <1>r, <1>4 DEF Crash, TypeOK, InviteUnsent, At
  <2>. QED BY <1>3, <2>1, <2>2 DEF GivenUpInvariant
<1>5. CASE ~Crash("caller")
  <2>1. UNCHANGED <<pending, outcome>> /\ state'["caller"] = state["caller"]
    BY <1>r, <1>5 DEF NoticeClose, Crash, TypeOK, Roles
  <2>. QED BY <1>3, <2>1 DEF GivenUpInvariant
<1>. QED BY <1>4, <1>5

LEMMA GivenUpStep ==
  Serial /\ NobodyPauses /\ TypeOK /\ RingsOnce /\ NoPausing /\ FloorInvariant
    /\ GivenUpInvariant /\ [Next]_vars => GivenUpInvariant'
<1>. SUFFICES ASSUME Serial, NobodyPauses, TypeOK, RingsOnce, NoPausing, FloorInvariant,
                     GivenUpInvariant, [Next]_vars
     PROVE GivenUpInvariant'
  OBVIOUS
<1>1. ASSUME NEW p \in Roles, Client(p) PROVE GivenUpInvariant'
  BY <1>1, RequestsStayGivenUp, SettlingStaysGivenUp DEF Client
<1>2. ASSUME NEW p \in Roles, Receive(p) PROVE GivenUpInvariant'
  BY <1>2, RequestsStayGivenUp DEF Receive
<1>3. ASSUME NEW p \in Roles, Resume(p) PROVE GivenUpInvariant'
  <2>1. PICK t \in tasks[p] :
          \/ p = "caller" /\ (NumberInvite(t) \/ SendInvite(t))
          \/ p = "callee" /\ (SendAccept(t) \/ SendDeny(t))
          \/ Refuse(p, t) \/ Ring(p, t)
          \/ ApplyAccepted(p, t) \/ ApplyRejected(p, t)
          \/ SendTurn(p, t) \/ ApplyTurn(p, t)
          \/ SendPause(p, t) \/ ApplyPause(p, t)
          \/ SendInject(p, t) \/ SendEnd(p, t) \/ ApplyEnd(p, t)
          \/ Emit(p, t)
    BY <1>3 DEF Resume
  <2>2. ~SendPause(p, t) /\ ~ApplyPause(p, t)
    BY TaskSays DEF SendPause, ApplyPause
  <2>. QED BY <2>1, <2>2, ResumesStayGivenUp, SettlingStaysGivenUp
<1>4. ASSUME Break \/ Reconnect \/ UNCHANGED vars PROVE GivenUpInvariant'
  <2>1. UNCHANGED <<state, tasks, wire, pending, outcome>>
    BY <1>4 DEF Break, Reconnect, record, promise, vars
  <2>. QED BY <2>1 DEF GivenUpInvariant, OnlyCalleeAnswers, InviteUnsent
<1>5. ASSUME InviteTimeout PROVE GivenUpInvariant'
  BY <1>5, SettlingStaysGivenUp
<1>6. ASSUME NEW p \in Roles, NoticeClose(p) \/ Crash(p) PROVE GivenUpInvariant'
  BY <1>6, FaultsStayGivenUp
<1>. QED BY <1>1, <1>2, <1>3, <1>4, <1>5, <1>6 DEF Next, Fault

\* An invite that was reported as timed out or denied is not, and does not
\* become, a conversation at the caller, whichever of its answer, its timer, an
\* END and a fault came first: as long as clients wait and nobody pauses.
THEOREM GivenUpInviteStaysDown == Serial /\ NobodyPauses => (Spec => []GivenUpStaysDown)
<1>1. Serial \in BOOLEAN /\ NobodyPauses \in BOOLEAN
  BY ConstantsAssumption DEF NobodyPauses
<1>. SUFFICES ASSUME Serial, NobodyPauses PROVE Spec => []GivenUpStaysDown
  BY <1>1
<1>2. ASSUME Init PROVE GivenUpInvariant
  <2>1. /\ \A p \in Roles : /\ \A step : ~At(tasks[p], step)
                            /\ \A type : ~Carries(wire[p], type)
        /\ ~pending /\ outcome = "none"
    BY <1>2, EmptyContents DEF Init, At
  <2>2. "caller" \in Roles /\ "callee" \in Roles
    BY DEF Roles
  <2>. QED BY <2>1, <2>2 DEF GivenUpInvariant, OnlyCalleeAnswers, InviteUnsent
<1>3. TypeOK /\ RingsOnce /\ NoPausing /\ FloorInvariant /\ GivenUpInvariant /\ [Next]_vars
        => GivenUpInvariant'
  BY GivenUpStep
<1>4. GivenUpInvariant => GivenUpStaysDown
  BY DEF GivenUpInvariant, GivenUpStaysDown
<1>5. Spec => [](RingsOnce /\ NoPausing)
  BY RecordIsMadeOnce
<1>6. Spec => []FloorInvariant
  BY FloorInvariantHolds
<1>. QED BY <1>2, <1>3, <1>4, <1>5, <1>6, CallTypeCorrect, PTL DEF Spec

---------------------------------------------------------------------------
(* The floors agree in the end, when the caller speaks first, clients wait *)
(* for their answers and nobody pauses.                                    *)

\* No turn message is taken: none leaves a wire, none is applied.
TurnTasksStay == \A q \in Roles : At(tasks[q], "applyTurn") => At(tasks'[q], "applyTurn")
TurnFramesStay == \A q \in Roles : Carries(wire[q], "SEND") => Carries(wire'[q], "SEND")

\* Who has given the call up does not take that back.
OverStays == \A q \in Roles : state[q] \in {"CLOSING", "CLOSED"} => state'[q] \in {"CLOSING", "CLOSED"}

LEMMA TurnsStay ==
  ASSUME TypeOK, NEW p \in Roles
  PROVE  /\ \A next, n : Suspend(p, next, n) => TurnTasksStay
         /\ \A t \in tasks[p] : t.next # "applyTurn" /\ Finish(p, t) => TurnTasksStay
         /\ \A t \in tasks[p] : \A next :
              t.next # "applyTurn" /\ SuspendAgain(p, t, next) => TurnTasksStay
         /\ UNCHANGED tasks => TurnTasksStay
         /\ \A f \in Frames : Transmit(p, f) => TurnFramesStay
         /\ SendTimeoutEnd(p) => TurnFramesStay
         /\ wire[p] # <<>> /\ Head(wire[p]).type # "SEND" /\ Consume(p) => TurnFramesStay
         /\ \A f \in Frames : wire[p] # <<>> /\ Head(wire[p]).type # "SEND" /\ ConsumeAndReply(p, f)
              => TurnFramesStay
         /\ UNCHANGED wire => TurnFramesStay
<1>s. "applyTurn" \in Steps
  BY DEF Steps, HandlerSteps
<1>w. \A q \in Roles : wire[q] \in Seq(Frames)
  BY DEF TypeOK
<1>a. \A q \in Roles : \A f \in Frames : Carries(wire[q], "SEND") => Carries(Append(wire[q], f), "SEND")
  BY <1>w, AppendContents
<1>1. ASSUME NEW next, NEW n, Suspend(p, next, n) PROVE TurnTasksStay
  BY <1>1, <1>s, SuspendMoves DEF TasksMove, TurnTasksStay
<1>2. ASSUME NEW t \in tasks[p], t.next # "applyTurn", Finish(p, t) PROVE TurnTasksStay
  BY <1>2, <1>s, FinishMoves DEF TasksMove, TurnTasksStay
<1>3. ASSUME NEW t \in tasks[p], NEW next, t.next # "applyTurn", SuspendAgain(p, t, next)
      PROVE  TurnTasksStay
  BY <1>3, <1>s, SuspendAgainMoves DEF TasksMove, TurnTasksStay
<1>4. UNCHANGED tasks => TurnTasksStay
  BY DEF TurnTasksStay
<1>5. ASSUME NEW f \in Frames, Transmit(p, f) PROVE TurnFramesStay
  <2>1. \A q \in Roles : wire'[q] = wire[q] \/ wire'[q] = Append(wire[q], f)
    BY <1>5 DEF Transmit, TypeOK
  <2>. QED BY <1>a, <2>1 DEF TurnFramesStay
<1>6. ASSUME SendTimeoutEnd(p) PROVE TurnFramesStay
  <2>. DEFINE f == Frame("END", seqOut[p] + 1)
  <2>1. Transmit(p, f) \/ UNCHANGED wire
    BY <1>6 DEF SendTimeoutEnd
  <2>2. f \in Frames
    <3>1. seqOut[p] + 1 \in Nat
      BY DEF TypeOK
    <3>. QED BY <3>1, FrameType DEF FrameTypes
  <2>. HIDE DEF f
  <2>3. UNCHANGED wire => TurnFramesStay
    BY DEF TurnFramesStay
  <2>. QED BY <1>5, <2>1, <2>2, <2>3
<1>7. ASSUME wire[p] # <<>>, Head(wire[p]).type # "SEND", Consume(p) PROVE TurnFramesStay
  <2>1. \A q \in Roles : wire'[q] = IF q = p THEN Tail(wire[q]) ELSE wire[q]
    BY <1>7 DEF Consume, TypeOK
  <2>2. Carries(wire[p], "SEND") => Carries(Tail(wire[p]), "SEND")
    BY <1>7, <1>w, TailCarries
  <2>. QED BY <2>1, <2>2 DEF TurnFramesStay
<1>8. ASSUME NEW f \in Frames, wire[p] # <<>>, Head(wire[p]).type # "SEND", ConsumeAndReply(p, f)
      PROVE  TurnFramesStay
  <2>1. \A q \in Roles : \/ q = p /\ wire'[q] = Tail(wire[q])
                         \/ wire'[q] = wire[q] \/ wire'[q] = Append(wire[q], f)
    BY <1>8, PeerIsRole DEF ConsumeAndReply, TypeOK, Roles, Peer
  <2>2. Carries(wire[p], "SEND") => Carries(Tail(wire[p]), "SEND")
    BY <1>8, <1>w, TailCarries
  <2>. QED BY <1>a, <2>1, <2>2 DEF TurnFramesStay
<1>9. UNCHANGED wire => TurnFramesStay
  BY DEF TurnFramesStay
<1>. QED BY <1>1, <1>2, <1>3, <1>4, <1>5, <1>6, <1>7, <1>8, <1>9

\* No acceptance comes about.
LEMMA AcceptKept ==
  ASSUME OneAccept, NEW p \in Roles, NEW new, NEW sent,
         TasksGrow(p, new), WireGrows(Peer(p), sent),
         "sendAccept" \notin new, "applyAccepted" \notin new, "ACCEPTED" \notin sent
  PROVE  OneAccept' /\ (AcceptComing' => AcceptComing)
<1>1. /\ "caller" \in Roles /\ "callee" \in Roles
      /\ "sendAccept" \in Steps /\ "applyAccepted" \in Steps /\ "ACCEPTED" \in FrameTypes
  BY DEF Roles, Steps, ClientSteps, HandlerSteps, FrameTypes
<1>2. \A q \in Roles, step \in {"sendAccept", "applyAccepted"} :
        /\ At(tasks'[q], step) => At(tasks[q], step)
        /\ SingleAt(tasks[q], step) => SingleAt(tasks'[q], step)
  BY <1>1 DEF TasksGrow
<1>3. \A q \in Roles : /\ Carries(wire'[q], "ACCEPTED") => Carries(wire[q], "ACCEPTED")
                       /\ SingleIn(wire[q], "ACCEPTED") => SingleIn(wire'[q], "ACCEPTED")
  BY <1>1 DEF WireGrows
<1>. QED BY <1>1, <1>2, <1>3 DEF OneAccept, AcceptComing

\* No floor changes and no turn message is taken.
LEMMA FloorsKept ==
  ASSUME NobodySpeaksBeforeAnswer, FloorsMeet, NEW p \in Roles, NEW new, NEW sent,
         TasksGrow(p, new), WireGrows(Peer(p), sent), TurnTasksStay, TurnFramesStay,
         "applyTurn" \notin new, "SEND" \notin sent, UNCHANGED floor, OverStays,
         "sendTurn" \in new => state'["caller"] \notin {"NONE", "DIALING"},
         state'["caller"] \in {"NONE", "DIALING"} => state["caller"] \in {"NONE", "DIALING"}
  PROVE  NobodySpeaksBeforeAnswer' /\ FloorsMeet'
<1>1. /\ "caller" \in Roles /\ "callee" \in Roles
      /\ "sendTurn" \in Steps /\ "applyTurn" \in Steps /\ "SEND" \in FrameTypes
  BY DEF Roles, Steps, ClientSteps, HandlerSteps, FrameTypes
<1>2. \A q \in Roles : Speaking(q)' <=> Speaking(q)
  BY <1>1 DEF TasksGrow, WireGrows, TurnTasksStay, TurnFramesStay, Speaking
<1>3. \A q \in Roles : At(tasks'[q], "sendTurn") => At(tasks[q], "sendTurn") \/ "sendTurn" \in new
  BY <1>1 DEF TasksGrow
<1>4. NobodySpeaksBeforeAnswer'
  BY <1>2, <1>3 DEF NobodySpeaksBeforeAnswer
<1>5. Over => Over'
  BY DEF Over, OverStays
<1>6. FloorsMeet'
  BY <1>1, <1>2, <1>5 DEF FloorsMeet
<1>. QED BY <1>4, <1>6

\* A step that neither speaks nor accepts, and by which a side at most gives up.
LEMMA CalmStep ==
  ASSUME OneConversation, NEW p \in Roles, NEW new, NEW sent,
         TasksGrow(p, new), WireGrows(Peer(p), sent), TurnTasksStay, TurnFramesStay,
         new \cap {"sendAccept", "applyAccepted", "sendTurn", "applyTurn"} = {},
         sent \cap {"ACCEPTED", "SEND"} = {},
         UNCHANGED <<floor, alive>>,
         state'["caller"] \in {state["caller"], "CLOSED"},
         state'["callee"] \in {state["callee"], "CLOSING", "CLOSED"}
  PROVE  OneConversation'
<1>1. /\ alive /\ OneAccept /\ RecordsFit /\ NobodySpeaksBeforeAnswer /\ FloorsMeet
      /\ \A q \in Roles : q = "caller" \/ q = "callee"
  BY DEF OneConversation, Roles
<1>2. /\ \A step \in {"sendAccept", "applyAccepted", "sendTurn", "applyTurn"} : step \notin new
      /\ \A type \in {"ACCEPTED", "SEND"} : type \notin sent
  OBVIOUS
<1>3. OneAccept' /\ (AcceptComing' => AcceptComing)
  BY <1>1, <1>2, AcceptKept
<1>4. OverStays
  BY <1>1 DEF OverStays
<1>5. NobodySpeaksBeforeAnswer' /\ FloorsMeet'
  <2>1. state'["caller"] \in {"NONE", "DIALING"} => state["caller"] \in {"NONE", "DIALING"}
    OBVIOUS
  <2>2. "applyTurn" \notin new /\ "SEND" \notin sent /\ "sendTurn" \notin new
    BY <1>2
  <2>. QED BY <1>1, <1>4, <2>1, <2>2, FloorsKept
<1>6. RecordsFit'
  BY <1>1, <1>3 DEF RecordsFit
<1>. QED BY <1>1, <1>3, <1>5, <1>6 DEF OneConversation

\* What clients ask and what arrives, but for speaking, accepting and inviting.
LEMMA CalmRequests ==
  ASSUME TypeOK, RingsOnce, NoPausing, OneConversation
  PROVE  /\ InviteTimeout \/ Deny \/ RequestEnd("callee") => OneConversation'
         /\ \A p \in Roles : RequestInject(p) \/ ReceiveError(p) \/ ReceiveInvite(p) => OneConversation'
         /\ \A p \in Roles : ReceiveForCall(p) => OneConversation' \/ Arrives(p, "ACCEPTED")
<1>. USE DEF record, link, promise, bounds
<1>r. "caller" \in Roles /\ "callee" \in Roles
  BY DEF Roles
<1>m. \A step \in {"sendDeny", "sendEnd", "sendInject", "ring", "refuse", "applyRejected", "emitInject",
                   "applyEnd"} :
        {step} \cap {"sendAccept", "applyAccepted", "sendTurn", "applyTurn"} = {}
  OBVIOUS
<1>1. ASSUME InviteTimeout PROVE OneConversation'
  <2>1. /\ TasksGrow("caller", {}) /\ TurnTasksStay /\ UNCHANGED <<floor, alive>>
    BY <1>1, <1>r, Growth, TurnsStay DEF InviteTimeout
  <2>2. WireGrows(Peer("caller"), {"END"}) /\ TurnFramesStay
    <3>1. SendTimeoutEnd("caller") \/ UNCHANGED wire
      BY <1>1 DEF InviteTimeout
    <3>2. CASE UNCHANGED wire
      BY <1>r, <3>2, TurnsStay DEF WireGrows
    <3>. QED BY <1>r, <3>1, <3>2, TimeoutEndGrowth, TurnsStay
  <2>3. state'["caller"] \in {state["caller"], "CLOSED"} /\ state'["callee"] = state["callee"]
    BY <1>1, <1>r DEF InviteTimeout, TypeOK
  <2>. QED BY <1>r, <2>1, <2>2, <2>3, CalmStep
<1>2. ASSUME Deny PROVE OneConversation'
  <2>1. TasksGrow("callee", {"sendDeny"}) /\ TurnTasksStay
    <3>1. Suspend("callee", "sendDeny", seqOut["callee"] + 1) \/ UNCHANGED tasks
      BY <1>2 DEF Deny
    <3>. QED BY <1>r, <3>1, Growth, TasksGrowMore, TurnsStay
  <2>2. WireGrows(Peer("callee"), {}) /\ TurnFramesStay /\ UNCHANGED <<floor, alive>>
    BY <1>2, <1>r, Growth, TurnsStay DEF Deny
  <2>3. state'["caller"] = state["caller"] /\ state'["callee"] = "CLOSED"
    BY <1>2, <1>r DEF Deny, TypeOK
  <2>. QED BY <1>r, <1>m, <2>1, <2>2, <2>3, CalmStep
<1>3. ASSUME RequestEnd("callee") PROVE OneConversation'
  <2>1. /\ TasksGrow("callee", {"sendEnd"}) /\ TurnTasksStay
        /\ WireGrows(Peer("callee"), {}) /\ TurnFramesStay /\ UNCHANGED <<floor, alive>>
    BY <1>3, <1>r, Growth, TurnsStay DEF RequestEnd
  <2>2. state'["caller"] = state["caller"] /\ state'["callee"] = "CLOSING"
    BY <1>3, <1>r DEF RequestEnd, TypeOK
  <2>. QED BY <1>r, <1>m, <2>1, <2>2, CalmStep
<1>4. ASSUME NEW p \in Roles, RequestInject(p) PROVE OneConversation'
  <2>1. /\ TasksGrow(p, {"sendInject"}) /\ TurnTasksStay
        /\ WireGrows(Peer(p), {}) /\ TurnFramesStay /\ UNCHANGED <<state, floor, alive>>
    BY <1>4, Growth, TurnsStay DEF RequestInject
  <2>. QED BY <1>m, <2>1, CalmStep
<1>5. ASSUME NEW p \in Roles, ReceiveError(p) PROVE OneConversation'
  <2>1. wire[p] # <<>> /\ Head(wire[p]).type # "SEND" /\ Consume(p)
    BY <1>5 DEF ReceiveError, Arrives
  <2>2. /\ TasksGrow(p, {}) /\ TurnTasksStay
        /\ WireGrows(Peer(p), {}) /\ TurnFramesStay /\ UNCHANGED <<state, floor, alive>>
    BY <1>5, <2>1, Growth, TurnsStay DEF ReceiveError
  <2>. QED BY <2>2, CalmStep
<1>6. ASSUME NEW p \in Roles, ReceiveInvite(p) PROVE OneConversation'
  <2>1. wire[p] # <<>> /\ Head(wire[p]).type # "SEND" /\ UNCHANGED <<state, floor, alive>>
    BY <1>6 DEF ReceiveInvite, Arrives
  <2>2. CASE Known(p)
    <3>1. ConsumeAndReply(p, Frame("ERROR", 0)) /\ UNCHANGED tasks
      BY <1>6, <2>2 DEF ReceiveInvite
    <3>2. Frame("ERROR", 0) \in Frames
      BY FrameType DEF FrameTypes
    <3>3. WireGrows(Peer(p), {"ERROR"}) /\ TurnFramesStay /\ TasksGrow(p, {}) /\ TurnTasksStay
      BY <2>1, <3>1, <3>2, Growth, ReplyGrowth, TurnsStay
    <3>. QED BY <2>1, <3>3, CalmStep
  <2>3. CASE ~Known(p)
    <3>1. PICK next \in {"ring", "refuse"} : Suspend(p, next, Head(wire[p]).seq)
      BY <1>6, <2>3 DEF ReceiveInvite
    <3>2. Consume(p)
      BY <1>6, <2>3 DEF ReceiveInvite
    <3>3. WireGrows(Peer(p), {}) /\ TurnFramesStay /\ TasksGrow(p, {next}) /\ TurnTasksStay
      BY <2>1, <3>1, <3>2, Growth, TurnsStay
    <3>. QED BY <1>m, <2>1, <3>3, CalmStep
  <2>. QED BY <2>2, <2>3
<1>7. ASSUME NEW p \in Roles, ReceiveForCall(p), ~Arrives(p, "ACCEPTED") PROVE OneConversation'
  <2>1. PICK type \in DOMAIN StepFor :
          /\ Arrives(p, type)
          /\ IF Known(p) THEN Suspend(p, StepFor[type], Head(wire[p]).seq)
                         ELSE UNCHANGED tasks
    BY <1>7 DEF ReceiveForCall
  <2>2. type \in FrameTypes /\ type # "SEND" /\ type # "ACCEPTED"
    BY <1>7, <2>1 DEF StepFor, FrameTypes
  <2>3. type \notin {"PAUSE", "RESUME"} /\ wire[p] # <<>> /\ Head(wire[p]).type # "SEND"
    BY <2>1, <2>2, FrameSays
  <2>4. StepFor[type] \in {"applyRejected", "emitInject", "applyEnd"}
    BY <2>2, <2>3 DEF StepFor
  <2>5. WireGrows(Peer(p), {}) /\ TurnFramesStay /\ UNCHANGED <<state, floor, alive>>
    BY <1>7, <2>3, Growth, TurnsStay DEF ReceiveForCall
  <2>6. TasksGrow(p, {StepFor[type]}) /\ TurnTasksStay
    BY <2>1, Growth, TasksGrowMore, TurnsStay
  <2>. QED BY <1>m, <2>4, <2>5, <2>6, CalmStep
<1>. QED BY <1>1, <1>2, <1>3, <1>4, <1>5, <1>6, <1>7

\* What a suspended handler does, but for speaking, accepting and ringing.
LEMMA CalmResumes ==
  ASSUME TypeOK, RingsOnce, NoPausing, OnlyCalleeAnswers, OneConversation
  PROVE  /\ \A t \in tasks["caller"] : NumberInvite(t) \/ SendInvite(t) => OneConversation'
         /\ \A t \in tasks["callee"] : SendDeny(t) => OneConversation'
         /\ \A p \in Roles : \A t \in tasks[p] :
              Refuse(p, t) \/ ApplyRejected(p, t) \/ SendInject(p, t)
                \/ SendEnd(p, t) \/ ApplyEnd(p, t) \/ Emit(p, t)
                \/ (ApplyAccepted(p, t) /\ TooLate(p))
                => OneConversation'
<1>. USE DEF record, link, promise, bounds
<1>r. "caller" \in Roles /\ "callee" \in Roles /\ \A p \in Roles : p = "caller" \/ p = "callee"
  BY DEF Roles
<1>s. ASSUME NEW p \in Roles, NEW type \in {"INVITE", "REJECTED", "HUMAN_INJECT", "END"}, NEW n \in Nat,
             Transmit(p, Frame(type, n)) \/ UNCHANGED wire
      PROVE  WireGrows(Peer(p), {type}) /\ TurnFramesStay /\ {type} \cap {"ACCEPTED", "SEND"} = {}
  <2>1. type \in FrameTypes /\ Frame(type, n) \in Frames
    BY FrameType DEF FrameTypes
  <2>. QED BY <1>s, <2>1, SendGrowth, TurnsStay
<1>1. ASSUME NEW t \in tasks["caller"], NumberInvite(t) PROVE OneConversation'
  <2>1. t.next = "numberInvite" /\ UNCHANGED <<state, floor, alive, wire>>
    BY <1>1 DEF NumberInvite
  <2>2. TasksGrow("caller", {"sendInvite"}) /\ TurnTasksStay
    <3>. DEFINE u == [next |-> "sendInvite", seq |-> seqOut["caller"] + 1, open |-> t.open]
    <3>1. /\ u.next = "sendInvite"
          /\ \A q \in Roles : tasks'[q] = IF q = "caller" THEN (tasks[q] \ {t}) \cup {u} ELSE tasks[q]
      BY <1>1, <1>r DEF NumberInvite, TypeOK
    <3>. HIDE DEF u
    <3>. QED BY <2>1, <3>1 DEF TasksGrow, TurnTasksStay, At, SingleAt
  <2>3. WireGrows(Peer("caller"), {}) /\ TurnFramesStay
    BY <1>r, <2>1, Growth, TurnsStay
  <2>. QED BY <1>r, <2>1, <2>2, <2>3, CalmStep
<1>2. ASSUME NEW t \in tasks["caller"], SendInvite(t) PROVE OneConversation'
  <2>1. t.next = "sendInvite" /\ t.seq \in Nat /\ UNCHANGED <<state, floor, alive>>
    BY <1>2, <1>r, TaskSays DEF SendInvite
  <2>2. TasksGrow("caller", {}) /\ TurnTasksStay
    BY <1>2, <1>r, <2>1, Growth, TurnsStay DEF SendInvite
  <2>3. WireGrows(Peer("caller"), {"INVITE"}) /\ TurnFramesStay /\ {"INVITE"} \cap {"ACCEPTED", "SEND"} = {}
    BY <1>2, <1>r, <1>s, <2>1 DEF SendInvite
  <2>. QED BY <1>r, <2>1, <2>2, <2>3, CalmStep
<1>3. ASSUME NEW t \in tasks["callee"], SendDeny(t) PROVE OneConversation'
  <2>1. t.next = "sendDeny" /\ t.seq \in Nat /\ UNCHANGED <<state, floor, alive>>
    BY <1>3, <1>r, TaskSays DEF SendDeny
  <2>2. TasksGrow("callee", {}) /\ TurnTasksStay
    BY <1>3, <1>r, <2>1, Growth, TurnsStay DEF SendDeny
  <2>3. WireGrows(Peer("callee"), {"REJECTED"}) /\ TurnFramesStay
        /\ {"REJECTED"} \cap {"ACCEPTED", "SEND"} = {}
    BY <1>3, <1>r, <1>s, <2>1 DEF SendDeny
  <2>. QED BY <1>r, <2>1, <2>2, <2>3, CalmStep
<1>4. ASSUME NEW p \in Roles, NEW t \in tasks[p], Refuse(p, t) PROVE OneConversation'
  <2>1. t.next = "refuse" /\ UNCHANGED <<state, floor, alive>>
    BY <1>4 DEF Refuse
  <2>2. TasksGrow(p, {}) /\ TurnTasksStay
    BY <1>4, <2>1, Growth, TurnsStay DEF Refuse
  <2>3. WireGrows(Peer(p), {"REJECTED"}) /\ TurnFramesStay /\ {"REJECTED"} \cap {"ACCEPTED", "SEND"} = {}
    BY <1>4, <1>s DEF Refuse
  <2>. QED BY <2>1, <2>2, <2>3, CalmStep
<1>5. ASSUME NEW p \in Roles, NEW t \in tasks[p], ApplyRejected(p, t) PROVE OneConversation'
  <2>1. t.next = "applyRejected" /\ At(tasks[p], "applyRejected") /\ UNCHANGED <<floor, alive, wire>>
    BY <1>5, TaskSays DEF ApplyRejected
  <2>2. p = "caller"
    BY <1>r, <2>1 DEF OnlyCalleeAnswers
  <2>3. state'["caller"] \in {state["caller"], "CLOSED"} /\ state'["callee"] = state["callee"]
    BY <1>5, <1>r, <2>2 DEF ApplyRejected, TypeOK
  <2>4. /\ TasksGrow(p, {}) /\ TurnTasksStay
        /\ WireGrows(Peer(p), {}) /\ TurnFramesStay
    BY <1>5, <2>1, Growth, TurnsStay DEF ApplyRejected
  <2>. QED BY <2>1, <2>3, <2>4, CalmStep
<1>6. ASSUME NEW p \in Roles, NEW t \in tasks[p], SendInject(p, t) PROVE OneConversation'
  <2>1. t.next = "sendInject" /\ t.seq \in Nat /\ UNCHANGED <<state, floor, alive>>
    BY <1>6, TaskSays DEF SendInject
  <2>2. TasksGrow(p, {}) /\ TurnTasksStay
    BY <1>6, <2>1, Growth, TurnsStay DEF SendInject
  <2>3. WireGrows(Peer(p), {"HUMAN_INJECT"}) /\ TurnFramesStay
        /\ {"HUMAN_INJECT"} \cap {"ACCEPTED", "SEND"} = {}
    BY <1>6, <1>s, <2>1 DEF SendInject
  <2>. QED BY <2>1, <2>2, <2>3, CalmStep
<1>7. ASSUME NEW p \in Roles, NEW t \in tasks[p], SendEnd(p, t) \/ ApplyEnd(p, t) PROVE OneConversation'
  <2>1. /\ t.next \in {"sendEnd", "applyEnd"} /\ t.seq \in Nat /\ SuspendAgain(p, t, "emitEnded")
        /\ UNCHANGED <<floor, alive>> /\ state' = [state EXCEPT ![p] = "CLOSED"]
    BY <1>7, TaskSays DEF SendEnd, ApplyEnd
  <2>2. TasksGrow(p, {"emitEnded"}) /\ TurnTasksStay
    BY <2>1, Growth, TurnsStay
  <2>3. WireGrows(Peer(p), {"END"}) /\ TurnFramesStay /\ {"END"} \cap {"ACCEPTED", "SEND"} = {}
    <3>1. Transmit(p, Frame("END", t.seq)) \/ UNCHANGED wire
      BY <1>7 DEF SendEnd, ApplyEnd
    <3>. QED BY <1>s, <2>1, <3>1
  <2>4. /\ state'["caller"] \in {state["caller"], "CLOSED"}
        /\ state'["callee"] \in {state["callee"], "CLOSED"}
    BY <1>r, <2>1 DEF TypeOK
  <2>. QED BY <2>1, <2>2, <2>3, <2>4, CalmStep
<1>8. ASSUME NEW p \in Roles, NEW t \in tasks[p], Emit(p, t) PROVE OneConversation'
  <2>1. t.next # "applyTurn" /\ UNCHANGED <<state, floor, alive, wire>>
    BY <1>8 DEF Emit, EventOf
  <2>2. /\ TasksGrow(p, {}) /\ TurnTasksStay
        /\ WireGrows(Peer(p), {}) /\ TurnFramesStay
    BY <1>8, <2>1, Growth, TurnsStay DEF Emit
  <2>. QED BY <2>1, <2>2, CalmStep
<1>9. ASSUME NEW p \in Roles, NEW t \in tasks[p], ApplyAccepted(p, t), TooLate(p) PROVE OneConversation'
  <2>1. t.next = "applyAccepted" /\ UNCHANGED <<state, floor, alive>>
    BY <1>9 DEF ApplyAccepted
  <2>2. TasksGrow(p, {}) /\ TurnTasksStay
    BY <1>9, <2>1, Growth, TurnsStay DEF ApplyAccepted
  <2>3. WireGrows(Peer(p), {"END"}) /\ TurnFramesStay
    BY <1>9, TimeoutEndGrowth, TurnsStay DEF ApplyAccepted
  <2>. QED BY <2>1, <2>2, <2>3, CalmStep
<1>. QED BY <1>1, <1>2, <1>3, <1>4, <1>5, <1>6, <1>7, <1>8, <1>9

\* The parts of the invariant, and what of it a step keeps by which the records
\* stay as they are.
LEMMA ConversationSays ==
  ASSUME OneConversation
  PROVE  /\ alive /\ OneAccept /\ RecordsFit /\ NobodySpeaksBeforeAnswer /\ FloorsMeet
         /\ state["caller"] \in {"NONE", "DIALING", "CONNECTED", "CLOSING", "CLOSED"}
         /\ state["callee"] \in {"NONE", "RINGING", "CONNECTED", "CLOSING", "CLOSED"}
         /\ AcceptComing => state["callee"] \notin {"NONE", "RINGING"}
         /\ AcceptComing \/ state["callee"] \in {"NONE", "RINGING"}
              => state["caller"] \in {"NONE", "DIALING", "CLOSED"}
         /\ At(tasks["callee"], "sendAccept") \/ Carries(wire["caller"], "ACCEPTED")
              \/ At(tasks["caller"], "applyAccepted") => AcceptComing
BY DEF OneConversation, RecordsFit, AcceptComing

\* Inviting, accepting, hearing of it, and hanging up at the caller.
LEMMA AcceptingSteps ==
  ASSUME Serial, TypeOK, RingsOnce, NoPausing, OnlyCalleeAnswers, OneConversation,
         state["caller"] = "DIALING" => outcome = "waiting"
  PROVE  /\ Invite \/ Accept \/ RequestEnd("caller") => OneConversation'
         /\ \A t \in tasks["callee"] : SendAccept(t) => OneConversation'
         /\ \A p \in Roles : ReceiveForCall(p) /\ Arrives(p, "ACCEPTED") => OneConversation'
         /\ \A p \in Roles : \A t \in tasks[p] :
              ApplyAccepted(p, t) /\ ~TooLate(p) => OneConversation'
<1>. USE DEF record, link, promise, bounds
<1>r. /\ "caller" \in Roles /\ "callee" \in Roles /\ \A p \in Roles : p = "caller" \/ p = "callee"
      /\ "sendAccept" \in Steps /\ "applyAccepted" \in Steps /\ "ACCEPTED" \in FrameTypes
      /\ Peer("caller") = "callee" /\ Peer("callee") = "caller"
  BY DEF Roles, Steps, ClientSteps, HandlerSteps, FrameTypes, Peer
<1>v. /\ alive /\ OneAccept /\ RecordsFit /\ NobodySpeaksBeforeAnswer /\ FloorsMeet
      /\ state["caller"] \in {"NONE", "DIALING", "CONNECTED", "CLOSING", "CLOSED"}
      /\ state["callee"] \in {"NONE", "RINGING", "CONNECTED", "CLOSING", "CLOSED"}
      /\ AcceptComing => state["callee"] \notin {"NONE", "RINGING"}
      /\ AcceptComing \/ state["callee"] \in {"NONE", "RINGING"}
           => state["caller"] \in {"NONE", "DIALING", "CLOSED"}
      /\ At(tasks["callee"], "sendAccept") \/ Carries(wire["caller"], "ACCEPTED")
           \/ At(tasks["caller"], "applyAccepted") => AcceptComing
  BY ConversationSays
<1>1. ASSUME Invite PROVE OneConversation'
  <2>1. /\ UNCHANGED <<floor, alive>>
        /\ TasksGrow("caller", {"numberInvite"}) /\ TurnTasksStay
        /\ WireGrows(Peer("caller"), {}) /\ TurnFramesStay
    BY <1>1, <1>r, Growth, TurnsStay DEF Invite
  <2>2. /\ state["caller"] = "NONE" /\ state'["caller"] = "DIALING"
        /\ state["callee"] = "NONE" /\ state'["callee"] = "NONE"
    BY <1>1, <1>r DEF Invite, RingsOnce, NothingBeforeInvite, TypeOK
  <2>3. OneAccept' /\ (AcceptComing' => AcceptComing)
    BY <1>r, <1>v, <2>1, AcceptKept
  <2>4. OverStays
    BY <1>r, <2>2 DEF OverStays
  <2>5. NobodySpeaksBeforeAnswer' /\ FloorsMeet'
    BY <1>r, <1>v, <2>1, <2>2, <2>4, FloorsKept
  <2>. QED BY <1>v, <2>1, <2>2, <2>3, <2>5 DEF OneConversation, RecordsFit
<1>2. ASSUME Accept PROVE OneConversation'
  <2>1. /\ UNCHANGED <<floor, alive, wire>>
        /\ Suspend("callee", "sendAccept", seqOut["callee"] + 1) \/ UNCHANGED tasks
        /\ state["callee"] = "RINGING" /\ state'["callee"] = "CONNECTED"
        /\ state'["caller"] = state["caller"]
    BY <1>2, <1>r DEF Accept, StateOnAccept, TypeOK
  <2>2. /\ TasksGrow("callee", {"sendAccept"}) /\ TurnTasksStay
        /\ WireGrows(Peer("callee"), {}) /\ TurnFramesStay
    BY <1>r, <2>1, Growth, TasksGrowMore, TurnsStay
  <2>3. ~AcceptComing
    BY <1>v, <2>1
  <2>4. OneAccept'
    <3>1. /\ ~Carries(wire'["caller"], "ACCEPTED") /\ SingleIn(wire'["caller"], "ACCEPTED")
          /\ ~At(tasks'["caller"], "applyAccepted") /\ SingleAt(tasks'["caller"], "applyAccepted")
      BY <1>r, <1>v, <2>1, <2>2, <2>3 DEF TasksGrow, OneAccept
    <3>2. SingleAt(tasks["callee"], "sendAccept") /\ ~At(tasks["callee"], "sendAccept")
      BY <1>v, <2>3 DEF OneAccept
    <3>3. SingleAt(tasks'["callee"], "sendAccept")
      BY <1>r, <2>1, <3>2, SuspendEffect
    <3>. QED BY <3>1, <3>3 DEF OneAccept
  <2>5. OverStays
    BY <1>r, <2>1 DEF OverStays
  <2>6. NobodySpeaksBeforeAnswer' /\ FloorsMeet'
    BY <1>r, <1>v, <2>1, <2>2, <2>5, FloorsKept
  <2>. QED BY <1>v, <2>1, <2>4, <2>6 DEF OneConversation, RecordsFit
<1>3. ASSUME RequestEnd("caller") PROVE OneConversation'
  <2>1. /\ UNCHANGED <<floor, alive>>
        /\ TasksGrow("caller", {"sendEnd"}) /\ TurnTasksStay
        /\ WireGrows(Peer("caller"), {}) /\ TurnFramesStay
    BY <1>3, <1>r, Growth, TurnsStay DEF RequestEnd
  <2>2. /\ state["caller"] = "CONNECTED" /\ state'["caller"] = "CLOSING"
        /\ state'["callee"] = state["callee"]
    BY <1>3, <1>r, <1>v DEF RequestEnd, Asks, Busy, Active, Known, TypeOK
  <2>3. OneAccept' /\ (AcceptComing' => AcceptComing)
    BY <1>r, <1>v, <2>1, AcceptKept
  <2>4. OverStays
    BY <1>r, <2>2 DEF OverStays
  <2>5. NobodySpeaksBeforeAnswer' /\ FloorsMeet'
    BY <1>r, <1>v, <2>1, <2>2, <2>4, FloorsKept
  <2>. QED BY <1>v, <2>1, <2>2, <2>3, <2>5 DEF OneConversation, RecordsFit
<1>4. ASSUME NEW t \in tasks["callee"], SendAccept(t) PROVE OneConversation'
  <2>1. /\ t.next = "sendAccept" /\ t.seq \in Nat /\ At(tasks["callee"], "sendAccept")
        /\ UNCHANGED <<state, floor, alive>> /\ SuspendAgain("callee", t, "emitConnected")
        /\ Transmit("callee", Frame("ACCEPTED", t.seq)) \/ UNCHANGED wire
    BY <1>4, <1>r, TaskSays DEF SendAccept
  <2>. DEFINE f == Frame("ACCEPTED", t.seq)
  <2>f. f \in Frames /\ f.type = "ACCEPTED" /\ (Transmit("callee", f) \/ UNCHANGED wire)
    BY <1>r, <2>1, FrameType DEF Frame
  <2>. HIDE DEF f
  <2>2. /\ TasksGrow("callee", {"emitConnected"}) /\ TurnTasksStay
        /\ WireGrows(Peer("callee"), {"ACCEPTED"}) /\ TurnFramesStay
    <3>1. UNCHANGED wire => WireGrows(Peer("callee"), {"ACCEPTED"})
      BY DEF WireGrows
    <3>. QED BY <1>r, <2>1, <2>f, <3>1, Growth, TurnsStay
  <2>3. AcceptComing
    BY <1>v, <2>1
  <2>4. OneAccept'
    <3>1. /\ ~Carries(wire["caller"], "ACCEPTED") /\ SingleIn(wire["caller"], "ACCEPTED")
          /\ ~At(tasks["caller"], "applyAccepted") /\ SingleAt(tasks["caller"], "applyAccepted")
          /\ SingleAt(tasks["callee"], "sendAccept")
      BY <1>v, <2>1 DEF OneAccept
    <3>2. ~At(tasks'["callee"], "sendAccept") /\ SingleAt(tasks'["callee"], "sendAccept")
      BY <1>r, <2>1, <3>1, SuspendAgainEffect
    <3>3. ~At(tasks'["caller"], "applyAccepted") /\ SingleAt(tasks'["caller"], "applyAccepted")
      BY <1>r, <2>2, <3>1 DEF TasksGrow
    <3>4. SingleIn(wire'["caller"], "ACCEPTED")
      BY <1>r, <2>f, <3>1, TransmitEffect
    <3>. QED BY <3>2, <3>3, <3>4 DEF OneAccept
  <2>5. OverStays
    BY <2>1 DEF OverStays
  <2>6. NobodySpeaksBeforeAnswer' /\ FloorsMeet'
    BY <1>r, <1>v, <2>1, <2>2, <2>5, FloorsKept
  <2>. QED BY <1>v, <2>1, <2>3, <2>4, <2>6 DEF OneConversation, RecordsFit
<1>5. ASSUME NEW p \in Roles, ReceiveForCall(p), Arrives(p, "ACCEPTED") PROVE OneConversation'
  <2>1. wire[p] # <<>> /\ Head(wire[p]).type = "ACCEPTED" /\ Carries(wire[p], "ACCEPTED")
    BY <1>r, <1>5, FrameSays
  <2>2. p = "caller" /\ Consume("caller") /\ UNCHANGED <<state, floor, alive>>
    BY <1>r, <1>5, <2>1 DEF OnlyCalleeAnswers, ReceiveForCall
  <2>3. Suspend("caller", "applyAccepted", Head(wire["caller"]).seq) \/ UNCHANGED tasks
    <3>1. PICK type \in DOMAIN StepFor :
            /\ Arrives(p, type)
            /\ IF Known(p) THEN Suspend(p, StepFor[type], Head(wire[p]).seq)
                           ELSE UNCHANGED tasks
      BY <1>5 DEF ReceiveForCall
    <3>2. type = "ACCEPTED"
      BY <2>1, <3>1 DEF Arrives
    <3>3. StepFor["ACCEPTED"] = "applyAccepted"
      BY DEF StepFor
    <3>. QED BY <2>2, <3>1, <3>2, <3>3
  <2>4. /\ TasksGrow("caller", {"applyAccepted"}) /\ TurnTasksStay
        /\ WireGrows(Peer("caller"), {}) /\ TurnFramesStay
    BY <1>r, <2>1, <2>2, <2>3, Growth, TasksGrowMore, TurnsStay
  <2>5. AcceptComing
    BY <1>v, <2>1, <2>2
  <2>6. OneAccept'
    <3>1. /\ ~At(tasks["callee"], "sendAccept") /\ SingleAt(tasks["callee"], "sendAccept")
          /\ ~At(tasks["caller"], "applyAccepted") /\ SingleAt(tasks["caller"], "applyAccepted")
          /\ SingleIn(wire["caller"], "ACCEPTED")
      BY <1>v, <2>1, <2>2 DEF OneAccept
    <3>2. ~Carries(wire'["caller"], "ACCEPTED") /\ SingleIn(wire'["caller"], "ACCEPTED")
      BY <1>r, <2>1, <2>2, <3>1, ConsumeEffect
    <3>3. ~At(tasks'["callee"], "sendAccept") /\ SingleAt(tasks'["callee"], "sendAccept")
      BY <1>r, <2>4, <3>1 DEF TasksGrow
    <3>4. SingleAt(tasks'["caller"], "applyAccepted")
      BY <1>r, <2>3, <3>1, SuspendEffect
    <3>. QED BY <3>2, <3>3, <3>4 DEF OneAccept
  <2>7. OverStays
    BY <2>2 DEF OverStays
  <2>8. NobodySpeaksBeforeAnswer' /\ FloorsMeet'
    BY <1>r, <1>v, <2>2, <2>4, <2>7, FloorsKept
  <2>. QED BY <1>v, <2>2, <2>5, <2>6, <2>8 DEF OneConversation, RecordsFit
<1>6. ASSUME NEW p \in Roles, NEW t \in tasks[p], ApplyAccepted(p, t), ~TooLate(p)
      PROVE  OneConversation'
  <2>1. /\ t.next = "applyAccepted" /\ At(tasks[p], "applyAccepted") /\ Known(p)
        /\ Finish(p, t) /\ UNCHANGED <<floor, alive, wire>>
    BY <1>6, TaskSays DEF ApplyAccepted
  <2>2. p = "caller" /\ AcceptComing
    BY <1>r, <1>v, <2>1 DEF OnlyCalleeAnswers
  <2>3. /\ state["caller"] = "DIALING" /\ state["callee"] \notin {"NONE", "RINGING"}
        /\ state'["caller"] = "CONNECTED" /\ state'["callee"] = state["callee"]
    BY <1>6, <1>r, <1>v, <2>1, <2>2 DEF ApplyAccepted, TooLate, Known, TypeOK
  <2>4. /\ TasksGrow("caller", {}) /\ TurnTasksStay
        /\ WireGrows(Peer("caller"), {}) /\ TurnFramesStay
    BY <1>r, <2>1, <2>2, Growth, TurnsStay
  <2>5. OneAccept' /\ ~AcceptComing'
    <3>1. /\ ~At(tasks["callee"], "sendAccept") /\ ~Carries(wire["caller"], "ACCEPTED")
          /\ SingleAt(tasks["caller"], "applyAccepted")
      BY <1>v, <2>1, <2>2 DEF OneAccept
    <3>2. ~At(tasks'["caller"], "applyAccepted")
      BY <1>r, <2>1, <2>2, <3>1, FinishEffect
    <3>3. ~At(tasks'["callee"], "sendAccept") /\ ~Carries(wire'["caller"], "ACCEPTED")
      BY <1>r, <2>4, <3>1 DEF TasksGrow, WireGrows
    <3>4. OneAccept'
      BY <1>r, <1>v, <2>4, AcceptKept
    <3>. QED BY <3>2, <3>3, <3>4 DEF AcceptComing
  <2>6. OverStays
    BY <1>r, <2>3 DEF OverStays
  <2>7. NobodySpeaksBeforeAnswer' /\ FloorsMeet'
    BY <1>r, <1>v, <2>1, <2>3, <2>4, <2>6, FloorsKept
  <2>. QED BY <1>v, <2>1, <2>3, <2>5, <2>7 DEF OneConversation, RecordsFit
<1>. QED BY <1>1, <1>2, <1>3, <1>4, <1>5, <1>6

\* The steps that move the floor, and those that bring a turn message along.
LEMMA FloorSteps ==
  ASSUME TypeOK, RingsOnce, NoPausing, FloorInvariant, OneConversation, firstFloor = "caller"
  PROVE  /\ \A p \in Roles : Speak(p) \/ ReceiveTurn(p) => OneConversation'
         /\ \A p \in Roles : \A t \in tasks[p] :
              Ring(p, t) \/ SendTurn(p, t) \/ ApplyTurn(p, t) => OneConversation'
<1>. USE DEF record, link, promise, bounds
<1>r. /\ "caller" \in Roles /\ "callee" \in Roles /\ \A p \in Roles : p = "caller" \/ p = "callee"
      /\ "sendTurn" \in Steps /\ "applyTurn" \in Steps /\ "SEND" \in FrameTypes
      /\ Peer("caller") = "callee" /\ Peer("callee") = "caller"
  BY DEF Roles, Steps, ClientSteps, HandlerSteps, FrameTypes, Peer
<1>p. \A p \in Roles : Peer(p) \in Roles /\ Peer(p) # p /\ Peer(Peer(p)) = p
  BY DEF Roles, Peer
<1>v. /\ alive /\ OneAccept /\ RecordsFit /\ NobodySpeaksBeforeAnswer /\ FloorsMeet
      /\ state["caller"] \in {"NONE", "DIALING", "CONNECTED", "CLOSING", "CLOSED"}
      /\ state["callee"] \in {"NONE", "RINGING", "CONNECTED", "CLOSING", "CLOSED"}
      /\ AcceptComing => state["callee"] \notin {"NONE", "RINGING"}
      /\ AcceptComing \/ state["callee"] \in {"NONE", "RINGING"}
           => state["caller"] \in {"NONE", "DIALING", "CLOSED"}
  BY ConversationSays
<1>q. state["caller"] \in {"NONE", "DIALING"} =>
        \A p \in Roles : floor[p] = "caller" /\ ~Speaking(p) /\ ~At(tasks[p], "sendTurn")
  BY <1>v DEF NobodySpeaksBeforeAnswer
<1>o. \A p \in Roles : Speaking(p) => ~HoldsFloor("caller") /\ ~HoldsFloor("callee")
  BY DEF FloorInvariant, OneTurnInFlight
<1>c. \/ state["caller"] \in {"NONE", "DIALING"} \/ Over
      \/ state["caller"] = "CONNECTED" /\ state["callee"] = "CONNECTED"
  BY <1>r, <1>v DEF Over
<1>k. ASSUME UNCHANGED state PROVE OverStays /\ (Over' <=> Over)
  BY <1>k DEF OverStays, Over
<1>1. ASSUME NEW p \in Roles, Speak(p) PROVE OneConversation'
  <2>1. /\ UNCHANGED <<state, floor, alive>> /\ state[p] = "CONNECTED" /\ floor[p] = p
        /\ TasksGrow(p, {"sendTurn"}) /\ TurnTasksStay
        /\ WireGrows(Peer(p), {}) /\ TurnFramesStay
    BY <1>1, Growth, TurnsStay DEF Speak, MaySpeak
  <2>2. state'["caller"] \notin {"NONE", "DIALING"}
    BY <1>r, <1>q, <2>1
  <2>3. OneAccept' /\ (AcceptComing' => AcceptComing)
    BY <1>v, <2>1, AcceptKept
  <2>4. NobodySpeaksBeforeAnswer' /\ FloorsMeet'
    BY <1>v, <1>k, <2>1, <2>2, FloorsKept
  <2>. QED BY <1>v, <2>1, <2>3, <2>4 DEF OneConversation, RecordsFit
<1>2. ASSUME NEW p \in Roles, ReceiveTurn(p) PROVE OneConversation'
  <2>1. /\ wire[p] # <<>> /\ Carries(wire[p], "SEND") /\ UNCHANGED <<state, floor, alive>>
    BY <1>2, <1>r, FrameSays DEF ReceiveTurn
  <2>2. Speaking(p) /\ state["caller"] \notin {"NONE", "DIALING"}
    BY <1>q, <2>1 DEF Speaking
  <2>3. NobodySpeaksBeforeAnswer'
    BY <2>1, <2>2 DEF NobodySpeaksBeforeAnswer
  <2>4. CASE TurnAdmitted(p)
    <3>1. /\ TasksGrow(p, {"applyTurn"}) /\ WireGrows(Peer(p), {})
          /\ Suspend(p, "applyTurn", Head(wire[p]).seq)
      BY <1>2, <2>1, <2>4, Growth DEF ReceiveTurn
    <3>2. OneAccept' /\ (AcceptComing' => AcceptComing)
      BY <1>v, <3>1, AcceptKept
    <3>3. At(tasks'[p], "applyTurn")
      BY <1>r, <3>1, SuspendMoves DEF TasksMove
    <3>4. FloorsMeet'
      BY <1>r, <3>3 DEF FloorsMeet, Speaking
    <3>. QED BY <1>v, <2>1, <2>3, <3>2, <3>4 DEF OneConversation, RecordsFit
  <2>5. CASE ~TurnAdmitted(p)
    <3>1. /\ TasksGrow(p, {}) /\ WireGrows(Peer(p), {"ERROR"})
      BY <1>2, <2>1, <2>5, Growth, ReplyGrowth DEF ReceiveTurn
    <3>2. OneAccept' /\ (AcceptComing' => AcceptComing)
      BY <1>v, <3>1, AcceptKept
    <3>3. Over
      <4>1. state[p] # "CONNECTED" \/ floor[p] # Peer(p)
        BY <2>5 DEF TurnAdmitted
      <4>2. state[p] = "CONNECTED" => floor[p] = Peer(p)
        BY <1>r, <1>o, <2>2 DEF HoldsFloor, Known, TypeOK, Roles
      <4>. QED BY <1>r, <1>c, <2>2, <4>1, <4>2
    <3>4. FloorsMeet'
      BY <1>k, <2>1, <3>3 DEF FloorsMeet
    <3>. QED BY <1>v, <2>1, <2>3, <3>2, <3>4 DEF OneConversation, RecordsFit
  <2>. QED BY <2>4, <2>5
<1>3. ASSUME NEW p \in Roles, NEW t \in tasks[p], Ring(p, t) PROVE OneConversation'
  <2>1. t.next = "ring" /\ p = "callee" /\ Inviting /\ UNCHANGED <<alive, wire>>
    BY <1>3, TaskSays DEF Ring
  <2>2. /\ state["callee"] = "NONE" /\ floor["caller"] = "caller"
        /\ state'["callee"] = "RINGING" /\ state'["caller"] = state["caller"]
        /\ floor'["callee"] = "caller" /\ floor'["caller"] = "caller"
    BY <1>3, <1>r, <2>1 DEF Ring, FloorInvariant, NobodySpeaksBeforeRinging, TypeOK
  <2>3. TasksGrow(p, {"emitInvite"}) /\ WireGrows(Peer(p), {})
    BY <1>3, <2>1, Growth DEF Ring
  <2>4. OneAccept' /\ ~AcceptComing'
    BY <1>v, <2>2, <2>3, AcceptKept
  <2>5. \A q \in Roles : (Speaking(q)' => Speaking(q))
                         /\ (At(tasks'[q], "sendTurn") => At(tasks[q], "sendTurn"))
    BY <1>r, <2>3 DEF TasksGrow, WireGrows, Speaking
  <2>6. NobodySpeaksBeforeAnswer' /\ FloorsMeet'
    BY <1>r, <1>q, <2>2, <2>5 DEF NobodySpeaksBeforeAnswer, FloorsMeet
  <2>. QED BY <1>v, <2>1, <2>2, <2>4, <2>6 DEF OneConversation, RecordsFit
<1>4. ASSUME NEW p \in Roles, NEW t \in tasks[p], SendTurn(p, t) PROVE OneConversation'
  <2>1. /\ t.next = "sendTurn" /\ t.seq \in Nat /\ At(tasks[p], "sendTurn")
        /\ Finish(p, t) /\ UNCHANGED <<state, alive>>
    BY <1>4, TaskSays DEF SendTurn
  <2>2. state["caller"] \notin {"NONE", "DIALING"} /\ TasksGrow(p, {}) /\ TurnTasksStay
    BY <1>q, <2>1, Growth, TurnsStay
  <2>3. NobodySpeaksBeforeAnswer'
    BY <2>1, <2>2 DEF NobodySpeaksBeforeAnswer
  <2>4. CASE up[p]
    <3>1. Transmit(p, Frame("SEND", t.seq))
      BY <1>4, <2>4 DEF SendTurn
    <3>2. WireGrows(Peer(p), {"SEND"})
      BY <1>r, <2>1, <3>1, SendGrowth
    <3>3. Carries(wire'[Peer(p)], "SEND")
      BY <1>r, <1>p, <1>v, <2>1, <3>1, TransmitMoves DEF WireMoves
    <3>4. OneAccept' /\ (AcceptComing' => AcceptComing)
      BY <1>v, <2>2, <3>2, AcceptKept
    <3>5. FloorsMeet'
      BY <1>r, <1>p, <3>3 DEF FloorsMeet, Speaking
    <3>. QED BY <1>v, <2>1, <2>3, <3>4, <3>5 DEF OneConversation, RecordsFit
  <2>5. CASE ~up[p]
    <3>1. UNCHANGED <<wire, floor>>
      BY <1>4, <2>5 DEF SendTurn
    <3>2. WireGrows(Peer(p), {}) /\ TurnFramesStay
      BY <3>1, Growth, TurnsStay
    <3>. QED BY <2>1, <2>2, <3>1, <3>2, CalmStep
  <2>. QED BY <2>4, <2>5
<1>5. ASSUME NEW p \in Roles, NEW t \in tasks[p], ApplyTurn(p, t) PROVE OneConversation'
  <2>1. /\ t.next = "applyTurn" /\ At(tasks[p], "applyTurn")
        /\ UNCHANGED <<state, alive, wire>>
        /\ floor'[p] = p /\ floor'[Peer(p)] = floor[Peer(p)]
    BY <1>5, <1>p, TaskSays DEF ApplyTurn, FloorAfterHearing, TypeOK
  <2>2. Speaking(p) /\ state["caller"] \notin {"NONE", "DIALING"}
    BY <1>q, <2>1 DEF Speaking
  <2>3. NobodySpeaksBeforeAnswer'
    BY <2>1, <2>2 DEF NobodySpeaksBeforeAnswer
  <2>4. TasksGrow(p, {"emitMessage"}) /\ WireGrows(Peer(p), {})
    BY <1>5, <2>1, Growth DEF ApplyTurn
  <2>5. OneAccept' /\ (AcceptComing' => AcceptComing)
    BY <1>v, <2>4, AcceptKept
  <2>6. FloorsMeet'
    <3>1. CASE Over
      BY <1>k, <2>1, <3>1 DEF FloorsMeet
    <3>2. CASE ~Over
      <4>1. state["caller"] = "CONNECTED" /\ state["callee"] = "CONNECTED"
        BY <1>c, <2>2, <3>2
      <4>2. floor[Peer(p)] = p
        BY <1>r, <1>p, <1>o, <2>2, <4>1 DEF HoldsFloor, Known, TypeOK, Roles
      <4>. QED BY <1>r, <2>1, <4>2 DEF FloorsMeet
    <3>. QED BY <3>1, <3>2
  <2>. QED BY <1>v, <2>1, <2>3, <2>5, <2>6 DEF OneConversation, RecordsFit
<1>. QED BY <1>1, <1>2, <1>3, <1>4, <1>5

\* A call dials only as long as its invite has not been settled.
LEMMA DialingWaits ==
  ASSUME TypeOK, RingsOnce, NoPausing, OnlyCalleeAnswers, state["caller"] = "DIALING" => outcome = "waiting",
         [Next]_vars
  PROVE  state'["caller"] = "DIALING" => outcome' = "waiting"
<1>. USE DEF record, link, promise, bounds
<1>r. "caller" \in Roles /\ "callee" \in Roles /\ \A p \in Roles : p = "caller" \/ p = "callee"
  BY DEF Roles
<1>s. state \in [Roles -> States]
  BY DEF TypeOK
<1>1. ASSUME NEW p \in Roles, Client(p) PROVE state'["caller"] = "DIALING" => outcome' = "waiting"
  <2>1. Invite => outcome' = "waiting"
    BY DEF Invite
  <2>2. ASSUME Accept \/ Deny PROVE state'["caller"] = state["caller"] /\ UNCHANGED outcome
    BY <1>r, <1>s, <2>2 DEF Accept, Deny
  <2>3. ASSUME Speak(p) \/ RequestPause(p) \/ RequestInject(p) PROVE UNCHANGED <<state, outcome>>
    BY <2>3 DEF Speak, RequestPause, RequestInject
  <2>4. ASSUME RequestEnd(p) PROVE state'["caller"] \in {state["caller"], "CLOSING"} /\ UNCHANGED outcome
    BY <1>r, <1>s, <2>4 DEF RequestEnd
  <2>. QED BY <1>1, <2>1, <2>2, <2>3, <2>4 DEF Client
<1>2. ASSUME NEW p \in Roles, Receive(p) \/ NoticeClose(p) PROVE UNCHANGED <<state, outcome>>
  BY <1>2 DEF Receive, ReceiveInvite, ReceiveTurn, ReceiveForCall, ReceiveError, NoticeClose
<1>3. ASSUME NEW p \in Roles, Resume(p) PROVE state'["caller"] = "DIALING" => outcome' = "waiting"
  <2>1. PICK t \in tasks[p] :
          \/ p = "caller" /\ (NumberInvite(t) \/ SendInvite(t))
          \/ p = "callee" /\ (SendAccept(t) \/ SendDeny(t))
          \/ Refuse(p, t) \/ Ring(p, t)
          \/ ApplyAccepted(p, t) \/ ApplyRejected(p, t)
          \/ SendTurn(p, t) \/ ApplyTurn(p, t)
          \/ SendPause(p, t) \/ ApplyPause(p, t)
          \/ SendInject(p, t) \/ SendEnd(p, t) \/ ApplyEnd(p, t)
          \/ Emit(p, t)
    BY <1>3 DEF Resume
  <2>2. ~SendPause(p, t) /\ ~ApplyPause(p, t)
    BY TaskSays DEF SendPause, ApplyPause
  <2>3. ASSUME NumberInvite(t) \/ SendInvite(t) \/ SendAccept(t) \/ SendDeny(t) \/ Refuse(p, t)
               \/ SendTurn(p, t) \/ ApplyTurn(p, t) \/ SendInject(p, t) \/ Emit(p, t)
        PROVE  UNCHANGED <<state, outcome>>
    BY <2>3 DEF NumberInvite, SendInvite, SendAccept, SendDeny, Refuse, SendTurn, ApplyTurn,
                SendInject, Emit
  <2>4. ASSUME Ring(p, t) \/ SendEnd(p, t) \/ ApplyEnd(p, t)
        PROVE  state'["caller"] \in {state["caller"], "RINGING", "CLOSED"} /\ UNCHANGED outcome
    BY <1>r, <1>s, <2>4 DEF Ring, SendEnd, ApplyEnd
  <2>5. ASSUME ApplyAccepted(p, t) \/ ApplyRejected(p, t)
        PROVE  state'["caller"] = "DIALING" => outcome' = "waiting"
    <3>1. p = "caller"
      <4>1. t.next \in {"applyAccepted", "applyRejected"} /\ At(tasks[p], t.next)
        BY <2>5, TaskSays DEF ApplyAccepted, ApplyRejected
      <4>. QED BY <1>r, <4>1 DEF OnlyCalleeAnswers
    <3>. QED BY <1>r, <1>s, <2>5, <3>1 DEF ApplyAccepted, ApplyRejected
  <2>. QED BY <2>1, <2>2, <2>3, <2>4, <2>5
<1>4. ASSUME InviteTimeout PROVE state'["caller"] # "DIALING"
  BY <1>r, <1>s, <1>4 DEF InviteTimeout
<1>5. ASSUME Break \/ Reconnect \/ UNCHANGED vars PROVE UNCHANGED <<state, outcome>>
  BY <1>5 DEF Break, Reconnect, vars
<1>6. ASSUME NEW p \in Roles, Crash(p) PROVE state'["caller"] = "DIALING" => outcome' = "waiting"
  BY <1>r, <1>s, <1>6 DEF Crash
<1>. QED BY <1>1, <1>2, <1>3, <1>4, <1>5, <1>6 DEF Next, Fault

\* The first floor is fixed by the invite; a fault stays counted.
LEMMA ChosenOnce ==
  ASSUME TypeOK, [Next]_vars
  PROVE  UNCHANGED firstFloor /\ (faults' = 0 => faults = 0)
<1>. USE DEF record, link, promise, bounds
<1>1. ASSUME NEW p \in Roles, Client(p) PROVE UNCHANGED <<firstFloor, faults>>
  BY <1>1 DEF Client, Speak, RequestPause, RequestInject, RequestEnd, Asks, Invite, Accept, Deny
<1>2. ASSUME NEW p \in Roles, Receive(p) \/ NoticeClose(p) PROVE UNCHANGED <<firstFloor, faults>>
  BY <1>2 DEF Receive, ReceiveInvite, ReceiveTurn, ReceiveForCall, ReceiveError, NoticeClose
<1>3. ASSUME NEW p \in Roles, Resume(p) PROVE UNCHANGED <<firstFloor, faults>>
  BY <1>3 DEF Resume, NumberInvite, SendInvite, SendAccept, SendDeny, Refuse, Ring, ApplyAccepted,
              ApplyRejected, SendTurn, ApplyTurn, SendPause, ApplyPause, SendInject, SendEnd, ApplyEnd, Emit
<1>4. ASSUME InviteTimeout \/ Reconnect \/ UNCHANGED vars PROVE UNCHANGED <<firstFloor, faults>>
  BY <1>4 DEF InviteTimeout, Reconnect, vars
<1>5. ASSUME Fault PROVE UNCHANGED firstFloor /\ faults' # 0
  <2>1. UNCHANGED firstFloor /\ faults' = faults + 1 /\ faults \in Nat
    BY <1>5 DEF Fault, Break, Crash, TypeOK
  <2>. QED BY <2>1
<1>. QED BY <1>1, <1>2, <1>3, <1>4, <1>5 DEF Next

\* As long as there is no fault, every step keeps the two records together.
LEMMA ConversationStep ==
  ASSUME Serial, NobodyPauses, TypeOK, RingsOnce, NoPausing, OnlyCalleeAnswers, FloorInvariant,
         firstFloor = "caller", state["caller"] = "DIALING" => outcome = "waiting", OneConversation,
         [Next]_vars, faults' = 0
  PROVE  OneConversation'
<1>r. \A p \in Roles : p = "caller" \/ p = "callee"
  BY DEF Roles
<1>1. ASSUME NEW p \in Roles, Client(p) PROVE OneConversation'
  <2>1. ~RequestPause(p)
    BY DEF RequestPause, Asks, NobodyPauses
  <2>. QED BY <1>1, <1>r, <2>1, CalmRequests, AcceptingSteps, FloorSteps DEF Client
<1>2. ASSUME NEW p \in Roles, Receive(p) PROVE OneConversation'
  BY <1>2, CalmRequests, AcceptingSteps, FloorSteps DEF Receive
<1>3. ASSUME NEW p \in Roles, Resume(p) PROVE OneConversation'
  <2>1. PICK t \in tasks[p] :
          \/ p = "caller" /\ (NumberInvite(t) \/ SendInvite(t))
          \/ p = "callee" /\ (SendAccept(t) \/ SendDeny(t))
          \/ Refuse(p, t) \/ Ring(p, t)
          \/ ApplyAccepted(p, t) \/ ApplyRejected(p, t)
          \/ SendTurn(p, t) \/ ApplyTurn(p, t)
          \/ SendPause(p, t) \/ ApplyPause(p, t)
          \/ SendInject(p, t) \/ SendEnd(p, t) \/ ApplyEnd(p, t)
          \/ Emit(p, t)
    BY <1>3 DEF Resume
  <2>2. ~SendPause(p, t) /\ ~ApplyPause(p, t)
    BY TaskSays DEF SendPause, ApplyPause
  <2>3. /\ p = "caller" /\ (NumberInvite(t) \/ SendInvite(t)) => OneConversation'
        /\ p = "callee" /\ SendDeny(t) => OneConversation'
        /\ Refuse(p, t) \/ ApplyRejected(p, t) \/ SendInject(p, t)
             \/ SendEnd(p, t) \/ ApplyEnd(p, t) \/ Emit(p, t)
             \/ (ApplyAccepted(p, t) /\ TooLate(p))
             => OneConversation'
    BY CalmResumes
  <2>4. /\ p = "callee" /\ SendAccept(t) => OneConversation'
        /\ ApplyAccepted(p, t) /\ ~TooLate(p) => OneConversation'
    BY AcceptingSteps
  <2>5. Ring(p, t) \/ SendTurn(p, t) \/ ApplyTurn(p, t) => OneConversation'
    BY FloorSteps
  <2>. QED BY <2>1, <2>2, <2>3, <2>4, <2>5
<1>4. ASSUME NEW p \in Roles, NoticeClose(p) PROVE OneConversation'
  BY <1>4 DEF NoticeClose, OneConversation
<1>5. ASSUME InviteTimeout PROVE OneConversation'
  BY <1>5, CalmRequests
<1>6. ASSUME Reconnect \/ UNCHANGED vars PROVE OneConversation'
  <2>1. UNCHANGED <<state, floor, tasks, wire>> /\ alive'
    BY <1>6 DEF Reconnect, record, vars, OneConversation
  <2>. QED BY <2>1 DEF OneConversation, OneAccept, RecordsFit, NobodySpeaksBeforeAnswer, FloorsMeet,
           AcceptComing, Speaking, Over
<1>7. ~Fault
  BY DEF Fault, Break, Crash, TypeOK
<1>. QED BY <1>1, <1>2, <1>3, <1>4, <1>5, <1>6, <1>7 DEF Next

\* When everything has settled, without a fault, the two records of a call that
\* goes on agree on who has the floor: as long as the caller speaks first,
\* clients wait for their answers and nobody pauses.
THEOREM FloorsAgreeInTheEnd ==
  Serial /\ NobodyPauses /\ FirstFloors \subseteq {"caller"} => (Spec => []FloorsAgree)
<1>1. Serial \in BOOLEAN /\ NobodyPauses \in BOOLEAN /\ (FirstFloors \subseteq {"caller"}) \in BOOLEAN
  BY ConstantsAssumption DEF NobodyPauses
<1>. SUFFICES ASSUME Serial, NobodyPauses, FirstFloors \subseteq {"caller"} PROVE Spec => []FloorsAgree
  BY <1>1
<1>2. ASSUME Init PROVE GivenUpInvariant /\ FloorsInvariant
  <2>1. /\ \A p \in Roles : /\ \A step : ~At(tasks[p], step) /\ SingleAt(tasks[p], step)
                            /\ \A type : ~Carries(wire[p], type) /\ SingleIn(wire[p], type)
        /\ ~pending /\ outcome = "none" /\ alive
    BY <1>2, EmptyContents DEF Init, At, SingleAt
  <2>2. /\ "caller" \in Roles /\ "callee" \in Roles
        /\ firstFloor = "caller"
        /\ \A p \in Roles : state[p] = "NONE" /\ floor[p] = "caller"
    BY <1>2 DEF Init, Roles
  <2>3. GivenUpInvariant
    BY <2>1, <2>2 DEF GivenUpInvariant, OnlyCalleeAnswers, InviteUnsent
  <2>4. OneConversation
    BY <2>1, <2>2 DEF OneConversation, OneAccept, RecordsFit, NobodySpeaksBeforeAnswer, FloorsMeet,
                      AcceptComing, Speaking
  <2>. QED BY <2>2, <2>3, <2>4 DEF FloorsInvariant
<1>3. TypeOK /\ RingsOnce /\ NoPausing /\ FloorInvariant /\ GivenUpInvariant /\ [Next]_vars
        => GivenUpInvariant'
  BY GivenUpStep
<1>4. TypeOK /\ RingsOnce /\ NoPausing /\ FloorInvariant /\ GivenUpInvariant /\ FloorsInvariant
        /\ [Next]_vars => FloorsInvariant'
  <2>. SUFFICES ASSUME TypeOK, RingsOnce, NoPausing, FloorInvariant, GivenUpInvariant, FloorsInvariant,
                       [Next]_vars
       PROVE FloorsInvariant'
    OBVIOUS
  <2>1. /\ OnlyCalleeAnswers /\ firstFloor = "caller"
        /\ state["caller"] = "DIALING" => outcome = "waiting"
        /\ faults = 0 => OneConversation
    BY DEF GivenUpInvariant, FloorsInvariant
  <2>2. state'["caller"] = "DIALING" => outcome' = "waiting"
    BY <2>1, DialingWaits
  <2>3. UNCHANGED firstFloor /\ (faults' = 0 => faults = 0)
    BY ChosenOnce
  <2>4. faults' = 0 => OneConversation'
    BY <2>1, <2>3, ConversationStep
  <2>. QED BY <2>1, <2>2, <2>3, <2>4 DEF FloorsInvariant
<1>5. FloorsInvariant => FloorsAgree
  <2>. SUFFICES ASSUME FloorsInvariant, Quiet, faults = 0, \A p \in Roles : state[p] = "CONNECTED"
       PROVE floor["caller"] = floor["callee"]
    BY DEF FloorsAgree
  <2>1. FloorsMeet /\ "caller" \in Roles /\ "callee" \in Roles
    BY DEF FloorsInvariant, OneConversation, Roles
  <2>2. \A p \in Roles : tasks[p] = {} /\ wire[p] = <<>> /\ state[p] = "CONNECTED"
    BY DEF Quiet
  <2>3. \A p \in Roles : ~Speaking(p)
    BY <2>2, EmptyContents DEF Speaking, At
  <2>. QED BY <2>1, <2>2, <2>3 DEF FloorsMeet, Over
<1>6. Spec => [](RingsOnce /\ NoPausing)
  BY RecordIsMadeOnce
<1>7. Spec => []FloorInvariant
  BY FloorInvariantHolds
<1>. QED BY <1>2, <1>3, <1>4, <1>5, <1>6, <1>7, CallTypeCorrect, PTL DEF Spec
============================================================================
