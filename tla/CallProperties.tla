-------------------------- MODULE CallProperties --------------------------
(***************************************************************************)
(* What a call promises, over the states and steps of Call.                *)
(***************************************************************************)
EXTENDS Call

\* Nothing is suspended, in flight or armed: the daemons only wait for their
\* clients.
Quiet ==
  /\ \A p \in Roles : tasks[p] = {} /\ wire[p] = <<>> /\ up[p]
  /\ alive
  /\ ~pending

---------------------------------------------------------------------------
(* The floor.                                                              *)

\* The two sides never both believe that they have the floor: the check in
\* send() and its siblings, the flip after conn.send and the flip in
\* handleIncomingSend, with an await between each check and its flip.
FloorExclusive == ~(HoldsFloor("caller") /\ HoldsFloor("callee"))

\* A turn message is applied only after every earlier one: seqIn, assigned
\* after an await in handleIncomingSend, never goes back.
TurnsAppliedInOrder == [][\A p \in Roles : seqIn'[p] >= seqIn[p]]_vars

\* Once nothing is in flight the two records agree on who has the floor, so
\* that one of the two clients can go on.
FloorsAgree ==
  Quiet /\ faults = 0 /\ (\A p \in Roles : state[p] = "CONNECTED")
    => floor["caller"] = floor["callee"]

\* A handler among ts is at this step; a frame of s has this type.
At(ts, step) == \E t \in ts : t.next = step
Carries(s, type) == \E i \in 1..Len(s) : s[i].type = type

\* A turn message is on its way to p: in flight, or about to be applied.
Speaking(p) == Carries(wire[p], "SEND") \/ At(tasks[p], "applyTurn")

Turn == INSTANCE TurnTaking WITH
  Sides <- Roles,
  begun <- state[firstFloor] # "NONE",
  turn <- IF HoldsFloor("caller") THEN "caller"
          ELSE IF HoldsFloor("callee") THEN "callee" ELSE "nobody",
  flight <- IF Speaking("caller") THEN "caller"
            ELSE IF Speaking("callee") THEN "callee" ELSE "nobody"

\* The two records, the suspended sends and the frames in flight together
\* behave as one turn that is passed around.
TakesTurns == Turn!TurnSpec

---------------------------------------------------------------------------
(* Why the floor is exclusive: the inductive strengthening.                *)

\* At most one handler of ts is at this step; at most one frame of s has this
\* type.
SingleAt(ts, step) == \A t, u \in ts : t.next = step /\ u.next = step => t = u
SingleIn(s, type) ==
  \A i, j \in 1..Len(s) : s[i].type = type /\ s[j].type = type => i = j

\* Only an INVITE is handled without a record.
TasksHaveRecord ==
  \A p \in Roles : \A step \in Steps \ {"ring", "refuse"} :
    At(tasks[p], step) => Known(p)

\* While a turn message is on its way there is only that one, and nobody has
\* the floor.
OneTurnInFlight ==
  /\ ~(Speaking("caller") /\ Speaking("callee"))
  /\ \A p \in Roles :
       /\ Speaking(p) => ~HoldsFloor("caller") /\ ~HoldsFloor("callee")
       /\ ~(Carries(wire[p], "SEND") /\ At(tasks[p], "applyTurn"))
       /\ SingleIn(wire[p], "SEND")
       /\ SingleAt(tasks[p], "applyTurn")

\* Who is about to send a turn message still has the floor, and sends one.
SpeakerHoldsFloor ==
  \A p \in Roles :
    /\ SingleAt(tasks[p], "sendTurn")
    /\ At(tasks[p], "sendTurn") => HoldsFloor(p)

\* Before invite() there is nothing.
NothingBeforeInvite ==
  outcome = "none" =>
    /\ floor["caller"] = firstFloor
    /\ \A p \in Roles : /\ state[p] = "NONE"
                        /\ \A step \in Steps : ~At(tasks[p], step)
                        /\ \A type \in FrameTypes : ~Carries(wire[p], type)

InviteUnsent == At(tasks["caller"], "numberInvite") \/ At(tasks["caller"], "sendInvite")
InviteInFlight == Carries(wire["callee"], "INVITE")
InviteTaken == At(tasks["callee"], "ring")
Inviting == InviteUnsent \/ InviteInFlight \/ InviteTaken

\* The one invite is in one place.
OneInvite ==
  /\ ~(InviteUnsent /\ InviteInFlight)
  /\ ~(InviteUnsent /\ InviteTaken)
  /\ ~(InviteInFlight /\ InviteTaken)
  /\ ~(At(tasks["caller"], "numberInvite") /\ At(tasks["caller"], "sendInvite"))
  /\ SingleAt(tasks["caller"], "numberInvite")
  /\ SingleAt(tasks["caller"], "sendInvite")
  /\ SingleIn(wire["callee"], "INVITE")
  /\ SingleAt(tasks["callee"], "ring")
  /\ ~Carries(wire["caller"], "INVITE")
  /\ ~At(tasks["caller"], "ring")

\* Until the callee has its record it has nothing to say, and the caller
\* cannot speak: so the record the callee makes agrees with the caller's.
NobodySpeaksBeforeRinging ==
  Inviting =>
    /\ state["callee"] = "NONE"
    /\ state["caller"] \in {"DIALING", "CLOSING", "CLOSED", "LOST"}
    /\ floor["caller"] = firstFloor
    /\ \A type \in FrameTypes : ~Carries(wire["caller"], type)
    /\ \A type \in FrameTypes \ {"INVITE", "HUMAN_INJECT", "END"} :
         ~Carries(wire["callee"], type)
    /\ \A step \in Steps \ {"ring"} : ~At(tasks["callee"], step)
    /\ \A step \in Steps \ {"numberInvite", "sendInvite", "sendInject", "sendEnd",
                            "emitEnded"} : ~At(tasks["caller"], step)

FloorInvariant ==
  /\ TasksHaveRecord
  /\ FloorExclusive
  /\ OneTurnInFlight
  /\ SpeakerHoldsFloor
  /\ NothingBeforeInvite
  /\ OneInvite
  /\ NobodySpeaksBeforeRinging

---------------------------------------------------------------------------
(* The life of a call.                                                     *)

\* A closed call stays closed, whatever handler was suspended when it closed
\* (only a crash removes its record).
ClosedIsFinal ==
  [][\A p \in Roles : state[p] = "CLOSED" => state'[p] \in {"CLOSED", "LOST"}]_vars

\* When everything has settled, a call the callee has closed is closed at the
\* caller, and a call the caller has closed is not a live conversation at the
\* callee.
CloseAgreement ==
  Quiet => /\ state["callee"] = "CLOSED" => state["caller"] = "CLOSED"
           /\ state["caller"] = "CLOSED" => state["callee"] \notin {"CONNECTED", "CLOSING"}

\* When everything has settled, a call the caller has closed does not ring on
\* at the callee.
NoOrphanRinging ==
  Quiet /\ state["caller"] = "CLOSED" => state["callee"] # "RINGING"

\* What invite() reports is what the callee did, however the answer, the
\* timer and an END race: accepted only if it accepted, denied only if it
\* refused, and its record is then closed or was never made.
OutcomeHonest ==
  /\ outcome = "accepted" => state["callee"] \notin {"NONE", "RINGING"}
  /\ outcome = "denied" => state["callee"] \in {"NONE", "CLOSED"}

\* An invite that has been reported as timed out or denied is not, and does not
\* become, a conversation at the caller.
GivenUpStaysDown ==
  outcome \in {"timeout", "denied"} =>
    state["caller"] \in {"CLOSING", "CLOSED", "LOST"}

---------------------------------------------------------------------------
(* Why a closed call stays closed, and closes at both sides.               *)

\* No client has asked to pause or to resume.
NoPausing ==
  \A p \in Roles :
    /\ \A step \in {"sendPause", "sendResume", "applyPause", "applyResume"} :
         ~At(tasks[p], step)
    /\ \A type \in {"PAUSE", "RESUME"} : ~Carries(wire[p], type)

\* The callee makes its record once, out of nothing.
RingsOnce ==
  /\ NothingBeforeInvite
  /\ TasksHaveRecord
  /\ OneInvite
  /\ Inviting => state["callee"] = "NONE"

\* The callee's answer, or the word that the call is over, is on its way.
AcceptComing ==
  \/ At(tasks["callee"], "sendAccept")
  \/ Carries(wire["caller"], "ACCEPTED")
  \/ At(tasks["caller"], "applyAccepted")
DenyComing ==
  \/ At(tasks["callee"], "sendDeny") \/ At(tasks["callee"], "refuse")
  \/ Carries(wire["caller"], "REJECTED")
  \/ At(tasks["caller"], "applyRejected")
EndComing(p) == Carries(wire[p], "END") \/ At(tasks[p], "applyEnd")

\* Only the callee answers.
OnlyCalleeAnswers ==
  /\ \A type \in {"ACCEPTED", "REJECTED"} : ~Carries(wire["callee"], type)
  /\ \A step \in {"applyAccepted", "applyRejected"} : ~At(tasks["callee"], step)
  /\ ~At(tasks["caller"], "refuse")

\* The answer that is on its way or has been reported is what the callee's
\* record says.
AnswersFit ==
  /\ OnlyCalleeAnswers
  /\ Inviting => /\ ~AcceptComing /\ ~DenyComing
                 /\ outcome \notin {"accepted", "denied"}
  /\ AcceptComing \/ outcome = "accepted"
       => state["callee"] \in {"CONNECTED", "CLOSING", "CLOSED"}
  /\ DenyComing \/ outcome = "denied" => state["callee"] \in {"NONE", "CLOSED"}

\* Without faults the connection stands and no record is lost.
NothingLost ==
  /\ alive
  /\ outcome # "none" => Known("caller")
  /\ pending => outcome # "none"
  /\ \A p \in Roles : /\ up[p]
                      /\ state[p] # "LOST"
                      /\ \A t \in tasks[p] : t.open

\* A side that has closed the call has told the other, or is about to hear
\* from it what makes it say so.
EndsMeet ==
  /\ \A p \in Roles : /\ state[p] = "CLOSING" => At(tasks[p], "sendEnd")
                      /\ EndComing(p) => state[Peer(p)] = "CLOSED"
  /\ state["callee"] = "CLOSED" =>
       state["caller"] = "CLOSED" \/ EndComing("caller") \/ DenyComing
  /\ state["caller"] = "CLOSED" /\ state["callee"] = "CONNECTED" =>
       EndComing("callee") \/ AcceptComing

ClosingInvariant ==
  /\ NoPausing
  /\ RingsOnce
  /\ AnswersFit
  /\ NothingLost
  /\ EndsMeet

---------------------------------------------------------------------------
(* Why an invite that was given up stays down, when clients wait for their *)
(* answers.                                                                *)

\* As long as the promise may still be settled the call is dialing, unless the
\* callee has closed it already; and only one of timer and answer settles it.
GivenUpInvariant ==
  /\ OnlyCalleeAnswers
  /\ pending => ~InviteUnsent
  /\ pending \/ InviteUnsent => /\ outcome = "waiting"
                               /\ state["caller"] \in {"DIALING", "CLOSED"}
  /\ outcome \in {"timeout", "denied"} => state["caller"] \in {"CLOSED", "LOST"}

---------------------------------------------------------------------------
(* Why the floors agree in the end, when the caller speaks first, clients  *)
(* wait for their answers and nobody pauses.                               *)

\* The one acceptance is in one place.
OneAccept ==
  LET unsent == At(tasks["callee"], "sendAccept")
      inFlight == Carries(wire["caller"], "ACCEPTED")
      taken == At(tasks["caller"], "applyAccepted")
  IN /\ ~(unsent /\ inFlight) /\ ~(unsent /\ taken) /\ ~(inFlight /\ taken)
     /\ SingleAt(tasks["callee"], "sendAccept")
     /\ SingleIn(wire["caller"], "ACCEPTED")
     /\ SingleAt(tasks["caller"], "applyAccepted")

\* One side has given the call up; without a pause it never takes that back.
Over == \E p \in Roles : state[p] \in {"CLOSING", "CLOSED"}

\* The two records go together: as long as the callee has not accepted, and
\* until its acceptance has arrived, the caller is not in conversation, and has
\* given the call up only for good.
RecordsFit ==
  /\ state["caller"] \in {"NONE", "DIALING", "CONNECTED", "CLOSING", "CLOSED"}
  /\ state["callee"] \in {"NONE", "RINGING", "CONNECTED", "CLOSING", "CLOSED"}
  /\ AcceptComing => state["callee"] \notin {"NONE", "RINGING"}
  /\ AcceptComing \/ state["callee"] \in {"NONE", "RINGING"}
       => state["caller"] \in {"NONE", "DIALING", "CLOSED"}

\* Until the caller is connected nobody speaks.
NobodySpeaksBeforeAnswer ==
  state["caller"] \in {"NONE", "DIALING"} =>
    \A p \in Roles : floor[p] = "caller" /\ ~Speaking(p) /\ ~At(tasks[p], "sendTurn")

\* While the conversation lasts the floors differ only as long as the turn
\* message that makes them agree is on its way.
FloorsMeet ==
  floor["caller"] = floor["callee"] \/ Speaking("caller") \/ Speaking("callee") \/ Over

\* Without faults the two records go on towards one floor.
OneConversation ==
  /\ alive
  /\ OneAccept
  /\ RecordsFit
  /\ NobodySpeaksBeforeAnswer
  /\ FloorsMeet

FloorsInvariant ==
  /\ firstFloor = "caller"
  /\ state["caller"] = "DIALING" => outcome = "waiting"
  /\ faults = 0 => OneConversation

---------------------------------------------------------------------------
(* What has to happen.                                                     *)

\* Every invite() promise is settled.
InviteSettles == outcome = "waiting" ~> outcome # "waiting"

\* A call closed on one side does not stay a conversation on the other, unless
\* the connection fails.
EndReachesPeer ==
  \A p \in Roles :
    (state[p] = "CLOSED" /\ state[Peer(p)] = "CONNECTED")
      ~> (state[Peer(p)] = "CLOSED" \/ faults > 0)
============================================================================
