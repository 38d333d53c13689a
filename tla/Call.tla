------------------------------- MODULE Call -------------------------------
(***************************************************************************)
(* One call between two peerd daemons (peerd/src/call_manager.ts).          *)
(*                                                                         *)
(* Each daemon is single threaded, but its handlers are async functions:   *)
(* they stop at `await fs.promises...` and other handlers run meanwhile.   *)
(* An action is the code between two awaits.  What a suspended handler     *)
(* still has to do is a record of tasks[p]; file operations finish in any  *)
(* order, so any suspended handler may be the next to resume.              *)
(*                                                                         *)
(* The daemons are named by the role they play in the call.  The           *)
(* connection carries frames in order in each direction (wire[p] is what   *)
(* travels towards p); it may break, losing what is in flight, and the two *)
(* daemons notice that separately.  A daemon may crash: its call table is  *)
(* memory only.                                                            *)
(***************************************************************************)
EXTENDS Naturals, Sequences, FiniteSets

CONSTANTS
  Requests,     \* the in-call requests clients make, a subset of InCall
  FirstFloors,  \* the values of first_floor an invite may ask for
  Serial,       \* TRUE: a client waits for its answer before it asks again
  MaxRequests,  \* bound: in-call requests, of both sides together
  MaxFaults     \* bound: broken connections and crashes

InCall == {"send", "pause", "resume", "inject", "end"}

Roles == {"caller", "callee"}

Peer(p) == IF p = "caller" THEN "callee" ELSE "caller"

ASSUME ConstantsAssumption ==
  /\ Requests \subseteq InCall
  /\ FirstFloors \subseteq Roles
  /\ Serial \in BOOLEAN
  /\ MaxRequests \in Nat
  /\ MaxFaults \in Nat

VARIABLES
  state,       \* CallRecord.state; NONE: no record yet, LOST: gone in a crash
  floor,       \* CallRecord.floor: who may speak, in p's opinion
  seqOut,      \* CallRecord.seqOut
  seqIn,       \* CallRecord.seqIn
  tasks,       \* the suspended handlers of p
  wire,        \* the frames on their way to p
  up,          \* getConnection(peer) is defined at p
  alive,       \* the connection carries what is sent on it
  pending,     \* the caller's invite timer is armed (the `pending` map)
  outcome,     \* what the caller's invite() promise has become
  heard,       \* the last event p has emitted to its control server
  firstFloor,  \* opts.first_floor of the invite, carried in its payload
  asked,       \* bound: the in-call requests served so far
  faults       \* bound: the faults so far

record  == <<state, floor, seqOut, seqIn>>
link    == <<wire, up, alive>>
promise == <<pending, outcome>>
bounds  == <<firstFloor, asked, faults>>

vars == <<state, floor, seqOut, seqIn, tasks, wire, up, alive, pending,
          outcome, heard, firstFloor, asked, faults>>

States == {"NONE", "DIALING", "RINGING", "CONNECTED", "PAUSED", "CLOSING",
           "CLOSED", "LOST"}

\* INVITE_RESPONSE is ACCEPTED or REJECTED by its `accepted` field; SEND stands
\* for the four messages that pass the floor (SEND, SHARE_FILE,
\* PROPOSE_CHANGE, SHARE_FILE_REF), whose handlers have the same control.
FrameTypes == {"INVITE", "ACCEPTED", "REJECTED", "SEND", "PAUSE", "RESUME",
               "HUMAN_INJECT", "END", "ERROR"}

Frames == [type : FrameTypes, seq : Nat]

Events == {"invite", "connected", "message", "paused", "resumed",
           "human_inject", "ended"}

\* What a suspended client request, and a suspended frame handler, does next.
ClientSteps == {"numberInvite", "sendInvite", "sendAccept", "emitConnected",
                "sendDeny", "sendTurn", "sendPause", "sendResume",
                "sendInject", "sendEnd"}

HandlerSteps == {"ring", "refuse", "applyAccepted", "applyRejected",
                 "applyTurn", "applyPause", "applyResume", "applyEnd",
                 "emitInvite", "emitMessage", "emitPaused", "emitResumed",
                 "emitInject", "emitEnded"}

Steps == ClientSteps \cup HandlerSteps

\* open: the connection the handler captured when it started is still open.
Tasks == [next : Steps, seq : Nat, open : BOOLEAN]

TypeOK ==
  /\ state \in [Roles -> States]
  /\ floor \in [Roles -> Roles]
  /\ seqOut \in [Roles -> Nat]
  /\ seqIn \in [Roles -> Nat]
  /\ tasks \in [Roles -> SUBSET Tasks]
  /\ wire \in [Roles -> Seq(Frames)]
  /\ up \in [Roles -> BOOLEAN]
  /\ alive \in BOOLEAN
  /\ pending \in BOOLEAN
  /\ outcome \in {"none", "waiting", "accepted", "denied", "timeout", "error"}
  /\ heard \in [Roles -> Events \cup {"nothing"}]
  /\ firstFloor \in Roles
  /\ asked \in Nat
  /\ faults \in Nat

Init ==
  /\ state = [p \in Roles |-> "NONE"]
  /\ firstFloor \in FirstFloors
  /\ floor = [p \in Roles |-> firstFloor]
  /\ seqOut = [p \in Roles |-> 0]
  /\ seqIn = [p \in Roles |-> 0]
  /\ tasks = [p \in Roles |-> {}]
  /\ wire = [p \in Roles |-> <<>>]
  /\ up = [p \in Roles |-> TRUE]
  /\ alive = TRUE
  /\ pending = FALSE
  /\ outcome = "none"
  /\ heard = [p \in Roles |-> "nothing"]
  /\ asked = 0
  /\ faults = 0

---------------------------------------------------------------------------
(* Suspending, resuming and sending.                                       *)

Frame(type, n) == [type |-> type, seq |-> n]

Suspend(p, next, n) ==
  tasks' = [tasks EXCEPT ![p] = @ \cup {[next |-> next, seq |-> n, open |-> TRUE]}]

Finish(p, t) == tasks' = [tasks EXCEPT ![p] = @ \ {t}]

SuspendAgain(p, t, next) ==
  tasks' = [tasks EXCEPT ![p] = (@ \ {t}) \cup {[t EXCEPT !.next = next]}]

\* conn.send never fails after the handshake: a frame written to a connection
\* that has already died is lost.
Transmit(p, f) ==
  wire' = [wire EXCEPT ![Peer(p)] = IF alive THEN Append(@, f) ELSE @]

\* A frame type has come off the connection at p.
Arrives(p, type) ==
  /\ up[p]
  /\ wire[p] # <<>>
  /\ Head(wire[p]).type = type

Consume(p) == wire' = [wire EXCEPT ![p] = Tail(@)]

ConsumeAndReply(p, f) ==
  wire' = [wire EXCEPT ![p] = Tail(@),
                       ![Peer(p)] = IF alive THEN Append(@, f) ELSE @]

Known(p) == state[p] \notin {"NONE", "LOST"}           \* calls.has(call_id)

Active(p) == Known(p) /\ state[p] \notin {"CLOSING", "CLOSED"}

HoldsFloor(p) == Known(p) /\ floor[p] = p

\* A client of p waits for the answer to its last request.
Busy(p) ==
  \/ \E t \in tasks[p] : t.next \in ClientSteps
  \/ p = "caller" /\ outcome = "waiting"

\* A client of p makes one more in-call request.
Asks(p, request) ==
  /\ request \in Requests
  /\ Serial => ~Busy(p)
  /\ asked < MaxRequests
  /\ asked' = asked + 1
  /\ UNCHANGED <<firstFloor, faults>>

---------------------------------------------------------------------------
(* Frames that any known call takes, whatever its state.                   *)

StepFor == [ACCEPTED |-> "applyAccepted", REJECTED |-> "applyRejected",
            PAUSE |-> "applyPause", RESUME |-> "applyResume",
            HUMAN_INJECT |-> "emitInject", END |-> "applyEnd"]

\* handleInviteResponse, handleIncomingPause, handleIncomingResume,
\* handleIncomingHumanInject and handleIncomingEnd up to the first await: the
\* handler goes on if there is a record, and the frame is dropped if not.
ReceiveForCall(p) ==
  /\ \E type \in DOMAIN StepFor :
       /\ Arrives(p, type)
       /\ IF Known(p) THEN Suspend(p, StepFor[type], Head(wire[p]).seq)
                      ELSE UNCHANGED tasks
  /\ Consume(p)
  /\ UNCHANGED <<record, up, alive, promise, heard, bounds>>

\* routeIncoming hands an ERROR to the listeners of peer_error; there is none.
ReceiveError(p) ==
  /\ Arrives(p, "ERROR")
  /\ Consume(p)
  /\ UNCHANGED <<record, tasks, up, alive, promise, heard, bounds>>

---------------------------------------------------------------------------
(* Inviting.                                                               *)
(*                                                                         *)
(* Next to some operators stands a variant with a mistake in it (its       *)
(* comment begins with "Mistake"): PROJECT.json puts it in the operator's  *)
(* place to see that a property notices.                                   *)

\* Mistake: the peer is not told.
SendTimeoutEndSilently(p) == UNCHANGED <<seqOut, wire>>

\* END(timeout), to tell the callee that its answer is not wanted any more.
SendTimeoutEnd(p) ==
  IF up[p]
  THEN /\ seqOut' = [seqOut EXCEPT ![p] = @ + 1]
       /\ Transmit(p, Frame("END", seqOut[p] + 1))
  ELSE UNCHANGED <<seqOut, wire>>

\* invite(): the directory is made, the DIALING record stored, and the
\* handler waits for meta.json.
Invite ==
  /\ outcome = "none"
  /\ up["caller"]
  /\ outcome' = "waiting"
  /\ state' = [state EXCEPT !["caller"] = "DIALING"]
  /\ Suspend("caller", "numberInvite", 0)
  /\ UNCHANGED <<floor, seqOut, seqIn, link, pending, heard, bounds>>

NumberInvite(t) ==
  /\ t \in tasks["caller"] /\ t.next = "numberInvite"
  /\ seqOut' = [seqOut EXCEPT !["caller"] = @ + 1]
  /\ tasks' = [tasks EXCEPT !["caller"] =
                 (@ \ {t}) \cup {[next |-> "sendInvite", seq |-> seqOut["caller"] + 1,
                                   open |-> t.open]}]
  /\ UNCHANGED <<state, floor, seqIn, link, promise, heard, bounds>>

\* The INVITE goes out on the connection captured at the start, or is dropped
\* without an error if that one has closed; the timer is armed either way.
SendInvite(t) ==
  /\ t \in tasks["caller"] /\ t.next = "sendInvite"
  /\ Finish("caller", t)
  /\ IF t.open THEN Transmit("caller", Frame("INVITE", t.seq)) ELSE UNCHANGED wire
  /\ pending' = TRUE
  /\ UNCHANGED <<record, up, alive, outcome, heard, bounds>>

\* The timer callback of invite(): a call still DIALING is closed and the
\* callee is told.
InviteTimeout ==
  /\ pending
  /\ pending' = FALSE
  /\ outcome' = "timeout"
  /\ IF state["caller"] = "DIALING"
     THEN /\ state' = [state EXCEPT !["caller"] = "CLOSED"]
          /\ SendTimeoutEnd("caller")
     ELSE UNCHANGED <<state, seqOut, wire>>
  /\ UNCHANGED <<floor, seqIn, tasks, up, alive, heard, bounds>>

\* handleIncomingInvite: the opt-in gate asks the control server for an
\* available session, and its answer is not this module's to decide.
ReceiveInvite(p) ==
  /\ Arrives(p, "INVITE")
  /\ LET n == Head(wire[p]).seq
     IN IF Known(p)
        THEN /\ ConsumeAndReply(p, Frame("ERROR", 0))
             /\ UNCHANGED tasks
        ELSE /\ Consume(p)
             /\ \E next \in {"ring", "refuse"} : Suspend(p, next, n)
  /\ UNCHANGED <<record, up, alive, promise, heard, bounds>>

Refuse(p, t) ==
  /\ t \in tasks[p] /\ t.next = "refuse"
  /\ Finish(p, t)
  /\ IF t.open THEN Transmit(p, Frame("REJECTED", 0)) ELSE UNCHANGED wire
  /\ UNCHANGED <<record, up, alive, promise, heard, bounds>>

\* The directory is made: the RINGING record is stored.
Ring(p, t) ==
  /\ t \in tasks[p] /\ t.next = "ring"
  /\ state' = [state EXCEPT ![p] = "RINGING"]
  /\ floor' = [floor EXCEPT ![p] = firstFloor]
  /\ seqOut' = [seqOut EXCEPT ![p] = 0]
  /\ seqIn' = [seqIn EXCEPT ![p] = t.seq]
  /\ SuspendAgain(p, t, "emitInvite")
  /\ UNCHANGED <<link, promise, heard, bounds>>

\* Mistake: the call is left ringing while the answer is written down.
StateOnAcceptLate == "RINGING"

StateOnAccept == "CONNECTED"

\* acceptInvite: CONNECTED is assigned before the connection is looked up,
\* so a call accepted without one throws and stays CONNECTED.
Accept ==
  /\ state["callee"] = "RINGING"
  /\ Serial => ~Busy("callee")
  /\ state' = [state EXCEPT !["callee"] = StateOnAccept]
  /\ IF up["callee"]
     THEN /\ seqOut' = [seqOut EXCEPT !["callee"] = @ + 1]
          /\ Suspend("callee", "sendAccept", seqOut["callee"] + 1)
     ELSE UNCHANGED <<seqOut, tasks>>
  /\ UNCHANGED <<floor, seqIn, link, promise, heard, bounds>>

SendAccept(t) ==
  /\ t \in tasks["callee"] /\ t.next = "sendAccept"
  /\ IF t.open THEN Transmit("callee", Frame("ACCEPTED", t.seq)) ELSE UNCHANGED wire
  /\ SuspendAgain("callee", t, "emitConnected")
  /\ UNCHANGED <<record, up, alive, promise, heard, bounds>>

Deny ==
  /\ state["callee"] = "RINGING"
  /\ Serial => ~Busy("callee")
  /\ state' = [state EXCEPT !["callee"] = "CLOSED"]
  /\ IF up["callee"]
     THEN /\ seqOut' = [seqOut EXCEPT !["callee"] = @ + 1]
          /\ Suspend("callee", "sendDeny", seqOut["callee"] + 1)
     ELSE UNCHANGED <<seqOut, tasks>>
  /\ UNCHANGED <<floor, seqIn, link, promise, heard, bounds>>

SendDeny(t) ==
  /\ t \in tasks["callee"] /\ t.next = "sendDeny"
  /\ Finish("callee", t)
  /\ IF t.open THEN Transmit("callee", Frame("REJECTED", t.seq)) ELSE UNCHANGED wire
  /\ UNCHANGED <<record, up, alive, promise, heard, bounds>>

\* Mistake: the timer is cleared and the promise forgotten.
SettleNothing(result) == pending' = FALSE /\ outcome' = outcome

\* The invite's promise, settled only while the `pending` entry is there.
Settle(result) ==
  /\ outcome' = IF pending THEN result ELSE outcome
  /\ pending' = FALSE

\* Mistake: the answer is taken whatever has happened since.
TooLateNever(p) == FALSE

\* The answer finds the call closed, and is not to reopen it.
TooLate(p) == state[p] = "CLOSED"

ApplyAccepted(p, t) ==
  /\ t \in tasks[p] /\ t.next = "applyAccepted"
  /\ Finish(p, t)
  /\ IF TooLate(p)
     THEN /\ SendTimeoutEnd(p)
          /\ UNCHANGED <<state, promise>>
     ELSE /\ state' = [state EXCEPT ![p] = "CONNECTED"]
          /\ Settle("accepted")
          /\ UNCHANGED <<seqOut, wire>>
  /\ UNCHANGED <<floor, seqIn, up, alive, heard, bounds>>

ApplyRejected(p, t) ==
  /\ t \in tasks[p] /\ t.next = "applyRejected"
  /\ Finish(p, t)
  /\ IF TooLate(p)
     THEN UNCHANGED <<state, promise>>
     ELSE /\ state' = [state EXCEPT ![p] = "CLOSED"]
          /\ Settle("denied")
  /\ UNCHANGED <<floor, seqOut, seqIn, link, heard, bounds>>

---------------------------------------------------------------------------
(* Speaking: send, shareFile, proposeChange, shareFileRef.                 *)

\* Mistake: the floor is not looked at.
MaySpeakAnyTime(p) == state[p] = "CONNECTED"

MaySpeak(p) == state[p] = "CONNECTED" /\ floor[p] = p

\* The floor is checked before the transcript is awaited.
Speak(p) ==
  /\ Asks(p, "send")
  /\ MaySpeak(p)
  /\ seqOut' = [seqOut EXCEPT ![p] = @ + 1]
  /\ Suspend(p, "sendTurn", seqOut[p] + 1)
  /\ UNCHANGED <<state, floor, seqIn, link, promise, heard>>

\* Mistake: the floor is not given away.
FloorAfterSpeakingKept(p) == p

FloorAfterSpeaking(p) == Peer(p)

\* After the await only the connection is checked; a missing one throws.
SendTurn(p, t) ==
  /\ t \in tasks[p] /\ t.next = "sendTurn"
  /\ Finish(p, t)
  /\ IF up[p]
     THEN /\ Transmit(p, Frame("SEND", t.seq))
          /\ floor' = [floor EXCEPT ![p] = FloorAfterSpeaking(p)]
     ELSE UNCHANGED <<wire, floor>>
  /\ UNCHANGED <<state, seqOut, seqIn, up, alive, promise, heard, bounds>>

\* The check of handleIncomingSend and its three siblings.
TurnAdmitted(p) == state[p] = "CONNECTED" /\ floor[p] = Peer(p)

ReceiveTurn(p) ==
  /\ Arrives(p, "SEND")
  /\ IF TurnAdmitted(p)
     THEN /\ Consume(p)
          /\ Suspend(p, "applyTurn", Head(wire[p]).seq)
     ELSE /\ ConsumeAndReply(p, Frame("ERROR", 0))
          /\ UNCHANGED tasks
  /\ UNCHANGED <<record, up, alive, promise, heard, bounds>>

\* Mistake: the floor stays with the side that has just spoken.
FloorAfterHearingKept(p) == Peer(p)

\* Mistake: the floor is given to a peer name, where a role belongs.
FloorAfterHearingByName(p) == "bob"

FloorAfterHearing(p) == p

ApplyTurn(p, t) ==
  /\ t \in tasks[p] /\ t.next = "applyTurn"
  /\ floor' = [floor EXCEPT ![p] = FloorAfterHearing(p)]
  /\ seqIn' = [seqIn EXCEPT ![p] = t.seq]
  /\ SuspendAgain(p, t, "emitMessage")
  /\ UNCHANGED <<state, seqOut, link, promise, heard, bounds>>

---------------------------------------------------------------------------
(* Pausing, resuming, injecting: not bound to the floor.                   *)

\* pause() and resumeCall().
RequestPause(p) ==
  /\ \E r \in {"pause", "resume"} :
       /\ Asks(p, r)
       /\ Suspend(p, IF r = "pause" THEN "sendPause" ELSE "sendResume", seqOut[p] + 1)
  /\ state[p] \in {"CONNECTED", "PAUSED"}
  /\ seqOut' = [seqOut EXCEPT ![p] = @ + 1]
  /\ UNCHANGED <<state, floor, seqIn, link, promise, heard>>

SendPause(p, t) ==
  /\ t \in tasks[p] /\ t.next \in {"sendPause", "sendResume"}
  /\ Finish(p, t)
  /\ IF up[p]
     THEN /\ Transmit(p, Frame(IF t.next = "sendPause" THEN "PAUSE" ELSE "RESUME", t.seq))
          /\ state' = [state EXCEPT ![p] = IF t.next = "sendPause" THEN "PAUSED"
                                                                  ELSE "CONNECTED"]
     ELSE UNCHANGED <<wire, state>>
  /\ UNCHANGED <<floor, seqOut, seqIn, up, alive, promise, heard, bounds>>

ApplyPause(p, t) ==
  /\ t \in tasks[p] /\ t.next \in {"applyPause", "applyResume"}
  /\ state' = [state EXCEPT ![p] = IF t.next = "applyPause" THEN "PAUSED" ELSE "CONNECTED"]
  /\ SuspendAgain(p, t, IF t.next = "applyPause" THEN "emitPaused" ELSE "emitResumed")
  /\ UNCHANGED <<floor, seqOut, seqIn, link, promise, heard, bounds>>

RequestInject(p) ==
  /\ Asks(p, "inject")
  /\ Active(p)
  /\ seqOut' = [seqOut EXCEPT ![p] = @ + 1]
  /\ Suspend(p, "sendInject", seqOut[p] + 1)
  /\ UNCHANGED <<state, floor, seqIn, link, promise, heard>>

SendInject(p, t) ==
  /\ t \in tasks[p] /\ t.next = "sendInject"
  /\ Finish(p, t)
  /\ IF up[p] THEN Transmit(p, Frame("HUMAN_INJECT", t.seq)) ELSE UNCHANGED wire
  /\ UNCHANGED <<record, up, alive, promise, heard, bounds>>

---------------------------------------------------------------------------
(* Ending.                                                                 *)

\* end() takes any call that is not CLOSING or CLOSED, a DIALING or RINGING
\* one included, and waits for the artifacts and the transcript.  (END takes
\* its number between the two; nobody reads that number.)
RequestEnd(p) ==
  /\ Asks(p, "end")
  /\ Active(p)
  /\ state' = [state EXCEPT ![p] = "CLOSING"]
  /\ seqOut' = [seqOut EXCEPT ![p] = @ + 1]
  /\ Suspend(p, "sendEnd", seqOut[p] + 1)
  /\ UNCHANGED <<floor, seqIn, link, promise, heard>>

\* Mistake: the call is closed without a word.
SendEndSilently(p, t) ==
  /\ t \in tasks[p] /\ t.next = "sendEnd"
  /\ state' = [state EXCEPT ![p] = "CLOSED"]
  /\ SuspendAgain(p, t, "emitEnded")
  /\ UNCHANGED <<floor, seqOut, seqIn, link, promise, heard, bounds>>

SendEnd(p, t) ==
  /\ t \in tasks[p] /\ t.next = "sendEnd"
  /\ state' = [state EXCEPT ![p] = "CLOSED"]
  /\ IF up[p] THEN Transmit(p, Frame("END", t.seq)) ELSE UNCHANGED wire
  /\ SuspendAgain(p, t, "emitEnded")
  /\ UNCHANGED <<floor, seqOut, seqIn, up, alive, promise, heard, bounds>>

ApplyEnd(p, t) ==
  /\ t \in tasks[p] /\ t.next = "applyEnd"
  /\ state' = [state EXCEPT ![p] = "CLOSED"]
  /\ SuspendAgain(p, t, "emitEnded")
  /\ UNCHANGED <<floor, seqOut, seqIn, link, promise, heard, bounds>>

\* The emit that ends a handler, after its last await.
EventOf == [emitInvite |-> "invite", emitConnected |-> "connected",
            emitMessage |-> "message", emitPaused |-> "paused",
            emitResumed |-> "resumed", emitInject |-> "human_inject",
            emitEnded |-> "ended"]

Emit(p, t) ==
  /\ t \in tasks[p] /\ t.next \in DOMAIN EventOf
  /\ heard' = [heard EXCEPT ![p] = EventOf[t.next]]
  /\ Finish(p, t)
  /\ UNCHANGED <<record, link, promise, bounds>>

---------------------------------------------------------------------------
(* The connection and the daemons fail.                                    *)

\* From now on what is sent is lost; what is in flight may still arrive.
Break ==
  /\ alive
  /\ faults < MaxFaults
  /\ alive' = FALSE
  /\ faults' = faults + 1
  /\ UNCHANGED <<record, tasks, wire, up, promise, heard, firstFloor, asked>>

\* The close event at p: the connection leaves the table, and what a handler
\* that captured it still sends is dropped.  Nothing happens to the call.
NoticeClose(p) ==
  /\ ~alive
  /\ up[p]
  /\ up' = [up EXCEPT ![p] = FALSE]
  /\ wire' = [wire EXCEPT ![p] = <<>>]
  /\ tasks' = [tasks EXCEPT ![p] = {[t EXCEPT !.open = FALSE] : t \in @}]
  /\ UNCHANGED <<record, alive, promise, heard, bounds>>

Reconnect ==
  /\ \A p \in Roles : ~up[p]
  /\ alive' = TRUE
  /\ up' = [p \in Roles |-> TRUE]
  /\ UNCHANGED <<record, tasks, wire, promise, heard, bounds>>

\* The process of p dies and is restarted with an empty call table.
Crash(p) ==
  /\ faults < MaxFaults
  /\ faults' = faults + 1
  /\ state' = [state EXCEPT ![p] = IF @ = "NONE" THEN "NONE" ELSE "LOST"]
  /\ tasks' = [tasks EXCEPT ![p] = {}]
  /\ wire' = [wire EXCEPT ![p] = <<>>]
  /\ up' = [up EXCEPT ![p] = FALSE]
  /\ alive' = FALSE
  /\ IF p = "caller"
     THEN /\ pending' = FALSE
          /\ outcome' = IF outcome = "waiting" THEN "error" ELSE outcome
     ELSE UNCHANGED promise
  /\ UNCHANGED <<floor, seqOut, seqIn, heard, firstFloor, asked>>

---------------------------------------------------------------------------
Client(p) ==
  \/ Speak(p) \/ RequestPause(p) \/ RequestInject(p) \/ RequestEnd(p)
  \/ p = "caller" /\ Invite
  \/ p = "callee" /\ (Accept \/ Deny)

Receive(p) ==
  ReceiveInvite(p) \/ ReceiveTurn(p) \/ ReceiveForCall(p) \/ ReceiveError(p)

Resume(p) ==
  \E t \in tasks[p] :
    \/ p = "caller" /\ (NumberInvite(t) \/ SendInvite(t))
    \/ p = "callee" /\ (SendAccept(t) \/ SendDeny(t))
    \/ Refuse(p, t) \/ Ring(p, t)
    \/ ApplyAccepted(p, t) \/ ApplyRejected(p, t)
    \/ SendTurn(p, t) \/ ApplyTurn(p, t)
    \/ SendPause(p, t) \/ ApplyPause(p, t)
    \/ SendInject(p, t) \/ SendEnd(p, t) \/ ApplyEnd(p, t)
    \/ Emit(p, t)

Fault == Break \/ \E p \in Roles : Crash(p)

Next ==
  \/ \E p \in Roles : Client(p) \/ Receive(p) \/ Resume(p) \/ NoticeClose(p)
  \/ InviteTimeout
  \/ Reconnect
  \/ Fault

Spec == Init /\ [][Next]_vars

\* A suspended handler is resumed, a frame is delivered, an armed timer fires,
\* a dead connection is noticed and dialled again.  Clients may stay silent.
Fairness ==
  /\ \A p \in Roles : WF_vars(Receive(p)) /\ WF_vars(Resume(p)) /\ WF_vars(NoticeClose(p))
  /\ WF_vars(InviteTimeout)
  /\ WF_vars(Reconnect)

FairSpec == Spec /\ Fairness
============================================================================
