-------------------------- MODULE CallFloorProofs --------------------------
(***************************************************************************)
(* The floor of a call is exclusive, for every value of the constants.     *)
(***************************************************************************)
EXTENDS CallProofs

---------------------------------------------------------------------------
(* What sending, receiving and resuming do to the contents of the wires    *)
(* and of the task sets.                                                   *)

LEMMA AppendContents ==
  ASSUME NEW s \in Seq(Frames), NEW f \in Frames
  PROVE  /\ \A type : Carries(Append(s, f), type) <=> Carries(s, type) \/ f.type = type
         /\ \A type : SingleIn(s, type) /\ (f.type = type => ~Carries(s, type))
                        => SingleIn(Append(s, f), type)
<1>. DEFINE r == Append(s, f)
<1>1. /\ Len(r) = Len(s) + 1 /\ Len(s) \in Nat
      /\ r[Len(s) + 1] = f
      /\ \A i \in 1..Len(s) : r[i] = s[i]
  OBVIOUS
<1>2. \A i \in 1..Len(r) : i \in 1..Len(s) \/ i = Len(s) + 1
  BY <1>1
<1>3. 1..Len(s) \subseteq 1..Len(r) /\ Len(s) + 1 \in 1..Len(r)
  BY <1>1
<1>. HIDE DEF r
<1>4. ASSUME NEW type PROVE Carries(r, type) <=> Carries(s, type) \/ f.type = type
  BY <1>1, <1>2, <1>3 DEF Carries
<1>5. ASSUME NEW type, SingleIn(s, type), f.type = type => ~Carries(s, type)
      PROVE  SingleIn(r, type)
  BY <1>1, <1>2, <1>5 DEF SingleIn, Carries
<1>. QED BY <1>4, <1>5 DEF r

LEMMA TailContents ==
  ASSUME NEW s \in Seq(Frames), s # <<>>
  PROVE  /\ Carries(s, Head(s).type)
         /\ \A type : Carries(Tail(s), type) => Carries(s, type)
         /\ \A type : SingleIn(s, type) => SingleIn(Tail(s), type)
         /\ \A type : SingleIn(s, type) /\ Head(s).type = type => ~Carries(Tail(s), type)
<1>. DEFINE r == Tail(s)
<1>1. /\ Len(s) = Len(r) + 1 /\ Len(r) \in Nat
      /\ s[1] = Head(s)
      /\ \A i \in 1..Len(r) : r[i] = s[i + 1]
  OBVIOUS
<1>2. /\ 1 \in 1..Len(s)
      /\ \A i \in 1..Len(r) : i + 1 \in 1..Len(s) /\ i + 1 # 1
      /\ \A i, j \in 1..Len(r) : i + 1 = j + 1 => i = j
  BY <1>1
<1>. HIDE DEF r
<1>3. Carries(s, Head(s).type)
  BY <1>1, <1>2 DEF Carries
<1>4. ASSUME NEW type PROVE Carries(r, type) => Carries(s, type)
  BY <1>1, <1>2 DEF Carries
<1>5. ASSUME NEW type, SingleIn(s, type) PROVE SingleIn(r, type)
  BY <1>1, <1>2, <1>5 DEF SingleIn
<1>6. ASSUME NEW type, SingleIn(s, type), Head(s).type = type PROVE ~Carries(r, type)
  BY <1>1, <1>2, <1>6 DEF SingleIn, Carries
<1>. QED BY <1>3, <1>4, <1>5, <1>6 DEF r

LEMMA EmptyContents ==
  \A type : ~Carries(<<>>, type) /\ SingleIn(<<>>, type)
BY DEF Carries, SingleIn

---------------------------------------------------------------------------
(* The same for the two roles of a call, in the form the steps use.        *)

LEMMA TransmitEffect ==
  ASSUME TypeOK, NEW p \in Roles, NEW f \in Frames, Transmit(p, f)
  PROVE  \A q \in Roles, type \in FrameTypes :
           /\ Carries(wire'[q], type)
                => Carries(wire[q], type) \/ (q = Peer(p) /\ type = f.type)
           /\ SingleIn(wire[q], type) /\
              (q = Peer(p) /\ type = f.type => ~Carries(wire[q], type))
                => SingleIn(wire'[q], type)
<1>. SUFFICES ASSUME NEW q \in Roles, NEW type \in FrameTypes
     PROVE /\ Carries(wire'[q], type)
                => Carries(wire[q], type) \/ (q = Peer(p) /\ type = f.type)
           /\ SingleIn(wire[q], type) /\
              (q = Peer(p) /\ type = f.type => ~Carries(wire[q], type))
                => SingleIn(wire'[q], type)
  OBVIOUS
<1>1. wire[q] \in Seq(Frames)
  BY DEF TypeOK
<1>2. wire'[q] = IF q = Peer(p) /\ alive THEN Append(wire[q], f) ELSE wire[q]
  BY PeerIsRole DEF Transmit, TypeOK
<1>. QED BY <1>1, <1>2, AppendContents

\* Taking the first frame off a wire.
LEMMA ConsumeEffect ==
  ASSUME TypeOK, NEW p \in Roles, wire[p] # <<>>, Consume(p)
  PROVE  /\ Carries(wire[p], Head(wire[p]).type)
         /\ SingleIn(wire[p], Head(wire[p]).type) => ~Carries(wire'[p], Head(wire[p]).type)
         /\ \A q \in Roles, type \in FrameTypes :
              /\ Carries(wire'[q], type) => Carries(wire[q], type)
              /\ SingleIn(wire[q], type) => SingleIn(wire'[q], type)
<1>1. \A q \in Roles : wire[q] \in Seq(Frames)
  BY DEF TypeOK
<1>2. \A q \in Roles : wire'[q] = IF q = p THEN Tail(wire[q]) ELSE wire[q]
  BY DEF Consume, TypeOK
<1>. QED BY <1>1, <1>2, TailContents

LEMMA ConsumeAndReplyEffect ==
  ASSUME TypeOK, NEW p \in Roles, wire[p] # <<>>, NEW f \in Frames, ConsumeAndReply(p, f)
  PROVE  /\ Carries(wire[p], Head(wire[p]).type)
         /\ \A q \in Roles, type \in FrameTypes \ {f.type} :
              /\ Carries(wire'[q], type) => Carries(wire[q], type)
              /\ SingleIn(wire[q], type) => SingleIn(wire'[q], type)
         /\ Carries(wire'[p], f.type) => Carries(wire[p], f.type)
         /\ SingleIn(wire[p], f.type) => SingleIn(wire'[p], f.type)
<1>1. \A q \in Roles : wire[q] \in Seq(Frames)
  BY DEF TypeOK
<1>2. /\ wire'[p] = Tail(wire[p])
      /\ wire'[Peer(p)] = IF alive THEN Append(wire[Peer(p)], f) ELSE wire[Peer(p)]
      /\ \A q \in Roles : q = p \/ q = Peer(p)
  BY PeerIsRole DEF ConsumeAndReply, TypeOK, Roles, Peer
<1>3. \A type \in FrameTypes :
        /\ Carries(wire'[p], type) => Carries(wire[p], type)
        /\ SingleIn(wire[p], type) => SingleIn(wire'[p], type)
  BY <1>1, <1>2, TailContents
<1>4. \A type \in FrameTypes \ {f.type} :
        /\ Carries(wire'[Peer(p)], type) => Carries(wire[Peer(p)], type)
        /\ SingleIn(wire[Peer(p)], type) => SingleIn(wire'[Peer(p)], type)
  BY <1>1, <1>2, PeerIsRole, AppendContents
<1>5. f.type \in FrameTypes
  BY DEF Frames
<1>. QED BY <1>1, <1>2, <1>3, <1>4, <1>5, TailContents

LEMMA SuspendEffect ==
  ASSUME TypeOK, NEW p \in Roles, NEW next, NEW n, Suspend(p, next, n)
  PROVE  \A q \in Roles, step \in Steps :
           /\ At(tasks'[q], step) => At(tasks[q], step) \/ (q = p /\ step = next)
           /\ SingleAt(tasks[q], step) /\ (q = p /\ step = next => ~At(tasks[q], step))
                => SingleAt(tasks'[q], step)
<1>. DEFINE new == [next |-> next, seq |-> n, open |-> TRUE]
<1>1. \A q \in Roles : tasks'[q] = IF q = p THEN tasks[q] \cup {new} ELSE tasks[q]
  BY DEF Suspend, TypeOK
<1>2. new.next = next
  OBVIOUS
<1>. HIDE DEF new
<1>. QED BY <1>1, <1>2 DEF At, SingleAt

LEMMA FinishEffect ==
  ASSUME TypeOK, NEW p \in Roles, NEW t \in tasks[p], Finish(p, t)
  PROVE  /\ At(tasks[p], t.next)
         /\ SingleAt(tasks[p], t.next) => ~At(tasks'[p], t.next)
         /\ \A q \in Roles, step \in Steps :
              /\ At(tasks'[q], step) => At(tasks[q], step)
              /\ SingleAt(tasks[q], step) => SingleAt(tasks'[q], step)
<1>1. \A q \in Roles : tasks'[q] = IF q = p THEN tasks[q] \ {t} ELSE tasks[q]
  BY DEF Finish, TypeOK
<1>. QED BY <1>1 DEF At, SingleAt

LEMMA SuspendAgainEffect ==
  ASSUME TypeOK, NEW p \in Roles, NEW t \in tasks[p], NEW next, SuspendAgain(p, t, next),
         next # t.next
  PROVE  /\ At(tasks[p], t.next)
         /\ SingleAt(tasks[p], t.next) => ~At(tasks'[p], t.next)
         /\ \A q \in Roles, step \in Steps :
              /\ At(tasks'[q], step) => At(tasks[q], step) \/ (q = p /\ step = next)
              /\ SingleAt(tasks[q], step) /\ (q = p /\ step = next => ~At(tasks[q], step))
                   => SingleAt(tasks'[q], step)
<1>. DEFINE new == [t EXCEPT !.next = next]
<1>1. \A q \in Roles : tasks'[q] = IF q = p THEN (tasks[q] \ {t}) \cup {new} ELSE tasks[q]
  BY DEF SuspendAgain, TypeOK
<1>2. t \in Tasks
  BY DEF TypeOK
<1>3. new.next = next
  BY <1>2 DEF Tasks
<1>. HIDE DEF new
<1>. QED BY <1>1, <1>3 DEF At, SingleAt

---------------------------------------------------------------------------
(* Steps in terms of what they add.                                        *)

\* No handler appears but one of p at one of these steps; no frame appears but
\* one on its way to p, of one of these types.
TasksGrow(p, steps) ==
  \A q \in Roles, step \in Steps :
    /\ At(tasks'[q], step) => At(tasks[q], step) \/ (q = p /\ step \in steps)
    /\ SingleAt(tasks[q], step) /\ (q = p => step \notin steps) => SingleAt(tasks'[q], step)

WireGrows(p, types) ==
  \A q \in Roles, type \in FrameTypes :
    /\ Carries(wire'[q], type) => Carries(wire[q], type) \/ (q = p /\ type \in types)
    /\ SingleIn(wire[q], type) /\ (q = p => type \notin types) => SingleIn(wire'[q], type)

\* Each operator that moves handlers or frames adds what its name says.
LEMMA Growth ==
  ASSUME TypeOK, NEW p \in Roles
  PROVE  /\ \A next, n : Suspend(p, next, n) => TasksGrow(p, {next})
         /\ \A t \in tasks[p] : Finish(p, t) => TasksGrow(p, {})
         /\ \A t \in tasks[p] : \A next : SuspendAgain(p, t, next) /\ next # t.next
                                     => TasksGrow(p, {next})
         /\ UNCHANGED tasks => TasksGrow(p, {})
         /\ \A f \in Frames : Transmit(p, f) => WireGrows(Peer(p), {f.type})
         /\ wire[p] # <<>> /\ Consume(p) => WireGrows(Peer(p), {})
         /\ UNCHANGED wire => WireGrows(Peer(p), {})
<1>1. ASSUME NEW next, NEW n, Suspend(p, next, n) PROVE TasksGrow(p, {next})
  BY <1>1, SuspendEffect DEF TasksGrow
<1>2. ASSUME NEW t \in tasks[p], Finish(p, t) PROVE TasksGrow(p, {})
  BY <1>2, FinishEffect DEF TasksGrow
<1>3. ASSUME NEW t \in tasks[p], NEW next, SuspendAgain(p, t, next), next # t.next
      PROVE  TasksGrow(p, {next})
  BY <1>3, SuspendAgainEffect DEF TasksGrow
<1>4. UNCHANGED tasks => TasksGrow(p, {})
  BY DEF TasksGrow
<1>5. ASSUME NEW f \in Frames, Transmit(p, f) PROVE WireGrows(Peer(p), {f.type})
  BY <1>5, TransmitEffect DEF WireGrows
<1>6. ASSUME wire[p] # <<>>, Consume(p) PROVE WireGrows(Peer(p), {})
  BY <1>6, ConsumeEffect DEF WireGrows
<1>7. UNCHANGED wire => WireGrows(Peer(p), {})
  BY DEF WireGrows
<1>. QED BY <1>1, <1>2, <1>3, <1>4, <1>5, <1>6, <1>7

LEMMA ReplyGrowth ==
  ASSUME TypeOK, NEW p \in Roles, wire[p] # <<>>, NEW n \in Nat,
         ConsumeAndReply(p, Frame("ERROR", n))
  PROVE  WireGrows(Peer(p), {"ERROR"})
<1>. DEFINE f == Frame("ERROR", n)
<1>1. f \in Frames /\ f.type = "ERROR"
  BY FrameType DEF Frame, FrameTypes
<1>2. /\ \A q \in Roles, type \in FrameTypes \ {f.type} :
             /\ Carries(wire'[q], type) => Carries(wire[q], type)
             /\ SingleIn(wire[q], type) => SingleIn(wire'[q], type)
      /\ Carries(wire'[p], f.type) => Carries(wire[p], f.type)
      /\ SingleIn(wire[p], f.type) => SingleIn(wire'[p], f.type)
  <2>1. ConsumeAndReply(p, f)
    OBVIOUS
  <2>. HIDE DEF f
  <2>. QED BY <1>1, <2>1, ConsumeAndReplyEffect
<1>3. \A q \in Roles : q = p \/ q = Peer(p)
  BY DEF Roles, Peer
<1>. QED BY <1>1, <1>2, <1>3 DEF WireGrows

---------------------------------------------------------------------------
(* What a record, a suspended handler or an arriving frame says of the     *)
(* rest of the call.                                                       *)

LEMMA RecordMeans ==
  ASSUME FloorInvariant, NEW p \in Roles, Known(p)
  PROVE  /\ outcome # "none"
         /\ Inviting => p = "caller" /\ state[p] \in {"DIALING", "CLOSING", "CLOSED"}
BY DEF FloorInvariant, NothingBeforeInvite, NobodySpeaksBeforeRinging, Known, Roles

LEMMA TaskMeans ==
  ASSUME TypeOK, FloorInvariant, NEW p \in Roles, NEW t \in tasks[p]
  PROVE  /\ t.next \in Steps
         /\ At(tasks[p], t.next)
         /\ outcome # "none"
         /\ t.next \notin {"ring", "refuse"} => Known(p)
         /\ Inviting => \/ p = "callee" /\ t.next = "ring"
                        \/ p = "caller" /\ t.next \in {"numberInvite", "sendInvite", "sendInject",
                                                       "sendEnd", "emitEnded"}
<1>1. t.next \in Steps
  BY DEF TypeOK, Tasks
<1>2. At(tasks[p], t.next)
  BY DEF At
<1>3. outcome # "none"
  BY <1>1, <1>2 DEF FloorInvariant, NothingBeforeInvite
<1>4. t.next \notin {"ring", "refuse"} => Known(p)
  BY <1>1, <1>2 DEF FloorInvariant, TasksHaveRecord
<1>5. p = "caller" \/ p = "callee"
  BY DEF Roles
<1>6. Inviting => \/ p = "callee" /\ t.next = "ring"
                  \/ p = "caller" /\ t.next \in {"numberInvite", "sendInvite", "sendInject",
                                                 "sendEnd", "emitEnded"}
  BY <1>1, <1>2, <1>5 DEF FloorInvariant, NobodySpeaksBeforeRinging
<1>. QED BY <1>1, <1>2, <1>3, <1>4, <1>6

LEMMA FrameMeans ==
  ASSUME TypeOK, FloorInvariant, NEW p \in Roles, NEW type \in FrameTypes, Arrives(p, type)
  PROVE  /\ wire[p] # <<>>
         /\ Head(wire[p]).seq \in Nat
         /\ Carries(wire[p], type)
         /\ outcome # "none"
         /\ Inviting => p = "callee" /\ type \in {"INVITE", "HUMAN_INJECT", "END"}
<1>1. wire[p] # <<>> /\ Head(wire[p]).type = type /\ wire[p] \in Seq(Frames)
  BY DEF Arrives, TypeOK
<1>2. Head(wire[p]).seq \in Nat
  BY <1>1, ConsumeType DEF TypeOK, Frames
<1>3. Carries(wire[p], type)
  BY <1>1, TailContents
<1>4. outcome # "none"
  BY <1>3 DEF FloorInvariant, NothingBeforeInvite
<1>5. p = "caller" \/ p = "callee"
  BY DEF Roles
<1>6. Inviting => p = "callee" /\ type \in {"INVITE", "HUMAN_INJECT", "END"}
  BY <1>3, <1>5 DEF FloorInvariant, NobodySpeaksBeforeRinging
<1>. QED BY <1>1, <1>2, <1>3, <1>4, <1>6
---------------------------------------------------------------------------
(* What keeps each part of the invariant.                                  *)

LEMMA KeepsRecords ==
  ASSUME FloorInvariant, NEW p \in Roles, NEW steps,
         \A q \in Roles : Known(q) => Known(q)',
         TasksGrow(p, steps), steps \subseteq {"ring", "refuse"} \/ Known(p)',
         outcome' # "none"
  PROVE  TasksHaveRecord' /\ NothingBeforeInvite'
<1>1. TasksHaveRecord'
  BY DEF FloorInvariant, TasksHaveRecord, TasksGrow
<1>2. NothingBeforeInvite'
  BY DEF NothingBeforeInvite
<1>. QED BY <1>1, <1>2

LEMMA KeepsTurns ==
  ASSUME FloorInvariant, NEW p \in Roles, NEW r \in Roles, NEW steps, NEW types,
         \A q \in Roles : HoldsFloor(q)' <=> HoldsFloor(q),
         TasksGrow(p, steps), "applyTurn" \notin steps, "sendTurn" \notin steps,
         WireGrows(r, types), "SEND" \notin types
  PROVE  FloorExclusive' /\ OneTurnInFlight' /\ SpeakerHoldsFloor'
<1>1. {"applyTurn", "sendTurn"} \subseteq Steps /\ "SEND" \in FrameTypes
  BY DEF Steps, ClientSteps, HandlerSteps, FrameTypes
<1>2. \A q \in Roles :
        /\ At(tasks'[q], "applyTurn") => At(tasks[q], "applyTurn")
        /\ SingleAt(tasks[q], "applyTurn") => SingleAt(tasks'[q], "applyTurn")
        /\ At(tasks'[q], "sendTurn") => At(tasks[q], "sendTurn")
        /\ SingleAt(tasks[q], "sendTurn") => SingleAt(tasks'[q], "sendTurn")
        /\ Carries(wire'[q], "SEND") => Carries(wire[q], "SEND")
        /\ SingleIn(wire[q], "SEND") => SingleIn(wire'[q], "SEND")
  BY <1>1 DEF TasksGrow, WireGrows
<1>3. \A q \in Roles : Speaking(q)' => Speaking(q)
  BY <1>2 DEF Speaking
<1>4. "caller" \in Roles /\ "callee" \in Roles
  BY DEF Roles
<1>5. FloorExclusive'
  BY <1>4 DEF FloorInvariant, FloorExclusive
<1>6. OneTurnInFlight'
  BY <1>2, <1>3, <1>4 DEF FloorInvariant, OneTurnInFlight
<1>7. SpeakerHoldsFloor'
  BY <1>2 DEF FloorInvariant, SpeakerHoldsFloor
<1>. QED BY <1>5, <1>6, <1>7

\* The steps and frames by which the one invite travels.
InviteSteps == {"numberInvite", "sendInvite", "ring"}

\* What may still happen at the caller, and be sent, before the callee rings.
EarlySteps == {"sendInject", "sendEnd", "emitEnded"}
EarlyFrames == {"HUMAN_INJECT", "END"}

LEMMA KeepsInvite ==
  ASSUME FloorInvariant, NEW p \in Roles, NEW steps, NEW types,
         TasksGrow(p, steps), steps \cap InviteSteps = {},
         WireGrows(Peer(p), types), "INVITE" \notin types,
         Inviting => /\ state'["callee"] = state["callee"]
                     /\ state'["caller"] \in {"DIALING", "CLOSING", "CLOSED", "LOST"}
                     /\ floor'["caller"] = floor["caller"]
                     /\ firstFloor' = firstFloor
                     /\ p = "callee" => steps = {} /\ types = {}
                     /\ steps \subseteq EarlySteps
                     /\ types \subseteq EarlyFrames
  PROVE  OneInvite' /\ NobodySpeaksBeforeRinging'
<1>1. /\ InviteSteps \subseteq Steps /\ "INVITE" \in FrameTypes
      /\ "caller" \in Roles /\ "callee" \in Roles
      /\ p \in {"caller", "callee"}
  BY DEF InviteSteps, Steps, ClientSteps, HandlerSteps, FrameTypes, Roles
<1>2. \A q \in Roles, step \in InviteSteps :
        /\ At(tasks'[q], step) => At(tasks[q], step)
        /\ SingleAt(tasks[q], step) => SingleAt(tasks'[q], step)
  BY <1>1 DEF TasksGrow
<1>3. \A q \in Roles :
        /\ Carries(wire'[q], "INVITE") => Carries(wire[q], "INVITE")
        /\ SingleIn(wire[q], "INVITE") => SingleIn(wire'[q], "INVITE")
  BY <1>1 DEF WireGrows
<1>4. OneInvite'
  BY <1>1, <1>2, <1>3 DEF FloorInvariant, OneInvite, InviteUnsent, InviteInFlight, InviteTaken,
                          InviteSteps
<1>5. Inviting' => Inviting
  BY <1>1, <1>2, <1>3 DEF Inviting, InviteUnsent, InviteInFlight, InviteTaken, InviteSteps
<1>6. ASSUME Inviting'
      PROVE  /\ state'["callee"] = "NONE"
             /\ state'["caller"] \in {"DIALING", "CLOSING", "CLOSED", "LOST"}
             /\ floor'["caller"] = firstFloor'
             /\ \A type \in FrameTypes : ~Carries(wire'["caller"], type)
             /\ \A type \in FrameTypes \ {"INVITE", "HUMAN_INJECT", "END"} :
                  ~Carries(wire'["callee"], type)
             /\ \A step \in Steps \ {"ring"} : ~At(tasks'["callee"], step)
             /\ \A step \in Steps \ {"numberInvite", "sendInvite", "sendInject", "sendEnd",
                                     "emitEnded"} : ~At(tasks'["caller"], step)
  <2>1. /\ Inviting
        /\ p = "callee" => steps = {} /\ types = {}
        /\ steps \subseteq EarlySteps /\ types \subseteq EarlyFrames
    BY <1>5, <1>6
  <2>2. /\ state["callee"] = "NONE" /\ floor["caller"] = firstFloor
        /\ \A type \in FrameTypes : ~Carries(wire["caller"], type)
        /\ \A type \in FrameTypes \ {"INVITE", "HUMAN_INJECT", "END"} :
             ~Carries(wire["callee"], type)
        /\ \A step \in Steps \ {"ring"} : ~At(tasks["callee"], step)
        /\ \A step \in Steps \ {"numberInvite", "sendInvite", "sendInject", "sendEnd",
                                "emitEnded"} : ~At(tasks["caller"], step)
    BY <2>1 DEF FloorInvariant, NobodySpeaksBeforeRinging
  <2>3. Peer("caller") = "callee" /\ Peer("callee") = "caller"
    BY DEF Peer
  <2>4. \A type \in FrameTypes :
          /\ ~Carries(wire'["caller"], type)
          /\ type \notin {"INVITE", "HUMAN_INJECT", "END"} => ~Carries(wire'["callee"], type)
    BY <1>1, <2>1, <2>2, <2>3 DEF WireGrows, EarlyFrames
  <2>5. \A step \in Steps :
          /\ step # "ring" => ~At(tasks'["callee"], step)
          /\ step \notin {"numberInvite", "sendInvite", "sendInject", "sendEnd", "emitEnded"}
               => ~At(tasks'["caller"], step)
    BY <1>1, <2>1, <2>2 DEF TasksGrow, EarlySteps
  <2>. QED BY <2>1, <2>2, <2>4, <2>5
<1>7. NobodySpeaksBeforeRinging'
  BY <1>6 DEF NobodySpeaksBeforeRinging
<1>. QED BY <1>4, <1>7

\* No record appears or is lost.
SameRecords ==
  \A q \in Roles : /\ Known(q)' <=> Known(q)
                   /\ state'[q] = "NONE" <=> state[q] = "NONE"

\* Nobody gains or loses the floor, and no turn message appears.
TurnKept ==
  /\ SameRecords
  /\ firstFloor' = firstFloor
  /\ \A q \in Roles : (HoldsFloor(q)' <=> HoldsFloor(q)) /\ (Speaking(q)' => Speaking(q))

\* p's record is made, with the floor the invite asked for; nobody has spoken.
RecordMade(p) ==
  /\ state[p] = "NONE" /\ Known(p)'
  /\ firstFloor' = firstFloor /\ floor'[p] = firstFloor
  /\ \A q \in Roles : /\ q # p => state'[q] = state[q] /\ (HoldsFloor(q)' <=> HoldsFloor(q))
                     /\ ~Speaking(q) /\ ~Speaking(q)'

\* p gives the floor away with a turn message, which may be lost at once.
TurnSent(p) ==
  /\ SameRecords
  /\ firstFloor' = firstFloor
  /\ HoldsFloor(p)
  /\ ~Speaking(p)'
  /\ \A q \in Roles : ~HoldsFloor(q)'

\* p takes the floor with the turn message it applies.
TurnHeard(p) ==
  /\ SameRecords
  /\ firstFloor' = firstFloor
  /\ Speaking(p) /\ HoldsFloor(p)'
  /\ \A q \in Roles : ~Speaking(q)'

LEMMA KeepsTurn ==
  ASSUME NEW p \in Roles, NEW r \in Roles, NEW steps, NEW types,
         UNCHANGED <<state, floor, firstFloor>>,
         TasksGrow(p, steps), "applyTurn" \notin steps,
         WireGrows(r, types), "SEND" \notin types
  PROVE  TurnKept
<1>1. "applyTurn" \in Steps /\ "SEND" \in FrameTypes
  BY DEF Steps, HandlerSteps, FrameTypes
<1>2. \A q \in Roles : Speaking(q)' => Speaking(q)
  BY <1>1 DEF Speaking, TasksGrow, WireGrows
<1>3. SameRecords /\ \A q \in Roles : HoldsFloor(q)' <=> HoldsFloor(q)
  BY DEF SameRecords, Known, HoldsFloor
<1>. QED BY <1>2, <1>3 DEF TurnKept

\* A step that makes no record, moves no floor and sends neither an invite nor
\* a turn message.
LEMMA OrdinaryStep ==
  ASSUME FloorInvariant, NEW p \in Roles, NEW steps, NEW types,
         SameRecords, UNCHANGED <<floor, firstFloor>>,
         outcome' # "none",
         TasksGrow(p, steps), steps = {} \/ Known(p),
         steps \cap {"numberInvite", "sendInvite", "ring", "applyTurn", "sendTurn"} = {},
         WireGrows(Peer(p), types), types \cap {"INVITE", "SEND"} = {},
         Inviting => /\ state'["caller"] \in {"DIALING", "CLOSING", "CLOSED", "LOST"}
                     /\ p = "callee" => steps = {} /\ types = {}
                     /\ steps \subseteq EarlySteps
                     /\ types \subseteq EarlyFrames
  PROVE  FloorInvariant' /\ TurnKept
<1>1. \A q \in Roles : (Known(q)' <=> Known(q)) /\ (HoldsFloor(q)' <=> HoldsFloor(q))
  BY DEF HoldsFloor, SameRecords
<1>2. TasksHaveRecord' /\ NothingBeforeInvite'
  BY <1>1, KeepsRecords
<1>3. FloorExclusive' /\ OneTurnInFlight' /\ SpeakerHoldsFloor'
  BY <1>1, PeerIsRole, KeepsTurns
<1>4. "callee" \in Roles
  BY DEF Roles
<1>5. OneInvite' /\ NobodySpeaksBeforeRinging'
  <2>1. steps \cap InviteSteps = {} /\ "INVITE" \notin types
    BY DEF InviteSteps
  <2>2. Inviting => state'["callee"] = state["callee"]
    BY <1>4 DEF SameRecords, FloorInvariant, NobodySpeaksBeforeRinging
  <2>. QED BY <2>1, <2>2, KeepsInvite
<1>6. \A q \in Roles : Speaking(q)' => Speaking(q)
  <2>1. "applyTurn" \in Steps /\ "SEND" \in FrameTypes
    BY DEF Steps, HandlerSteps, FrameTypes
  <2>. QED BY <2>1 DEF Speaking, TasksGrow, WireGrows
<1>. QED BY <1>1, <1>2, <1>3, <1>5, <1>6 DEF FloorInvariant, TurnKept

---------------------------------------------------------------------------
(* The ordinary steps.                                                     *)

LEMMA TasksGrowMore ==
  ASSUME NEW p \in Roles, TasksGrow(p, {}), NEW steps
  PROVE  TasksGrow(p, steps)
BY DEF TasksGrow

\* A frame sent, or not sent because there is no connection.
LEMMA SendGrowth ==
  ASSUME TypeOK, NEW p \in Roles, NEW type \in FrameTypes, NEW n \in Nat,
         Transmit(p, Frame(type, n)) \/ UNCHANGED wire
  PROVE  WireGrows(Peer(p), {type})
<1>1. Frame(type, n) \in Frames /\ Frame(type, n).type = type
  BY FrameType DEF Frame
<1>2. CASE Transmit(p, Frame(type, n))
  BY <1>1, <1>2, Growth
<1>3. CASE UNCHANGED wire
  BY <1>3 DEF WireGrows
<1>. QED BY <1>2, <1>3

LEMMA TimeoutEndGrowth ==
  ASSUME TypeOK, NEW p \in Roles, SendTimeoutEnd(p)
  PROVE  WireGrows(Peer(p), {"END"})
<1>1. seqOut[p] + 1 \in Nat /\ "END" \in FrameTypes
  BY DEF TypeOK, FrameTypes
<1>. QED BY <1>1, SendGrowth DEF SendTimeoutEnd

\* What a client, a timer or the connection does, and frames that are only
\* taken off the wire.
LEMMA OrdinaryRequests ==
  ASSUME TypeOK, FloorInvariant
  PROVE  /\ InviteTimeout \/ Accept \/ Deny => FloorInvariant' /\ TurnKept
         /\ \A p \in Roles :
              RequestPause(p) \/ RequestInject(p) \/ RequestEnd(p) \/ ReceiveForCall(p)
                \/ ReceiveError(p) \/ NoticeClose(p) => FloorInvariant' /\ TurnKept
<1>. USE DEF record, link, promise, bounds
<1>r. "caller" \in Roles /\ "callee" \in Roles
  BY DEF Roles
<1>i. Inviting => state["caller"] \in {"DIALING", "CLOSING", "CLOSED", "LOST"}
  BY DEF FloorInvariant, NobodySpeaksBeforeRinging
<1>o. \A p \in Roles : state[p] # "NONE" => outcome # "none"
  BY DEF FloorInvariant, NothingBeforeInvite
<1>1. ASSUME InviteTimeout PROVE FloorInvariant' /\ TurnKept
  <2>1. TasksGrow("caller", {}) /\ outcome' # "none" /\ UNCHANGED <<floor, firstFloor>>
    BY <1>1, <1>r, Growth DEF InviteTimeout
  <2>2. WireGrows(Peer("caller"), {"END"})
    <3>1. CASE state["caller"] = "DIALING"
      BY <1>1, <1>r, <3>1, TimeoutEndGrowth DEF InviteTimeout
    <3>2. CASE state["caller"] # "DIALING"
      BY <1>1, <3>2 DEF InviteTimeout, WireGrows
    <3>. QED BY <3>1, <3>2
  <2>3. SameRecords
    BY <1>1 DEF SameRecords, InviteTimeout, Known, TypeOK
  <2>4. Inviting => state'["caller"] \in {"DIALING", "CLOSING", "CLOSED", "LOST"}
    BY <1>1, <1>r, <1>i DEF InviteTimeout, TypeOK
  <2>. QED BY <1>r, <2>1, <2>2, <2>3, <2>4, OrdinaryStep DEF EarlyFrames
<1>2. ASSUME Accept PROVE FloorInvariant' /\ TurnKept
  <2>1. Known("callee") /\ outcome # "none" /\ ~Inviting
    BY <1>2, <1>r, RecordMeans DEF Accept, Known
  <2>2. \/ Suspend("callee", "sendAccept", seqOut["callee"] + 1)
        \/ UNCHANGED tasks
    BY <1>2 DEF Accept
  <2>3. TasksGrow("callee", {"sendAccept"})
    BY <1>r, <2>2, Growth, TasksGrowMore
  <2>4. WireGrows(Peer("callee"), {}) /\ UNCHANGED <<floor, firstFloor, outcome>>
    BY <1>2, <1>r, Growth DEF Accept
  <2>5. SameRecords
    BY <1>2 DEF SameRecords, Accept, StateOnAccept, Known, TypeOK
  <2>. QED BY <1>r, <2>1, <2>3, <2>4, <2>5, OrdinaryStep
<1>3. ASSUME Deny PROVE FloorInvariant' /\ TurnKept
  <2>1. Known("callee") /\ outcome # "none" /\ ~Inviting
    BY <1>3, <1>r, RecordMeans DEF Deny, Known
  <2>2. \/ Suspend("callee", "sendDeny", seqOut["callee"] + 1)
        \/ UNCHANGED tasks
    BY <1>3 DEF Deny
  <2>3. TasksGrow("callee", {"sendDeny"})
    BY <1>r, <2>2, Growth, TasksGrowMore
  <2>4. WireGrows(Peer("callee"), {}) /\ UNCHANGED <<floor, firstFloor, outcome>>
    BY <1>3, <1>r, Growth DEF Deny
  <2>5. SameRecords
    BY <1>3 DEF SameRecords, Deny, Known, TypeOK
  <2>. QED BY <1>r, <2>1, <2>3, <2>4, <2>5, OrdinaryStep
<1>4. ASSUME NEW p \in Roles, RequestPause(p) PROVE FloorInvariant' /\ TurnKept
  <2>1. Known(p) /\ outcome # "none" /\ ~Inviting
    BY <1>4, RecordMeans DEF RequestPause, Known
  <2>2. PICK next \in {"sendPause", "sendResume"} : Suspend(p, next, seqOut[p] + 1)
    BY <1>4 DEF RequestPause
  <2>3. TasksGrow(p, {next}) /\ {next} \cap {"numberInvite", "sendInvite", "ring", "applyTurn", "sendTurn"} = {}
    BY <2>2, Growth
  <2>4. WireGrows(Peer(p), {}) /\ UNCHANGED <<floor, firstFloor, outcome>>
    BY <1>4, Growth DEF RequestPause, Asks
  <2>5. SameRecords
    BY <1>4 DEF SameRecords, RequestPause, Known
  <2>. QED BY <2>1, <2>3, <2>4, <2>5, OrdinaryStep
<1>5. ASSUME NEW p \in Roles, RequestInject(p) PROVE FloorInvariant' /\ TurnKept
  <2>1. Known(p) /\ outcome # "none" /\ (Inviting => p = "caller")
    BY <1>5, RecordMeans DEF RequestInject, Active
  <2>2. TasksGrow(p, {"sendInject"}) /\ WireGrows(Peer(p), {})
    BY <1>5, Growth DEF RequestInject
  <2>3. UNCHANGED <<floor, firstFloor, outcome>>
    BY <1>5 DEF RequestInject, Asks
  <2>4. SameRecords
    BY <1>5 DEF SameRecords, RequestInject, Active, Known, TypeOK
  <2>5. Inviting => state'["caller"] \in {"DIALING", "CLOSING", "CLOSED", "LOST"}
    BY <1>5, <1>r, <1>i DEF RequestInject, TypeOK
  <2>. QED BY <2>1, <2>2, <2>3, <2>4, <2>5, OrdinaryStep DEF EarlySteps
<1>6. ASSUME NEW p \in Roles, RequestEnd(p) PROVE FloorInvariant' /\ TurnKept
  <2>1. Known(p) /\ outcome # "none" /\ (Inviting => p = "caller")
    BY <1>6, RecordMeans DEF RequestEnd, Active
  <2>2. TasksGrow(p, {"sendEnd"}) /\ WireGrows(Peer(p), {})
    BY <1>6, Growth DEF RequestEnd
  <2>3. UNCHANGED <<floor, firstFloor, outcome>>
    BY <1>6 DEF RequestEnd, Asks
  <2>4. SameRecords
    BY <1>6 DEF SameRecords, RequestEnd, Active, Known, TypeOK
  <2>5. Inviting => state'["caller"] \in {"DIALING", "CLOSING", "CLOSED", "LOST"}
    BY <1>6, <1>r, <1>i DEF RequestEnd, TypeOK
  <2>. QED BY <2>1, <2>2, <2>3, <2>4, <2>5, OrdinaryStep DEF EarlySteps
<1>7. ASSUME NEW p \in Roles, ReceiveForCall(p) PROVE FloorInvariant' /\ TurnKept
  <2>1. PICK type \in DOMAIN StepFor :
          /\ Arrives(p, type)
          /\ IF Known(p) THEN Suspend(p, StepFor[type], Head(wire[p]).seq)
                         ELSE UNCHANGED tasks
    BY <1>7 DEF ReceiveForCall
  <2>2. type \in FrameTypes /\ StepFor[type] \in {"applyAccepted", "applyRejected", "applyPause", "applyResume",
                                                  "emitInject", "applyEnd"}
    BY DEF StepFor, FrameTypes
  <2>3. wire[p] # <<>> /\ outcome # "none" /\ (Inviting => p = "callee")
    BY <2>1, <2>2, FrameMeans
  <2>4. WireGrows(Peer(p), {}) /\ UNCHANGED <<state, floor, firstFloor, outcome>>
    BY <1>7, <2>3, Growth DEF ReceiveForCall
  <2>5. SameRecords
    BY <2>4 DEF SameRecords, Known
  <2>6. CASE Known(p)
    <3>1. TasksGrow(p, {StepFor[type]})
      BY <2>1, <2>6, Growth
    <3>2. ~Inviting
      BY <2>3, <2>6, RecordMeans
    <3>. QED BY <2>2, <2>3, <2>4, <2>5, <2>6, <3>1, <3>2, OrdinaryStep
  <2>7. CASE ~Known(p)
    <3>1. TasksGrow(p, {})
      BY <2>1, <2>7, Growth
    <3>. QED BY <1>i, <2>3, <2>4, <2>5, <3>1, OrdinaryStep
  <2>. QED BY <2>6, <2>7
<1>8. ASSUME NEW p \in Roles, ReceiveError(p) PROVE FloorInvariant' /\ TurnKept
  <2>1. wire[p] # <<>> /\ outcome # "none" /\ ~Inviting
    BY <1>8, FrameMeans DEF ReceiveError, FrameTypes
  <2>2. TasksGrow(p, {}) /\ WireGrows(Peer(p), {})
    BY <1>8, <2>1, Growth DEF ReceiveError
  <2>3. UNCHANGED <<state, floor, firstFloor, outcome>>
    BY <1>8 DEF ReceiveError
  <2>4. SameRecords
    BY <2>3 DEF SameRecords, Known
  <2>. QED BY <2>1, <2>2, <2>3, <2>4, OrdinaryStep
<1>9. ASSUME NEW p \in Roles, NoticeClose(p) PROVE FloorInvariant' /\ TurnKept
  <2>1. UNCHANGED <<state, floor, firstFloor, outcome>>
    BY <1>9 DEF NoticeClose
  <2>2. TasksGrow(p, {})
    <3>. DEFINE Cut(t) == [t EXCEPT !.open = FALSE]
    <3>1. \A q \in Roles : tasks'[q] = IF q = p THEN {Cut(t) : t \in tasks[q]} ELSE tasks[q]
      BY <1>9 DEF NoticeClose, TypeOK
    <3>2. \A q \in Roles : \A t \in tasks[q] : Cut(t).next = t.next
      BY DEF TypeOK, Tasks
    <3>. HIDE DEF Cut
    <3>3. \A q \in Roles : \A u \in tasks'[q] : \E t \in tasks[q] :
            u.next = t.next /\ u = IF q = p THEN Cut(t) ELSE t
      BY <3>1, <3>2
    <3>. QED BY <3>3 DEF TasksGrow, At, SingleAt
  <2>3. WireGrows(Peer(p), {})
    <3>1. \A q \in Roles : wire'[q] = IF q = p THEN <<>> ELSE wire[q]
      BY <1>9 DEF NoticeClose, TypeOK
    <3>. QED BY <3>1, EmptyContents DEF WireGrows
  <2>4. SameRecords
    BY <2>1 DEF SameRecords, Known
  <2>5. CASE outcome # "none"
    BY <1>i, <2>1, <2>2, <2>3, <2>4, <2>5, OrdinaryStep
  <2>6. CASE outcome = "none"
    <3>1. \A q \in Roles : /\ state'[q] = "NONE" /\ floor'["caller"] = firstFloor'
                           /\ ~Known(q)' /\ ~HoldsFloor(q)'
                           /\ \A step \in Steps : ~At(tasks'[q], step)
                           /\ \A type \in FrameTypes : ~Carries(wire'[q], type)
      BY <2>1, <2>2, <2>3, <2>6
         DEF FloorInvariant, NothingBeforeInvite, TasksGrow, WireGrows, Known, HoldsFloor
    <3>2. \A q \in Roles : /\ \A step \in Steps : SingleAt(tasks'[q], step)
                           /\ \A type \in FrameTypes : SingleIn(wire'[q], type)
      BY <3>1 DEF At, SingleAt, Carries, SingleIn
    <3>3. {"numberInvite", "sendInvite", "ring", "applyTurn", "sendTurn"} \subseteq Steps
          /\ {"INVITE", "SEND"} \subseteq FrameTypes
      BY DEF Steps, ClientSteps, HandlerSteps, FrameTypes
    <3>4. TasksHaveRecord' /\ NothingBeforeInvite' /\ FloorExclusive' /\ SpeakerHoldsFloor'
      BY <1>r, <3>1, <3>2, <3>3
         DEF TasksHaveRecord, NothingBeforeInvite, FloorExclusive, SpeakerHoldsFloor
    <3>5. OneTurnInFlight'
      BY <1>r, <3>1, <3>2, <3>3 DEF OneTurnInFlight, Speaking
    <3>6. OneInvite' /\ ~Inviting'
      BY <1>r, <3>1, <3>2, <3>3 DEF OneInvite, Inviting, InviteUnsent, InviteInFlight, InviteTaken
    <3>7. TurnKept
      BY <2>1, <2>4, <3>1, <3>3 DEF TurnKept, HoldsFloor, Speaking, SameRecords
    <3>. QED BY <3>4, <3>5, <3>6, <3>7 DEF FloorInvariant, NobodySpeaksBeforeRinging
  <2>. QED BY <2>5, <2>6
<1>. QED BY <1>1, <1>2, <1>3, <1>4, <1>5, <1>6, <1>7, <1>8, <1>9

\* What a suspended handler does that neither invites nor passes the floor.
LEMMA OrdinaryResumes ==
  ASSUME TypeOK, FloorInvariant
  PROVE  /\ \A t \in tasks["callee"] : SendAccept(t) \/ SendDeny(t) => FloorInvariant' /\ TurnKept
         /\ \A p \in Roles : \A t \in tasks[p] :
              Refuse(p, t) \/ ApplyAccepted(p, t) \/ ApplyRejected(p, t) \/ SendPause(p, t)
                \/ ApplyPause(p, t) \/ SendInject(p, t) \/ SendEnd(p, t) \/ ApplyEnd(p, t)
                \/ Emit(p, t) => FloorInvariant' /\ TurnKept
<1>. USE DEF record, link, promise, bounds
<1>r. "caller" \in Roles /\ "callee" \in Roles
  BY DEF Roles
<1>n. \A p \in Roles : \A t \in tasks[p] : t.seq \in Nat
  BY DEF TypeOK, Tasks
<1>i. Inviting => state["caller"] \in {"DIALING", "CLOSING", "CLOSED", "LOST"}
  BY DEF FloorInvariant, NobodySpeaksBeforeRinging
<1>k. ASSUME UNCHANGED state PROVE SameRecords
  BY <1>k DEF SameRecords, Known
<1>1. ASSUME NEW t \in tasks["callee"], SendAccept(t) PROVE FloorInvariant' /\ TurnKept
  <2>1. t.next \in {"sendAccept"}
    BY <1>1 DEF SendAccept
  <2>2. outcome # "none" /\ Known("callee") /\ ~Inviting
    BY <1>r, <2>1, TaskMeans
  <2>3. UNCHANGED <<floor, firstFloor>> /\ outcome' # "none"
    BY <1>1, <2>2 DEF SendAccept
  <2>4. TasksGrow("callee", {"emitConnected"})
    BY <1>1, <1>r, <2>1, Growth, TasksGrowMore DEF SendAccept
  <2>5. WireGrows(Peer("callee"), {"ACCEPTED"})
    <3>1. Transmit("callee", Frame("ACCEPTED", t.seq)) \/ UNCHANGED wire
      BY <1>1 DEF SendAccept
    <3>. QED BY <1>r, <1>n, <3>1, SendGrowth DEF FrameTypes
  <2>6. SameRecords
    BY <1>1, <1>k DEF SameRecords, SendAccept
  <2>. QED BY <1>r, <2>2, <2>3, <2>4, <2>5, <2>6, OrdinaryStep
<1>2. ASSUME NEW t \in tasks["callee"], SendDeny(t) PROVE FloorInvariant' /\ TurnKept
  <2>1. t.next \in {"sendDeny"}
    BY <1>2 DEF SendDeny
  <2>2. outcome # "none" /\ Known("callee") /\ ~Inviting
    BY <1>r, <2>1, TaskMeans
  <2>3. UNCHANGED <<floor, firstFloor>> /\ outcome' # "none"
    BY <1>2, <2>2 DEF SendDeny
  <2>4. TasksGrow("callee", {})
    BY <1>2, <1>r, <2>1, Growth DEF SendDeny
  <2>5. WireGrows(Peer("callee"), {"REJECTED"})
    <3>1. Transmit("callee", Frame("REJECTED", t.seq)) \/ UNCHANGED wire
      BY <1>2 DEF SendDeny
    <3>. QED BY <1>r, <1>n, <3>1, SendGrowth DEF FrameTypes
  <2>6. SameRecords
    BY <1>2, <1>k DEF SameRecords, SendDeny
  <2>. QED BY <1>r, <2>2, <2>3, <2>4, <2>5, <2>6, OrdinaryStep
<1>3. ASSUME NEW p \in Roles, NEW t \in tasks[p], Refuse(p, t) PROVE FloorInvariant' /\ TurnKept
  <2>1. t.next \in {"refuse"}
    BY <1>3 DEF Refuse
  <2>2. outcome # "none" /\ ~Inviting
    BY <1>r, <2>1, TaskMeans
  <2>3. UNCHANGED <<floor, firstFloor>> /\ outcome' # "none"
    BY <1>3, <2>2 DEF Refuse
  <2>4. TasksGrow(p, {})
    BY <1>3, <1>r, <2>1, Growth DEF Refuse
  <2>5. WireGrows(Peer(p), {"REJECTED"})
    <3>1. Transmit(p, Frame("REJECTED", 0)) \/ UNCHANGED wire
      BY <1>3 DEF Refuse
    <3>. QED BY <1>r, <1>n, <3>1, SendGrowth DEF FrameTypes
  <2>6. SameRecords
    BY <1>3, <1>k DEF SameRecords, Refuse
  <2>. QED BY <1>r, <2>2, <2>3, <2>4, <2>5, <2>6, OrdinaryStep
<1>4. ASSUME NEW p \in Roles, NEW t \in tasks[p], ApplyAccepted(p, t) PROVE FloorInvariant' /\ TurnKept
  <2>1. t.next \in {"applyAccepted"}
    BY <1>4 DEF ApplyAccepted
  <2>2. outcome # "none" /\ Known(p) /\ ~Inviting
    BY <1>r, <2>1, TaskMeans
  <2>3. UNCHANGED <<floor, firstFloor>> /\ outcome' # "none"
    BY <1>4, <2>2 DEF ApplyAccepted, Settle
  <2>4. TasksGrow(p, {})
    BY <1>4, <1>r, <2>1, Growth DEF ApplyAccepted
  <2>5. WireGrows(Peer(p), {"END"})
    <3>1. SendTimeoutEnd(p) \/ UNCHANGED wire
      BY <1>4 DEF ApplyAccepted
    <3>2. CASE UNCHANGED wire
      BY <3>2 DEF WireGrows
    <3>. QED BY <3>1, <3>2, TimeoutEndGrowth
  <2>6. SameRecords
    BY <1>4, <2>2 DEF SameRecords, ApplyAccepted, Known, TypeOK
  <2>. QED BY <1>r, <2>2, <2>3, <2>4, <2>5, <2>6, OrdinaryStep
<1>5. ASSUME NEW p \in Roles, NEW t \in tasks[p], ApplyRejected(p, t) PROVE FloorInvariant' /\ TurnKept
  <2>1. t.next \in {"applyRejected"}
    BY <1>5 DEF ApplyRejected
  <2>2. outcome # "none" /\ Known(p) /\ ~Inviting
    BY <1>r, <2>1, TaskMeans
  <2>3. UNCHANGED <<floor, firstFloor>> /\ outcome' # "none"
    BY <1>5, <2>2 DEF ApplyRejected, Settle
  <2>4. TasksGrow(p, {})
    BY <1>5, <1>r, <2>1, Growth DEF ApplyRejected
  <2>5. WireGrows(Peer(p), {})
    BY <1>5, <1>r, Growth DEF ApplyRejected
  <2>6. SameRecords
    BY <1>5, <2>2 DEF SameRecords, ApplyRejected, Known, TypeOK
  <2>. QED BY <1>r, <2>2, <2>3, <2>4, <2>5, <2>6, OrdinaryStep
<1>6. ASSUME NEW p \in Roles, NEW t \in tasks[p], SendPause(p, t) PROVE FloorInvariant' /\ TurnKept
  <2>1. t.next \in {"sendPause", "sendResume"}
    BY <1>6 DEF SendPause
  <2>2. outcome # "none" /\ Known(p) /\ ~Inviting
    BY <2>1, TaskMeans
  <2>3. UNCHANGED <<floor, firstFloor, outcome>> /\ TasksGrow(p, {})
    BY <1>6, Growth DEF SendPause
  <2>4. PICK type \in {"PAUSE", "RESUME"} : WireGrows(Peer(p), {type})
    <3>1. PICK type \in {"PAUSE", "RESUME"} : Transmit(p, Frame(type, t.seq)) \/ UNCHANGED wire
      BY <1>6 DEF SendPause
    <3>. QED BY <1>n, <3>1, SendGrowth DEF FrameTypes
  <2>5. SameRecords
    BY <1>6, <2>2 DEF SameRecords, SendPause, Known, TypeOK
  <2>. QED BY <2>2, <2>3, <2>4, <2>5, OrdinaryStep
<1>7. ASSUME NEW p \in Roles, NEW t \in tasks[p], ApplyPause(p, t) PROVE FloorInvariant' /\ TurnKept
  <2>1. t.next \in {"applyPause", "applyResume"}
    BY <1>7 DEF ApplyPause
  <2>2. outcome # "none" /\ Known(p) /\ ~Inviting
    BY <2>1, TaskMeans
  <2>3. UNCHANGED <<floor, firstFloor, outcome>> /\ WireGrows(Peer(p), {})
    BY <1>7, Growth DEF ApplyPause
  <2>4. PICK next \in {"emitPaused", "emitResumed"} : TasksGrow(p, {next})
    BY <1>7, <2>1, Growth DEF ApplyPause
  <2>5. SameRecords
    BY <1>7, <2>2 DEF SameRecords, ApplyPause, Known, TypeOK
  <2>. QED BY <2>2, <2>3, <2>4, <2>5, OrdinaryStep
<1>8. ASSUME NEW p \in Roles, NEW t \in tasks[p], SendInject(p, t) PROVE FloorInvariant' /\ TurnKept
  <2>1. t.next \in {"sendInject"}
    BY <1>8 DEF SendInject
  <2>2. outcome # "none" /\ Known(p) /\ (Inviting => p = "caller")
    BY <1>r, <2>1, TaskMeans
  <2>3. UNCHANGED <<floor, firstFloor>> /\ outcome' # "none"
    BY <1>8, <2>2 DEF SendInject
  <2>4. TasksGrow(p, {})
    BY <1>8, <1>r, <2>1, Growth DEF SendInject
  <2>5. WireGrows(Peer(p), {"HUMAN_INJECT"})
    <3>1. Transmit(p, Frame("HUMAN_INJECT", t.seq)) \/ UNCHANGED wire
      BY <1>8 DEF SendInject
    <3>. QED BY <1>r, <1>n, <3>1, SendGrowth DEF FrameTypes
  <2>6. SameRecords
    BY <1>8, <1>k DEF SameRecords, SendInject
  <2>7. Inviting => state'["caller"] \in {"DIALING", "CLOSING", "CLOSED", "LOST"}
    BY <1>8, <1>r, <1>i DEF SendInject, TypeOK
  <2>. QED BY <1>r, <2>2, <2>3, <2>4, <2>5, <2>6, <2>7, OrdinaryStep DEF EarlySteps, EarlyFrames
<1>9. ASSUME NEW p \in Roles, NEW t \in tasks[p], SendEnd(p, t) PROVE FloorInvariant' /\ TurnKept
  <2>1. t.next \in {"sendEnd"}
    BY <1>9 DEF SendEnd
  <2>2. outcome # "none" /\ Known(p) /\ (Inviting => p = "caller")
    BY <1>r, <2>1, TaskMeans
  <2>3. UNCHANGED <<floor, firstFloor>> /\ outcome' # "none"
    BY <1>9, <2>2 DEF SendEnd
  <2>4. TasksGrow(p, {"emitEnded"})
    BY <1>9, <1>r, <2>1, Growth DEF SendEnd
  <2>5. WireGrows(Peer(p), {"END"})
    <3>1. Transmit(p, Frame("END", t.seq)) \/ UNCHANGED wire
      BY <1>9 DEF SendEnd
    <3>. QED BY <1>r, <1>n, <3>1, SendGrowth DEF FrameTypes
  <2>6. SameRecords
    BY <1>9, <2>2 DEF SameRecords, SendEnd, Known, TypeOK
  <2>7. Inviting => state'["caller"] \in {"DIALING", "CLOSING", "CLOSED", "LOST"}
    BY <1>9, <1>r, <1>i DEF SendEnd, TypeOK
  <2>. QED BY <1>r, <2>2, <2>3, <2>4, <2>5, <2>6, <2>7, OrdinaryStep DEF EarlySteps, EarlyFrames
<1>10. ASSUME NEW p \in Roles, NEW t \in tasks[p], ApplyEnd(p, t) PROVE FloorInvariant' /\ TurnKept
  <2>1. t.next \in {"applyEnd"}
    BY <1>10 DEF ApplyEnd
  <2>2. outcome # "none" /\ Known(p) /\ ~Inviting
    BY <1>r, <2>1, TaskMeans
  <2>3. UNCHANGED <<floor, firstFloor>> /\ outcome' # "none"
    BY <1>10, <2>2 DEF ApplyEnd
  <2>4. TasksGrow(p, {"emitEnded"})
    BY <1>10, <1>r, <2>1, Growth DEF ApplyEnd
  <2>5. WireGrows(Peer(p), {})
    BY <1>10, <1>r, Growth DEF ApplyEnd
  <2>6. SameRecords
    BY <1>10, <2>2 DEF SameRecords, ApplyEnd, Known, TypeOK
  <2>. QED BY <1>r, <2>2, <2>3, <2>4, <2>5, <2>6, OrdinaryStep
<1>11. ASSUME NEW p \in Roles, NEW t \in tasks[p], Emit(p, t) PROVE FloorInvariant' /\ TurnKept
  <2>1. t.next \in DOMAIN EventOf
    BY <1>11 DEF Emit, EventOf
  <2>2. outcome # "none" /\ Known(p) /\ (Inviting => p = "caller")
    BY <1>r, <2>1, TaskMeans DEF EventOf
  <2>3. UNCHANGED <<floor, firstFloor>> /\ outcome' # "none"
    BY <1>11, <2>2 DEF Emit
  <2>4. TasksGrow(p, {})
    BY <1>11, <1>r, <2>1, Growth DEF Emit
  <2>5. WireGrows(Peer(p), {})
    BY <1>11, <1>r, Growth DEF Emit
  <2>6. SameRecords
    BY <1>11, <1>k DEF SameRecords, Emit
  <2>7. Inviting => state'["caller"] \in {"DIALING", "CLOSING", "CLOSED", "LOST"}
    BY <1>11, <1>r, <1>i DEF Emit, TypeOK
  <2>. QED BY <1>r, <2>2, <2>3, <2>4, <2>5, <2>6, <2>7, OrdinaryStep DEF EarlySteps, EarlyFrames
<1>. QED BY <1>1, <1>2, <1>3, <1>4, <1>5, <1>6, <1>7, <1>8, <1>9, <1>10, <1>11

---------------------------------------------------------------------------
(* The steps that make the records and pass the floor.                     *)

LEMMA InvitingSteps ==
  ASSUME TypeOK, FloorInvariant
  PROVE  /\ Invite => FloorInvariant' /\ RecordMade("caller")
         /\ \A t \in tasks["caller"] : NumberInvite(t) \/ SendInvite(t) => FloorInvariant' /\ TurnKept
         /\ \A p \in Roles : ReceiveInvite(p) => FloorInvariant' /\ TurnKept
         /\ \A p \in Roles : \A t \in tasks[p] : Ring(p, t) => FloorInvariant' /\ RecordMade(p)
<1>. USE DEF record, link, promise, bounds
<1>r. "caller" \in Roles /\ "callee" \in Roles /\ Peer("caller") = "callee" /\ Peer("callee") = "caller"
  BY DEF Roles, Peer
<1>d. \A q \in Roles : q = "caller" \/ q = "callee"
  BY DEF Roles
<1>m. /\ {"numberInvite", "sendInvite", "ring", "applyTurn", "sendTurn"} \subseteq Steps
      /\ {"INVITE", "SEND"} \subseteq FrameTypes
  BY DEF Steps, ClientSteps, HandlerSteps, FrameTypes
<1>1. ASSUME Invite PROVE FloorInvariant' /\ RecordMade("caller")
  <2>1. \A q \in Roles : /\ state[q] = "NONE" /\ floor["caller"] = firstFloor
                         /\ \A step \in Steps : ~At(tasks[q], step) /\ SingleAt(tasks[q], step)
                         /\ \A type \in FrameTypes : ~Carries(wire[q], type) /\ SingleIn(wire[q], type)
    <3>1. outcome = "none"
      BY <1>1 DEF Invite
    <3>. QED BY <3>1 DEF FloorInvariant, NothingBeforeInvite, At, SingleAt, Carries, SingleIn
  <2>2. TasksGrow("caller", {"numberInvite"}) /\ outcome' = "waiting" /\ UNCHANGED <<floor, firstFloor, wire>>
    BY <1>1, <1>r, Growth DEF Invite
  <2>3. state' = [state EXCEPT !["caller"] = "DIALING"]
    BY <1>1 DEF Invite
  <2>4. Known("caller")' /\ ~Known("callee")' /\ ~Known("caller") /\ state'["caller"] = "DIALING"
    BY <1>r, <2>1, <2>3 DEF Known, TypeOK
  <2>5. \A q \in Roles : Known(q) => Known(q)'
    BY <1>r, <2>4, <2>1 DEF Known
  <2>6. TasksHaveRecord' /\ NothingBeforeInvite'
    BY <1>r, <2>2, <2>4, <2>5, KeepsRecords
  <2>7. \A q \in Roles : \A step \in Steps :
          /\ At(tasks'[q], step) => q = "caller" /\ step = "numberInvite"
          /\ SingleAt(tasks'[q], step)
    <3>. DEFINE u == [next |-> "numberInvite", seq |-> 0, open |-> TRUE]
    <3>1. \A q \in Roles : tasks'[q] = IF q = "caller" THEN tasks[q] \cup {u} ELSE tasks[q]
      BY <1>1 DEF Invite, Suspend, TypeOK
    <3>2. u.next = "numberInvite"
      OBVIOUS
    <3>. HIDE DEF u
    <3>3. \A q \in Roles : \A v \in tasks[q] : v.next \in Steps
      BY DEF TypeOK, Tasks
    <3>4. \A q \in Roles : \A v \in tasks[q] : FALSE
      BY <2>1, <3>3 DEF At
    <3>. QED BY <3>1, <3>2, <3>4 DEF At, SingleAt
  <2>8. FloorExclusive' /\ SpeakerHoldsFloor'
    BY <1>m, <2>4, <2>7 DEF FloorExclusive, HoldsFloor, SpeakerHoldsFloor
  <2>9. OneTurnInFlight'
    BY <1>r, <1>m, <2>1, <2>2, <2>7 DEF OneTurnInFlight, Speaking
  <2>10. OneInvite'
    BY <1>r, <1>m, <2>1, <2>2, <2>7 DEF OneInvite, InviteUnsent, InviteInFlight, InviteTaken
  <2>11. NobodySpeaksBeforeRinging'
    <3>1. state'["callee"] = "NONE"
      BY <1>r, <2>1, <2>3 DEF TypeOK
    <3>2. \A q \in Roles : \A type \in FrameTypes : ~Carries(wire'[q], type)
      BY <2>1, <2>2
    <3>. QED BY <1>r, <2>1, <2>2, <2>4, <2>7, <3>1, <3>2 DEF NobodySpeaksBeforeRinging
  <2>12. RecordMade("caller")
    <3>1. state'["callee"] = state["callee"] /\ floor'["caller"] = firstFloor
      BY <1>r, <2>1, <2>2, <2>3 DEF TypeOK
    <3>2. \A q \in Roles : ~Speaking(q) /\ ~Speaking(q)'
      BY <1>m, <2>1, <2>2, <2>7 DEF Speaking
    <3>3. \A q \in Roles : q # "caller" => (HoldsFloor(q)' <=> HoldsFloor(q))
      BY <1>d, <2>2, <3>1 DEF HoldsFloor, Known
    <3>. QED BY <1>r, <1>d, <2>1, <2>2, <2>4, <3>1, <3>2, <3>3 DEF RecordMade
  <2>. QED BY <2>6, <2>8, <2>9, <2>10, <2>11, <2>12 DEF FloorInvariant
<1>u. ASSUME NEW t \in tasks["caller"], t.next \in {"numberInvite", "sendInvite"}
      PROVE  /\ Inviting /\ InviteUnsent /\ Known("caller") /\ outcome # "none"
             /\ ~InviteInFlight /\ ~InviteTaken
  <2>1. Known("caller") /\ outcome # "none" /\ At(tasks["caller"], t.next)
    BY <1>r, <1>u, TaskMeans
  <2>2. InviteUnsent
    BY <1>u, <2>1 DEF InviteUnsent
  <2>. QED BY <2>1, <2>2 DEF FloorInvariant, OneInvite, Inviting
<1>2. ASSUME NEW t \in tasks["caller"], NumberInvite(t) PROVE FloorInvariant' /\ TurnKept
  <2>0. t.next = "numberInvite"
    BY <1>2 DEF NumberInvite
  <2>1. /\ Inviting /\ InviteUnsent /\ Known("caller") /\ outcome # "none"
        /\ ~InviteInFlight /\ ~InviteTaken
    BY <1>u, <2>0
  <2>2. UNCHANGED <<state, floor, wire, outcome, firstFloor>>
    BY <1>2 DEF NumberInvite
  <2>3. TasksGrow("caller", {"sendInvite"}) /\ ~At(tasks'["caller"], "numberInvite")
        /\ SingleAt(tasks'["caller"], "sendInvite")
    <3>. DEFINE u == [next |-> "sendInvite", seq |-> seqOut["caller"] + 1, open |-> t.open]
    <3>1. /\ u.next = "sendInvite"
          /\ tasks'["caller"] = (tasks["caller"] \ {t}) \cup {u}
          /\ tasks'["callee"] = tasks["callee"]
      BY <1>2, <1>r DEF NumberInvite, TypeOK
    <3>. HIDE DEF u
    <3>2. SingleAt(tasks["caller"], "numberInvite") /\ ~At(tasks["caller"], "sendInvite")
      BY <2>0 DEF FloorInvariant, OneInvite, At
    <3>. QED BY <1>d, <2>0, <3>1, <3>2 DEF TasksGrow, At, SingleAt
  <2>4. \A q \in Roles : (Known(q)' <=> Known(q)) /\ (HoldsFloor(q)' <=> HoldsFloor(q))
    BY <2>2 DEF Known, HoldsFloor
  <2>5. WireGrows("callee", {})
    BY <2>2 DEF WireGrows
  <2>6. TasksHaveRecord' /\ NothingBeforeInvite'
    BY <1>r, <2>1, <2>2, <2>3, <2>4, KeepsRecords
  <2>7. FloorExclusive' /\ OneTurnInFlight' /\ SpeakerHoldsFloor'
    BY <1>r, <2>3, <2>4, <2>5, KeepsTurns
  <2>8. OneInvite'
    <3>1. /\ \A q \in Roles : At(tasks'[q], "ring") => At(tasks[q], "ring")
          /\ SingleAt(tasks["callee"], "ring") => SingleAt(tasks'["callee"], "ring")
          /\ SingleAt(tasks'["caller"], "numberInvite")
      BY <1>r, <1>m, <2>3 DEF TasksGrow, SingleAt, At
    <3>. QED BY <1>r, <2>1, <2>2, <2>3, <3>1
             DEF FloorInvariant, OneInvite, InviteUnsent, InviteInFlight, InviteTaken
  <2>9. NobodySpeaksBeforeRinging'
    BY <1>r, <2>1, <2>2, <2>3, <2>4 DEF FloorInvariant, NobodySpeaksBeforeRinging, TasksGrow
  <2>10. TurnKept
    BY <1>r, <2>2, <2>3, <2>5, KeepsTurn
  <2>. QED BY <2>6, <2>7, <2>8, <2>9, <2>10 DEF FloorInvariant
<1>3. ASSUME NEW t \in tasks["caller"], SendInvite(t) PROVE FloorInvariant' /\ TurnKept
  <2>0. t.next = "sendInvite" /\ t.seq \in Nat
    BY <1>3, <1>r DEF SendInvite, TypeOK, Tasks
  <2>1. /\ Inviting /\ InviteUnsent /\ Known("caller") /\ outcome # "none"
        /\ ~InviteInFlight /\ ~InviteTaken
    BY <1>u, <2>0
  <2>2. UNCHANGED <<state, floor, firstFloor>> /\ outcome' # "none" /\ Finish("caller", t)
    BY <1>3, <2>1 DEF SendInvite
  <2>3. TasksGrow("caller", {})
    BY <1>r, <2>2, Growth
  <2>4. ~At(tasks'["caller"], "numberInvite") /\ ~At(tasks'["caller"], "sendInvite")
    <3>1. SingleAt(tasks["caller"], "sendInvite") /\ ~At(tasks["caller"], "numberInvite")
      BY <2>0 DEF FloorInvariant, OneInvite, At
    <3>. QED BY <1>r, <1>m, <2>0, <2>2, <3>1, FinishEffect
  <2>5. Transmit("caller", Frame("INVITE", t.seq)) \/ UNCHANGED wire
    BY <1>3 DEF SendInvite
  <2>6. WireGrows("callee", {"INVITE"})
    BY <1>r, <1>m, <2>0, <2>5, SendGrowth
  <2>7. SingleIn(wire'["callee"], "INVITE")
    <3>1. ~Carries(wire["callee"], "INVITE") /\ SingleIn(wire["callee"], "INVITE")
      BY <2>1 DEF InviteInFlight, FloorInvariant, OneInvite
    <3>2. Frame("INVITE", t.seq) \in Frames
      BY <1>m, <2>0, FrameType
    <3>. QED BY <1>r, <1>m, <2>5, <3>1, <3>2, TransmitEffect
  <2>8. \A q \in Roles : (Known(q)' <=> Known(q)) /\ (HoldsFloor(q)' <=> HoldsFloor(q))
    BY <2>2 DEF Known, HoldsFloor
  <2>9. TasksHaveRecord' /\ NothingBeforeInvite'
    BY <1>r, <2>1, <2>2, <2>3, <2>8, KeepsRecords
  <2>10. FloorExclusive' /\ OneTurnInFlight' /\ SpeakerHoldsFloor'
    BY <1>r, <2>3, <2>6, <2>8, KeepsTurns
  <2>11. OneInvite'
    <3>1. /\ \A q \in Roles : At(tasks'[q], "ring") => At(tasks[q], "ring")
          /\ SingleAt(tasks["callee"], "ring") => SingleAt(tasks'["callee"], "ring")
          /\ ~Carries(wire["caller"], "INVITE") => ~Carries(wire'["caller"], "INVITE")
          /\ SingleAt(tasks'["caller"], "numberInvite") /\ SingleAt(tasks'["caller"], "sendInvite")
      BY <1>r, <1>m, <2>3, <2>4, <2>6 DEF TasksGrow, WireGrows, SingleAt, At
    <3>. QED BY <1>r, <2>1, <2>4, <2>7, <3>1
             DEF FloorInvariant, OneInvite, InviteUnsent, InviteInFlight, InviteTaken
  <2>12. NobodySpeaksBeforeRinging'
    <3>1. \A step \in Steps : /\ At(tasks'["callee"], step) => At(tasks["callee"], step)
                              /\ At(tasks'["caller"], step) => At(tasks["caller"], step)
      BY <1>r, <2>3 DEF TasksGrow
    <3>2. \A type \in FrameTypes :
            /\ Carries(wire'["caller"], type) => Carries(wire["caller"], type)
            /\ Carries(wire'["callee"], type) => Carries(wire["callee"], type) \/ type = "INVITE"
      BY <1>r, <2>6 DEF WireGrows
    <3>. QED BY <1>r, <2>1, <2>2, <2>8, <3>1, <3>2 DEF FloorInvariant, NobodySpeaksBeforeRinging
  <2>13. TurnKept
    BY <1>r, <2>2, <2>3, <2>6, KeepsTurn
  <2>. QED BY <2>9, <2>10, <2>11, <2>12, <2>13 DEF FloorInvariant
<1>4. ASSUME NEW p \in Roles, ReceiveInvite(p) PROVE FloorInvariant' /\ TurnKept
  <2>1. /\ Arrives(p, "INVITE") /\ wire[p] # <<>> /\ Head(wire[p]).type = "INVITE"
        /\ Carries(wire[p], "INVITE") /\ outcome # "none"
    BY <1>4, <1>m, FrameMeans DEF ReceiveInvite, Arrives
  <2>2. p = "callee" /\ InviteInFlight /\ Inviting /\ ~InviteUnsent /\ ~InviteTaken
    BY <1>d, <2>1 DEF FloorInvariant, OneInvite, InviteInFlight, Inviting
  <2>3. ~Known("callee")
    BY <2>2 DEF FloorInvariant, NobodySpeaksBeforeRinging, Known
  <2>4. UNCHANGED <<state, floor, firstFloor, outcome>> /\ Consume("callee")
    BY <1>4, <2>2, <2>3 DEF ReceiveInvite
  <2>5. PICK next \in {"ring", "refuse"} : Suspend("callee", next, Head(wire["callee"]).seq)
    BY <1>4, <2>2, <2>3 DEF ReceiveInvite
  <2>6. TasksGrow("callee", {next}) /\ WireGrows("caller", {})
    BY <1>r, <2>1, <2>2, <2>4, <2>5, Growth
  <2>7. ~Carries(wire'["callee"], "INVITE") /\ SingleIn(wire'["callee"], "INVITE")
    <3>1. SingleIn(wire["callee"], "INVITE")
      BY DEF FloorInvariant, OneInvite
    <3>. QED BY <1>m, <1>r, <2>1, <2>2, <2>4, <3>1, ConsumeEffect
  <2>8. SingleAt(tasks'["callee"], "ring")
    <3>1. SingleAt(tasks["callee"], "ring") /\ ~At(tasks["callee"], "ring")
      BY <2>2 DEF FloorInvariant, OneInvite, InviteTaken
    <3>. QED BY <1>m, <1>r, <2>5, <3>1, SuspendEffect
  <2>9. \A q \in Roles : (Known(q)' <=> Known(q)) /\ (HoldsFloor(q)' <=> HoldsFloor(q))
    BY <2>4 DEF Known, HoldsFloor
  <2>10. TasksHaveRecord' /\ NothingBeforeInvite'
    BY <1>r, <2>1, <2>4, <2>6, <2>9, KeepsRecords
  <2>11. FloorExclusive' /\ OneTurnInFlight' /\ SpeakerHoldsFloor'
    BY <1>r, <2>6, <2>9, KeepsTurns
  <2>12. \A step \in Steps : /\ At(tasks'["caller"], step) => At(tasks["caller"], step)
                             /\ SingleAt(tasks["caller"], step) => SingleAt(tasks'["caller"], step)
    BY <1>r, <2>6 DEF TasksGrow
  <2>13. \A type \in FrameTypes :
           /\ Carries(wire'["caller"], type) => Carries(wire["caller"], type)
           /\ Carries(wire'["callee"], type) => Carries(wire["callee"], type)
    BY <1>r, <2>6 DEF WireGrows
  <2>14. OneInvite'
    BY <1>r, <1>m, <2>2, <2>7, <2>8, <2>12, <2>13
       DEF FloorInvariant, OneInvite, InviteUnsent, InviteInFlight, InviteTaken
  <2>15. NobodySpeaksBeforeRinging'
    <3>1. CASE next = "ring"
      <4>1. \A step \in Steps : At(tasks'["callee"], step) => At(tasks["callee"], step) \/ step = "ring"
        BY <1>r, <2>6, <3>1 DEF TasksGrow
      <4>. QED BY <1>r, <2>2, <2>4, <2>9, <2>12, <2>13, <4>1
               DEF FloorInvariant, NobodySpeaksBeforeRinging
    <3>2. CASE next = "refuse"
      <4>1. ~Inviting'
        BY <1>r, <1>m, <2>2, <2>6, <2>7, <2>12, <3>2
           DEF Inviting, InviteUnsent, InviteInFlight, InviteTaken, TasksGrow
      <4>. QED BY <4>1 DEF NobodySpeaksBeforeRinging
    <3>. QED BY <3>1, <3>2
  <2>16. TurnKept
    BY <1>r, <2>4, <2>6, KeepsTurn
  <2>. QED BY <2>10, <2>11, <2>14, <2>15, <2>16 DEF FloorInvariant
<1>5. ASSUME NEW p \in Roles, NEW t \in tasks[p], Ring(p, t) PROVE FloorInvariant' /\ RecordMade(p)
  <2>1. t.next = "ring" /\ At(tasks[p], "ring") /\ outcome # "none"
    BY <1>5, TaskMeans DEF Ring
  <2>2. p = "callee" /\ InviteTaken /\ Inviting /\ ~InviteUnsent /\ ~InviteInFlight
    BY <1>d, <2>1 DEF FloorInvariant, OneInvite, InviteTaken, Inviting
  <2>3. SuspendAgain("callee", t, "emitInvite") /\ t \in tasks["callee"]
    BY <1>5, <2>2 DEF Ring
  <2>4. TasksGrow("callee", {"emitInvite"}) /\ WireGrows("caller", {})
        /\ UNCHANGED <<wire, firstFloor, outcome>>
    BY <1>5, <1>r, <2>1, <2>2, <2>3, Growth DEF Ring
  <2>5. ~At(tasks'["callee"], "ring")
    <3>1. SingleAt(tasks["callee"], "ring")
      BY DEF FloorInvariant, OneInvite
    <3>2. "emitInvite" # t.next
      BY <2>1
    <3>. QED BY <1>r, <2>1, <2>3, <3>1, <3>2, SuspendAgainEffect
  <2>6. /\ state' = [state EXCEPT !["callee"] = "RINGING"]
        /\ floor' = [floor EXCEPT !["callee"] = firstFloor]
    BY <1>5, <2>2 DEF Ring
  <2>7. /\ Known("callee")' /\ floor'["callee"] = firstFloor
        /\ floor'["caller"] = firstFloor
        /\ \A q \in Roles : Known(q) => Known(q)'
    <3>1. floor["caller"] = firstFloor
      BY <2>2 DEF FloorInvariant, NobodySpeaksBeforeRinging
    <3>. QED BY <1>r, <1>d, <2>6, <3>1 DEF Known, TypeOK
  <2>8. TasksHaveRecord' /\ NothingBeforeInvite'
    BY <1>r, <2>1, <2>4, <2>7, KeepsRecords
  <2>9. \A q \in Roles : /\ ~At(tasks'[q], "sendTurn") /\ ~At(tasks'[q], "applyTurn")
                         /\ ~Carries(wire'[q], "SEND")
    BY <1>r, <1>d, <1>m, <2>2, <2>4 DEF FloorInvariant, NobodySpeaksBeforeRinging, TasksGrow
  <2>10. FloorExclusive'
    BY <2>7 DEF FloorExclusive, HoldsFloor
  <2>11. OneTurnInFlight' /\ SpeakerHoldsFloor'
    BY <1>r, <2>9 DEF OneTurnInFlight, SpeakerHoldsFloor, Speaking, SingleAt, At, SingleIn, Carries
  <2>12. OneInvite' /\ ~Inviting'
    <3>1. \A step \in {"numberInvite", "sendInvite", "ring"} :
            /\ At(tasks'["caller"], step) => At(tasks["caller"], step)
            /\ SingleAt(tasks["caller"], step) => SingleAt(tasks'["caller"], step)
            /\ SingleAt(tasks["callee"], step) => SingleAt(tasks'["callee"], step)
      BY <1>r, <1>m, <2>4 DEF TasksGrow
    <3>. QED BY <1>r, <2>2, <2>4, <2>5, <3>1
             DEF FloorInvariant, OneInvite, Inviting, InviteUnsent, InviteInFlight, InviteTaken
  <2>13. RecordMade("callee")
    <3>1. /\ state["callee"] = "NONE" /\ \A q \in Roles : ~Speaking(q)
      BY <1>r, <1>d, <1>m, <2>2 DEF FloorInvariant, NobodySpeaksBeforeRinging, Speaking
    <3>2. state'["caller"] = state["caller"] /\ floor'["caller"] = floor["caller"]
      BY <1>r, <2>6 DEF TypeOK
    <3>3. \A q \in Roles : q # "callee" => (HoldsFloor(q)' <=> HoldsFloor(q))
      BY <1>d, <3>2 DEF HoldsFloor, Known
    <3>4. \A q \in Roles : ~Speaking(q)'
      BY <2>9 DEF Speaking
    <3>. QED BY <1>d, <2>4, <2>7, <3>1, <3>2, <3>3, <3>4 DEF RecordMade
  <2>. QED BY <2>2, <2>8, <2>10, <2>11, <2>12, <2>13 DEF FloorInvariant, NobodySpeaksBeforeRinging
<1>. QED BY <1>1, <1>2, <1>3, <1>4, <1>5

\* Here the clients' waiting matters: a client that has a request under way
\* makes no other one.
LEMMA SpeakingSteps ==
  ASSUME TypeOK, FloorInvariant
  PROVE  /\ \A p \in Roles : Serial /\ Speak(p) => FloorInvariant' /\ TurnKept
         /\ \A p \in Roles : ReceiveTurn(p) => FloorInvariant' /\ TurnKept
         /\ \A p \in Roles : \A t \in tasks[p] :
              /\ SendTurn(p, t) => FloorInvariant' /\ (TurnKept \/ TurnSent(p))
              /\ ApplyTurn(p, t) => FloorInvariant' /\ TurnHeard(p)
<1>. USE DEF record, link, promise, bounds
<1>r. "caller" \in Roles /\ "callee" \in Roles
  BY DEF Roles
<1>d. \A p, q \in Roles : q = p \/ q = Peer(p)
  BY DEF Roles, Peer
<1>m. {"sendTurn", "applyTurn"} \subseteq Steps /\ "SEND" \in FrameTypes
  BY DEF Steps, ClientSteps, HandlerSteps, FrameTypes
<1>n. \A p \in Roles : \A t \in tasks[p] : t.seq \in Nat
  BY DEF TypeOK, Tasks
<1>x. \A p \in Roles : HoldsFloor(p) => ~HoldsFloor(Peer(p)) /\ ~Speaking(p) /\ ~Speaking(Peer(p))
  BY DEF FloorInvariant, FloorExclusive, OneTurnInFlight, Roles, Peer
<1>y. \A p \in Roles : Speaking(p) => /\ ~HoldsFloor(p) /\ ~HoldsFloor(Peer(p)) /\ ~Speaking(Peer(p))
                                     /\ ~(Carries(wire[p], "SEND") /\ At(tasks[p], "applyTurn"))
                                     /\ SingleIn(wire[p], "SEND") /\ SingleAt(tasks[p], "applyTurn")
  BY DEF FloorInvariant, OneTurnInFlight, Roles, Peer
<1>1. ASSUME NEW p \in Roles, Serial, Speak(p) PROVE FloorInvariant' /\ TurnKept
  <2>1. Known(p) /\ outcome # "none" /\ ~Inviting /\ HoldsFloor(p)
    BY <1>1, RecordMeans DEF Speak, MaySpeak, Known, HoldsFloor
  <2>2. Suspend(p, "sendTurn", seqOut[p] + 1) /\ UNCHANGED <<state, floor, firstFloor, outcome, wire>>
    BY <1>1 DEF Speak, Asks
  <2>3. TasksGrow(p, {"sendTurn"}) /\ WireGrows(Peer(p), {})
    BY <2>2, Growth
  <2>4. ~At(tasks[p], "sendTurn")
    BY <1>1 DEF Speak, Asks, Busy, At, ClientSteps
  <2>5. \A q \in Roles : (Known(q)' <=> Known(q)) /\ (HoldsFloor(q)' <=> HoldsFloor(q))
    BY <2>2 DEF Known, HoldsFloor
  <2>6. TasksHaveRecord' /\ NothingBeforeInvite'
    BY <2>1, <2>2, <2>3, <2>5, KeepsRecords
  <2>7. OneInvite' /\ NobodySpeaksBeforeRinging'
    BY <2>1, <2>3, KeepsInvite DEF InviteSteps
  <2>8. \A q \in Roles : At(tasks'[q], "applyTurn") => At(tasks[q], "applyTurn")
    BY <1>m, <2>3 DEF TasksGrow
  <2>9. \A q \in Roles : ~Speaking(q)' /\ ~Carries(wire'[q], "SEND") /\ ~At(tasks'[q], "applyTurn")
    BY <1>d, <1>x, <2>1, <2>2, <2>8 DEF Speaking
  <2>10. OneTurnInFlight' /\ FloorExclusive'
    BY <1>r, <2>5, <2>9
       DEF OneTurnInFlight, FloorInvariant, FloorExclusive, SingleIn, Carries, SingleAt, At
  <2>11. SpeakerHoldsFloor'
    <3>1. \A q \in Roles : /\ At(tasks'[q], "sendTurn") => At(tasks[q], "sendTurn") \/ q = p
                           /\ SingleAt(tasks[q], "sendTurn") => SingleAt(tasks'[q], "sendTurn")
      BY <1>m, <2>2, <2>4, SuspendEffect
    <3>. QED BY <2>1, <2>5, <3>1 DEF FloorInvariant, SpeakerHoldsFloor
  <2>12. TurnKept
    BY <1>r, <2>2, <2>3, PeerIsRole, KeepsTurn
  <2>. QED BY <2>6, <2>7, <2>10, <2>11, <2>12 DEF FloorInvariant
<1>2. ASSUME NEW p \in Roles, NEW t \in tasks[p], SendTurn(p, t)
      PROVE  FloorInvariant' /\ (TurnKept \/ TurnSent(p))
  <2>1. t.next = "sendTurn" /\ At(tasks[p], "sendTurn") /\ outcome # "none" /\ Known(p) /\ ~Inviting
    BY <1>2, TaskMeans DEF SendTurn
  <2>2. HoldsFloor(p) /\ SingleAt(tasks[p], "sendTurn")
    BY <2>1 DEF FloorInvariant, SpeakerHoldsFloor
  <2>3. Finish(p, t) /\ UNCHANGED <<state, firstFloor, outcome>>
    BY <1>2 DEF SendTurn
  <2>4. TasksGrow(p, {}) /\ ~At(tasks'[p], "sendTurn")
    BY <1>m, <2>1, <2>2, <2>3, Growth, FinishEffect
  <2>5. \A q \in Roles : Known(q)' <=> Known(q)
    BY <2>3 DEF Known
  <2>6. CASE ~up[p]
    <3>1. UNCHANGED <<wire, floor>>
      BY <1>2, <2>6 DEF SendTurn
    <3>2. WireGrows(Peer(p), {})
      BY <3>1, Growth
    <3>3. SameRecords
      BY <2>3 DEF SameRecords, Known
    <3>. QED BY <2>1, <2>3, <2>4, <3>1, <3>2, <3>3, OrdinaryStep
  <2>7. CASE up[p]
    <3>1. Transmit(p, Frame("SEND", t.seq)) /\ floor' = [floor EXCEPT ![p] = Peer(p)]
      BY <1>2, <2>7 DEF SendTurn, FloorAfterSpeaking
    <3>2. Frame("SEND", t.seq) \in Frames /\ Frame("SEND", t.seq).type = "SEND"
      BY <1>m, <1>n, FrameType DEF Frame
    <3>3. WireGrows(Peer(p), {"SEND"})
      BY <3>1, <3>2, Growth
    <3>4. ~HoldsFloor(p)' /\ ~HoldsFloor(Peer(p))'
      <4>1. floor'[p] # p /\ floor'[Peer(p)] = floor[Peer(p)]
        BY <3>1, PeerIsRole DEF TypeOK
      <4>. QED BY <1>x, <2>2, <2>5, <4>1, PeerIsRole DEF HoldsFloor
    <3>5. /\ ~Carries(wire'[p], "SEND") /\ SingleIn(wire'[Peer(p)], "SEND")
          /\ ~At(tasks'[p], "applyTurn") /\ ~At(tasks'[Peer(p)], "applyTurn")
          /\ ~At(tasks'[Peer(p)], "sendTurn")
      <4>1. /\ ~Carries(wire[p], "SEND") /\ ~Carries(wire[Peer(p)], "SEND")
            /\ ~At(tasks[p], "applyTurn") /\ ~At(tasks[Peer(p)], "applyTurn")
            /\ ~At(tasks[Peer(p)], "sendTurn")
        BY <1>x, <2>2, PeerIsRole DEF Speaking, FloorInvariant, SpeakerHoldsFloor
      <4>2. SingleIn(wire[Peer(p)], "SEND")
        BY <4>1 DEF SingleIn, Carries
      <4>. QED BY <1>m, <2>4, <3>1, <3>2, <3>3, <4>1, <4>2, PeerIsRole, TransmitEffect
               DEF TasksGrow, WireGrows
    <3>6. FloorExclusive' /\ SpeakerHoldsFloor'
      BY <1>r, <1>d, <2>4, <3>4, <3>5 DEF FloorExclusive, SpeakerHoldsFloor, SingleAt, At
    <3>7. OneTurnInFlight'
      <4>1. ~Speaking(p)'
        BY <3>5 DEF Speaking
      <4>2. \A q \in Roles : ~HoldsFloor(q)' /\ SingleIn(wire'[q], "SEND") /\ ~At(tasks'[q], "applyTurn")
        BY <1>d, <3>4, <3>5 DEF SingleIn, Carries
      <4>3. ~(Speaking("caller")' /\ Speaking("callee")')
        BY <4>1 DEF Roles
      <4>. QED BY <1>r, <4>2, <4>3 DEF OneTurnInFlight, SingleAt, At
    <3>8. TasksHaveRecord' /\ NothingBeforeInvite'
      BY <2>1, <2>3, <2>4, <2>5, KeepsRecords
    <3>9. OneInvite' /\ NobodySpeaksBeforeRinging'
      BY <2>1, <2>4, <3>3, KeepsInvite
    <3>10. TurnSent(p)
      BY <1>d, <2>2, <2>3, <2>5, <3>4, <3>5 DEF TurnSent, SameRecords, Speaking
    <3>. QED BY <3>6, <3>7, <3>8, <3>9, <3>10 DEF FloorInvariant
  <2>. QED BY <2>6, <2>7
<1>3. ASSUME NEW p \in Roles, ReceiveTurn(p) PROVE FloorInvariant' /\ TurnKept
  <2>1. wire[p] # <<>> /\ Head(wire[p]).type = "SEND" /\ Carries(wire[p], "SEND")
        /\ outcome # "none" /\ ~Inviting
    BY <1>3, <1>m, FrameMeans DEF ReceiveTurn, Arrives
  <2>2. UNCHANGED <<state, floor, firstFloor, outcome>>
    BY <1>3 DEF ReceiveTurn
  <2>3. \A q \in Roles : (Known(q)' <=> Known(q)) /\ (HoldsFloor(q)' <=> HoldsFloor(q))
    BY <2>2 DEF Known, HoldsFloor
  <2>4. CASE ~TurnAdmitted(p)
    <3>1. ConsumeAndReply(p, Frame("ERROR", 0)) /\ UNCHANGED tasks
      BY <1>3, <2>4 DEF ReceiveTurn
    <3>2. TasksGrow(p, {}) /\ WireGrows(Peer(p), {"ERROR"})
      BY <2>1, <3>1, Growth, ReplyGrowth
    <3>3. SameRecords
      BY <2>2 DEF SameRecords, Known
    <3>. QED BY <2>1, <2>2, <3>2, <3>3, OrdinaryStep
  <2>5. CASE TurnAdmitted(p)
    <3>1. Consume(p) /\ Suspend(p, "applyTurn", Head(wire[p]).seq)
      BY <1>3, <2>5 DEF ReceiveTurn
    <3>2. TasksGrow(p, {"applyTurn"}) /\ WireGrows(Peer(p), {})
      BY <2>1, <3>1, Growth
    <3>3. Known(p)
      BY <2>5 DEF TurnAdmitted, Known
    <3>4. Speaking(p)
      BY <2>1 DEF Speaking
    <3>5. TasksHaveRecord' /\ NothingBeforeInvite'
      BY <2>1, <2>2, <2>3, <3>2, <3>3, KeepsRecords
    <3>6. OneInvite' /\ NobodySpeaksBeforeRinging'
      BY <2>1, <3>2, KeepsInvite DEF InviteSteps
    <3>7. /\ ~Carries(wire'[p], "SEND") /\ SingleAt(tasks'[p], "applyTurn")
          /\ ~Carries(wire'[Peer(p)], "SEND") /\ ~At(tasks'[Peer(p)], "applyTurn")
      <4>1. /\ ~Carries(wire[Peer(p)], "SEND") /\ ~At(tasks[Peer(p)], "applyTurn")
            /\ ~At(tasks[p], "applyTurn") /\ SingleIn(wire[p], "SEND") /\ SingleAt(tasks[p], "applyTurn")
        BY <1>y, <2>1, <3>4, PeerIsRole DEF Speaking
      <4>2. ~Carries(wire'[p], "SEND")
        BY <2>1, <3>1, <4>1, ConsumeEffect
      <4>3. SingleAt(tasks'[p], "applyTurn")
        BY <1>m, <3>1, <4>1, SuspendEffect
      <4>. QED BY <1>m, <3>2, <4>1, <4>2, <4>3, PeerIsRole DEF TasksGrow, WireGrows
    <3>8. FloorExclusive' /\ SpeakerHoldsFloor'
      <4>1. \A q \in Roles : /\ At(tasks'[q], "sendTurn") => At(tasks[q], "sendTurn")
                             /\ SingleAt(tasks[q], "sendTurn") => SingleAt(tasks'[q], "sendTurn")
        BY <1>m, <3>2 DEF TasksGrow
      <4>. QED BY <1>r, <2>3, <4>1 DEF FloorInvariant, FloorExclusive, SpeakerHoldsFloor
    <3>9. OneTurnInFlight'
      <4>1. ~Speaking(Peer(p))'
        BY <3>7 DEF Speaking
      <4>2. \A q \in Roles : ~HoldsFloor(q)'
        BY <1>d, <1>y, <2>3, <3>4
      <4>3. \A q \in Roles : ~Carries(wire'[q], "SEND") /\ SingleAt(tasks'[q], "applyTurn")
        BY <1>d, <3>7 DEF SingleAt, At
      <4>4. ~(Speaking("caller")' /\ Speaking("callee")')
        BY <4>1 DEF Roles, Peer
      <4>. QED BY <1>r, <4>2, <4>3, <4>4 DEF OneTurnInFlight, SingleIn, Carries
    <3>10. TurnKept
      <4>1. \A q \in Roles : Speaking(q)' => Speaking(q)
        BY <1>d, <3>4, <3>7 DEF Speaking
      <4>. QED BY <2>2, <2>3, <4>1 DEF TurnKept, SameRecords
    <3>. QED BY <3>5, <3>6, <3>8, <3>9, <3>10 DEF FloorInvariant
  <2>. QED BY <2>4, <2>5
<1>4. ASSUME NEW p \in Roles, NEW t \in tasks[p], ApplyTurn(p, t)
      PROVE  FloorInvariant' /\ TurnHeard(p)
  <2>1. t.next = "applyTurn" /\ At(tasks[p], "applyTurn") /\ outcome # "none" /\ Known(p) /\ ~Inviting
    BY <1>4, TaskMeans DEF ApplyTurn
  <2>2. Speaking(p)
    BY <2>1 DEF Speaking
  <2>3. /\ SuspendAgain(p, t, "emitMessage") /\ "emitMessage" # t.next
        /\ floor' = [floor EXCEPT ![p] = p]
        /\ UNCHANGED <<state, wire, firstFloor, outcome>>
    BY <1>4, <2>1 DEF ApplyTurn, FloorAfterHearing
  <2>4. TasksGrow(p, {"emitMessage"}) /\ WireGrows(Peer(p), {})
    BY <2>3, Growth
  <2>5. \A q \in Roles : Known(q)' <=> Known(q)
    BY <2>3 DEF Known
  <2>6. \A q \in Roles : /\ ~Carries(wire[q], "SEND")
                         /\ q # p => ~At(tasks[q], "applyTurn") /\ ~HoldsFloor(q)
    BY <1>d, <1>y, <2>1, <2>2, PeerIsRole DEF Speaking
  <2>7. \A q \in Roles : ~At(tasks'[q], "applyTurn") /\ ~Carries(wire'[q], "SEND")
    <3>1. ~At(tasks'[p], "applyTurn")
      BY <1>y, <2>1, <2>2, <2>3, SuspendAgainEffect
    <3>. QED BY <1>m, <2>3, <2>4, <2>6, <3>1 DEF TasksGrow
  <2>8. \A q \in Roles : q # p => ~HoldsFloor(q)'
    <3>1. \A q \in Roles : q # p => floor'[q] = floor[q]
      BY <2>3 DEF TypeOK
    <3>. QED BY <2>5, <2>6, <3>1 DEF HoldsFloor
  <2>9. FloorExclusive'
    BY <1>r, <2>8 DEF FloorExclusive
  <2>10. OneTurnInFlight'
    BY <1>r, <2>7 DEF OneTurnInFlight, Speaking, SingleIn, Carries, SingleAt, At
  <2>11. SpeakerHoldsFloor'
    <3>1. \A q \in Roles : ~At(tasks[q], "sendTurn")
      BY <1>d, <1>y, <2>2, PeerIsRole DEF FloorInvariant, SpeakerHoldsFloor
    <3>2. \A q \in Roles : ~At(tasks'[q], "sendTurn")
      BY <1>m, <2>4, <3>1 DEF TasksGrow
    <3>. QED BY <3>2 DEF SpeakerHoldsFloor, SingleAt, At
  <2>12. TasksHaveRecord' /\ NothingBeforeInvite'
    BY <2>1, <2>3, <2>4, <2>5, KeepsRecords
  <2>13. OneInvite' /\ NobodySpeaksBeforeRinging'
    BY <2>1, <2>4, KeepsInvite DEF InviteSteps
  <2>14. TurnHeard(p)
    <3>1. floor'[p] = p
      BY <2>3 DEF TypeOK
    <3>2. HoldsFloor(p)'
      BY <2>1, <2>5, <3>1 DEF HoldsFloor
    <3>. QED BY <2>2, <2>3, <2>5, <2>7, <3>2 DEF TurnHeard, SameRecords, Speaking
  <2>. QED BY <2>9, <2>10, <2>11, <2>12, <2>13, <2>14 DEF FloorInvariant
<1>. QED BY <1>1, <1>2, <1>3, <1>4

---------------------------------------------------------------------------
(* The faults, and the theorem.                                            *)

LEMMA CrashStep ==
  ASSUME TypeOK, FloorInvariant, NEW p \in Roles, Crash(p)
  PROVE  FloorInvariant'
<1>. USE DEF record, link, promise, bounds
<1>r. "caller" \in Roles /\ "callee" \in Roles
  BY DEF Roles
<1>m. {"sendTurn", "applyTurn"} \subseteq Steps /\ "SEND" \in FrameTypes
  BY DEF Steps, ClientSteps, HandlerSteps, FrameTypes
<1>1. /\ \A q \in Roles : tasks'[q] = IF q = p THEN {} ELSE tasks[q]
      /\ \A q \in Roles : wire'[q] = IF q = p THEN <<>> ELSE wire[q]
      /\ \A q \in Roles : state'[q] = IF q # p THEN state[q]
                                      ELSE IF state[q] = "NONE" THEN "NONE" ELSE "LOST"
      /\ UNCHANGED <<floor, firstFloor>>
  BY DEF Crash, TypeOK
<1>2. outcome' = "none" => outcome = "none"
  BY DEF Crash
<1>3. TasksGrow(p, {}) /\ WireGrows(Peer(p), {})
  BY <1>1, EmptyContents DEF TasksGrow, WireGrows, At, SingleAt
<1>4. /\ ~Known(p)'
      /\ \A q \in Roles : (Known(q)' => Known(q)) /\ (q # p => (Known(q) => Known(q)'))
      /\ \A q \in Roles : (HoldsFloor(q)' => HoldsFloor(q)) /\ (q # p => (HoldsFloor(q) => HoldsFloor(q)'))
  BY <1>1 DEF Known, HoldsFloor
<1>5. \A q \in Roles :
        /\ \A step \in Steps : /\ At(tasks'[q], step) => At(tasks[q], step) /\ q # p
                               /\ SingleAt(tasks[q], step) => SingleAt(tasks'[q], step)
        /\ \A type \in FrameTypes : /\ Carries(wire'[q], type) => Carries(wire[q], type)
                                    /\ SingleIn(wire[q], type) => SingleIn(wire'[q], type)
  BY <1>1, EmptyContents DEF At, SingleAt
<1>6. TasksHaveRecord'
  BY <1>4, <1>5 DEF FloorInvariant, TasksHaveRecord
<1>7. NothingBeforeInvite'
  BY <1>1, <1>2, <1>5 DEF FloorInvariant, NothingBeforeInvite
<1>8. FloorExclusive' /\ SpeakerHoldsFloor'
  BY <1>r, <1>m, <1>4, <1>5 DEF FloorInvariant, FloorExclusive, SpeakerHoldsFloor
<1>9. OneTurnInFlight'
  BY <1>r, <1>m, <1>4, <1>5 DEF FloorInvariant, OneTurnInFlight, Speaking
<1>10. OneInvite' /\ NobodySpeaksBeforeRinging'
  <2>1. Inviting => state'["caller"] \in {"DIALING", "CLOSING", "CLOSED", "LOST"}
    BY <1>r, <1>1 DEF FloorInvariant, NobodySpeaksBeforeRinging
  <2>2. Inviting => state'["callee"] = state["callee"]
    BY <1>r, <1>1 DEF FloorInvariant, NobodySpeaksBeforeRinging
  <2>. QED BY <1>r, <1>1, <1>3, <2>1, <2>2, KeepsInvite
<1>. QED BY <1>6, <1>7, <1>8, <1>9, <1>10 DEF FloorInvariant

LEMMA FloorStep == Serial /\ TypeOK /\ FloorInvariant /\ [Next]_vars => FloorInvariant'
<1>. SUFFICES ASSUME Serial, TypeOK, FloorInvariant, [Next]_vars PROVE FloorInvariant'
  OBVIOUS
<1>0. ASSUME UNCHANGED <<state, floor, tasks, wire, outcome, firstFloor>> PROVE FloorInvariant'
  <2>1. \A p \in Roles : (Known(p)' <=> Known(p)) /\ (HoldsFloor(p)' <=> HoldsFloor(p))
                         /\ (Speaking(p)' <=> Speaking(p))
    BY <1>0 DEF Known, HoldsFloor, Speaking
  <2>2. "caller" \in Roles /\ "callee" \in Roles
    BY DEF Roles
  <2>3. TasksHaveRecord' /\ NothingBeforeInvite' /\ FloorExclusive' /\ SpeakerHoldsFloor'
    BY <1>0, <2>1, <2>2
       DEF FloorInvariant, TasksHaveRecord, NothingBeforeInvite, FloorExclusive, SpeakerHoldsFloor
  <2>4. OneTurnInFlight'
    BY <1>0, <2>1, <2>2 DEF FloorInvariant, OneTurnInFlight
  <2>5. OneInvite' /\ NobodySpeaksBeforeRinging'
    BY <1>0, <2>1, <2>2 DEF FloorInvariant, OneInvite, NobodySpeaksBeforeRinging, Inviting,
                           InviteUnsent, InviteInFlight, InviteTaken
  <2>. QED BY <2>3, <2>4, <2>5 DEF FloorInvariant
<1>1. ASSUME NEW p \in Roles, Client(p) PROVE FloorInvariant'
  BY <1>1, OrdinaryRequests, InvitingSteps, SpeakingSteps DEF Client
<1>2. ASSUME NEW p \in Roles, Receive(p) PROVE FloorInvariant'
  BY <1>2, OrdinaryRequests, InvitingSteps, SpeakingSteps DEF Receive
<1>3. ASSUME NEW p \in Roles, Resume(p) PROVE FloorInvariant'
  <2>1. PICK t \in tasks[p] :
          \/ p = "caller" /\ (NumberInvite(t) \/ SendInvite(t))
          \/ p = "callee" /\ (SendAccept(t) \/ SendDeny(t))
          \/ Refuse(p, t) \/ Ring(p, t)
          \/ ApplyAccepted(p, t) \/ ApplyRejected(p, t)
          \/ SendTurn(p, t) \/ ApplyTurn(p, t)
          \/ SendPause(p, t) \/ ApplyPause(p, t)
          \/ SendInject(p, t) \/ SendEnd(p, t) \/ ApplyEnd(p, t)
          \/ Emit(p, t)
    BY <1>3 DEF Resume
  <2>. QED BY <2>1, OrdinaryResumes, InvitingSteps, SpeakingSteps
<1>4. ASSUME Break \/ Reconnect \/ UNCHANGED vars PROVE FloorInvariant'
  BY <1>0, <1>4 DEF Break, Reconnect, record, promise, bounds, vars
<1>5. ASSUME InviteTimeout \/ \E p \in Roles : NoticeClose(p) PROVE FloorInvariant'
  BY <1>5, OrdinaryRequests
<1>6. ASSUME NEW p \in Roles, Crash(p) PROVE FloorInvariant'
  BY <1>6, CrashStep
<1>. QED BY <1>1, <1>2, <1>3, <1>4, <1>5, <1>6 DEF Next, Fault

\* When every client waits for its answer before it asks again, the inductive
\* strengthening of the floor's exclusiveness holds in every state.
THEOREM FloorInvariantHolds == Serial => (Spec => []FloorInvariant)
<1>1. ASSUME Init PROVE FloorInvariant
  <2>1. \A p \in Roles : /\ state[p] = "NONE" /\ ~Known(p) /\ ~HoldsFloor(p)
                         /\ \A step : ~At(tasks[p], step) /\ SingleAt(tasks[p], step)
                         /\ \A type : ~Carries(wire[p], type) /\ SingleIn(wire[p], type)
                         /\ floor[p] = firstFloor
    BY <1>1, EmptyContents DEF Init, Known, HoldsFloor, At, SingleAt
  <2>2. "caller" \in Roles /\ "callee" \in Roles
    BY DEF Roles
  <2>3. TasksHaveRecord /\ NothingBeforeInvite /\ FloorExclusive /\ SpeakerHoldsFloor
    BY <2>1, <2>2
       DEF TasksHaveRecord, NothingBeforeInvite, FloorExclusive, SpeakerHoldsFloor
  <2>4. OneTurnInFlight
    BY <2>1, <2>2 DEF OneTurnInFlight, Speaking
  <2>5. OneInvite /\ ~Inviting
    BY <2>1, <2>2 DEF OneInvite, Inviting, InviteUnsent, InviteInFlight, InviteTaken
  <2>. QED BY <2>3, <2>4, <2>5 DEF FloorInvariant, NobodySpeaksBeforeRinging
<1>2. Serial \in BOOLEAN
  BY ConstantsAssumption DEF ConstantsAssumption
<1>. SUFFICES ASSUME Serial PROVE Spec => []FloorInvariant
  OBVIOUS
<1>3. TypeOK /\ FloorInvariant /\ [Next]_vars => FloorInvariant'
  BY FloorStep
<1>. QED BY <1>1, <1>3, CallTypeCorrect, PTL DEF Spec

\* The two sides of a call never both believe that they have the floor, when
\* every client waits for its answer before it asks again.
THEOREM FloorIsExclusive == Serial => (Spec => []FloorExclusive)
<1>1. FloorInvariant => FloorExclusive
  BY DEF FloorInvariant
<1>. QED BY <1>1, FloorInvariantHolds, PTL
============================================================================
