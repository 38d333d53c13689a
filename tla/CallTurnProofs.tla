--------------------------- MODULE CallTurnProofs ---------------------------
(***************************************************************************)
(* The two records of a call and what is in flight between them take turns *)
(* (Call implements TurnTaking), for every value of the constants.         *)
(***************************************************************************)
EXTENDS CallFloorProofs

\* The abstract turn and the abstract flight, as Turn's substitutions name them.
Begun == state[firstFloor] # "NONE"

Holder == IF HoldsFloor("caller") THEN "caller"
          ELSE IF HoldsFloor("callee") THEN "callee" ELSE "nobody"

Flight == IF Speaking("caller") THEN "caller"
          ELSE IF Speaking("callee") THEN "callee" ELSE "nobody"

LEMMA HolderIs ==
  ASSUME FloorInvariant
  PROVE  /\ \A p \in Roles : HoldsFloor(p) <=> Holder = p
         /\ \A p \in Roles : Speaking(p) <=> Flight = p
         /\ Holder \in Roles \cup {"nobody"} /\ Flight \in Roles \cup {"nobody"}
         /\ Flight # "nobody" => Holder = "nobody"
         /\ "nobody" \notin Roles
<1>. "caller" \in Roles /\ "callee" \in Roles /\ "nobody" \notin Roles
     /\ \A p \in Roles : p = "caller" \/ p = "callee"
  BY DEF Roles
<1>. QED BY DEF FloorInvariant, FloorExclusive, OneTurnInFlight, Holder, Flight

\* The same of the next state.
LEMMA HolderIsNext ==
  ASSUME FloorInvariant'
  PROVE  /\ \A p \in Roles : HoldsFloor(p)' <=> Holder' = p
         /\ \A p \in Roles : Speaking(p)' <=> Flight' = p
         /\ Holder' \in Roles \cup {"nobody"} /\ Flight' \in Roles \cup {"nobody"}
<1>. "caller" \in Roles /\ "callee" \in Roles /\ "nobody" \notin Roles
     /\ \A p \in Roles : p = "caller" \/ p = "callee"
  BY DEF Roles
<1>. QED BY DEF FloorInvariant, FloorExclusive, OneTurnInFlight, Holder, Flight

\* A crash takes p's record, p's handlers and what is on its way to p.
TurnForgotten(p) ==
  /\ firstFloor' = firstFloor
  /\ \A q \in Roles : state'[q] = "NONE" <=> state[q] = "NONE"
  /\ ~HoldsFloor(p)' /\ ~Speaking(p)'
  /\ \A q \in Roles : q # p => (HoldsFloor(q)' <=> HoldsFloor(q)) /\ (Speaking(q)' <=> Speaking(q))

\* What a step does to the turn.
TurnStep ==
  \/ TurnKept
  \/ \E p \in Roles : RecordMade(p) \/ TurnSent(p) \/ TurnHeard(p) \/ TurnForgotten(p)

LEMMA CrashForgets ==
  ASSUME TypeOK, NEW p \in Roles, Crash(p)
  PROVE  TurnForgotten(p)
<1>1. /\ \A q \in Roles : tasks'[q] = IF q = p THEN {} ELSE tasks[q]
      /\ \A q \in Roles : wire'[q] = IF q = p THEN <<>> ELSE wire[q]
      /\ \A q \in Roles : state'[q] = IF q # p THEN state[q]
                                      ELSE IF state[q] = "NONE" THEN "NONE" ELSE "LOST"
      /\ UNCHANGED <<floor, firstFloor>>
  BY DEF Crash, TypeOK
<1>2. ~HoldsFloor(p)' /\ ~Speaking(p)'
  BY <1>1, EmptyContents DEF HoldsFloor, Known, Speaking, At
<1>. QED BY <1>1, <1>2 DEF TurnForgotten, HoldsFloor, Known, Speaking

LEMMA StepOfTurn ==
  ASSUME Serial, TypeOK, FloorInvariant, [Next]_vars
  PROVE  TurnStep
<1>0. ASSUME UNCHANGED <<state, floor, tasks, wire, firstFloor>> PROVE TurnStep
  BY <1>0 DEF TurnStep, TurnKept, SameRecords, Known, HoldsFloor, Speaking
<1>1. ASSUME NEW p \in Roles, Client(p) PROVE TurnStep
  <2>1. Invite => RecordMade("caller") /\ "caller" \in Roles
    BY InvitingSteps DEF Roles
  <2>. QED BY <1>1, <2>1, OrdinaryRequests, SpeakingSteps DEF Client, TurnStep
<1>2. ASSUME NEW p \in Roles, Receive(p) PROVE TurnStep
  BY <1>2, OrdinaryRequests, InvitingSteps, SpeakingSteps DEF Receive, TurnStep
<1>3. ASSUME NEW p \in Roles, Resume(p) PROVE TurnStep
  <2>1. PICK t \in tasks[p] :
          \/ p = "caller" /\ (NumberInvite(t) \/ SendInvite(t))
          \/ p = "callee" /\ (SendAccept(t) \/ SendDeny(t))
          \/ Refuse(p, t) \/ Ring(p, t)
          \/ ApplyAccepted(p, t) \/ ApplyRejected(p, t)
          \/ SendTurn(p, t) \/ ApplyTurn(p, t)
          \/ SendPause(p, t) \/ ApplyPause(p, t)
          \/ SendInject(p, t) \/ SendEnd(p, t) \/ ApplyEnd(p, t)
          \/ Emit(p, t)
    BY <1>3 DEF Resume
  <2>. QED BY <2>1, OrdinaryResumes, InvitingSteps, SpeakingSteps DEF TurnStep
<1>4. ASSUME Break \/ Reconnect \/ UNCHANGED vars PROVE TurnStep
  BY <1>0, <1>4 DEF Break, Reconnect, record, promise, bounds, vars
<1>5. ASSUME InviteTimeout \/ \E p \in Roles : NoticeClose(p) PROVE TurnStep
  BY <1>5, OrdinaryRequests DEF TurnStep
<1>6. ASSUME NEW p \in Roles, Crash(p) PROVE TurnStep
  BY <1>6, CrashForgets DEF TurnStep
<1>. QED BY <1>1, <1>2, <1>3, <1>4, <1>5, <1>6 DEF Next, Fault

\* Turn!TurnNext, with the substitutions written out.
AbstractNext ==
  \/ \E p \in Roles :
       \/ ~Begun /\ Begun' = TRUE /\ Holder' = p /\ Flight' = Flight
       \/ Flight = p /\ Flight' = "nobody" /\ Holder' = p /\ Begun' = Begun
  \/ \E p, q \in Roles :
       /\ p # q
       /\ Holder = p /\ Holder' = "nobody" /\ Flight' \in {q, "nobody"} /\ Begun' = Begun
  \/ Flight # "nobody" /\ Flight' = "nobody" /\ Begun' = Begun /\ Holder' = Holder
  \/ Holder # "nobody" /\ Holder' = "nobody" /\ Begun' = Begun /\ Flight' = Flight
  \/ Begun' = Begun /\ Holder' = Holder /\ Flight' = Flight

\* Every step of a call is a step of the abstract turn, or leaves it alone.
LEMMA TurnRefined ==
  ASSUME TypeOK, FloorInvariant, FloorInvariant', TurnStep
  PROVE  AbstractNext
<1>d. \A p, q \in Roles : q = p \/ q = Peer(p)
  BY DEF Roles, Peer
<1>p. \A p \in Roles : Peer(p) \in Roles /\ Peer(p) # p
  BY DEF Roles, Peer
<1>f. firstFloor \in Roles
  BY DEF TypeOK
<1>h. /\ \A p \in Roles : HoldsFloor(p) <=> Holder = p
      /\ \A p \in Roles : Speaking(p) <=> Flight = p
      /\ Holder \in Roles \cup {"nobody"} /\ Flight \in Roles \cup {"nobody"}
      /\ Flight # "nobody" => Holder = "nobody"
      /\ "nobody" \notin Roles
  BY HolderIs
<1>n. /\ \A p \in Roles : HoldsFloor(p)' <=> Holder' = p
      /\ \A p \in Roles : Speaking(p)' <=> Flight' = p
      /\ Holder' \in Roles \cup {"nobody"} /\ Flight' \in Roles \cup {"nobody"}
  BY HolderIsNext
<1>1. CASE TurnKept
  <2>1. Begun' = Begun
    BY <1>1, <1>f DEF TurnKept, SameRecords, Begun
  <2>2. Holder' = Holder
    BY <1>1, <1>h, <1>n DEF TurnKept
  <2>3. Flight' = Flight \/ (Flight # "nobody" /\ Flight' = "nobody")
    BY <1>1, <1>h, <1>n DEF TurnKept
  <2>. QED BY <2>1, <2>2, <2>3 DEF AbstractNext
<1>2. ASSUME NEW p \in Roles, RecordMade(p) PROVE AbstractNext
  <2>1. Flight' = Flight
    BY <1>2, <1>h, <1>n DEF RecordMade
  <2>2. CASE firstFloor = p
    <3>1. ~Begun /\ Begun' = TRUE
      BY <1>2, <2>2 DEF RecordMade, Begun, Known
    <3>2. Holder' = p
      BY <1>2, <1>n, <2>2 DEF RecordMade, HoldsFloor
    <3>. QED BY <2>1, <3>1, <3>2 DEF AbstractNext
  <2>3. CASE firstFloor # p
    <3>1. Begun' = Begun
      BY <1>2, <1>f, <2>3 DEF RecordMade, Begun
    <3>2. ~HoldsFloor(p) /\ ~HoldsFloor(p)'
      BY <1>2, <2>3 DEF RecordMade, HoldsFloor, Known
    <3>3. \A q \in Roles : HoldsFloor(q)' <=> HoldsFloor(q)
      BY <1>2, <3>2 DEF RecordMade
    <3>4. Holder' = Holder
      BY <1>h, <1>n, <3>3
    <3>. QED BY <2>1, <3>1, <3>4 DEF AbstractNext
  <2>. QED BY <2>2, <2>3
<1>3. ASSUME NEW p \in Roles, TurnSent(p) PROVE AbstractNext
  <2>1. Begun' = Begun
    BY <1>3, <1>f DEF TurnSent, SameRecords, Begun
  <2>2. Holder = p /\ Holder' = "nobody"
    BY <1>3, <1>h, <1>n DEF TurnSent
  <2>3. Flight' \in {Peer(p), "nobody"}
    BY <1>3, <1>d, <1>n DEF TurnSent
  <2>. QED BY <1>p, <2>1, <2>2, <2>3 DEF AbstractNext
<1>4. ASSUME NEW p \in Roles, TurnHeard(p) PROVE AbstractNext
  <2>1. Begun' = Begun
    BY <1>4, <1>f DEF TurnHeard, SameRecords, Begun
  <2>2. Flight = p /\ Flight' = "nobody" /\ Holder' = p
    BY <1>4, <1>h, <1>n DEF TurnHeard
  <2>. QED BY <2>1, <2>2 DEF AbstractNext
<1>5. ASSUME NEW p \in Roles, TurnForgotten(p) PROVE AbstractNext
  <2>1. Begun' = Begun
    BY <1>5, <1>f DEF TurnForgotten, Begun
  <2>2. Holder' = IF Holder = p THEN "nobody" ELSE Holder
    BY <1>5, <1>h, <1>n DEF TurnForgotten
  <2>3. Flight' = IF Flight = p THEN "nobody" ELSE Flight
    BY <1>5, <1>h, <1>n DEF TurnForgotten
  <2>4. ~(Holder = p /\ Flight = p)
    BY <1>h
  <2>. QED BY <1>h, <2>1, <2>2, <2>3, <2>4 DEF AbstractNext
<1>. QED BY <1>1, <1>2, <1>3, <1>4, <1>5 DEF TurnStep

\* A call implements the turn discipline, when every client waits for its
\* answer before it asks again: the turn of floor, of the suspended sends and
\* of the frames in flight is passed, lost or forgotten, never doubled.
THEOREM CallTakesTurns == Serial => (Spec => TakesTurns)
<1>1. ASSUME Init PROVE Turn!TurnInit
  <2>1. \A p \in Roles : state[p] = "NONE" /\ wire[p] = <<>> /\ tasks[p] = {}
    BY <1>1 DEF Init
  <2>2. firstFloor \in Roles
    BY <1>1, ConstantsAssumption DEF Init, ConstantsAssumption
  <2>3. \A p \in Roles : ~HoldsFloor(p) /\ ~Speaking(p)
    BY <2>1, EmptyContents DEF HoldsFloor, Known, Speaking, At
  <2>4. "caller" \in Roles /\ "callee" \in Roles
    BY DEF Roles
  <2>. QED BY <2>1, <2>2, <2>3, <2>4 DEF Turn!TurnInit
<1>2. ASSUME Serial, TypeOK, FloorInvariant, FloorInvariant', [Next]_vars
      PROVE  [Turn!TurnNext]_(Turn!ttvars)
  <2>1. AbstractNext
    BY <1>2, StepOfTurn, TurnRefined
  <2>. QED BY <2>1 DEF AbstractNext, Begun, Holder, Flight, Turn!TurnNext, Turn!ttvars,
                       Turn!Begin, Turn!Hear, Turn!SpeakTo, Turn!Lose, Turn!Forget
<1>3. Serial \in BOOLEAN
  BY ConstantsAssumption DEF ConstantsAssumption
<1>. SUFFICES ASSUME Serial PROVE Spec => TakesTurns
  OBVIOUS
<1>. QED BY <1>1, <1>2, CallTypeCorrect, FloorInvariantHolds, PTL
     DEF Spec, TakesTurns, Turn!TurnSpec

---------------------------------------------------------------------------
(* Turn messages are applied in the order of their numbers: what an INVITE *)
(* or a turn message on its way says of the counters at both sides.        *)

\* A handler among ts is at this step with this number; a frame of s has this
\* type and number.
Waits(ts, step, n) == \E t \in ts : t.next = step /\ t.seq = n
Brings(s, type, n) == \E i \in 1..Len(s) : s[i].type = type /\ s[i].seq = n

\* A number that p has given out, and that its peer is still to take.
Due(p, n) == seqIn[Peer(p)] <= n /\ n <= seqOut[p]

\* The number of a turn message of p, and of the invite, on its way.
TurnNumber(p, n) ==
  \/ Waits(tasks[p], "sendTurn", n)
  \/ Brings(wire[Peer(p)], "SEND", n)
  \/ Waits(tasks[Peer(p)], "applyTurn", n)
InviteNumber(n) ==
  \/ Waits(tasks["caller"], "sendInvite", n)
  \/ Brings(wire["callee"], "INVITE", n)
  \/ Waits(tasks["callee"], "ring", n)

OrderInvariant ==
  /\ \A p \in Roles : seqIn[p] <= seqOut[Peer(p)]
  /\ \A p \in Roles, n \in Nat : TurnNumber(p, n) => Due(p, n)
  /\ \A n \in Nat : InviteNumber(n) => n <= seqOut["caller"]
  /\ state["callee"] = "NONE" =>
       /\ seqIn["caller"] = 0 /\ seqIn["callee"] = 0 /\ seqOut["callee"] = 0
       /\ \A n \in Nat : /\ ~Brings(wire["caller"], "SEND", n)
                        /\ ~Waits(tasks["caller"], "applyTurn", n)

TurnSteps == {"sendInvite", "ring", "sendTurn", "applyTurn"}
TurnFrames == {"INVITE", "SEND"}

\* A step that adds no numbered handler, and no numbered frame.
TasksQuiet ==
  \A q \in Roles, step \in TurnSteps, n \in Nat : Waits(tasks'[q], step, n) => Waits(tasks[q], step, n)
WiresQuiet ==
  \A q \in Roles, type \in TurnFrames, n \in Nat : Brings(wire'[q], type, n) => Brings(wire[q], type, n)

\* A step that takes no number, and gives none out for a record that is not there.
CountersQuiet ==
  /\ seqIn' = seqIn
  /\ \A q \in Roles : seqOut[q] <= seqOut'[q]
  /\ state'["callee"] = "NONE" => state["callee"] = "NONE" /\ seqOut'["callee"] = seqOut["callee"]

LEMMA BringsMore ==
  ASSUME NEW s \in Seq(Frames), NEW f \in Frames
  PROVE  \A type, n : Brings(Append(s, f), type, n) => Brings(s, type, n) \/ (f.type = type /\ f.seq = n)
<1>. DEFINE r == Append(s, f)
<1>1. /\ Len(r) = Len(s) + 1 /\ Len(s) \in Nat
      /\ r[Len(s) + 1] = f
      /\ \A i \in 1..Len(s) : r[i] = s[i]
  OBVIOUS
<1>2. \A i \in 1..Len(r) : i \in 1..Len(s) \/ i = Len(s) + 1
  BY <1>1
<1>. HIDE DEF r
<1>3. \A type, n : Brings(r, type, n) => Brings(s, type, n) \/ (f.type = type /\ f.seq = n)
  BY <1>1, <1>2 DEF Brings
<1>. QED BY <1>3 DEF r

LEMMA BringsLess ==
  ASSUME NEW s \in Seq(Frames), s # <<>>
  PROVE  /\ Brings(s, Head(s).type, Head(s).seq)
         /\ \A type, n : Brings(Tail(s), type, n) => Brings(s, type, n)
<1>. DEFINE r == Tail(s)
<1>1. /\ Len(s) = Len(r) + 1 /\ Len(r) \in Nat
      /\ s[1] = Head(s)
      /\ \A i \in 1..Len(r) : r[i] = s[i + 1]
  OBVIOUS
<1>2. 1 \in 1..Len(s) /\ \A i \in 1..Len(r) : i + 1 \in 1..Len(s)
  BY <1>1
<1>. HIDE DEF r
<1>3. Brings(s, Head(s).type, Head(s).seq)
  BY <1>1, <1>2 DEF Brings
<1>4. \A type, n : Brings(r, type, n) => Brings(s, type, n)
  BY <1>1, <1>2 DEF Brings
<1>. QED BY <1>3, <1>4 DEF r

\* What the operators that move handlers do to their numbers.
LEMMA TaskNumbers ==
  ASSUME TypeOK, NEW p \in Roles
  PROVE  /\ \A next, k : Suspend(p, next, k) =>
              \A q \in Roles : \A step, n :
                Waits(tasks'[q], step, n) => Waits(tasks[q], step, n) \/ (q = p /\ step = next /\ n = k)
         /\ \A t \in tasks[p] : Finish(p, t) =>
              \A q \in Roles : \A step, n : Waits(tasks'[q], step, n) => Waits(tasks[q], step, n)
         /\ \A t \in tasks[p] : \A next : SuspendAgain(p, t, next) =>
              \A q \in Roles : \A step, n :
                Waits(tasks'[q], step, n) => Waits(tasks[q], step, n) \/ (q = p /\ step = next)
<1>1. ASSUME NEW next, NEW k, Suspend(p, next, k), NEW q \in Roles, NEW step, NEW n,
             Waits(tasks'[q], step, n)
      PROVE  Waits(tasks[q], step, n) \/ (q = p /\ step = next /\ n = k)
  <2>. DEFINE u == [next |-> next, seq |-> k, open |-> TRUE]
  <2>1. tasks'[q] = IF q = p THEN tasks[q] \cup {u} ELSE tasks[q]
    BY <1>1 DEF Suspend, TypeOK
  <2>2. u.next = next /\ u.seq = k
    OBVIOUS
  <2>. HIDE DEF u
  <2>. QED BY <1>1, <2>1, <2>2 DEF Waits
<1>2. ASSUME NEW t \in tasks[p], Finish(p, t), NEW q \in Roles, NEW step, NEW n,
             Waits(tasks'[q], step, n)
      PROVE  Waits(tasks[q], step, n)
  <2>1. tasks'[q] \subseteq tasks[q]
    BY <1>2 DEF Finish, TypeOK
  <2>. QED BY <1>2, <2>1 DEF Waits
<1>3. ASSUME NEW t \in tasks[p], NEW next, SuspendAgain(p, t, next), NEW q \in Roles, NEW step, NEW n,
             Waits(tasks'[q], step, n)
      PROVE  Waits(tasks[q], step, n) \/ (q = p /\ step = next)
  <2>. DEFINE u == [t EXCEPT !.next = next]
  <2>1. tasks'[q] = IF q = p THEN (tasks[q] \ {t}) \cup {u} ELSE tasks[q]
    BY <1>3 DEF SuspendAgain, TypeOK
  <2>2. u.next = next
    BY DEF TypeOK, Tasks
  <2>. HIDE DEF u
  <2>. QED BY <1>3, <2>1, <2>2 DEF Waits
<1>. QED BY <1>1, <1>2, <1>3

\* What the operators that move frames do to their numbers.
LEMMA FrameNumbers ==
  ASSUME TypeOK, NEW p \in Roles
  PROVE  /\ \A f \in Frames : Transmit(p, f) =>
              \A q \in Roles : \A type, n :
                Brings(wire'[q], type, n)
                  => Brings(wire[q], type, n) \/ (q = Peer(p) /\ type = f.type /\ n = f.seq)
         /\ wire[p] # <<>> /\ Consume(p) =>
              \A q \in Roles : \A type, n : Brings(wire'[q], type, n) => Brings(wire[q], type, n)
         /\ \A f \in Frames : wire[p] # <<>> /\ ConsumeAndReply(p, f) =>
              \A q \in Roles : \A type, n :
                Brings(wire'[q], type, n)
                  => Brings(wire[q], type, n) \/ (q = Peer(p) /\ type = f.type /\ n = f.seq)
<1>1. \A q \in Roles : wire[q] \in Seq(Frames)
  BY DEF TypeOK
<1>2. ASSUME NEW f \in Frames, Transmit(p, f), NEW q \in Roles, NEW type, NEW n,
             Brings(wire'[q], type, n)
      PROVE  Brings(wire[q], type, n) \/ (q = Peer(p) /\ type = f.type /\ n = f.seq)
  <2>1. wire'[q] = wire[q] \/ (q = Peer(p) /\ wire'[q] = Append(wire[q], f))
    BY <1>2 DEF Transmit, TypeOK
  <2>2. Brings(Append(wire[q], f), type, n) => Brings(wire[q], type, n) \/ (f.type = type /\ f.seq = n)
    BY <1>1, BringsMore
  <2>. QED BY <1>2, <2>1, <2>2
<1>3. ASSUME wire[p] # <<>>, Consume(p), NEW q \in Roles, NEW type, NEW n, Brings(wire'[q], type, n)
      PROVE  Brings(wire[q], type, n)
  <2>1. wire'[q] = wire[q] \/ (q = p /\ wire'[q] = Tail(wire[q]))
    BY <1>3 DEF Consume, TypeOK
  <2>. QED BY <1>1, <1>3, <2>1, BringsLess
<1>4. ASSUME NEW f \in Frames, wire[p] # <<>>, ConsumeAndReply(p, f),
             NEW q \in Roles, NEW type, NEW n, Brings(wire'[q], type, n)
      PROVE  Brings(wire[q], type, n) \/ (q = Peer(p) /\ type = f.type /\ n = f.seq)
  <2>1. \/ wire'[q] = wire[q]
        \/ q = p /\ wire'[q] = Tail(wire[q])
        \/ q = Peer(p) /\ wire'[q] = Append(wire[q], f)
    BY <1>4, PeerIsRole DEF ConsumeAndReply, TypeOK, Roles, Peer
  <2>2. Brings(Append(wire[q], f), type, n) => Brings(wire[q], type, n) \/ (f.type = type /\ f.seq = n)
    BY <1>1, BringsMore
  <2>3. wire[p] # <<>> /\ Brings(Tail(wire[p]), type, n) => Brings(wire[p], type, n)
    BY <1>1, BringsLess
  <2>. QED BY <1>4, <2>1, <2>2, <2>3
<1>. QED BY <1>2, <1>3, <1>4

\* In particular, what adds no numbered handler or frame.
LEMMA QuietTasks ==
  ASSUME TypeOK, NEW p \in Roles
  PROVE  /\ \A next, k : Suspend(p, next, k) /\ next \notin TurnSteps => TasksQuiet
         /\ \A t \in tasks[p] : Finish(p, t) => TasksQuiet
         /\ \A t \in tasks[p] : \A next : SuspendAgain(p, t, next) /\ next \notin TurnSteps => TasksQuiet
         /\ UNCHANGED tasks => TasksQuiet
<1>1. ASSUME NEW next, NEW k, Suspend(p, next, k), next \notin TurnSteps PROVE TasksQuiet
  BY <1>1, TaskNumbers DEF TasksQuiet
<1>2. ASSUME NEW t \in tasks[p], Finish(p, t) PROVE TasksQuiet
  BY <1>2, TaskNumbers DEF TasksQuiet
<1>3. ASSUME NEW t \in tasks[p], NEW next, SuspendAgain(p, t, next), next \notin TurnSteps PROVE TasksQuiet
  BY <1>3, TaskNumbers DEF TasksQuiet
<1>4. UNCHANGED tasks => TasksQuiet
  BY DEF TasksQuiet
<1>. QED BY <1>1, <1>2, <1>3, <1>4

LEMMA QuietWires ==
  ASSUME TypeOK, NEW p \in Roles
  PROVE  /\ \A type \in FrameTypes \ TurnFrames, k \in Nat : Transmit(p, Frame(type, k)) => WiresQuiet
         /\ wire[p] # <<>> /\ Consume(p) => WiresQuiet
         /\ wire[p] # <<>> /\ ConsumeAndReply(p, Frame("ERROR", 0)) => WiresQuiet
         /\ SendTimeoutEnd(p) => WiresQuiet
         /\ UNCHANGED wire => WiresQuiet
<1>1. ASSUME NEW type \in FrameTypes \ TurnFrames, NEW k \in Nat, Transmit(p, Frame(type, k))
      PROVE  WiresQuiet
  <2>1. Frame(type, k) \in Frames /\ Frame(type, k).type = type
    BY FrameType DEF Frame
  <2>. QED BY <1>1, <2>1, FrameNumbers DEF WiresQuiet
<1>2. ASSUME wire[p] # <<>>, Consume(p) PROVE WiresQuiet
  BY <1>2, FrameNumbers DEF WiresQuiet
<1>3. ASSUME wire[p] # <<>>, ConsumeAndReply(p, Frame("ERROR", 0)) PROVE WiresQuiet
  <2>1. Frame("ERROR", 0) \in Frames /\ Frame("ERROR", 0).type \notin TurnFrames
    BY FrameType DEF Frame, FrameTypes, TurnFrames
  <2>. QED BY <1>3, <2>1, FrameNumbers DEF WiresQuiet
<1>4. UNCHANGED wire => WiresQuiet
  BY DEF WiresQuiet
<1>5. ASSUME SendTimeoutEnd(p) PROVE WiresQuiet
  <2>1. "END" \in FrameTypes \ TurnFrames /\ seqOut[p] + 1 \in Nat
    BY DEF FrameTypes, TurnFrames, TypeOK
  <2>. QED BY <1>1, <1>4, <1>5, <2>1 DEF SendTimeoutEnd
<1>. QED BY <1>1, <1>2, <1>3, <1>4, <1>5

\* Such a step keeps the order.
LEMMA OrderKept ==
  ASSUME TypeOK, TypeOK', OrderInvariant, TasksQuiet, WiresQuiet, CountersQuiet
  PROVE  OrderInvariant'
<1>r. /\ "caller" \in Roles /\ "callee" \in Roles /\ Peer("caller") = "callee" /\ Peer("callee") = "caller"
      /\ \A p \in Roles : Peer(p) \in Roles
  BY DEF Roles, Peer
<1>s. {"sendInvite", "ring", "sendTurn", "applyTurn"} \subseteq TurnSteps /\ {"INVITE", "SEND"} \subseteq TurnFrames
  BY DEF TurnSteps, TurnFrames
<1>n. \A p \in Roles : /\ seqIn[p] \in Nat /\ seqOut[p] \in Nat /\ seqOut'[p] \in Nat
                       /\ seqIn'[p] = seqIn[p] /\ seqOut[p] <= seqOut'[p]
  BY DEF TypeOK, CountersQuiet
<1>1. ASSUME NEW p \in Roles PROVE seqIn'[p] <= seqOut'[Peer(p)]
  BY <1>r, <1>n DEF OrderInvariant
<1>2. ASSUME NEW p \in Roles, NEW n \in Nat, TurnNumber(p, n)' PROVE Due(p, n)'
  <2>1. TurnNumber(p, n)
    BY <1>r, <1>s, <1>2 DEF TurnNumber, TasksQuiet, WiresQuiet
  <2>2. Due(p, n)
    BY <2>1 DEF OrderInvariant
  <2>. QED BY <1>r, <1>n, <2>2 DEF Due
<1>3. ASSUME NEW n \in Nat, InviteNumber(n)' PROVE n <= seqOut'["caller"]
  <2>1. InviteNumber(n)
    BY <1>r, <1>s, <1>3 DEF InviteNumber, TasksQuiet, WiresQuiet
  <2>2. n <= seqOut["caller"]
    BY <2>1 DEF OrderInvariant
  <2>. QED BY <1>r, <1>n, <2>2
<1>4. ASSUME state'["callee"] = "NONE"
      PROVE  /\ seqIn'["caller"] = 0 /\ seqIn'["callee"] = 0 /\ seqOut'["callee"] = 0
             /\ \A n \in Nat : /\ ~Brings(wire'["caller"], "SEND", n)
                               /\ ~Waits(tasks'["caller"], "applyTurn", n)
  <2>1. /\ seqIn["caller"] = 0 /\ seqIn["callee"] = 0 /\ seqOut["callee"] = 0
        /\ \A n \in Nat : /\ ~Brings(wire["caller"], "SEND", n)
                          /\ ~Waits(tasks["caller"], "applyTurn", n)
        /\ seqOut'["callee"] = seqOut["callee"] /\ seqIn' = seqIn
    BY <1>4 DEF OrderInvariant, CountersQuiet
  <2>. QED BY <1>r, <1>s, <2>1 DEF TasksQuiet, WiresQuiet
<1>. QED BY <1>1, <1>2, <1>3, <1>4 DEF OrderInvariant

\* No client's request but a turn, no timer, answer or fault is numbered
\* anew, and they take no number.
LEMMA QuietRequests ==
  ASSUME TypeOK, FloorInvariant
  PROVE  /\ InviteTimeout \/ Accept \/ Deny => TasksQuiet /\ WiresQuiet /\ CountersQuiet
         /\ \A p \in Roles :
              RequestPause(p) \/ RequestInject(p) \/ RequestEnd(p) \/ ReceiveForCall(p)
                \/ ReceiveError(p) => TasksQuiet /\ WiresQuiet /\ CountersQuiet
<1>. USE DEF record, link, promise, bounds
<1>r. "caller" \in Roles /\ "callee" \in Roles
  BY DEF Roles
<1>n. \A q \in Roles : seqOut[q] \in Nat /\ seqIn[q] \in Nat
  BY DEF TypeOK
<1>c. \A q \in Roles : seqOut[q] <= seqOut[q]
  BY <1>n
<1>k. ASSUME NEW p \in Roles, state[p] # "NONE", seqIn' = seqIn,
             seqOut' = [seqOut EXCEPT ![p] = @ + 1] \/ UNCHANGED seqOut,
             \A q \in Roles : state'[q] = "NONE" => state[q] = "NONE"
      PROVE  CountersQuiet
  <2>1. \A q \in Roles : seqOut'[q] = seqOut[q] \/ (q = p /\ seqOut'[q] = seqOut[q] + 1)
    BY <1>k DEF TypeOK
  <2>2. \A q \in Roles : seqOut[q] <= seqOut'[q]
    BY <1>n, <2>1
  <2>. QED BY <1>r, <1>k, <2>1, <2>2 DEF CountersQuiet
<1>m. {"sendAccept", "sendDeny", "sendPause", "sendResume", "sendInject", "sendEnd"} \cap TurnSteps = {}
  BY DEF TurnSteps
<1>1. ASSUME InviteTimeout PROVE TasksQuiet /\ WiresQuiet /\ CountersQuiet
  <2>1. /\ UNCHANGED <<tasks, seqIn>> /\ \A q \in Roles : state'[q] = "NONE" => state[q] = "NONE"
        /\ (SendTimeoutEnd("caller") /\ state["caller"] # "NONE") \/ UNCHANGED <<seqOut, wire, state>>
    BY <1>1 DEF InviteTimeout, TypeOK
  <2>2. TasksQuiet /\ WiresQuiet
    BY <1>r, <2>1, QuietTasks, QuietWires
  <2>3. CountersQuiet
    <3>1. CASE UNCHANGED <<seqOut, wire, state>>
      BY <1>c, <2>1, <3>1 DEF CountersQuiet
    <3>2. CASE SendTimeoutEnd("caller") /\ state["caller"] # "NONE"
      BY <1>r, <1>k, <2>1, <3>2 DEF SendTimeoutEnd
    <3>. QED BY <2>1, <3>1, <3>2
  <2>. QED BY <2>2, <2>3
<1>2. ASSUME Accept \/ Deny PROVE TasksQuiet /\ WiresQuiet /\ CountersQuiet
  <2>1. TasksQuiet
    <3>1. \/ \E k : Suspend("callee", "sendAccept", k) \/ Suspend("callee", "sendDeny", k)
          \/ UNCHANGED tasks
      BY <1>2 DEF Accept, Deny
    <3>. QED BY <1>r, <1>m, <3>1, QuietTasks
  <2>2. WiresQuiet
    BY <1>2, <1>r, QuietWires DEF Accept, Deny
  <2>3. /\ state["callee"] # "NONE" /\ seqIn' = seqIn
        /\ seqOut' = [seqOut EXCEPT !["callee"] = @ + 1] \/ UNCHANGED seqOut
        /\ \A q \in Roles : state'[q] = "NONE" => state[q] = "NONE"
    BY <1>2 DEF Accept, Deny, StateOnAccept, TypeOK
  <2>. QED BY <1>r, <1>k, <2>1, <2>2, <2>3
<1>3. ASSUME NEW p \in Roles, RequestPause(p) \/ RequestInject(p) \/ RequestEnd(p)
      PROVE  TasksQuiet /\ WiresQuiet /\ CountersQuiet
  <2>1. \E next \in {"sendPause", "sendResume", "sendInject", "sendEnd"}, k \in Nat : Suspend(p, next, k)
    BY <1>3, <1>n DEF RequestPause, RequestInject, RequestEnd
  <2>2. TasksQuiet
    BY <1>m, <2>1, QuietTasks
  <2>3. WiresQuiet
    BY <1>3, QuietWires DEF RequestPause, RequestInject, RequestEnd
  <2>4. /\ state[p] # "NONE" /\ seqIn' = seqIn
        /\ seqOut' = [seqOut EXCEPT ![p] = @ + 1]
        /\ \A q \in Roles : state'[q] = "NONE" => state[q] = "NONE"
    BY <1>3 DEF RequestPause, RequestInject, RequestEnd, Active, Known, TypeOK
  <2>. QED BY <1>k, <2>2, <2>3, <2>4
<1>4. ASSUME NEW p \in Roles, ReceiveForCall(p) PROVE TasksQuiet /\ WiresQuiet /\ CountersQuiet
  <2>1. PICK type \in DOMAIN StepFor :
          /\ Arrives(p, type)
          /\ IF Known(p) THEN Suspend(p, StepFor[type], Head(wire[p]).seq)
                         ELSE UNCHANGED tasks
    BY <1>4 DEF ReceiveForCall
  <2>2. StepFor[type] \notin TurnSteps
    BY DEF StepFor, TurnSteps
  <2>3. TasksQuiet
    BY <2>1, <2>2, QuietTasks
  <2>4. WiresQuiet
    BY <1>4, <2>1, QuietWires DEF ReceiveForCall, Arrives
  <2>5. CountersQuiet
    BY <1>4, <1>c DEF ReceiveForCall, CountersQuiet
  <2>. QED BY <2>3, <2>4, <2>5
<1>5. ASSUME NEW p \in Roles, ReceiveError(p) PROVE TasksQuiet /\ WiresQuiet /\ CountersQuiet
  <2>1. TasksQuiet /\ WiresQuiet
    BY <1>5, QuietTasks, QuietWires DEF ReceiveError, Arrives
  <2>2. CountersQuiet
    BY <1>5, <1>c DEF ReceiveError, CountersQuiet
  <2>. QED BY <2>1, <2>2
<1>. QED BY <1>1, <1>2, <1>3, <1>4, <1>5

\* Handlers that do not move the invite or a turn message.
LEMMA QuietResumes ==
  ASSUME TypeOK, FloorInvariant
  PROVE  /\ Invite => TasksQuiet /\ WiresQuiet /\ CountersQuiet
         /\ \A t \in tasks["callee"] :
              SendAccept(t) \/ SendDeny(t) => TasksQuiet /\ WiresQuiet /\ CountersQuiet
         /\ \A p \in Roles : \A t \in tasks[p] :
              Refuse(p, t) \/ ApplyAccepted(p, t) \/ ApplyRejected(p, t) \/ SendPause(p, t)
                \/ ApplyPause(p, t) \/ SendInject(p, t) \/ SendEnd(p, t) \/ ApplyEnd(p, t)
                \/ Emit(p, t) => TasksQuiet /\ WiresQuiet /\ CountersQuiet
<1>. USE DEF record, link, promise, bounds
<1>r. "caller" \in Roles /\ "callee" \in Roles
  BY DEF Roles
<1>n. \A q \in Roles : /\ seqOut[q] \in Nat /\ \A t \in tasks[q] : t.seq \in Nat
  BY DEF TypeOK, Tasks
<1>c. \A q \in Roles : seqOut[q] <= seqOut[q]
  BY <1>n
<1>k. ASSUME UNCHANGED <<seqIn, seqOut>>, \A q \in Roles : state'[q] = "NONE" => state[q] = "NONE"
      PROVE  CountersQuiet
  BY <1>r, <1>c, <1>k DEF CountersQuiet
<1>m. {"numberInvite", "emitConnected", "emitPaused", "emitResumed", "emitEnded"} \cap TurnSteps = {}
  BY DEF TurnSteps
<1>f. {"ACCEPTED", "REJECTED", "PAUSE", "RESUME", "HUMAN_INJECT", "END"} \subseteq FrameTypes \ TurnFrames
  BY DEF FrameTypes, TurnFrames
<1>1. ASSUME Invite PROVE TasksQuiet /\ WiresQuiet /\ CountersQuiet
  <2>1. TasksQuiet /\ WiresQuiet
    BY <1>1, <1>r, <1>m, QuietTasks, QuietWires DEF Invite
  <2>2. CountersQuiet
    BY <1>1, <1>k DEF Invite, TypeOK
  <2>. QED BY <2>1, <2>2
<1>2. ASSUME NEW t \in tasks["callee"], SendAccept(t) \/ SendDeny(t)
      PROVE  TasksQuiet /\ WiresQuiet /\ CountersQuiet
  <2>1. TasksQuiet
    BY <1>2, <1>r, <1>m, QuietTasks DEF SendAccept, SendDeny
  <2>2. WiresQuiet
    BY <1>2, <1>r, <1>n, <1>f, QuietWires DEF SendAccept, SendDeny
  <2>3. CountersQuiet
    BY <1>2, <1>k DEF SendAccept, SendDeny
  <2>. QED BY <2>1, <2>2, <2>3
<1>3. ASSUME NEW p \in Roles, NEW t \in tasks[p], ApplyAccepted(p, t)
      PROVE  TasksQuiet /\ WiresQuiet /\ CountersQuiet
  <2>1. Finish(p, t) /\ seqIn' = seqIn /\ (SendTimeoutEnd(p) \/ UNCHANGED <<seqOut, wire>>)
        /\ \A q \in Roles : state'[q] = "NONE" => state[q] = "NONE"
    BY <1>3 DEF ApplyAccepted, TypeOK
  <2>2. TasksQuiet /\ WiresQuiet
    BY <2>1, QuietTasks, QuietWires
  <2>3. Known(p)
    BY <1>3, TaskMeans DEF ApplyAccepted
  <2>4. CASE UNCHANGED <<seqOut, wire>>
    BY <1>k, <2>1, <2>2, <2>4
  <2>5. CASE SendTimeoutEnd(p)
    <3>1. \A q \in Roles : seqOut'[q] = seqOut[q] \/ (q = p /\ seqOut'[q] = seqOut[q] + 1)
      BY <2>5 DEF SendTimeoutEnd, TypeOK
    <3>2. \A q \in Roles : seqOut[q] <= seqOut'[q]
      BY <1>n, <3>1
    <3>3. CountersQuiet
      BY <1>r, <2>1, <2>3, <3>1, <3>2 DEF CountersQuiet, Known
    <3>. QED BY <2>2, <3>3
  <2>. QED BY <2>1, <2>4, <2>5
<1>4. ASSUME NEW p \in Roles, NEW t \in tasks[p], Refuse(p, t) \/ ApplyRejected(p, t) \/ Emit(p, t)
      PROVE  TasksQuiet /\ WiresQuiet /\ CountersQuiet
  <2>1. TasksQuiet
    BY <1>4, QuietTasks DEF Refuse, ApplyRejected, Emit
  <2>2. WiresQuiet
    BY <1>4, <1>f, QuietWires DEF Refuse, ApplyRejected, Emit
  <2>3. CountersQuiet
    BY <1>4, <1>k DEF Refuse, ApplyRejected, Emit, TypeOK
  <2>. QED BY <2>1, <2>2, <2>3
<1>5. ASSUME NEW p \in Roles, NEW t \in tasks[p], SendPause(p, t) \/ SendInject(p, t)
      PROVE  TasksQuiet /\ WiresQuiet /\ CountersQuiet
  <2>1. TasksQuiet
    BY <1>5, QuietTasks DEF SendPause, SendInject
  <2>2. WiresQuiet
    <3>1. \/ \E type \in {"PAUSE", "RESUME", "HUMAN_INJECT"} : Transmit(p, Frame(type, t.seq))
          \/ UNCHANGED wire
      BY <1>5 DEF SendPause, SendInject
    <3>. QED BY <1>f, <1>n, <3>1, QuietWires
  <2>3. CountersQuiet
    BY <1>5, <1>k DEF SendPause, SendInject, TypeOK
  <2>. QED BY <2>1, <2>2, <2>3
<1>6. ASSUME NEW p \in Roles, NEW t \in tasks[p], ApplyPause(p, t) \/ SendEnd(p, t) \/ ApplyEnd(p, t)
      PROVE  TasksQuiet /\ WiresQuiet /\ CountersQuiet
  <2>1. TasksQuiet
    <3>1. \E next \in {"emitPaused", "emitResumed", "emitEnded"} : SuspendAgain(p, t, next)
      BY <1>6 DEF ApplyPause, SendEnd, ApplyEnd
    <3>. QED BY <1>m, <3>1, QuietTasks
  <2>2. WiresQuiet
    BY <1>6, <1>n, <1>f, QuietWires DEF ApplyPause, SendEnd, ApplyEnd
  <2>3. CountersQuiet
    BY <1>6, <1>k DEF ApplyPause, SendEnd, ApplyEnd, TypeOK
  <2>. QED BY <2>1, <2>2, <2>3
<1>. QED BY <1>1, <1>2, <1>3, <1>4, <1>5, <1>6

\* A fault takes numbers away.
LEMMA QuietFaults ==
  ASSUME TypeOK, Break \/ Reconnect \/ UNCHANGED vars \/ \E p \in Roles : NoticeClose(p) \/ Crash(p)
  PROVE  TasksQuiet /\ WiresQuiet /\ CountersQuiet
<1>. USE DEF record, link, promise, bounds
<1>r. "caller" \in Roles /\ "callee" \in Roles
  BY DEF Roles
<1>1. CountersQuiet
  <2>1. /\ UNCHANGED <<seqIn, seqOut>>
        /\ \A q \in Roles : state'[q] = "NONE" => state[q] = "NONE"
    BY DEF Break, Reconnect, vars, NoticeClose, Crash, TypeOK
  <2>2. \A q \in Roles : seqOut[q] \in Nat
    BY DEF TypeOK
  <2>. QED BY <1>r, <2>1, <2>2 DEF CountersQuiet
<1>2. CASE Break \/ Reconnect \/ UNCHANGED vars
  BY <1>1, <1>2 DEF Break, Reconnect, vars, TasksQuiet, WiresQuiet
<1>3. ASSUME NEW p \in Roles, NoticeClose(p) \/ Crash(p) PROVE TasksQuiet /\ WiresQuiet
  <2>1. \A q \in Roles : wire'[q] = wire[q] \/ wire'[q] = <<>>
    BY <1>3 DEF NoticeClose, Crash, TypeOK
  <2>2. \A type, n : ~Brings(<<>>, type, n)
    BY DEF Brings
  <2>3. WiresQuiet
    BY <2>1, <2>2 DEF WiresQuiet
  <2>4. CASE NoticeClose(p)
    <3>. DEFINE Cut(t) == [t EXCEPT !.open = FALSE]
    <3>1. \A q \in Roles : tasks'[q] = IF q = p THEN {Cut(t) : t \in tasks[q]} ELSE tasks[q]
      BY <2>4 DEF NoticeClose, TypeOK
    <3>2. \A q \in Roles : \A t \in tasks[q] : Cut(t).next = t.next /\ Cut(t).seq = t.seq
      BY DEF TypeOK, Tasks
    <3>. HIDE DEF Cut
    <3>3. \A q \in Roles : \A u \in tasks'[q] : \E t \in tasks[q] :
            u.next = t.next /\ u.seq = t.seq /\ u = IF q = p THEN Cut(t) ELSE t
      BY <3>1, <3>2
    <3>4. TasksQuiet
      BY <3>3 DEF TasksQuiet, Waits
    <3>. QED BY <2>3, <3>4
  <2>5. CASE Crash(p)
    <3>1. \A q \in Roles : tasks'[q] \subseteq tasks[q]
      BY <2>5 DEF Crash, TypeOK
    <3>2. TasksQuiet
      BY <3>1 DEF TasksQuiet, Waits
    <3>. QED BY <2>3, <3>2
  <2>. QED BY <1>3, <2>4, <2>5
<1>. QED BY <1>1, <1>2, <1>3

\* A step that adds a number keeps the order if the number is due.
LEMMA OrderMade ==
  ASSUME TypeOK, OrderInvariant, seqIn' = seqIn,
         \A q \in Roles : seqOut'[q] \in Nat /\ seqOut[q] <= seqOut'[q],
         \A q \in Roles, n \in Nat : TurnNumber(q, n)' => TurnNumber(q, n) \/ Due(q, n)',
         \A n \in Nat : InviteNumber(n)' => InviteNumber(n) \/ n <= seqOut'["caller"],
         state'["callee"] = "NONE" =>
           /\ state["callee"] = "NONE" /\ seqOut'["callee"] = seqOut["callee"]
           /\ \A n \in Nat : /\ Brings(wire'["caller"], "SEND", n) => Brings(wire["caller"], "SEND", n)
                             /\ Waits(tasks'["caller"], "applyTurn", n)
                                  => Waits(tasks["caller"], "applyTurn", n)
  PROVE  OrderInvariant'
<1>n. \A p \in Roles : /\ seqIn[p] \in Nat /\ seqOut[p] \in Nat
                       /\ Peer(p) \in Roles
  BY PeerIsRole DEF TypeOK
<1>1. ASSUME NEW p \in Roles PROVE seqIn'[p] <= seqOut'[Peer(p)]
  <2>1. seqIn[p] <= seqOut[Peer(p)]
    BY DEF OrderInvariant
  <2>. QED BY <1>n, <2>1
<1>2. ASSUME NEW p \in Roles, NEW n \in Nat, TurnNumber(p, n)' PROVE Due(p, n)'
  <2>1. CASE TurnNumber(p, n)
    <3>1. Due(p, n)
      BY <2>1 DEF OrderInvariant
    <3>. QED BY <1>n, <3>1 DEF Due
  <2>. QED BY <1>2, <2>1
<1>3. ASSUME NEW n \in Nat, InviteNumber(n)' PROVE n <= seqOut'["caller"]
  <2>1. CASE InviteNumber(n)
    <3>1. n <= seqOut["caller"] /\ "caller" \in Roles
      BY <2>1 DEF OrderInvariant, Roles
    <3>. QED BY <1>n, <3>1
  <2>. QED BY <1>3, <2>1
<1>4. ASSUME state'["callee"] = "NONE"
      PROVE  /\ seqIn'["caller"] = 0 /\ seqIn'["callee"] = 0 /\ seqOut'["callee"] = 0
             /\ \A n \in Nat : /\ ~Brings(wire'["caller"], "SEND", n)
                               /\ ~Waits(tasks'["caller"], "applyTurn", n)
  BY <1>4 DEF OrderInvariant
<1>. QED BY <1>1, <1>2, <1>3, <1>4 DEF OrderInvariant

\* The steps that move the invite and the turn messages.
LEMMA NumberedSteps ==
  ASSUME TypeOK, TypeOK', FloorInvariant, OrderInvariant
  PROVE  /\ \A t \in tasks["caller"] : NumberInvite(t) \/ SendInvite(t) => OrderInvariant' /\ seqIn' = seqIn
         /\ \A p \in Roles :
              ReceiveInvite(p) \/ Speak(p) \/ ReceiveTurn(p) => OrderInvariant' /\ seqIn' = seqIn
         /\ \A p \in Roles : \A t \in tasks[p] : SendTurn(p, t) => OrderInvariant' /\ seqIn' = seqIn
<1>. USE DEF record, link, promise, bounds
<1>r. "caller" \in Roles /\ "callee" \in Roles /\ Peer("caller") = "callee" /\ Peer("callee") = "caller"
  BY DEF Roles, Peer
<1>d. \A p \in Roles : p = "caller" \/ p = "callee"
  BY DEF Roles
<1>p. \A p \in Roles : Peer(p) \in Roles /\ Peer(p) # p /\ Peer(Peer(p)) = p
  BY DEF Roles, Peer
<1>n. \A q \in Roles : /\ seqOut[q] \in Nat /\ seqOut'[q] \in Nat /\ seqIn[q] \in Nat
                       /\ \A t \in tasks[q] : t.seq \in Nat
                       /\ wire[q] \in Seq(Frames)
  BY DEF TypeOK, Tasks
<1>c. \A q \in Roles : seqOut[q] <= seqOut[q]
  BY <1>n
<1>1. ASSUME NEW t \in tasks["caller"], NumberInvite(t) PROVE OrderInvariant' /\ seqIn' = seqIn
  <2>1. /\ UNCHANGED <<state, seqIn, wire>>
        /\ seqOut'["caller"] = seqOut["caller"] + 1 /\ seqOut'["callee"] = seqOut["callee"]
    BY <1>1, <1>r DEF NumberInvite, TypeOK
  <2>2. \A q \in Roles : \A step, n : Waits(tasks'[q], step, n)
          => Waits(tasks[q], step, n) \/ (q = "caller" /\ step = "sendInvite" /\ n = seqOut["caller"] + 1)
    <3>. DEFINE u == [next |-> "sendInvite", seq |-> seqOut["caller"] + 1, open |-> t.open]
    <3>1. /\ u.next = "sendInvite" /\ u.seq = seqOut["caller"] + 1
          /\ \A q \in Roles : tasks'[q] = IF q = "caller" THEN (tasks[q] \ {t}) \cup {u} ELSE tasks[q]
      BY <1>1, <1>r DEF NumberInvite, TypeOK
    <3>. HIDE DEF u
    <3>. QED BY <3>1 DEF Waits
  <2>3. \A q \in Roles : seqOut'[q] \in Nat /\ seqOut[q] <= seqOut'[q]
    BY <1>d, <1>n, <1>c, <2>1
  <2>4. \A q \in Roles, n \in Nat : TurnNumber(q, n)' => TurnNumber(q, n)
    BY <1>p, <2>1, <2>2 DEF TurnNumber
  <2>5. \A n \in Nat : InviteNumber(n)' => InviteNumber(n) \/ n <= seqOut'["caller"]
    <3>1. \A n \in Nat : InviteNumber(n)' => InviteNumber(n) \/ n = seqOut'["caller"]
      BY <1>r, <2>1, <2>2 DEF InviteNumber
    <3>. QED BY <1>r, <1>n, <3>1
  <2>. QED BY <1>r, <2>1, <2>2, <2>3, <2>4, <2>5, OrderMade
<1>2. ASSUME NEW t \in tasks["caller"], SendInvite(t) PROVE OrderInvariant' /\ seqIn' = seqIn
  <2>1. /\ UNCHANGED <<state, seqIn, seqOut>> /\ Finish("caller", t)
        /\ t.next = "sendInvite" /\ Waits(tasks["caller"], "sendInvite", t.seq)
    BY <1>2 DEF SendInvite, Waits
  <2>2. \A q \in Roles : \A step, n : Waits(tasks'[q], step, n) => Waits(tasks[q], step, n)
    BY <1>r, <2>1, TaskNumbers
  <2>3. \A q \in Roles : \A type, n : Brings(wire'[q], type, n)
          => Brings(wire[q], type, n) \/ (q = "callee" /\ type = "INVITE" /\ n = t.seq)
    <3>. DEFINE f == Frame("INVITE", t.seq)
    <3>1. f \in Frames /\ f.type = "INVITE" /\ f.seq = t.seq
      BY <1>r, <1>n, FrameType DEF Frame, FrameTypes
    <3>2. Transmit("caller", f) \/ UNCHANGED wire
      BY <1>2 DEF SendInvite
    <3>. HIDE DEF f
    <3>. QED BY <1>r, <3>1, <3>2, FrameNumbers
  <2>4. \A q \in Roles, n \in Nat : TurnNumber(q, n)' => TurnNumber(q, n)
    BY <1>p, <2>2, <2>3 DEF TurnNumber
  <2>5. \A n \in Nat : InviteNumber(n)' => InviteNumber(n)
    BY <1>r, <2>1, <2>2, <2>3 DEF InviteNumber
  <2>. QED BY <1>r, <1>n, <1>c, <2>1, <2>2, <2>3, <2>4, <2>5, OrderMade
<1>3. ASSUME NEW p \in Roles, ReceiveInvite(p) PROVE OrderInvariant' /\ seqIn' = seqIn
  <2>1. /\ UNCHANGED <<state, seqIn, seqOut>> /\ wire[p] # <<>> /\ Head(wire[p]).type = "INVITE"
        /\ Carries(wire[p], "INVITE")
    BY <1>3, FrameMeans DEF ReceiveInvite, Arrives, FrameTypes
  <2>2. p = "callee"
    BY <1>d, <2>1 DEF FloorInvariant, OneInvite
  <2>3. CASE Known(p)
    <3>1. TasksQuiet /\ WiresQuiet
      BY <1>3, <2>1, <2>3, QuietTasks, QuietWires DEF ReceiveInvite
    <3>2. CountersQuiet
      BY <1>c, <2>1 DEF CountersQuiet
    <3>. QED BY <2>1, <3>1, <3>2, OrderKept
  <2>4. CASE ~Known(p)
    <3>1. Consume(p) /\ \E next \in {"ring", "refuse"} : Suspend(p, next, Head(wire[p]).seq)
      BY <1>3, <2>4 DEF ReceiveInvite
    <3>2. Brings(wire[p], "INVITE", Head(wire[p]).seq)
      BY <1>n, <2>1, BringsLess
    <3>3. \A q \in Roles : \A type, n : Brings(wire'[q], type, n) => Brings(wire[q], type, n)
      BY <2>1, <3>1, FrameNumbers
    <3>4. \A q \in Roles : \A step, n : Waits(tasks'[q], step, n)
            => Waits(tasks[q], step, n) \/ (q = p /\ step \in {"ring", "refuse"} /\ n = Head(wire[p]).seq)
      BY <3>1, TaskNumbers
    <3>5. \A q \in Roles, n \in Nat : TurnNumber(q, n)' => TurnNumber(q, n)
      BY <1>p, <3>3, <3>4 DEF TurnNumber
    <3>6. \A n \in Nat : InviteNumber(n)' => InviteNumber(n)
      BY <1>r, <2>2, <3>2, <3>3, <3>4 DEF InviteNumber
    <3>. QED BY <1>r, <1>n, <1>c, <2>1, <2>2, <3>3, <3>4, <3>5, <3>6, OrderMade
  <2>. QED BY <2>3, <2>4
<1>4. ASSUME NEW p \in Roles, Speak(p) PROVE OrderInvariant' /\ seqIn' = seqIn
  <2>1. /\ UNCHANGED <<state, seqIn, wire>> /\ state[p] # "NONE"
        /\ seqOut'[p] = seqOut[p] + 1 /\ seqOut'[Peer(p)] = seqOut[Peer(p)]
        /\ Suspend(p, "sendTurn", seqOut[p] + 1)
    BY <1>4, <1>p DEF Speak, MaySpeak, TypeOK
  <2>2. \A q \in Roles : \A step, n : Waits(tasks'[q], step, n)
          => Waits(tasks[q], step, n) \/ (q = p /\ step = "sendTurn" /\ n = seqOut[p] + 1)
    BY <2>1, TaskNumbers
  <2>3. \A q \in Roles : /\ q = p \/ q = Peer(p)
                         /\ seqOut'[q] \in Nat /\ seqOut[q] <= seqOut'[q]
    <3>1. \A q \in Roles : q = p \/ q = Peer(p)
      BY DEF Roles, Peer
    <3>. QED BY <1>n, <1>c, <2>1, <3>1
  <2>4. \A q \in Roles, n \in Nat : TurnNumber(q, n)' => TurnNumber(q, n) \/ Due(q, n)'
    <3>1. \A q \in Roles, n \in Nat :
            TurnNumber(q, n)' => TurnNumber(q, n) \/ (q = p /\ n = seqOut[p] + 1)
      BY <1>p, <2>1, <2>2 DEF TurnNumber
    <3>2. seqIn[Peer(p)] <= seqOut[p]
      BY <1>p DEF OrderInvariant
    <3>3. seqIn'[Peer(p)] <= seqOut[p] + 1 /\ seqOut[p] + 1 <= seqOut'[p]
      BY <1>n, <1>p, <2>1, <3>2
    <3>. QED BY <3>1, <3>3 DEF Due
  <2>5. \A n \in Nat : InviteNumber(n)' => InviteNumber(n)
    BY <1>r, <2>1, <2>2 DEF InviteNumber
  <2>. QED BY <1>r, <2>1, <2>2, <2>3, <2>4, <2>5, OrderMade
<1>5. ASSUME NEW p \in Roles, ReceiveTurn(p) PROVE OrderInvariant' /\ seqIn' = seqIn
  <2>1. /\ UNCHANGED <<state, seqIn, seqOut>> /\ wire[p] # <<>> /\ Head(wire[p]).type = "SEND"
        /\ Head(wire[p]).seq \in Nat
    BY <1>5, FrameMeans DEF ReceiveTurn, Arrives, FrameTypes
  <2>2. CASE ~TurnAdmitted(p)
    <3>1. TasksQuiet /\ WiresQuiet
      BY <1>5, <2>1, <2>2, QuietTasks, QuietWires DEF ReceiveTurn
    <3>2. CountersQuiet
      BY <1>c, <2>1 DEF CountersQuiet
    <3>. QED BY <2>1, <3>1, <3>2, OrderKept
  <2>3. CASE TurnAdmitted(p)
    <3>1. Consume(p) /\ Suspend(p, "applyTurn", Head(wire[p]).seq)
      BY <1>5, <2>3 DEF ReceiveTurn
    <3>2. Brings(wire[p], "SEND", Head(wire[p]).seq)
      BY <1>n, <2>1, BringsLess
    <3>3. \A q \in Roles : \A type, n : Brings(wire'[q], type, n) => Brings(wire[q], type, n)
      BY <2>1, <3>1, FrameNumbers
    <3>4. \A q \in Roles : \A step, n : Waits(tasks'[q], step, n)
            => Waits(tasks[q], step, n) \/ (q = p /\ step = "applyTurn" /\ n = Head(wire[p]).seq)
      BY <3>1, TaskNumbers
    <3>5. \A q \in Roles, n \in Nat : TurnNumber(q, n)' => TurnNumber(q, n)
      BY <1>p, <3>2, <3>3, <3>4 DEF TurnNumber
    <3>6. \A n \in Nat : InviteNumber(n)' => InviteNumber(n)
      BY <1>r, <3>3, <3>4 DEF InviteNumber
    <3>7. p = "caller" => state["callee"] # "NONE"
      BY <2>1, <3>2 DEF OrderInvariant
    <3>. QED BY <1>r, <1>n, <1>c, <2>1, <3>3, <3>4, <3>5, <3>6, <3>7, OrderMade
  <2>. QED BY <2>2, <2>3
<1>6. ASSUME NEW p \in Roles, NEW t \in tasks[p], SendTurn(p, t) PROVE OrderInvariant' /\ seqIn' = seqIn
  <2>1. /\ UNCHANGED <<state, seqIn, seqOut>> /\ Finish(p, t) /\ state[p] # "NONE"
        /\ Waits(tasks[p], "sendTurn", t.seq)
    BY <1>6, TaskMeans DEF SendTurn, Waits, Known
  <2>2. \A q \in Roles : \A step, n : Waits(tasks'[q], step, n) => Waits(tasks[q], step, n)
    BY <2>1, TaskNumbers
  <2>3. \A q \in Roles : \A type, n : Brings(wire'[q], type, n)
          => Brings(wire[q], type, n) \/ (q = Peer(p) /\ type = "SEND" /\ n = t.seq)
    <3>. DEFINE f == Frame("SEND", t.seq)
    <3>1. f \in Frames /\ f.type = "SEND" /\ f.seq = t.seq
      BY <1>n, FrameType DEF Frame, FrameTypes
    <3>2. Transmit(p, f) \/ UNCHANGED wire
      BY <1>6 DEF SendTurn
    <3>. HIDE DEF f
    <3>. QED BY <3>1, <3>2, FrameNumbers
  <2>4. \A q \in Roles, n \in Nat : TurnNumber(q, n)' => TurnNumber(q, n)
    BY <1>p, <2>1, <2>2, <2>3 DEF TurnNumber
  <2>5. \A n \in Nat : InviteNumber(n)' => InviteNumber(n)
    BY <1>r, <2>2, <2>3 DEF InviteNumber
  <2>6. p = "caller" \/ state["callee"] # "NONE"
    BY <1>d, <2>1
  <2>. QED BY <1>r, <1>n, <1>c, <2>1, <2>2, <2>3, <2>4, <2>5, <2>6, OrderMade
<1>. QED BY <1>1, <1>2, <1>3, <1>4, <1>5, <1>6

\* The two steps that take a number: the callee's record is made with the
\* invite's, and a turn message is applied.
LEMMA TakingSteps ==
  ASSUME TypeOK, TypeOK', FloorInvariant, OrderInvariant, NEW p \in Roles, NEW t \in tasks[p],
         Ring(p, t) \/ ApplyTurn(p, t)
  PROVE  OrderInvariant' /\ seqIn'[p] >= seqIn[p] /\ seqIn'[Peer(p)] = seqIn[Peer(p)]
<1>. USE DEF record, link, promise, bounds
<1>r. "caller" \in Roles /\ "callee" \in Roles /\ Peer("caller") = "callee" /\ Peer("callee") = "caller"
  BY DEF Roles, Peer
<1>d. \A q \in Roles : q = "caller" \/ q = "callee"
  BY DEF Roles
<1>p. \A q \in Roles : Peer(q) \in Roles /\ Peer(q) # q /\ Peer(Peer(q)) = q
  BY DEF Roles, Peer
<1>n. \A q \in Roles : /\ seqOut[q] \in Nat /\ seqOut'[q] \in Nat /\ seqIn[q] \in Nat
                       /\ \A u \in tasks[q] : u.seq \in Nat
  BY DEF TypeOK, Tasks
<1>w. \A q \in Roles : \A step, n : Waits(tasks[q], step, n) => At(tasks[q], step)
  BY DEF Waits, At
<1>b. \A q \in Roles : \A type, n : Brings(wire[q], type, n) => Carries(wire[q], type)
  BY DEF Brings, Carries
<1>1. CASE Ring(p, t)
  <2>1. /\ t.next = "ring" /\ At(tasks[p], "ring") /\ UNCHANGED wire /\ SuspendAgain(p, t, "emitInvite")
        /\ state' = [state EXCEPT ![p] = "RINGING"]
        /\ seqOut' = [seqOut EXCEPT ![p] = 0] /\ seqIn' = [seqIn EXCEPT ![p] = t.seq]
    BY <1>1 DEF Ring, At
  <2>2. p = "callee" /\ Inviting /\ state["callee"] = "NONE"
    BY <1>d, <2>1 DEF FloorInvariant, OneInvite, Inviting, InviteTaken, NobodySpeaksBeforeRinging
  <2>3. \A q \in Roles : \A n : ~TurnNumber(q, n)
    <3>1. \A q \in Roles : /\ ~At(tasks[q], "sendTurn") /\ ~At(tasks[q], "applyTurn")
                           /\ ~Carries(wire[q], "SEND")
      BY <1>d, <2>2 DEF FloorInvariant, NobodySpeaksBeforeRinging, Steps, ClientSteps, HandlerSteps,
                        FrameTypes
    <3>. QED BY <1>p, <1>w, <1>b, <3>1 DEF TurnNumber
  <2>4. \A q \in Roles : \A step, n : Waits(tasks'[q], step, n) => Waits(tasks[q], step, n) \/ step = "emitInvite"
    <3>1. \A next : SuspendAgain(p, t, next) =>
            \A q \in Roles : \A step, n :
              Waits(tasks'[q], step, n) => Waits(tasks[q], step, n) \/ (q = p /\ step = next)
      BY TaskNumbers
    <3>2. SuspendAgain(p, t, "emitInvite")
      BY <2>1
    <3>. QED BY <3>1, <3>2
  <2>5. \A q \in Roles : \A n : ~TurnNumber(q, n)'
    BY <1>p, <2>1, <2>3, <2>4 DEF TurnNumber
  <2>6. /\ seqIn["caller"] = 0 /\ seqIn["callee"] = 0 /\ seqIn'["caller"] = 0 /\ seqIn'["callee"] = t.seq
        /\ seqOut'["caller"] = seqOut["caller"] /\ seqOut'["callee"] = 0 /\ state'["callee"] = "RINGING"
    BY <1>r, <2>1, <2>2 DEF OrderInvariant, TypeOK
  <2>7. t.seq <= seqOut["caller"]
    <3>1. InviteNumber(t.seq)
      BY <2>1, <2>2 DEF InviteNumber, Waits
    <3>. QED BY <1>n, <3>1 DEF OrderInvariant
  <2>8. \A n \in Nat : InviteNumber(n)' => n <= seqOut'["caller"]
    <3>1. \A n \in Nat : InviteNumber(n)' => InviteNumber(n)
      BY <1>r, <2>1, <2>4 DEF InviteNumber
    <3>. QED BY <2>6, <3>1 DEF OrderInvariant
  <2>9. \A q \in Roles : seqIn'[q] <= seqOut'[Peer(q)]
    BY <1>r, <1>d, <2>6, <2>7
  <2>10. seqIn'[p] >= seqIn[p] /\ seqIn'[Peer(p)] = seqIn[Peer(p)]
    BY <1>r, <1>n, <2>2, <2>6
  <2>11. OrderInvariant'
    BY <2>5, <2>6, <2>8, <2>9 DEF OrderInvariant
  <2>. QED BY <2>10, <2>11
<1>2. CASE ApplyTurn(p, t)
  <2>1. /\ t.next = "applyTurn" /\ At(tasks[p], "applyTurn") /\ UNCHANGED <<wire, seqOut, state>>
        /\ SuspendAgain(p, t, "emitMessage") /\ seqIn' = [seqIn EXCEPT ![p] = t.seq]
    BY <1>2 DEF ApplyTurn, At
  <2>2. TurnNumber(Peer(p), t.seq)
    BY <1>p, <2>1 DEF TurnNumber, Waits
  <2>3. seqIn[p] <= t.seq /\ t.seq <= seqOut[Peer(p)]
    BY <1>n, <1>p, <2>2 DEF OrderInvariant, Due
  <2>4. seqIn'[p] = t.seq /\ seqIn'[Peer(p)] = seqIn[Peer(p)]
    BY <1>p, <2>1 DEF TypeOK
  <2>5. \A q \in Roles : \A step, n : Waits(tasks'[q], step, n) => Waits(tasks[q], step, n) \/ step = "emitMessage"
    BY <2>1, TaskNumbers
  <2>6. \A n : ~TurnNumber(Peer(p), n)'
    <3>1. Speaking(p) /\ SingleAt(tasks[p], "applyTurn") /\ ~Carries(wire[p], "SEND")
      BY <2>1 DEF Speaking, FloorInvariant, OneTurnInFlight
    <3>2. ~At(tasks[Peer(p)], "sendTurn")
      BY <1>p, <1>d, <3>1 DEF FloorInvariant, OneTurnInFlight, SpeakerHoldsFloor
    <3>3. ~At(tasks'[p], "applyTurn")
      BY <2>1, <3>1, SuspendAgainEffect
    <3>4. \A n : ~Waits(tasks'[p], "applyTurn", n)
      BY <3>3 DEF Waits, At
    <3>. QED BY <1>p, <1>w, <1>b, <2>1, <2>5, <3>1, <3>2, <3>4 DEF TurnNumber
  <2>7. \A n \in Nat : TurnNumber(p, n)' => Due(p, n)'
    <3>1. \A n \in Nat : TurnNumber(p, n)' => TurnNumber(p, n)
      BY <1>p, <2>1, <2>5 DEF TurnNumber
    <3>2. \A n \in Nat : TurnNumber(p, n) => Due(p, n)
      BY DEF OrderInvariant
    <3>. QED BY <2>1, <2>4, <3>1, <3>2 DEF Due
  <2>8. \A q \in Roles : q = p \/ q = Peer(p)
    BY DEF Roles, Peer
  <2>9. \A n \in Nat : InviteNumber(n)' => n <= seqOut'["caller"]
    <3>1. \A n \in Nat : InviteNumber(n)' => InviteNumber(n)
      BY <1>r, <2>1, <2>5 DEF InviteNumber
    <3>. QED BY <2>1, <3>1 DEF OrderInvariant
  <2>10. \A q \in Roles : seqIn'[q] <= seqOut'[Peer(q)]
    <3>1. seqIn[Peer(p)] <= seqOut[p]
      BY <1>p DEF OrderInvariant
    <3>. QED BY <1>p, <2>1, <2>3, <2>4, <2>8, <3>1
  <2>11. state'["callee"] # "NONE"
    <3>1. p = "callee" => state["callee"] # "NONE"
      BY <1>2, TaskMeans DEF ApplyTurn, Known
    <3>2. p = "caller" => state["callee"] # "NONE"
      BY <1>n, <2>1 DEF OrderInvariant, Waits
    <3>. QED BY <1>d, <2>1, <3>1, <3>2
  <2>12. seqIn'[p] >= seqIn[p]
    BY <1>n, <2>3, <2>4
  <2>13. \A q \in Roles, n \in Nat : TurnNumber(q, n)' => Due(q, n)'
    BY <2>6, <2>7, <2>8
  <2>. QED BY <2>4, <2>9, <2>10, <2>11, <2>12, <2>13 DEF OrderInvariant
<1>. QED BY <1>1, <1>2

LEMMA OrderStep ==
  ASSUME Serial, TypeOK, TypeOK', FloorInvariant, OrderInvariant, [Next]_vars
  PROVE  OrderInvariant' /\ \A p \in Roles : seqIn'[p] >= seqIn[p]
<1>n. \A p \in Roles : seqIn[p] \in Nat /\ seqIn[p] >= seqIn[p]
  BY DEF TypeOK
<1>q. ASSUME TasksQuiet /\ WiresQuiet /\ CountersQuiet
      PROVE  OrderInvariant' /\ \A p \in Roles : seqIn'[p] >= seqIn[p]
  BY <1>n, <1>q, OrderKept DEF CountersQuiet
<1>k. ASSUME OrderInvariant' /\ seqIn' = seqIn
      PROVE  OrderInvariant' /\ \A p \in Roles : seqIn'[p] >= seqIn[p]
  BY <1>n, <1>k
<1>1. ASSUME NEW p \in Roles, Client(p)
      PROVE  OrderInvariant' /\ \A q \in Roles : seqIn'[q] >= seqIn[q]
  <2>1. CASE Speak(p)
    BY <1>k, <2>1, NumberedSteps
  <2>2. CASE ~Speak(p)
    BY <1>1, <1>q, <2>2, QuietRequests, QuietResumes DEF Client
  <2>. QED BY <2>1, <2>2
<1>2. ASSUME NEW p \in Roles, Receive(p)
      PROVE  OrderInvariant' /\ \A q \in Roles : seqIn'[q] >= seqIn[q]
  <2>1. CASE ReceiveInvite(p) \/ ReceiveTurn(p)
    BY <1>k, <2>1, NumberedSteps
  <2>2. CASE ~(ReceiveInvite(p) \/ ReceiveTurn(p))
    BY <1>2, <1>q, <2>2, QuietRequests DEF Receive
  <2>. QED BY <2>1, <2>2
<1>3. ASSUME NEW p \in Roles, Resume(p)
      PROVE  OrderInvariant' /\ \A q \in Roles : seqIn'[q] >= seqIn[q]
  <2>1. PICK t \in tasks[p] :
          \/ p = "caller" /\ (NumberInvite(t) \/ SendInvite(t))
          \/ p = "callee" /\ (SendAccept(t) \/ SendDeny(t))
          \/ Refuse(p, t) \/ Ring(p, t)
          \/ ApplyAccepted(p, t) \/ ApplyRejected(p, t)
          \/ SendTurn(p, t) \/ ApplyTurn(p, t)
          \/ SendPause(p, t) \/ ApplyPause(p, t)
          \/ SendInject(p, t) \/ SendEnd(p, t) \/ ApplyEnd(p, t)
          \/ Emit(p, t)
    BY <1>3 DEF Resume
  <2>2. CASE Ring(p, t) \/ ApplyTurn(p, t)
    <3>1. \A q \in Roles : q = p \/ q = Peer(p)
      BY DEF Roles, Peer
    <3>2. OrderInvariant' /\ seqIn'[p] >= seqIn[p] /\ seqIn'[Peer(p)] = seqIn[Peer(p)]
      BY <2>2, TakingSteps
    <3>. QED BY <1>n, <3>1, <3>2
  <2>3. CASE SendTurn(p, t) \/ (p = "caller" /\ (NumberInvite(t) \/ SendInvite(t)))
    BY <1>k, <2>3, NumberedSteps
  <2>4. CASE ~(\/ Ring(p, t) \/ ApplyTurn(p, t) \/ SendTurn(p, t)
               \/ (p = "caller" /\ (NumberInvite(t) \/ SendInvite(t))))
    BY <1>q, <2>1, <2>4, QuietResumes
  <2>. QED BY <2>2, <2>3, <2>4
<1>4. CASE InviteTimeout
  BY <1>q, <1>4, QuietRequests
<1>5. CASE Break \/ Reconnect \/ UNCHANGED vars \/ \E p \in Roles : NoticeClose(p) \/ Crash(p)
  BY <1>q, <1>5, QuietFaults
<1>. QED BY <1>1, <1>2, <1>3, <1>4, <1>5 DEF Next, Fault

\* Turn messages are applied in the order in which they were sent, whatever is
\* suspended, lost or restarted between them, as long as clients wait for their
\* answers.
THEOREM TurnsAreInOrder == Serial => (Spec => TurnsAppliedInOrder)
<1>1. Serial \in BOOLEAN
  BY ConstantsAssumption DEF ConstantsAssumption
<1>. SUFFICES ASSUME Serial PROVE Spec => TurnsAppliedInOrder
  OBVIOUS
<1>2. ASSUME Init PROVE OrderInvariant
  <2>1. \A p \in Roles : /\ seqIn[p] = 0 /\ seqOut[p] = 0
                         /\ \A step, n : ~Waits(tasks[p], step, n)
                         /\ \A type, n : ~Brings(wire[p], type, n)
    BY <1>2 DEF Init, Waits, Brings
  <2>2. /\ "caller" \in Roles /\ "callee" \in Roles
        /\ \A p \in Roles : Peer(p) \in Roles
    BY DEF Roles, Peer
  <2>. QED BY <2>1, <2>2 DEF OrderInvariant, TurnNumber, InviteNumber
<1>3. TypeOK /\ TypeOK' /\ FloorInvariant /\ OrderInvariant /\ [Next]_vars => OrderInvariant'
  BY OrderStep
<1>4. TypeOK /\ TypeOK' /\ FloorInvariant /\ OrderInvariant /\ [Next]_vars
        => [\A p \in Roles : seqIn'[p] >= seqIn[p]]_vars
  BY OrderStep
<1>5. Spec => []FloorInvariant
  BY FloorInvariantHolds
<1>. QED BY <1>2, <1>3, <1>4, <1>5, CallTypeCorrect, PTL DEF Spec, TurnsAppliedInOrder
============================================================================
