--------------------------- MODULE SessionsProofs ---------------------------
(***************************************************************************)
(* The sessions of a call, for every set of sessions and workloads: their  *)
(* types, and that events, replies and fetches reach whom they are for.    *)
(***************************************************************************)
EXTENDS Sessions, FiniteSetTheorems, TLAPS

---------------------------------------------------------------------------
(* Sequences.                                                              *)

\* A sequence and its elements.
LEMMA SequenceFacts ==
  ASSUME NEW S, NEW q \in Seq(S)
  PROVE  /\ Len(q) \in Nat /\ DOMAIN q = 1..Len(q)
         /\ \A i \in DOMAIN q : q[i] \in S
OBVIOUS

\* Appending leaves what was there and adds one at the end.
LEMMA AppendFacts ==
  ASSUME NEW S, NEW q \in Seq(S), NEW e \in S
  PROVE  /\ Append(q, e) \in Seq(S) /\ Len(Append(q, e)) = Len(q) + 1
         /\ \A k \in 1..Len(q) : Append(q, e)[k] = q[k]
         /\ Append(q, e)[Len(q) + 1] = e
OBVIOUS

\* The tail is the sequence, one place further.
LEMMA TailFacts ==
  ASSUME NEW S, NEW q \in Seq(S), q # <<>>
  PROVE  /\ Head(q) \in S /\ Head(q) = q[1] /\ 1 \in 1..Len(q)
         /\ Tail(q) \in Seq(S) /\ Len(q) = Len(Tail(q)) + 1
         /\ \A k \in 1..Len(Tail(q)) : Tail(q)[k] = q[k + 1]
OBVIOUS

\* Replacing one element leaves the others.
LEMMA ExceptFacts ==
  ASSUME NEW S, NEW q \in Seq(S), NEW i \in 1..Len(q), NEW e \in S
  PROVE  /\ [q EXCEPT ![i] = e] \in Seq(S)
         /\ Len([q EXCEPT ![i] = e]) = Len(q)
         /\ \A k \in 1..Len(q) : [q EXCEPT ![i] = e][k] = IF k = i THEN e ELSE q[k]
OBVIOUS

\* A function on 1..n is a sequence.
LEMMA FunctionFacts ==
  ASSUME NEW S, NEW n \in Nat, NEW f \in [1..n -> S]
  PROVE  f \in Seq(S) /\ Len(f) = n
OBVIOUS

\* Removing an element moves those behind it one place forward (splice).
LEMMA RemoveFacts ==
  ASSUME NEW S, NEW q \in Seq(S), NEW i \in 1..Len(q)
  PROVE  /\ RemoveAt(q, i) \in Seq(S) /\ Len(q) = Len(RemoveAt(q, i)) + 1
         /\ \A k \in 1..(Len(q) - 1) :
              RemoveAt(q, i)[k] = IF k < i THEN q[k] ELSE q[k + 1]
<1>. DEFINE p == SubSeq(q, 1, i - 1)
           r == SubSeq(q, i + 1, Len(q))
<1>1. /\ p \in Seq(S) /\ Len(p) = i - 1
      /\ \A k \in 1..(i - 1) : p[k] = q[k]
  OBVIOUS
<1>2. /\ r \in Seq(S) /\ Len(r) = Len(q) - i
      /\ \A k \in 1..(Len(q) - i) : r[k] = q[i + k]
  OBVIOUS
<1>. HIDE DEF p, r
<1>3. /\ p \o r \in Seq(S) /\ Len(p \o r) = Len(p) + Len(r)
      /\ \A k \in 1..Len(p) : (p \o r)[k] = p[k]
      /\ \A k \in 1..Len(r) : (p \o r)[Len(p) + k] = r[k]
  BY <1>1, <1>2
<1>4. RemoveAt(q, i) = p \o r
  BY DEF RemoveAt, p, r
<1>5. Len(q) \in Nat /\ i \in Nat /\ Len(p \o r) = Len(q) - 1
  BY <1>1, <1>2, <1>3
<1>6. ASSUME NEW k \in 1..(Len(q) - 1)
      PROVE  (p \o r)[k] = IF k < i THEN q[k] ELSE q[k + 1]
  <2>1. CASE k < i
    BY <1>1, <1>3, <1>5, <2>1
  <2>2. CASE ~(k < i)
    <3>1. PICK j \in Nat : j = k - (i - 1)
      BY <1>5, <2>2
    <3>2. j \in 1..Len(r) /\ j \in 1..(Len(q) - i) /\ Len(p) + j = k /\ i + j = k + 1
      BY <1>1, <1>2, <1>5, <2>2, <3>1
    <3>3. (p \o r)[Len(p) + j] = r[j]
      BY <1>3, <3>2
    <3>4. r[j] = q[i + j]
      BY <1>2, <3>2
    <3>. QED BY <2>2, <3>2, <3>3, <3>4
  <2>. QED BY <2>1, <2>2
<1>. QED BY <1>3, <1>4, <1>5, <1>6

---------------------------------------------------------------------------
(* The invariant.                                                          *)

InboxTypes ==
  /\ present \in [Sessions -> BOOLEAN]
  /\ asks \in Seq([by : Sessions, kind : {"recv", "fetch"}, ref : {0} \cup Refs])
  /\ status \in Seq({"waiting", "answered", "failed"})
  /\ answer \in Seq(Answers)
  /\ socket \in [Sessions -> Seq(Lines)]
  /\ events \in Seq([kind : EventKinds, ref : {0} \cup Refs])
  /\ queue \in Seq(DOMAIN events)
  /\ waiters \in Seq(Asks)

CallTypes ==
  /\ state \in [Daemons -> CallStates]
  /\ tasks \in [Daemons -> SUBSET Tasks]
  /\ wire \in [Daemons -> Seq(Frames)]
  /\ up \in BOOLEAN
  /\ refs \subseteq Refs
  /\ shares \in 0..MaxShares
  /\ pending \subseteq Asks
  /\ owned \in [Sessions -> BOOLEAN]
  /\ seen \in [Sessions -> CallStates \cup {"NONE", "RINGING"}]
  /\ told \in [Sessions -> {"nothing", "connected", "resumed", "paused", "ended"}]
  /\ ended \in BOOLEAN
  /\ work \in Workloads
  /\ controls \in 0..work.controls
  /\ faults \in 0..work.faults

\* The events that have been taken have been given, each to one request.
GivenOnce ==
  /\ IsFiniteSet(Given)
  /\ Cardinality(Given) = Gone
  /\ {answer[i][2] : i \in Given} = 1..Gone
  /\ queue # <<>> => waiters = <<>>

\* What the inbox keeps true on its own.
AsksKnown ==
  /\ Len(status) = Len(asks) /\ Len(answer) = Len(asks) /\ Len(asks) <= MaxAsks
  /\ \A i \in DOMAIN asks : status[i] = "answered" => answer[i] # None

InboxInvariant ==
  /\ InboxTypes
  /\ AsksKnown
  /\ InLine
  /\ TakenInOrder
  /\ \A s \in Sessions : RepliesInOrder(s)
  /\ GivenOnce
  /\ FetchMatches

\* What the call adds.
PendingKnown ==
  \A i \in pending : i \in DOMAIN asks /\ asks[i].kind = "fetch"

CallInvariant ==
  /\ CallTypes
  /\ PendingKnown
  /\ FetchesMatch
  /\ OffersHeld
  /\ OfferedIsHeld
  /\ RefsFreed

\* The steps as the inbox sees them.
Answered(i, a) ==
  /\ Settle(i, a)
  /\ UNCHANGED <<present, asks, status, events, queue, waiters>>

FetchAsked(s, r, a) ==
  /\ Request(s, "fetch", r, a)
  /\ UNCHANGED <<present, events, queue, waiters>>

Polled(s, line) ==
  /\ socket' = Written(s, line)
  /\ UNCHANGED <<present, asks, status, answer, events, queue, waiters>>

PollRead(s) ==
  /\ socket[s] # <<>>
  /\ Head(socket[s]).ask = 0
  /\ socket' = [socket EXCEPT ![s] = Tail(@)]
  /\ UNCHANGED <<present, asks, status, answer, events, queue, waiters>>

InboxStep ==
  \/ UNCHANGED inbox
  \/ \E s \in Sessions : Recv(s)
  \/ \E s \in Sessions, r \in Refs, a \in {None, Error} : FetchAsked(s, r, a)
  \/ \E i \in DOMAIN asks : RecvTimeout(i)
  \/ \E i \in DOMAIN asks : \E a \in {Timeout, Error, Content(asks[i].ref)} :
       asks[i].kind = "fetch" /\ (a = Content(asks[i].ref) => asks[i].ref \in Refs)
         /\ Answered(i, a)
  \/ \E kind \in EventKinds, ref \in {0} \cup Refs : Push(kind, ref)
  \/ \E s \in Sessions : ReadReply(s)
  \/ \E i \in DOMAIN asks : ClientTimeout(i)
  \/ \E s \in Sessions : Exit(s)
  \/ \E s \in Sessions, st \in CallStates : Polled(s, Line(0, st))
  \/ \E s \in Sessions : PollRead(s)

---------------------------------------------------------------------------
(* Answers and requests.                                                   *)

\* Answers of different kinds differ.
LEMMA AnswersDiffer ==
  /\ None # Timeout /\ None # Error
  /\ \A n \in Nat : Event(n) # None /\ Event(n)[1] = "event" /\ Event(n)[2] = n
  /\ \A r \in Nat : Content(r) # None /\ Content(r)[1] # "event" /\ Content(r)[2] = r
  /\ Timeout[1] # "event" /\ Error[1] # "event"
  /\ \A r \in Nat : Content(r) # Timeout /\ Content(r) # Error
  /\ \A n, r \in Nat : Content(r) # Event(n)
  /\ \A q, r \in Nat : Content(r) = Content(q) => q = r
BY DEF None, Timeout, Error, Event, Content

\* The answers that the daemon gives are of the right type, and an event is
\* what it looks like.
LEMMA AnswerTypes ==
  /\ None \in Answers /\ Timeout \in Answers /\ Error \in Answers
  /\ \A n \in Nat : Event(n) \in Answers
  /\ \A r \in Refs : Content(r) \in Answers
  /\ \A a \in Answers : (a # None /\ a[1] = "event") => a[2] \in Nat /\ a = Event(a[2])
<1>1. \A a \in Answers : (a # None /\ a[1] = "event") => a[2] \in Nat /\ a = Event(a[2])
  <2>1. SUFFICES ASSUME NEW a \in Answers, a # None, a[1] = "event"
                 PROVE  a[2] \in Nat /\ a = Event(a[2])
    OBVIOUS
  <2>2. a # Timeout /\ a # Error
    BY <2>1, AnswersDiffer
  <2>3. CASE a \in {"event"} \X Nat
    BY <2>3 DEF Event
  <2>4. CASE a \in {"content"} \X Refs
    BY <2>1, <2>4
  <2>. QED BY <2>1, <2>2, <2>3, <2>4 DEF Answers
<1>. QED BY <1>1 DEF Answers, None, Timeout, Error, Event, Content

\* The types of TypeOK, in two parts.
LEMMA TypeParts == TypeOK <=> InboxTypes /\ CallTypes
BY DEF TypeOK, InboxTypes, CallTypes

\* The types of the requests.
LEMMA AskTypes ==
  ASSUME InboxTypes
  PROVE  /\ Len(asks) \in Nat /\ DOMAIN asks = 1..Len(asks)
         /\ \A i \in DOMAIN asks : /\ asks[i].by \in Sessions
                                  /\ asks[i].kind \in {"recv", "fetch"}
                                  /\ asks[i].ref \in {0} \cup Refs
<1>. DEFINE E == [by : Sessions, kind : {"recv", "fetch"}, ref : {0} \cup Refs]
<1>1. asks \in Seq(E)
  BY DEF InboxTypes
<1>2. /\ Len(asks) \in Nat /\ DOMAIN asks = 1..Len(asks)
      /\ \A i \in DOMAIN asks : asks[i] \in E
  <2>. HIDE DEF E
  <2>. QED BY <1>1, SequenceFacts
<1>. QED BY <1>2

\* Refs and requests are numbers.
LEMMA Numbers ==
  /\ MaxAsks \in Nat /\ MaxShares \in Nat
  /\ Asks \subseteq Nat /\ 0 \notin Asks /\ Refs \subseteq Nat /\ 0 \notin Refs
BY InboxAssumption, SessionsAssumption DEF Asks, Refs

---------------------------------------------------------------------------
(* What the parts of a step do.                                            *)

\* Requests stay what they are and keep the answer that they have.
Keeps ==
  /\ \A i \in DOMAIN asks : i \in DOMAIN asks' /\ asks'[i] = asks[i]
  /\ \A i \in DOMAIN answer :
       i \in DOMAIN answer' /\ (answer[i] # None => answer'[i] = answer[i])

\* No session reads an answer.
NothingRead ==
  \A i \in DOMAIN asks' :
    status'[i] = "answered" => i \in DOMAIN asks /\ status[i] = "answered"

\* No request is given an event; request i is given event n.
NothingGiven == Given' = Given /\ \A i \in Given : answer'[i] = answer[i]

GivesTo(i, n) ==
  /\ i \in DOMAIN asks' /\ i \notin Given /\ Given' = Given \cup {i}
  /\ answer'[i][2] = n /\ asks'[i].kind = "recv"
  /\ \A j \in Given : answer'[j] = answer[j]

\* At most line l is written, to s.
AtMostWritten(s, l) ==
  /\ socket' \in [Sessions -> Seq(Lines)]
  /\ \A r \in Sessions :
       socket'[r] = socket[r] \/ (r = s /\ socket'[r] = Append(socket[r], l))

\* Writing a line adds it to the one session's socket, or to none.
LEMMA WrittenEffect ==
  ASSUME InboxTypes, NEW s \in Sessions, NEW l \in Lines,
         socket' = socket \/ socket' = Written(s, l)
  PROVE  AtMostWritten(s, l)
<1>1. CASE socket' = socket
  BY <1>1 DEF AtMostWritten, InboxTypes
<1>2. CASE socket' = Written(s, l)
  <2>1. socket[s] \in Seq(Lines) /\ Append(socket[s], l) \in Seq(Lines)
    BY DEF InboxTypes
  <2>. QED BY <1>2, <2>1 DEF AtMostWritten, Written, InboxTypes
<1>. QED BY <1>1, <1>2

\* A request is appended, with the answer that the daemon has at once.
LEMMA RequestEffect ==
  ASSUME InboxTypes, AsksKnown, NEW s \in Sessions, NEW kind \in {"recv", "fetch"},
         NEW ref \in {0} \cup Refs, NEW a \in Answers, Request(s, kind, ref, a)
  PROVE  /\ asks' \in Seq([by : Sessions, kind : {"recv", "fetch"}, ref : {0} \cup Refs])
         /\ status' \in Seq({"waiting", "answered", "failed"})
         /\ answer' \in Seq(Answers)
         /\ Len(asks') = Len(asks) + 1 /\ Len(status') = Len(asks')
         /\ Len(answer') = Len(asks') /\ Len(asks') <= MaxAsks
         /\ \A i \in DOMAIN asks : asks'[i] = asks[i] /\ status'[i] = status[i]
                                     /\ answer'[i] = answer[i]
         /\ asks'[Len(asks')].by = s /\ asks'[Len(asks')].kind = kind
         /\ asks'[Len(asks')].ref = ref
         /\ status'[Len(asks')] = "waiting" /\ answer'[Len(asks')] = a
         /\ Len(asks') \in Asks
         /\ AtMostWritten(s, Line(Len(asks'), ""))
         /\ a = None => socket' = socket
<1>. DEFINE e == [by |-> s, kind |-> kind, ref |-> ref]
            E == [by : Sessions, kind : {"recv", "fetch"}, ref : {0} \cup Refs]
<1>1. e \in E /\ asks \in Seq(E) /\ asks' = Append(asks, e) /\ Len(asks) < MaxAsks
  BY DEF Request, InboxTypes
<1>2. status \in Seq({"waiting", "answered", "failed"}) /\ status' = Append(status, "waiting")
  BY DEF Request, InboxTypes
<1>3. answer \in Seq(Answers) /\ answer' = Append(answer, a)
  BY DEF Request, InboxTypes
<1>4. Len(status) = Len(asks) /\ Len(answer) = Len(asks) /\ Len(asks) \in Nat
  BY <1>1 DEF AsksKnown
<1>5. /\ asks' \in Seq(E) /\ Len(asks') = Len(asks) + 1 /\ asks'[Len(asks) + 1] = e
      /\ \A i \in 1..Len(asks) : asks'[i] = asks[i]
  <2>. HIDE DEF e, E
  <2>. QED BY <1>1, AppendFacts
<1>6. /\ status' \in Seq({"waiting", "answered", "failed"}) /\ Len(status') = Len(asks) + 1
      /\ status'[Len(asks) + 1] = "waiting"
      /\ \A i \in 1..Len(asks) : status'[i] = status[i]
  BY <1>2, <1>4, AppendFacts
<1>7. /\ answer' \in Seq(Answers) /\ Len(answer') = Len(asks) + 1
      /\ answer'[Len(asks) + 1] = a
      /\ \A i \in 1..Len(asks) : answer'[i] = answer[i]
  BY <1>3, <1>4, AppendFacts
<1>8. DOMAIN asks = 1..Len(asks)
  BY <1>1
<1>9. Len(asks') <= MaxAsks /\ Len(asks') \in Asks
  BY <1>1, <1>4, <1>5, Numbers DEF Asks
<1>10. Line(Len(asks'), "") \in Lines
  BY <1>9 DEF Lines, Line
<1>11. AtMostWritten(s, Line(Len(asks'), ""))
  <2>1. socket' = socket \/ socket' = Written(s, Line(Len(asks'), ""))
    BY <1>5 DEF Request
  <2>. QED BY <1>10, <2>1, WrittenEffect
<1>12. a = None => socket' = socket
  BY DEF Request
<1>13. /\ asks'[Len(asks')].by = s /\ asks'[Len(asks')].kind = kind
       /\ asks'[Len(asks')].ref = ref
  BY <1>5
<1>. HIDE DEF e, E
<1>. QED BY <1>5, <1>6, <1>7, <1>8, <1>9, <1>11, <1>12, <1>13 DEF E

\* Settling a request answers it, unless it has been, and writes the reply.
LEMMA SettleEffect ==
  ASSUME InboxTypes, AsksKnown, NEW i \in DOMAIN asks, NEW a \in Answers, Settle(i, a)
  PROVE  /\ answer' \in Seq(Answers) /\ Len(answer') = Len(asks)
         /\ \A j \in DOMAIN asks : j # i => answer'[j] = answer[j]
         /\ answer'[i] = IF answer[i] = None THEN a ELSE answer[i]
         /\ asks[i].by \in Sessions /\ AtMostWritten(asks[i].by, Line(i, ""))
<1>1. /\ answer \in Seq(Answers) /\ Len(answer) = Len(asks) /\ i \in 1..Len(answer)
      /\ DOMAIN asks = 1..Len(answer) /\ asks[i].by \in Sessions /\ i \in Asks
  <2>1. answer \in Seq(Answers) /\ Len(answer) = Len(asks) /\ Len(asks) <= MaxAsks
    BY DEF InboxTypes, AsksKnown
  <2>2. asks[i].by \in Sessions /\ DOMAIN asks = 1..Len(asks) /\ Len(asks) \in Nat
    BY AskTypes
  <2>. QED BY <2>1, <2>2, Numbers DEF Asks
<1>. DEFINE e == IF answer[i] = None THEN a ELSE answer[i]
<1>2. e \in Answers /\ answer' = [answer EXCEPT ![i] = e]
  <2>1. answer[i] \in Answers
    BY <1>1
  <2>2. answer' = [answer EXCEPT ![i] = IF answer[i] = None THEN a ELSE answer[i]]
    BY DEF Settle
  <2>. QED BY <2>1, <2>2
<1>3. /\ answer' \in Seq(Answers) /\ Len(answer') = Len(answer)
      /\ \A k \in 1..Len(answer) : answer'[k] = IF k = i THEN e ELSE answer[k]
  <2>. HIDE DEF e
  <2>. QED BY <1>1, <1>2, ExceptFacts
<1>4. Line(i, "") \in Lines
  BY <1>1 DEF Lines, Line
<1>5. AtMostWritten(asks[i].by, Line(i, ""))
  BY <1>1, <1>4, WrittenEffect DEF Settle
<1>. QED BY <1>1, <1>3, <1>5

\* What has an answer is given an event by no later step.
LEMMA GivenKept ==
  ASSUME Keeps
  PROVE  \A i \in DOMAIN answer : answer[i] # None =>
           answer'[i] = answer[i] /\ (i \in Given' <=> i \in Given)
BY DEF Keeps, Given

\* Line l may be written to session r: a reply to its own request, with an
\* event, if any, later than all that have been given.
LineFits(r, l) ==
  /\ l.ask = 0 => 0 \notin Given'
  /\ l.ask # 0 => /\ l.ask \in DOMAIN asks' /\ asks'[l.ask].by = r
                  /\ answer'[l.ask] # None
  /\ l.ask \in Given' => \A i \in Given : answer[i][2] <= answer'[l.ask][2]

\* The lines that r has yet to read become fewer, or l comes behind them.
SocketMoves(r, l) ==
  /\ socket'[r] \in Seq(Lines)
  /\ \/ socket'[r] = socket[r]
     \/ socket'[r] = <<>>
     \/ socket[r] # <<>> /\ socket'[r] = Tail(socket[r])
     \/ socket'[r] = Append(socket[r], l) /\ LineFits(r, l)

\* Each line is one that was there, in the same order, or the new last one.
LEMMA LinesMove ==
  ASSUME InboxTypes, NEW r \in Sessions, NEW l \in Lines, SocketMoves(r, l)
  PROVE  \E m \in {0, 1} : \A k \in DOMAIN socket'[r] :
           \/ k + m \in DOMAIN socket[r] /\ socket'[r][k] = socket[r][k + m]
           \/ LineFits(r, l) /\ socket'[r][k] = l /\ k = Len(socket'[r])
<1>1. socket[r] \in Seq(Lines) /\ socket'[r] \in Seq(Lines)
  BY DEF InboxTypes, SocketMoves
<1>2. CASE socket'[r] = socket[r]
  <2>1. \A k \in DOMAIN socket'[r] : k + 0 = k /\ k \in DOMAIN socket[r]
    BY <1>1, <1>2, SequenceFacts
  <2>. QED BY <1>2, <2>1
<1>3. CASE socket'[r] = <<>>
  BY <1>3
<1>4. CASE socket[r] # <<>> /\ socket'[r] = Tail(socket[r])
  <2>1. /\ Len(socket[r]) = Len(socket'[r]) + 1
        /\ \A k \in 1..Len(socket'[r]) : socket'[r][k] = socket[r][k + 1]
    BY <1>1, <1>4, TailFacts
  <2>2. DOMAIN socket'[r] = 1..Len(socket'[r]) /\ DOMAIN socket[r] = 1..Len(socket[r])
        /\ Len(socket'[r]) \in Nat
    BY <1>1, SequenceFacts
  <2>3. \A k \in DOMAIN socket'[r] :
          k + 1 \in DOMAIN socket[r] /\ socket'[r][k] = socket[r][k + 1]
    BY <2>1, <2>2
  <2>. QED BY <2>3
<1>5. CASE socket'[r] = Append(socket[r], l) /\ LineFits(r, l)
  <2>1. /\ Len(socket'[r]) = Len(socket[r]) + 1
        /\ \A k \in 1..Len(socket[r]) : socket'[r][k] = socket[r][k]
        /\ socket'[r][Len(socket[r]) + 1] = l
    BY <1>1, <1>5, AppendFacts
  <2>2. DOMAIN socket'[r] = 1..Len(socket'[r]) /\ DOMAIN socket[r] = 1..Len(socket[r])
        /\ Len(socket[r]) \in Nat
    BY <1>1, SequenceFacts
  <2>3. \A k \in DOMAIN socket'[r] :
          \/ k + 0 \in DOMAIN socket[r] /\ socket'[r][k] = socket[r][k + 0]
          \/ LineFits(r, l) /\ socket'[r][k] = l /\ k = Len(socket'[r])
    BY <1>5, <2>1, <2>2
  <2>. QED BY <2>3
<1>. QED BY <1>2, <1>3, <1>4, <1>5 DEF SocketMoves

\* The replies to r stay in order when no answer is read.
LEMMA RepliesStay ==
  ASSUME InboxTypes, AsksKnown, InboxTypes', AsksKnown', Keeps, NothingRead,
         NEW r \in Sessions, RepliesInOrder(r), NEW l \in Lines, SocketMoves(r, l)
  PROVE  RepliesInOrder(r)'
<1>. DEFINE q == socket[r]
            p == socket'[r]
<1>1. /\ q \in Seq(Lines) /\ p \in Seq(Lines) /\ Len(p) \in Nat /\ Len(q) \in Nat
      /\ DOMAIN p = 1..Len(p) /\ DOMAIN q = 1..Len(q)
  BY DEF InboxTypes
<1>2. /\ DOMAIN asks = DOMAIN answer /\ DOMAIN asks' = DOMAIN answer'
      /\ Given \subseteq DOMAIN asks /\ Given' \subseteq DOMAIN asks' /\ 0 \notin DOMAIN asks
      /\ 0 \notin DOMAIN asks'
  <2>1. DOMAIN asks = 1..Len(asks) /\ DOMAIN answer = 1..Len(answer)
    BY AskTypes, SequenceFacts DEF InboxTypes
  <2>2. DOMAIN asks' = 1..Len(asks') /\ DOMAIN answer' = 1..Len(answer')
    BY SequenceFacts DEF InboxTypes
  <2>. QED BY <2>1, <2>2 DEF AsksKnown, Given
<1>3. PICK m \in {0, 1} : \A k \in DOMAIN p :
           \/ k + m \in DOMAIN q /\ p[k] = q[k + m]
           \/ LineFits(r, l) /\ p[k] = l /\ k = Len(p)
  BY LinesMove
<1>4. ASSUME NEW k \in DOMAIN q
      PROVE  /\ q[k].ask # 0 => /\ q[k].ask \in DOMAIN asks /\ asks'[q[k].ask] = asks[q[k].ask]
                                /\ asks[q[k].ask].by = r /\ q[k].ask \in DOMAIN asks'
                                /\ answer'[q[k].ask] # None
             /\ q[k].ask \in Given' =>
                  q[k].ask \in Given /\ answer'[q[k].ask] = answer[q[k].ask]
  <2>1. CASE q[k].ask = 0
    BY <1>2, <2>1
  <2>2. CASE q[k].ask # 0
    <3>1. /\ q[k].ask \in DOMAIN asks /\ asks[q[k].ask].by = r /\ answer[q[k].ask] # None
      BY <2>2 DEF RepliesInOrder
    <3>. QED BY <1>2, <3>1, GivenKept DEF Keeps
  <2>. QED BY <2>1, <2>2
<1>5. \A k \in DOMAIN p : p[k].ask # 0 =>
        /\ p[k].ask \in DOMAIN asks' /\ asks'[p[k].ask].by = r /\ answer'[p[k].ask] # None
  <2>1. ASSUME NEW k \in DOMAIN p, p[k].ask # 0
        PROVE  /\ p[k].ask \in DOMAIN asks' /\ asks'[p[k].ask].by = r
               /\ answer'[p[k].ask] # None
    <3>1. CASE k + m \in DOMAIN q /\ p[k] = q[k + m]
      BY <1>4, <2>1, <3>1
    <3>2. CASE LineFits(r, l) /\ p[k] = l
      BY <2>1, <3>2 DEF LineFits
    <3>. QED BY <1>3, <3>1, <3>2
  <2>. QED BY <2>1
<1>6. ASSUME NEW j \in DOMAIN p, NEW k \in DOMAIN p,
             j < k, p[j].ask \in Given', p[k].ask \in Given'
      PROVE  answer'[p[j].ask][2] <= answer'[p[k].ask][2]
  <2>1. j # Len(p) /\ j \in Int /\ k \in Int
    BY <1>1, <1>6
  <2>2. j + m \in DOMAIN q /\ p[j] = q[j + m]
    BY <1>3, <2>1
  <2>3. p[j].ask \in Given /\ answer'[p[j].ask] = answer[p[j].ask]
    BY <1>4, <1>6, <2>2
  <2>4. CASE k + m \in DOMAIN q /\ p[k] = q[k + m]
    <3>1. p[k].ask \in Given /\ answer'[p[k].ask] = answer[p[k].ask] /\ j + m < k + m
      BY <1>4, <1>6, <2>1, <2>4
    <3>. QED BY <2>2, <2>3, <2>4, <3>1 DEF RepliesInOrder
  <2>5. CASE LineFits(r, l) /\ p[k] = l
    BY <1>6, <2>3, <2>5 DEF LineFits
  <2>. QED BY <1>3, <2>4, <2>5
<1>7. ASSUME NEW k \in DOMAIN p, NEW i \in Given',
             p[k].ask \in Given', asks'[i].by = r, status'[i] = "answered"
      PROVE  answer'[i][2] <= answer'[p[k].ask][2]
  <2>1. i \in DOMAIN asks /\ status[i] = "answered"
    BY <1>2, <1>7 DEF NothingRead
  <2>2. answer[i] # None /\ asks'[i] = asks[i]
    BY <2>1 DEF AsksKnown, Keeps
  <2>3. i \in Given /\ answer'[i] = answer[i] /\ asks[i].by = r
    BY <1>2, <1>7, <2>1, <2>2, GivenKept
  <2>4. CASE k + m \in DOMAIN q /\ p[k] = q[k + m]
    <3>1. p[k].ask \in Given /\ answer'[p[k].ask] = answer[p[k].ask]
      BY <1>4, <1>7, <2>4
    <3>. QED BY <2>1, <2>3, <2>4, <3>1 DEF RepliesInOrder
  <2>5. CASE LineFits(r, l) /\ p[k] = l
    BY <1>7, <2>3, <2>5 DEF LineFits
  <2>. QED BY <1>3, <2>4, <2>5
<1>. QED BY <1>5, <1>6, <1>7 DEF RepliesInOrder

\* A step that gives no event away leaves the queue what remains of them.
LEMMA QuietStep ==
  ASSUME InboxInvariant, Keeps, NothingGiven, queue' = queue, events' = events,
         queue' # <<>> => waiters' = <<>>
  PROVE  TakenInOrder' /\ GivenOnce'
<1>1. Gone' = Gone
  BY DEF Gone
<1>2. Given \subseteq DOMAIN asks
  BY AskTypes, SequenceFacts DEF InboxInvariant, InboxTypes, AsksKnown, Given
<1>3. TakenInOrder'
  BY <1>1, <1>2 DEF InboxInvariant, TakenInOrder, NothingGiven, Keeps
<1>4. {answer'[i][2] : i \in Given'} = {answer[i][2] : i \in Given}
  BY DEF NothingGiven
<1>5. GivenOnce'
  BY <1>1, <1>4 DEF InboxInvariant, GivenOnce, NothingGiven
<1>. QED BY <1>3, <1>5

\* A step that gives the next event to a request that has none.
LEMMA GivingStep ==
  ASSUME InboxInvariant, Keeps, NEW i, GivesTo(i, Gone + 1), Gone' = Gone + 1,
         Len(queue') <= Len(events'), \A k \in DOMAIN queue' : queue'[k] = Gone' + k,
         queue' # <<>> => waiters' = <<>>
  PROVE  TakenInOrder' /\ GivenOnce'
<1>1. /\ Gone \in Nat /\ IsFiniteSet(Given) /\ Cardinality(Given) = Gone
      /\ {answer[j][2] : j \in Given} = 1..Gone
  <2>1. IsFiniteSet(Given) /\ Cardinality(Given) = Gone /\ {answer[j][2] : j \in Given} = 1..Gone
    BY DEF InboxInvariant, GivenOnce
  <2>. QED BY <2>1, FS_CardinalityType
<1>2. Given \subseteq DOMAIN asks
  BY AskTypes, SequenceFacts DEF InboxInvariant, InboxTypes, AsksKnown, Given
<1>3. /\ Given' = Given \cup {i} /\ i \notin Given /\ answer'[i][2] = Gone + 1
      /\ asks'[i].kind = "recv" /\ \A j \in Given : answer'[j] = answer[j]
  BY DEF GivesTo
<1>4. IsFiniteSet(Given') /\ Cardinality(Given') = Gone'
  BY <1>1, <1>3, FS_AddElement
<1>5. {answer'[j][2] : j \in Given'} = {answer[j][2] : j \in Given} \cup {Gone + 1}
  BY <1>3
<1>6. {answer'[j][2] : j \in Given'} = 1..Gone'
  <2>1. ASSUME NEW n \in Nat
        PROVE  (1..n) \cup {n + 1} = 1..(n + 1)
    OBVIOUS
  <2>. QED BY <1>1, <1>5, <2>1
<1>7. ASSUME NEW j \in Given'
      PROVE  asks'[j].kind = "recv" /\ answer'[j][2] \in 1..Gone'
  <2>1. CASE j = i
    BY <1>1, <1>3, <2>1
  <2>2. CASE j \in Given
    <3>1. asks'[j] = asks[j] /\ asks[j].kind = "recv"
      BY <1>2, <2>2 DEF Keeps, InboxInvariant, TakenInOrder
    <3>. QED BY <1>6, <1>7, <3>1
  <2>. QED BY <1>3, <1>7, <2>1, <2>2
<1>8. TakenInOrder'
  BY <1>7 DEF TakenInOrder
<1>. QED BY <1>4, <1>6, <1>8 DEF GivenOnce

---------------------------------------------------------------------------
(* The steps of the inbox.                                                 *)

\* What follows from the request's being appended, whatever its answer.
LEMMA RequestKeeps ==
  ASSUME InboxInvariant, NEW s \in Sessions, NEW kind \in {"recv", "fetch"},
         NEW ref \in {0} \cup Refs, NEW a \in Answers, Request(s, kind, ref, a)
  PROVE  /\ AsksKnown' /\ Keeps /\ NothingRead
         /\ DOMAIN asks' = DOMAIN asks \cup {Len(asks')} /\ Len(asks') \notin DOMAIN asks
         /\ DOMAIN answer' = DOMAIN asks'
         /\ DOMAIN answer = DOMAIN asks
         /\ AtMostWritten(s, Line(Len(asks'), "")) /\ asks'[Len(asks')].by = s
         /\ asks'[Len(asks')].kind = kind /\ asks'[Len(asks')].ref = ref
         /\ answer'[Len(asks')] = a /\ Len(asks') \in Asks /\ (a = None => socket' = socket)
         /\ \A i \in DOMAIN asks : answer'[i] = answer[i]
<1>1. InboxTypes /\ AsksKnown
  BY DEF InboxInvariant
<1>7. /\ AtMostWritten(s, Line(Len(asks'), ""))
      /\ asks'[Len(asks')].by = s /\ asks'[Len(asks')].kind = kind
      /\ asks'[Len(asks')].ref = ref
      /\ answer'[Len(asks')] = a /\ Len(asks') \in Asks /\ (a = None => socket' = socket)
  <2>1. AtMostWritten(s, Line(Len(asks'), "")) /\ (a = None => socket' = socket)
    BY ZenonT(30), <1>1, RequestEffect
  <2>2. /\ asks'[Len(asks')].by = s /\ asks'[Len(asks')].kind = kind
        /\ asks'[Len(asks')].ref = ref
    BY ZenonT(30), <1>1, RequestEffect
  <2>3. answer'[Len(asks')] = a /\ Len(asks') \in Asks
    BY ZenonT(30), <1>1, RequestEffect
  <2>. QED BY <2>1, <2>2, <2>3
<1>2. /\ Len(asks') = Len(asks) + 1 /\ Len(status') = Len(asks')
      /\ Len(answer') = Len(asks') /\ Len(asks') <= MaxAsks
      /\ \A i \in DOMAIN asks : asks'[i] = asks[i] /\ status'[i] = status[i]
                                  /\ answer'[i] = answer[i]
      /\ status'[Len(asks')] = "waiting"
      /\ asks' \in Seq([by : Sessions, kind : {"recv", "fetch"}, ref : {0} \cup Refs])
      /\ answer' \in Seq(Answers)
  BY <1>1, RequestEffect
<1>3. /\ DOMAIN asks' = 1..Len(asks') /\ DOMAIN asks = 1..Len(asks) /\ Len(asks) \in Nat
      /\ DOMAIN answer' = 1..Len(answer')
      /\ DOMAIN answer = DOMAIN asks
  <2>1. DOMAIN answer' = 1..Len(answer') /\ DOMAIN asks' = 1..Len(asks')
    BY <1>2, SequenceFacts
  <2>2. DOMAIN answer = 1..Len(answer)
    BY <1>1, SequenceFacts DEF InboxTypes
  <2>. QED BY <1>1, <2>1, <2>2, AskTypes DEF AsksKnown
<1>4. DOMAIN asks' = DOMAIN asks \cup {Len(asks')} /\ Len(asks') \notin DOMAIN asks
      /\ DOMAIN answer' = DOMAIN asks'
  BY <1>2, <1>3
<1>5. \A i \in DOMAIN asks' : status'[i] = "answered" => i \in DOMAIN asks /\ status[i] = "answered"
  BY <1>2, <1>4
<1>6. AsksKnown'
  BY <1>1, <1>2, <1>5 DEF AsksKnown
<1>. QED BY <1>2, <1>3, <1>4, <1>5, <1>6, <1>7 DEF Keeps, NothingRead

\* The reply to a new request fits, when it brings no event or the next one.
LEMMA RequestReplies ==
  ASSUME InboxInvariant, InboxTypes', NEW s \in Sessions, NEW kind \in {"recv", "fetch"},
         NEW ref \in {0} \cup Refs, NEW a \in Answers, Request(s, kind, ref, a),
         (a # None /\ a[1] = "event") => \A i \in Given : answer[i][2] <= a[2]
  PROVE  \A r \in Sessions : RepliesInOrder(r)'
<1>. DEFINE l == Line(Len(asks'), "")
<1>1. InboxTypes /\ AsksKnown
  BY DEF InboxInvariant
<1>2. /\ AtMostWritten(s, l) /\ asks'[Len(asks')].by = s
      /\ answer'[Len(asks')] = a /\ Len(asks') \in Asks /\ (a = None => socket' = socket)
  BY RequestKeeps
<1>3. /\ AsksKnown' /\ Keeps /\ NothingRead /\ Len(asks') \in DOMAIN asks'
  BY RequestKeeps
<1>4. l \in Lines /\ l.ask = Len(asks') /\ l.ask # 0
  BY <1>2, Numbers DEF Lines, Line
<1>5. ASSUME NEW r \in Sessions
      PROVE  RepliesInOrder(r)'
  <2>1. SocketMoves(r, l)
    <3>1. CASE socket'[r] = socket[r]
      BY <1>2, <3>1 DEF SocketMoves, AtMostWritten
    <3>2. CASE r = s /\ a # None /\ socket'[r] = Append(socket[r], l)
      <4>1. LineFits(r, l)
        <5>1. l.ask \in Given' => a # None /\ a[1] = "event"
          BY <1>2, <1>4 DEF Given
        <5>2. l.ask \in Given' => \A i \in Given : answer[i][2] <= answer'[l.ask][2]
          BY <1>2, <1>4, <5>1
        <5>3. l.ask \in DOMAIN asks' /\ asks'[l.ask].by = r /\ answer'[l.ask] # None
          BY <1>2, <1>3, <1>4, <3>2
        <5>. HIDE DEF l
        <5>. QED BY <1>4, <5>2, <5>3 DEF LineFits
      <4>. QED BY <1>2, <3>2, <4>1 DEF SocketMoves, AtMostWritten
    <3>. QED BY <1>2, <3>1, <3>2 DEF AtMostWritten
  <2>2. RepliesInOrder(r)
    BY DEF InboxInvariant
  <2>. HIDE DEF l
  <2>. QED BY <1>1, <1>3, <1>4, <2>1, <2>2, RepliesStay
<1>. QED BY <1>5

\* A step that leaves the waiters alone and answers none of them keeps the line.
LEMMA LineStays ==
  ASSUME InLine, waiters' = waiters,
         \A i \in DOMAIN asks :
            i \in DOMAIN asks' /\ asks'[i] = asks[i] /\ answer'[i] = answer[i]
  PROVE  InLine'
<1>1. \A j, k \in DOMAIN waiters : waiters[j] = waiters[k] => j = k
  BY DEF InLine
<1>2. ASSUME NEW k \in DOMAIN waiters
      PROVE  /\ waiters[k] \in DOMAIN asks' /\ answer'[waiters[k]] = None
             /\ asks'[waiters[k]].kind = "recv"
  <2>1. PICK i \in DOMAIN asks : i = waiters[k]
    BY DEF InLine
  <2>2. answer[i] = None /\ asks[i].kind = "recv"
    BY <2>1 DEF InLine
  <2>. QED BY <2>1, <2>2
<1>. QED BY <1>1, <1>2 DEF InLine

\* fetchRef's request.
LEMMA FetchAskedStep ==
  ASSUME InboxInvariant, NEW s \in Sessions, NEW ref \in Refs, NEW a \in {None, Error},
         FetchAsked(s, ref, a)
  PROVE  InboxInvariant' /\ Keeps /\ NothingRead
<1>1. /\ Request(s, "fetch", ref, a) /\ a \in Answers /\ ref \in {0} \cup Refs
      /\ UNCHANGED <<present, events, queue, waiters>>
  BY AnswerTypes DEF FetchAsked
<1>2. InboxTypes /\ AsksKnown
  BY DEF InboxInvariant
<1>3. /\ AsksKnown' /\ Keeps /\ NothingRead /\ DOMAIN answer' = DOMAIN asks'
      /\ DOMAIN answer = DOMAIN asks /\ DOMAIN asks' = DOMAIN asks \cup {Len(asks')}
      /\ asks'[Len(asks')].ref = ref /\ asks'[Len(asks')].kind = "fetch"
      /\ answer'[Len(asks')] = a
      /\ \A i \in DOMAIN asks : answer'[i] = answer[i]
  BY <1>1, RequestKeeps
<1>4. InboxTypes'
  <2>1. /\ asks' \in Seq([by : Sessions, kind : {"recv", "fetch"}, ref : {0} \cup Refs])
        /\ status' \in Seq({"waiting", "answered", "failed"})
        /\ answer' \in Seq(Answers) /\ AtMostWritten(s, Line(Len(asks'), ""))
    BY <1>1, <1>2, RequestEffect
  <2>. QED BY <1>1, <1>2, <2>1 DEF InboxTypes, AtMostWritten
<1>5. NothingGiven
  <2>1. ~(a # None /\ a[1] = "event")
    BY AnswersDiffer
  <2>. QED BY <1>3, <2>1 DEF NothingGiven, Given
<1>6. TakenInOrder' /\ GivenOnce'
  BY <1>1, <1>3, <1>5, QuietStep DEF InboxInvariant, GivenOnce
<1>7. \A r \in Sessions : RepliesInOrder(r)'
  <2>1. ~(a # None /\ a[1] = "event")
    BY AnswersDiffer
  <2>. QED BY <1>1, <1>4, <2>1, RequestReplies
<1>8. InLine'
  <2>1. InLine /\ waiters' = waiters
    BY <1>1 DEF InboxInvariant
  <2>2. \A i \in DOMAIN asks : i \in DOMAIN asks' /\ asks'[i] = asks[i]
    BY <1>3 DEF Keeps
  <2>. QED BY <1>3, <2>1, <2>2, LineStays
<1>9. FetchMatches'
  <2>1. \A r \in Refs : a # Content(r)
    BY AnswersDiffer, Numbers
  <2>2. ASSUME NEW i \in DOMAIN asks', NEW r \in Refs, answer'[i] = Content(r)
        PROVE  asks'[i].kind = "fetch" /\ asks'[i].ref = r
    <3>1. i \in DOMAIN asks /\ answer[i] = Content(r)
      BY <1>3, <2>1, <2>2
    <3>2. asks[i].kind = "fetch" /\ asks[i].ref = r
      BY <1>3, <3>1 DEF InboxInvariant, FetchMatches
    <3>. QED BY <1>3, <3>1, <3>2 DEF Keeps
  <2>. QED BY <1>3, <2>2 DEF FetchMatches
<1>. QED BY <1>3, <1>4, <1>6, <1>7, <1>8, <1>9 DEF InboxInvariant

\* recv of a session that finds no event: it is the last in line.
LEMMA RecvWaitsStep ==
  ASSUME InboxInvariant, NEW s \in Sessions, Recv(s), queue = <<>>
  PROVE  InboxInvariant' /\ Keeps /\ NothingRead
<1>1. /\ Request(s, "recv", 0, None) /\ None \in Answers
      /\ waiters' = Append(waiters, Len(asks) + 1)
      /\ UNCHANGED <<queue, present, events>>
  BY AnswerTypes DEF Recv
<1>2. InboxTypes /\ AsksKnown
  BY DEF InboxInvariant
<1>3. /\ AsksKnown' /\ Keeps /\ NothingRead /\ DOMAIN answer' = DOMAIN asks'
      /\ DOMAIN answer = DOMAIN asks /\ DOMAIN asks' = DOMAIN asks \cup {Len(asks')}
      /\ Len(asks') \notin DOMAIN asks
      /\ asks'[Len(asks')].kind = "recv" /\ answer'[Len(asks')] = None
      /\ \A i \in DOMAIN asks : answer'[i] = answer[i]
  BY <1>1, RequestKeeps
<1>4. /\ asks' \in Seq([by : Sessions, kind : {"recv", "fetch"}, ref : {0} \cup Refs])
      /\ status' \in Seq({"waiting", "answered", "failed"})
      /\ answer' \in Seq(Answers) /\ AtMostWritten(s, Line(Len(asks'), ""))
      /\ Len(asks') = Len(asks) + 1 /\ Len(asks') \in Asks
  BY <1>1, <1>2, RequestEffect
<1>5. /\ waiters' \in Seq(Asks) /\ Len(waiters') = Len(waiters) + 1
      /\ \A k \in 1..Len(waiters) : waiters'[k] = waiters[k]
      /\ waiters'[Len(waiters')] = Len(asks')
  <2>1. waiters \in Seq(Asks) /\ waiters' = Append(waiters, Len(asks'))
    BY <1>1, <1>2, <1>4 DEF InboxTypes
  <2>2. PICK n \in Asks : n = Len(asks')
    BY <1>4
  <2>. QED BY <2>1, <2>2, AppendFacts
<1>6. InboxTypes'
  BY <1>1, <1>2, <1>4, <1>5 DEF InboxTypes, AtMostWritten
<1>7. NothingGiven
  BY <1>3 DEF NothingGiven, Given
<1>8. TakenInOrder' /\ GivenOnce'
  BY <1>1, <1>3, <1>7, QuietStep
<1>9. \A r \in Sessions : RepliesInOrder(r)'
  BY <1>1, <1>6, RequestReplies
<1>10. InLine'
  <2>1. /\ DOMAIN waiters = 1..Len(waiters) /\ DOMAIN waiters' = 1..Len(waiters')
        /\ Len(waiters) \in Nat
    BY <1>2, <1>5, SequenceFacts DEF InboxTypes
  <2>2. InLine
    BY DEF InboxInvariant
  <2>3. ASSUME NEW k \in DOMAIN waiters'
        PROVE  \/ k \in DOMAIN waiters /\ waiters'[k] = waiters[k] /\ waiters[k] \in DOMAIN asks
               \/ k = Len(waiters') /\ waiters'[k] = Len(asks')
    BY <1>5, <2>1, <2>2 DEF InLine
  <2>4. ASSUME NEW j \in DOMAIN waiters', NEW k \in DOMAIN waiters',
               waiters'[j] = waiters'[k]
        PROVE  j = k
    <3>1. \A i \in DOMAIN waiters : waiters[i] # Len(asks')
      BY <1>3, <2>2 DEF InLine
    <3>. QED BY <2>2, <2>3, <2>4, <3>1 DEF InLine
  <2>5. ASSUME NEW k \in DOMAIN waiters'
        PROVE  /\ waiters'[k] \in DOMAIN asks' /\ answer'[waiters'[k]] = None
               /\ asks'[waiters'[k]].kind = "recv"
    <3>1. CASE k \in DOMAIN waiters /\ waiters'[k] = waiters[k] /\ waiters[k] \in DOMAIN asks
      <4>1. answer[waiters[k]] = None /\ asks[waiters[k]].kind = "recv"
        BY <2>2, <3>1 DEF InLine
      <4>2. answer'[waiters[k]] = answer[waiters[k]] /\ waiters[k] \in DOMAIN asks'
        BY <1>3, <3>1
      <4>3. asks'[waiters[k]] = asks[waiters[k]]
        BY <1>3, <3>1 DEF Keeps
      <4>. QED BY <3>1, <4>1, <4>2, <4>3
    <3>2. CASE waiters'[k] = Len(asks')
      BY <1>3, <3>2
    <3>. QED BY <2>3, <3>1, <3>2
  <2>. QED BY <2>4, <2>5 DEF InLine
<1>11. FetchMatches'
  <2>1. \A r \in Refs : None # Content(r)
    BY AnswersDiffer, Numbers
  <2>2. ASSUME NEW i \in DOMAIN asks', NEW r \in Refs, answer'[i] = Content(r)
        PROVE  asks'[i].kind = "fetch" /\ asks'[i].ref = r
    <3>1. i \in DOMAIN asks /\ answer[i] = Content(r)
      BY <1>3, <2>1, <2>2
    <3>2. asks[i].kind = "fetch" /\ asks[i].ref = r
      BY <1>3, <3>1 DEF InboxInvariant, FetchMatches
    <3>. QED BY <1>3, <3>1, <3>2 DEF Keeps
  <2>. QED BY <1>3, <2>2 DEF FetchMatches
<1>. QED BY <1>3, <1>6, <1>8, <1>9, <1>10, <1>11 DEF InboxInvariant

\* recv of a session that finds an event: it takes the first.
LEMMA RecvTakesStep ==
  ASSUME InboxInvariant, NEW s \in Sessions, Recv(s), queue # <<>>
  PROVE  InboxInvariant' /\ Keeps /\ NothingRead
<1>1. /\ Request(s, "recv", 0, Event(Head(queue))) /\ queue' = Tail(queue)
      /\ UNCHANGED <<waiters, present, events>>
  BY DEF Recv, Taken
<1>2. InboxTypes /\ AsksKnown /\ TakenInOrder /\ InLine
  BY DEF InboxInvariant
<1>3. /\ queue \in Seq(DOMAIN events) /\ Len(events) \in Nat /\ Len(queue) \in Nat
      /\ DOMAIN events = 1..Len(events) /\ DOMAIN queue = 1..Len(queue)
  BY <1>2, SequenceFacts DEF InboxTypes
<1>4. /\ Head(queue) \in DOMAIN events /\ Head(queue) = queue[1] /\ 1 \in 1..Len(queue)
      /\ Tail(queue) \in Seq(DOMAIN events) /\ Len(queue) = Len(Tail(queue)) + 1
      /\ \A k \in 1..Len(Tail(queue)) : Tail(queue)[k] = queue[k + 1]
  BY <1>3, TailFacts
<1>5. Head(queue) = Gone + 1 /\ Head(queue) \in Nat /\ Gone \in Nat
  BY <1>2, <1>3, <1>4 DEF TakenInOrder, Gone
<1>. DEFINE a == Event(Head(queue))
<1>6. /\ a \in Answers /\ a # None /\ a[1] = "event" /\ a[2] = Gone + 1
  BY <1>5, AnswersDiffer, AnswerTypes
<1>. HIDE DEF a
<1>7. /\ AsksKnown' /\ Keeps /\ NothingRead /\ DOMAIN answer' = DOMAIN asks'
      /\ DOMAIN answer = DOMAIN asks /\ DOMAIN asks' = DOMAIN asks \cup {Len(asks')}
      /\ Len(asks') \notin DOMAIN asks
      /\ asks'[Len(asks')].kind = "recv" /\ answer'[Len(asks')] = a
      /\ \A i \in DOMAIN asks : answer'[i] = answer[i]
  BY <1>1, <1>6, RequestKeeps DEF a
<1>8. /\ asks' \in Seq([by : Sessions, kind : {"recv", "fetch"}, ref : {0} \cup Refs])
      /\ status' \in Seq({"waiting", "answered", "failed"})
      /\ answer' \in Seq(Answers) /\ AtMostWritten(s, Line(Len(asks'), ""))
  BY <1>1, <1>2, <1>6, RequestEffect DEF a
<1>9. InboxTypes'
  BY <1>1, <1>2, <1>4, <1>8 DEF InboxTypes, AtMostWritten
<1>10. GivesTo(Len(asks'), Gone + 1)
  BY <1>6, <1>7 DEF GivesTo, Given
<1>11. /\ Len(queue') <= Len(events') /\ Gone' = Gone + 1
       /\ \A k \in DOMAIN queue' : queue'[k] = Gone' + k
  <2>1. Gone' = Gone + 1 /\ Len(queue') <= Len(events')
    BY <1>1, <1>2, <1>3, <1>4 DEF Gone, TakenInOrder
  <2>2. DOMAIN queue' = 1..Len(queue') /\ Len(queue') \in Nat
    BY <1>1, <1>4, SequenceFacts
  <2>3. ASSUME NEW k \in DOMAIN queue'
        PROVE  queue'[k] = Gone' + k
    <3>1. k + 1 \in DOMAIN queue /\ queue'[k] = queue[k + 1] /\ k \in Nat
      BY <1>1, <1>3, <1>4, <2>2
    <3>2. queue[k + 1] = Gone + (k + 1)
      BY <1>2, <3>1 DEF TakenInOrder
    <3>. QED BY <1>5, <2>1, <3>1, <3>2
  <2>. QED BY <2>1, <2>3
<1>12. queue' # <<>> => waiters' = <<>>
  BY <1>1 DEF InboxInvariant, GivenOnce
<1>13. TakenInOrder' /\ GivenOnce'
  BY <1>7, <1>10, <1>11, <1>12, GivingStep
<1>14. \A r \in Sessions : RepliesInOrder(r)'
  <2>1. \A i \in Given : answer[i][2] <= a[2]
    BY <1>2, <1>5, <1>6 DEF TakenInOrder
  <2>2. Request(s, "recv", 0, a)
    BY <1>1 DEF a
  <2>. QED BY <1>6, <1>9, <2>1, <2>2, RequestReplies
<1>15. InLine'
  <2>1. waiters' = waiters
    BY <1>1
  <2>2. \A i \in DOMAIN asks : i \in DOMAIN asks' /\ asks'[i] = asks[i]
    BY <1>7 DEF Keeps
  <2>. QED BY <1>2, <1>7, <2>1, <2>2, LineStays
<1>16. FetchMatches'
  <2>1. \A r \in Refs : a # Content(r)
    BY <1>5, AnswersDiffer, Numbers DEF a
  <2>2. ASSUME NEW i \in DOMAIN asks', NEW r \in Refs, answer'[i] = Content(r)
        PROVE  asks'[i].kind = "fetch" /\ asks'[i].ref = r
    <3>1. i \in DOMAIN asks /\ answer[i] = Content(r)
      BY <1>7, <2>1, <2>2
    <3>2. asks[i].kind = "fetch" /\ asks[i].ref = r
      BY <1>7, <3>1 DEF InboxInvariant, FetchMatches
    <3>. QED BY <1>7, <3>1, <3>2 DEF Keeps
  <2>. QED BY <1>7, <2>2 DEF FetchMatches
<1>. QED BY <1>7, <1>9, <1>13, <1>14, <1>15, <1>16 DEF InboxInvariant

\* What follows from settling a request, whatever the answer.
LEMMA SettleKeeps ==
  ASSUME InboxInvariant, NEW i \in DOMAIN asks, NEW a \in Answers, Settle(i, a),
         asks' = asks, status' = status, a # None
  PROVE  /\ AsksKnown' /\ Keeps /\ NothingRead
         /\ answer' \in Seq(Answers) /\ DOMAIN answer = DOMAIN asks /\ DOMAIN answer' = DOMAIN asks
         /\ \A j \in DOMAIN asks : j # i => answer'[j] = answer[j]
         /\ answer'[i] = IF answer[i] = None THEN a ELSE answer[i]
         /\ asks[i].by \in Sessions /\ AtMostWritten(asks[i].by, Line(i, ""))
         /\ answer'[i] # None /\ i \in Asks
<1>1. InboxTypes /\ AsksKnown
  BY DEF InboxInvariant
<1>2. /\ answer' \in Seq(Answers) /\ Len(answer') = Len(asks)
      /\ \A j \in DOMAIN asks : j # i => answer'[j] = answer[j]
      /\ answer'[i] = IF answer[i] = None THEN a ELSE answer[i]
      /\ asks[i].by \in Sessions /\ AtMostWritten(asks[i].by, Line(i, ""))
  BY <1>1, SettleEffect
<1>3. /\ DOMAIN answer' = 1..Len(answer') /\ DOMAIN answer = 1..Len(answer)
      /\ DOMAIN asks = 1..Len(asks) /\ Len(asks) \in Nat
  BY <1>1, <1>2, SequenceFacts, AskTypes DEF InboxTypes
<1>4. DOMAIN answer = DOMAIN asks /\ DOMAIN answer' = DOMAIN asks /\ i \in Asks
  <2>1. Len(answer) = Len(asks) /\ Len(asks) <= MaxAsks
    BY <1>1 DEF AsksKnown
  <2>2. i \in Asks
    BY <1>3, <2>1, Numbers DEF Asks
  <2>. QED BY <1>2, <1>3, <2>1, <2>2
<1>5. answer'[i] # None
  BY <1>2
<1>6. AsksKnown'
  <2>1. \A j \in DOMAIN asks : status[j] = "answered" => answer'[j] # None
    BY <1>1, <1>2, <1>5 DEF AsksKnown
  <2>. QED BY <1>1, <1>2, <2>1 DEF AsksKnown
<1>7. Keeps
  BY <1>2, <1>4 DEF Keeps
<1>. QED BY <1>2, <1>4, <1>5, <1>6, <1>7 DEF NothingRead

\* Its reply fits, when it brings no event or the next one.
LEMMA SettleReplies ==
  ASSUME InboxInvariant, InboxTypes', NEW i \in DOMAIN asks, NEW a \in Answers, Settle(i, a),
         asks' = asks, status' = status, a # None, i \notin Given,
         a[1] = "event" => \A j \in Given : answer[j][2] <= a[2]
  PROVE  \A r \in Sessions : RepliesInOrder(r)'
<1>. DEFINE l == Line(i, "")
<1>1. InboxTypes /\ AsksKnown
  BY DEF InboxInvariant
<1>2. /\ AsksKnown' /\ Keeps /\ NothingRead
      /\ answer'[i] = IF answer[i] = None THEN a ELSE answer[i]
      /\ AtMostWritten(asks[i].by, l)
      /\ answer'[i] # None /\ i \in Asks /\ DOMAIN answer = DOMAIN asks
  BY SettleKeeps
<1>3. l \in Lines /\ l.ask = i /\ i # 0
  BY <1>2, Numbers DEF Lines, Line
<1>4. i \in Given' => \A j \in Given : answer[j][2] <= answer'[i][2]
  BY <1>2 DEF Given
<1>5. LineFits(asks[i].by, l)
  BY <1>2, <1>3, <1>4 DEF LineFits
<1>6. ASSUME NEW r \in Sessions
      PROVE  RepliesInOrder(r)'
  <2>1. SocketMoves(r, l)
    <3>. HIDE DEF l
    <3>. QED BY <1>2, <1>5 DEF SocketMoves, AtMostWritten
  <2>2. RepliesInOrder(r)
    BY DEF InboxInvariant
  <2>. HIDE DEF l
  <2>. QED BY <1>1, <1>2, <1>3, <2>1, <2>2, RepliesStay
<1>. QED BY <1>6

\* Settling a request with its ref's content, or none, gives nothing else away.
LEMMA SettleMatches ==
  ASSUME InboxInvariant, NEW i \in DOMAIN asks, NEW a \in Answers, Settle(i, a),
         asks' = asks, status' = status, a # None,
         \A r \in Refs : a = Content(r) => asks[i].kind = "fetch" /\ asks[i].ref = r
  PROVE  FetchMatches'
<1>1. /\ DOMAIN answer' = DOMAIN asks /\ DOMAIN answer = DOMAIN asks
      /\ \A j \in DOMAIN asks : j # i => answer'[j] = answer[j]
      /\ answer'[i] = IF answer[i] = None THEN a ELSE answer[i]
  BY SettleKeeps
<1>2. ASSUME NEW j \in DOMAIN asks, NEW r \in Refs, answer'[j] = Content(r)
      PROVE  asks[j].kind = "fetch" /\ asks[j].ref = r
  <2>1. CASE answer[j] = Content(r)
    BY <1>1, <2>1 DEF InboxInvariant, FetchMatches
  <2>2. CASE j = i /\ a = Content(r)
    BY <2>2
  <2>. QED BY <1>1, <1>2, <2>1, <2>2
<1>. QED BY <1>1, <1>2 DEF FetchMatches

\* A fetch is answered, or its timer fires.
LEMMA AnsweredStep ==
  ASSUME InboxInvariant, NEW i \in DOMAIN asks, asks[i].kind = "fetch",
         NEW a \in {Timeout, Error, Content(asks[i].ref)},
         a = Content(asks[i].ref) => asks[i].ref \in Refs,
         Answered(i, a)
  PROVE  InboxInvariant' /\ Keeps /\ NothingRead
<1>1. /\ Settle(i, a) /\ asks' = asks /\ status' = status
      /\ UNCHANGED <<present, events, queue, waiters>>
  BY DEF Answered
<1>2. InboxTypes /\ AsksKnown /\ TakenInOrder /\ InLine
  BY DEF InboxInvariant
<1>3. a \in Answers /\ a # None /\ a[1] # "event"
  <2>1. CASE a = Timeout \/ a = Error
    BY <2>1, AnswersDiffer, AnswerTypes
  <2>2. CASE a = Content(asks[i].ref)
    <3>1. asks[i].ref \in Refs /\ asks[i].ref \in Nat
      BY <2>2, Numbers
    <3>. QED BY <2>2, <3>1, AnswersDiffer, AnswerTypes
  <2>. QED BY <2>1, <2>2
<1>4. /\ AsksKnown' /\ Keeps /\ NothingRead
      /\ answer' \in Seq(Answers) /\ DOMAIN answer = DOMAIN asks /\ DOMAIN answer' = DOMAIN asks
      /\ \A j \in DOMAIN asks : j # i => answer'[j] = answer[j]
      /\ answer'[i] = IF answer[i] = None THEN a ELSE answer[i]
      /\ AtMostWritten(asks[i].by, Line(i, ""))
  BY <1>1, <1>3, SettleKeeps
<1>5. i \notin Given
  BY <1>2 DEF TakenInOrder
<1>6. NothingGiven
  <2>1. ~(answer'[i] # None /\ answer'[i][1] = "event")
    BY <1>3, <1>4, <1>5 DEF Given
  <2>2. ASSUME NEW j \in DOMAIN asks
        PROVE  j \in Given' <=> j \in Given
    BY <1>4, <1>5, <2>1 DEF Given
  <2>3. Given \subseteq DOMAIN asks /\ Given' \subseteq DOMAIN asks
    BY <1>4 DEF Given
  <2>4. Given' = Given
    BY <2>2, <2>3
  <2>5. \A j \in Given : answer'[j] = answer[j]
    BY <1>4, <1>5, <2>3
  <2>. QED BY <2>4, <2>5 DEF NothingGiven
<1>7. InboxTypes'
  BY <1>1, <1>2, <1>4 DEF InboxTypes, AtMostWritten
<1>8. TakenInOrder' /\ GivenOnce'
  <2>1. queue' # <<>> => waiters' = <<>>
    BY <1>1 DEF InboxInvariant, GivenOnce
  <2>. QED BY <1>1, <1>4, <1>6, <2>1, QuietStep
<1>9. \A r \in Sessions : RepliesInOrder(r)'
  BY <1>1, <1>3, <1>5, <1>7, SettleReplies
<1>10. InLine'
  <2>1. waiters' = waiters /\ \A k \in DOMAIN waiters : waiters[k] # i
    BY <1>1, <1>2 DEF InLine
  <2>. QED BY <1>1, <1>2, <1>4, <2>1 DEF InLine
<1>11. \A r \in Refs : a = Content(r) => asks[i].kind = "fetch" /\ asks[i].ref = r
  BY AnswersDiffer, Numbers
<1>12. FetchMatches'
  BY <1>1, <1>3, <1>11, SettleMatches
<1>. QED BY <1>4, <1>7, <1>8, <1>9, <1>10, <1>12 DEF InboxInvariant

\* The line stays right when the one at place k is settled and leaves it.
LEMMA LineShrinks ==
  ASSUME InboxInvariant, NEW k \in DOMAIN waiters, NEW a \in Answers, a # None,
         Settle(waiters[k], a), asks' = asks, status' = status,
         waiters' \in Seq(Asks), Len(waiters) = Len(waiters') + 1,
         \A j \in DOMAIN waiters' : waiters'[j] = IF j < k THEN waiters[j] ELSE waiters[j + 1]
  PROVE  InLine'
<1>1. InLine /\ waiters[k] \in DOMAIN asks
  BY DEF InboxInvariant, InLine
<1>2. \A j \in DOMAIN asks : j # waiters[k] => answer'[j] = answer[j]
  BY <1>1, SettleKeeps
<1>3. /\ DOMAIN waiters = 1..Len(waiters) /\ DOMAIN waiters' = 1..Len(waiters')
      /\ Len(waiters') \in Nat
  BY SequenceFacts DEF InboxInvariant, InboxTypes
<1>4. ASSUME NEW j \in DOMAIN waiters'
      PROVE  \E m \in DOMAIN waiters :
               m # k /\ waiters'[j] = waiters[m] /\ m = IF j < k THEN j ELSE j + 1
  BY <1>3
<1>5. ASSUME NEW j \in DOMAIN waiters'
      PROVE  /\ waiters'[j] \in DOMAIN asks /\ answer'[waiters'[j]] = None
             /\ asks[waiters'[j]].kind = "recv"
  <2>1. PICK m \in DOMAIN waiters : m # k /\ waiters'[j] = waiters[m]
    BY <1>4
  <2>2. waiters[m] # waiters[k] /\ waiters[m] \in DOMAIN asks /\ answer[waiters[m]] = None
        /\ asks[waiters[m]].kind = "recv"
    BY <1>1, <2>1 DEF InLine
  <2>. QED BY <1>2, <2>1, <2>2
<1>6. ASSUME NEW i \in DOMAIN waiters', NEW j \in DOMAIN waiters', waiters'[i] = waiters'[j]
      PROVE  i = j
  <2>1. PICK m \in DOMAIN waiters : waiters'[i] = waiters[m] /\ m = IF i < k THEN i ELSE i + 1
    BY <1>4
  <2>2. PICK n \in DOMAIN waiters : waiters'[j] = waiters[n] /\ n = IF j < k THEN j ELSE j + 1
    BY <1>4
  <2>3. m = n
    BY <1>1, <1>6, <2>1, <2>2 DEF InLine
  <2>. QED BY <1>3, <2>1, <2>2, <2>3
<1>. QED BY <1>5, <1>6 DEF InLine

\* The timer of one who waits in line.
LEMMA RecvTimeoutStep ==
  ASSUME InboxInvariant, NEW i \in DOMAIN asks, RecvTimeout(i)
  PROVE  InboxInvariant' /\ Keeps /\ NothingRead
<1>1. PICK k \in DOMAIN waiters : waiters[k] = i /\ waiters' = RemoveAt(waiters, k)
  BY DEF RecvTimeout, Without
<1>2. /\ Settle(i, Timeout) /\ asks' = asks /\ status' = status /\ answer[i] = None
      /\ UNCHANGED <<present, events, queue>>
  BY DEF RecvTimeout
<1>3. InboxTypes /\ AsksKnown /\ TakenInOrder /\ InLine
  BY DEF InboxInvariant
<1>4. Timeout \in Answers /\ Timeout # None /\ Timeout[1] # "event"
  BY AnswersDiffer, AnswerTypes
<1>5. /\ AsksKnown' /\ Keeps /\ NothingRead
      /\ answer' \in Seq(Answers) /\ DOMAIN answer = DOMAIN asks /\ DOMAIN answer' = DOMAIN asks
      /\ \A j \in DOMAIN asks : j # i => answer'[j] = answer[j]
      /\ answer'[i] = Timeout
      /\ AtMostWritten(asks[i].by, Line(i, ""))
  BY <1>2, <1>4, SettleKeeps
<1>6. /\ waiters' \in Seq(Asks) /\ Len(waiters) = Len(waiters') + 1
      /\ \A j \in DOMAIN waiters' : waiters'[j] = IF j < k THEN waiters[j] ELSE waiters[j + 1]
  <2>1. waiters \in Seq(Asks) /\ k \in 1..Len(waiters)
    BY <1>3 DEF InboxTypes
  <2>2. /\ RemoveAt(waiters, k) \in Seq(Asks) /\ Len(waiters) = Len(RemoveAt(waiters, k)) + 1
        /\ \A j \in 1..(Len(waiters) - 1) :
             RemoveAt(waiters, k)[j] = IF j < k THEN waiters[j] ELSE waiters[j + 1]
    BY <2>1, RemoveFacts
  <2>3. DOMAIN waiters' = 1..Len(waiters') /\ Len(waiters') \in Nat
    BY <1>1, <2>2, SequenceFacts
  <2>. QED BY <1>1, <2>2, <2>3
<1>7. i \notin Given
  BY <1>2 DEF Given
<1>8. NothingGiven
  BY <1>4, <1>5, <1>7 DEF NothingGiven, Given
<1>9. InboxTypes'
  BY <1>2, <1>3, <1>5, <1>6 DEF InboxTypes, AtMostWritten
<1>10. TakenInOrder' /\ GivenOnce'
  <2>1. waiters # <<>>
    BY <1>1
  <2>2. queue' = <<>>
    BY <1>2, <2>1 DEF InboxInvariant, GivenOnce
  <2>. QED BY <1>2, <1>5, <1>8, <2>2, QuietStep
<1>11. \A r \in Sessions : RepliesInOrder(r)'
  BY <1>2, <1>4, <1>7, <1>9, SettleReplies
<1>12. InLine'
  BY <1>1, <1>2, <1>4, <1>6, LineShrinks
<1>13. \A r \in Refs : Timeout = Content(r) => asks[i].kind = "fetch" /\ asks[i].ref = r
  BY AnswersDiffer, Numbers
<1>14. FetchMatches'
  BY <1>2, <1>4, <1>13, SettleMatches
<1>. QED BY <1>5, <1>9, <1>10, <1>11, <1>12, <1>14 DEF InboxInvariant

\* push while nobody waits: the event is queued.
LEMMA PushQueuesStep ==
  ASSUME InboxInvariant, NEW kind \in EventKinds, NEW ref \in {0} \cup Refs,
         Push(kind, ref), waiters = <<>>
  PROVE  InboxInvariant' /\ Keeps /\ NothingRead
<1>. DEFINE e == [kind |-> kind, ref |-> ref]
            E == [kind : EventKinds, ref : {0} \cup Refs]
<1>1. /\ events' = Append(events, e) /\ queue' = Append(queue, Len(events) + 1)
      /\ UNCHANGED <<waiters, answer, socket, present, asks, status>> /\ e \in E
  BY DEF Push
<1>2. InboxTypes /\ AsksKnown /\ TakenInOrder /\ InLine /\ events \in Seq(E)
  BY DEF InboxInvariant, InboxTypes
<1>3. events' \in Seq(E) /\ Len(events') = Len(events) + 1 /\ Len(events) \in Nat
      /\ DOMAIN events = 1..Len(events) /\ DOMAIN events' = 1..(Len(events) + 1)
  <2>. HIDE DEF e, E
  <2>. QED BY <1>1, <1>2, AppendFacts, SequenceFacts
<1>4. /\ queue' \in Seq(DOMAIN events') /\ Len(queue') = Len(queue) + 1 /\ Len(queue) \in Nat
      /\ DOMAIN queue = 1..Len(queue) /\ DOMAIN queue' = 1..Len(queue')
      /\ \A k \in 1..Len(queue) : queue'[k] = queue[k]
      /\ queue'[Len(queue) + 1] = Len(events) + 1
  <2>1. queue \in Seq(DOMAIN events)
    BY <1>2 DEF InboxTypes
  <2>2. DOMAIN events \subseteq DOMAIN events' /\ Len(events) + 1 \in DOMAIN events'
    BY <1>3
  <2>3. queue \in Seq(DOMAIN events')
    BY <2>1, <2>2
  <2>4. PICK n \in DOMAIN events' : n = Len(events) + 1
    BY <2>2
  <2>. QED BY <1>1, <2>3, <2>4, AppendFacts, SequenceFacts
<1>5. InboxTypes' /\ AsksKnown' /\ Keeps /\ NothingRead
  BY <1>1, <1>2, <1>3, <1>4 DEF InboxTypes, AsksKnown, Keeps, NothingRead
<1>6. Given' = Given /\ Gone' = Gone /\ Gone \in Int
  BY <1>1, <1>3, <1>4 DEF Given, Gone
<1>7. TakenInOrder'
  <2>1. \A k \in DOMAIN queue' : queue'[k] = Gone + k
    <3>1. \A k \in DOMAIN queue : queue[k] = Gone + k
      BY <1>2 DEF TakenInOrder
    <3>2. Gone + (Len(queue) + 1) = Len(events) + 1
      BY <1>3, <1>4 DEF Gone
    <3>3. \A k \in 1..(Len(queue) + 1) : k \in 1..Len(queue) \/ k = Len(queue) + 1
      BY <1>4
    <3>. QED BY <1>4, <3>1, <3>2, <3>3
  <2>. QED BY <1>1, <1>2, <1>3, <1>4, <1>6, <2>1 DEF TakenInOrder
<1>8. GivenOnce'
  BY <1>1, <1>6 DEF InboxInvariant, GivenOnce
<1>9. \A r \in Sessions : RepliesInOrder(r)'
  BY <1>1, <1>6 DEF InboxInvariant, RepliesInOrder
<1>10. InLine' /\ FetchMatches'
  BY <1>1 DEF InboxInvariant, InLine, FetchMatches
<1>. QED BY <1>5, <1>7, <1>8, <1>9, <1>10 DEF InboxInvariant

\* push while somebody waits: the first in line gets the event.
LEMMA PushGivesStep ==
  ASSUME InboxInvariant, NEW kind \in EventKinds, NEW ref \in {0} \cup Refs,
         Push(kind, ref), waiters # <<>>
  PROVE  InboxInvariant' /\ Keeps /\ NothingRead
<1>. DEFINE e == [kind |-> kind, ref |-> ref]
            E == [kind : EventKinds, ref : {0} \cup Refs]
            a == Event(Len(events) + 1)
            i == Head(waiters)
<1>1. /\ events' = Append(events, e) /\ waiters' = Tail(waiters) /\ Settle(i, a)
      /\ UNCHANGED <<queue, present, asks, status>> /\ e \in E
  BY DEF Push
<1>2. InboxTypes /\ AsksKnown /\ TakenInOrder /\ InLine /\ events \in Seq(E)
  BY DEF InboxInvariant, InboxTypes
<1>3. events' \in Seq(E) /\ Len(events') = Len(events) + 1 /\ Len(events) \in Nat
      /\ DOMAIN events = 1..Len(events) /\ DOMAIN events' = 1..(Len(events) + 1)
  <2>. HIDE DEF e, E
  <2>. QED BY <1>1, <1>2, AppendFacts, SequenceFacts
<1>4. /\ i \in Asks /\ i = waiters[1] /\ 1 \in DOMAIN waiters
      /\ waiters' \in Seq(Asks) /\ Len(waiters) = Len(waiters') + 1
      /\ \A j \in DOMAIN waiters' : waiters'[j] = IF j < 1 THEN waiters[j] ELSE waiters[j + 1]
  <2>1. waiters \in Seq(Asks) /\ DOMAIN waiters = 1..Len(waiters)
    BY <1>2, SequenceFacts DEF InboxTypes
  <2>2. /\ i \in Asks /\ i = waiters[1] /\ 1 \in 1..Len(waiters)
        /\ waiters' \in Seq(Asks) /\ Len(waiters) = Len(waiters') + 1
        /\ \A j \in 1..Len(waiters') : waiters'[j] = waiters[j + 1]
    BY <1>1, <2>1, TailFacts
  <2>3. DOMAIN waiters' = 1..Len(waiters')
    BY <2>2, SequenceFacts
  <2>. QED BY <2>1, <2>2, <2>3
<1>5. i \in DOMAIN asks /\ answer[i] = None /\ asks[i].kind = "recv"
  BY <1>2, <1>4 DEF InLine
<1>6. queue = <<>> /\ Gone = Len(events) /\ Gone' = Gone + 1
  <2>1. queue = <<>>
    BY DEF InboxInvariant, GivenOnce
  <2>. QED BY <1>1, <1>3, <2>1 DEF Gone
<1>7. a \in Answers /\ a # None /\ a[1] = "event" /\ a[2] = Gone + 1
  BY <1>3, <1>6, AnswersDiffer, AnswerTypes
<1>. HIDE DEF a, i
<1>8. /\ AsksKnown' /\ Keeps /\ NothingRead
      /\ answer' \in Seq(Answers) /\ DOMAIN answer = DOMAIN asks /\ DOMAIN answer' = DOMAIN asks
      /\ \A j \in DOMAIN asks : j # i => answer'[j] = answer[j]
      /\ answer'[i] = a
      /\ AtMostWritten(asks[i].by, Line(i, ""))
  BY <1>1, <1>5, <1>7, SettleKeeps
<1>9. i \notin Given
  BY <1>5 DEF Given
<1>10. GivesTo(i, Gone + 1)
  <2>1. ASSUME NEW j \in DOMAIN asks
        PROVE  j \in Given' <=> j \in Given \cup {i}
    BY <1>7, <1>8, <1>9 DEF Given
  <2>2. Given \subseteq DOMAIN asks /\ Given' \subseteq DOMAIN asks /\ i \in DOMAIN asks
    BY <1>1, <1>5, <1>8 DEF Given
  <2>3. Given' = Given \cup {i}
    BY <2>1, <2>2
  <2>4. \A j \in Given : answer'[j] = answer[j]
    BY <1>8, <1>9, <2>2
  <2>5. i \in DOMAIN asks' /\ asks'[i].kind = "recv"
    BY <1>1, <1>5
  <2>. QED BY <1>7, <1>8, <1>9, <2>3, <2>4, <2>5 DEF GivesTo
<1>11. InboxTypes'
  <2>1. queue' \in Seq(DOMAIN events')
    BY <1>1, <1>6
  <2>. QED BY <1>1, <1>2, <1>3, <1>4, <1>8, <2>1 DEF InboxTypes, AtMostWritten
<1>12. TakenInOrder' /\ GivenOnce'
  <2>1. queue' = <<>> /\ Len(queue') <= Len(events') /\ DOMAIN queue' = {}
    BY <1>1, <1>3, <1>6
  <2>. QED BY <1>6, <1>8, <1>10, <2>1, GivingStep
<1>13. \A r \in Sessions : RepliesInOrder(r)'
  <2>1. \A j \in Given : answer[j][2] <= a[2]
    BY <1>2, <1>3, <1>6, <1>7 DEF TakenInOrder
  <2>. QED BY <1>1, <1>5, <1>7, <1>9, <1>11, <2>1, SettleReplies
<1>14. InLine'
  <2>1. Settle(waiters[1], a)
    BY <1>1, <1>4
  <2>. QED BY <1>1, <1>4, <1>7, <2>1, LineShrinks
<1>15. \A r \in Refs : a # Content(r)
  <2>1. Len(events) + 1 \in Nat
    BY <1>3
  <2>. QED BY <2>1, AnswersDiffer, Numbers DEF a
<1>16. FetchMatches'
  BY <1>1, <1>5, <1>7, <1>15, SettleMatches
<1>. QED BY <1>8, <1>11, <1>12, <1>13, <1>14, <1>16 DEF InboxInvariant

\* A line comes or is read that is no reply.
LEMMA PollStep ==
  ASSUME InboxInvariant, NEW s \in Sessions, NEW st \in CallStates,
         Polled(s, Line(0, st)) \/ PollRead(s)
  PROVE  InboxInvariant' /\ Keeps /\ NothingRead
<1>. DEFINE l == Line(0, st)
<1>1. UNCHANGED <<present, asks, status, answer, events, queue, waiters>>
  BY DEF Polled, PollRead
<1>2. InboxTypes /\ AsksKnown
  BY DEF InboxInvariant
<1>3. l \in Lines /\ l.ask = 0
  BY DEF Lines, Line
<1>4. Keeps /\ NothingRead /\ Given' = Given /\ Gone' = Gone /\ AsksKnown'
  BY <1>1, <1>2 DEF Keeps, NothingRead, Given, Gone, AsksKnown
<1>5. 0 \notin Given'
  BY <1>2, <1>4, SequenceFacts DEF Given, InboxTypes
<1>6. LineFits(s, l)
  BY <1>3, <1>5 DEF LineFits
<1>7. /\ socket' \in [Sessions -> Seq(Lines)]
      /\ \A r \in Sessions : SocketMoves(r, l)
  <2>1. CASE Polled(s, l)
    <3>1. AtMostWritten(s, l)
      BY <1>2, <1>3, <2>1, WrittenEffect DEF Polled
    <3>. HIDE DEF l
    <3>. QED BY <1>6, <3>1 DEF AtMostWritten, SocketMoves
  <2>2. CASE PollRead(s)
    <3>1. socket \in [Sessions -> Seq(Lines)] /\ Tail(socket[s]) \in Seq(Lines)
      BY <1>2, <2>2, TailFacts DEF InboxTypes, PollRead
    <3>2. socket[s] # <<>> /\ socket' = [socket EXCEPT ![s] = Tail(socket[s])]
      BY <2>2 DEF PollRead
    <3>3. socket' \in [Sessions -> Seq(Lines)]
      BY <3>1, <3>2
    <3>4. ASSUME NEW r \in Sessions
          PROVE  SocketMoves(r, l)
      <4>1. CASE r = s
        BY <3>1, <3>2, <4>1 DEF SocketMoves
      <4>2. CASE r # s
        BY <3>1, <3>2, <4>2 DEF SocketMoves
      <4>. QED BY <4>1, <4>2
    <3>. QED BY <3>3, <3>4
  <2>. QED BY <2>1, <2>2
<1>8. InboxTypes'
  BY <1>1, <1>2, <1>7 DEF InboxTypes
<1>9. \A r \in Sessions : RepliesInOrder(r)'
  <2>1. \A r \in Sessions : RepliesInOrder(r) /\ SocketMoves(r, l)
    BY <1>7 DEF InboxInvariant
  <2>. HIDE DEF l
  <2>. QED BY <1>2, <1>3, <1>4, <1>8, <2>1, RepliesStay
<1>10. InLine' /\ FetchMatches' /\ TakenInOrder' /\ GivenOnce'
  <2>1. InLine' /\ FetchMatches'
    BY <1>1 DEF InboxInvariant, InLine, FetchMatches
  <2>2. TakenInOrder'
    BY <1>1, <1>4 DEF InboxInvariant, TakenInOrder
  <2>3. GivenOnce'
    BY <1>1, <1>4 DEF InboxInvariant, GivenOnce
  <2>. QED BY <2>1, <2>2, <2>3
<1>. QED BY <1>4, <1>8, <1>9, <1>10 DEF InboxInvariant

\* Requests are given up, and sockets closed.
LEMMA GivenUpKeeps ==
  ASSUME InboxInvariant, UNCHANGED <<asks, answer, events, queue, waiters>>,
         status' \in Seq({"waiting", "answered", "failed"}), Len(status') = Len(status),
         \A i \in DOMAIN asks : status'[i] = "answered" => status[i] = "answered",
         present' \in [Sessions -> BOOLEAN], socket' \in [Sessions -> Seq(Lines)],
         \A r \in Sessions : socket'[r] = socket[r] \/ socket'[r] = <<>>
  PROVE  InboxInvariant' /\ Keeps /\ NothingRead
<1>1. InboxTypes /\ AsksKnown
  BY DEF InboxInvariant
<1>2. InboxTypes'
  BY <1>1 DEF InboxTypes
<1>3. AsksKnown'
  BY <1>1 DEF AsksKnown
<1>4. Keeps /\ NothingRead /\ Given' = Given /\ Gone' = Gone
  BY DEF Keeps, NothingRead, Given, Gone
<1>5. InLine' /\ FetchMatches'
  BY DEF InboxInvariant, InLine, FetchMatches
<1>6. TakenInOrder'
  BY <1>4 DEF InboxInvariant, TakenInOrder
<1>7. GivenOnce'
  BY <1>4 DEF InboxInvariant, GivenOnce
<1>8. ASSUME NEW r \in Sessions
      PROVE  RepliesInOrder(r)'
  <2>1. Line(0, "CLOSED") \in Lines
    BY DEF Line, Lines, CallStates
  <2>2. SocketMoves(r, Line(0, "CLOSED"))
    BY DEF SocketMoves
  <2>3. RepliesInOrder(r)
    BY DEF InboxInvariant
  <2>. QED BY <1>1, <1>2, <1>3, <1>4, <2>1, <2>2, <2>3, RepliesStay
<1>. QED BY <1>2, <1>3, <1>4, <1>5, <1>6, <1>7, <1>8 DEF InboxInvariant

\* A session ends.
LEMMA ExitStep ==
  ASSUME InboxInvariant, NEW s \in Sessions, Exit(s)
  PROVE  InboxInvariant' /\ Keeps /\ NothingRead
<1>. DEFINE St == {"waiting", "answered", "failed"}
<1>1. InboxTypes /\ AsksKnown
  BY DEF InboxInvariant
<1>2. /\ DOMAIN status = 1..Len(status) /\ Len(status) \in Nat /\ DOMAIN asks = 1..Len(asks)
      /\ Len(status) = Len(asks)
      /\ \A i \in DOMAIN status : status[i] \in St
  BY <1>1, SequenceFacts, AskTypes DEF InboxTypes, AsksKnown
<1>3. status' = [i \in DOMAIN status |->
                   IF asks[i].by = s /\ status[i] = "waiting" THEN "failed" ELSE status[i]]
  BY DEF Exit
<1>4. status' \in [1..Len(status) -> St]
  BY <1>2, <1>3
<1>5. status' \in Seq(St) /\ Len(status') = Len(status)
  <2>. HIDE DEF St
  <2>. QED BY <1>2, <1>4, FunctionFacts
<1>6. \A i \in DOMAIN asks : status'[i] = "answered" => status[i] = "answered"
  BY <1>2, <1>3
<1>7. /\ present' \in [Sessions -> BOOLEAN] /\ socket' \in [Sessions -> Seq(Lines)]
      /\ \A r \in Sessions : socket'[r] = socket[r] \/ socket'[r] = <<>>
  BY <1>1 DEF Exit, InboxTypes
<1>8. UNCHANGED <<asks, answer, events, queue, waiters>>
  BY DEF Exit
<1>. QED BY <1>5, <1>6, <1>7, <1>8, GivenUpKeeps

\* A client's timer fires.
LEMMA ClientTimeoutStep ==
  ASSUME InboxInvariant, NEW i \in DOMAIN asks, ClientTimeout(i)
  PROVE  InboxInvariant' /\ Keeps /\ NothingRead
<1>. DEFINE St == {"waiting", "answered", "failed"}
<1>1. InboxTypes /\ AsksKnown
  BY DEF InboxInvariant
<1>2. status \in Seq(St) /\ i \in 1..Len(status) /\ DOMAIN asks = 1..Len(status)
  BY <1>1, AskTypes DEF InboxTypes, AsksKnown
<1>3. status' = [status EXCEPT ![i] = "failed"]
      /\ UNCHANGED <<present, socket, asks, answer, events, queue, waiters>>
  BY DEF ClientTimeout
<1>4. /\ status' \in Seq(St) /\ Len(status') = Len(status)
      /\ \A k \in 1..Len(status) : status'[k] = IF k = i THEN "failed" ELSE status[k]
  <2>1. "failed" \in St
    OBVIOUS
  <2>. HIDE DEF St
  <2>. QED BY <1>2, <1>3, <2>1, ExceptFacts
<1>5. present' \in [Sessions -> BOOLEAN] /\ socket' \in [Sessions -> Seq(Lines)]
  BY <1>1, <1>3 DEF InboxTypes
<1>. QED BY <1>2, <1>3, <1>4, <1>5, GivenUpKeeps

\* A session reads a reply.
LEMMA ReadReplyStep ==
  ASSUME InboxInvariant, NEW s \in Sessions, ReadReply(s)
  PROVE  /\ InboxInvariant' /\ Keeps
         /\ UNCHANGED <<asks, answer>>
         /\ \A n \in HasRead(s)' \ HasRead(s), m \in HasRead(s) : m < n
         /\ \A r \in Sessions \ {s} : HasRead(r)' \subseteq HasRead(r)
<1>. DEFINE St == {"waiting", "answered", "failed"}
            i == Head(socket[s]).ask
<1>1. /\ socket[s] # <<>> /\ i # 0
      /\ socket' = [socket EXCEPT ![s] = Tail(socket[s])]
      /\ UNCHANGED <<present, asks, answer, events, queue, waiters>>
      /\ status' = [status EXCEPT ![i] = IF status[i] = "waiting" THEN "answered" ELSE status[i]]
  BY DEF ReadReply
<1>2. InboxTypes /\ AsksKnown /\ RepliesInOrder(s) /\ TakenInOrder
  BY DEF InboxInvariant
<1>3. /\ socket[s] \in Seq(Lines) /\ Head(socket[s]) = socket[s][1]
      /\ DOMAIN socket[s] = 1..Len(socket[s]) /\ 1 \in DOMAIN socket[s]
      /\ Tail(socket[s]) \in Seq(Lines) /\ Len(socket[s]) = Len(Tail(socket[s])) + 1
      /\ DOMAIN Tail(socket[s]) = 1..Len(Tail(socket[s]))
      /\ \A k \in 1..Len(Tail(socket[s])) : Tail(socket[s])[k] = socket[s][k + 1]
  <2>1. socket[s] \in Seq(Lines)
    BY <1>2 DEF InboxTypes
  <2>2. /\ Head(socket[s]) = socket[s][1] /\ 1 \in 1..Len(socket[s])
        /\ Tail(socket[s]) \in Seq(Lines) /\ Len(socket[s]) = Len(Tail(socket[s])) + 1
        /\ \A k \in 1..Len(Tail(socket[s])) : Tail(socket[s])[k] = socket[s][k + 1]
    BY <1>1, <2>1, TailFacts
  <2>. QED BY <2>1, <2>2, SequenceFacts
<1>4. i \in DOMAIN asks /\ asks[i].by = s /\ answer[i] # None
  BY <1>1, <1>2, <1>3 DEF RepliesInOrder
<1>. HIDE DEF i
<1>5. /\ status' \in Seq(St) /\ Len(status') = Len(status)
      /\ \A j \in DOMAIN asks : j # i => status'[j] = status[j]
      /\ DOMAIN asks = 1..Len(status)
  <2>1. status \in Seq(St) /\ DOMAIN asks = 1..Len(status) /\ status[i] \in St
    BY <1>2, <1>4, AskTypes DEF InboxTypes, AsksKnown
  <2>2. (IF status[i] = "waiting" THEN "answered" ELSE status[i]) \in St
    BY <2>1
  <2>. HIDE DEF St
  <2>. QED BY <1>1, <1>4, <2>1, <2>2, ExceptFacts
<1>6. /\ socket' \in [Sessions -> Seq(Lines)] /\ socket'[s] = Tail(socket[s])
      /\ \A r \in Sessions \ {s} : socket'[r] = socket[r]
  BY <1>1, <1>2, <1>3 DEF InboxTypes
<1>7. InboxTypes' /\ AsksKnown'
  <2>1. InboxTypes'
    BY <1>1, <1>2, <1>5, <1>6 DEF InboxTypes
  <2>2. \A j \in DOMAIN asks : status'[j] = "answered" => answer[j] # None
    BY <1>2, <1>4, <1>5 DEF AsksKnown
  <2>. QED BY <1>1, <1>2, <1>5, <2>1, <2>2 DEF AsksKnown
<1>8. Keeps /\ Given' = Given /\ Gone' = Gone /\ Given \subseteq DOMAIN asks
  <2>1. DOMAIN asks = DOMAIN answer
    BY <1>2, SequenceFacts, AskTypes DEF InboxTypes, AsksKnown
  <2>. QED BY <1>1, <2>1 DEF Keeps, Given, Gone
<1>9. InLine' /\ FetchMatches'
  BY <1>1 DEF InboxInvariant, InLine, FetchMatches
<1>10. TakenInOrder'
  BY <1>1, <1>8 DEF InboxInvariant, TakenInOrder
<1>11. GivenOnce'
  BY <1>1, <1>8 DEF InboxInvariant, GivenOnce
<1>12. RepliesInOrder(s)'
  <2>1. ASSUME NEW k \in DOMAIN socket'[s]
        PROVE  k + 1 \in DOMAIN socket[s] /\ socket'[s][k] = socket[s][k + 1] /\ k \in Nat
                 /\ k + 1 > 1
    BY <1>3, <1>6
  <2>2. ASSUME NEW k \in DOMAIN socket'[s], socket'[s][k].ask # 0
        PROVE  /\ socket'[s][k].ask \in DOMAIN asks /\ asks[socket'[s][k].ask].by = s
               /\ answer[socket'[s][k].ask] # None
    BY <1>2, <2>1, <2>2 DEF RepliesInOrder
  <2>3. ASSUME NEW j \in DOMAIN socket'[s], NEW k \in DOMAIN socket'[s], j < k,
               socket'[s][j].ask \in Given, socket'[s][k].ask \in Given
        PROVE  answer[socket'[s][j].ask][2] <= answer[socket'[s][k].ask][2]
    <3>1. j + 1 < k + 1
      BY <2>1, <2>3
    <3>. QED BY <1>2, <2>1, <2>3, <3>1 DEF RepliesInOrder
  <2>4. ASSUME NEW k \in DOMAIN socket'[s], NEW j \in Given,
               socket'[s][k].ask \in Given, asks[j].by = s, status'[j] = "answered"
        PROVE  answer[j][2] <= answer[socket'[s][k].ask][2]
    <3>1. k + 1 \in DOMAIN socket[s] /\ socket'[s][k] = socket[s][k + 1] /\ 1 < k + 1
      BY <2>1
    <3>2. CASE j = i
      BY <1>2, <1>3, <2>4, <3>1, <3>2 DEF RepliesInOrder, i
    <3>3. CASE j # i
      <4>1. status[j] = "answered"
        BY <1>5, <1>8, <2>4, <3>3
      <4>. QED BY <1>2, <2>4, <3>1, <4>1 DEF RepliesInOrder
    <3>. QED BY <3>2, <3>3
  <2>. QED BY <1>1, <1>8, <2>2, <2>3, <2>4 DEF RepliesInOrder
<1>13. ASSUME NEW r \in Sessions \ {s}
       PROVE  RepliesInOrder(r)'
  <2>1. RepliesInOrder(r) /\ socket'[r] = socket[r]
    BY <1>6 DEF InboxInvariant
  <2>2. ASSUME NEW j \in Given, asks[j].by = r, status'[j] = "answered"
        PROVE  status[j] = "answered"
    BY <1>4, <1>5, <1>8, <2>2
  <2>. QED BY <1>1, <1>8, <2>1, <2>2 DEF RepliesInOrder
<1>14. ASSUME NEW n \in HasRead(s)' \ HasRead(s), NEW m \in HasRead(s)
       PROVE  m < n
  <2>1. PICK j \in Given : asks[j].by = s /\ status'[j] = "answered" /\ n = answer[j][2]
    BY <1>1, <1>8 DEF HasRead
  <2>2. PICK k \in Given : asks[k].by = s /\ status[k] = "answered" /\ m = answer[k][2]
    BY DEF HasRead
  <2>3. status[j] # "answered"
    BY <1>14, <2>1 DEF HasRead
  <2>4. j = i
    BY <1>5, <1>8, <2>1, <2>3
  <2>5. m <= n
    BY <1>2, <1>3, <2>1, <2>2, <2>4 DEF RepliesInOrder, i
  <2>6. m # n
    BY <1>14
  <2>7. m \in Int /\ n \in Int
    BY <1>2, <2>1, <2>2 DEF TakenInOrder
  <2>. QED BY <2>5, <2>6, <2>7
<1>15. ASSUME NEW r \in Sessions \ {s}
       PROVE  HasRead(r)' \subseteq HasRead(r)
  <2>1. ASSUME NEW j \in Given, asks[j].by = r, status'[j] = "answered"
        PROVE  status[j] = "answered"
    BY <1>4, <1>5, <1>8, <2>1
  <2>. QED BY <1>1, <1>8, <2>1 DEF HasRead
<1>. QED BY <1>1, <1>7, <1>8, <1>9, <1>10, <1>11, <1>12, <1>13, <1>14, <1>15 DEF InboxInvariant

\* The events that s has read are read in order, whatever the step.
ReadsLater == \A s \in Sessions : \A n \in HasRead(s)' \ HasRead(s), m \in HasRead(s) : m < n

\* Without a reply's being read nothing is.
LEMMA NothingReadIsLater ==
  ASSUME InboxInvariant, Keeps, NothingRead, DOMAIN answer' = DOMAIN asks'
  PROVE  ReadsLater
<1>1. ASSUME NEW s \in Sessions
      PROVE  HasRead(s)' \subseteq HasRead(s)
  <2>1. ASSUME NEW j \in Given', asks'[j].by = s, status'[j] = "answered"
        PROVE  answer'[j][2] \in HasRead(s)
    <3>1. j \in DOMAIN asks /\ status[j] = "answered"
      BY <2>1 DEF NothingRead, Given
    <3>2. answer[j] # None /\ DOMAIN asks = DOMAIN answer
      BY <3>1, SequenceFacts, AskTypes DEF InboxInvariant, InboxTypes, AsksKnown
    <3>3. j \in Given /\ answer'[j] = answer[j] /\ asks'[j] = asks[j]
      BY <2>1, <3>1, <3>2, GivenKept DEF Keeps
    <3>. QED BY <2>1, <3>1, <3>3 DEF HasRead
  <2>. QED BY <2>1 DEF HasRead
<1>. QED BY <1>1 DEF ReadsLater

\* Every step of the inbox keeps its invariant.
LEMMA InboxSteps ==
  ASSUME InboxInvariant, InboxStep
  PROVE  InboxInvariant' /\ Keeps /\ ReadsLater
<1>1. ASSUME InboxInvariant' /\ Keeps /\ NothingRead
      PROVE  ReadsLater
  <2>1. DOMAIN answer' = DOMAIN asks'
    BY <1>1, SequenceFacts DEF InboxInvariant, InboxTypes, AsksKnown
  <2>. QED BY <1>1, <2>1, NothingReadIsLater
<1>2. CASE UNCHANGED inbox
  <2>1. /\ UNCHANGED <<present, asks, status, answer, socket, events, queue, waiters>>
        /\ Given' = Given /\ Gone' = Gone
    BY <1>2 DEF inbox, Given, Gone
  <2>2. InboxTypes' /\ AsksKnown' /\ InLine' /\ FetchMatches'
    BY <2>1 DEF InboxInvariant, InboxTypes, AsksKnown, InLine, FetchMatches
  <2>3. TakenInOrder' /\ GivenOnce' /\ \A s \in Sessions : RepliesInOrder(s)'
    BY <2>1 DEF InboxInvariant, TakenInOrder, GivenOnce, RepliesInOrder
  <2>4. Keeps /\ NothingRead
    BY <2>1 DEF Keeps, NothingRead
  <2>. QED BY <1>1, <2>2, <2>3, <2>4 DEF InboxInvariant
<1>3. ASSUME NEW s \in Sessions, Recv(s)
      PROVE  InboxInvariant' /\ Keeps /\ NothingRead
  BY <1>3, RecvWaitsStep, RecvTakesStep
<1>4. ASSUME NEW s \in Sessions, NEW r \in Refs, NEW a \in {None, Error}, FetchAsked(s, r, a)
      PROVE  InboxInvariant' /\ Keeps /\ NothingRead
  BY <1>4, FetchAskedStep
<1>5. ASSUME NEW i \in DOMAIN asks, RecvTimeout(i)
      PROVE  InboxInvariant' /\ Keeps /\ NothingRead
  BY <1>5, RecvTimeoutStep
<1>6. ASSUME NEW i \in DOMAIN asks, NEW a \in {Timeout, Error, Content(asks[i].ref)},
             asks[i].kind = "fetch", a = Content(asks[i].ref) => asks[i].ref \in Refs,
             Answered(i, a)
      PROVE  InboxInvariant' /\ Keeps /\ NothingRead
  BY <1>6, AnsweredStep
<1>7. ASSUME NEW kind \in EventKinds, NEW ref \in {0} \cup Refs, Push(kind, ref)
      PROVE  InboxInvariant' /\ Keeps /\ NothingRead
  BY <1>7, PushQueuesStep, PushGivesStep
<1>8. ASSUME NEW s \in Sessions, ReadReply(s)
      PROVE  InboxInvariant' /\ Keeps /\ ReadsLater
  <2>1. /\ InboxInvariant' /\ Keeps
        /\ \A n \in HasRead(s)' \ HasRead(s), m \in HasRead(s) : m < n
        /\ \A r \in Sessions \ {s} : HasRead(r)' \subseteq HasRead(r)
    BY <1>8, ReadReplyStep
  <2>. QED BY <2>1 DEF ReadsLater
<1>9. ASSUME NEW i \in DOMAIN asks, ClientTimeout(i)
      PROVE  InboxInvariant' /\ Keeps /\ NothingRead
  BY <1>9, ClientTimeoutStep
<1>10. ASSUME NEW s \in Sessions, Exit(s)
       PROVE  InboxInvariant' /\ Keeps /\ NothingRead
  BY <1>10, ExitStep
<1>11. ASSUME NEW s \in Sessions, NEW st \in CallStates, Polled(s, Line(0, st))
       PROVE  InboxInvariant' /\ Keeps /\ NothingRead
  BY <1>11, PollStep
<1>12. ASSUME NEW s \in Sessions, PollRead(s)
       PROVE  InboxInvariant' /\ Keeps /\ NothingRead
  BY <1>12, PollStep DEF CallStates
<1>. QED BY <1>1, <1>2, <1>3, <1>4, <1>5, <1>6, <1>7, <1>8, <1>9, <1>10, <1>11, <1>12 DEF InboxStep

---------------------------------------------------------------------------
(* The steps of the call.                                                  *)

\* What a suspended handler at d and a frame on its way say is true.
TaskFits(d, t) ==
  /\ t.next \in {"sendFetch", "lookUp"} => IsFetchOf(t)
  /\ t.next = "respond" => IsAnswerTo(t)
  /\ (t.next \in {"sendShare", "emitShare"} /\ ~ended) => t.ref \in refs
  /\ (d = "far" /\ t.next \in {"sendEND", "clear"}) => ended

FrameFits(f) ==
  /\ f.type = "FETCH" => IsFetchOf(f)
  /\ f.type = "FETCH_RESPONSE" => IsAnswerTo(f)
  /\ (f.type = "SHARE_FILE_REF" /\ ~ended) => f.ref \in refs

\* It is what FetchesMatch and OffersHeld say.
LEMMA AllFit ==
  FetchesMatch /\ OffersHeld <=>
    /\ \A d \in Daemons : \A t \in tasks[d] : TaskFits(d, t)
    /\ \A d \in Daemons : \A k \in DOMAIN wire[d] : FrameFits(wire[d][k])
BY DEF FetchesMatch, OffersHeld, TaskFits, FrameFits, Daemons

\* The handlers and the frames that are new fit.
TasksMove ==
  /\ tasks' \in [Daemons -> SUBSET Tasks]
  /\ \A d \in Daemons : \A t \in tasks'[d] : t \in tasks[d] \/ TaskFits(d, t)'

WiresMove ==
  /\ wire' \in [Daemons -> Seq(Frames)]
  /\ \A d \in Daemons : \A k \in DOMAIN wire'[d] :
       \/ \E j \in DOMAIN wire[d] : wire'[d][k] = wire[d][j]
       \/ FrameFits(wire[d][k])'

\* A step after which they do, and which takes back nothing that the others
\* rely on.
CallMoves ==
  /\ ended => ended'
  /\ ~ended' => refs \subseteq refs'
  /\ TasksMove
  /\ WiresMove
  /\ \A i \in pending' : i \in pending \/ (i \in DOMAIN asks' /\ asks'[i].kind = "fetch")
  /\ \A n \in DOMAIN events' :
       \/ n \in DOMAIN events /\ events'[n] = events[n]
       \/ (events'[n].kind = "file_ref_shared" /\ ~ended') => events'[n].ref \in refs'

\* Closing a call leaves somebody to forget its refs; nothing else matters.
FreedMoves ==
  \/ /\ state'["far"] = "CLOSED" => state["far"] = "CLOSED"
     /\ \A t \in tasks["far"] :
          t.next = "clear" => \E u \in tasks'["far"] : u.next = "clear"
     /\ refs' = refs
  \/ state'["far"] # "CLOSED"
  \/ \E u \in tasks'["far"] : u.next = "clear"
  \/ refs' = {}

\* Such a step keeps what the call adds.
LEMMA CallStep ==
  ASSUME CallInvariant, Keeps, CallTypes', CallMoves, FreedMoves
  PROVE  CallInvariant'
<1>1. ASSUME NEW m, m.id \in DOMAIN asks
      PROVE  m.id \in DOMAIN asks' /\ asks'[m.id] = asks[m.id]
  BY <1>1 DEF Keeps
<1>2. ASSUME NEW d, NEW t, TaskFits(d, t)
      PROVE  TaskFits(d, t)'
  BY <1>1, <1>2 DEF TaskFits, IsFetchOf, IsAnswerTo, CallMoves
<1>3. ASSUME NEW f, FrameFits(f)
      PROVE  /\ f.type = "FETCH" => IsFetchOf(f)'
             /\ f.type = "FETCH_RESPONSE" => IsAnswerTo(f)'
             /\ (f.type = "SHARE_FILE_REF" /\ ~ended') => f.ref \in refs'
  BY <1>1, <1>3 DEF FrameFits, IsFetchOf, IsAnswerTo, CallMoves
<1>4. /\ \A d \in Daemons : \A t \in tasks[d] : TaskFits(d, t)
      /\ \A d \in Daemons : \A k \in DOMAIN wire[d] : FrameFits(wire[d][k])
  BY AllFit DEF CallInvariant
<1>5. ASSUME NEW d \in Daemons, NEW t \in tasks'[d]
      PROVE  /\ t.next \in {"sendFetch", "lookUp"} => IsFetchOf(t)'
             /\ t.next = "respond" => IsAnswerTo(t)'
             /\ (t.next \in {"sendShare", "emitShare"} /\ ~ended') => t.ref \in refs'
             /\ (d = "far" /\ t.next \in {"sendEND", "clear"}) => ended'
  BY <1>2, <1>4 DEF CallMoves, TasksMove, TaskFits
<1>6. ASSUME NEW d \in Daemons, NEW k \in DOMAIN wire'[d]
      PROVE  /\ (wire[d][k].type = "FETCH")' => IsFetchOf(wire[d][k])'
             /\ (wire[d][k].type = "FETCH_RESPONSE")' => IsAnswerTo(wire[d][k])'
             /\ (wire[d][k].type = "SHARE_FILE_REF" /\ ~ended)' => (wire[d][k].ref \in refs)'
  <2>1. CASE \E j \in DOMAIN wire[d] : wire'[d][k] = wire[d][j]
    <3>1. PICK f : f = wire'[d][k] /\ FrameFits(f)
      BY <1>4, <2>1
    <3>. QED BY <1>3, <3>1 DEF IsFetchOf, IsAnswerTo
  <2>2. CASE FrameFits(wire[d][k])'
    BY <2>2 DEF FrameFits
  <2>. QED BY <2>1, <2>2 DEF CallMoves, WiresMove
<1>7. FetchesMatch' /\ OffersHeld'
  BY <1>5, <1>6 DEF FetchesMatch, OffersHeld, Daemons
<1>8. PendingKnown'
  BY DEF CallInvariant, PendingKnown, CallMoves, Keeps
<1>9. OfferedIsHeld'
  BY DEF CallInvariant, OfferedIsHeld, CallMoves
<1>10. RefsFreed'
  BY DEF CallInvariant, RefsFreed, FreedMoves
<1>. QED BY <1>7, <1>8, <1>9, <1>10 DEF CallInvariant

\* A handler is suspended, is done, or goes on to another step.
LEMMA TaskEffects ==
  ASSUME CallTypes, NEW d \in Daemons, NEW t \in Tasks, NEW u \in Tasks
  PROVE  /\ Suspend(d, u) => /\ tasks' \in [Daemons -> SUBSET Tasks] /\ u \in tasks'[d]
                             /\ \A e \in Daemons : tasks[e] \subseteq tasks'[e]
                             /\ \A e \in Daemons : \A v \in tasks'[e] :
                                  v \in tasks[e] \/ (e = d /\ v = u)
         /\ Finish(d, t) => /\ tasks' \in [Daemons -> SUBSET Tasks]
                            /\ \A e \in Daemons : tasks'[e] \subseteq tasks[e]
                            /\ \A e \in Daemons : \A v \in tasks[e] : v \in tasks'[e] \/ (e = d /\ v = t)
         /\ tasks' = [tasks EXCEPT ![d] = (@ \ {t}) \cup {u}] =>
              /\ tasks' \in [Daemons -> SUBSET Tasks] /\ u \in tasks'[d]
              /\ \A e \in Daemons : \A v \in tasks[e] : v \in tasks'[e] \/ (e = d /\ v = t)
              /\ \A e \in Daemons : \A v \in tasks'[e] :
                   v \in tasks[e] \/ (e = d /\ v = u)
<1>1. tasks \in [Daemons -> SUBSET Tasks]
  BY DEF CallTypes
<1>2. ASSUME Suspend(d, u)
      PROVE  /\ tasks' \in [Daemons -> SUBSET Tasks] /\ u \in tasks'[d]
             /\ \A e \in Daemons : tasks[e] \subseteq tasks'[e]
             /\ \A e \in Daemons : \A v \in tasks'[e] :
                  v \in tasks[e] \/ (e = d /\ v = u)
  <2>1. tasks' = [tasks EXCEPT ![d] = tasks[d] \cup {u}]
    BY <1>2 DEF Suspend
  <2>. QED BY <1>1, <2>1
<1>3. ASSUME Finish(d, t)
      PROVE  /\ tasks' \in [Daemons -> SUBSET Tasks]
             /\ \A e \in Daemons : tasks'[e] \subseteq tasks[e]
             /\ \A e \in Daemons : \A v \in tasks[e] : v \in tasks'[e] \/ (e = d /\ v = t)
  <2>1. tasks' = [tasks EXCEPT ![d] = tasks[d] \ {t}]
    BY <1>3 DEF Finish
  <2>. QED BY <1>1, <2>1
<1>4. ASSUME tasks' = [tasks EXCEPT ![d] = (@ \ {t}) \cup {u}]
      PROVE  /\ tasks' \in [Daemons -> SUBSET Tasks] /\ u \in tasks'[d]
             /\ \A e \in Daemons : \A v \in tasks[e] : v \in tasks'[e] \/ (e = d /\ v = t)
             /\ \A e \in Daemons : \A v \in tasks'[e] :
                  v \in tasks[e] \/ (e = d /\ v = u)
  <2>1. tasks' = [tasks EXCEPT ![d] = (tasks[d] \ {t}) \cup {u}]
    BY <1>4
  <2>. QED BY <1>1, <2>1
<1>. QED BY <1>2, <1>3, <1>4

\* A frame is sent, or nothing; one is read; nothing happens.
LEMMA WireEffects ==
  ASSUME CallTypes, NEW d \in Daemons, NEW f \in Frames, NEW open \in BOOLEAN
  PROVE  /\ wire' = Sent(d, f, open) =>
              /\ wire' \in [Daemons -> Seq(Frames)]
              /\ \A e \in Daemons : \A k \in DOMAIN wire'[e] :
                   (\E j \in DOMAIN wire[e] : wire'[e][k] = wire[e][j]) \/ wire'[e][k] = f
         /\ (Consume(d) /\ wire[d] # <<>>) =>
              /\ WiresMove
              /\ Head(wire[d]) \in Frames /\ \E j \in DOMAIN wire[d] : Head(wire[d]) = wire[d][j]
         /\ wire' = wire => WiresMove
<1>1. wire \in [Daemons -> Seq(Frames)] /\ Peer(d) \in Daemons /\ wire[Peer(d)] \in Seq(Frames)
  BY DEF CallTypes, Daemons, Peer
<1>2. ASSUME wire' = Sent(d, f, open)
      PROVE  /\ wire' \in [Daemons -> Seq(Frames)]
             /\ \A e \in Daemons : \A k \in DOMAIN wire'[e] :
                  (\E j \in DOMAIN wire[e] : wire'[e][k] = wire[e][j]) \/ wire'[e][k] = f
  <2>1. CASE open
    <3>1. wire' = [wire EXCEPT ![Peer(d)] = Append(wire[Peer(d)], f)]
      BY <1>2, <2>1 DEF Sent
    <3>2. /\ Append(wire[Peer(d)], f) \in Seq(Frames)
          /\ DOMAIN Append(wire[Peer(d)], f) = 1..(Len(wire[Peer(d)]) + 1)
          /\ DOMAIN wire[Peer(d)] = 1..Len(wire[Peer(d)])
          /\ Len(wire[Peer(d)]) \in Nat
          /\ \A k \in 1..Len(wire[Peer(d)]) : Append(wire[Peer(d)], f)[k] = wire[Peer(d)][k]
          /\ Append(wire[Peer(d)], f)[Len(wire[Peer(d)]) + 1] = f
      BY <1>1, AppendFacts, SequenceFacts
    <3>3. \A k \in DOMAIN Append(wire[Peer(d)], f) :
            \/ \E j \in DOMAIN wire[Peer(d)] : Append(wire[Peer(d)], f)[k] = wire[Peer(d)][j]
            \/ Append(wire[Peer(d)], f)[k] = f
      BY <3>2
    <3>. QED BY <1>1, <3>1, <3>2, <3>3
  <2>2. CASE ~open
    <3>1. wire' = wire
      BY <1>1, <1>2, <2>2 DEF Sent
    <3>. QED BY <1>1, <3>1
  <2>. QED BY <2>1, <2>2
<1>3. ASSUME Consume(d), wire[d] # <<>>
      PROVE  /\ WiresMove
             /\ Head(wire[d]) \in Frames /\ \E j \in DOMAIN wire[d] : Head(wire[d]) = wire[d][j]
  <2>1. wire[d] \in Seq(Frames) /\ DOMAIN wire[d] = 1..Len(wire[d])
    BY <1>1, SequenceFacts
  <2>2. /\ Head(wire[d]) \in Frames /\ Head(wire[d]) = wire[d][1] /\ 1 \in 1..Len(wire[d])
        /\ Tail(wire[d]) \in Seq(Frames) /\ Len(wire[d]) = Len(Tail(wire[d])) + 1
        /\ \A k \in 1..Len(Tail(wire[d])) : Tail(wire[d])[k] = wire[d][k + 1]
    BY <1>3, <2>1, TailFacts
  <2>3. DOMAIN Tail(wire[d]) = 1..Len(Tail(wire[d])) /\ Len(Tail(wire[d])) \in Nat
    BY <2>2, SequenceFacts
  <2>4. \A k \in DOMAIN Tail(wire[d]) : k + 1 \in DOMAIN wire[d] /\ Tail(wire[d])[k] = wire[d][k + 1]
    BY <2>1, <2>2, <2>3
  <2>5. wire' = [wire EXCEPT ![d] = Tail(wire[d])]
    BY <1>3 DEF Consume
  <2>6. wire' \in [Daemons -> Seq(Frames)]
    BY <1>1, <2>2, <2>5
  <2>7. ASSUME NEW e \in Daemons, NEW k \in DOMAIN wire'[e]
        PROVE  \E j \in DOMAIN wire[e] : wire'[e][k] = wire[e][j]
    <3>1. CASE e = d
      BY <1>1, <2>4, <2>5, <3>1
    <3>2. CASE e # d
      BY <1>1, <2>5, <3>2
    <3>. QED BY <3>1, <3>2
  <2>. QED BY <2>1, <2>2, <2>6, <2>7 DEF WiresMove
<1>4. wire' = wire => WiresMove
  BY <1>1 DEF WiresMove
<1>. QED BY <1>2, <1>3, <1>4

\* A frame that fits is sent.
LEMMA SendMoves ==
  ASSUME CallTypes, NEW d \in Daemons, NEW f \in Frames, NEW open \in BOOLEAN,
         wire' = Sent(d, f, open), FrameFits(f)'
  PROVE  WiresMove
<1>1. /\ wire' \in [Daemons -> Seq(Frames)]
      /\ \A e \in Daemons : \A k \in DOMAIN wire'[e] :
           (\E j \in DOMAIN wire[e] : wire'[e][k] = wire[e][j]) \/ wire'[e][k] = f
  BY WireEffects
<1>2. ASSUME NEW e \in Daemons, NEW k \in DOMAIN wire'[e], wire'[e][k] = f
      PROVE  FrameFits(wire[e][k])'
  BY <1>2 DEF FrameFits, IsFetchOf, IsAnswerTo
<1>. QED BY <1>1, <1>2 DEF WiresMove

\* A handler that fits is suspended; one is done; one goes on with a step that
\* fits; no handler moves.
LEMMA HandlerMoves ==
  ASSUME CallTypes, NEW d \in Daemons, NEW t \in Tasks, NEW u \in Tasks
  PROVE  /\ (Suspend(d, u) /\ TaskFits(d, u)') => TasksMove
         /\ Finish(d, t) => TasksMove
         /\ (tasks' = [tasks EXCEPT ![d] = (@ \ {t}) \cup {u}] /\ TaskFits(d, u)') => TasksMove
         /\ tasks' = tasks => TasksMove
<1>1. tasks' = tasks => TasksMove
  BY DEF TasksMove, CallTypes
<1>2. (Suspend(d, u) /\ TaskFits(d, u)') => TasksMove
  BY TaskEffects DEF TasksMove
<1>3. Finish(d, t) => TasksMove
  BY TaskEffects DEF TasksMove
<1>4. ASSUME tasks' = [tasks EXCEPT ![d] = (@ \ {t}) \cup {u}], TaskFits(d, u)'
      PROVE  TasksMove
  <2>1. /\ tasks' \in [Daemons -> SUBSET Tasks]
        /\ \A e \in Daemons : \A v \in tasks'[e] : v \in tasks[e] \/ (e = d /\ v = u)
    BY <1>4, TaskEffects
  <2>. QED BY <1>4, <2>1 DEF TasksMove
<1>. QED BY <1>1, <1>2, <1>3, <1>4

\* No step closes far but by leaving somebody to forget its refs.
LEMMA FreedKeeps ==
  ASSUME NEW t, state'["far"] = "CLOSED" => state["far"] = "CLOSED", refs' = refs,
         t.next # "clear", \A v \in tasks["far"] : v \in tasks'["far"] \/ v = t
  PROVE  FreedMoves
BY DEF FreedMoves

\* What a step of the call needs besides its handlers and frames.
LEMMA QuietMoves ==
  ASSUME CallTypes, TasksMove, WiresMove, ended => ended', refs \subseteq refs' \/ ended',
         pending' \subseteq pending, UNCHANGED events
  PROVE  CallMoves
BY DEF CallMoves

\* The bounds of the workload are numbers.
LEMMA WorkTypes ==
  ASSUME CallTypes
  PROVE  /\ work.controls \in Nat /\ work.faults \in Nat
         /\ work.shares \in 0..MaxShares /\ controls \in Nat /\ faults \in Nat
BY SessionsAssumption DEF CallTypes

\* Frames and handlers, and the handler that goes on.
LEMMA MessageTypes ==
  /\ \A type \in Controls \cup {"SHARE_FILE_REF", "FETCH", "FETCH_RESPONSE"} :
       \A i \in Nat, r \in {0} \cup Refs :
         /\ Frame(type, i, r) \in Frames
         /\ Frame(type, i, r).type = type /\ Frame(type, i, r).id = i /\ Frame(type, i, r).ref = r
  /\ \A f \in Frames : f.id \in Nat /\ f.ref \in {0} \cup Refs
  /\ \A next \in Steps : \A i \in Nat, r \in {0} \cup Refs :
       /\ Task(next, i, r) \in Tasks
       /\ Task(next, i, r).next = next /\ Task(next, i, r).id = i /\ Task(next, i, r).ref = r
  /\ \A t \in Tasks : /\ t.next \in Steps /\ t.id \in Nat /\ t.ref \in {0} \cup Refs
                      /\ t.open \in BOOLEAN
BY DEF Frame, Frames, Task, Tasks

\* A new frame.
LEMMA NewFrame ==
  ASSUME NEW type \in {"PAUSE", "RESUME", "END", "SHARE_FILE_REF", "FETCH", "FETCH_RESPONSE"},
         NEW i \in Nat, NEW r \in {0} \cup Refs
  PROVE  \E f \in Frames : f = Frame(type, i, r) /\ f.type = type /\ f.id = i /\ f.ref = r
<1>1. Frame(type, i, r) \in Frames
  BY DEF Frame, Frames, Controls
<1>2. /\ Frame(type, i, r).type = type /\ Frame(type, i, r).id = i
      /\ Frame(type, i, r).ref = r
  BY DEF Frame
<1>. QED BY <1>1, <1>2

\* A new handler.
LEMMA NewTask ==
  ASSUME NEW next \in Steps, NEW i \in Nat, NEW r \in {0} \cup Refs
  PROVE  \E t \in Tasks : t = Task(next, i, r) /\ t.next = next /\ t.id = i /\ t.ref = r
<1>1. Task(next, i, r) \in Tasks
  BY DEF Task, Tasks
<1>2. /\ Task(next, i, r).next = next /\ Task(next, i, r).id = i
      /\ Task(next, i, r).ref = r
  BY DEF Task
<1>. QED BY <1>1, <1>2

\* A handler that goes on keeps what it is about.
LEMMA TaskGoesOn ==
  ASSUME NEW t \in Tasks, NEW next \in Steps
  PROVE  /\ [t EXCEPT !.next = next] \in Tasks /\ [t EXCEPT !.next = next].next = next
         /\ [t EXCEPT !.next = next].id = t.id /\ [t EXCEPT !.next = next].ref = t.ref
BY DEF Tasks

\* pause, resumeCall and end.
LEMMA ControlStep ==
  ASSUME CallInvariant, NEW d \in Daemons, NEW type \in Controls, Control(d, type)
  PROVE  InboxStep /\ CallTypes' /\ CallMoves /\ FreedMoves
<1>1. CallTypes
  BY DEF CallInvariant
<1>2. PICK u : u = Task(SendStep[type], controls + 1, 0)
  OBVIOUS
<1>3. u \in Tasks /\ u.next = SendStep[type] /\ Suspend(d, u)
  <2>1. SendStep[type] \in Steps /\ controls + 1 \in Nat
    BY <1>1, WorkTypes DEF SendStep, Controls, Steps
  <2>. QED BY <1>2, <2>1, MessageTypes DEF Control
<1>4. TaskFits(d, u)'
  <2>1. u.next \in {"sendPAUSE", "sendRESUME", "sendEND"} /\ (u.next = "sendEND" => type = "END")
    BY <1>3 DEF SendStep, Controls
  <2>2. (type = "END" /\ d = "far") => ended'
    BY DEF Control
  <2>. QED BY <2>1, <2>2 DEF TaskFits
<1>5. TasksMove /\ \A e \in Daemons : tasks[e] \subseteq tasks'[e]
  BY <1>1, <1>3, <1>4, HandlerMoves, TaskEffects
<1>6. wire' = wire /\ WiresMove
  BY <1>1, WireEffects DEF Control, Frames, CallTypes, WiresMove
<1>7. /\ UNCHANGED <<inbox, up, refs, shares, pending, owned, seen, told, work, faults, events>>
      /\ controls < work.controls /\ controls' = controls + 1
  BY DEF Control, fetch, bridge, inbox
<1>8. /\ state' \in [Daemons -> CallStates] /\ ended' \in BOOLEAN /\ (ended => ended')
      /\ state'["far"] = "CLOSED" => state["far"] = "CLOSED"
  <2>1. state \in [Daemons -> CallStates] /\ ended \in BOOLEAN
    BY <1>1 DEF CallTypes
  <2>2. CASE type = "END"
    <3>1. state' = [state EXCEPT ![d] = "CLOSING"] /\ ended' = (ended \/ d = "far")
      BY <2>2 DEF Control
    <3>2. state' \in [Daemons -> CallStates] /\ (state'["far"] = "CLOSED" => state["far"] = "CLOSED")
      BY <2>1, <3>1 DEF CallStates, Daemons
    <3>3. ended' \in BOOLEAN /\ (ended => ended')
      BY <2>1, <3>1
    <3>. QED BY <3>2, <3>3
  <2>3. CASE type # "END"
    BY <2>1, <2>3 DEF Control
  <2>. QED BY <2>2, <2>3
<1>9. CallTypes'
  <2>1. controls' \in 0..work'.controls /\ faults' \in 0..work'.faults
    BY <1>1, <1>7, WorkTypes DEF CallTypes
  <2>. QED BY <1>1, <1>5, <1>6, <1>7, <1>8, <2>1 DEF CallTypes, TasksMove, WiresMove
<1>10. CallMoves
  BY <1>1, <1>5, <1>6, <1>7, <1>8, QuietMoves
<1>11. FreedMoves
  BY <1>5, <1>7, <1>8 DEF FreedMoves, Daemons
<1>. QED BY <1>7, <1>9, <1>10, <1>11 DEF InboxStep

\* The types of what no step but a control or a fault changes.
LEMMA RestTypes ==
  ASSUME CallTypes, TasksMove, WiresMove, state' \in [Daemons -> CallStates],
         ended' \in BOOLEAN, refs' \subseteq Refs, UNCHANGED <<up, shares, bridge, bounds>>,
         pending' \subseteq Asks
  PROVE  CallTypes'
<1>1. UNCHANGED <<up, shares, owned, seen, told, work, controls, faults>>
  BY DEF bridge, bounds
<1>. QED BY <1>1 DEF CallTypes, TasksMove, WiresMove

\* The rest of pause and resumeCall.
LEMMA SendControlStep ==
  ASSUME CallInvariant, NEW d \in Daemons, NEW t \in tasks[d], SendControl(d, t)
  PROVE  InboxStep /\ CallTypes' /\ CallMoves /\ FreedMoves
<1>1. CallTypes /\ t \in Tasks
  BY DEF CallInvariant, CallTypes
<1>2. PICK type \in {"PAUSE", "RESUME"} :
        /\ t.next = SendStep[type]
        /\ wire' = Sent(d, Frame(type, t.id, 0), up)
        /\ state' = IF up THEN [state EXCEPT ![d] = NextState[type]] ELSE state
  BY DEF SendControl
<1>3. Finish(d, t) /\ UNCHANGED <<inbox, up, fetch, bridge, ended, bounds>>
  BY DEF SendControl
<1>4. UNCHANGED <<inbox, refs, shares, pending, events, ended, up, bridge, bounds>>
  BY <1>3 DEF fetch, inbox
<1>5. PICK f \in Frames : f = Frame(type, t.id, 0) /\ f.type \in {"PAUSE", "RESUME"}
  BY <1>1, MessageTypes DEF Controls
<1>6. WiresMove
  <2>1. FrameFits(f)'
    BY <1>5 DEF FrameFits
  <2>. QED BY <1>1, <1>2, <1>5, <2>1, SendMoves DEF CallTypes
<1>7. TasksMove /\ \A v \in tasks["far"] : v \in tasks'["far"] \/ v = t
  BY <1>1, <1>3, HandlerMoves, TaskEffects DEF Daemons
<1>8. /\ state' \in [Daemons -> CallStates] /\ t.next # "clear"
      /\ state'["far"] = "CLOSED" => state["far"] = "CLOSED"
  BY <1>1, <1>2 DEF CallTypes, NextState, CallStates, SendStep
<1>9. CallTypes'
  BY <1>1, <1>4, <1>6, <1>7, <1>8, RestTypes DEF CallTypes
<1>10. CallMoves
  BY <1>1, <1>4, <1>6, <1>7, QuietMoves
<1>11. FreedMoves
  BY <1>4, <1>7, <1>8, FreedKeeps
<1>. QED BY <1>4, <1>9, <1>10, <1>11 DEF InboxStep

\* The rest of end.
LEMMA SendEndStep ==
  ASSUME CallInvariant, NEW d \in Daemons, NEW t \in tasks[d], SendEnd(d, t)
  PROVE  InboxStep /\ CallTypes' /\ CallMoves /\ FreedMoves
<1>1. CallTypes /\ t \in Tasks
  BY DEF CallInvariant, CallTypes
<1>2. /\ t.next = "sendEND" /\ wire' = Sent(d, Frame("END", t.id, 0), up)
      /\ state' = [state EXCEPT ![d] = "CLOSED"]
      /\ Continue(d, t, "clear")
      /\ UNCHANGED <<inbox, up, fetch, bridge, ended, bounds>>
  BY DEF SendEnd
<1>3. UNCHANGED <<inbox, refs, shares, pending, events, ended, up, bridge, bounds>>
  BY <1>2 DEF fetch, inbox
<1>4. PICK f \in Frames : f = Frame("END", t.id, 0) /\ f.type = "END"
  BY <1>1, MessageTypes DEF Controls
<1>5. WiresMove
  <2>1. FrameFits(f)'
    BY <1>4 DEF FrameFits
  <2>. QED BY <1>1, <1>2, <1>4, <2>1, SendMoves DEF CallTypes
<1>6. PICK u \in Tasks : u = [t EXCEPT !.next = "clear"] /\ u.next = "clear"
  <2>1. "clear" \in Steps
    BY DEF Steps
  <2>. QED BY <1>1, <2>1, TaskGoesOn
<1>7. tasks' = [tasks EXCEPT ![d] = (@ \ {t}) \cup {u}]
  BY <1>2, <1>6 DEF Continue
<1>8. TaskFits(d, u)'
  <2>1. d = "far" => ended
    BY <1>2 DEF CallInvariant, OffersHeld
  <2>. QED BY <1>3, <1>6, <2>1 DEF TaskFits
<1>9. TasksMove /\ u \in tasks'[d]
  BY <1>1, <1>7, <1>8, HandlerMoves, TaskEffects
<1>10. /\ state' \in [Daemons -> CallStates]
       /\ d # "far" => state'["far"] = state["far"] /\ tasks'["far"] = tasks["far"]
  BY <1>1, <1>2, <1>7 DEF CallTypes, CallStates, Daemons
<1>11. CallTypes'
  BY <1>1, <1>3, <1>5, <1>9, <1>10, RestTypes DEF CallTypes
<1>12. CallMoves
  BY <1>1, <1>3, <1>5, <1>9, QuietMoves
<1>13. FreedMoves
  BY <1>3, <1>6, <1>9, <1>10 DEF FreedMoves
<1>. QED BY <1>3, <1>11, <1>12, <1>13 DEF InboxStep

\* A frame that is read.
LEMMA ArrivalFits ==
  ASSUME CallInvariant, NEW d \in Daemons, NEW type, Arrives(d, type), Consume(d)
  PROVE  /\ WiresMove
         /\ Head(wire[d]) \in Frames /\ Head(wire[d]).type = type /\ FrameFits(Head(wire[d]))
<1>1. CallTypes
  BY DEF CallInvariant
<1>2. wire[d] # <<>> /\ Head(wire[d]).type = type
  BY DEF Arrives
<1>3. /\ WiresMove /\ Head(wire[d]) \in Frames
      /\ \E j \in DOMAIN wire[d] : Head(wire[d]) = wire[d][j]
  <2>1. PICK f \in Frames : f = Frame("PAUSE", 0, 0)
    BY MessageTypes DEF Controls
  <2>2. TRUE \in BOOLEAN
    OBVIOUS
  <2>. QED BY <1>1, <1>2, <2>1, <2>2, WireEffects
<1>4. FrameFits(Head(wire[d]))
  BY <1>3, AllFit DEF CallInvariant
<1>. QED BY <1>2, <1>3, <1>4

\* handleIncomingPause, handleIncomingResume and handleIncomingEnd.
LEMMA ReceiveControlStep ==
  ASSUME CallInvariant, NEW d \in Daemons, ReceiveControl(d)
  PROVE  InboxStep /\ CallTypes' /\ CallMoves /\ FreedMoves
<1>1. CallTypes
  BY DEF CallInvariant
<1>2. PICK type \in Controls :
        Arrives(d, type) /\ Suspend(d, Task(ApplyStep[type], Head(wire[d]).id, 0))
  BY DEF ReceiveControl
<1>3. /\ Consume(d) /\ UNCHANGED <<inbox, state, up, refs, shares, pending, events, bridge, ended, bounds>>
  BY DEF ReceiveControl, fetch, inbox
<1>4. WiresMove /\ Head(wire[d]) \in Frames
  BY <1>2, <1>3, ArrivalFits
<1>5. PICK u \in Tasks : u = Task(ApplyStep[type], Head(wire[d]).id, 0) /\ u.next = ApplyStep[type]
  <2>1. ApplyStep[type] \in Steps /\ Head(wire[d]).id \in Nat
    BY <1>4, MessageTypes DEF ApplyStep, Controls, Steps
  <2>. QED BY <2>1, MessageTypes
<1>6. TaskFits(d, u)' /\ Suspend(d, u)
  BY <1>2, <1>5 DEF TaskFits, ApplyStep, Controls
<1>7. TasksMove /\ \A e \in Daemons : tasks[e] \subseteq tasks'[e]
  BY <1>1, <1>6, HandlerMoves, TaskEffects
<1>8. CallTypes'
  BY <1>1, <1>3, <1>4, <1>7, RestTypes DEF CallTypes
<1>9. CallMoves
  BY <1>1, <1>3, <1>4, <1>7, QuietMoves
<1>10. FreedMoves
  BY <1>3, <1>7 DEF FreedMoves, Daemons
<1>. QED BY <1>3, <1>8, <1>9, <1>10 DEF InboxStep

\* The rest of them, up to the event.
LEMMA ApplyControlStep ==
  ASSUME CallInvariant, NEW d \in Daemons, NEW t \in tasks[d], ApplyControl(d, t)
  PROVE  InboxStep /\ CallTypes' /\ CallMoves /\ FreedMoves
<1>1. CallTypes /\ t \in Tasks
  BY DEF CallInvariant, CallTypes
<1>2. PICK type \in Controls :
        /\ t.next = ApplyStep[type]
        /\ state' = [state EXCEPT ![d] = NextState[type]]
        /\ ended' = (ended \/ (d = "far" /\ type = "END"))
        /\ Continue(d, t, AfterApply[type])
  BY DEF ApplyControl
<1>3. UNCHANGED <<inbox, wire, up, refs, shares, pending, events, bridge, bounds>>
  BY DEF ApplyControl, fetch, inbox
<1>4. PICK u \in Tasks : u = [t EXCEPT !.next = AfterApply[type]] /\ u.next = AfterApply[type]
  <2>1. AfterApply[type] \in Steps
    BY DEF AfterApply, Controls, Steps
  <2>. QED BY <1>1, <2>1, TaskGoesOn
<1>5. tasks' = [tasks EXCEPT ![d] = (@ \ {t}) \cup {u}]
  BY <1>2, <1>4 DEF Continue
<1>6. TaskFits(d, u)'
  <2>1. (d = "far" /\ type = "END") => ended'
    BY <1>2
  <2>2. u.next \in {"emitPaused", "emitResumed", "clear"} /\ (u.next = "clear" => type = "END")
    BY <1>4 DEF AfterApply, Controls
  <2>. QED BY <2>1, <2>2 DEF TaskFits
<1>7. /\ TasksMove /\ u \in tasks'[d]
      /\ \A v \in tasks["far"] : v \in tasks'["far"] \/ v = t
  BY <1>1, <1>5, <1>6, HandlerMoves, TaskEffects DEF Daemons
<1>8. ended' \in BOOLEAN /\ (ended => ended')
  BY <1>1, <1>2 DEF CallTypes
<1>9. /\ state' \in [Daemons -> CallStates]
      /\ d # "far" => state'["far"] = state["far"]
      /\ (d = "far" /\ type # "END") => state'["far"] # "CLOSED"
      /\ t.next # "clear" /\ (type = "END" => u.next = "clear")
  BY <1>1, <1>2, <1>4 DEF CallTypes, CallStates, Daemons, NextState, ApplyStep, AfterApply, Controls
<1>10. WiresMove
  BY <1>1, <1>3 DEF WiresMove, CallTypes
<1>11. CallTypes'
  BY <1>1, <1>3, <1>7, <1>8, <1>9, <1>10, RestTypes DEF CallTypes
<1>12. CallMoves
  BY <1>1, <1>3, <1>7, <1>8, <1>10, QuietMoves
<1>13. FreedMoves
  BY <1>3, <1>7, <1>9 DEF FreedMoves
<1>. QED BY <1>3, <1>11, <1>12, <1>13 DEF InboxStep

\* An event is emitted: near's inbox has it, or nothing happens.
LEMMA EmitMoves ==
  ASSUME InboxInvariant, NEW d \in Daemons, NEW kind \in EventKinds, NEW ref \in {0} \cup Refs,
         Emit(d, kind, ref)
  PROVE  /\ InboxStep
         /\ \A n \in DOMAIN events' :
              \/ n \in DOMAIN events /\ events'[n] = events[n]
              \/ events'[n].kind = kind /\ events'[n].ref = ref
<1>1. CASE d = "near"
  <2>. DEFINE e == [kind |-> kind, ref |-> ref]
              E == [kind : EventKinds, ref : {0} \cup Refs]
  <2>1. Push(kind, ref)
    BY <1>1 DEF Emit
  <2>2. events \in Seq(E) /\ e \in E /\ events' = Append(events, e)
    BY <2>1 DEF Push, InboxInvariant, InboxTypes
  <2>3. /\ DOMAIN events' = 1..(Len(events) + 1) /\ DOMAIN events = 1..Len(events)
        /\ Len(events) \in Nat /\ events'[Len(events) + 1] = e
        /\ \A n \in 1..Len(events) : events'[n] = events[n]
    <3>. HIDE DEF e, E
    <3>. QED BY <2>2, AppendFacts, SequenceFacts
  <2>4. e.kind = kind /\ e.ref = ref
    OBVIOUS
  <2>5. InboxStep
    BY <2>1 DEF InboxStep
  <2>. HIDE DEF e, E
  <2>. QED BY <2>3, <2>4, <2>5
<1>2. CASE d # "near"
  BY <1>2 DEF Emit, InboxStep, inbox
<1>. QED BY <1>1, <1>2

\* An event that is no share is emitted.
LEMMA OtherEventMoves ==
  ASSUME InboxInvariant, CallTypes, NEW d \in Daemons, NEW kind \in EventKinds \ {"file_ref_shared"},
         Emit(d, kind, 0), TasksMove, WiresMove, ended => ended', refs \subseteq refs' \/ ended',
         pending' \subseteq pending
  PROVE  InboxStep /\ CallMoves
<1>1. /\ InboxStep
      /\ \A n \in DOMAIN events' :
           \/ n \in DOMAIN events /\ events'[n] = events[n]
           \/ events'[n].kind = kind /\ events'[n].ref = 0
  BY EmitMoves
<1>. QED BY <1>1 DEF CallMoves

\* The event of a pause or a resume.
LEMMA EmitControlStep ==
  ASSUME InboxInvariant, CallInvariant, NEW d \in Daemons, NEW t \in tasks[d], EmitControl(d, t)
  PROVE  InboxStep /\ CallTypes' /\ CallMoves /\ FreedMoves
<1>1. CallTypes /\ t \in Tasks
  BY DEF CallInvariant, CallTypes
<1>2. /\ Finish(d, t) /\ t.next # "clear"
      /\ UNCHANGED <<state, wire, up, refs, shares, pending, bridge, ended, bounds>>
  BY DEF EmitControl, fetch
<1>3. TasksMove /\ WiresMove /\ \A v \in tasks["far"] : v \in tasks'["far"] \/ v = t
  BY <1>1, <1>2, HandlerMoves, TaskEffects DEF Daemons, WiresMove, CallTypes
<1>4. PICK kind \in {"paused", "resumed"} : Emit(d, kind, 0)
  BY DEF EmitControl
<1>5. InboxStep /\ CallMoves
  BY <1>1, <1>2, <1>3, <1>4, OtherEventMoves DEF EventKinds
<1>6. CallTypes'
  BY <1>1, <1>2, <1>3, RestTypes DEF CallTypes
<1>7. FreedMoves
  BY <1>2, <1>3, FreedKeeps
<1>. QED BY <1>5, <1>6, <1>7

\* The rest of end and handleIncomingEnd: the refs are forgotten.
LEMMA ClearStep ==
  ASSUME InboxInvariant, CallInvariant, NEW d \in Daemons, NEW t \in tasks[d], Clear(d, t)
  PROVE  InboxStep /\ CallTypes' /\ CallMoves /\ FreedMoves
<1>1. CallTypes /\ t \in Tasks
  BY DEF CallInvariant, CallTypes
<1>2. /\ Finish(d, t) /\ t.next = "clear" /\ Emit(d, "ended", 0) /\ refs' = Cleared(d)
      /\ UNCHANGED <<state, wire, up, shares, pending, bridge, ended, bounds>>
  BY DEF Clear
<1>3. /\ TasksMove /\ WiresMove
      /\ \A v \in tasks["far"] : v \in tasks'["far"] \/ (d = "far" /\ v = t)
  <2>1. WiresMove
    BY <1>1, <1>2 DEF WiresMove, CallTypes
  <2>2. \A e \in Daemons : \A v \in tasks[e] : v \in tasks'[e] \/ (e = d /\ v = t)
    BY <1>1, <1>2, TaskEffects
  <2>. QED BY <1>1, <1>2, <2>1, <2>2, HandlerMoves DEF Daemons
<1>4. d = "far" => ended
  BY <1>2 DEF CallInvariant, OffersHeld
<1>5. refs' \subseteq Refs /\ (refs \subseteq refs' \/ ended') /\ (d = "far" => refs' = {})
      /\ (d # "far" => refs' = refs)
  BY <1>1, <1>2, <1>4 DEF Cleared, CallTypes
<1>6. InboxStep /\ CallMoves
  BY <1>1, <1>2, <1>3, <1>5, OtherEventMoves DEF EventKinds
<1>7. CallTypes'
  BY <1>1, <1>2, <1>3, <1>5, RestTypes DEF CallTypes
<1>8. FreedMoves
  BY <1>2, <1>3, <1>5 DEF FreedMoves
<1>. QED BY <1>6, <1>7, <1>8

\* shareFileRef, up to its await.
LEMMA ShareFileRefStep ==
  ASSUME CallInvariant, ShareFileRef
  PROVE  InboxStep /\ CallTypes' /\ CallMoves /\ FreedMoves
<1>1. CallTypes
  BY DEF CallInvariant
<1>2. /\ shares < work.shares /\ state["far"] = "CONNECTED" /\ shares' = shares + 1
      /\ refs' = refs \cup {shares + 1}
      /\ Suspend("far", Task("sendShare", 0, shares + 1))
      /\ UNCHANGED <<inbox, events, state, wire, up, pending, bridge, ended, bounds>>
  BY DEF ShareFileRef, inbox
<1>3. shares + 1 \in Refs /\ shares + 1 \in 0..MaxShares
  <2>1. shares \in Nat /\ work.shares \in 0..MaxShares /\ MaxShares \in Nat
    BY <1>1, WorkTypes, Numbers DEF CallTypes
  <2>. QED BY <1>2, <2>1 DEF Refs
<1>4. PICK u \in Tasks : /\ u = Task("sendShare", 0, shares + 1)
                         /\ u.next = "sendShare" /\ u.ref = shares + 1
  <2>1. "sendShare" \in Steps
    BY DEF Steps
  <2>. QED BY <1>3, <2>1, MessageTypes
<1>5. TaskFits("far", u)'
  BY <1>2, <1>4 DEF TaskFits
<1>6. TasksMove
  BY <1>1, <1>2, <1>4, <1>5, HandlerMoves DEF Daemons
<1>7. WiresMove
  BY <1>1, <1>2 DEF WiresMove, CallTypes
<1>8. CallTypes'
  <2>1. UNCHANGED <<state, up, pending, owned, seen, told, ended, work, controls, faults>>
    BY <1>2 DEF bridge, bounds
  <2>. QED BY <1>1, <1>2, <1>3, <1>6, <1>7, <2>1 DEF CallTypes, TasksMove, WiresMove
<1>9. CallMoves
  BY <1>1, <1>2, <1>6, <1>7, QuietMoves
<1>10. FreedMoves
  BY <1>2 DEF FreedMoves
<1>. QED BY <1>2, <1>8, <1>9, <1>10 DEF InboxStep

\* A suspended handler at d that ends by sending frame f.
LEMMA SendStep1 ==
  ASSUME CallInvariant, NEW d \in Daemons, NEW t \in tasks[d], t.next # "clear",
         NEW f \in Frames, NEW open \in BOOLEAN, wire' = Sent(d, f, open), FrameFits(f)',
         Finish(d, t), UNCHANGED <<inbox, state, up, refs, shares, bridge, ended, bounds>>
  PROVE  /\ InboxStep /\ FreedMoves /\ CallTypes
         /\ pending' \subseteq Asks => CallTypes'
         /\ pending' \subseteq pending => CallMoves
         /\ TasksMove /\ WiresMove
<1>1. CallTypes /\ t \in Tasks
  BY DEF CallInvariant, CallTypes
<1>2. WiresMove
  BY <1>1, SendMoves
<1>3. TasksMove /\ \A v \in tasks["far"] : v \in tasks'["far"] \/ v = t
  BY <1>1, HandlerMoves, TaskEffects DEF Daemons
<1>4. UNCHANGED events
  BY DEF inbox
<1>5. FreedMoves
  BY <1>3, FreedKeeps
<1>6. pending' \subseteq Asks => CallTypes'
  BY <1>1, <1>2, <1>3, RestTypes DEF CallTypes
<1>7. pending' \subseteq pending => CallMoves
  BY <1>1, <1>2, <1>3, <1>4, QuietMoves
<1>. QED BY <1>1, <1>2, <1>3, <1>5, <1>6, <1>7 DEF InboxStep

\* The rest of shareFileRef.
LEMMA SendShareStep ==
  ASSUME CallInvariant, NEW t \in tasks["far"], SendShare(t)
  PROVE  InboxStep /\ CallTypes' /\ CallMoves /\ FreedMoves
<1>1. CallTypes /\ t \in Tasks /\ "far" \in Daemons
  BY DEF CallInvariant, CallTypes, Daemons
<1>2. /\ t.next = "sendShare" /\ wire' = Sent("far", Frame("SHARE_FILE_REF", 0, t.ref), up)
      /\ Finish("far", t) /\ UNCHANGED <<inbox, state, up, refs, shares, bridge, ended, bounds>>
      /\ pending' = pending
  BY DEF SendShare, fetch
<1>3. PICK f \in Frames : /\ f = Frame("SHARE_FILE_REF", 0, t.ref)
                          /\ f.type = "SHARE_FILE_REF" /\ f.ref = t.ref
  <2>1. t.ref \in {0} \cup Refs
    BY <1>1, MessageTypes
  <2>3. PICK i \in Nat, r \in {0} \cup Refs : i = 0 /\ r = t.ref
    BY <2>1
  <2>4. \E f \in Frames : f = Frame("SHARE_FILE_REF", i, r) /\ f.type = "SHARE_FILE_REF" /\ f.id = i /\ f.ref = r
    BY <2>1, NewFrame
  <2>. QED BY <2>3, <2>4
<1>4. FrameFits(f)'
  <2>1. ~ended => t.ref \in refs
    BY <1>1, <1>2 DEF CallInvariant, OffersHeld
  <2>. QED BY <1>2, <1>3, <2>1 DEF FrameFits
<1>5. up \in BOOLEAN /\ pending \subseteq Asks
  BY <1>1 DEF CallTypes
<1>. QED BY <1>1, <1>2, <1>3, <1>4, <1>5, SendStep1

\* handleIncomingShareFileRef.
LEMMA ReceiveShareStep ==
  ASSUME CallInvariant, ReceiveShare
  PROVE  InboxStep /\ CallTypes' /\ CallMoves /\ FreedMoves
<1>1. CallTypes
  BY DEF CallInvariant
<1>2. /\ Arrives("near", "SHARE_FILE_REF") /\ Consume("near")
      /\ UNCHANGED <<inbox, events, state, up, refs, shares, pending, bridge, ended, bounds>>
  BY DEF ReceiveShare, fetch, inbox
<1>3. /\ WiresMove /\ Head(wire["near"]) \in Frames
      /\ Head(wire["near"]).type = "SHARE_FILE_REF" /\ FrameFits(Head(wire["near"]))
  BY <1>2, ArrivalFits DEF Daemons
<1>4. PICK u \in Tasks : /\ u = Task("emitShare", 0, Head(wire["near"]).ref)
                         /\ u.next = "emitShare" /\ u.ref = Head(wire["near"]).ref
  <2>1. "emitShare" \in Steps
    BY DEF Steps
  <2>2. Head(wire["near"]).ref \in {0} \cup Refs
    BY <1>3, MessageTypes
  <2>3. PICK i \in Nat, r \in {0} \cup Refs : i = 0 /\ r = Head(wire["near"]).ref
    BY <2>1, <2>2
  <2>4. \E u \in Tasks : u = Task("emitShare", i, r) /\ u.next = "emitShare" /\ u.id = i /\ u.ref = r
    BY <2>1, NewTask
  <2>. QED BY <2>3, <2>4
<1>5. TaskFits("near", u)'
  BY <1>2, <1>3, <1>4 DEF TaskFits, FrameFits
<1>6. tasks' = tasks \/ Suspend("near", u)
  BY <1>4 DEF ReceiveShare
<1>7. TasksMove /\ \A e \in Daemons : tasks[e] \subseteq tasks'[e]
  BY <1>1, <1>5, <1>6, HandlerMoves, TaskEffects DEF Daemons
<1>8. CallTypes'
  BY <1>1, <1>2, <1>3, <1>7, RestTypes DEF CallTypes
<1>9. CallMoves
  BY <1>1, <1>2, <1>3, <1>7, QuietMoves
<1>10. FreedMoves
  BY <1>2, <1>7 DEF FreedMoves, Daemons
<1>. QED BY <1>2, <1>8, <1>9, <1>10 DEF InboxStep

\* The event of a share.
LEMMA EmitShareStep ==
  ASSUME InboxInvariant, CallInvariant, NEW t \in tasks["near"], EmitShare(t)
  PROVE  InboxStep /\ CallTypes' /\ CallMoves /\ FreedMoves
<1>1. CallTypes /\ t \in Tasks /\ t.ref \in {0} \cup Refs
  BY MessageTypes DEF CallInvariant, CallTypes, Daemons
<1>2. /\ t.next = "emitShare" /\ Finish("near", t) /\ Emit("near", "file_ref_shared", t.ref)
      /\ UNCHANGED <<state, wire, up, refs, shares, pending, bridge, ended, bounds>>
  BY DEF EmitShare, fetch, Emit
<1>3. TasksMove /\ WiresMove /\ \A v \in tasks["far"] : v \in tasks'["far"] \/ v = t
  BY <1>1, <1>2, HandlerMoves, TaskEffects DEF Daemons, WiresMove, CallTypes
<1>4. ~ended => t.ref \in refs
  BY <1>2 DEF CallInvariant, OffersHeld, Daemons
<1>5. /\ InboxStep
      /\ \A n \in DOMAIN events' :
           \/ n \in DOMAIN events /\ events'[n] = events[n]
           \/ events'[n].kind = "file_ref_shared" /\ events'[n].ref = t.ref
  BY <1>1, <1>2, EmitMoves DEF Daemons, EventKinds
<1>6. CallMoves
  BY <1>2, <1>3, <1>4, <1>5 DEF CallMoves
<1>7. CallTypes'
  BY <1>1, <1>2, <1>3, RestTypes DEF CallTypes
<1>8. FreedMoves
  BY <1>2, <1>3, FreedKeeps
<1>. QED BY <1>5, <1>6, <1>7, <1>8

\* fetchRef, up to its await.
LEMMA FetchRefStep ==
  ASSUME InboxInvariant, CallInvariant, NEW s \in Sessions, NEW r \in Refs, FetchRef(s, r)
  PROVE  InboxStep /\ CallTypes' /\ CallMoves /\ FreedMoves
<1>1. CallTypes /\ r \in {0} \cup Refs
  BY DEF CallInvariant
<1>2. UNCHANGED <<present, events, queue, waiters, state, wire, up, refs, shares, pending,
                  bridge, ended, bounds>>
  BY DEF FetchRef, fetch
<1>3. WiresMove
  BY <1>1, <1>2 DEF WiresMove, CallTypes
<1>4. PICK u \in Tasks : /\ u = Task("sendFetch", Len(asks) + 1, r)
                         /\ u.next = "sendFetch" /\ u.id = Len(asks) + 1 /\ u.ref = r
  <2>1. "sendFetch" \in Steps /\ Len(asks) + 1 \in Nat
    BY AskTypes DEF Steps, InboxInvariant
  <2>. QED BY <1>1, <2>1, MessageTypes
<1>5. PICK a \in {None, Error} : FetchAsked(s, r, a)
  BY <1>2 DEF FetchRef, FetchAsked
<1>6. IsFetchOf(u)'
  <2>1. Request(s, "fetch", r, a) /\ a \in Answers
    BY <1>5, AnswerTypes DEF FetchAsked
  <2>2. /\ DOMAIN asks' = DOMAIN asks \cup {Len(asks')}
        /\ asks'[Len(asks')].kind = "fetch" /\ asks'[Len(asks')].ref = r
    BY <1>1, <2>1, RequestKeeps
  <2>3. Len(asks') = Len(asks) + 1
    BY <1>1, <2>1, RequestEffect DEF InboxInvariant
  <2>. QED BY <1>4, <2>2, <2>3 DEF IsFetchOf
<1>7. TaskFits("near", u)'
  BY <1>4, <1>6 DEF TaskFits
<1>8. tasks' = tasks \/ Suspend("near", u)
  BY <1>4 DEF FetchRef
<1>9. TasksMove /\ \A e \in Daemons : tasks[e] \subseteq tasks'[e]
  BY <1>1, <1>7, <1>8, HandlerMoves, TaskEffects DEF Daemons
<1>10. CallTypes'
  BY <1>1, <1>2, <1>3, <1>9, RestTypes DEF CallTypes
<1>11. CallMoves
  BY <1>1, <1>2, <1>3, <1>9, QuietMoves
<1>12. FreedMoves
  BY <1>2, <1>9 DEF FreedMoves, Daemons
<1>. QED BY <1>5, <1>10, <1>11, <1>12 DEF InboxStep

\* The rest of fetchRef: it waits for the answer.
LEMMA SendFetchStep ==
  ASSUME InboxInvariant, CallInvariant, NEW t \in tasks["near"], SendFetch(t)
  PROVE  InboxStep /\ CallTypes' /\ CallMoves /\ FreedMoves
<1>1. CallTypes /\ t \in Tasks /\ "near" \in Daemons /\ t.open \in BOOLEAN
  BY MessageTypes DEF CallInvariant, CallTypes, Daemons
<1>2. /\ t.next = "sendFetch" /\ wire' = Sent("near", Frame("FETCH", t.id, t.ref), t.open)
      /\ Finish("near", t) /\ UNCHANGED <<inbox, state, up, refs, shares, bridge, ended, bounds>>
      /\ pending' = pending \cup {t.id}
  BY DEF SendFetch
<1>3. PICK f \in Frames : /\ f = Frame("FETCH", t.id, t.ref)
                          /\ f.type = "FETCH" /\ f.id = t.id /\ f.ref = t.ref
  <2>1. t.ref \in {0} \cup Refs /\ t.id \in Nat
    BY <1>1, MessageTypes
  <2>3. PICK i \in Nat, r \in {0} \cup Refs : i = t.id /\ r = t.ref
    BY <2>1
  <2>4. Frame("FETCH", i, r) \in Frames
    BY DEF Frame, Frames, Controls
  <2>5. /\ Frame("FETCH", i, r).type = "FETCH"
        /\ Frame("FETCH", i, r).id = i /\ Frame("FETCH", i, r).ref = r
    BY DEF Frame
  <2>. QED BY <2>3, <2>4, <2>5
<1>4. IsFetchOf(t) /\ UNCHANGED <<asks, events>>
  BY <1>1, <1>2 DEF CallInvariant, FetchesMatch, inbox
<1>5. FrameFits(f)'
  BY <1>3, <1>4 DEF FrameFits, IsFetchOf
<1>6. t.id \in Asks
  <2>1. t.id \in 1..Len(asks) /\ Len(asks) \in Nat /\ Len(asks) <= MaxAsks
    BY <1>4, AskTypes DEF IsFetchOf, InboxInvariant, AsksKnown
  <2>. QED BY <2>1, Numbers DEF Asks
<1>7. /\ InboxStep /\ FreedMoves /\ TasksMove /\ WiresMove
      /\ pending' \subseteq Asks => CallTypes'
  BY <1>1, <1>2, <1>3, <1>5, SendStep1
<1>8. CallMoves
  BY <1>2, <1>4, <1>7 DEF CallMoves, IsFetchOf
<1>. QED BY <1>1, <1>2, <1>6, <1>7, <1>8 DEF CallTypes

\* handleIncomingFetch.
LEMMA ReceiveFetchStep ==
  ASSUME CallInvariant, ReceiveFetch
  PROVE  InboxStep /\ CallTypes' /\ CallMoves /\ FreedMoves
<1>1. CallTypes
  BY DEF CallInvariant
<1>2. /\ Arrives("far", "FETCH") /\ Consume("far")
      /\ Suspend("far", Task("lookUp", Head(wire["far"]).id, Head(wire["far"]).ref))
      /\ UNCHANGED <<inbox, asks, events, state, up, refs, shares, pending, bridge, ended, bounds>>
  BY DEF ReceiveFetch, fetch, inbox
<1>3. /\ WiresMove /\ Head(wire["far"]) \in Frames
      /\ Head(wire["far"]).type = "FETCH" /\ FrameFits(Head(wire["far"]))
  BY <1>2, ArrivalFits DEF Daemons
<1>4. PICK u \in Tasks : /\ u = Task("lookUp", Head(wire["far"]).id, Head(wire["far"]).ref)
                         /\ u.next = "lookUp" /\ u.id = Head(wire["far"]).id
                         /\ u.ref = Head(wire["far"]).ref
  <2>1. "lookUp" \in Steps
    BY DEF Steps
  <2>2. Head(wire["far"]).ref \in {0} \cup Refs /\ Head(wire["far"]).id \in Nat
    BY <1>3, MessageTypes
  <2>3. PICK i \in Nat, r \in {0} \cup Refs : i = Head(wire["far"]).id /\ r = Head(wire["far"]).ref
    BY <2>1, <2>2
  <2>4. \E u \in Tasks : u = Task("lookUp", i, r) /\ u.next = "lookUp" /\ u.id = i /\ u.ref = r
    BY <2>1, NewTask
  <2>. QED BY <2>3, <2>4
<1>5. TaskFits("far", u)'
  BY <1>2, <1>3, <1>4 DEF TaskFits, FrameFits, IsFetchOf
<1>6. TasksMove /\ \A e \in Daemons : tasks[e] \subseteq tasks'[e]
  BY <1>1, <1>2, <1>4, <1>5, HandlerMoves, TaskEffects DEF Daemons
<1>7. CallTypes'
  BY <1>1, <1>2, <1>3, <1>6, RestTypes DEF CallTypes
<1>8. CallMoves
  BY <1>1, <1>2, <1>3, <1>6, QuietMoves
<1>9. FreedMoves
  BY <1>2, <1>6 DEF FreedMoves, Daemons
<1>. QED BY <1>2, <1>7, <1>8, <1>9 DEF InboxStep

\* The ref is looked up.
LEMMA LookUpStep ==
  ASSUME CallInvariant, NEW t \in tasks["far"], LookUp(t)
  PROVE  InboxStep /\ CallTypes' /\ CallMoves /\ FreedMoves
<1>1. CallTypes /\ t \in Tasks /\ "far" \in Daemons
  BY DEF CallInvariant, CallTypes, Daemons
<1>2. PICK r \in {0} \cup Refs : /\ r \in {0, t.ref}
                                /\ tasks' = [tasks EXCEPT !["far"] =
                                     (@ \ {t}) \cup {[t EXCEPT !.next = "respond", !.ref = r]}]
  <2>1. t.ref \in {0} \cup Refs
    BY <1>1, MessageTypes
  <2>. QED BY <2>1 DEF LookUp
<1>3. /\ t.next = "lookUp"
      /\ UNCHANGED <<inbox, asks, events, state, wire, up, refs, shares, pending, bridge, ended, bounds>>
  BY DEF LookUp, Kept, inbox
<1>4. PICK u \in Tasks : /\ u = [t EXCEPT !.next = "respond", !.ref = r]
                         /\ u.next = "respond" /\ u.id = t.id /\ u.ref = r
  <2>. DEFINE u == [t EXCEPT !.next = "respond", !.ref = r]
  <2>1. "respond" \in Steps
    BY DEF Steps
  <2>2. u.next = "respond" /\ u.id = t.id /\ u.ref = r
    BY <1>1 DEF Tasks
  <2>3. u \in Tasks
    BY <1>1, <1>2, <2>1 DEF Tasks
  <2>. HIDE DEF u
  <2>. QED BY <2>2, <2>3 DEF u
<1>5. TaskFits("far", u)'
  <2>1. IsFetchOf(t)
    BY <1>1, <1>3 DEF CallInvariant, FetchesMatch
  <2>. QED BY <1>2, <1>3, <1>4, <2>1 DEF TaskFits, IsFetchOf, IsAnswerTo
<1>6. /\ TasksMove
      /\ \A v \in tasks["far"] : v \in tasks'["far"] \/ v = t
  <2>1. tasks' = [tasks EXCEPT !["far"] = (@ \ {t}) \cup {u}]
    BY <1>2, <1>4
  <2>2. \A e \in Daemons : \A v \in tasks[e] : v \in tasks'[e] \/ (e = "far" /\ v = t)
    BY <1>1, <2>1, TaskEffects
  <2>. QED BY <1>1, <1>5, <2>1, <2>2, HandlerMoves
<1>7. WiresMove
  BY <1>1, <1>3 DEF WiresMove, CallTypes
<1>8. CallTypes'
  BY <1>1, <1>3, <1>6, <1>7, RestTypes DEF CallTypes
<1>9. CallMoves
  BY <1>1, <1>3, <1>6, <1>7, QuietMoves
<1>10. FreedMoves
  BY <1>3, <1>6, FreedKeeps
<1>. QED BY <1>3, <1>8, <1>9, <1>10 DEF InboxStep

\* The answer is sent.
LEMMA RespondStep ==
  ASSUME CallInvariant, NEW t \in tasks["far"], Respond(t)
  PROVE  InboxStep /\ CallTypes' /\ CallMoves /\ FreedMoves
<1>1. CallTypes /\ t \in Tasks /\ "far" \in Daemons /\ t.open \in BOOLEAN
  BY MessageTypes DEF CallInvariant, CallTypes, Daemons
<1>2. /\ t.next = "respond" /\ wire' = Sent("far", Frame("FETCH_RESPONSE", t.id, t.ref), t.open)
      /\ Finish("far", t) /\ UNCHANGED <<inbox, state, up, refs, shares, bridge, ended, bounds>>
      /\ pending' = pending /\ asks' = asks
  BY DEF Respond, fetch, inbox
<1>3. PICK f \in Frames : /\ f = Frame("FETCH_RESPONSE", t.id, t.ref)
                          /\ f.type = "FETCH_RESPONSE" /\ f.id = t.id /\ f.ref = t.ref
  <2>1. t.ref \in {0} \cup Refs /\ t.id \in Nat
    BY <1>1, MessageTypes
  <2>3. PICK i \in Nat, r \in {0} \cup Refs : i = t.id /\ r = t.ref
    BY <2>1
  <2>4. Frame("FETCH_RESPONSE", i, r) \in Frames
    BY DEF Frame, Frames, Controls
  <2>5. /\ Frame("FETCH_RESPONSE", i, r).type = "FETCH_RESPONSE"
        /\ Frame("FETCH_RESPONSE", i, r).id = i /\ Frame("FETCH_RESPONSE", i, r).ref = r
    BY DEF Frame
  <2>. QED BY <2>3, <2>4, <2>5
<1>4. FrameFits(f)'
  <2>1. IsAnswerTo(t)
    BY <1>1, <1>2 DEF CallInvariant, FetchesMatch
  <2>. QED BY <1>2, <1>3, <2>1 DEF FrameFits, IsAnswerTo
<1>5. pending \subseteq Asks
  BY <1>1 DEF CallTypes
<1>. QED BY <1>1, <1>2, <1>3, <1>4, <1>5, SendStep1

\* What a request names is a number.
LEMMA RefNumbers ==
  ASSUME InboxInvariant, NEW i \in DOMAIN asks
  PROVE  asks[i].ref \in {0} \cup Refs /\ asks[i].ref \in Nat
<1>1. InboxTypes
  BY DEF InboxInvariant
<1>2. asks[i].ref \in {0} \cup Refs
  BY <1>1, AskTypes
<1>. QED BY <1>2 DEF Refs

\* A fetch that waits is settled.
LEMMA SettledFetch ==
  ASSUME InboxInvariant, CallInvariant, NEW i \in pending,
         NEW a \in {Timeout, Error, Content(asks[i].ref)},
         a = Content(asks[i].ref) => asks[i].ref \in Refs,
         Settle(i, a), UNCHANGED <<present, asks, status, events, queue, waiters>>
  PROVE  InboxStep
<1>1. i \in DOMAIN asks /\ asks[i].kind = "fetch" /\ Answered(i, a)
  BY DEF CallInvariant, PendingKnown, Answered
<1>. QED BY <1>1 DEF InboxStep

\* handleIncomingFetchResponse.
LEMMA ReceiveResponseStep ==
  ASSUME InboxInvariant, CallInvariant, ReceiveResponse
  PROVE  InboxStep /\ CallTypes' /\ CallMoves /\ FreedMoves
<1>1. CallTypes
  BY DEF CallInvariant
<1>2. /\ Arrives("near", "FETCH_RESPONSE") /\ Consume("near")
      /\ UNCHANGED <<present, asks, status, events, queue, waiters, state, tasks,
                     up, refs, shares, bridge, ended, bounds>>
  BY DEF ReceiveResponse
<1>. DEFINE f == Head(wire["near"])
<1>3. WiresMove /\ f \in Frames /\ f.type = "FETCH_RESPONSE" /\ FrameFits(f)
  BY <1>2, ArrivalFits DEF Daemons
<1>4. IsAnswerTo(f) /\ f.ref \in {0} \cup Refs
  BY <1>3, MessageTypes DEF FrameFits
<1>5. InboxStep /\ pending' \subseteq pending
  <2>1. CASE f.id \in pending
    <3>1. pending' = pending \ {f.id}
          /\ Settle(f.id, IF f.ref = 0 THEN Error ELSE Content(f.ref))
      BY <2>1 DEF ReceiveResponse, SettledBy
    <3>2. PICK a \in {Timeout, Error, Content(asks[f.id].ref)} :
            /\ Settle(f.id, a)
            /\ a = Content(asks[f.id].ref) => asks[f.id].ref \in Refs
      <4>1. CASE f.ref = 0
        <5>1. \A r \in Nat : Error # Content(r)
          BY AnswersDiffer
        <5>2. asks[f.id].ref \in {0} \cup Refs /\ asks[f.id].ref \in Nat
          BY <1>4, RefNumbers DEF IsAnswerTo
        <5>. QED BY <3>1, <4>1, <5>1, <5>2
      <4>2. CASE f.ref # 0
        <5>1. f.ref = asks[f.id].ref /\ f.ref \in Refs
          BY <1>4, <4>2 DEF IsAnswerTo
        <5>. QED BY <3>1, <4>2, <5>1
      <4>. QED BY <4>1, <4>2
    <3>. HIDE DEF f
    <3>. QED BY <1>2, <2>1, <3>1, <3>2, SettledFetch
  <2>2. CASE f.id \notin pending
    BY <1>2, <2>2 DEF ReceiveResponse, InboxStep, inbox
  <2>. QED BY <2>1, <2>2
<1>6. TasksMove
  BY <1>1, <1>2 DEF TasksMove, CallTypes
<1>7. CallTypes'
  <2>1. pending' \subseteq Asks
    BY <1>1, <1>5 DEF CallTypes
  <2>. QED BY <1>1, <1>2, <1>3, <1>6, <2>1, RestTypes DEF CallTypes
<1>8. CallMoves
  BY <1>1, <1>2, <1>3, <1>5, <1>6, QuietMoves
<1>9. FreedMoves
  BY <1>2 DEF FreedMoves
<1>. QED BY <1>5, <1>7, <1>8, <1>9

\* The timer of a fetch.
LEMMA FetchTimeoutStep ==
  ASSUME InboxInvariant, CallInvariant, NEW i \in pending, FetchTimeout(i)
  PROVE  InboxStep /\ CallTypes' /\ CallMoves /\ FreedMoves
<1>1. CallTypes
  BY DEF CallInvariant
<1>2. /\ pending' = pending \ {i} /\ Settle(i, Timeout)
      /\ UNCHANGED <<present, asks, status, events, queue, waiters, state, tasks, wire, up,
                     refs, shares, bridge, ended, bounds>>
  BY DEF FetchTimeout, call
<1>3. asks[i].ref \in {0} \cup Refs /\ asks[i].ref \in Nat
  BY RefNumbers DEF CallInvariant, PendingKnown
<1>4. InboxStep
  <2>1. Timeout # Content(asks[i].ref)
    BY <1>3, AnswersDiffer
  <2>. QED BY <1>2, <2>1, SettledFetch
<1>5. TasksMove /\ WiresMove
  BY <1>1, <1>2 DEF TasksMove, WiresMove, CallTypes
<1>6. CallTypes'
  <2>1. pending' \subseteq Asks
    BY <1>1, <1>2 DEF CallTypes
  <2>. QED BY <1>1, <1>2, <1>5, <2>1, RestTypes DEF CallTypes
<1>7. CallMoves
  BY <1>1, <1>2, <1>5, QuietMoves
<1>8. FreedMoves
  BY <1>2 DEF FreedMoves
<1>. QED BY <1>4, <1>6, <1>7, <1>8

\* A step that leaves the call, the refs and the events alone.
LEMMA NoCallStep ==
  ASSUME CallInvariant, UNCHANGED <<state, tasks, wire, refs, pending, ended, events>>
  PROVE  CallMoves /\ FreedMoves
<1>1. CallTypes /\ TasksMove /\ WiresMove
  BY DEF CallInvariant, CallTypes, TasksMove, WiresMove
<1>. QED BY <1>1 DEF CallMoves, FreedMoves

\* The steps that only the inbox takes.
LEMMA OnlyInbox ==
  ASSUME CallInvariant, InboxStep, Rest, UNCHANGED events
  PROVE  CallTypes' /\ CallMoves /\ FreedMoves
<1>1. UNCHANGED <<state, tasks, wire, up, refs, shares, pending, owned, seen, told, ended,
                  work, controls, faults>>
  BY DEF Rest, call, fetch, bridge, bounds
<1>2. CallTypes'
  BY <1>1 DEF CallInvariant, CallTypes
<1>. QED BY <1>1, <1>2, NoCallStep

\* The bridges.
LEMMA BridgeSteps ==
  ASSUME InboxInvariant, CallInvariant, NEW s \in Sessions, Claim(s) \/ Poll(s) \/ ReadPoll(s)
  PROVE  InboxStep /\ CallTypes' /\ CallMoves /\ FreedMoves
<1>1. UNCHANGED <<state, tasks, wire, up, refs, shares, pending, ended, events, work,
                  controls, faults>>
  BY DEF Claim, Poll, ReadPoll, call, fetch, bounds, inbox
<1>2. CallMoves /\ FreedMoves
  BY <1>1, NoCallStep
<1>3. CASE Claim(s)
  <2>1. InboxStep
    BY <1>3 DEF Claim, InboxStep
  <2>2. owned' \in [Sessions -> BOOLEAN] /\ UNCHANGED <<seen, told>>
    BY <1>3 DEF Claim, CallInvariant, CallTypes
  <2>. QED BY <1>1, <1>2, <2>1, <2>2 DEF CallInvariant, CallTypes
<1>4. CASE Poll(s)
  <2>1. state["near"] \in CallStates
    BY DEF CallInvariant, CallTypes, Daemons
  <2>2. Polled(s, Line(0, state["near"]))
    BY <1>4 DEF Poll, Polled
  <2>3. InboxStep
    BY <2>1, <2>2 DEF InboxStep
  <2>4. UNCHANGED <<owned, seen, told>>
    BY <1>4 DEF Poll, bridge
  <2>. QED BY <1>1, <1>2, <2>3, <2>4 DEF CallInvariant, CallTypes
<1>5. CASE ReadPoll(s)
  <2>. DEFINE cur == Head(socket[s]).state
  <2>1. PollRead(s)
    BY <1>5 DEF ReadPoll, PollRead
  <2>2. InboxStep
    BY <2>1 DEF InboxStep
  <2>3. seen' = [seen EXCEPT ![s] = cur] /\ owned' = owned
    BY <1>5 DEF ReadPoll
  <2>4. told' = told \/ \E n \in Notice(seen[s], cur) : told' = [told EXCEPT ![s] = n]
    BY <1>5 DEF ReadPoll
  <2>5. cur \in CallStates
    <3>1. socket[s] \in Seq(Lines) /\ socket[s] # <<>> /\ Head(socket[s]).ask = 0
      BY <1>5 DEF ReadPoll, InboxInvariant, InboxTypes
    <3>2. Head(socket[s]) \in Lines
      BY <3>1, TailFacts
    <3>. QED BY <3>1, <3>2, Numbers DEF Lines
  <2>6. Notice(seen[s], cur) \subseteq {"nothing", "connected", "resumed", "paused", "ended"}
    BY DEF Notice
  <2>7. seen' \in [Sessions -> CallStates \cup {"NONE", "RINGING"}]
    BY <2>3, <2>5 DEF CallInvariant, CallTypes
  <2>8. told' \in [Sessions -> {"nothing", "connected", "resumed", "paused", "ended"}]
    BY <2>4, <2>6 DEF CallInvariant, CallTypes
  <2>. QED BY <1>1, <1>2, <2>2, <2>3, <2>7, <2>8 DEF CallInvariant, CallTypes
<1>. QED BY <1>3, <1>4, <1>5

\* The connection breaks.
LEMMA BreakStep ==
  ASSUME CallInvariant, Break
  PROVE  InboxStep /\ CallTypes' /\ CallMoves /\ FreedMoves
<1>1. CallTypes
  BY DEF CallInvariant
<1>2. /\ up' = FALSE /\ wire' = [d \in Daemons |-> <<>>]
      /\ tasks' = [d \in Daemons |-> {[t EXCEPT !.open = FALSE] : t \in tasks[d]}]
      /\ UNCHANGED <<inbox, events, state, refs, shares, pending, owned, seen, told, ended,
                     work, controls>>
      /\ faults < work.faults /\ faults' = faults + 1
  BY DEF Break, Fault, fetch, bridge, inbox
<1>3. ASSUME NEW t \in Tasks
      PROVE  /\ [t EXCEPT !.open = FALSE] \in Tasks /\ [t EXCEPT !.open = FALSE].next = t.next
             /\ [t EXCEPT !.open = FALSE].id = t.id /\ [t EXCEPT !.open = FALSE].ref = t.ref
  BY DEF Tasks
<1>4. ASSUME NEW d \in Daemons, NEW u \in tasks'[d]
      PROVE  u \in Tasks /\ TaskFits(d, u)'
  <2>1. PICK t \in tasks[d] : u = [t EXCEPT !.open = FALSE]
    BY <1>2
  <2>2. t \in Tasks /\ TaskFits(d, t)
    BY <1>1, AllFit DEF CallInvariant, CallTypes
  <2>3. u \in Tasks /\ u.next = t.next /\ u.id = t.id /\ u.ref = t.ref
    BY <1>3, <2>1, <2>2
  <2>4. UNCHANGED <<asks, refs, ended>>
    BY <1>2 DEF inbox
  <2>. QED BY <2>2, <2>3, <2>4 DEF TaskFits, IsFetchOf, IsAnswerTo
<1>5. TasksMove
  <2>1. tasks' = [d \in Daemons |-> tasks'[d]]
    BY <1>2
  <2>2. tasks' \in [Daemons -> SUBSET Tasks]
    BY <1>4, <2>1
  <2>. QED BY <1>4, <2>2 DEF TasksMove
<1>6. WiresMove
  BY <1>2 DEF WiresMove
<1>7. CallTypes'
  <2>1. faults' \in 0..work'.faults /\ controls' \in 0..work'.controls
    BY <1>1, <1>2, WorkTypes DEF CallTypes
  <2>. QED BY <1>1, <1>2, <1>5, <1>6, <2>1 DEF CallTypes, TasksMove, WiresMove
<1>8. CallMoves
  BY <1>1, <1>2, <1>5, <1>6, QuietMoves
<1>9. FreedMoves
  <2>1. ASSUME NEW t \in tasks["far"], t.next = "clear"
        PROVE  \E u \in tasks'["far"] : u.next = "clear"
    <3>1. t \in Tasks
      BY <1>1 DEF CallTypes, Daemons
    <3>2. PICK u : u = [t EXCEPT !.open = FALSE]
      OBVIOUS
    <3>3. u \in tasks'["far"]
      BY <1>2, <3>2 DEF Daemons
    <3>. QED BY <1>3, <2>1, <3>1, <3>2, <3>3
  <2>. QED BY <1>2, <2>1 DEF FreedMoves
<1>. QED BY <1>2, <1>7, <1>8, <1>9 DEF InboxStep

\* A connection returns, a session leaves or gives up.
LEMMA FaultSteps ==
  ASSUME InboxInvariant, CallInvariant, Reconnect \/ Leave
  PROVE  InboxStep /\ CallTypes' /\ CallMoves /\ FreedMoves
<1>1. CASE Reconnect
  <2>1. /\ UNCHANGED <<inbox, events, state, tasks, wire, refs, shares, pending, owned, seen, told,
                       ended, work, controls, faults>>
        /\ up' \in BOOLEAN
    BY <1>1 DEF Reconnect, fetch, bridge, bounds, inbox
  <2>2. CallTypes'
    BY <2>1 DEF CallInvariant, CallTypes
  <2>. QED BY <2>1, <2>2, NoCallStep DEF InboxStep
<1>2. CASE Leave
  <2>1. /\ UNCHANGED <<state, tasks, wire, up, refs, shares, pending, owned, seen, told,
                       ended, work, controls>>
        /\ faults < work.faults /\ faults' = faults + 1
    BY <1>2 DEF Leave, Fault, call, fetch, bridge
  <2>2. (\E s \in Sessions : Exit(s)) \/ (\E i \in DOMAIN asks : ClientTimeout(i))
    BY <1>2 DEF Leave
  <2>3. InboxStep /\ UNCHANGED events
    BY <2>2 DEF InboxStep, Exit, ClientTimeout
  <2>4. faults' \in 0..work'.faults
    BY <2>1, WorkTypes DEF CallInvariant
  <2>5. CallTypes'
    BY <2>1, <2>4 DEF CallInvariant, CallTypes
  <2>. QED BY <2>1, <2>3, <2>5, NoCallStep
<1>. QED BY <1>1, <1>2

\* A suspended handler goes on.
LEMMA ResumeStep ==
  ASSUME InboxInvariant, CallInvariant, NEW d \in Daemons, NEW t \in tasks[d], Resume(d, t)
  PROVE  InboxStep /\ CallTypes' /\ CallMoves /\ FreedMoves
<1>1. CASE SendControl(d, t)
  BY <1>1, SendControlStep
<1>2. CASE SendEnd(d, t)
  BY <1>2, SendEndStep
<1>3. CASE ApplyControl(d, t)
  BY <1>3, ApplyControlStep
<1>4. CASE EmitControl(d, t)
  BY <1>4, EmitControlStep
<1>5. CASE Clear(d, t)
  BY <1>5, ClearStep
<1>6. CASE d = "far" /\ SendShare(t)
  BY <1>6, SendShareStep
<1>7. CASE d = "far" /\ LookUp(t)
  BY <1>7, LookUpStep
<1>8. CASE d = "far" /\ Respond(t)
  BY <1>8, RespondStep
<1>9. CASE d = "near" /\ EmitShare(t)
  BY <1>9, EmitShareStep
<1>10. CASE d = "near" /\ SendFetch(t)
  BY <1>10, SendFetchStep
<1>. QED BY <1>1, <1>2, <1>3, <1>4, <1>5, <1>6, <1>7, <1>8, <1>9, <1>10 DEF Resume

---------------------------------------------------------------------------
(* The theorems.                                                           *)

IInv == InboxInvariant /\ CallInvariant

\* It holds of a call that has just been connected.
LEMMA InvariantInit == Init => IInv
<1>. SUFFICES ASSUME Init
              PROVE  IInv
  OBVIOUS
<1>1. /\ asks = <<>> /\ status = <<>> /\ answer = <<>> /\ events = <<>> /\ queue = <<>>
      /\ waiters = <<>> /\ socket = [s \in Sessions |-> <<>>]
      /\ present = [s \in Sessions |-> s \in work.by] /\ work \in Workloads
  BY DEF Init, InboxInit
<1>2. InboxTypes
  BY <1>1 DEF InboxTypes
<1>3. Given = {} /\ Gone = 0 /\ AsksKnown
  BY <1>1, Numbers DEF Given, Gone, AsksKnown
<1>4. GivenOnce
  <2>1. IsFiniteSet(Given) /\ Cardinality(Given) = 0
    BY <1>3, FS_EmptySet
  <2>2. {answer[i][2] : i \in Given} = 1..Gone
    BY <1>3
  <2>. QED BY <1>1, <1>3, <2>1, <2>2 DEF GivenOnce
<1>5. InLine /\ FetchMatches
  BY <1>1 DEF InLine, FetchMatches
<1>6. TakenInOrder
  BY <1>1, <1>3 DEF TakenInOrder
<1>7. \A s \in Sessions : RepliesInOrder(s)
  BY <1>1 DEF RepliesInOrder
<1>8. InboxInvariant
  BY <1>2, <1>3, <1>4, <1>5, <1>6, <1>7 DEF InboxInvariant
<1>9. /\ state = [d \in Daemons |-> "CONNECTED"] /\ tasks = [d \in Daemons |-> {}]
      /\ wire = [d \in Daemons |-> <<>>] /\ up = TRUE /\ refs = {} /\ shares = 0
      /\ pending = {} /\ ended = FALSE /\ controls = 0 /\ faults = 0
      /\ told = [s \in Sessions |-> "nothing"]
  BY DEF Init
<1>10. owned \in [Sessions -> BOOLEAN]
  BY DEF Init, Unowned
<1>11. seen \in [Sessions -> CallStates \cup {"NONE", "RINGING"}]
  BY DEF Init
<1>12. controls \in 0..work.controls /\ faults \in 0..work.faults
  BY <1>1, <1>9, SessionsAssumption
<1>13. CallTypes
  <2>1. shares \in 0..MaxShares
    BY <1>9, Numbers
  <2>2. state \in [Daemons -> CallStates]
    BY <1>9 DEF CallStates
  <2>3. /\ tasks \in [Daemons -> SUBSET Tasks] /\ wire \in [Daemons -> Seq(Frames)]
        /\ told \in [Sessions -> {"nothing", "connected", "resumed", "paused", "ended"}]
    BY <1>9
  <2>. QED BY <1>1, <1>9, <1>10, <1>11, <1>12, <2>1, <2>2, <2>3 DEF CallTypes
<1>14. PendingKnown /\ OfferedIsHeld /\ RefsFreed
  BY <1>1, <1>9 DEF PendingKnown, OfferedIsHeld, RefsFreed
<1>15. FetchesMatch /\ OffersHeld
  BY <1>9 DEF FetchesMatch, OffersHeld, Daemons
<1>. QED BY <1>8, <1>13, <1>14, <1>15 DEF IInv, CallInvariant

\* Every step keeps it, and reads events in order.
LEMMA InvariantStep == IInv /\ [Next]_vars => IInv' /\ ReadsLater
<1>. SUFFICES ASSUME InboxInvariant, CallInvariant, [Next]_vars
              PROVE  IInv' /\ ReadsLater
  BY DEF IInv
<1>1. ASSUME InboxStep /\ CallTypes' /\ CallMoves /\ FreedMoves
      PROVE  IInv' /\ ReadsLater
  BY <1>1, InboxSteps, CallStep DEF IInv
<1>2. ASSUME NEW d \in Daemons, NEW type \in Controls, Control(d, type)
      PROVE  IInv' /\ ReadsLater
  BY <1>1, <1>2, ControlStep
<1>3. ASSUME NEW d \in Daemons, Handle(d)
      PROVE  IInv' /\ ReadsLater
  BY <1>1, <1>3, ResumeStep DEF Handle
<1>4. CASE Receive
  <2>1. CASE \E d \in Daemons : ReceiveControl(d)
    BY <1>1, <2>1, ReceiveControlStep
  <2>2. CASE ReceiveShare
    BY <1>1, <2>2, ReceiveShareStep
  <2>3. CASE ReceiveFetch
    BY <1>1, <2>3, ReceiveFetchStep
  <2>4. CASE ReceiveResponse
    BY <1>1, <2>4, ReceiveResponseStep
  <2>. QED BY <1>4, <2>1, <2>2, <2>3, <2>4 DEF Receive
<1>5. CASE ShareFileRef
  BY <1>1, <1>5, ShareFileRefStep
<1>6. ASSUME NEW s \in Sessions, Recv(s), Rest
      PROVE  IInv' /\ ReadsLater
  <2>1. InboxStep /\ UNCHANGED events
    BY <1>6 DEF InboxStep, Recv
  <2>. QED BY <1>1, <1>6, <2>1, OnlyInbox
<1>7. ASSUME NEW s \in Sessions, NEW r \in Refs, FetchRef(s, r)
      PROVE  IInv' /\ ReadsLater
  BY <1>1, <1>7, FetchRefStep
<1>8. CASE Timers
  <2>1. ASSUME NEW i \in DOMAIN asks, RecvTimeout(i), Rest
        PROVE  IInv' /\ ReadsLater
    <3>1. InboxStep /\ UNCHANGED events
      BY <2>1 DEF InboxStep, RecvTimeout
    <3>. QED BY <1>1, <2>1, <3>1, OnlyInbox
  <2>2. ASSUME NEW i \in pending, FetchTimeout(i)
        PROVE  IInv' /\ ReadsLater
    BY <1>1, <2>2, FetchTimeoutStep
  <2>. QED BY <1>8, <2>1, <2>2 DEF Timers
<1>9. ASSUME NEW s \in Sessions, Read(s) \/ Claim(s) \/ Poll(s)
      PROVE  IInv' /\ ReadsLater
  <2>1. CASE ReadReply(s) /\ Rest
    <3>1. InboxStep /\ UNCHANGED events
      BY <2>1 DEF InboxStep, ReadReply
    <3>. QED BY <1>1, <2>1, <3>1, OnlyInbox
  <2>2. CASE Claim(s) \/ Poll(s) \/ ReadPoll(s)
    BY <1>1, <2>2, BridgeSteps
  <2>. QED BY <1>9, <2>1, <2>2 DEF Read
<1>10. CASE Break
  BY <1>1, <1>10, BreakStep
<1>11. CASE Reconnect \/ Leave
  BY <1>1, <1>11, FaultSteps
<1>12. CASE UNCHANGED vars
  <2>1. InboxStep /\ UNCHANGED events
    BY <1>12 DEF InboxStep, vars, inbox
  <2>2. Rest
    BY <1>12 DEF vars, Rest
  <2>. QED BY <1>1, <2>1, <2>2, OnlyInbox
<1>. QED BY <1>2, <1>3, <1>4, <1>5, <1>6, <1>7, <1>8, <1>9, <1>10, <1>11, <1>12 DEF Next

\* The invariant in the parts that the model names.
LEMMA InvariantParts ==
  IInv => /\ TypeOK /\ SessionsInvariant /\ GivenOnce
          /\ FetchMatches /\ OfferedIsHeld /\ RefsFreed
<1>. SUFFICES ASSUME IInv
              PROVE  TypeOK /\ SessionsInvariant /\ GivenOnce
                       /\ FetchMatches /\ OfferedIsHeld /\ RefsFreed
  OBVIOUS
<1>1. TypeOK
  BY TypeParts DEF IInv, InboxInvariant, CallInvariant
<1>2. RequestsKnown
  BY DEF IInv, InboxInvariant, CallInvariant, AsksKnown, PendingKnown, RequestsKnown
<1>. QED BY <1>1, <1>2 DEF IInv, InboxInvariant, CallInvariant, SessionsInvariant

\* It holds always.
THEOREM InvariantHolds == Spec => []IInv
<1>1. Init => IInv
  BY InvariantInit
<1>2. IInv /\ [Next]_vars => IInv'
  BY InvariantStep
<1>. QED BY <1>1, <1>2, PTL DEF Spec

\* All of the state has its type, whoever leaves, gives up or answers late: no
\* request, waiter, line or frame is ever one that the code does not know.
THEOREM SessionsTypeCorrect == Spec => []TypeOK
<1>1. IInv => TypeOK
  BY InvariantParts
<1>. QED BY <1>1, InvariantHolds, PTL

\* Requests, waiters, replies, handlers and frames always match each other
\* (CallInbox, the replies of the control socket, the request ids of fetches).
THEOREM SessionsInvariantHolds == Spec => []SessionsInvariant
<1>1. IInv => SessionsInvariant
  BY InvariantParts
<1>. QED BY <1>1, InvariantHolds, PTL

\* No event is lost, given twice, reordered or kept back in the daemon (push,
\* recv and its timer), however many sessions and requests there are.
THEOREM EventsGivenOnce == Spec => []EachEventOnce
<1>1. IInv => EachEventOnce
  <2>. SUFFICES ASSUME IInv
                PROVE  EachEventOnce
    OBVIOUS
  <2>1. TypeOK /\ TakenInOrder /\ GivenOnce
    BY InvariantParts DEF SessionsInvariant
  <2>2. /\ queue \in Seq(DOMAIN events) /\ Len(events) \in Nat /\ Len(queue) \in Nat
        /\ DOMAIN events = 1..Len(events) /\ DOMAIN queue = 1..Len(queue)
    BY <2>1, SequenceFacts DEF TypeOK
  <2>3. /\ \A k \in 1..Len(queue) : queue[k] = Gone + k
        /\ Gone = Len(events) - Len(queue) /\ Gone \in Nat
    <3>1. Len(queue) <= Len(events) /\ Gone = Len(events) - Len(queue)
      BY <2>1 DEF TakenInOrder, Gone
    <3>2. Gone \in Nat
      BY <2>2, <3>1
    <3>3. \A k \in DOMAIN queue : queue[k] = Gone + k
      BY <2>1 DEF TakenInOrder
    <3>. QED BY <2>2, <3>1, <3>2, <3>3
  <2>4. ToSet(queue) = (Gone + 1)..Len(events)
    <3>1. ToSet(queue) = {queue[k] : k \in 1..Len(queue)}
      BY <2>2 DEF ToSet
    <3>2. ASSUME NEW n \in (Gone + 1)..Len(events)
          PROVE  n \in ToSet(queue)
      <4>1. n - Gone \in Nat
        BY <2>2, <2>3
      <4>2. PICK k \in Nat : k = n - Gone
        BY <4>1
      <4>3. k \in 1..Len(queue) /\ queue[k] = n
        BY <2>2, <2>3, <4>2
      <4>. QED BY <3>1, <4>3
    <3>3. ASSUME NEW k \in 1..Len(queue)
          PROVE  queue[k] \in (Gone + 1)..Len(events)
      BY <2>2, <2>3
    <3>. QED BY <3>1, <3>2, <3>3
  <2>5. {answer[i][2] : i \in Given} \cup ToSet(queue) = DOMAIN events
    <3>1. {answer[i][2] : i \in Given} = 1..Gone
      BY <2>1 DEF GivenOnce
    <3>. QED BY <2>2, <2>3, <2>4, <3>1
  <2>6. Cardinality(Given) + Len(queue) = Len(events)
    BY <2>1, <2>2, <2>3 DEF GivenOnce
  <2>7. \A n \in 1..(Len(queue) - 1) : queue[n] < queue[n + 1]
    BY <2>2, <2>3
  <2>. QED BY <2>1, <2>5, <2>6, <2>7 DEF EachEventOnce, GivenOnce
<1>. QED BY <1>1, InvariantHolds, PTL

\* A session reads events in the order of their emission, whichever of its
\* requests brings them.
THEOREM EventsReadInOrder == Spec => ReadInOrder
<1>1. IInv /\ [Next]_vars
        => [\A s \in Sessions : \A n \in HasRead(s)' \ HasRead(s), m \in HasRead(s) : m < n]_vars
  BY InvariantStep DEF ReadsLater
<1>. QED BY <1>1, InvariantHolds, PTL DEF Spec, ReadInOrder

\* A fetch brings the content of the ref that it asks for, or nothing, however
\* many are under way and however late the answers come.
THEOREM FetchesMatchAlways == Spec => []FetchMatches
<1>1. IInv => FetchMatches
  BY InvariantParts
<1>. QED BY <1>1, InvariantHolds, PTL

\* What near has been told of can be fetched until an end is begun or received.
THEOREM OfferedRefsAreHeld == Spec => []OfferedIsHeld
<1>1. IInv => OfferedIsHeld
  BY InvariantParts
<1>. QED BY <1>1, InvariantHolds, PTL

\* A closed call keeps no ref once its handlers are done, though a late RESUME
\* has opened it in between.
THEOREM ClosedCallsForget == Spec => []RefsFreed
<1>1. IInv => RefsFreed
  BY InvariantParts
<1>. QED BY <1>1, InvariantHolds, PTL
============================================================================
