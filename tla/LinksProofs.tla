---------------------------- MODULE LinksProofs ----------------------------
(***************************************************************************)
(* The connections of Links, for every bound: their types, the inductive   *)
(* invariant of a link, and that the table only has connections that can   *)
(* be sent on.                                                             *)
(***************************************************************************)
EXTENDS Links, TLAPS

---------------------------------------------------------------------------
(* The two ends of a link.                                                 *)

\* A daemon and its peer are the two daemons.
LEMMA PeerFacts ==
  \A d \in Daemons :
    /\ Peer(d) \in Daemons /\ Peer(d) # d /\ Peer(Peer(d)) = d
    /\ \A e \in Daemons : e = d \/ e = Peer(d)
BY DEF Daemons, Peer

\* A link has a client and a server, and is not the absence of a link.
LEMMA LinkFacts ==
  /\ NoLink \notin Links
  /\ \A l \in Links : l[1] \in Daemons /\ Server(l) \in Daemons /\ Server(l) # l[1]
  /\ \A l \in Links, d \in Daemons :
       /\ Client(l, d) <=> d = l[1]
       /\ ~Client(l, d) <=> d = Server(l)
  /\ \A d \in Daemons, n \in 1..MaxLinks :
       <<d, n>> \in Links /\ <<d, n>>[1] = d /\ Client(<<d, n>>, d)
<1>1. NoLink \notin Links
  BY DEF NoLink, Links
<1>2. \A l \in Links : l[1] \in Daemons
  BY DEF Links
<1>3. \A l \in Links : Server(l) \in Daemons /\ Server(l) # l[1]
  BY <1>2, PeerFacts DEF Server
<1>4. \A l \in Links, d \in Daemons :
        (Client(l, d) <=> d = l[1]) /\ (~Client(l, d) <=> d = Server(l))
  BY <1>2, PeerFacts DEF Client, Server
<1>5. \A d \in Daemons, n \in 1..MaxLinks :
        <<d, n>> \in Links /\ <<d, n>>[1] = d /\ Client(<<d, n>>, d)
  BY DEF Links, Client
<1>. QED BY <1>1, <1>2, <1>3, <1>4, <1>5

---------------------------------------------------------------------------
(* Types.                                                                  *)

\* The frames that the code sends are frames.
LEMMA FrameFacts ==
  /\ \A type \in {"HELLO", "WELCOME", "CLOSE"} : Control(type) \in Frames
  /\ \A i \in Asks : [type |-> "LIST_SESSIONS", ask |-> i] \in Frames
  /\ \A f \in Frames : f.type = "LIST_SESSIONS" => Response(f) \in Frames
  /\ \A f \in Frames : f.type = "LIST_SESSIONS_RESPONSE" => f.ask \in Asks
BY DEF Frames, Control, Response

\* Sending and reading keep the frames on their way a sequence of frames.
LEMMA SendType ==
  ASSUME TypeOK, NEW l \in Links, NEW d \in Daemons, NEW f \in Frames, Send(l, d, f)
  PROVE  inbox' \in [Links -> [Daemons -> Seq(Frames)]]
BY PeerFacts DEF TypeOK, Send, With

\* What is left of the frames on their way once the first n are read.
LEMMA RestType ==
  ASSUME NEW s \in Seq(Frames), NEW n \in 0..Len(s)
  PROVE  SubSeq(s, n + 1, Len(s)) \in Seq(Frames)
OBVIOUS

\* A data event takes frames off the front of what is on its way.
LEMMA ReadType ==
  ASSUME TypeOK, NEW l \in Links, NEW d \in Daemons,
         NEW n \in 0..Len(inbox[l][d]), Read(l, d, n)
  PROVE  inbox' \in [Links -> [Daemons -> Seq(Frames)]]
<1>1. inbox[l][d] \in Seq(Frames)
  BY DEF TypeOK
<1>2. SubSeq(inbox[l][d], n + 1, Len(inbox[l][d])) \in Seq(Frames)
  BY <1>1, RestType
<1>. QED BY <1>2 DEF TypeOK, Read

\* A data event whose frames are answered.
LEMMA ExchangeType ==
  ASSUME TypeOK, NEW l \in Links, NEW d \in Daemons,
         NEW n \in 0..Len(inbox[l][d]), NEW f \in Frames, Exchange(l, d, n, f)
  PROVE  inbox' \in [Links -> [Daemons -> Seq(Frames)]]
<1>1. inbox[l][d] \in Seq(Frames)
  BY DEF TypeOK
<1>2. SubSeq(inbox[l][d], n + 1, Len(inbox[l][d])) \in Seq(Frames)
  BY <1>1, RestType
<1>3. \A e \in Daemons : With(l, e, f) \in Seq(Frames)
  BY DEF TypeOK, With
<1>. DEFINE rest == SubSeq(inbox[l][d], n + 1, Len(inbox[l][d]))
           back == IF closed[l][d] THEN inbox[l][Peer(d)] ELSE With(l, Peer(d), f)
           ends == [inbox[l] EXCEPT ![d] = rest, ![Peer(d)] = back]
<1>4. inbox' = [inbox EXCEPT ![l] = ends]
  BY PeerFacts DEF TypeOK, Exchange
<1>5. rest \in Seq(Frames) /\ back \in Seq(Frames)
  BY <1>2, <1>3, PeerFacts DEF TypeOK
<1>. HIDE DEF rest, back
<1>6. ends \in [Daemons -> Seq(Frames)]
  BY <1>5 DEF TypeOK
<1>. HIDE DEF ends
<1>. QED BY <1>4, <1>6 DEF TypeOK

\* The 'close' event's values.
LEMMA CloseEventType ==
  ASSUME TypeOK, NEW l \in Links, NEW d \in Daemons, CloseEvent(l, d)
  PROVE  /\ phase' \in [Links -> [Daemons -> {"none", "shaking", "ready", "gone"}]]
         /\ closed' \in [Links -> [Daemons -> BOOLEAN]]
         /\ alive' \in [Links -> BOOLEAN]
         /\ table' \in [Daemons -> Links \cup {NoLink}]
         /\ loop' \in [Daemons -> {"check", "dialling", "shaking", "holding", "backoff"}]
         /\ held' \in [Daemons -> Links \cup {NoLink}]
<1>1. phase' \in [Links -> [Daemons -> {"none", "shaking", "ready", "gone"}]]
  BY DEF TypeOK, CloseEvent
<1>2. closed' \in [Links -> [Daemons -> BOOLEAN]]
  BY DEF TypeOK, CloseEvent
<1>3. alive' \in [Links -> BOOLEAN]
  BY DEF TypeOK, CloseEvent
<1>4. table' \in [Daemons -> Links \cup {NoLink}]
  BY DEF TypeOK, CloseEvent, TableAfterClose
<1>5. loop' \in [Daemons -> {"check", "dialling", "shaking", "holding", "backoff"}]
  BY DEF TypeOK, CloseEvent, LoopAfterClose
<1>6. held' \in [Daemons -> Links \cup {NoLink}]
  BY DEF TypeOK, CloseEvent
<1>. QED BY <1>1, <1>2, <1>3, <1>4, <1>5, <1>6

\* What arrives is the first frame of those on their way.
LEMMA ArrivesFacts ==
  ASSUME TypeOK, NEW l \in Links, NEW d \in Daemons, NEW type, Arrives(l, d, type)
  PROVE  /\ inbox[l][d] \in Seq(Frames)
         /\ 1 \in 0..Len(inbox[l][d]) /\ Len(inbox[l][d]) \in 0..Len(inbox[l][d])
         /\ Head(inbox[l][d]) \in Frames /\ Head(inbox[l][d]).type = type
<1>1. inbox[l][d] \in Seq(Frames)
  BY DEF TypeOK
<1>. QED BY <1>1 DEF Arrives

\* One step of an end keeps the types.
LEMMA EndTypeStep ==
  ASSUME TypeOK, NEW l \in Links, NEW d \in Daemons,
         \/ Upgrade(l, d) \/ Receive(l, d) \/ HandshakeTimeout(l, d)
         \/ Heartbeat(l, d) \/ CloseTimeout(l, d) \/ Reset(l, d)
  PROVE  TypeOK'
<1>1. CASE Upgrade(l, d)
  BY <1>1 DEF TypeOK, Upgrade, loops, requests
<1>2. CASE ReadHello(l, d)
  <2>1. inbox' \in [Links -> [Daemons -> Seq(Frames)]]
    BY <1>2, ExchangeType, ArrivesFacts, FrameFacts DEF ReadHello
  <2>2. phase' \in [Links -> [Daemons -> {"none", "shaking", "ready", "gone"}]]
    BY <1>2 DEF ReadHello, TypeOK
  <2>. QED BY <1>2, <2>1, <2>2 DEF TypeOK, ReadHello, loops, requests
<1>3. CASE ReadWelcome(l, d)
  <2>1. inbox' \in [Links -> [Daemons -> Seq(Frames)]]
    <3>1. PICK n \in 1..Len(inbox[l][d]) : Read(l, d, n)
      BY <1>3 DEF ReadWelcome
    <3>2. n \in 0..Len(inbox[l][d])
      OBVIOUS
    <3>. QED BY <3>1, <3>2, ReadType
  <2>2. phase' \in [Links -> [Daemons -> {"none", "shaking", "ready", "gone"}]]
    BY <1>3 DEF ReadWelcome, TypeOK
  <2>3. /\ table' \in [Daemons -> Links \cup {NoLink}]
        /\ loop' \in [Daemons -> {"check", "dialling", "shaking", "holding", "backoff"}]
    BY <1>3 DEF ReadWelcome, TypeOK
  <2>. QED BY <1>3, <2>1, <2>2, <2>3 DEF TypeOK, ReadWelcome, requests
<1>4. CASE ReadClose(l, d)
  <2>1. inbox' \in [Links -> [Daemons -> Seq(Frames)]]
    BY <1>4, ExchangeType, ArrivesFacts, FrameFacts DEF ReadClose
  <2>. QED BY <1>4, <2>1, CloseEventType DEF TypeOK, ReadClose, requests
<1>5. CASE ReadList(l, d)
  <2>1. inbox' \in [Links -> [Daemons -> Seq(Frames)]]
    <3>1. CASE Attached(l, d)
      BY <1>5, <3>1, ExchangeType, ArrivesFacts, FrameFacts DEF ReadList
    <3>2. CASE ~Attached(l, d)
      BY <1>5, <3>2, ReadType, ArrivesFacts DEF ReadList
    <3>. QED BY <3>1, <3>2
  <2>. QED BY <1>5, <2>1 DEF TypeOK, ReadList, loops, requests
<1>6. CASE ReadResponse(l, d)
  <2>1. inbox' \in [Links -> [Daemons -> Seq(Frames)]]
    BY <1>6, ReadType, ArrivesFacts DEF ReadResponse
  <2>2. Head(inbox[l][d]).ask \in Asks
    BY <1>6, ArrivesFacts, FrameFacts DEF ReadResponse
  <2>. DEFINE i == Head(inbox[l][d]).ask
  <2>3. \/ /\ pending' = [pending EXCEPT ![d] = @ \ {i}]
           /\ outcome' = [outcome EXCEPT ![i] = "sessions"]
        \/ UNCHANGED <<pending, outcome>>
    BY <1>6 DEF ReadResponse
  <2>4. pending' \in [Daemons -> SUBSET Asks]
    BY <2>3 DEF TypeOK
  <2>5. outcome' \in [Asks -> {"none", "waiting", "sessions", "timeout", "lost"}]
    BY <2>2, <2>3 DEF TypeOK
  <2>. QED BY <1>6, <2>1, <2>4, <2>5 DEF TypeOK, ReadResponse, loops
<1>7. CASE HandshakeTimeout(l, d)
  <2>1. inbox' \in [Links -> [Daemons -> Seq(Frames)]]
    BY <1>7, SendType, FrameFacts DEF HandshakeTimeout, Close
  <2>2. faults' \in 0..MaxFaults
    BY <1>7, LinksAssumption DEF HandshakeTimeout, TypeOK
  <2>3. closed' \in [Links -> [Daemons -> BOOLEAN]]
    BY <1>7 DEF HandshakeTimeout, Close, TypeOK
  <2>. QED BY <1>7, <2>1, <2>2, <2>3 DEF TypeOK, HandshakeTimeout, loops, requests
<1>8. CASE Heartbeat(l, d)
  <2>1. inbox' \in [Links -> [Daemons -> Seq(Frames)]]
    BY <1>8, SendType, FrameFacts DEF Heartbeat, Close
  <2>2. closed' \in [Links -> [Daemons -> BOOLEAN]]
    BY <1>8 DEF Heartbeat, Close, TypeOK
  <2>. QED BY <1>8, <2>1, <2>2 DEF TypeOK, Heartbeat, loops, requests
<1>9. CASE CloseTimeout(l, d)
  BY <1>9, CloseEventType DEF TypeOK, CloseTimeout, requests
<1>10. CASE Reset(l, d)
  BY <1>10, CloseEventType DEF TypeOK, Reset, requests
<1>. QED BY <1>1, <1>2, <1>3, <1>4, <1>5, <1>6, <1>7, <1>8, <1>9, <1>10 DEF Receive

\* One step of a daemon keeps the types.
LEMMA DaemonTypeStep ==
  ASSUME TypeOK, NEW d \in Daemons, MaintainOutbound(d) \/ Ask(d) \/ AskTimeout(d)
  PROVE  TypeOK'
<1>1. CASE Dial(d)
  <2>1. PICK n \in 1..MaxLinks :
          /\ phase' = [phase EXCEPT ![<<d, n>>] = [e \in Daemons |-> "none"]]
          /\ alive' = [alive EXCEPT ![<<d, n>>] = TRUE]
          /\ inbox' = [inbox EXCEPT ![<<d, n>>] = [e \in Daemons |-> <<>>]]
          /\ held' = [held EXCEPT ![d] = <<d, n>>]
    BY <1>1 DEF Dial
  <2>2. /\ phase' \in [Links -> [Daemons -> {"none", "shaking", "ready", "gone"}]]
        /\ alive' \in [Links -> BOOLEAN]
        /\ inbox' \in [Links -> [Daemons -> Seq(Frames)]]
        /\ held' \in [Daemons -> Links \cup {NoLink}]
    BY <2>1, LinkFacts DEF TypeOK
  <2>. QED BY <1>1, <2>2 DEF TypeOK, Dial, requests
<1>2. ASSUME NEW l \in Links, Open(l, d) PROVE TypeOK'
  <2>1. inbox' \in [Links -> [Daemons -> Seq(Frames)]]
    BY <1>2, SendType, FrameFacts DEF Open
  <2>. QED BY <1>2, <2>1 DEF TypeOK, Open, requests
<1>3. ASSUME NEW l \in Links, DialFails(l, d) PROVE TypeOK'
  BY <1>3 DEF TypeOK, DialFails, requests
<1>4. ASSUME NEW l \in Links, GiveUp(l, d) PROVE TypeOK'
  BY <1>4 DEF TypeOK, GiveUp, links, requests
<1>5. CASE Retry(d)
  BY <1>5 DEF TypeOK, Retry, links, requests
<1>6. CASE Ask(d)
  <2>1. asked + 1 \in Asks /\ asked' \in 0..MaxAsks
    BY <1>6, LinksAssumption DEF Ask, TypeOK, Asks
  <2>2. table[d] \in Links
    BY <1>6 DEF Ask, TypeOK
  <2>3. 0 \in 0..Len(inbox[table[d]][d])
    BY <2>2 DEF TypeOK
  <2>4. inbox' \in [Links -> [Daemons -> Seq(Frames)]]
    BY <1>6, <2>1, <2>2, <2>3, ExchangeType, FrameFacts DEF Ask
  <2>. QED BY <1>6, <2>1, <2>4 DEF TypeOK, Ask, loops
<1>7. CASE AskTimeout(d)
  BY <1>7 DEF TypeOK, AskTimeout, links, loops
<1>. QED BY <1>1, <1>2, <1>3, <1>4, <1>5, <1>6, <1>7 DEF MaintainOutbound

\* A broken link or a restart keeps the types.
LEMMA FaultTypeStep ==
  ASSUME TypeOK, Fault
  PROVE  TypeOK'
<1>1. ASSUME NEW l \in Links, Break(l) PROVE TypeOK'
  <2>1. faults' \in 0..MaxFaults
    BY <1>1, LinksAssumption DEF Break, TypeOK
  <2>. QED BY <1>1, <2>1 DEF TypeOK, Break, loops, requests
<1>2. ASSUME NEW d \in Daemons, Restart(d) PROVE TypeOK'
  <2>1. faults' \in 0..MaxFaults
    BY <1>2, LinksAssumption DEF Restart, TypeOK
  <2>2. /\ phase' \in [Links -> [Daemons -> {"none", "shaking", "ready", "gone"}]]
        /\ closed' \in [Links -> [Daemons -> BOOLEAN]]
    BY <1>2 DEF Restart, TypeOK
  <2>3. outcome' \in [Asks -> {"none", "waiting", "sessions", "timeout", "lost"}]
    BY <1>2 DEF Restart, TypeOK
  <2>. QED BY <1>2, <2>1, <2>2, <2>3 DEF TypeOK, Restart
<1>. QED BY <1>1, <1>2 DEF Fault

\* Every variable of the two daemons keeps its type, for all bounds.
THEOREM LinksTypeCorrect == Spec => []TypeOK
<1>1. Init => TypeOK
  BY LinksAssumption DEF Init, TypeOK
<1>2. TypeOK /\ [Next]_vars => TypeOK'
  <2>1. CASE UNCHANGED vars
    BY <2>1 DEF TypeOK, vars
  <2>. QED BY <2>1, EndTypeStep, DaemonTypeStep, FaultTypeStep DEF Next
<1>. QED BY <1>1, <1>2, PTL DEF Spec

---------------------------------------------------------------------------
(* What sending and reading do to the frames on their way.                 *)

\* One more frame at the end.
LEMMA AppendContents ==
  ASSUME NEW s \in Seq(Frames), NEW f \in Frames
  PROVE  /\ Append(s, f) # <<>>
         /\ \A type : Carries(Append(s, f), type) <=> Carries(s, type) \/ f.type = type
         /\ \A type : OnlyFirst(s, type) /\ (f.type = type => s = <<>>)
                        => OnlyFirst(Append(s, f), type)
         /\ \A types : Begins(s, types) /\ (s = <<>> => f.type \in types)
                        => Begins(Append(s, f), types)
<1>. DEFINE r == Append(s, f)
<1>1. /\ Len(r) = Len(s) + 1 /\ Len(s) \in Nat
      /\ r[Len(s) + 1] = f
      /\ s = <<>> <=> Len(s) = 0
      /\ \A i \in 1..Len(s) : r[i] = s[i]
  OBVIOUS
<1>2. r # <<>> /\ Head(r) = r[1]
  BY <1>1
<1>3. s # <<>> => Head(s) = s[1] /\ 1 \in 1..Len(s)
  OBVIOUS
<1>4. /\ Len(r) = Len(s) + 1 /\ Len(s) \in Nat
      /\ r[Len(s) + 1] = f /\ r # <<>>
      /\ Head(r) = IF s = <<>> THEN f ELSE Head(s)
      /\ s = <<>> <=> Len(s) = 0
      /\ \A i \in 1..Len(s) : r[i] = s[i]
  BY <1>1, <1>2, <1>3
<1>5. /\ \A i \in 1..Len(r) : i \in 1..Len(s) \/ i = Len(s) + 1
      /\ 1..Len(s) \subseteq 1..Len(r) /\ Len(s) + 1 \in 1..Len(r)
      /\ Len(s) = 0 => Len(s) + 1 = 1
  BY <1>4
<1>. HIDE DEF r
<1>6. ASSUME NEW type PROVE Carries(r, type) <=> Carries(s, type) \/ f.type = type
  BY <1>4, <1>5 DEF Carries
<1>7. ASSUME NEW type, OnlyFirst(s, type), f.type = type => s = <<>>
      PROVE  OnlyFirst(r, type)
  BY <1>4, <1>5, <1>7 DEF OnlyFirst
<1>8. ASSUME NEW types, Begins(s, types), s = <<>> => f.type \in types
      PROVE  Begins(r, types)
  BY <1>4, <1>8 DEF Begins
<1>. QED BY <1>4, <1>6, <1>7, <1>8 DEF r

\* The frames that are left when the first n have been read.
LEMMA RestContents ==
  ASSUME NEW s \in Seq(Frames), NEW n \in 0..Len(s)
  PROVE  LET r == SubSeq(s, n + 1, Len(s)) IN
         /\ n = 0 => r = s
         /\ n = Len(s) => r = <<>>
         /\ \A type : Carries(r, type) => Carries(s, type)
         /\ \A type : OnlyFirst(s, type) => OnlyFirst(r, type)
         /\ \A type : OnlyFirst(s, type) /\ n > 0 => ~Carries(r, type)
         /\ \A type : Carries(s, type) /\ (\A i \in 1..n : s[i].type # type)
                        => Carries(r, type)
<1>. DEFINE r == SubSeq(s, n + 1, Len(s))
<1>1. /\ Len(r) = Len(s) - n /\ Len(s) \in Nat /\ n \in Nat /\ n <= Len(s)
      /\ \A i \in 1..Len(r) : r[i] = s[n + i]
      /\ r \in Seq(Frames)
  OBVIOUS
<1>2. /\ n = 0 => r = s
      /\ n = Len(s) => r = <<>>
  BY <1>1
<1>3. /\ \A i \in 1..Len(r) : n + i \in 1..Len(s) /\ (n + i = 1 => i = 1 /\ n = 0)
      /\ \A i \in 1..Len(s) : i \in 1..n \/ (i - n \in 1..Len(r) /\ n + (i - n) = i)
  BY <1>1
<1>. HIDE DEF r
<1>4. ASSUME NEW type, Carries(r, type) PROVE Carries(s, type)
  BY <1>1, <1>3, <1>4 DEF Carries
<1>5. ASSUME NEW type, OnlyFirst(s, type) PROVE OnlyFirst(r, type)
  BY <1>1, <1>3, <1>5 DEF OnlyFirst
<1>6. ASSUME NEW type, OnlyFirst(s, type), n > 0 PROVE ~Carries(r, type)
  <2>1. SUFFICES ASSUME NEW i \in 1..Len(r), r[i].type = type PROVE FALSE
    BY DEF Carries
  <2>2. n + i \in 1..Len(s) /\ s[n + i].type = type
    BY <1>1, <1>3, <2>1
  <2>3. n + i = 1
    BY <1>6, <2>2 DEF OnlyFirst
  <2>. QED BY <1>3, <1>6, <2>3
<1>7. ASSUME NEW type, Carries(s, type), \A i \in 1..n : s[i].type # type
      PROVE  Carries(r, type)
  <2>1. PICK i \in 1..Len(s) : s[i].type = type
    BY <1>7 DEF Carries
  <2>2. i - n \in 1..Len(r) /\ n + (i - n) = i
    BY <1>3, <1>7, <2>1
  <2>3. r[i - n] = s[i]
    BY <1>1, <2>2
  <2>. QED BY <2>1, <2>2, <2>3 DEF Carries
<1>. QED BY <1>2, <1>4, <1>5, <1>6, <1>7 DEF r

\* The frames that are left when the first has been read.
LEMMA SecondContents ==
  ASSUME NEW s \in Seq(Frames), s # <<>>
  PROVE  LET r == SubSeq(s, 1 + 1, Len(s)) IN
         /\ \A type : Carries(r, type) => Carries(s, type)
         /\ \A type : OnlyFirst(s, type) => OnlyFirst(r, type) /\ ~Carries(r, type)
         /\ \A type : Carries(s, type) /\ Head(s).type # type => Carries(r, type)
<1>1. 1 \in 0..Len(s) /\ 1 > 0 /\ s[1] = Head(s)
  OBVIOUS
<1>2. \A i \in 1..1 : i = 1
  OBVIOUS
<1>. QED BY <1>1, <1>2, RestContents

\* The first frame.
LEMMA HeadContents ==
  ASSUME NEW s \in Seq(Frames), s # <<>>
  PROVE  Carries(s, Head(s).type) /\ s[1] = Head(s)
<1>1. 1 \in 1..Len(s) /\ s[1] = Head(s)
  OBVIOUS
<1>. QED BY <1>1 DEF Carries

\* No frame at all.
LEMMA EmptyContents ==
  /\ \A type : OnlyFirst(<<>>, type) /\ ~Carries(<<>>, type)
  /\ \A types : Begins(<<>>, types)
<1>1. Len(<<>>) = 0 /\ \A i : i \notin 1..0
  OBVIOUS
<1>2. \A type : OnlyFirst(<<>>, type) /\ ~Carries(<<>>, type)
  BY <1>1 DEF Carries, OnlyFirst
<1>3. \A types : Begins(<<>>, types)
  BY DEF Begins
<1>. QED BY <1>2, <1>3

---------------------------------------------------------------------------
(* The same for the links, in the form the steps use.                      *)

\* A link that a step leaves alone stays in order.
LEMMA UntouchedLink ==
  ASSUME NEW l \in Links, LinkInOrder(l),
         phase'[l] = phase[l], closed'[l] = closed[l],
         alive'[l] = alive[l], inbox'[l] = inbox[l]
  PROVE  LinkInOrder(l)'
<1>1. WiresClear(l)'
  BY DEF LinkInOrder, WiresClear
<1>2. HelloInOrder(l)'
  BY DEF LinkInOrder, HelloInOrder, Server
<1>3. WelcomeInOrder(l)'
  BY DEF LinkInOrder, WelcomeInOrder, Server
<1>4. CloseInOrder(l)'
  BY DEF LinkInOrder, CloseInOrder, Present, Server
<1>. QED BY <1>1, <1>2, <1>3, <1>4 DEF LinkInOrder

\* Sending leaves the other link ends alone.
LEMMA SendEffect ==
  ASSUME TypeOK, NEW l \in Links, NEW d \in Daemons, NEW f \in Frames, Send(l, d, f)
  PROVE  /\ \A m \in Links \ {l} : inbox'[m] = inbox[m]
         /\ inbox'[l][d] = inbox[l][d]
         /\ inbox'[l][Peer(d)] = With(l, Peer(d), f)
BY PeerFacts DEF TypeOK, Send

\* What reading does to the frames on their way, one end at a time.
LEMMA ReadEffect ==
  ASSUME TypeOK, NEW l \in Links, NEW d \in Daemons, NEW n \in Nat, Read(l, d, n)
  PROVE  /\ \A m \in Links \ {l} : inbox'[m] = inbox[m]
         /\ inbox'[l][d] = SubSeq(inbox[l][d], n + 1, Len(inbox[l][d]))
         /\ inbox'[l][Peer(d)] = inbox[l][Peer(d)]
BY PeerFacts DEF TypeOK, Read

\* The same for a data event that is answered.
LEMMA ExchangeEffect ==
  ASSUME TypeOK, NEW l \in Links, NEW d \in Daemons, NEW n \in Nat, NEW f \in Frames,
         Exchange(l, d, n, f)
  PROVE  /\ \A m \in Links \ {l} : inbox'[m] = inbox[m]
         /\ inbox'[l][d] = SubSeq(inbox[l][d], n + 1, Len(inbox[l][d]))
         /\ inbox'[l][Peer(d)] =
              IF closed[l][d] THEN inbox[l][Peer(d)] ELSE With(l, Peer(d), f)
<1>. DEFINE rest == SubSeq(inbox[l][d], n + 1, Len(inbox[l][d]))
           back == IF closed[l][d] THEN inbox[l][Peer(d)] ELSE With(l, Peer(d), f)
<1>1. inbox' = [inbox EXCEPT ![l] = [inbox[l] EXCEPT ![d] = rest, ![Peer(d)] = back]]
  BY PeerFacts DEF TypeOK, Exchange
<1>. HIDE DEF rest, back
<1>2. /\ \A m \in Links \ {l} : inbox'[m] = inbox[m]
      /\ inbox'[l][d] = rest
      /\ inbox'[l][Peer(d)] = back
  BY <1>1, PeerFacts DEF TypeOK
<1>. QED BY <1>2 DEF rest, back

\* What the 'close' event does to the link's two ends.
LEMMA CloseEventEffect ==
  ASSUME TypeOK, NEW l \in Links, NEW d \in Daemons, CloseEvent(l, d)
  PROVE  /\ \A m \in Links \ {l} :
              phase'[m] = phase[m] /\ closed'[m] = closed[m] /\ alive'[m] = alive[m]
         /\ phase'[l][d] = "gone" /\ phase'[l][Peer(d)] = phase[l][Peer(d)]
         /\ closed'[l][d] /\ closed'[l][Peer(d)] = closed[l][Peer(d)]
         /\ alive'[l] <=> alive[l] /\ phase[l][Peer(d)] # "gone"
<1>1. /\ \A m \in Links \ {l} : phase'[m] = phase[m]
      /\ phase'[l][d] = "gone" /\ phase'[l][Peer(d)] = phase[l][Peer(d)]
  BY PeerFacts DEF TypeOK, CloseEvent
<1>2. /\ \A m \in Links \ {l} : closed'[m] = closed[m]
      /\ closed'[l][d] /\ closed'[l][Peer(d)] = closed[l][Peer(d)]
  BY PeerFacts DEF TypeOK, CloseEvent
<1>3. /\ \A m \in Links \ {l} : alive'[m] = alive[m]
      /\ alive'[l] <=> alive[l] /\ phase[l][Peer(d)] # "gone"
  BY PeerFacts DEF TypeOK, CloseEvent
<1>. QED BY <1>1, <1>2, <1>3

\* What is on its way to e after one more frame has been sent.
LEMMA WithContents ==
  ASSUME TypeOK, NEW l \in Links, NEW e \in Daemons, NEW f \in Frames
  PROVE  /\ ~alive[l] \/ phase[l][e] = "gone" => With(l, e, f) = inbox[l][e]
         /\ alive[l] /\ phase[l][e] # "gone" => With(l, e, f) # <<>>
         /\ \A type : Carries(With(l, e, f), type)
                        <=> \/ Carries(inbox[l][e], type)
                            \/ alive[l] /\ phase[l][e] # "gone" /\ f.type = type
         /\ \A type : OnlyFirst(inbox[l][e], type) /\ (f.type = type => inbox[l][e] = <<>>)
                        => OnlyFirst(With(l, e, f), type)
         /\ \A types : Begins(inbox[l][e], types) /\ (inbox[l][e] = <<>> => f.type \in types)
                        => Begins(With(l, e, f), types)
<1>1. inbox[l][e] \in Seq(Frames)
  BY DEF TypeOK
<1>. QED BY <1>1, AppendContents DEF With

\* The client and the server of a link are its two ends.
LEMMA EndsOfLink ==
  ASSUME NEW l \in Links
  PROVE  /\ l[1] \in Daemons /\ Server(l) \in Daemons /\ Server(l) # l[1]
         /\ Peer(l[1]) = Server(l) /\ Peer(Server(l)) = l[1]
         /\ \A d \in Daemons : d = l[1] \/ d = Server(l)
BY LinkFacts, PeerFacts DEF Server

\* The server reads HELLO.
LEMMA ReadHelloInOrder ==
  ASSUME TypeOK, NEW l \in Links, NEW d \in Daemons, LinkInOrder(l), ReadHello(l, d)
  PROVE  LinkInOrder(l)'
<1>. DEFINE c == l[1]
           s == Server(l)
           f == Control("WELCOME")
<1>1. /\ inbox[l][c] \in Seq(Frames) /\ inbox[l][s] \in Seq(Frames)
      /\ f \in Frames /\ f.type = "WELCOME"
  BY EndsOfLink, FrameFacts DEF TypeOK, Control
<1>2. d = s
  <2>1. Carries(inbox[l][d], "HELLO")
    BY HeadContents DEF ReadHello, Arrives, TypeOK
  <2>. QED BY <2>1, EndsOfLink DEF LinkInOrder, HelloInOrder
<1>3. /\ inbox'[l][s] = SubSeq(inbox[l][s], 1 + 1, Len(inbox[l][s]))
      /\ inbox'[l][c] = IF closed[l][s] THEN inbox[l][c] ELSE With(l, c, f)
  <2>1. Exchange(l, s, 1, f) /\ 1 \in Nat
    BY <1>2 DEF ReadHello
  <2>2. inbox'[l][Peer(s)] = IF closed[l][s] THEN inbox[l][Peer(s)] ELSE With(l, Peer(s), f)
    BY <1>1, <2>1, EndsOfLink, ExchangeEffect
  <2>3. inbox'[l][s] = SubSeq(inbox[l][s], 1 + 1, Len(inbox[l][s]))
    BY <1>1, <2>1, EndsOfLink, ExchangeEffect
  <2>. QED BY <2>2, <2>3, EndsOfLink
<1>4. /\ phase'[l][s] = "ready" /\ phase'[l][c] = phase[l][c]
      /\ closed' = closed /\ alive' = alive
  BY <1>2, EndsOfLink DEF ReadHello, TypeOK
<1>5. /\ phase[l][s] = "shaking" /\ inbox[l][s] # <<>> /\ Head(inbox[l][s]).type = "HELLO"
      /\ phase[l][c] # "none"
  <2>1. Arrives(l, s, "HELLO")
    BY <1>2 DEF ReadHello
  <2>2. Carries(inbox[l][s], "HELLO")
    BY <1>1, <2>1, HeadContents DEF Arrives
  <2>. QED BY <2>1, <2>2, EndsOfLink DEF Arrives, Present, LinkInOrder, HelloInOrder, WiresClear
<1>6. /\ \A type : Carries(inbox'[l][s], type) => Carries(inbox[l][s], type)
      /\ \A type : OnlyFirst(inbox[l][s], type)
                     => OnlyFirst(inbox'[l][s], type) /\ ~Carries(inbox'[l][s], type)
      /\ Carries(inbox[l][s], "CLOSE") => Carries(inbox'[l][s], "CLOSE")
  BY <1>1, <1>3, <1>5, SecondContents
<1>7. /\ inbox[l][s] # <<>>
      /\ ~closed[l][s] => inbox[l][c] = <<>>
  BY <1>5 DEF LinkInOrder, WelcomeInOrder
<1>8. WiresClear(l)'
  BY <1>1, <1>3, <1>4, <1>5, <1>6, <1>7, EndsOfLink, WithContents
     DEF LinkInOrder, WiresClear
<1>9. HelloInOrder(l)'
  BY <1>1, <1>3, <1>4, <1>5, <1>6, <1>7, EndsOfLink, WithContents
     DEF LinkInOrder, HelloInOrder
<1>10. WelcomeInOrder(l)'
  BY <1>1, <1>3, <1>4, <1>5, <1>6, <1>7, EndsOfLink, WithContents
     DEF LinkInOrder, WelcomeInOrder
<1>11. CloseInOrder(l)'
  <2>1. /\ ~(alive'[l] /\ phase'[l][s] = "none")
        /\ ~(alive'[l] /\ phase'[l][c] = "none")
    BY <1>4, <1>5
  <2>2. /\ Carries(inbox'[l][c], "CLOSE") => closed[l][s]
        /\ Carries(inbox'[l][s], "CLOSE") => closed[l][c]
    BY <1>1, <1>3, <1>6, EndsOfLink, WithContents DEF LinkInOrder, CloseInOrder
  <2>3. alive[l] /\ phase[l][c] = "gone" => closed[l][s]
    BY EndsOfLink DEF LinkInOrder, CloseInOrder
  <2>4. /\ (alive[l] /\ phase[l][c] # "gone" /\ closed[l][s]) => Carries(inbox'[l][c], "CLOSE")
        /\ (alive[l] /\ Present(l, c) /\ closed[l][c]) => Carries(inbox'[l][s], "CLOSE")
    BY <1>3, <1>5, <1>6, EndsOfLink DEF LinkInOrder, CloseInOrder, Present
  <2>. QED
    BY <1>4, <2>1, <2>2, <2>3, <2>4, EndsOfLink DEF CloseInOrder, Present
<1>. QED BY <1>8, <1>9, <1>10, <1>11 DEF LinkInOrder

\* An end closes: HandshakeTimeout, Heartbeat.
LEMMA CloseKeepsOrder ==
  ASSUME TypeOK, NEW l \in Links, NEW d \in Daemons, LinkInOrder(l),
         Present(l, d), ~closed[l][d], Close(l, d), UNCHANGED <<phase, alive>>
  PROVE  LinkInOrder(l)'
<1>. DEFINE c == l[1]
           s == Server(l)
           f == Control("CLOSE")
<1>1. /\ inbox[l][c] \in Seq(Frames) /\ inbox[l][s] \in Seq(Frames)
      /\ f \in Frames /\ f.type = "CLOSE"
      /\ Send(l, d, f)
  BY EndsOfLink, FrameFacts DEF TypeOK, Control, Close
<1>2. /\ inbox'[l][d] = inbox[l][d]
      /\ inbox'[l][Peer(d)] = With(l, Peer(d), f)
  BY <1>1, SendEffect
<1>3. closed'[l][d] /\ closed'[l][Peer(d)] = closed[l][Peer(d)]
  BY EndsOfLink, PeerFacts DEF Close, TypeOK
<1>4. WiresClear(l)'
  BY <1>1, <1>2, <1>3, EndsOfLink, WithContents DEF LinkInOrder, WiresClear, Present
<1>5. HelloInOrder(l)'
  <2>1. CASE d = c
    BY <1>1, <1>2, <1>3, <2>1, EndsOfLink, WithContents
       DEF LinkInOrder, HelloInOrder, WelcomeInOrder, CloseInOrder, Present
  <2>2. CASE d = s
    BY <1>1, <1>2, <1>3, <2>2, EndsOfLink, WithContents DEF LinkInOrder, HelloInOrder, Present
  <2>. QED BY <2>1, <2>2, EndsOfLink
<1>6. WelcomeInOrder(l)'
  <2>1. CASE d = c
    BY <1>1, <1>2, <1>3, <2>1, EndsOfLink, WithContents DEF LinkInOrder, WelcomeInOrder, Present
  <2>2. CASE d = s
    BY <1>1, <1>2, <1>3, <2>2, EndsOfLink, WithContents DEF LinkInOrder, WelcomeInOrder, Present
  <2>. QED BY <2>1, <2>2, EndsOfLink
<1>7. CloseInOrder(l)'
  <2>1. \A e \in Daemons : Carries(inbox'[l][e], "CLOSE") => closed'[l][Peer(e)]
    BY <1>1, <1>2, <1>3, PeerFacts, WithContents DEF LinkInOrder, CloseInOrder
  <2>2. \A e \in Daemons : alive[l] /\ phase[l][e] = "gone" => closed'[l][Peer(e)]
    BY <1>3, PeerFacts DEF LinkInOrder, CloseInOrder
  <2>3. \A e \in Daemons :
          (alive[l] /\ Present(l, e) /\ closed'[l][e] /\ phase[l][Peer(e)] # "gone")
            => Carries(inbox'[l][Peer(e)], "CLOSE")
    <3>1. CASE alive[l] /\ phase[l][Peer(d)] # "gone"
      BY <1>1, <1>2, <1>3, <3>1, PeerFacts, WithContents DEF LinkInOrder, CloseInOrder
    <3>2. CASE ~(alive[l] /\ phase[l][Peer(d)] # "gone")
      BY <1>1, <1>2, <1>3, <3>2, PeerFacts, WithContents DEF LinkInOrder, CloseInOrder
    <3>. QED BY <3>1, <3>2
  <2>. QED BY <2>1, <2>2, <2>3, EndsOfLink DEF LinkInOrder, CloseInOrder, Present
<1>. QED BY <1>4, <1>5, <1>6, <1>7 DEF LinkInOrder

\* A ready end sends or reads a request for the sessions or its answer.
LEMMA ConversationKeepsOrder ==
  ASSUME TypeOK, NEW l \in Links, NEW d \in Daemons, LinkInOrder(l),
         phase[l][d] = "ready", UNCHANGED <<phase, closed, alive>>,
         NEW f \in Frames, f.type \in {"LIST_SESSIONS", "LIST_SESSIONS_RESPONSE"},
         inbox'[l][Peer(d)] \in {inbox[l][Peer(d)],
             IF closed[l][d] THEN inbox[l][Peer(d)] ELSE With(l, Peer(d), f)},
         inbox[l][d] = <<>> => inbox'[l][d] = <<>>,
         \A type : Carries(inbox'[l][d], type) => Carries(inbox[l][d], type),
         \A type : OnlyFirst(inbox[l][d], type) => OnlyFirst(inbox'[l][d], type),
         Carries(inbox[l][d], "CLOSE") => Carries(inbox'[l][d], "CLOSE")
  PROVE  LinkInOrder(l)'
<1>. DEFINE c == l[1]
           s == Server(l)
<1>1. /\ inbox[l][c] \in Seq(Frames) /\ inbox[l][s] \in Seq(Frames)
      /\ f.type \notin {"HELLO", "WELCOME", "CLOSE"}
  BY EndsOfLink DEF TypeOK
<1>2. inbox'[l][Peer(d)] \in {inbox[l][Peer(d)], With(l, Peer(d), f)}
  OBVIOUS
<1>3. /\ inbox[l][Peer(d)] # <<>> => inbox'[l][Peer(d)] # <<>>
      /\ \A type \in {"HELLO", "WELCOME", "CLOSE"} :
           /\ Carries(inbox'[l][Peer(d)], type) <=> Carries(inbox[l][Peer(d)], type)
           /\ OnlyFirst(inbox[l][Peer(d)], type) => OnlyFirst(inbox'[l][Peer(d)], type)
      /\ ~alive[l] \/ phase[l][Peer(d)] = "gone" => inbox'[l][Peer(d)] = inbox[l][Peer(d)]
      /\ \A types : /\ Begins(inbox[l][Peer(d)], types)
                    /\ inbox[l][Peer(d)] # <<>>
                    => Begins(inbox'[l][Peer(d)], types)
      /\ closed[l][d] => inbox'[l][Peer(d)] = inbox[l][Peer(d)]
  <2>1. CASE inbox'[l][Peer(d)] = inbox[l][Peer(d)]
    BY <2>1
  <2>2. CASE inbox'[l][Peer(d)] = With(l, Peer(d), f)
    <3>1. /\ Peer(d) \in Daemons
          /\ \A type \in {"HELLO", "WELCOME", "CLOSE"} : f.type # type
      BY <1>1, PeerFacts
    <3>. QED BY <2>2, <3>1, WithContents, PeerFacts
  <2>. QED BY <1>2, <2>1, <2>2
<1>4. WiresClear(l)'
  <2>1. phase[l][Peer(d)] = "none" => inbox'[l][d] = <<>>
    BY PeerFacts DEF LinkInOrder, WiresClear
  <2>. QED BY <1>3, <2>1, PeerFacts DEF LinkInOrder, WiresClear
<1>5. HelloInOrder(l)'
  <2>1. CASE d = c
    BY <1>1, <1>3, <2>1, EndsOfLink DEF LinkInOrder, HelloInOrder, WelcomeInOrder
  <2>2. CASE d = s
    BY <1>1, <1>3, <2>2, EndsOfLink DEF LinkInOrder, HelloInOrder
  <2>. QED BY <2>1, <2>2, EndsOfLink
<1>6. WelcomeInOrder(l)'
  <2>1. CASE d = c
    BY <1>1, <1>3, <2>1, EndsOfLink DEF LinkInOrder, WelcomeInOrder
  <2>2. CASE d = s
    BY <1>1, <1>3, <2>2, EndsOfLink DEF LinkInOrder, HelloInOrder, WelcomeInOrder
  <2>. QED BY <2>1, <2>2, EndsOfLink
<1>7. CloseInOrder(l)'
  <2>1. \A e \in Daemons : Carries(inbox'[l][e], "CLOSE") => Carries(inbox[l][e], "CLOSE")
    BY <1>3, PeerFacts
  <2>2. \A e \in Daemons : Carries(inbox[l][e], "CLOSE") => Carries(inbox'[l][e], "CLOSE")
    BY <1>3, PeerFacts
  <2>. QED BY <2>1, <2>2, PeerFacts DEF LinkInOrder, CloseInOrder, Present
<1>. QED BY <1>4, <1>5, <1>6, <1>7 DEF LinkInOrder

\* A broken link is in order as soon as its two ends are.
LEMMA BrokenInOrder ==
  ASSUME NEW l \in Links, ~alive'[l],
         \A d \in Daemons : inbox'[l][d] = <<>>,
         \A d \in Daemons : phase'[l][d] \in {"none", "gone"} => closed'[l][d],
         phase'[l][Server(l)] = "ready" => phase'[l][l[1]] # "none",
         phase'[l][l[1]] = "ready" => phase'[l][Server(l)] \in {"ready", "gone"}
  PROVE  LinkInOrder(l)'
<1>1. WiresClear(l)'
  BY PeerFacts DEF WiresClear
<1>2. HelloInOrder(l)'
  BY EndsOfLink, EmptyContents DEF HelloInOrder
<1>3. WelcomeInOrder(l)'
  BY EndsOfLink, EmptyContents DEF WelcomeInOrder
<1>4. CloseInOrder(l)'
  BY EndsOfLink, EmptyContents DEF CloseInOrder
<1>. QED BY <1>1, <1>2, <1>3, <1>4 DEF LinkInOrder

\* What the order of a link says of its phases.
LEMMA PhaseFacts ==
  ASSUME NEW l \in Links, LinkInOrder(l)
  PROVE  /\ \A d \in Daemons : phase[l][d] \in {"none", "gone"} => closed[l][d]
         /\ phase[l][Server(l)] = "ready" => phase[l][l[1]] # "none"
         /\ phase[l][l[1]] = "ready" => phase[l][Server(l)] \in {"ready", "gone"}
BY DEF LinkInOrder, WiresClear, HelloInOrder, WelcomeInOrder

\* The close event of an end whose link is broken: Reset, CloseTimeout.
LEMMA DeadCloseEventKeepsOrder ==
  ASSUME TypeOK, NEW l \in Links, NEW d \in Daemons, LinkInOrder(l),
         ~alive[l], CloseEvent(l, d), UNCHANGED inbox
  PROVE  LinkInOrder(l)'
<1>1. ~alive'[l] /\ \A e \in Daemons : inbox'[l][e] = <<>>
  BY CloseEventEffect DEF LinkInOrder, WiresClear
<1>2. /\ phase'[l][d] = "gone" /\ phase'[l][Peer(d)] = phase[l][Peer(d)]
      /\ closed'[l][d] /\ closed'[l][Peer(d)] = closed[l][Peer(d)]
  BY CloseEventEffect
<1>3. \A e \in Daemons : phase'[l][e] \in {"none", "gone"} => closed'[l][e]
  BY <1>2, PhaseFacts, PeerFacts
<1>4. /\ phase'[l][Server(l)] = "ready" => phase'[l][l[1]] # "none"
      /\ phase'[l][l[1]] = "ready" => phase'[l][Server(l)] \in {"ready", "gone"}
  BY <1>2, PhaseFacts, EndsOfLink
<1>. QED BY <1>1, <1>3, <1>4, BrokenInOrder

\* The network drops a link.
LEMMA BreakKeepsOrder ==
  ASSUME TypeOK, NEW l \in Links, LinkInOrder(l), Break(l)
  PROVE  LinkInOrder(l)'
<1>1. /\ ~alive'[l] /\ \A d \in Daemons : inbox'[l][d] = <<>>
      /\ phase' = phase /\ closed' = closed
  BY DEF Break, TypeOK
<1>. QED BY <1>1, PhaseFacts, BrokenInOrder

\* A daemon stops and starts again.
LEMMA RestartKeepsOrder ==
  ASSUME TypeOK, NEW d \in Daemons, Restart(d), NEW l \in Links, LinkInOrder(l)
  PROVE  LinkInOrder(l)'
<1>1. /\ ~alive'[l] /\ \A e \in Daemons : inbox'[l][e] = <<>>
      /\ phase'[l][d] = "gone" /\ phase'[l][Peer(d)] = phase[l][Peer(d)]
      /\ closed'[l][d] /\ closed'[l][Peer(d)] = closed[l][Peer(d)]
  BY PeerFacts DEF Restart, TypeOK
<1>2. \A e \in Daemons : phase'[l][e] \in {"none", "gone"} => closed'[l][e]
  BY <1>1, PhaseFacts, PeerFacts
<1>3. /\ phase'[l][Server(l)] = "ready" => phase'[l][l[1]] # "none"
      /\ phase'[l][l[1]] = "ready" => phase'[l][Server(l)] \in {"ready", "gone"}
  BY <1>1, PhaseFacts, EndsOfLink
<1>. QED BY <1>1, <1>2, <1>3, BrokenInOrder

\* A dial that fails leaves no client.
LEMMA DialFailsKeepsOrder ==
  ASSUME TypeOK, NEW l \in Links, NEW d \in Daemons, LinkInOrder(l), LoopMatches(d),
         DialFails(l, d)
  PROVE  LinkInOrder(l)'
<1>1. d = l[1] /\ ~alive[l] /\ phase[l][d] = "none"
  BY LinkFacts DEF DialFails, LoopMatches
<1>2. /\ phase'[l][d] = "gone" /\ phase'[l][Peer(d)] = phase[l][Peer(d)]
      /\ closed' = closed /\ alive' = alive /\ inbox' = inbox
  BY PeerFacts DEF DialFails, TypeOK
<1>3. \A e \in Daemons : phase'[l][e] \in {"none", "gone"} => closed'[l][e]
  BY <1>1, <1>2, PhaseFacts, PeerFacts
<1>4. \A e \in Daemons : inbox'[l][e] = <<>>
  BY <1>1, <1>2 DEF LinkInOrder, WiresClear
<1>. QED BY <1>1, <1>2, <1>3, <1>4, EndsOfLink, BrokenInOrder

\* A link that is dialled anew is in order.
LEMMA DialInOrder ==
  ASSUME TypeOK, NEW l \in Links, LinkInOrder(l), Free(l),
         \A d \in Daemons : phase'[l][d] = "none" /\ inbox'[l][d] = <<>>,
         UNCHANGED closed
  PROVE  LinkInOrder(l)'
<1>1. \A d \in Daemons : closed'[l][d]
  BY PhaseFacts DEF Free, Present, TypeOK
<1>2. WiresClear(l)'
  BY <1>1, PeerFacts DEF WiresClear
<1>3. HelloInOrder(l)'
  BY EndsOfLink, EmptyContents DEF HelloInOrder
<1>4. WelcomeInOrder(l)'
  BY EndsOfLink, EmptyContents DEF WelcomeInOrder
<1>5. CloseInOrder(l)'
  BY EndsOfLink, EmptyContents DEF CloseInOrder, Present
<1>. QED BY <1>2, <1>3, <1>4, <1>5 DEF LinkInOrder

\* An end reads CLOSE, answers it and is gone.
LEMMA ReadCloseInOrder ==
  ASSUME TypeOK, NEW l \in Links, NEW d \in Daemons, LinkInOrder(l), ReadClose(l, d)
  PROVE  LinkInOrder(l)'
<1>. DEFINE c == l[1]
           s == Server(l)
           f == Control("CLOSE")
           n == Len(inbox[l][d])
<1>1. /\ inbox[l][c] \in Seq(Frames) /\ inbox[l][s] \in Seq(Frames)
      /\ inbox[l][d] \in Seq(Frames) /\ n \in Nat /\ n \in 0..n
      /\ f \in Frames /\ f.type = "CLOSE"
  BY EndsOfLink, FrameFacts DEF TypeOK, Control
<1>2. /\ Carries(inbox[l][d], "CLOSE") /\ closed[l][Peer(d)]
      /\ Present(l, d)
  <2>1. Carries(inbox[l][d], "CLOSE") /\ Present(l, d)
    BY <1>1, HeadContents DEF ReadClose, Arrives
  <2>. QED BY <2>1 DEF LinkInOrder, CloseInOrder
<1>3. inbox'[l][d] = <<>>
  <2>1. Exchange(l, d, n, f)
    BY DEF ReadClose
  <2>2. inbox'[l][d] = SubSeq(inbox[l][d], n + 1, Len(inbox[l][d]))
    BY <1>1, <2>1, ExchangeEffect
  <2>. QED BY <1>1, <2>2, RestContents
<1>4. inbox'[l][Peer(d)] =
        IF closed[l][d] THEN inbox[l][Peer(d)] ELSE With(l, Peer(d), f)
  <2>1. Exchange(l, d, n, f)
    BY DEF ReadClose
  <2>. QED BY <1>1, <2>1, ExchangeEffect
<1>5. /\ phase'[l][d] = "gone" /\ phase'[l][Peer(d)] = phase[l][Peer(d)]
      /\ closed'[l][d] /\ closed'[l][Peer(d)] = closed[l][Peer(d)]
      /\ alive'[l] <=> alive[l] /\ phase[l][Peer(d)] # "gone"
  BY CloseEventEffect DEF ReadClose
<1>6. WiresClear(l)'
  <2>1. phase[l][Peer(d)] # "none"
    BY <1>2, EmptyContents, PeerFacts DEF LinkInOrder, WiresClear
  <2>2. ~alive'[l] \/ phase'[l][Peer(d)] = "gone" => inbox'[l][Peer(d)] = <<>>
    BY <1>1, <1>4, <1>5, PeerFacts, WithContents DEF LinkInOrder, WiresClear
  <2>. QED BY <1>3, <1>5, <2>1, <2>2, PeerFacts DEF LinkInOrder, WiresClear
<1>7. HelloInOrder(l)'
  <2>1. CASE d = c
    <3>1. phase[l][s] # "none" /\ (phase[l][s] = "shaking" /\ alive[l] => inbox[l][s] # <<>>)
      BY <1>2, <2>1, EndsOfLink, EmptyContents
         DEF LinkInOrder, WiresClear, HelloInOrder, WelcomeInOrder, Present
    <3>. QED BY <1>1, <1>3, <1>4, <1>5, <2>1, <3>1, EndsOfLink, WithContents, EmptyContents
             DEF LinkInOrder, HelloInOrder
  <2>2. CASE d = s
    BY <1>1, <1>3, <1>4, <1>5, <2>2, EndsOfLink, WithContents, EmptyContents
       DEF LinkInOrder, HelloInOrder
  <2>. QED BY <2>1, <2>2, EndsOfLink
<1>8. WelcomeInOrder(l)'
  <2>1. CASE d = c
    BY <1>1, <1>2, <1>3, <1>4, <1>5, <2>1, EndsOfLink, WithContents, EmptyContents
       DEF LinkInOrder, WelcomeInOrder
  <2>2. CASE d = s
    BY <1>1, <1>3, <1>4, <1>5, <2>2, EndsOfLink, WithContents, EmptyContents
       DEF LinkInOrder, WelcomeInOrder
  <2>. QED BY <2>1, <2>2, EndsOfLink
<1>9. CloseInOrder(l)'
  <2>1. phase[l][Peer(d)] # "none"
    BY <1>2, EmptyContents, PeerFacts DEF LinkInOrder, WiresClear
  <2>2. \A e \in Daemons : closed'[l][e]
    BY <1>2, <1>5, PeerFacts
  <2>3. \A e \in Daemons : Present(l, e)' => phase'[l][Peer(e)] = "gone"
    BY <1>5, PeerFacts DEF Present
  <2>4. \A e \in Daemons : phase'[l][e] # "none"
    BY <1>5, <2>1, PeerFacts
  <2>. QED BY <2>2, <2>3, <2>4, EndsOfLink, PeerFacts DEF CloseInOrder
<1>. QED BY <1>6, <1>7, <1>8, <1>9 DEF LinkInOrder

\* A ready end reads a request or an answer.
LEMMA ReadListInOrder ==
  ASSUME TypeOK, NEW l \in Links, NEW d \in Daemons, LinkInOrder(l),
         ReadList(l, d) \/ ReadResponse(l, d)
  PROVE  LinkInOrder(l)'
<1>. DEFINE q == inbox[l][d]
<1>1. /\ q \in Seq(Frames) /\ q # <<>> /\ Present(l, d) /\ Head(q) \in Frames
      /\ Head(q).type \in {"LIST_SESSIONS", "LIST_SESSIONS_RESPONSE"}
      /\ UNCHANGED <<phase, closed, alive>>
  BY ArrivesFacts DEF ReadList, ReadResponse, Arrives
<1>2. phase[l][d] = "ready"
  BY <1>1, EndsOfLink DEF Present, LinkInOrder, HelloInOrder, WelcomeInOrder, Begins
<1>3. PICK f \in Frames :
        /\ f.type \in {"LIST_SESSIONS", "LIST_SESSIONS_RESPONSE"}
        /\ Read(l, d, 1) \/ Exchange(l, d, 1, f)
  <2>1. CASE ReadResponse(l, d)
    BY <1>1, <2>1 DEF ReadResponse
  <2>2. CASE ReadList(l, d)
    <3>1. Response(Head(q)) \in Frames /\ Response(Head(q)).type = "LIST_SESSIONS_RESPONSE"
      BY <1>1, <2>2, FrameFacts DEF ReadList, Arrives, Response
    <3>. QED BY <2>2, <3>1 DEF ReadList
  <2>. QED BY <2>1, <2>2
<1>4. /\ inbox'[l][d] = SubSeq(q, 1 + 1, Len(q))
      /\ inbox'[l][Peer(d)] \in {inbox[l][Peer(d)],
            IF closed[l][d] THEN inbox[l][Peer(d)] ELSE With(l, Peer(d), f)}
  <2>1. 1 \in Nat
    OBVIOUS
  <2>2. CASE Read(l, d, 1)
    BY <2>1, <2>2, ReadEffect
  <2>3. CASE Exchange(l, d, 1, f)
    BY <2>1, <2>3, ExchangeEffect
  <2>. QED BY <1>3, <2>2, <2>3
<1>5. /\ \A type : Carries(inbox'[l][d], type) => Carries(q, type)
      /\ \A type : OnlyFirst(q, type) => OnlyFirst(inbox'[l][d], type)
      /\ Carries(q, "CLOSE") => Carries(inbox'[l][d], "CLOSE")
  BY <1>1, <1>4, SecondContents
<1>. QED BY <1>1, <1>2, <1>3, <1>4, <1>5, ConversationKeepsOrder

\* The client reads WELCOME, and maybe more that came with it.
LEMMA ReadWelcomeInOrder ==
  ASSUME TypeOK, NEW l \in Links, NEW d \in Daemons, LinkInOrder(l), ReadWelcome(l, d)
  PROVE  LinkInOrder(l)'
<1>. DEFINE c == l[1]
           s == Server(l)
<1>1. /\ inbox[l][c] \in Seq(Frames) /\ inbox[l][s] \in Seq(Frames)
      /\ inbox[l][d] \in Seq(Frames)
  BY EndsOfLink DEF TypeOK
<1>2. /\ d = c /\ Carries(inbox[l][c], "WELCOME") /\ inbox[l][c] # <<>>
      /\ Head(inbox[l][c]).type = "WELCOME"
  <2>1. Carries(inbox[l][d], "WELCOME") /\ inbox[l][d] # <<>>
        /\ Head(inbox[l][d]).type = "WELCOME"
    BY <1>1, HeadContents DEF ReadWelcome, Arrives
  <2>. QED BY <2>1, EndsOfLink DEF LinkInOrder, WelcomeInOrder
<1>3. PICK n \in 1..Len(inbox[l][c]) :
        /\ \A i \in 2..n : inbox[l][c][i].type # "CLOSE"
        /\ Read(l, c, n)
  BY <1>2 DEF ReadWelcome
<1>4. /\ n \in Nat /\ n \in 0..Len(inbox[l][c]) /\ n > 0
      /\ \A i \in 1..n : i = 1 \/ i \in 2..n
  BY <1>1
<1>5. \A i \in 1..n : inbox[l][c][i].type # "CLOSE"
  BY <1>1, <1>2, <1>3, <1>4, HeadContents
<1>6. inbox'[l][c] = SubSeq(inbox[l][c], n + 1, Len(inbox[l][c]))
  BY <1>3, <1>4, EndsOfLink, ReadEffect
<1>7. inbox'[l][s] = inbox[l][s]
  BY <1>3, <1>4, EndsOfLink, ReadEffect
<1>8. /\ \A type : Carries(inbox'[l][c], type) => Carries(inbox[l][c], type)
      /\ \A type : OnlyFirst(inbox[l][c], type)
                     => OnlyFirst(inbox'[l][c], type) /\ ~Carries(inbox'[l][c], type)
      /\ Carries(inbox[l][c], "CLOSE") => Carries(inbox'[l][c], "CLOSE")
  <2>. DEFINE q == inbox[l][c]
              r == SubSeq(q, n + 1, Len(q))
  <2>1. /\ \A type : Carries(r, type) => Carries(q, type)
        /\ \A type : OnlyFirst(q, type) => OnlyFirst(r, type)
    BY <1>1, <1>4, RestContents
  <2>2. \A type : OnlyFirst(q, type) /\ n > 0 => ~Carries(r, type)
    BY <1>1, <1>4, RestContents
  <2>3. \A type : Carries(q, type) /\ (\A i \in 1..n : q[i].type # type) => Carries(r, type)
    BY <1>1, <1>4, RestContents
  <2>4. inbox'[l][c] = r
    BY <1>6
  <2>. HIDE DEF r
  <2>. QED BY <1>4, <1>5, <2>1, <2>2, <2>3, <2>4
<1>9. /\ phase'[l][c] = "ready" /\ phase'[l][s] = phase[l][s]
      /\ closed' = closed /\ alive' = alive
  BY <1>2, EndsOfLink DEF ReadWelcome, TypeOK
<1>10. phase[l][c] = "shaking" /\ phase[l][s] \in {"ready", "gone"}
       /\ alive[l]
  BY <1>2, EndsOfLink DEF ReadWelcome, Arrives, Present, LinkInOrder, WiresClear, WelcomeInOrder
<1>11. WiresClear(l)'
  BY <1>7, <1>9, <1>10, EndsOfLink DEF LinkInOrder, WiresClear
<1>12. HelloInOrder(l)'
  BY <1>7, <1>8, <1>9, <1>10, EndsOfLink DEF LinkInOrder, HelloInOrder
<1>13. WelcomeInOrder(l)'
  BY <1>7, <1>8, <1>9, <1>10, EndsOfLink DEF LinkInOrder, WelcomeInOrder
<1>14. CloseInOrder(l)'
  BY <1>7, <1>8, <1>9, <1>10, EndsOfLink DEF LinkInOrder, CloseInOrder, Present
<1>. QED BY <1>11, <1>12, <1>13, <1>14 DEF LinkInOrder

\* The server's Connection is made.
LEMMA UpgradeInOrder ==
  ASSUME TypeOK, NEW l \in Links, NEW d \in Daemons, LinkInOrder(l), Upgrade(l, d)
  PROVE  LinkInOrder(l)'
<1>. DEFINE c == l[1]
           s == Server(l)
<1>1. d = s /\ alive[l] /\ phase[l][s] = "none"
  BY LinkFacts DEF Upgrade
<1>2. /\ phase'[l][s] = "shaking" /\ phase'[l][c] = phase[l][c]
      /\ ~closed'[l][s] /\ closed'[l][c] = closed[l][c]
      /\ alive' = alive /\ inbox' = inbox
  BY <1>1, EndsOfLink DEF Upgrade, TypeOK
<1>3. phase[l][c] = "none" /\ inbox[l][s] = <<>> /\ inbox[l][c] = <<>>
  BY <1>1, EndsOfLink DEF LinkInOrder, WiresClear, CloseInOrder
<1>4. WiresClear(l)'
  BY <1>1, <1>2, <1>3, EndsOfLink DEF LinkInOrder, WiresClear
<1>5. HelloInOrder(l)'
  BY <1>1, <1>2, <1>3, EndsOfLink, EmptyContents DEF HelloInOrder
<1>6. WelcomeInOrder(l)'
  BY <1>1, <1>2, <1>3, EndsOfLink, EmptyContents DEF WelcomeInOrder
<1>7. CloseInOrder(l)'
  BY <1>1, <1>2, <1>3, EndsOfLink, EmptyContents DEF CloseInOrder, Present
<1>. QED BY <1>4, <1>5, <1>6, <1>7 DEF LinkInOrder

\* The client's Connection is made and says HELLO.
LEMMA OpenInOrder ==
  ASSUME TypeOK, NEW l \in Links, NEW d \in Daemons, LinkInOrder(l), LoopMatches(d),
         Open(l, d)
  PROVE  LinkInOrder(l)'
<1>. DEFINE c == l[1]
           s == Server(l)
           f == Control("HELLO")
<1>1. /\ d = c /\ alive[l] /\ phase[l][c] = "none" /\ phase[l][s] # "none"
      /\ Send(l, c, f) /\ f \in Frames /\ f.type = "HELLO"
  BY LinkFacts, EndsOfLink, FrameFacts DEF Open, LoopMatches, Control
<1>2. /\ phase'[l][c] = "shaking" /\ phase'[l][s] = phase[l][s]
      /\ ~closed'[l][c] /\ closed'[l][s] = closed[l][s]
      /\ alive' = alive
  BY <1>1, EndsOfLink DEF Open, TypeOK
<1>3. inbox'[l][c] = inbox[l][c] /\ inbox'[l][s] = With(l, s, f)
  BY <1>1, EndsOfLink, SendEffect
<1>4. /\ phase[l][s] = "shaking" /\ inbox[l][s] = <<>>
  BY <1>1, EndsOfLink DEF LinkInOrder, WiresClear, HelloInOrder, CloseInOrder, TypeOK
<1>5. WiresClear(l)'
  BY <1>1, <1>2, <1>3, <1>4, EndsOfLink DEF LinkInOrder, WiresClear
<1>6. HelloInOrder(l)'
  BY <1>1, <1>2, <1>3, <1>4, EndsOfLink, EmptyContents, WithContents
     DEF LinkInOrder, HelloInOrder
<1>7. WelcomeInOrder(l)'
  BY <1>1, <1>2, <1>3, <1>4, EndsOfLink, EmptyContents, WithContents
     DEF LinkInOrder, WelcomeInOrder
<1>8. CloseInOrder(l)'
  BY <1>1, <1>2, <1>3, <1>4, EndsOfLink, EmptyContents, WithContents
     DEF LinkInOrder, CloseInOrder, Present
<1>. QED BY <1>5, <1>6, <1>7, <1>8 DEF LinkInOrder

---------------------------------------------------------------------------
(* The loop and the table of a daemon.                                     *)

\* A daemon's loop matches its link, and what its table has can be sent on.
Daemon(d) == LoopMatches(d) /\ (table[d] # NoLink => Attached(table[d], d))

\* A daemon that a step leaves alone.
LEMMA UntouchedDaemon ==
  ASSUME TypeOK, NEW d \in Daemons, Daemon(d),
         loop'[d] = loop[d], held'[d] = held[d], table'[d] = table[d],
         \A l \in Links : phase'[l][d] = phase[l][d]
  PROVE  Daemon(d)'
<1>1. LoopMatches(d)'
  BY DEF Daemon, LoopMatches, TypeOK
<1>2. table[d] # NoLink => Attached(table[d], d)'
  BY DEF Daemon, Attached, Holding, TypeOK
<1>. QED BY <1>1, <1>2 DEF Daemon

\* The close event takes the link out of the table and resumes the loop.
LEMMA CloseEventDaemon ==
  ASSUME TypeOK, NEW l \in Links, NEW d \in Daemons, Daemon(d), Present(l, d), CloseEvent(l, d)
  PROVE  Daemon(d)'
<1>1. /\ phase'[l][d] = "gone"
      /\ \A m \in Links \ {l} : phase'[m][d] = phase[m][d]
      /\ table'[d] = TableAfterClose(l, d)
      /\ loop'[d] = LoopAfterClose(l, d)
      /\ held'[d] = IF Holding(l, d) THEN NoLink ELSE held[d]
  BY CloseEventEffect DEF CloseEvent, TypeOK
<1>2. LoopMatches(d)'
  <2>1. CASE Holding(l, d)
    BY <1>1, <2>1 DEF LoopMatches, LoopAfterClose
  <2>2. CASE ~Holding(l, d)
    <3>1. held[d] = l => loop[d] = "shaking"
      BY <2>2, LinkFacts DEF Daemon, LoopMatches, Holding, Present
    <3>. QED BY <1>1, <2>2, <3>1 DEF Daemon, LoopMatches, LoopAfterClose, TypeOK
  <2>. QED BY <2>1, <2>2
<1>3. table'[d] # NoLink => Attached(table[d], d)' /\ table'[d] = table[d]
  <2>1. SUFFICES ASSUME table'[d] # NoLink PROVE Attached(table[d], d)' /\ table'[d] = table[d]
    OBVIOUS
  <2>2. /\ ~Holding(l, d) /\ table'[d] = table[d] /\ table[d] \in Links
        /\ ~Client(l, d) => table[d] # l
    BY <1>1, <2>1 DEF TableAfterClose, TypeOK
  <2>3. Attached(table[d], d) /\ table[d] # l
    BY <2>1, <2>2 DEF Daemon, Attached
  <2>. QED BY <1>1, <2>2, <2>3 DEF Attached, Holding, LoopAfterClose
<1>. QED BY <1>2, <1>3 DEF Daemon

\* One step of an end keeps the daemon's loop and table.
LEMMA EndDaemonStep ==
  ASSUME TypeOK, NEW l \in Links, NEW d \in Daemons, LinkInOrder(l), Daemon(d),
         \/ Upgrade(l, d) \/ Receive(l, d) \/ HandshakeTimeout(l, d)
         \/ Heartbeat(l, d) \/ CloseTimeout(l, d) \/ Reset(l, d)
  PROVE  Daemon(d)'
<1>1. CASE Upgrade(l, d)
  <2>1. /\ phase'[l][d] = "shaking" /\ \A m \in Links \ {l} : phase'[m][d] = phase[m][d]
        /\ loop' = loop /\ held' = held /\ table' = table
        /\ phase[l][d] = "none" /\ ~Client(l, d)
    BY <1>1 DEF Upgrade, TypeOK, loops
  <2>2. held[d] # l
    BY <2>1, LinkFacts DEF Daemon, LoopMatches
  <2>3. LoopMatches(d)'
    BY <2>1, <2>2 DEF Daemon, LoopMatches, TypeOK
  <2>4. table[d] # NoLink => Attached(table[d], d)'
    BY <2>1 DEF Daemon, Attached, Holding, TypeOK
  <2>. QED BY <2>1, <2>3, <2>4 DEF Daemon
<1>2. CASE ReadHello(l, d)
  <2>1. Carries(inbox[l][d], "HELLO")
    BY <1>2, HeadContents DEF ReadHello, Arrives, TypeOK
  <2>2. ~Client(l, d)
    BY <2>1, LinkFacts DEF LinkInOrder, HelloInOrder
  <2>3. /\ phase'[l][d] = "ready" /\ \A m \in Links \ {l} : phase'[m][d] = phase[m][d]
        /\ loop' = loop /\ held' = held /\ table'[d] = l
    BY <1>2 DEF ReadHello, TypeOK, loops
  <2>4. held[d] # l
    BY <2>2, LinkFacts DEF Daemon, LoopMatches
  <2>5. LoopMatches(d)'
    BY <2>3, <2>4 DEF Daemon, LoopMatches, TypeOK
  <2>6. Attached(l, d)'
    BY <2>2, <2>3 DEF Attached, Client
  <2>. QED BY <2>3, <2>5, <2>6 DEF Daemon
<1>3. CASE ReadWelcome(l, d)
  <2>1. Carries(inbox[l][d], "WELCOME") /\ phase[l][d] # "none"
    BY <1>3, HeadContents DEF ReadWelcome, Arrives, Present, TypeOK
  <2>2. Client(l, d)
    BY <2>1, LinkFacts DEF LinkInOrder, WelcomeInOrder
  <2>3. /\ phase'[l][d] = "ready" /\ \A m \in Links \ {l} : phase'[m][d] = phase[m][d]
        /\ held' = held
    BY <1>3 DEF ReadWelcome, TypeOK
  <2>4. CASE loop[d] = "shaking" /\ held[d] = l
    <3>1. table'[d] = l /\ loop'[d] = "holding"
      BY <1>3, <2>4 DEF ReadWelcome, TypeOK
    <3>2. LoopMatches(d)'
      BY <2>2, <2>3, <2>4, <3>1, LinkFacts DEF LoopMatches, Client
    <3>3. Attached(l, d)'
      BY <2>3, <2>4, <3>1 DEF Attached, Holding
    <3>. QED BY <3>1, <3>2, <3>3 DEF Daemon
  <2>5. CASE ~(loop[d] = "shaking" /\ held[d] = l)
    <3>1. table' = table /\ loop' = loop
      BY <1>3, <2>5 DEF ReadWelcome
    <3>2. LoopMatches(d)'
      <4>1. LoopMatches(d) /\ held[d] \in Links \cup {NoLink}
        BY DEF Daemon, TypeOK
      <4>2. held[d] \in Links \ {l} => phase'[held[d]][d] = phase[held[d]][d]
        BY <2>3
      <4>3. held[d] = l => loop[d] # "dialling" /\ phase'[held[d]][d] = "ready"
        BY <2>1, <2>3, <4>1 DEF LoopMatches
      <4>. QED BY <2>3, <3>1, <4>1, <4>2, <4>3 DEF LoopMatches
    <3>3. table[d] # NoLink => Attached(table[d], d)'
      BY <2>3, <3>1 DEF Daemon, Attached, Holding, TypeOK
    <3>. QED BY <3>1, <3>2, <3>3 DEF Daemon
  <2>. QED BY <2>4, <2>5
<1>4. CASE ReadClose(l, d)
  BY <1>4, CloseEventDaemon DEF ReadClose, Arrives
<1>5. CASE ReadList(l, d)
  BY <1>5, UntouchedDaemon DEF ReadList, loops
<1>6. CASE ReadResponse(l, d)
  BY <1>6, UntouchedDaemon DEF ReadResponse, loops
<1>7. CASE HandshakeTimeout(l, d)
  BY <1>7, UntouchedDaemon DEF HandshakeTimeout, loops
<1>8. CASE Heartbeat(l, d)
  BY <1>8, UntouchedDaemon DEF Heartbeat, loops
<1>9. CASE CloseTimeout(l, d)
  BY <1>9, CloseEventDaemon DEF CloseTimeout
<1>10. CASE Reset(l, d)
  BY <1>10, CloseEventDaemon DEF Reset
<1>. QED BY <1>1, <1>2, <1>3, <1>4, <1>5, <1>6, <1>7, <1>8, <1>9, <1>10 DEF Receive

\* A step of an end leaves the other daemon alone.
LEMMA EndPeerStep ==
  ASSUME TypeOK, NEW l \in Links, NEW d \in Daemons, Daemon(Peer(d)),
         \/ Upgrade(l, d) \/ Receive(l, d) \/ HandshakeTimeout(l, d)
         \/ Heartbeat(l, d) \/ CloseTimeout(l, d) \/ Reset(l, d)
  PROVE  Daemon(Peer(d))'
<1>. DEFINE e == Peer(d)
<1>1. e \in Daemons /\ e # d
  BY PeerFacts
<1>2. ASSUME CloseEvent(l, d)
      PROVE  /\ loop'[e] = loop[e] /\ held'[e] = held[e] /\ table'[e] = table[e]
             /\ \A m \in Links : phase'[m][e] = phase[m][e]
  BY <1>1, <1>2 DEF CloseEvent, TypeOK
<1>3. /\ loop'[e] = loop[e] /\ held'[e] = held[e] /\ table'[e] = table[e]
      /\ \A m \in Links : phase'[m][e] = phase[m][e]
  <2>1. CASE Upgrade(l, d)
    BY <1>1, <2>1 DEF Upgrade, TypeOK, loops
  <2>2. CASE ReadHello(l, d)
    BY <1>1, <2>2 DEF ReadHello, TypeOK, loops
  <2>3. CASE ReadWelcome(l, d)
    BY <1>1, <2>3 DEF ReadWelcome, TypeOK
  <2>4. CASE ReadClose(l, d)
    BY <1>2, <2>4 DEF ReadClose
  <2>5. CASE ReadList(l, d) \/ ReadResponse(l, d)
    BY <2>5 DEF ReadList, ReadResponse, loops
  <2>6. CASE HandshakeTimeout(l, d) \/ Heartbeat(l, d)
    BY <2>6 DEF HandshakeTimeout, Heartbeat, loops
  <2>7. CASE CloseTimeout(l, d) \/ Reset(l, d)
    BY <1>2, <2>7 DEF CloseTimeout, Reset
  <2>. QED BY <2>1, <2>2, <2>3, <2>4, <2>5, <2>6, <2>7 DEF Receive
<1>. QED BY <1>1, <1>3, UntouchedDaemon

\* One step of a daemon's loop or of its requests.
LEMMA DaemonStep ==
  ASSUME TypeOK, NEW d \in Daemons, Daemon(d), Daemon(Peer(d)),
         MaintainOutbound(d) \/ Ask(d) \/ AskTimeout(d)
  PROVE  Daemon(d)' /\ Daemon(Peer(d))'
<1>. DEFINE e == Peer(d)
<1>1. e \in Daemons /\ e # d
  BY PeerFacts
<1>2. CASE Dial(d)
  <2>1. PICK n \in 1..MaxLinks :
          /\ Free(<<d, n>>)
          /\ phase' = [phase EXCEPT ![<<d, n>>] = [x \in Daemons |-> "none"]]
          /\ held' = [held EXCEPT ![d] = <<d, n>>]
    BY <1>2 DEF Dial
  <2>. DEFINE l == <<d, n>>
  <2>2. /\ l \in Links /\ l # NoLink /\ Client(l, d) /\ ~Client(l, e)
        /\ loop[d] = "check" /\ table[d] = NoLink
        /\ loop' = [loop EXCEPT ![d] = "dialling"] /\ table' = table
    BY <1>1, <1>2, LinkFacts DEF Dial
  <2>. HIDE DEF l
  <2>3. /\ \A x \in Daemons : phase'[l][x] = "none"
        /\ \A m \in Links \ {l} : phase'[m] = phase[m]
        /\ held'[d] = l /\ held'[e] = held[e] /\ loop'[d] = "dialling" /\ loop'[e] = loop[e]
    BY <1>1, <2>1, <2>2 DEF TypeOK, l
  <2>4. Daemon(d)'
    BY <2>2, <2>3 DEF Daemon, LoopMatches
  <2>5. held[e] # l /\ table[e] # l
    BY <1>1, <2>1, <2>2 DEF Daemon, LoopMatches, Attached, Free, Present, l
  <2>6. LoopMatches(e)'
    BY <1>1, <2>3, <2>5 DEF Daemon, LoopMatches, TypeOK
  <2>7. table[e] # NoLink => Attached(table[e], e)'
    <3>1. table[e] # NoLink => phase'[table[e]] = phase[table[e]]
      BY <1>1, <2>3, <2>5 DEF TypeOK
    <3>. QED BY <1>1, <2>2, <2>3, <3>1 DEF Daemon, Attached, Holding
  <2>. QED BY <2>2, <2>4, <2>6, <2>7 DEF Daemon
<1>3. ASSUME NEW l \in Links, Open(l, d) PROVE Daemon(d)' /\ Daemon(e)'
  <2>1. /\ phase'[l][d] = "shaking" /\ \A m \in Links \ {l} : phase'[m][d] = phase[m][d]
        /\ \A m \in Links : phase'[m][e] = phase[m][e]
        /\ loop[d] = "dialling" /\ held[d] = l
        /\ loop'[d] = "shaking" /\ loop'[e] = loop[e]
        /\ held' = held /\ table' = table
    BY <1>1, <1>3 DEF Open, TypeOK
  <2>2. LoopMatches(d)'
    BY <2>1 DEF Daemon, LoopMatches
  <2>3. table[d] # NoLink => Attached(table[d], d)'
    <3>1. table[d] # NoLink => ~Client(table[d], d) /\ table[d] \in Links \ {l}
      BY <2>1, LinkFacts DEF Daemon, LoopMatches, Attached, Holding, TypeOK
    <3>2. table[d] # NoLink => phase'[table[d]][d] = phase[table[d]][d]
      BY <2>1, <3>1
    <3>. QED BY <2>1, <3>1, <3>2 DEF Daemon, Attached
  <2>. QED BY <1>1, <2>1, <2>2, <2>3, UntouchedDaemon DEF Daemon
<1>4. ASSUME NEW l \in Links, DialFails(l, d) PROVE Daemon(d)' /\ Daemon(e)'
  <2>1. /\ \A m \in Links \ {l} : phase'[m][d] = phase[m][d]
        /\ \A m \in Links : phase'[m][e] = phase[m][e]
        /\ loop[d] = "dialling" /\ held[d] = l
        /\ loop'[d] = "backoff" /\ loop'[e] = loop[e]
        /\ held'[d] = NoLink /\ held'[e] = held[e] /\ table' = table
    BY <1>1, <1>4 DEF DialFails, TypeOK
  <2>2. LoopMatches(d)'
    BY <2>1 DEF LoopMatches
  <2>3. table[d] # NoLink => Attached(table[d], d)'
    <3>1. table[d] # NoLink => ~Client(table[d], d) /\ table[d] \in Links \ {l}
      BY <2>1, LinkFacts DEF Daemon, LoopMatches, Attached, Holding, TypeOK
    <3>2. table[d] # NoLink => phase'[table[d]][d] = phase[table[d]][d]
      BY <2>1, <3>1
    <3>. QED BY <2>1, <3>1, <3>2 DEF Daemon, Attached
  <2>. QED BY <1>1, <2>1, <2>2, <2>3, UntouchedDaemon DEF Daemon
<1>5. ASSUME NEW l \in Links, GiveUp(l, d) PROVE Daemon(d)' /\ Daemon(e)'
  <2>1. /\ phase' = phase /\ table' = table
        /\ loop[d] = "shaking" /\ held[d] = l
        /\ loop'[d] = "backoff" /\ loop'[e] = loop[e]
        /\ held'[d] = NoLink /\ held'[e] = held[e]
    BY <1>1, <1>5 DEF GiveUp, TypeOK, links
  <2>2. LoopMatches(d)'
    BY <2>1 DEF LoopMatches
  <2>3. table[d] # NoLink => Attached(table[d], d)'
    BY <2>1 DEF Daemon, Attached, Holding
  <2>. QED BY <1>1, <2>1, <2>2, <2>3, UntouchedDaemon DEF Daemon
<1>6. CASE Retry(d)
  <2>1. /\ phase' = phase /\ table' = table /\ held' = held
        /\ loop[d] = "backoff" /\ loop'[d] = "check" /\ loop'[e] = loop[e]
    BY <1>1, <1>6 DEF Retry, TypeOK, links
  <2>2. LoopMatches(d)'
    BY <2>1 DEF Daemon, LoopMatches
  <2>3. table[d] # NoLink => Attached(table[d], d)'
    BY <2>1 DEF Daemon, Attached, Holding
  <2>. QED BY <1>1, <2>1, <2>2, <2>3, UntouchedDaemon DEF Daemon
<1>7. CASE Ask(d) \/ AskTimeout(d)
  <2>1. UNCHANGED <<phase, table, loop, held>>
    BY <1>7 DEF Ask, AskTimeout, links, loops
  <2>. QED BY <1>1, <2>1, UntouchedDaemon
<1>. QED BY <1>2, <1>3, <1>4, <1>5, <1>6, <1>7 DEF MaintainOutbound

\* A broken link or a restart.
LEMMA FaultDaemonStep ==
  ASSUME TypeOK, Fault, NEW e \in Daemons, Daemon(e)
  PROVE  Daemon(e)'
<1>1. ASSUME NEW l \in Links, Break(l) PROVE Daemon(e)'
  BY <1>1, UntouchedDaemon DEF Break, loops
<1>2. ASSUME NEW d \in Daemons, Restart(d), e # d PROVE Daemon(e)'
  <2>1. /\ loop'[e] = loop[e] /\ held'[e] = held[e] /\ table'[e] = table[e]
        /\ \A l \in Links : phase'[l][e] = phase[l][e]
    BY <1>2 DEF Restart, TypeOK
  <2>. QED BY <2>1, UntouchedDaemon
<1>3. ASSUME NEW d \in Daemons, Restart(d), e = d PROVE Daemon(e)'
  <2>1. loop'[e] = "check" /\ held'[e] = NoLink /\ table'[e] = NoLink
    BY <1>3 DEF Restart, TypeOK
  <2>. QED BY <2>1 DEF Daemon, LoopMatches
<1>. QED BY <1>1, <1>2, <1>3 DEF Fault

---------------------------------------------------------------------------
(* The order of all links.                                                 *)

\* A step of an end keeps every link in order.
LEMMA EndOrderStep ==
  ASSUME TypeOK, NEW l \in Links, NEW d \in Daemons, \A m \in Links : LinkInOrder(m),
         \/ Upgrade(l, d) \/ Receive(l, d) \/ HandshakeTimeout(l, d)
         \/ Heartbeat(l, d) \/ CloseTimeout(l, d) \/ Reset(l, d)
  PROVE  \A m \in Links : LinkInOrder(m)'
<1>1. LinkInOrder(l)'
  <2>1. CASE Upgrade(l, d)
    BY <2>1, UpgradeInOrder
  <2>2. CASE ReadHello(l, d)
    BY <2>2, ReadHelloInOrder
  <2>3. CASE ReadWelcome(l, d)
    BY <2>3, ReadWelcomeInOrder
  <2>4. CASE ReadClose(l, d)
    BY <2>4, ReadCloseInOrder
  <2>5. CASE ReadList(l, d) \/ ReadResponse(l, d)
    BY <2>5, ReadListInOrder
  <2>6. CASE HandshakeTimeout(l, d)
    BY <2>6, CloseKeepsOrder DEF HandshakeTimeout, Present
  <2>7. CASE Heartbeat(l, d)
    BY <2>7, CloseKeepsOrder DEF Heartbeat, Present
  <2>8. CASE CloseTimeout(l, d) \/ Reset(l, d)
    BY <2>8, DeadCloseEventKeepsOrder DEF CloseTimeout, Reset
  <2>. QED BY <2>1, <2>2, <2>3, <2>4, <2>5, <2>6, <2>7, <2>8 DEF Receive
<1>2. ASSUME NEW m \in Links \ {l} PROVE LinkInOrder(m)'
  <2>1. CloseEvent(l, d) => phase'[m] = phase[m] /\ closed'[m] = closed[m] /\ alive'[m] = alive[m]
    BY CloseEventEffect
  <2>2. ASSUME NEW f \in Frames, Send(l, d, f) PROVE inbox'[m] = inbox[m]
    BY <2>2, SendEffect
  <2>3. ASSUME NEW n \in Nat, Read(l, d, n) PROVE inbox'[m] = inbox[m]
    BY <2>3, ReadEffect
  <2>4. ASSUME NEW n \in Nat, NEW f \in Frames, Exchange(l, d, n, f)
        PROVE  inbox'[m] = inbox[m]
    BY <2>4, ExchangeEffect
  <2>5. CASE Upgrade(l, d)
    BY <2>5, UntouchedLink DEF Upgrade, TypeOK
  <2>6. CASE ReadHello(l, d)
    <3>1. inbox'[m] = inbox[m]
      BY <2>4, <2>6, FrameFacts DEF ReadHello
    <3>. QED BY <2>6, <3>1, UntouchedLink DEF ReadHello, TypeOK
  <2>7. CASE ReadWelcome(l, d)
    <3>1. inbox'[m] = inbox[m]
      <4>1. PICK n \in 1..Len(inbox[l][d]) : Read(l, d, n)
        BY <2>7 DEF ReadWelcome
      <4>2. n \in Nat
        OBVIOUS
      <4>. QED BY <2>3, <4>1, <4>2
    <3>. QED BY <2>7, <3>1, UntouchedLink DEF ReadWelcome, TypeOK
  <2>8. CASE ReadClose(l, d)
    <3>1. inbox'[m] = inbox[m]
      BY <2>4, <2>8, ArrivesFacts, FrameFacts DEF ReadClose
    <3>. QED BY <2>1, <2>8, <3>1, UntouchedLink DEF ReadClose
  <2>9. CASE ReadList(l, d)
    <3>1. inbox'[m] = inbox[m]
      BY <2>3, <2>4, <2>9, ArrivesFacts, FrameFacts DEF ReadList
    <3>. QED BY <2>9, <3>1, UntouchedLink DEF ReadList
  <2>10. CASE ReadResponse(l, d)
    BY <2>3, <2>10, UntouchedLink DEF ReadResponse
  <2>11. CASE HandshakeTimeout(l, d) \/ Heartbeat(l, d)
    <3>1. Close(l, d) /\ UNCHANGED <<phase, alive>>
      BY <2>11 DEF HandshakeTimeout, Heartbeat
    <3>. QED BY <2>2, <3>1, UntouchedLink, FrameFacts DEF Close, TypeOK
  <2>12. CASE CloseTimeout(l, d) \/ Reset(l, d)
    BY <2>1, <2>12, UntouchedLink DEF CloseTimeout, Reset
  <2>. QED BY <2>5, <2>6, <2>7, <2>8, <2>9, <2>10, <2>11, <2>12 DEF Receive
<1>. QED BY <1>1, <1>2

\* A step of a daemon's loop or of its requests keeps every link in order.
LEMMA DaemonOrderStep ==
  ASSUME TypeOK, NEW d \in Daemons, Daemon(d), \A m \in Links : LinkInOrder(m),
         MaintainOutbound(d) \/ Ask(d) \/ AskTimeout(d)
  PROVE  \A m \in Links : LinkInOrder(m)'
<1>1. CASE Dial(d)
  <2>1. PICK n \in 1..MaxLinks :
          /\ Free(<<d, n>>)
          /\ phase' = [phase EXCEPT ![<<d, n>>] = [x \in Daemons |-> "none"]]
          /\ alive' = [alive EXCEPT ![<<d, n>>] = TRUE]
          /\ inbox' = [inbox EXCEPT ![<<d, n>>] = [x \in Daemons |-> <<>>]]
    BY <1>1 DEF Dial
  <2>. DEFINE l == <<d, n>>
  <2>2. l \in Links /\ Free(l) /\ closed' = closed
    BY <1>1, <2>1, LinkFacts DEF Dial
  <2>3. /\ phase' = [phase EXCEPT ![l] = [x \in Daemons |-> "none"]]
        /\ alive' = [alive EXCEPT ![l] = TRUE]
        /\ inbox' = [inbox EXCEPT ![l] = [x \in Daemons |-> <<>>]]
    BY <2>1
  <2>. HIDE DEF l
  <2>4. LinkInOrder(l)'
    BY <2>2, <2>3, DialInOrder DEF TypeOK
  <2>5. \A m \in Links \ {l} : LinkInOrder(m)'
    BY <2>2, <2>3, UntouchedLink DEF TypeOK
  <2>. QED BY <2>4, <2>5
<1>2. ASSUME NEW l \in Links, Open(l, d), NEW m \in Links PROVE LinkInOrder(m)'
  <2>1. CASE m = l
    BY <1>2, <2>1, OpenInOrder DEF Daemon
  <2>2. CASE m # l
    <3>1. inbox'[m] = inbox[m]
      BY <1>2, <2>2, SendEffect, FrameFacts DEF Open
    <3>. QED BY <1>2, <2>2, <3>1, UntouchedLink DEF Open, TypeOK
  <2>. QED BY <2>1, <2>2
<1>3. ASSUME NEW l \in Links, DialFails(l, d), NEW m \in Links PROVE LinkInOrder(m)'
  <2>1. CASE m = l
    BY <1>3, <2>1, DialFailsKeepsOrder DEF Daemon
  <2>2. CASE m # l
    BY <1>3, <2>2, UntouchedLink DEF DialFails, TypeOK
  <2>. QED BY <2>1, <2>2
<1>4. ASSUME NEW l \in Links, GiveUp(l, d) PROVE \A m \in Links : LinkInOrder(m)'
  BY <1>4, UntouchedLink DEF GiveUp, links
<1>5. CASE Retry(d)
  BY <1>5, UntouchedLink DEF Retry, links
<1>6. CASE AskTimeout(d)
  BY <1>6, UntouchedLink DEF AskTimeout, links
<1>7. CASE Ask(d)
  <2>. DEFINE f == [type |-> "LIST_SESSIONS", ask |-> asked + 1]
  <2>1. PICK l \in Links : l = table[d]
    BY <1>7 DEF Ask, TypeOK
  <2>2. /\ l \in Links /\ phase[l][d] = "ready" /\ Exchange(l, d, 0, f)
        /\ UNCHANGED <<phase, closed, alive>>
    BY <1>7, <2>1, LinkFacts DEF Ask, Daemon, Attached
  <2>3. f \in Frames /\ f.type = "LIST_SESSIONS"
    <3>1. asked + 1 \in Asks
      BY <1>7, LinksAssumption DEF Ask, TypeOK, Asks
    <3>. QED BY <3>1, FrameFacts
  <2>4. 0 \in Nat /\ inbox[l][d] \in Seq(Frames) /\ 0 \in 0..Len(inbox[l][d])
    BY <2>2 DEF TypeOK
  <2>5. \A m \in Links \ {l} : inbox'[m] = inbox[m]
    BY <2>2, <2>3, <2>4, ExchangeEffect
  <2>6. inbox'[l][d] = inbox[l][d]
    <3>1. inbox'[l][d] = SubSeq(inbox[l][d], 0 + 1, Len(inbox[l][d]))
      BY <2>2, <2>3, <2>4, ExchangeEffect
    <3>. QED BY <2>4, <3>1
  <2>7. inbox'[l][Peer(d)] =
          IF closed[l][d] THEN inbox[l][Peer(d)] ELSE With(l, Peer(d), f)
    BY <2>2, <2>3, <2>4, ExchangeEffect
  <2>8. LinkInOrder(l)'
    <3>1. /\ f.type \in {"LIST_SESSIONS", "LIST_SESSIONS_RESPONSE"}
          /\ inbox'[l][Peer(d)] \in {inbox[l][Peer(d)],
                IF closed[l][d] THEN inbox[l][Peer(d)] ELSE With(l, Peer(d), f)}
      BY <2>3, <2>7
    <3>. QED BY <2>2, <2>3, <2>6, <3>1, ConversationKeepsOrder
  <2>9. ASSUME NEW m \in Links \ {l} PROVE LinkInOrder(m)'
    BY <2>2, <2>5, UntouchedLink
  <2>. QED BY <2>8, <2>9
<1>. QED BY <1>1, <1>2, <1>3, <1>4, <1>5, <1>6, <1>7 DEF MaintainOutbound

\* A broken link or a restart keeps every link in order.
LEMMA FaultOrderStep ==
  ASSUME TypeOK, \A m \in Links : LinkInOrder(m), Fault
  PROVE  \A m \in Links : LinkInOrder(m)'
<1>1. ASSUME NEW l \in Links, Break(l), NEW m \in Links PROVE LinkInOrder(m)'
  <2>1. CASE m = l
    BY <1>1, <2>1, BreakKeepsOrder
  <2>2. CASE m # l
    BY <1>1, <2>2, UntouchedLink DEF Break, TypeOK
  <2>. QED BY <2>1, <2>2
<1>2. ASSUME NEW d \in Daemons, Restart(d) PROVE \A m \in Links : LinkInOrder(m)'
  BY <1>2, RestartKeepsOrder
<1>. QED BY <1>1, <1>2 DEF Fault

---------------------------------------------------------------------------
(* The requests.                                                           *)

\* A step keeps the requests matched, and a settled one settled.
LEMMA RequestsStep ==
  ASSUME TypeOK, RequestsMatch, [Next]_vars
  PROVE  /\ RequestsMatch'
         /\ \A i \in Asks : outcome[i] \notin {"none", "waiting"} => outcome'[i] = outcome[i]
<1>. DEFINE Settled == \A i \in Asks :
              outcome[i] \notin {"none", "waiting"} => outcome'[i] = outcome[i]
<1>1. CASE UNCHANGED requests
  BY <1>1 DEF RequestsMatch, requests
<1>2. ASSUME NEW d \in Daemons, Ask(d) PROVE RequestsMatch' /\ Settled
  <2>. DEFINE i == asked + 1
  <2>1. /\ i \in Asks /\ asked' = i /\ i > asked /\ \A j \in Asks : j > i => j > asked
        /\ outcome[i] = "none"
    BY <1>2, LinksAssumption DEF Ask, TypeOK, Asks, RequestsMatch
  <2>2. /\ pending' = [pending EXCEPT ![d] = @ \cup {i}]
        /\ outcome' = [outcome EXCEPT ![i] = "waiting"]
    BY <1>2 DEF Ask
  <2>. HIDE DEF i
  <2>3. \A e \in Daemons : i \notin pending[e]
    BY <2>1 DEF RequestsMatch
  <2>4. pending'["a"] \cap pending'["b"] = {}
    BY <2>2, <2>3 DEF RequestsMatch, TypeOK, Daemons
  <2>5. \A e \in Daemons : \A j \in pending'[e] : outcome'[j] = "waiting"
    BY <2>1, <2>2 DEF RequestsMatch, TypeOK
  <2>6. \A j \in Asks : j > asked' => outcome'[j] = "none"
    BY <2>1, <2>2 DEF RequestsMatch, TypeOK, Asks
  <2>7. Settled
    BY <2>1, <2>2 DEF TypeOK
  <2>. QED BY <2>4, <2>5, <2>6, <2>7 DEF RequestsMatch
<1>3. ASSUME NEW d \in Daemons, NEW i \in pending[d], NEW o \in {"sessions", "timeout"},
             pending' = [pending EXCEPT ![d] = @ \ {i}],
             outcome' = [outcome EXCEPT ![i] = o], asked' = asked
      PROVE  RequestsMatch' /\ Settled
  <2>1. i \in Asks /\ outcome[i] = "waiting" /\ i \notin pending[Peer(d)]
    BY <1>3 DEF RequestsMatch, TypeOK, Daemons, Peer
  <2>2. pending'["a"] \cap pending'["b"] = {}
    BY <1>3 DEF RequestsMatch, TypeOK, Daemons
  <2>3. \A e \in Daemons : \A j \in pending'[e] : j # i /\ j \in pending[e]
    BY <1>3, <2>1, PeerFacts DEF TypeOK
  <2>4. \A e \in Daemons : \A j \in pending'[e] : outcome'[j] = "waiting"
    BY <1>3, <2>3 DEF RequestsMatch, TypeOK
  <2>5. \A j \in Asks : j > asked' => outcome'[j] = "none"
    BY <1>3, <2>1 DEF RequestsMatch, TypeOK
  <2>6. Settled
    BY <1>3, <2>1 DEF TypeOK
  <2>. QED BY <2>2, <2>4, <2>5, <2>6 DEF RequestsMatch
<1>4. ASSUME NEW l \in Links, NEW d \in Daemons, ReadResponse(l, d)
      PROVE  RequestsMatch' /\ Settled
  <2>. DEFINE i == Head(inbox[l][d]).ask
  <2>1. \/ /\ i \in pending[d] /\ asked' = asked
           /\ pending' = [pending EXCEPT ![d] = @ \ {i}]
           /\ outcome' = [outcome EXCEPT ![i] = "sessions"]
        \/ UNCHANGED requests
    BY <1>4 DEF ReadResponse, Answered, requests
  <2>. HIDE DEF i
  <2>. QED BY <1>1, <1>3, <2>1
<1>5. ASSUME NEW d \in Daemons, AskTimeout(d) PROVE RequestsMatch' /\ Settled
  BY <1>3, <1>5 DEF AskTimeout
<1>6. ASSUME NEW d \in Daemons, Restart(d) PROVE RequestsMatch' /\ Settled
  <2>1. /\ pending' = [pending EXCEPT ![d] = {}] /\ asked' = asked
        /\ outcome' = [i \in Asks |-> IF i \in pending[d] THEN "lost" ELSE outcome[i]]
    BY <1>6 DEF Restart
  <2>2. \A e \in Daemons : \A j \in pending'[e] : j \in pending[e] /\ j \notin pending[d]
    BY <2>1 DEF RequestsMatch, TypeOK, Daemons
  <2>3. pending'["a"] \cap pending'["b"] = {}
    BY <2>1 DEF RequestsMatch, TypeOK, Daemons
  <2>4. \A e \in Daemons : \A j \in pending'[e] : outcome'[j] = "waiting"
    BY <2>1, <2>2 DEF RequestsMatch, TypeOK
  <2>5. \A j \in Asks : j > asked' => outcome'[j] = "none"
    BY <2>1 DEF RequestsMatch, TypeOK
  <2>6. Settled
    BY <2>1 DEF RequestsMatch, TypeOK
  <2>. QED BY <2>3, <2>4, <2>5, <2>6 DEF RequestsMatch
<1>7. CASE UNCHANGED vars
  BY <1>1, <1>7 DEF vars, requests
<1>8. ASSUME NEW l \in Links, NEW d \in Daemons,
             \/ Upgrade(l, d) \/ Receive(l, d) \/ HandshakeTimeout(l, d)
             \/ Heartbeat(l, d) \/ CloseTimeout(l, d) \/ Reset(l, d)
      PROVE  ReadResponse(l, d) \/ UNCHANGED requests
  BY <1>8 DEF Upgrade, Receive, ReadHello, ReadWelcome, ReadClose, ReadList,
              HandshakeTimeout, Heartbeat, CloseTimeout, Reset
<1>9. ASSUME NEW d \in Daemons, MaintainOutbound(d) PROVE UNCHANGED requests
  BY <1>9 DEF MaintainOutbound, Dial, Open, DialFails, GiveUp, Retry
<1>10. ASSUME NEW l \in Links, Break(l) PROVE UNCHANGED requests
  BY <1>10 DEF Break
<1>. QED BY <1>1, <1>2, <1>4, <1>5, <1>6, <1>7, <1>8, <1>9, <1>10 DEF Next, Fault

---------------------------------------------------------------------------
(* The theorems.                                                           *)

\* The loops, the frames on each link and the pending requests always match
\* the two ends, whatever is dialled, closed, broken and restarted, and however
\* many links and requests there are (connection.ts, index.ts).
THEOREM LinkInvariantHolds == Spec => []LinkInvariant
<1>. DEFINE Inv == TypeOK /\ LinkInvariant
<1>1. Init => Inv
  <2>1. Init => TypeOK
    BY LinksAssumption DEF Init, TypeOK
  <2>2. Init => \A d \in Daemons : Daemon(d)
    BY DEF Init, Daemon, LoopMatches
  <2>3. Init => \A l \in Links : LinkInOrder(l)
    <3>1. SUFFICES ASSUME Init, NEW l \in Links PROVE LinkInOrder(l)
      OBVIOUS
    <3>2. /\ ~alive[l]
          /\ \A d \in Daemons : phase[l][d] = "gone" /\ closed[l][d] /\ inbox[l][d] = <<>>
      BY <3>1 DEF Init
    <3>3. WiresClear(l)
      BY <3>2, PeerFacts DEF WiresClear
    <3>4. HelloInOrder(l) /\ WelcomeInOrder(l)
      BY <3>2, EndsOfLink, EmptyContents DEF HelloInOrder, WelcomeInOrder
    <3>5. CloseInOrder(l)
      BY <3>2, EndsOfLink, EmptyContents DEF CloseInOrder
    <3>. QED BY <3>3, <3>4, <3>5 DEF LinkInOrder
  <2>4. Init => RequestsMatch
    BY DEF Init, RequestsMatch, Daemons
  <2>. QED BY <2>1, <2>2, <2>3, <2>4 DEF LinkInvariant, Daemon, TabledIsOpen
<1>2. Inv /\ [Next]_vars => Inv'
  <2>1. SUFFICES ASSUME Inv, [Next]_vars PROVE Inv'
    OBVIOUS
  <2>2. /\ \A d \in Daemons : Daemon(d)
        /\ \A l \in Links : LinkInOrder(l)
        /\ TypeOK /\ RequestsMatch
    BY <2>1 DEF LinkInvariant, Daemon, TabledIsOpen
  <2>3. RequestsMatch'
    BY <2>1, <2>2, RequestsStep
  <2>4. /\ \A d \in Daemons : Daemon(d)'
        /\ \A l \in Links : LinkInOrder(l)'
        /\ TypeOK'
    <3>1. CASE UNCHANGED vars
      <4>1. TypeOK'
        BY <2>2, <3>1 DEF TypeOK, vars
      <4>. QED BY <2>2, <3>1, <4>1, UntouchedDaemon, UntouchedLink DEF vars
    <3>2. ASSUME NEW l \in Links, NEW d \in Daemons,
                 \/ Upgrade(l, d) \/ Receive(l, d) \/ HandshakeTimeout(l, d)
                 \/ Heartbeat(l, d) \/ CloseTimeout(l, d) \/ Reset(l, d)
          PROVE  /\ \A e \in Daemons : Daemon(e)'
                 /\ \A m \in Links : LinkInOrder(m)'
                 /\ TypeOK'
      <4>1. Daemon(d)' /\ Daemon(Peer(d))'
        BY <2>2, <3>2, EndDaemonStep, EndPeerStep, PeerFacts
      <4>. QED BY <2>2, <3>2, <4>1, EndOrderStep, EndTypeStep, PeerFacts
    <3>3. ASSUME NEW d \in Daemons, MaintainOutbound(d) \/ Ask(d) \/ AskTimeout(d)
          PROVE  /\ \A e \in Daemons : Daemon(e)'
                 /\ \A m \in Links : LinkInOrder(m)'
                 /\ TypeOK'
      <4>1. Daemon(d)' /\ Daemon(Peer(d))'
        BY <2>2, <3>3, DaemonStep, PeerFacts
      <4>. QED BY <2>2, <3>3, <4>1, DaemonOrderStep, DaemonTypeStep, PeerFacts
    <3>4. CASE Fault
      BY <2>2, <3>4, FaultDaemonStep, FaultOrderStep, FaultTypeStep
    <3>. QED BY <2>1, <3>1, <3>2, <3>3, <3>4 DEF Next
  <2>. QED BY <2>3, <2>4 DEF LinkInvariant, Daemon, TabledIsOpen
<1>. QED BY <1>1, <1>2, PTL DEF Spec

\* What getConnection returns can always be sent on: its handshake is done,
\* its close event has not fired, and somebody listens to it.
THEOREM TableIsOpen == Spec => []TabledIsOpen
<1>1. LinkInvariant => TabledIsOpen
  BY DEF LinkInvariant
<1>. QED BY <1>1, LinkInvariantHolds, PTL

\* handleRaw of one daemon never calls fatal() for what the other has sent:
\* HELLO and WELCOME come once and first, and only to the end they are for.
THEOREM NothingUnexpectedArrives == Spec => []NothingUnexpected
<1>1. TypeOK /\ LinkInvariant => NothingUnexpected
  <2>1. SUFFICES ASSUME TypeOK, LinkInvariant, NEW l \in Links, NEW d \in Daemons,
                        Unexpected(l, d)
                 PROVE  FALSE
    BY DEF NothingUnexpected
  <2>2. LinkInOrder(l) /\ inbox[l][d] \in Seq(Frames)
    BY <2>1 DEF LinkInvariant, TypeOK
  <2>3. ASSUME NEW type, Arrives(l, d, type)
        PROVE  Carries(inbox[l][d], type) /\ Present(l, d) /\ inbox[l][d] # <<>>
    BY <2>2, <2>3, HeadContents DEF Arrives
  <2>4. CASE Arrives(l, d, "HELLO") /\ (Client(l, d) \/ phase[l][d] = "ready")
    BY <2>2, <2>3, <2>4, LinkFacts DEF LinkInOrder, HelloInOrder
  <2>5. CASE Arrives(l, d, "WELCOME") /\ (~Client(l, d) \/ phase[l][d] = "ready")
    BY <2>2, <2>3, <2>5, LinkFacts DEF LinkInOrder, WelcomeInOrder
  <2>6. CASE /\ Arrives(l, d, "LIST_SESSIONS") \/ Arrives(l, d, "LIST_SESSIONS_RESPONSE")
             /\ phase[l][d] # "ready"
    BY <2>2, <2>3, <2>6, EndsOfLink
       DEF Arrives, Present, LinkInOrder, HelloInOrder, WelcomeInOrder, Begins
  <2>. QED BY <2>1, <2>4, <2>5, <2>6 DEF Unexpected
<1>. QED BY <1>1, LinksTypeCorrect, LinkInvariantHolds, PTL

\* On a link that lives, with nothing under way, a tabled end that is open has
\* a ready, open end opposite it: the two handshake timers, and the WELCOME and
\* CLOSE that cross, leave no connection that only one daemon believes in.
THEOREM NoHalfOpenLink == Spec => []NoHalfOpen
<1>1. TypeOK /\ LinkInvariant => NoHalfOpen
  <2>1. SUFFICES ASSUME TypeOK, LinkInvariant, NEW d \in Daemons, NEW l \in Links,
                        table[d] = l, alive[l], Quiet(l), ~closed[l][d]
                 PROVE  phase[l][Peer(d)] = "ready" /\ ~closed[l][Peer(d)]
    BY DEF NoHalfOpen
  <2>2. /\ LinkInOrder(l) /\ phase[l][d] = "ready"
        /\ \A e \in Daemons : inbox[l][e] = <<>>
        /\ phase[l][Peer(d)] \in {"none", "shaking", "ready", "gone"}
    BY <2>1, LinkFacts, PeerFacts DEF LinkInvariant, TabledIsOpen, Attached, Quiet, TypeOK
  <2>3. phase[l][Peer(d)] # "gone"
    BY <2>1, <2>2, PeerFacts DEF LinkInOrder, CloseInOrder
  <2>4. phase[l][Peer(d)] = "ready"
    BY <2>1, <2>2, <2>3, EndsOfLink DEF LinkInOrder, HelloInOrder, WelcomeInOrder
  <2>5. ~closed[l][Peer(d)]
    BY <2>1, <2>2, <2>4, PeerFacts, EmptyContents DEF LinkInOrder, CloseInOrder, Present
  <2>. QED BY <2>4, <2>5
<1>. QED BY <1>1, LinksTypeCorrect, LinkInvariantHolds, PTL

\* The promise of a request is settled once: by the answer, the timeout or the
\* daemon's end, whichever comes first.
THEOREM RequestsSettleOnce == Spec => SettledOnce
<1>1. TypeOK /\ LinkInvariant /\ [Next]_vars
        => [\A i \in Asks : outcome[i] \notin {"none", "waiting"}
                              => outcome'[i] = outcome[i]]_vars
  BY RequestsStep DEF LinkInvariant
<1>. QED BY <1>1, LinksTypeCorrect, LinkInvariantHolds, PTL DEF Spec, SettledOnce
============================================================================
