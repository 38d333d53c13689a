------------------------------- MODULE Links -------------------------------
(***************************************************************************)
(* The connections between two peerd daemons: the handshake, heartbeat and *)
(* closing of one connection (peerd/src/connection.ts, client.ts), the     *)
(* loop by which each daemon keeps one (maintainOutbound of index.ts), the *)
(* table of connections by peer name, and one request that travels over    *)
(* them, LIST_SESSIONS (call_manager.ts).                                  *)
(*                                                                         *)
(* Both daemons dial, so there may be several links at once, some of them  *)
(* half made and some half closed.  An end of a link that has called       *)
(* close() still handles the frames that arrive until its close event.     *)
(* inbox[l][d] are the frames on their way to d on link l.  A broken link  *)
(* loses them, and its two ends notice at different times or, but for the  *)
(* heartbeat, never.                                                       *)
(***************************************************************************)
EXTENDS Naturals, Sequences, FiniteSets

CONSTANTS
  MaxLinks,   \* bound: the links dialled by one daemon that exist at a time
  MaxAsks,    \* bound: the requests for the peer's sessions
  MaxFaults   \* bound: late handshakes, broken links and restarts

Daemons == {"a", "b"}

Peer(d) == IF d = "a" THEN "b" ELSE "a"

\* A link is named by the daemon that dials it, its client, and a number that
\* is used again when the link is gone.
Links == Daemons \X (1..MaxLinks)

NoLink == <<>>

Client(l, d) == l[1] = d

Asks == 1..MaxAsks

ASSUME LinksAssumption ==
  /\ MaxLinks \in Nat
  /\ MaxAsks \in Nat
  /\ MaxFaults \in Nat

VARIABLES
  phase,    \* phase[l][d]: how far d's Connection object of l has come
  closed,   \* closed[l][d]: Connection.closed, set before the close event
  alive,    \* the link carries what is sent on it
  inbox,    \* inbox[l][d]: the frames on their way to d
  table,    \* d's `connections`: the link that has the peer's name
  loop,     \* where d's maintainOutbound is
  held,     \* the link it is making or waiting on
  pending,  \* d's pendingListSessions
  outcome,  \* outcome[i]: what the promise of the i-th request has become
  asked,    \* bound: the requests so far
  faults    \* bound: the faults so far

links    == <<phase, closed, alive, inbox>>
loops    == <<loop, held>>
requests == <<pending, outcome, asked>>

vars == <<phase, closed, alive, inbox, table, loop, held, pending, outcome,
          asked, faults>>

Frames == [type : {"HELLO", "WELCOME", "CLOSE"}, ask : {0}]
            \cup [type : {"LIST_SESSIONS", "LIST_SESSIONS_RESPONSE"}, ask : Asks]

TypeOK ==
  /\ phase \in [Links -> [Daemons -> {"none", "shaking", "ready", "gone"}]]
  /\ closed \in [Links -> [Daemons -> BOOLEAN]]
  /\ alive \in [Links -> BOOLEAN]
  /\ inbox \in [Links -> [Daemons -> Seq(Frames)]]
  /\ table \in [Daemons -> Links \cup {NoLink}]
  /\ loop \in [Daemons -> {"check", "dialling", "shaking", "holding", "backoff"}]
  /\ held \in [Daemons -> Links \cup {NoLink}]
  /\ pending \in [Daemons -> SUBSET Asks]
  /\ outcome \in [Asks -> {"none", "waiting", "sessions", "timeout", "lost"}]
  /\ asked \in 0..MaxAsks
  /\ faults \in 0..MaxFaults

Init ==
  /\ phase = [l \in Links |-> [d \in Daemons |-> "gone"]]
  /\ closed = [l \in Links |-> [d \in Daemons |-> TRUE]]
  /\ alive = [l \in Links |-> FALSE]
  /\ inbox = [l \in Links |-> [d \in Daemons |-> <<>>]]
  /\ table = [d \in Daemons |-> NoLink]
  /\ loop = [d \in Daemons |-> "check"]
  /\ held = [d \in Daemons |-> NoLink]
  /\ pending = [d \in Daemons |-> {}]
  /\ outcome = [i \in Asks |-> "none"]
  /\ asked = 0
  /\ faults = 0

---------------------------------------------------------------------------
(* One end of a link.                                                      *)

Control(type) == [type |-> type, ask |-> 0]

\* The Connection object exists and its close event has not fired.
Present(l, d) == phase[l][d] \in {"shaking", "ready"}

\* A slot without a Connection object, that no loop is occupied with.
Free(l) == \A d \in Daemons : ~Present(l, d) /\ held[d] # l

\* The first frame that d is to read on l.
Arrives(l, d, type) ==
  /\ Present(l, d)
  /\ inbox[l][d] # <<>>
  /\ Head(inbox[l][d]).type = type

\* What is on its way to e on l after one more frame has been sent.
With(l, e, f) ==
  IF alive[l] /\ phase[l][e] # "gone" THEN Append(inbox[l][e], f) ELSE inbox[l][e]

Send(l, d, f) == inbox' = [inbox EXCEPT ![l][Peer(d)] = With(l, Peer(d), f)]

\* d has read n frames and sends f; a closed end sends nothing, and says
\* nothing of it.
Exchange(l, d, n, f) ==
  inbox' = [inbox EXCEPT
    ![l][d] = SubSeq(@, n + 1, Len(@)),
    ![l][Peer(d)] = IF closed[l][d] THEN @ ELSE With(l, Peer(d), f)]

Read(l, d, n) == inbox' = [inbox EXCEPT ![l][d] = SubSeq(@, n + 1, Len(@))]

\* Mistake: the flag is set and the socket left open.
CloseQuietly(l, d) ==
  /\ closed' = [closed EXCEPT ![l][d] = TRUE]
  /\ UNCHANGED inbox

\* close(): the CLOSE frame follows what has been sent before.
Close(l, d) ==
  /\ Send(l, d, Control("CLOSE"))
  /\ closed' = [closed EXCEPT ![l][d] = TRUE]

\* d's loop is waiting on link l, so l has its handlers.
Holding(l, d) == loop[d] = "holding" /\ held[d] = l

\* attachConnection has been called: somebody listens to l's messages.
Attached(l, d) == phase[l][d] = "ready" /\ (Client(l, d) => Holding(l, d))

\* Mistake: the handler of an inbound link leaves its entry in the table.
TableAfterCloseKept(l, d) == IF Holding(l, d) THEN NoLink ELSE table[d]

\* The close handlers of index.ts.  That of an outbound link deletes what has
\* the peer's name, whichever link that is; that of an inbound one its own.
TableAfterClose(l, d) ==
  IF Holding(l, d) \/ (~Client(l, d) /\ table[d] = l) THEN NoLink ELSE table[d]

\* Mistake: the loop that has lost its connection is not resumed.
LoopAfterCloseEnded(l, d) == loop[d]

LoopAfterClose(l, d) == IF Holding(l, d) THEN "check" ELSE loop[d]

\* The close event of d's end: cleanup() and the handlers of index.ts.
CloseEvent(l, d) ==
  /\ phase' = [phase EXCEPT ![l][d] = "gone"]
  /\ closed' = [closed EXCEPT ![l][d] = TRUE]
  /\ table' = [table EXCEPT ![d] = TableAfterClose(l, d)]
  /\ loop' = [loop EXCEPT ![d] = LoopAfterClose(l, d)]
  /\ held' = [held EXCEPT ![d] = IF Holding(l, d) THEN NoLink ELSE @]
  /\ alive' = [alive EXCEPT ![l] = @ /\ phase[l][Peer(d)] # "gone"]

---------------------------------------------------------------------------
(* Making a link.                                                          *)

\* The loop finds no entry and dials.
Dial(d) ==
  /\ loop[d] = "check"
  /\ table[d] = NoLink
  /\ \E n \in 1..MaxLinks :
       /\ Free(<<d, n>>)
       /\ \A m \in 1..(n - 1) : ~Free(<<d, m>>)
       /\ phase' = [phase EXCEPT ![<<d, n>>] = [e \in Daemons |-> "none"]]
       /\ alive' = [alive EXCEPT ![<<d, n>>] = TRUE]
       /\ inbox' = [inbox EXCEPT ![<<d, n>>] = [e \in Daemons |-> <<>>]]
       /\ held' = [held EXCEPT ![d] = <<d, n>>]
  /\ loop' = [loop EXCEPT ![d] = "dialling"]
  /\ UNCHANGED <<closed, table, requests, faults>>

\* The other daemon accepts the upgrade; its Connection waits for HELLO.
Upgrade(l, d) ==
  /\ ~Client(l, d)
  /\ alive[l]
  /\ phase[l][d] = "none"
  /\ phase' = [phase EXCEPT ![l][d] = "shaking"]
  /\ closed' = [closed EXCEPT ![l][d] = FALSE]
  /\ UNCHANGED <<alive, inbox, table, loops, requests, faults>>

\* The socket opens: the client's Connection is made and sends HELLO.
Open(l, d) ==
  /\ loop[d] = "dialling"
  /\ held[d] = l
  /\ alive[l]
  /\ phase[l][Peer(d)] # "none"
  /\ phase' = [phase EXCEPT ![l][d] = "shaking"]
  /\ closed' = [closed EXCEPT ![l][d] = FALSE]
  /\ loop' = [loop EXCEPT ![d] = "shaking"]
  /\ Send(l, d, Control("HELLO"))
  /\ UNCHANGED <<alive, table, held, requests, faults>>

\* dialPeer rejects: the socket failed before it was open.
DialFails(l, d) ==
  /\ loop[d] = "dialling"
  /\ held[d] = l
  /\ ~alive[l]
  /\ phase' = [phase EXCEPT ![l][d] = "gone"]
  /\ loop' = [loop EXCEPT ![d] = "backoff"]
  /\ held' = [held EXCEPT ![d] = NoLink]
  /\ UNCHANGED <<closed, alive, inbox, table, requests, faults>>

\* The server answers with WELCOME and is ready, and the link replaces what
\* the table has for the peer, even if this end has closed it meanwhile (the
\* WELCOME is then dropped, the entry made all the same).
ReadHello(l, d) ==
  /\ Arrives(l, d, "HELLO")
  /\ Exchange(l, d, 1, Control("WELCOME"))
  /\ phase' = [phase EXCEPT ![l][d] = "ready"]
  /\ table' = [table EXCEPT ![d] = l]
  /\ UNCHANGED <<closed, alive, loops, requests, faults>>

\* The client is ready.  If its loop still waits for this, it enters the link
\* in the table and attaches it, but one microtask later: frames that came in
\* one piece with WELCOME are emitted before anybody listens, and are lost.
ReadWelcome(l, d) ==
  /\ Arrives(l, d, "WELCOME")
  /\ \E n \in 1..Len(inbox[l][d]) :
       /\ \A i \in 2..n : inbox[l][d][i].type # "CLOSE"
       /\ Read(l, d, n)
  /\ phase' = [phase EXCEPT ![l][d] = "ready"]
  /\ IF loop[d] = "shaking" /\ held[d] = l
     THEN /\ table' = [table EXCEPT ![d] = l]
          /\ loop' = [loop EXCEPT ![d] = "holding"]
     ELSE UNCHANGED <<table, loop>>
  /\ UNCHANGED <<closed, alive, held, requests, faults>>

\* Mistake: a late handshake is begun again on the same link.
HandshakeTimeoutRetried(l, d) ==
  /\ phase[l][d] = "shaking"
  /\ ~closed[l][d]
  /\ faults < MaxFaults
  /\ faults' = faults + 1
  /\ Send(l, d, Control("HELLO"))
  /\ UNCHANGED <<phase, closed, alive, table, loops, requests>>

\* handshakeTimer: the other end is late (a fault), or will never answer.
HandshakeTimeout(l, d) ==
  /\ phase[l][d] = "shaking"
  /\ ~closed[l][d]
  /\ IF alive[l] THEN faults < MaxFaults /\ faults' = faults + 1
                 ELSE UNCHANGED faults
  /\ Close(l, d)
  /\ UNCHANGED <<phase, alive, table, loops, requests>>

\* The loop's own handshake timer, or an error of the socket, rejects.
GiveUp(l, d) ==
  /\ loop[d] = "shaking"
  /\ held[d] = l
  /\ closed[l][d] \/ ~alive[l]
  /\ loop' = [loop EXCEPT ![d] = "backoff"]
  /\ held' = [held EXCEPT ![d] = NoLink]
  /\ UNCHANGED <<links, table, requests, faults>>

Retry(d) ==
  /\ loop[d] = "backoff"
  /\ loop' = [loop EXCEPT ![d] = "check"]
  /\ UNCHANGED <<links, table, held, requests, faults>>

---------------------------------------------------------------------------
(* Losing a link.                                                          *)

\* The peer has closed: ws answers with its own CLOSE, and the close event
\* follows.
ReadClose(l, d) ==
  /\ Arrives(l, d, "CLOSE")
  /\ Exchange(l, d, Len(inbox[l][d]), Control("CLOSE"))
  /\ CloseEvent(l, d)
  /\ UNCHANGED <<requests, faults>>

\* Mistake: only the daemon that has dialled watches the link.
HeartbeatOfClient(l, d) ==
  /\ phase[l][d] = "ready"
  /\ ~closed[l][d]
  /\ ~alive[l]
  /\ Client(l, d)
  /\ Close(l, d)
  /\ UNCHANGED <<phase, alive, table, loops, requests, faults>>

\* Nothing has been heard for too long; on a link that lives the peer's PINGs
\* arrive in time.
Heartbeat(l, d) ==
  /\ phase[l][d] = "ready"
  /\ ~closed[l][d]
  /\ ~alive[l]
  /\ Close(l, d)
  /\ UNCHANGED <<phase, alive, table, loops, requests, faults>>

\* The operating system reports the broken link.
Reset(l, d) ==
  /\ Present(l, d)
  /\ ~alive[l]
  /\ ~closed[l][d]
  /\ CloseEvent(l, d)
  /\ UNCHANGED <<inbox, requests, faults>>

\* ws waits for the peer's CLOSE no longer.
CloseTimeout(l, d) ==
  /\ Present(l, d)
  /\ ~alive[l]
  /\ closed[l][d]
  /\ CloseEvent(l, d)
  /\ UNCHANGED <<inbox, requests, faults>>

\* The network drops the link, with what is on it.
Break(l) ==
  /\ alive[l]
  /\ ~Free(l)
  /\ faults < MaxFaults
  /\ alive' = [alive EXCEPT ![l] = FALSE]
  /\ inbox' = [inbox EXCEPT ![l] = [d \in Daemons |-> <<>>]]
  /\ faults' = faults + 1
  /\ UNCHANGED <<phase, closed, table, loops, requests>>

\* d stops, by shutdown() or at once, and starts again.
Restart(d) ==
  /\ faults < MaxFaults
  /\ faults' = faults + 1
  /\ phase' = [l \in Links |-> [phase[l] EXCEPT ![d] = "gone"]]
  /\ alive' = [l \in Links |-> FALSE]
  /\ inbox' = [l \in Links |-> [e \in Daemons |-> <<>>]]
  /\ table' = [table EXCEPT ![d] = NoLink]
  /\ loop' = [loop EXCEPT ![d] = "check"]
  /\ held' = [held EXCEPT ![d] = NoLink]
  /\ pending' = [pending EXCEPT ![d] = {}]
  /\ outcome' = [i \in Asks |-> IF i \in pending[d] THEN "lost" ELSE outcome[i]]
  /\ closed' = [l \in Links |-> [closed[l] EXCEPT ![d] = TRUE]]
  /\ UNCHANGED asked

---------------------------------------------------------------------------
(* LIST_SESSIONS, on the link that the table has.                          *)

Ask(d) ==
  /\ asked < MaxAsks
  /\ table[d] # NoLink
  /\ asked' = asked + 1
  /\ pending' = [pending EXCEPT ![d] = @ \cup {asked + 1}]
  /\ outcome' = [outcome EXCEPT ![asked + 1] = "waiting"]
  /\ Exchange(table[d], d, 0, [type |-> "LIST_SESSIONS", ask |-> asked + 1])
  /\ UNCHANGED <<phase, closed, alive, table, loops, faults>>

\* Mistake: the response does not name its request.
ResponseToNone(f) == [type |-> "LIST_SESSIONS_RESPONSE", ask |-> 0]

Response(f) == [type |-> "LIST_SESSIONS_RESPONSE", ask |-> f.ask]

\* The answer goes back on the link that the question came from.
ReadList(l, d) ==
  /\ Arrives(l, d, "LIST_SESSIONS")
  /\ IF Attached(l, d)
     THEN Exchange(l, d, 1, Response(Head(inbox[l][d])))
     ELSE Read(l, d, 1)
  /\ UNCHANGED <<phase, closed, alive, table, loops, requests, faults>>

\* Mistake: the answer is taken without a look at the pending requests.
AnsweredAnyway(d, i) == TRUE

Answered(d, i) == i \in pending[d]

ReadResponse(l, d) ==
  /\ Arrives(l, d, "LIST_SESSIONS_RESPONSE")
  /\ Read(l, d, 1)
  /\ LET i == Head(inbox[l][d]).ask IN
     IF Attached(l, d) /\ Answered(d, i)
     THEN /\ pending' = [pending EXCEPT ![d] = @ \ {i}]
          /\ outcome' = [outcome EXCEPT ![i] = "sessions"]
     ELSE UNCHANGED <<pending, outcome>>
  /\ UNCHANGED <<phase, closed, alive, table, loops, asked, faults>>

AskTimeout(d) ==
  /\ \E i \in pending[d] :
       /\ pending' = [pending EXCEPT ![d] = @ \ {i}]
       /\ outcome' = [outcome EXCEPT ![i] = "timeout"]
  /\ UNCHANGED <<links, table, loops, asked, faults>>

---------------------------------------------------------------------------
Receive(l, d) ==
  \/ ReadHello(l, d)
  \/ ReadWelcome(l, d)
  \/ ReadClose(l, d)
  \/ ReadList(l, d)
  \/ ReadResponse(l, d)

\* What the timers and sockets of an end do once its link is dead.
Expire(l, d) ==
  \/ Heartbeat(l, d)
  \/ CloseTimeout(l, d)
  \/ ~alive[l] /\ HandshakeTimeout(l, d)

MaintainOutbound(d) ==
  \/ Dial(d)
  \/ \E l \in Links : Open(l, d) \/ DialFails(l, d) \/ GiveUp(l, d)
  \/ Retry(d)

Fault ==
  \/ \E l \in Links : Break(l)
  \/ \E d \in Daemons : Restart(d)

Next ==
  \/ \E l \in Links, d \in Daemons :
       \/ Upgrade(l, d)
       \/ Receive(l, d)
       \/ HandshakeTimeout(l, d)
       \/ Heartbeat(l, d)
       \/ CloseTimeout(l, d)
       \/ Reset(l, d)
  \/ \E d \in Daemons : MaintainOutbound(d) \/ Ask(d) \/ AskTimeout(d)
  \/ Fault

Spec == Init /\ [][Next]_vars

\* The event loops run, the network delivers on a link that lives, timers fire
\* and the loops go on.  Requests and faults are never obliged.
Fairness ==
  /\ \A l \in Links, d \in Daemons : WF_vars(Upgrade(l, d) \/ Receive(l, d) \/ Expire(l, d))
  /\ \A d \in Daemons : WF_vars(MaintainOutbound(d)) /\ WF_vars(AskTimeout(d))

FairSpec == Spec /\ Fairness

---------------------------------------------------------------------------
(* Properties.                                                             *)

\* The table never has a connection whose close event has fired, nor one whose
\* handshake is not done: what getConnection returns can be sent on
\* (connections.set and the two close handlers of index.ts; Connection.send
\* throws before the handshake).
TabledIsOpen ==
  \A d \in Daemons : table[d] # NoLink => Attached(table[d], d)

\* Nothing is travelling on l.
Quiet(l) == \A d \in Daemons : inbox[l][d] = <<>>

\* No end believes in a connection that the other has given up: on a link that
\* lives, when nothing is under way, a tabled end that is not closed has a
\* ready, open end opposite it (the two handshake timers, and the WELCOME and
\* CLOSE that cross).
NoHalfOpen ==
  \A d \in Daemons, l \in Links :
    (table[d] = l /\ alive[l] /\ Quiet(l) /\ ~closed[l][d])
      => phase[l][Peer(d)] = "ready" /\ ~closed[l][Peer(d)]

\* What handleRaw calls fatal: HELLO to a client or twice, WELCOME to a server
\* or twice, another message before the handshake.
Unexpected(l, d) ==
  \/ Arrives(l, d, "HELLO") /\ (Client(l, d) \/ phase[l][d] = "ready")
  \/ Arrives(l, d, "WELCOME") /\ (~Client(l, d) \/ phase[l][d] = "ready")
  \/ /\ Arrives(l, d, "LIST_SESSIONS") \/ Arrives(l, d, "LIST_SESSIONS_RESPONSE")
     /\ phase[l][d] # "ready"

\* Two daemons of this code never make each other's handleRaw call fatal(),
\* whatever closes, times out and is dialled again meanwhile.
NothingUnexpected == \A l \in Links, d \in Daemons : ~Unexpected(l, d)

\* The promise of listRemoteSessions is settled once: an answer that comes
\* after the timeout, or by another link, changes nothing.
SettledOnce ==
  [][\A i \in Asks : outcome[i] \notin {"none", "waiting"}
                       => outcome'[i] = outcome[i]]_vars

\* A dead link does not stay in the table: the heartbeat or the system finds
\* it (startHeartbeat), though its end may never hear of the loss.
DeadIsDropped ==
  \A d \in Daemons, l \in Links :
    (table[d] = l /\ ~alive[l]) ~> (table[d] # l \/ alive[l])

\* d's loop waits on a live link that is not in the table any more: an inbound
\* link took its place there and has gone.
Displaced(d) ==
  /\ loop[d] = "holding"
  /\ table[d] = NoLink
  /\ \E l \in Links : held[d] = l /\ alive[l] /\ Present(l, d)

\* Once the faults are over, each daemon has a connection to the other for
\* good, unless its loop waits on a displaced one (maintainOutbound).
Reconnects ==
  \A d \in Daemons : <>[](table[d] # NoLink \/ Displaced(d))
---------------------------------------------------------------------------
(* Why the first three hold: what is true of each loop, of what travels on *)
(* each link, and of the requests, after every step.                       *)

Carries(q, type) == \E i \in 1..Len(q) : q[i].type = type

OnlyFirst(q, type) == \A i \in 1..Len(q) : q[i].type = type => i = 1

Begins(q, types) == q # <<>> => Head(q).type \in types

Server(l) == Peer(l[1])

\* A loop that is occupied is so with a link it has dialled, at the same point.
LoopMatches(d) ==
  /\ held[d] # NoLink <=> loop[d] \in {"dialling", "shaking", "holding"}
  /\ held[d] # NoLink => Client(held[d], d)
  /\ loop[d] = "dialling" => phase[held[d]][d] = "none"
  /\ loop[d] = "holding" => phase[held[d]][d] = "ready"

\* Nothing travels on a broken link, to an end that has gone or from an end
\* that does not exist yet; an end that does not exist is closed.
WiresClear(l) ==
  \A d \in Daemons :
    /\ ~alive[l] \/ phase[l][d] = "gone" => inbox[l][d] = <<>>
    /\ phase[l][d] = "none" => inbox[l][Peer(d)] = <<>>
    /\ phase[l][d] \in {"none", "gone"} => closed[l][d]

\* What the server has to read begins with the one HELLO until it is ready.
HelloInOrder(l) ==
  LET c == l[1]
      s == Server(l) IN
  /\ ~Carries(inbox[l][c], "HELLO")
  /\ OnlyFirst(inbox[l][s], "HELLO")
  /\ phase[l][s] = "none" => inbox[l][s] = <<>>
  /\ phase[l][s] = "shaking" => Begins(inbox[l][s], {"HELLO"})
  /\ phase[l][s] = "ready" => ~Carries(inbox[l][s], "HELLO") /\ phase[l][c] # "none"
  /\ (alive[l] /\ phase[l][s] = "shaking" /\ phase[l][c] = "shaking")
       => inbox[l][s] # <<>>

\* What the client has to read begins with the one WELCOME, or with the CLOSE
\* sent in its place, until it is ready; then the server has been ready.
WelcomeInOrder(l) ==
  LET c == l[1]
      s == Server(l) IN
  /\ ~Carries(inbox[l][s], "WELCOME")
  /\ OnlyFirst(inbox[l][c], "WELCOME")
  /\ phase[l][c] \in {"none", "shaking"} => Begins(inbox[l][c], {"WELCOME", "CLOSE"})
  /\ phase[l][c] = "ready"
       => ~Carries(inbox[l][c], "WELCOME") /\ phase[l][s] \in {"ready", "gone"}
  /\ Carries(inbox[l][c], "WELCOME") => phase[l][s] \in {"ready", "gone"}
  /\ phase[l][s] = "shaking" /\ ~closed[l][s] => inbox[l][c] = <<>>
  /\ (alive[l] /\ phase[l][c] = "shaking" /\ phase[l][s] = "ready" /\ ~closed[l][s])
       => inbox[l][c] # <<>>

\* An end of a living link that has closed is known to have, or will be.
CloseInOrder(l) ==
  /\ alive[l] /\ phase[l][Server(l)] = "none" => phase[l][l[1]] = "none"
  /\ alive[l] /\ phase[l][l[1]] = "none" => phase[l][Server(l)] # "gone"
  /\ \A d \in Daemons :
       /\ Carries(inbox[l][d], "CLOSE") => closed[l][Peer(d)]
       /\ alive[l] /\ phase[l][d] = "gone" => closed[l][Peer(d)]
       /\ (alive[l] /\ Present(l, d) /\ closed[l][d] /\ phase[l][Peer(d)] # "gone")
            => Carries(inbox[l][Peer(d)], "CLOSE")

LinkInOrder(l) ==
  WiresClear(l) /\ HelloInOrder(l) /\ WelcomeInOrder(l) /\ CloseInOrder(l)

\* A request that is pending waits, at one daemon; one not made has no outcome.
RequestsMatch ==
  /\ pending["a"] \cap pending["b"] = {}
  /\ \A d \in Daemons : \A i \in pending[d] : outcome[i] = "waiting"
  /\ \A i \in Asks : i > asked => outcome[i] = "none"

\* The loops, the frames on each link and the pending requests always match
\* the phases of the two ends and what they have closed: what the handlers of
\* connection.ts and index.ts rely on without looking at the other end.
LinkInvariant ==
  /\ \A d \in Daemons : LoopMatches(d)
  /\ \A l \in Links : LinkInOrder(l)
  /\ TabledIsOpen
  /\ RequestsMatch

============================================================================
