------------------------------- MODULE Inbox -------------------------------
(***************************************************************************)
(* The events of one call at one daemon, and the sessions that take them:  *)
(* CallInbox (peerd/src/call_inbox.ts), the requests of sessions on the    *)
(* control socket (handleClient of control.ts) and their client's side of  *)
(* it (peer-mcp/src/peerd_client.ts).                                      *)
(*                                                                         *)
(* Sessions of the same machine all take from one queue.  A session may    *)
(* have several requests under way; it may give one up, or be gone, while  *)
(* the daemon still works on it.  The time a request takes to reach the    *)
(* daemon is that before the session makes it.                             *)
(*                                                                         *)
(* The module is a component: Sessions composes it with the call.          *)
(***************************************************************************)
EXTENDS Naturals, Sequences, FiniteSets, SequencesExt

CONSTANTS
  Sessions,
  MaxAsks      \* bound: the requests of all sessions

Asks == 1..MaxAsks

ASSUME InboxAssumption == MaxAsks \in Nat

VARIABLES
  present,  \* the session's end of its control socket is open
  asks,     \* the requests made, in order: who asks, and what for
  status,   \* what the client's promise of each has become
  answer,   \* what the daemon has resolved each with
  socket,   \* the lines on their way to each session
  events,   \* the events that have been emitted for the call
  queue,    \* CallInbox.queues of the call: numbers of events
  waiters   \* CallInbox.waiters of the call: requests

inbox == <<present, asks, status, answer, socket, events, queue, waiters>>

\* ref is that of file_ref_shared and of a fetch, 0 elsewhere.
EventKinds == {"file_ref_shared", "paused", "resumed", "ended"}

None == <<>>
Timeout == <<"timeout">>
Error == <<"error">>
Event(n) == <<"event", n>>

InboxInit ==
  /\ asks = <<>>
  /\ status = <<>>
  /\ answer = <<>>
  /\ socket = [s \in Sessions |-> <<>>]
  /\ events = <<>>
  /\ queue = <<>>
  /\ waiters = <<>>

---------------------------------------------------------------------------
\* A reply to request i; the states that list_calls has read, for i = 0.
Line(i, state) == [ask |-> i, state |-> state]

\* writeLine: nothing is written to a session that is gone.
Written(s, line) ==
  [socket EXCEPT ![s] = IF present[s] THEN Append(@, line) ELSE @]

\* The daemon settles request i with a; a promise is settled once.
Settle(i, a) ==
  /\ answer' = [answer EXCEPT ![i] = IF @ = None THEN a ELSE @]
  /\ socket' = Written(asks[i].by, Line(i, ""))

\* Session s makes a request for which the daemon has answer a at once, or
\* None yet.
Request(s, kind, ref, a) ==
  /\ present[s]
  /\ Len(asks) < MaxAsks
  /\ asks' = Append(asks, [by |-> s, kind |-> kind, ref |-> ref])
  /\ status' = Append(status, "waiting")
  /\ answer' = Append(answer, a)
  /\ socket' = IF a = None THEN socket ELSE Written(s, Line(Len(asks) + 1, ""))

\* Mistake: the newest event is taken first.
TakenLast == <<Last(queue), Front(queue)>>

\* q.shift(): the event that recv takes, and what it leaves.
Taken == <<Head(queue), Tail(queue)>>

\* recv: the first queued event, or the end of the line.
Recv(s) ==
  /\ IF queue # <<>>
     THEN /\ Request(s, "recv", 0, Event(Taken[1]))
          /\ queue' = Taken[2]
          /\ UNCHANGED waiters
     ELSE /\ Request(s, "recv", 0, None)
          /\ waiters' = Append(waiters, Len(asks) + 1)
          /\ UNCHANGED queue
  /\ UNCHANGED <<present, events>>

\* Mistake: the waiter stays in line.
WithoutKept(k) == waiters

\* list.splice(idx, 1).
Without(k) == RemoveAt(waiters, k)

\* The timer of a waiter fires once: the waiter leaves the line, wherever in it
\* it is.
RecvTimeout(i) ==
  /\ answer[i] = None
  /\ \E k \in DOMAIN waiters : waiters[k] = i /\ waiters' = Without(k)
  /\ Settle(i, Timeout)
  /\ UNCHANGED <<present, asks, status, events, queue>>

\* push: the first waiter gets the event, or the queue.
Push(kind, ref) ==
  LET n == Len(events) + 1 IN
  /\ events' = Append(events, [kind |-> kind, ref |-> ref])
  /\ IF waiters # <<>>
     THEN /\ waiters' = Tail(waiters)
          /\ Settle(Head(waiters), Event(n))
          /\ UNCHANGED queue
     ELSE /\ queue' = Append(queue, n)
          /\ UNCHANGED <<waiters, answer, socket>>
  /\ UNCHANGED <<present, asks, status>>

---------------------------------------------------------------------------
\* handleLine: the promise of a request that still waits is settled, a reply
\* that comes after its client's timer is dropped.
ReadReply(s) ==
  /\ present[s]
  /\ socket[s] # <<>>
  /\ Head(socket[s]).ask # 0
  /\ socket' = [socket EXCEPT ![s] = Tail(@)]
  /\ status' = [status EXCEPT ![Head(socket[s]).ask] =
                  IF @ = "waiting" THEN "answered" ELSE @]
  /\ UNCHANGED <<present, asks, answer, events, queue, waiters>>

\* The timer of PeerdClient.call, later than that of the daemon; the daemon is
\* not told.
ClientTimeout(i) ==
  /\ status[i] = "waiting"
  /\ present[asks[i].by]
  /\ status' = [status EXCEPT ![i] = "failed"]
  /\ UNCHANGED <<present, asks, answer, socket, events, queue, waiters>>

\* A session ends; the daemon forgets its subscription, and nothing else.
Exit(s) ==
  /\ present[s]
  /\ present' = [present EXCEPT ![s] = FALSE]
  /\ socket' = [socket EXCEPT ![s] = <<>>]
  /\ status' = [i \in DOMAIN status |->
                  IF asks[i].by = s /\ status[i] = "waiting" THEN "failed"
                  ELSE status[i]]
  /\ UNCHANGED <<asks, answer, events, queue, waiters>>
============================================================================
