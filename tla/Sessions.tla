------------------------------ MODULE Sessions ------------------------------
(***************************************************************************)
(* A connected call as the sessions of one daemon, `near`, live it: files  *)
(* that the other side, `far`, shares by reference and that they fetch     *)
(* (call_manager.ts), the events that they receive (Inbox), and the        *)
(* channel events that their bridges make of the calls' states (peer-mcp/  *)
(* src/index.ts).                                                          *)
(*                                                                         *)
(* Either side pauses, resumes and ends; both run the code that Call       *)
(* models, and as there a handler that waits for the disk is a task.  The  *)
(* floor is left out, any share may come; so are messages that are not     *)
(* shares, whose events take the same way.                                 *)
(***************************************************************************)
EXTENDS Inbox

CONSTANTS
  Workloads,  \* what the clients of both sides may do in one behaviour
  MaxShares   \* bound: files shared by reference, in any workload

Daemons == {"near", "far"}

Peer(d) == IF d = "near" THEN "far" ELSE "near"

Refs == 1..MaxShares

\* A workload is which sessions there are, what they do, and bounds: how many
\* requests they make, how many files far shares, how often the two sides
\* pause, resume and end, how many faults there are.
ASSUME SessionsAssumption ==
  /\ Workloads \subseteq [by : SUBSET Sessions, does : {"recv", "fetch", "watch"},
                          asks : 0..MaxAsks, shares : 0..MaxShares,
                          controls : Nat, faults : Nat]
  /\ MaxShares \in Nat

VARIABLES
  state,    \* CallRecord.state
  tasks,    \* the suspended handlers of each daemon
  wire,     \* the frames on their way to each daemon
  up,       \* there is a connection
  refs,     \* far's localRefs of the call
  shares,   \* bound: the refs made so far
  pending,  \* near's pendingFetches
  owned,    \* ownedByThisSession has the call
  seen,     \* lastState of each bridge
  told,     \* the last channel event that each bridge has emitted
  ended,    \* far has begun or received an END
  work,     \* the workload
  controls, \* bound: the controls so far
  faults    \* bound: the faults so far

call   == <<state, tasks, wire, up>>
fetch  == <<refs, shares, pending>>
bridge == <<owned, seen, told>>
bounds == <<work, controls, faults>>

vars == <<inbox, call, fetch, bridge, ended, bounds>>

CallStates == {"CONNECTED", "PAUSED", "CLOSING", "CLOSED"}

Controls == {"PAUSE", "RESUME", "END"}

\* id is the number of a control or of a fetch, by which it is told from
\* another of its kind.
Frames == [type : Controls \cup {"SHARE_FILE_REF", "FETCH", "FETCH_RESPONSE"},
           id : Nat, ref : {0} \cup Refs]

Steps == {"sendPAUSE", "sendRESUME", "sendEND", "applyPAUSE", "applyRESUME",
          "applyEND", "emitPaused", "emitResumed", "clear", "sendShare",
          "emitShare", "sendFetch", "lookUp", "respond"}

\* open: the connection that the handler has in hand is still open.
Tasks == [next : Steps, id : Nat, ref : {0} \cup Refs, open : BOOLEAN]

Content(r) == <<"content", r>>

Answers == {None, Timeout, Error} \cup ({"event"} \X Nat) \cup ({"content"} \X Refs)

Lines == [ask : {0}, state : CallStates] \cup [ask : Asks, state : {""}]

TypeOK ==
  /\ present \in [Sessions -> BOOLEAN]
  /\ asks \in Seq([by : Sessions, kind : {"recv", "fetch"}, ref : {0} \cup Refs])
  /\ status \in Seq({"waiting", "answered", "failed"})
  /\ answer \in Seq(Answers)
  /\ socket \in [Sessions -> Seq(Lines)]
  /\ events \in Seq([kind : EventKinds, ref : {0} \cup Refs])
  /\ queue \in Seq(DOMAIN events)
  /\ waiters \in Seq(Asks)
  /\ state \in [Daemons -> CallStates]
  /\ tasks \in [Daemons -> SUBSET Tasks]
  /\ wire \in [Daemons -> Seq(Frames)]
  /\ up \in BOOLEAN
  /\ refs \subseteq Refs
  /\ shares \in 0..MaxShares
  /\ pending \subseteq Asks
  /\ owned \in [Sessions -> BOOLEAN]
  /\ seen \in [Sessions -> CallStates \cup {"NONE", "RINGING"}]
  /\ told \in [Sessions -> {"nothing", "connected", "resumed", "paused", "ended"}]
  /\ ended \in BOOLEAN
  /\ work \in Workloads
  /\ controls \in 0..work.controls
  /\ faults \in 0..work.faults

Unowned == [s \in Sessions |-> FALSE]

\* The call has just been connected.  One session of near has accepted it, or
\* made it and has not read the answer yet; the bridges have seen it ring, or
\* not at all.
Init ==
  /\ work \in Workloads
  /\ InboxInit
  /\ present = [s \in Sessions |-> s \in work.by]
  /\ state = [d \in Daemons |-> "CONNECTED"]
  /\ tasks = [d \in Daemons |-> {}]
  /\ wire = [d \in Daemons |-> <<>>]
  /\ up = TRUE
  /\ refs = {}
  /\ shares = 0
  /\ pending = {}
  /\ owned \in IF work.does = "watch" THEN {[r \in Sessions |-> r = s] : s \in work.by} \cup {Unowned}
                                      ELSE {Unowned}
  /\ \E st \in IF work.does = "watch" THEN {"NONE", "RINGING"} ELSE {"NONE"} :
       seen = [s \in Sessions |-> st]
  /\ told = [s \in Sessions |-> "nothing"]
  /\ ended = FALSE
  /\ controls = 0
  /\ faults = 0

---------------------------------------------------------------------------
Task(next, id, ref) == [next |-> next, id |-> id, ref |-> ref, open |-> TRUE]

Suspend(d, t) == tasks' = [tasks EXCEPT ![d] = @ \cup {t}]

Finish(d, t) == tasks' = [tasks EXCEPT ![d] = @ \ {t}]

Continue(d, t, next) ==
  tasks' = [tasks EXCEPT ![d] = (@ \ {t}) \cup {[t EXCEPT !.next = next]}]

\* What is on its way from d after f is sent on a connection that is open or not.
Sent(d, f, open) ==
  [wire EXCEPT ![Peer(d)] = IF open THEN Append(@, f) ELSE @]

Frame(type, id, ref) == [type |-> type, id |-> id, ref |-> ref]

Arrives(d, type) == wire[d] # <<>> /\ Head(wire[d]).type = type

Consume(d) == wire' = [wire EXCEPT ![d] = Tail(@)]

Active(d) == state[d] \notin {"CLOSING", "CLOSED"}

---------------------------------------------------------------------------
(* Pausing, resuming and ending.                                           *)

SendStep == [PAUSE |-> "sendPAUSE", RESUME |-> "sendRESUME", END |-> "sendEND"]

ApplyStep == [PAUSE |-> "applyPAUSE", RESUME |-> "applyRESUME", END |-> "applyEND"]

\* pause, resumeCall and end up to their (first) await.
Control(d, type) ==
  /\ controls < work.controls
  /\ Active(d)
  /\ controls' = controls + 1
  /\ Suspend(d, Task(SendStep[type], controls + 1, 0))
  /\ IF type = "END"
     THEN /\ state' = [state EXCEPT ![d] = "CLOSING"]
          /\ ended' = (ended \/ d = "far")
     ELSE UNCHANGED <<state, ended>>
  /\ UNCHANGED <<inbox, wire, up, fetch, bridge, work, faults>>

\* Mistake: a state that nobody else knows.
NextStateUnknown == [PAUSE |-> "PAUSED", RESUME |-> "CONNECTED", END |-> "ENDED"]

NextState == [PAUSE |-> "PAUSED", RESUME |-> "CONNECTED", END |-> "CLOSED"]

\* The rest of pause and resumeCall; without a connection they throw.
SendControl(d, t) ==
  /\ \E type \in {"PAUSE", "RESUME"} :
       /\ t.next = SendStep[type]
       /\ wire' = Sent(d, Frame(type, t.id, 0), up)
       /\ state' = IF up THEN [state EXCEPT ![d] = NextState[type]] ELSE state
  /\ Finish(d, t)
  /\ UNCHANGED <<inbox, up, fetch, bridge, ended, bounds>>

\* end sends, if it can, and closes the call.
SendEnd(d, t) ==
  /\ t.next = "sendEND"
  /\ wire' = Sent(d, Frame("END", t.id, 0), up)
  /\ state' = [state EXCEPT ![d] = "CLOSED"]
  /\ Continue(d, t, "clear")
  /\ UNCHANGED <<inbox, up, fetch, bridge, ended, bounds>>

\* handleIncomingPause, handleIncomingResume and handleIncomingEnd.
ReceiveControl(d) ==
  /\ \E type \in Controls :
       /\ Arrives(d, type)
       /\ Suspend(d, Task(ApplyStep[type], Head(wire[d]).id, 0))
  /\ Consume(d)
  /\ UNCHANGED <<inbox, state, up, fetch, bridge, ended, bounds>>

AfterApply == [PAUSE |-> "emitPaused", RESUME |-> "emitResumed", END |-> "clear"]

\* They set the state, whatever it has become.
ApplyControl(d, t) ==
  /\ \E type \in Controls :
       /\ t.next = ApplyStep[type]
       /\ state' = [state EXCEPT ![d] = NextState[type]]
       /\ ended' = (ended \/ (d = "far" /\ type = "END"))
       /\ Continue(d, t, AfterApply[type])
  /\ UNCHANGED <<inbox, wire, up, fetch, bridge, bounds>>

\* An event is emitted at d: near's inbox takes it.
Emit(d, kind, ref) == IF d = "near" THEN Push(kind, ref) ELSE UNCHANGED inbox

EmitControl(d, t) ==
  /\ \/ t.next = "emitPaused" /\ Emit(d, "paused", 0)
     \/ t.next = "emitResumed" /\ Emit(d, "resumed", 0)
  /\ Finish(d, t)
  /\ UNCHANGED <<state, wire, up, fetch, bridge, ended, bounds>>

\* Mistake: the refs are forgotten.
ClearedNot(d) == refs

\* clearRefsForCall; near has shared none.
Cleared(d) == IF d = "far" THEN {} ELSE refs

\* The rest of end and handleIncomingEnd.
Clear(d, t) ==
  /\ t.next = "clear"
  /\ refs' = Cleared(d)
  /\ Emit(d, "ended", 0)
  /\ Finish(d, t)
  /\ UNCHANGED <<state, wire, up, shares, pending, bridge, ended, bounds>>

---------------------------------------------------------------------------
(* Sharing a file by reference, and fetching it.                           *)

\* shareFileRef at far: the ref is kept before anything is written.
ShareFileRef ==
  /\ shares < work.shares
  /\ state["far"] = "CONNECTED"
  /\ shares' = shares + 1
  /\ refs' = refs \cup {shares + 1}
  /\ Suspend("far", Task("sendShare", 0, shares + 1))
  /\ UNCHANGED <<inbox, state, wire, up, pending, bridge, ended, bounds>>

\* Without a connection it throws, and the ref is kept.
SendShare(t) ==
  /\ t.next = "sendShare"
  /\ wire' = Sent("far", Frame("SHARE_FILE_REF", 0, t.ref), up)
  /\ Finish("far", t)
  /\ UNCHANGED <<inbox, state, up, fetch, bridge, ended, bounds>>

\* handleIncomingShareFileRef; far ignores the ERROR for a share that comes to
\* a call which is not connected.
ReceiveShare ==
  /\ Arrives("near", "SHARE_FILE_REF")
  /\ IF state["near"] = "CONNECTED"
     THEN Suspend("near", Task("emitShare", 0, Head(wire["near"]).ref))
     ELSE UNCHANGED tasks
  /\ Consume("near")
  /\ UNCHANGED <<inbox, state, up, fetch, bridge, ended, bounds>>

EmitShare(t) ==
  /\ t.next = "emitShare"
  /\ Push("file_ref_shared", t.ref)
  /\ Finish("near", t)
  /\ UNCHANGED <<state, wire, up, fetch, bridge, ended, bounds>>

\* fetchRef, of a ref that an event has named, up to the await.
FetchRef(s, r) ==
  /\ work.does = "fetch"
  /\ Len(asks) < work.asks
  /\ \E n \in DOMAIN events : events[n].ref = r
  /\ IF Active("near") /\ up
     THEN /\ Request(s, "fetch", r, None)
          /\ Suspend("near", Task("sendFetch", Len(asks) + 1, r))
     ELSE /\ Request(s, "fetch", r, Error)
          /\ UNCHANGED tasks
  /\ UNCHANGED <<present, events, queue, waiters, state, wire, up, fetch,
                 bridge, ended, bounds>>

SendFetch(t) ==
  /\ t.next = "sendFetch"
  /\ pending' = pending \cup {t.id}
  /\ wire' = Sent("near", Frame("FETCH", t.id, t.ref), t.open)
  /\ Finish("near", t)
  /\ UNCHANGED <<inbox, state, up, refs, shares, bridge, ended, bounds>>

\* handleIncomingFetch, whatever the call's state.
ReceiveFetch ==
  /\ Arrives("far", "FETCH")
  /\ LET f == Head(wire["far"]) IN Suspend("far", Task("lookUp", f.id, f.ref))
  /\ Consume("far")
  /\ UNCHANGED <<inbox, state, up, fetch, bridge, ended, bounds>>

\* Mistake: a ref is good for one fetch.
KeptOnce(r) == refs \ {r}

Kept(r) == refs

\* The content of the ref, if it is there; 0 stands for REF_UNAVAILABLE.
LookUp(t) ==
  /\ t.next = "lookUp"
  /\ LET r == IF t.ref \in refs THEN t.ref ELSE 0
     IN tasks' = [tasks EXCEPT !["far"] =
                    (@ \ {t}) \cup {[t EXCEPT !.next = "respond", !.ref = r]}]
  /\ refs' = Kept(t.ref)
  /\ UNCHANGED <<inbox, state, wire, up, shares, pending, bridge, ended, bounds>>

\* On the connection that the question came by.
Respond(t) ==
  /\ t.next = "respond"
  /\ wire' = Sent("far", Frame("FETCH_RESPONSE", t.id, t.ref), t.open)
  /\ Finish("far", t)
  /\ UNCHANGED <<inbox, state, up, fetch, bridge, ended, bounds>>

\* Mistake: the first fetch that waits is settled.
SettledOldest(f) == {CHOOSE i \in pending : \A j \in pending : i <= j}

SettledBy(f) == {f.id}

\* handleIncomingFetchResponse: an answer that nobody waits for is dropped.
ReceiveResponse ==
  /\ Arrives("near", "FETCH_RESPONSE")
  /\ LET f == Head(wire["near"]) IN
     IF f.id \in pending
     THEN \E i \in SettledBy(f) :
            /\ pending' = pending \ {i}
            /\ Settle(i, IF f.ref = 0 THEN Error ELSE Content(f.ref))
     ELSE UNCHANGED <<pending, answer, socket>>
  /\ Consume("near")
  /\ UNCHANGED <<present, asks, status, events, queue, waiters, state, tasks,
                 up, refs, shares, bridge, ended, bounds>>

\* Mistake: the timer is forgotten.
FetchTimeoutNever(i) == FALSE /\ UNCHANGED vars

FetchTimeout(i) ==
  /\ i \in pending
  /\ pending' = pending \ {i}
  /\ Settle(i, Timeout)
  /\ UNCHANGED <<present, asks, status, events, queue, waiters, call, refs,
                 shares, bridge, ended, bounds>>

---------------------------------------------------------------------------
(* The channel bridge of a session.                                        *)

\* The reply to the session's invite reaches peer_invite, which claims the call.
Claim(s) ==
  /\ work.does = "watch"
  /\ present[s]
  /\ \A r \in Sessions : ~owned[r]
  /\ owned' = [owned EXCEPT ![s] = TRUE]
  /\ UNCHANGED <<inbox, call, fetch, seen, told, ended, bounds>>

\* list_calls, once a second: the previous reply has been read.
Poll(s) ==
  /\ work.does = "watch"
  /\ present[s]
  /\ \A n \in DOMAIN socket[s] : socket[s][n].ask # 0
  /\ state["near"] # seen[s]
  /\ socket' = Written(s, Line(0, state["near"]))
  /\ UNCHANGED <<present, asks, status, answer, events, queue, waiters, call,
                 fetch, bridge, ended, bounds>>

\* Mistake: only a call that was connected is reported to have ended.
NoticeConnectedOnly(prev, cur) ==
  IF prev # "CONNECTED" /\ cur = "CONNECTED"
    THEN {IF prev = "PAUSED" THEN "resumed" ELSE "connected"}
  ELSE IF prev = "CONNECTED" /\ cur = "PAUSED" THEN {"paused"}
  ELSE IF prev = "CONNECTED" /\ cur = "CLOSED" THEN {"ended"}
  ELSE {}

\* The channel event, if any, for a call that was `prev` at the last poll.
Notice(prev, cur) ==
  IF prev # "CONNECTED" /\ cur = "CONNECTED"
    THEN {IF prev = "PAUSED" THEN "resumed" ELSE "connected"}
  ELSE IF prev = "CONNECTED" /\ cur = "PAUSED" THEN {"paused"}
  ELSE IF prev \notin {"NONE", "CLOSED"} /\ cur = "CLOSED" THEN {"ended"}
  ELSE {}

\* The reply: the state is remembered, and told if the session owns the call.
ReadPoll(s) ==
  /\ present[s]
  /\ socket[s] # <<>>
  /\ Head(socket[s]).ask = 0
  /\ LET cur == Head(socket[s]).state IN
     /\ seen' = [seen EXCEPT ![s] = cur]
     /\ IF owned[s] /\ Notice(seen[s], cur) # {}
        THEN \E n \in Notice(seen[s], cur) : told' = [told EXCEPT ![s] = n]
        ELSE UNCHANGED told
  /\ socket' = [socket EXCEPT ![s] = Tail(@)]
  /\ UNCHANGED <<present, asks, status, answer, events, queue, waiters, call,
                 fetch, owned, ended, bounds>>

---------------------------------------------------------------------------
(* Faults.                                                                 *)

Fault ==
  /\ faults < work.faults
  /\ faults' = faults + 1

\* The connection breaks, with what is on it, under the handlers that hold it.
Break ==
  /\ Fault
  /\ up
  /\ up' = FALSE
  /\ wire' = [d \in Daemons |-> <<>>]
  /\ tasks' = [d \in Daemons |-> {[t EXCEPT !.open = FALSE] : t \in tasks[d]}]
  /\ UNCHANGED <<inbox, state, fetch, bridge, ended, work, controls>>

Reconnect ==
  /\ ~up
  /\ up' = TRUE
  /\ UNCHANGED <<inbox, state, tasks, wire, fetch, bridge, ended, bounds>>

Leave ==
  /\ Fault
  /\ \/ \E s \in Sessions : Exit(s)
     \/ \E i \in DOMAIN asks : ClientTimeout(i)
  /\ UNCHANGED <<call, fetch, bridge, ended, work, controls>>

---------------------------------------------------------------------------
Rest == UNCHANGED <<call, fetch, bridge, ended, bounds>>

\* The sessions of the workload call peer_recv.
Receives == work.does = "recv" /\ Len(asks) < work.asks

\* A suspended handler goes on.
Resume(d, t) ==
  \/ SendControl(d, t)
  \/ SendEnd(d, t)
  \/ ApplyControl(d, t)
  \/ EmitControl(d, t)
  \/ Clear(d, t)
  \/ d = "far" /\ (SendShare(t) \/ LookUp(t) \/ Respond(t))
  \/ d = "near" /\ (EmitShare(t) \/ SendFetch(t))

Handle(d) == \E t \in tasks[d] : Resume(d, t)

Receive ==
  \/ \E d \in Daemons : ReceiveControl(d)
  \/ ReceiveShare
  \/ ReceiveFetch
  \/ ReceiveResponse

Timers ==
  \/ \E i \in DOMAIN asks : RecvTimeout(i) /\ Rest
  \/ \E i \in pending : FetchTimeout(i)

Read(s) == ReadPoll(s) \/ (ReadReply(s) /\ Rest)

Next ==
  \/ \E d \in Daemons, type \in Controls : Control(d, type)
  \/ \E d \in Daemons : Handle(d)
  \/ Receive
  \/ ShareFileRef
  \/ \E s \in Sessions : Receives /\ Recv(s) /\ Rest
  \/ \E s \in Sessions, r \in Refs : FetchRef(s, r)
  \/ Timers
  \/ \E s \in Sessions : Read(s) \/ Claim(s) \/ Poll(s)
  \/ Break
  \/ Reconnect
  \/ Leave

Spec == Init /\ [][Next]_vars

\* Handlers go on, frames and lines are read, timers fire, bridges poll.
\* Requests, faults and the return of a connection are never obliged.
Fairness ==
  /\ \A d \in Daemons : WF_vars(Handle(d))
  /\ WF_vars(Receive)
  /\ WF_vars(Timers)
  /\ \A s \in Sessions : WF_vars(Read(s)) /\ WF_vars(Poll(s))

FairSpec == Spec /\ Fairness

---------------------------------------------------------------------------
(* Properties.                                                             *)

\* The events that requests have been answered with.
Given == {i \in DOMAIN answer : answer[i] # None /\ answer[i][1] = "event"}

\* Every event that the call has emitted is either still queued, in order, or
\* has been given to exactly one request, whatever timers, other sessions and
\* exits come between: none is lost in the daemon, none is given twice, and
\* none is kept back while a request waits (push, recv and its timer).
EachEventOnce ==
  /\ {answer[i][2] : i \in Given} \cup ToSet(queue) = DOMAIN events
  /\ Cardinality(Given) + Len(queue) = Len(events)
  /\ \A n \in 1..(Len(queue) - 1) : queue[n] < queue[n + 1]
  /\ queue # <<>> => waiters = <<>>

\* The events that session s has read.
HasRead(s) == {answer[i][2] : i \in {j \in Given : asks[j].by = s /\ status[j] = "answered"}}

\* A session reads events in the order in which they were emitted, whichever
\* of its requests brings them.
ReadInOrder ==
  [][\A s \in Sessions : \A n \in HasRead(s)' \ HasRead(s), m \in HasRead(s) : m < n]_vars

\* A fetch brings the content of the ref that it asks for, though answers come
\* out of order and after timeouts (request_id of handleIncomingFetchResponse).
FetchMatches ==
  \A i \in DOMAIN answer :
    \A r \in Refs : answer[i] = Content(r) => asks[i].kind = "fetch" /\ asks[i].ref = r

\* A ref of which near has heard can be fetched for as long as far has not
\* begun to end the call or heard of its end (shareFileRef keeps it before it
\* sends; "or an error with REF_UNAVAILABLE if the ref is unknown or the call
\* has ended", peer-mcp/src/index.ts).
OfferedIsHeld ==
  \A n \in DOMAIN events :
    (events[n].kind = "file_ref_shared" /\ ~ended) => events[n].ref \in refs

\* A closed call keeps no content: once its handlers are done there is no ref,
\* though the call may have been opened again by a late RESUME and shared on
\* meanwhile (clearRefsForCall in end and handleIncomingEnd).
RefsFreed ==
  (state["far"] = "CLOSED" /\ \A t \in tasks["far"] : t.next # "clear") => refs = {}

\* Every request of a session that stays is settled: by an answer, or by a
\* timer when the waiter, the question or the answer is lost.
RequestsSettle ==
  \A i \in Asks :
    (i \in DOMAIN status /\ status[i] = "waiting")
      ~> (i \in DOMAIN status /\ status[i] # "waiting")

Expected == [CONNECTED |-> {"connected", "resumed"}, CLOSED |-> {"ended"}]

\* The bridge of s keeps its agent informed of the call.
Follows(s) ==
  present[s] /\ (told[s] # "nothing" \/ (owned[s] /\ seen[s] = "RINGING"))

\* What an owner was last told is, in the end, what the call is, if that is
\* connected or closed: no change between two polls, no pause in between and no
\* reopening leaves it with an older notice (startChannelBridge).
NoticesCatchUp ==
  \A s \in Sessions, st \in {"CONNECTED", "CLOSED"} :
    (Follows(s) /\ state["near"] = st)
      ~> (~present[s] \/ state["near"] # st \/ told[s] \in Expected[st])
---------------------------------------------------------------------------
(* Why they hold: what is true of the requests, of the line of waiters, of *)
(* the replies on their way, and of what travels between the daemons.      *)

\* Every request has a promise at both ends; near waits for fetches only.
RequestsKnown ==
  /\ Len(status) = Len(asks) /\ Len(answer) = Len(asks) /\ Len(asks) <= MaxAsks
  /\ \A i \in DOMAIN asks : status[i] = "answered" => answer[i] # None
  /\ \A i \in pending : i \in DOMAIN asks /\ asks[i].kind = "fetch"

\* Who stands in line stands there once, and has no answer yet.
InLine ==
  /\ \A j, k \in DOMAIN waiters : waiters[j] = waiters[k] => j = k
  /\ \A k \in DOMAIN waiters :
       /\ waiters[k] \in DOMAIN asks
       /\ answer[waiters[k]] = None
       /\ asks[waiters[k]].kind = "recv"

\* The events that have been taken.
Gone == Len(events) - Len(queue)

\* The events are taken in order: the queue is what remains of them.
TakenInOrder ==
  /\ Len(queue) <= Len(events)
  /\ \A k \in DOMAIN queue : queue[k] = Gone + k
  /\ \A i \in Given : asks[i].kind = "recv" /\ answer[i][2] \in 1..Gone

\* The replies to s are to its own requests that have an answer, and bring
\* events in order, later ones than it has read.
RepliesInOrder(s) ==
  /\ \A k \in DOMAIN socket[s] :
       socket[s][k].ask # 0 =>
         /\ socket[s][k].ask \in DOMAIN asks
         /\ asks[socket[s][k].ask].by = s
         /\ answer[socket[s][k].ask] # None
  /\ \A j, k \in DOMAIN socket[s] :
       (j < k /\ socket[s][j].ask \in Given /\ socket[s][k].ask \in Given)
         => answer[socket[s][j].ask][2] <= answer[socket[s][k].ask][2]
  /\ \A k \in DOMAIN socket[s] : \A i \in Given :
       (socket[s][k].ask \in Given /\ asks[i].by = s /\ status[i] = "answered")
         => answer[i][2] <= answer[socket[s][k].ask][2]

\* m, a task or a frame, speaks of a fetch and of the ref that it asks for.
IsFetchOf(m) ==
  m.id \in DOMAIN asks /\ asks[m.id].kind = "fetch" /\ asks[m.id].ref = m.ref

\* Likewise, or it has found nothing.
IsAnswerTo(m) ==
  m.id \in DOMAIN asks /\ asks[m.id].kind = "fetch" /\ m.ref \in {0, asks[m.id].ref}

FetchesMatch ==
  /\ \A d \in Daemons : \A t \in tasks[d] :
       /\ t.next \in {"sendFetch", "lookUp"} => IsFetchOf(t)
       /\ t.next = "respond" => IsAnswerTo(t)
  /\ \A d \in Daemons : \A k \in DOMAIN wire[d] :
       /\ wire[d][k].type = "FETCH" => IsFetchOf(wire[d][k])
       /\ wire[d][k].type = "FETCH_RESPONSE" => IsAnswerTo(wire[d][k])

\* What far is about to offer, or has offered, it has; only an end frees it.
OffersHeld ==
  /\ \A d \in Daemons : \A t \in tasks[d] :
       (t.next \in {"sendShare", "emitShare"} /\ ~ended) => t.ref \in refs
  /\ \A d \in Daemons : \A k \in DOMAIN wire[d] :
       (wire[d][k].type = "SHARE_FILE_REF" /\ ~ended) => wire[d][k].ref \in refs
  /\ \A t \in tasks["far"] : t.next \in {"sendEND", "clear"} => ended

\* The requests, the line, the replies and the frames always match each other:
\* what CallInbox, the control socket and the fetches rely on, whoever leaves,
\* gives up or answers late.
SessionsInvariant ==
  /\ RequestsKnown
  /\ InLine
  /\ TakenInOrder
  /\ \A s \in Sessions : RepliesInOrder(s)
  /\ FetchesMatch
  /\ OffersHeld

============================================================================
