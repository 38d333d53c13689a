------------------------------- MODULE Popups -------------------------------
(***************************************************************************)
(* Incoming calls and the sessions of one machine: the control server of   *)
(* peerd (peerd/src/control.ts) and the Claude Code sessions, each with a  *)
(* peer-mcp process of its own (peer-mcp/src/index.ts).                    *)
(*                                                                         *)
(* A session subscribes, and makes itself available or not.  An invite is  *)
(* kept in pendingInvites and dispatched to available sessions; the newest *)
(* pops it up, the others are told silently.  A user accepts or denies in  *)
(* some session.  What the server writes to a session is read in order but *)
(* later; a session handles what is about one call independently of what   *)
(* is about another, so notes[s][c] keeps the order per call.  A request   *)
(* of a session reaches the server later, too, and a session that exits is *)
(* noticed later still.                                                    *)
(***************************************************************************)
EXTENDS Naturals, Sequences

CONSTANTS
  Sessions,    \* the peer-mcp processes that may run, each at most once
  Calls,       \* the call_ids of invites that may arrive
  Anyone,      \* stands for an invite without target_subscriber_id
  MaxToggles   \* bound: requests to become available or unavailable

ASSUME PopupsAssumption ==
  /\ Anyone \notin Sessions
  /\ MaxToggles \in Nat

VARIABLES
  state,      \* CallRecord.state at this daemon
  target,     \* the invite's target_subscriber_id
  tasks,      \* the suspended handlers of CallManager
  pending,    \* ControlServer.pendingInvites
  since,      \* the order of `subscribers`; 0: not in it
  joined,     \* how many have subscribed
  available,  \* SubscriberInfo.available
  notes,      \* what the server has written for s about c, not yet read
  process,    \* the peer-mcp process of s
  seen,       \* invitedSeen
  popup,      \* the invites that s has told its agent of, and not taken back
  early,      \* resolvedBeforeEmit
  handled,    \* handledLocally
  request,    \* the request of s that the server has not read yet
  answered,   \* bound: the calls that the user of s has answered, once each
  toggles,    \* bound: the requests for availability so far
  arrived,    \* bound: the calls whose INVITE has come, once each
  ended       \* bound: the calls whose END has come, once each

server  == <<pending, since, joined, available>>
session == <<process, seen, popup, early, handled>>
bounds  == <<answered, toggles, arrived, ended>>

vars == <<state, target, tasks, pending, since, joined, available, notes, process,
          seen, popup, early, handled, request, answered, toggles, arrived, ended>>

CallStates == {"NONE", "RINGING", "CONNECTED", "CLOSED"}

Steps == {"ring", "emitInvite", "emitConnected", "emitEnded"}

\* "invite" is an invite notification, "silent" one with silent: true,
\* "resolved" an invite_resolved.
Notes == {"invite", "silent", "resolved"}

NoRequest == [method |-> "none"]

Requests ==
  [method : {"set_session_metadata"}, available : BOOLEAN]
    \cup [method : {"accept_invite", "deny_invite"}, call : Calls]

TypeOK ==
  /\ state \in [Calls -> CallStates]
  /\ target \in [Calls -> Sessions \cup {Anyone}]
  /\ tasks \subseteq [call : Calls, next : Steps]
  /\ pending \subseteq Calls
  /\ since \in [Sessions -> Nat]
  /\ joined \in Nat
  /\ available \in [Sessions -> BOOLEAN]
  /\ notes \in [Sessions -> [Calls -> Seq(Notes)]]
  /\ process \in [Sessions -> {"none", "running", "exited"}]
  /\ seen \in [Sessions -> SUBSET Calls]
  /\ popup \in [Sessions -> SUBSET Calls]
  /\ early \in [Sessions -> SUBSET Calls]
  /\ handled \in [Sessions -> SUBSET Calls]
  /\ request \in [Sessions -> Requests \cup {NoRequest}]
  /\ answered \in [Sessions -> SUBSET Calls]
  /\ toggles \in Nat
  /\ arrived \subseteq Calls
  /\ ended \subseteq Calls

Init ==
  /\ state = [c \in Calls |-> "NONE"]
  /\ target \in [Calls -> Sessions \cup {Anyone}]
  /\ tasks = {}
  /\ pending = {}
  /\ since = [s \in Sessions |-> 0]
  /\ joined = 0
  /\ available = [s \in Sessions |-> FALSE]
  /\ notes = [s \in Sessions |-> [c \in Calls |-> <<>>]]
  /\ process = [s \in Sessions |-> "none"]
  /\ seen = [s \in Sessions |-> {}]
  /\ popup = [s \in Sessions |-> {}]
  /\ early = [s \in Sessions |-> {}]
  /\ handled = [s \in Sessions |-> {}]
  /\ request = [s \in Sessions |-> NoRequest]
  /\ answered = [s \in Sessions |-> {}]
  /\ toggles = 0
  /\ arrived = {}
  /\ ended = {}

---------------------------------------------------------------------------
(* Dispatching.                                                            *)
(*                                                                         *)
(* A variant of an operator whose comment begins with "Mistake" has a bug  *)
(* in it; PROJECT.json puts it in the operator's place to see that a       *)
(* property notices.                                                       *)

Subscribers == {s \in Sessions : since[s] # 0}

\* listAvailableSessions
AvailableSessions == {s \in Subscribers : available[s]}

\* Mistake: an index past the last one.
IsNewestNever(s, subs) == \A u \in subs : since[u] < since[s]

\* s is the last of subs in the order of the Map `subscribers`.
IsNewest(s, subs) == \A u \in subs : since[u] <= since[s]

\* The notes when the invites cs are given to subs: its newest pops them up.
WithInvites(cs, subs) ==
  [s \in Sessions |-> [c \in Calls |->
     IF c \in cs /\ s \in subs
     THEN Append(notes[s][c], IF IsNewest(s, subs) THEN "invite" ELSE "silent")
     ELSE notes[s][c]]]

\* Mistake: only the sessions that take calls hear that one is resolved.
HearsResolutionIfAvailable(s) == s \in AvailableSessions

HearsResolution(s) == s \in Subscribers

\* broadcastInviteResolved
WithResolution(c) ==
  [s \in Sessions |->
     IF HearsResolution(s) THEN [notes[s] EXCEPT ![c] = Append(@, "resolved")] ELSE notes[s]]

\* dispatchInviteToSubscribers: a target is the only one to hear of its invite,
\* and does not if it has become unavailable.
Audience(c) ==
  IF target[c] = Anyone THEN AvailableSessions ELSE AvailableSessions \cap {target[c]}

---------------------------------------------------------------------------
(* The call manager: an incoming call, as far as the sessions notice it.   *)

Suspended(c, next) == [call |-> c, next |-> next]

\* handleIncomingInvite, the opt-in gate: without a session to take it the
\* call is refused and leaves no trace.
ReceiveInvite(c) ==
  /\ c \notin arrived
  /\ arrived' = arrived \cup {c}
  /\ tasks' = IF Audience(c) # {} THEN tasks \cup {Suspended(c, "ring")} ELSE tasks
  /\ UNCHANGED <<state, target, server, notes, session, request, answered, toggles, ended>>

\* The record is stored; the transcript and meta.json are awaited.
Ring(c) ==
  /\ Suspended(c, "ring") \in tasks
  /\ state' = [state EXCEPT ![c] = "RINGING"]
  /\ tasks' = (tasks \ {Suspended(c, "ring")}) \cup {Suspended(c, "emitInvite")}
  /\ UNCHANGED <<target, server, notes, session, request, bounds>>

\* The invite event, whatever has become of the call, and its listener in the
\* control server.
EmitInvite(c) ==
  /\ Suspended(c, "emitInvite") \in tasks
  /\ tasks' = tasks \ {Suspended(c, "emitInvite")}
  /\ pending' = pending \cup {c}
  /\ notes' = WithInvites({c}, Audience(c))
  /\ UNCHANGED <<state, target, since, joined, available, session, request, bounds>>

\* The connected and ended events, and their listeners.
EmitResolution(c) ==
  /\ \E next \in {"emitConnected", "emitEnded"} :
       /\ Suspended(c, next) \in tasks
       /\ tasks' = tasks \ {Suspended(c, next)}
  /\ pending' = pending \ {c}
  /\ notes' = IF c \in pending THEN WithResolution(c) ELSE notes
  /\ UNCHANGED <<state, target, since, joined, available, session, request, bounds>>

\* An END of the peer, its timeout included, or of a client; one that comes
\* before the record is stored is dropped.
End(c) ==
  /\ c \in arrived \ ended
  /\ ended' = ended \cup {c}
  /\ IF state[c] = "NONE"
     THEN UNCHANGED <<state, tasks>>
     ELSE /\ state' = [state EXCEPT ![c] = "CLOSED"]
          /\ tasks' = tasks \cup {Suspended(c, "emitEnded")}
  /\ UNCHANGED <<target, server, notes, session, request, answered, toggles, arrived>>

---------------------------------------------------------------------------
(* The control server: what it reads from its sockets.                     *)

Read(s, method) ==
  /\ request[s].method = method
  /\ request' = [request EXCEPT ![s] = NoRequest]

\* Mistake: what was pending before is not shown.
ReplayedNever(s) == {}

\* The invites given to a session that has just become available.
Replayed(s) == pending

SetSessionMetadata(s) ==
  /\ Read(s, "set_session_metadata")
  /\ available' = [available EXCEPT ![s] = request[s].available]
  /\ notes' = IF ~available[s] /\ request[s].available
              THEN WithInvites(Replayed(s), {s})
              ELSE notes
  /\ UNCHANGED <<state, target, tasks, pending, since, joined, session, bounds>>

\* acceptInvite throws on a call that does not ring, and one without a
\* connection to the peer throws with the call CONNECTED and no event.
AcceptInvite(s) ==
  /\ Read(s, "accept_invite")
  /\ LET c == request[s].call
     IN IF state[c] = "RINGING"
        THEN /\ state' = [state EXCEPT ![c] = "CONNECTED"]
             /\ tasks' \in {tasks \cup {Suspended(c, "emitConnected")}, tasks}
        ELSE UNCHANGED <<state, tasks>>
  /\ UNCHANGED <<target, server, notes, session, bounds>>

\* Mistake: a state that nothing else knows.
StateOnDenyMisspelt == "DENIED"

StateOnDeny == "CLOSED"

\* denyInvite tells the peer; it emits no event here.
DenyInvite(s) ==
  /\ Read(s, "deny_invite")
  /\ LET c == request[s].call
     IN state' = IF state[c] = "RINGING" THEN [state EXCEPT ![c] = StateOnDeny] ELSE state
  /\ UNCHANGED <<target, tasks, server, notes, session, bounds>>

\* The socket of s has closed: what is pending goes to the others, a targeted
\* invite too.
NoticeExit(s) ==
  /\ process[s] = "exited"
  /\ since[s] # 0
  /\ request[s] = NoRequest
  /\ since' = [since EXCEPT ![s] = 0]
  /\ available' = [available EXCEPT ![s] = FALSE]
  /\ notes' = [WithInvites(pending, AvailableSessions \ {s})
                 EXCEPT ![s] = [c \in Calls |-> <<>>]]
  /\ UNCHANGED <<state, target, tasks, pending, joined, session, request, bounds>>

---------------------------------------------------------------------------
(* The sessions.                                                           *)

\* subscribe_inbox
Subscribe(s) ==
  /\ process[s] = "none"
  /\ process' = [process EXCEPT ![s] = "running"]
  /\ joined' = joined + 1
  /\ since' = [since EXCEPT ![s] = joined + 1]
  /\ UNCHANGED <<state, target, tasks, pending, available, notes, seen, popup, early,
                 handled, request, bounds>>

\* A session makes one request at a time.
Asks(s, r) ==
  /\ process[s] = "running"
  /\ request[s] = NoRequest
  /\ request' = [request EXCEPT ![s] = r]

\* peer_make_available, peer_unmake_available
MakeAvailable(s) ==
  /\ toggles < MaxToggles
  /\ toggles' = toggles + 1
  /\ \E b \in BOOLEAN : Asks(s, [method |-> "set_session_metadata", available |-> b])
  /\ UNCHANGED <<state, target, tasks, server, notes, session, answered, arrived, ended>>

\* peer_accept_invite, peer_deny_invite: the user answers a popup, which stays
\* open until then, or the skills /accept and /deny answer what
\* peer_list_inbox shows.
Answer(s, c) ==
  /\ c \in seen[s] \cup pending
  /\ c \notin answered[s]
  /\ answered' = [answered EXCEPT ![s] = @ \cup {c}]
  /\ popup' = [popup EXCEPT ![s] = @ \ {c}]
  /\ handled' = [handled EXCEPT ![s] = @ \cup {c}]
  /\ \E method \in {"accept_invite", "deny_invite"} :
       Asks(s, [method |-> method, call |-> c])
  /\ UNCHANGED <<state, target, tasks, server, notes, process, seen, early, toggles,
                 arrived, ended>>

\* The bridge reads a notification about c.
Reads(s, c, note) ==
  /\ process[s] = "running"
  /\ notes[s][c] # <<>>
  /\ Head(notes[s][c]) = note
  /\ notes' = [notes EXCEPT ![s][c] = Tail(@)]

ReadInvite(s, c) ==
  /\ Reads(s, c, "invite")
  /\ IF c \in seen[s]
     THEN UNCHANGED <<seen, popup, early>>
     ELSE IF c \in early[s]
     THEN /\ early' = [early EXCEPT ![s] = @ \ {c}]
          /\ UNCHANGED <<seen, popup>>
     ELSE /\ seen' = [seen EXCEPT ![s] = @ \cup {c}]
          /\ popup' = [popup EXCEPT ![s] = @ \cup {c}]
          /\ UNCHANGED early
  /\ UNCHANGED <<state, target, tasks, server, process, handled, request, bounds>>

ReadSilent(s, c) ==
  /\ Reads(s, c, "silent")
  /\ UNCHANGED <<state, target, tasks, server, session, request, bounds>>

\* An answer of one's own is not announced; a popup is cancelled; a resolution
\* that comes before its invite is remembered.
ReadResolution(s, c) ==
  /\ Reads(s, c, "resolved")
  /\ IF c \in handled[s]
     THEN /\ handled' = [handled EXCEPT ![s] = @ \ {c}]
          /\ UNCHANGED <<popup, early>>
     ELSE IF c \in seen[s]
     THEN /\ popup' = [popup EXCEPT ![s] = @ \ {c}]
          /\ UNCHANGED <<handled, early>>
     ELSE /\ early' = [early EXCEPT ![s] = @ \cup {c}]
          /\ UNCHANGED <<handled, popup>>
  /\ UNCHANGED <<state, target, tasks, server, process, seen, request, bounds>>

\* A resolution is remembered for 10 seconds.
Forget(s, c) ==
  /\ process[s] = "running"
  /\ c \in early[s]
  /\ early' = [early EXCEPT ![s] = @ \ {c}]
  /\ UNCHANGED <<state, target, tasks, server, notes, process, seen, popup, handled,
                 request, bounds>>

\* The process ends, with what it remembers; a request that it has written
\* stays on its way.
Exit(s) ==
  /\ process[s] = "running"
  /\ process' = [process EXCEPT ![s] = "exited"]
  /\ seen' = [seen EXCEPT ![s] = {}]
  /\ popup' = [popup EXCEPT ![s] = {}]
  /\ early' = [early EXCEPT ![s] = {}]
  /\ handled' = [handled EXCEPT ![s] = {}]
  /\ UNCHANGED <<state, target, tasks, server, notes, request, bounds>>

---------------------------------------------------------------------------
Handle(c) == Ring(c) \/ EmitInvite(c) \/ EmitResolution(c)

Serve(s) ==
  SetSessionMetadata(s) \/ AcceptInvite(s) \/ DenyInvite(s) \/ NoticeExit(s)

ReadNote(s, c) == ReadInvite(s, c) \/ ReadSilent(s, c) \/ ReadResolution(s, c)

Next ==
  \/ \E c \in Calls : ReceiveInvite(c) \/ End(c) \/ Handle(c)
  \/ \E s \in Sessions : Serve(s) \/ Subscribe(s) \/ MakeAvailable(s) \/ Exit(s)
  \/ \E s \in Sessions, c \in Calls : Answer(s, c) \/ ReadNote(s, c) \/ Forget(s, c)

Spec == Init /\ [][Next]_vars

\* Suspended handlers resume, the server reads its sockets and notices those
\* that close, a session reads what it is sent.  Users need not do anything.
Fairness ==
  /\ \A c \in Calls : WF_vars(Handle(c))
  /\ \A s \in Sessions : WF_vars(Serve(s))
  /\ \A s \in Sessions, c \in Calls : WF_vars(ReadNote(s, c))

FairSpec == Spec /\ Fairness

---------------------------------------------------------------------------
(* What the control server promises.                                       *)

Has(s, c, note) == \E i \in 1..Len(notes[s][c]) : notes[s][c][i] = note

\* s shows c, has answered it, or is about to read it; or has exited, and the
\* server is about to notice.
Offered(s, c) ==
  c \in popup[s] \cup answered[s] \/ Has(s, c, "invite") \/ process[s] = "exited"

\* A pending invite is never lost: whichever sessions come, go and change their
\* availability, once a session that may take it is available some session has
\* been given it to show; the target, if it has one.  (The dispatch on the
\* invite event, the replay of set_session_metadata, and the dispatch when a
\* socket closes are each needed.)
PendingIsOffered ==
  \A c \in pending :
    /\ target[c] = Anyone /\ AvailableSessions # {} => \E s \in Subscribers : Offered(s, c)
    /\ target[c] \in AvailableSessions => Offered(target[c], c)

\* Once an invite that was announced is not pending any more, no session goes
\* on showing it when it has read its notifications, unless its own user
\* answered it.
ResolvedIsRetired ==
  \A c \in Calls, s \in Subscribers :
    /\ state[c] # "NONE"
    /\ Suspended(c, "emitInvite") \notin tasks
    /\ c \notin pending
    /\ notes[s][c] = <<>>
    /\ c \in popup[s]
    => c \in answered[s]

\* While a call rings, a session that runs has been told to show it, or will
\* be, unless no session is left to take it: the death of the session that
\* showed it passes it on.  (inviteCb, onClose, the replay, and the bridge.)
RingingIsShown ==
  \A c \in Calls :
    (state[c] = "RINGING")
      ~> \/ \E s \in Sessions : c \in seen[s]
         \/ state[c] # "RINGING"
         \/ AvailableSessions = {}
         \/ target[c] \notin AvailableSessions \cup {Anyone}

\* A denied call, which is CLOSED without an END, is not pending any more once
\* all that is under way has been handled.  The comment on the listeners of the
\* control server says so of a call that is accepted, denied, ended or timed out.
DenialRetires ==
  (/\ tasks = {}
   /\ \A s \in Sessions : request[s] = NoRequest)
    => \A c \in pending \ ended : state[c] # "CLOSED"
---------------------------------------------------------------------------
(* Why the promises hold.                                                  *)

\* The server and the process of s agree on where s is: s is a subscriber as
\* long as it runs, and after that until the server notices; a session that is
\* not has no availability, no notes and no request under way.
SubscriptionsKnown ==
  \A s \in Sessions :
    /\ process[s] = "running" => since[s] # 0
    /\ process[s] = "none" => since[s] = 0
    /\ process[s] # "running" => popup[s] = {}
    /\ since[s] = 0 => /\ ~available[s] /\ request[s] = NoRequest
                       /\ \A c \in Calls : notes[s][c] = <<>>
    /\ popup[s] \subseteq seen[s] /\ handled[s] \subseteq answered[s]

\* Whichever subscribers hear of an invite, one of them is the newest.
SomeoneIsNewest ==
  /\ \A s \in Sessions : since[s] <= joined
  /\ \A subs \in SUBSET Subscribers : subs # {} => \E s \in subs : IsNewest(s, subs)

\* The invite event of c is still to come.
Unannounced(c) ==
  \/ c \notin arrived
  \/ Suspended(c, "ring") \in tasks
  \/ Suspended(c, "emitInvite") \in tasks

\* An invite is announced once, and nobody has heard of it before.
AnnouncedOnce ==
  \A c \in Calls :
    /\ c \notin arrived => /\ Suspended(c, "ring") \notin tasks
                           /\ Suspended(c, "emitInvite") \notin tasks
    /\ Suspended(c, "ring") \in tasks => Suspended(c, "emitInvite") \notin tasks
    /\ Unannounced(c) =>
         /\ c \notin pending
         /\ \A s \in Sessions : notes[s][c] = <<>> /\ c \notin seen[s] \cup early[s]

\* Nobody hears, or has heard, that a pending invite is resolved, so a session
\* that has seen it shows it until its user answers.
PendingStaysOpen ==
  \A c \in pending, s \in Sessions :
    /\ ~Has(s, c, "resolved")
    /\ c \notin early[s]
    /\ c \in seen[s] => c \in popup[s] \cup answered[s]

\* What is not pending has been resolved for every session that heard of it:
\* the last of its notes says so.
ResolutionComesLast ==
  \A c \in Calls \ pending, s \in Subscribers :
    IF notes[s][c] = <<>> THEN c \in popup[s] => c \in answered[s]
                          ELSE notes[s][c][Len(notes[s][c])] = "resolved"

\* The server's record of the invites and sessions, the notes under way and
\* what the sessions remember always fit together.
InviteInvariant ==
  /\ SubscriptionsKnown
  /\ SomeoneIsNewest
  /\ AnnouncedOnce
  /\ PendingStaysOpen
  /\ ResolutionComesLast
  /\ PendingIsOffered
============================================================================
