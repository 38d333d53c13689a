---------------------------- MODULE PopupsProofs ----------------------------
(***************************************************************************)
(* Incoming calls at the sessions of one machine, for any set of sessions  *)
(* and calls: types, and that a pending invite is offered and a resolved   *)
(* one taken back.                                                         *)
(***************************************************************************)
EXTENDS Popups, TLAPS

---------------------------------------------------------------------------
(* Types.                                                                  *)

\* Giving out invites keeps the notes well typed.
LEMMA WithInvitesType ==
  ASSUME notes \in [Sessions -> [Calls -> Seq(Notes)]],
         NEW cs \in SUBSET Calls, NEW subs \in SUBSET Sessions
  PROVE  WithInvites(cs, subs) \in [Sessions -> [Calls -> Seq(Notes)]]
<1>1. ASSUME NEW s \in Sessions, NEW c \in Calls
      PROVE  (IF c \in cs /\ s \in subs
              THEN Append(notes[s][c], IF IsNewest(s, subs) THEN "invite" ELSE "silent")
              ELSE notes[s][c]) \in Seq(Notes)
  <2>1. (IF IsNewest(s, subs) THEN "invite" ELSE "silent") \in Notes /\ notes[s][c] \in Seq(Notes)
    BY DEF Notes
  <2>. QED BY <2>1
<1>. QED BY <1>1 DEF WithInvites

\* So does announcing a resolution.
LEMMA WithResolutionType ==
  ASSUME notes \in [Sessions -> [Calls -> Seq(Notes)]], NEW c \in Calls
  PROVE  WithResolution(c) \in [Sessions -> [Calls -> Seq(Notes)]]
<1>1. ASSUME NEW s \in Sessions
      PROVE  (IF HearsResolution(s) THEN [notes[s] EXCEPT ![c] = Append(@, "resolved")]
              ELSE notes[s]) \in [Calls -> Seq(Notes)]
  <2>1. Append(notes[s][c], "resolved") \in Seq(Notes)
    BY DEF Notes
  <2>. QED BY <2>1
<1>. QED BY <1>1 DEF WithResolution

\* A session that reads a note has one less to read.
LEMMA ReadsType ==
  ASSUME TypeOK, NEW s \in Sessions, NEW c \in Calls, NEW note, Reads(s, c, note)
  PROVE  notes' \in [Sessions -> [Calls -> Seq(Notes)]]
<1>1. notes[s][c] \in Seq(Notes) /\ notes[s][c] # <<>>
  BY DEF TypeOK, Reads
<1>2. Tail(notes[s][c]) \in Seq(Notes)
  BY <1>1
<1>. QED BY <1>2 DEF TypeOK, Reads

\* The suspended handlers are handlers, of calls.
LEMMA SuspendedType ==
  \A c \in Calls, next \in Steps : Suspended(c, next) \in [call : Calls, next : Steps]
BY DEF Suspended

\* What a session asks for is a request; about a call, or its availability.
LEMMA RequestTypes ==
  /\ NoRequest.method = "none"
  /\ \A b \in BOOLEAN : [method |-> "set_session_metadata", available |-> b] \in Requests
  /\ \A c \in Calls, m \in {"accept_invite", "deny_invite"} :
       [method |-> m, call |-> c] \in Requests
  /\ \A r \in Requests : r # NoRequest /\ r.method # "none"
  /\ \A r \in Requests \cup {NoRequest} :
       /\ r.method = "set_session_metadata" => r.available \in BOOLEAN
       /\ r.method \in {"accept_invite", "deny_invite"} => r.call \in Calls
BY DEF Requests, NoRequest

\* The initial state is well typed.
LEMMA InitType == Init => TypeOK
BY DEF Init, TypeOK, CallStates, Steps, Notes

\* Every step keeps the types.
LEMMA TypeStep == TypeOK /\ [Next]_vars => TypeOK'
<1>. SUFFICES ASSUME TypeOK, [Next]_vars
              PROVE  TypeOK'
  OBVIOUS
<1>. USE DEF server, session, bounds
<1>1. ASSUME NEW c \in Calls, ReceiveInvite(c)
      PROVE  TypeOK'
  BY <1>1, SuspendedType DEF ReceiveInvite, TypeOK, Steps
<1>2. ASSUME NEW c \in Calls, End(c)
      PROVE  TypeOK'
  BY <1>2, SuspendedType DEF End, TypeOK, Steps, CallStates
<1>3. ASSUME NEW c \in Calls, Ring(c)
      PROVE  TypeOK'
  BY <1>3, SuspendedType DEF Ring, TypeOK, Steps, CallStates
<1>4. ASSUME NEW c \in Calls, EmitInvite(c)
      PROVE  TypeOK'
  <2>1. Audience(c) \in SUBSET Sessions
    BY DEF Audience, AvailableSessions, Subscribers
  <2>2. WithInvites({c}, Audience(c)) \in [Sessions -> [Calls -> Seq(Notes)]]
    BY <2>1, WithInvitesType DEF TypeOK
  <2>. QED BY <1>4, <2>2 DEF EmitInvite, TypeOK
<1>5. ASSUME NEW c \in Calls, EmitResolution(c)
      PROVE  TypeOK'
  <2>1. notes' \in [Sessions -> [Calls -> Seq(Notes)]]
    BY <1>5, WithResolutionType DEF EmitResolution, TypeOK
  <2>. QED BY <1>5, <2>1 DEF EmitResolution, TypeOK
<1>6. ASSUME NEW s \in Sessions, SetSessionMetadata(s)
      PROVE  TypeOK'
  <2>1. notes' \in [Sessions -> [Calls -> Seq(Notes)]]
    <3>1. WithInvites(Replayed(s), {s}) \in [Sessions -> [Calls -> Seq(Notes)]]
      BY WithInvitesType DEF TypeOK, Replayed
    <3>. QED BY <1>6, <3>1 DEF SetSessionMetadata, TypeOK
  <2>2. request[s].available \in BOOLEAN
    BY <1>6, RequestTypes DEF SetSessionMetadata, Read, TypeOK
  <2>. QED BY <1>6, <2>1, <2>2 DEF SetSessionMetadata, Read, TypeOK
<1>7. ASSUME NEW s \in Sessions, AcceptInvite(s)
      PROVE  TypeOK'
  <2>1. request[s].call \in Calls
    BY <1>7, RequestTypes DEF AcceptInvite, Read, TypeOK
  <2>2. Suspended(request[s].call, "emitConnected") \in [call : Calls, next : Steps]
    BY <2>1, SuspendedType DEF Steps
  <2>3. state' \in [Calls -> CallStates]
    BY <1>7 DEF AcceptInvite, TypeOK, CallStates
  <2>4. tasks' \subseteq [call : Calls, next : Steps]
    BY <1>7, <2>2 DEF AcceptInvite, TypeOK
  <2>. QED BY <1>7, <2>3, <2>4 DEF AcceptInvite, Read, TypeOK
<1>8. ASSUME NEW s \in Sessions, DenyInvite(s)
      PROVE  TypeOK'
  <2>1. request[s].call \in Calls
    BY <1>8, RequestTypes DEF DenyInvite, Read, TypeOK
  <2>. QED BY <1>8, <2>1 DEF DenyInvite, Read, TypeOK, CallStates, StateOnDeny
<1>9. ASSUME NEW s \in Sessions, NoticeExit(s)
      PROVE  TypeOK'
  <2>1. WithInvites(pending, AvailableSessions \ {s}) \in [Sessions -> [Calls -> Seq(Notes)]]
    BY WithInvitesType DEF TypeOK, AvailableSessions, Subscribers
  <2>2. [c \in Calls |-> <<>>] \in [Calls -> Seq(Notes)]
    OBVIOUS
  <2>. QED BY <1>9, <2>1, <2>2 DEF NoticeExit, TypeOK
<1>10. ASSUME NEW s \in Sessions, Subscribe(s)
       PROVE  TypeOK'
  BY <1>10 DEF Subscribe, TypeOK
<1>11. ASSUME NEW s \in Sessions, MakeAvailable(s)
       PROVE  TypeOK'
  BY <1>11, RequestTypes DEF MakeAvailable, Asks, TypeOK
<1>12. ASSUME NEW s \in Sessions, Exit(s)
       PROVE  TypeOK'
  BY <1>12 DEF Exit, TypeOK
<1>13. ASSUME NEW s \in Sessions, NEW c \in Calls, Answer(s, c)
       PROVE  TypeOK'
  <2>1. PICK method \in {"accept_invite", "deny_invite"} :
          Asks(s, [method |-> method, call |-> c])
    BY <1>13 DEF Answer
  <2>2. [method |-> method, call |-> c] \in Requests
    BY RequestTypes
  <2>3. request' \in [Sessions -> Requests \cup {NoRequest}]
    BY <2>1, <2>2 DEF Asks, TypeOK
  <2>. QED BY <1>13, <2>3 DEF Answer, TypeOK
<1>14. ASSUME NEW s \in Sessions, NEW c \in Calls, ReadInvite(s, c)
       PROVE  TypeOK'
  <2>1. notes' \in [Sessions -> [Calls -> Seq(Notes)]]
    BY <1>14, ReadsType DEF ReadInvite
  <2>2. early' \in [Sessions -> SUBSET Calls]
    <3>1. early \in [Sessions -> SUBSET Calls]
      BY DEF TypeOK
    <3>2. CASE early' = early
      BY <3>1, <3>2
    <3>3. CASE early' = [early EXCEPT ![s] = early[s] \ {c}]
      BY <3>1, <3>3
    <3>. QED BY <1>14, <3>2, <3>3 DEF ReadInvite
  <2>4. seen' \in [Sessions -> SUBSET Calls]
    <3>1. seen \in [Sessions -> SUBSET Calls]
      BY DEF TypeOK
    <3>2. CASE seen' = seen
      BY <3>1, <3>2
    <3>3. CASE seen' = [seen EXCEPT ![s] = seen[s] \cup {c}]
      BY <3>1, <3>3
    <3>. QED BY <1>14, <3>2, <3>3 DEF ReadInvite
  <2>5. popup' \in [Sessions -> SUBSET Calls]
    <3>1. popup \in [Sessions -> SUBSET Calls]
      BY DEF TypeOK
    <3>2. CASE popup' = popup
      BY <3>1, <3>2
    <3>3. CASE popup' = [popup EXCEPT ![s] = popup[s] \cup {c}]
      BY <3>1, <3>3
    <3>. QED BY <1>14, <3>2, <3>3 DEF ReadInvite
  <2>6. UNCHANGED <<state, target, tasks, server, process, handled, request, bounds>>
    BY <1>14 DEF ReadInvite
  <2>. QED BY <2>1, <2>2, <2>4, <2>5, <2>6 DEF TypeOK
<1>15. ASSUME NEW s \in Sessions, NEW c \in Calls, ReadSilent(s, c)
       PROVE  TypeOK'
  <2>1. notes' \in [Sessions -> [Calls -> Seq(Notes)]]
    BY <1>15, ReadsType DEF ReadSilent
  <2>. QED BY <1>15, <2>1 DEF ReadSilent, TypeOK
<1>16. ASSUME NEW s \in Sessions, NEW c \in Calls, ReadResolution(s, c)
       PROVE  TypeOK'
  <2>1. notes' \in [Sessions -> [Calls -> Seq(Notes)]]
    BY <1>16, ReadsType DEF ReadResolution
  <2>2. early' \in [Sessions -> SUBSET Calls]
    <3>1. early \in [Sessions -> SUBSET Calls]
      BY DEF TypeOK
    <3>2. CASE early' = early
      BY <3>1, <3>2
    <3>3. CASE early' = [early EXCEPT ![s] = early[s] \cup {c}]
      BY <3>1, <3>3
    <3>. QED BY <1>16, <3>2, <3>3 DEF ReadResolution
  <2>4. handled' \in [Sessions -> SUBSET Calls]
    <3>1. handled \in [Sessions -> SUBSET Calls]
      BY DEF TypeOK
    <3>2. CASE handled' = handled
      BY <3>1, <3>2
    <3>3. CASE handled' = [handled EXCEPT ![s] = handled[s] \ {c}]
      BY <3>1, <3>3
    <3>. QED BY <1>16, <3>2, <3>3 DEF ReadResolution
  <2>5. popup' \in [Sessions -> SUBSET Calls]
    <3>1. popup \in [Sessions -> SUBSET Calls]
      BY DEF TypeOK
    <3>2. CASE popup' = popup
      BY <3>1, <3>2
    <3>3. CASE popup' = [popup EXCEPT ![s] = popup[s] \ {c}]
      BY <3>1, <3>3
    <3>. QED BY <1>16, <3>2, <3>3 DEF ReadResolution
  <2>6. UNCHANGED <<state, target, tasks, server, process, seen, request, bounds>>
    BY <1>16 DEF ReadResolution
  <2>. QED BY <2>1, <2>2, <2>4, <2>5, <2>6 DEF TypeOK
<1>17. ASSUME NEW s \in Sessions, NEW c \in Calls, Forget(s, c)
       PROVE  TypeOK'
  BY <1>17 DEF Forget, TypeOK
<1>18. CASE UNCHANGED vars
  BY <1>18 DEF vars, TypeOK
<1>. QED BY <1>1, <1>2, <1>3, <1>4, <1>5, <1>6, <1>7, <1>8, <1>9, <1>10, <1>11, <1>12,
            <1>13, <1>14, <1>15, <1>16, <1>17, <1>18
         DEF Next, Handle, Serve, ReadNote

\* Every variable of the control server, the call and the sessions keeps its
\* type, whatever the sessions do.
THEOREM PopupsTypeCorrect == Spec => []TypeOK
BY InitType, TypeStep, PTL DEF Spec

---------------------------------------------------------------------------
(* Notes.                                                                  *)

Holds(q, note) == \E i \in 1..Len(q) : q[i] = note

\* A note that is written comes last.
LEMMA NoteWritten ==
  ASSUME NEW q \in Seq(Notes), NEW e \in Notes, NEW n
  PROVE  /\ Append(q, e) # <<>> /\ Append(q, e)[Len(Append(q, e))] = e
         /\ Holds(Append(q, e), n) <=> (Holds(q, n) \/ n = e)
<1>. DEFINE p == Append(q, e)
<1>1. /\ p \in Seq(Notes) /\ Len(p) = Len(q) + 1 /\ Len(q) \in Nat
      /\ \A i \in 1..Len(q) : p[i] = q[i]
      /\ p[Len(q) + 1] = e
  OBVIOUS
<1>. HIDE DEF p
<1>2. p # <<>> /\ p[Len(p)] = e
  BY <1>1
<1>3. ASSUME Holds(p, n)
      PROVE  Holds(q, n) \/ n = e
  <2>1. PICK i \in 1..Len(p) : p[i] = n
    BY <1>3 DEF Holds
  <2>2. i \in 1..Len(q) \/ i = Len(q) + 1
    BY <1>1
  <2>. QED BY <1>1, <2>1, <2>2 DEF Holds
<1>4. ASSUME Holds(q, n)
      PROVE  Holds(p, n)
  <2>1. PICK i \in 1..Len(q) : q[i] = n
    BY <1>4 DEF Holds
  <2>2. i \in 1..Len(p)
    BY <1>1
  <2>. QED BY <1>1, <2>1, <2>2 DEF Holds
<1>5. ASSUME n = e
      PROVE  Holds(p, n)
  <2>1. Len(p) \in 1..Len(p)
    BY <1>1
  <2>. QED BY <1>2, <1>5, <2>1 DEF Holds
<1>. QED BY <1>2, <1>3, <1>4, <1>5 DEF p

\* The note that is read came first.
LEMMA NoteTaken ==
  ASSUME NEW q \in Seq(Notes), q # <<>>, NEW n
  PROVE  /\ Holds(q, n) <=> (Head(q) = n \/ Holds(Tail(q), n))
         /\ Tail(q) = <<>> => q[Len(q)] = Head(q)
         /\ Tail(q) # <<>> => Tail(q)[Len(Tail(q))] = q[Len(q)]
<1>. DEFINE p == Tail(q)
<1>1. /\ p \in Seq(Notes) /\ Len(q) = Len(p) + 1 /\ Len(p) \in Nat
      /\ \A i \in 1..Len(p) : p[i] = q[i + 1]
      /\ Head(q) = q[1]
  OBVIOUS
<1>. HIDE DEF p
<1>2. p = <<>> => q[Len(q)] = Head(q)
  BY <1>1
<1>3. p # <<>> => p[Len(p)] = q[Len(q)]
  <2>1. p # <<>> => Len(p) \in 1..Len(p)
    BY <1>1
  <2>. QED BY <1>1, <2>1
<1>4. ASSUME Holds(q, n)
      PROVE  Head(q) = n \/ Holds(p, n)
  <2>1. PICK i \in 1..Len(q) : q[i] = n
    BY <1>4 DEF Holds
  <2>2. CASE i = 1
    BY <1>1, <2>1, <2>2
  <2>3. CASE i # 1
    <3>1. PICK k \in 1..Len(p) : i = k + 1
      <4>1. i - 1 \in 1..Len(p) /\ i = (i - 1) + 1
        BY <1>1, <2>3
      <4>. QED BY <4>1
    <3>. QED BY <1>1, <2>1, <3>1 DEF Holds
  <2>. QED BY <2>2, <2>3
<1>5. ASSUME Head(q) = n
      PROVE  Holds(q, n)
  <2>1. 1 \in 1..Len(q)
    BY <1>1
  <2>. QED BY <1>1, <1>5, <2>1 DEF Holds
<1>6. ASSUME Holds(p, n)
      PROVE  Holds(q, n)
  <2>1. PICK i \in 1..Len(p) : p[i] = n
    BY <1>6 DEF Holds
  <2>2. i + 1 \in 1..Len(q) /\ q[i + 1] = n
    BY <1>1, <2>1
  <2>. QED BY <2>2 DEF Holds
<1>. QED BY <1>2, <1>3, <1>4, <1>5, <1>6 DEF p

\* There is nothing in no notes.
LEMMA NoNotes == \A n : ~Holds(<<>>, n)
BY DEF Holds

\* What giving out the invites cs does to the notes for one session and call.
LEMMA InvitesGiven ==
  ASSUME TypeOK, NEW cs \in SUBSET Calls, NEW subs \in SUBSET Sessions,
         NEW s \in Sessions, NEW c \in Calls, NEW q, q = WithInvites(cs, subs)[s][c]
  PROVE  /\ ~(c \in cs /\ s \in subs) => q = notes[s][c]
         /\ Holds(q, "resolved") <=> Has(s, c, "resolved")
         /\ Has(s, c, "invite") => Holds(q, "invite")
         /\ (c \in cs /\ s \in subs /\ IsNewest(s, subs)) => Holds(q, "invite")
<1>1. notes[s][c] \in Seq(Notes) /\ \A n : Has(s, c, n) <=> Holds(notes[s][c], n)
  BY DEF TypeOK, Has, Holds
<1>2. CASE c \in cs /\ s \in subs
  <2>1. PICK e \in {"invite", "silent"} :
          q = Append(notes[s][c], e) /\ (IsNewest(s, subs) => e = "invite")
    BY <1>2 DEF WithInvites
  <2>2. e \in Notes /\ e # "resolved"
    BY DEF Notes
  <2>. QED BY <1>1, <1>2, <2>1, <2>2, NoteWritten
<1>3. CASE ~(c \in cs /\ s \in subs)
  <2>1. q = notes[s][c]
    BY <1>3 DEF WithInvites
  <2>. QED BY <1>1, <1>3, <2>1
<1>. QED BY <1>2, <1>3

\* What announcing the resolution of d does to them.
LEMMA ResolutionGiven ==
  ASSUME TypeOK, NEW d \in Calls, NEW s \in Sessions, NEW c \in Calls,
         NEW q, q = WithResolution(d)[s][c]
  PROVE  /\ ~(c = d /\ s \in Subscribers) => q = notes[s][c]
         /\ (c = d /\ s \in Subscribers) => q # <<>> /\ q[Len(q)] = "resolved"
<1>1. notes[s][c] \in Seq(Notes) /\ notes[s] \in [Calls -> Seq(Notes)] /\ "resolved" \in Notes
  BY DEF TypeOK, Notes
<1>2. CASE c = d /\ s \in Subscribers
  <2>1. q = Append(notes[s][c], "resolved")
    BY <1>1, <1>2 DEF WithResolution, HearsResolution
  <2>. QED BY <1>1, <1>2, <2>1, NoteWritten
<1>3. CASE ~(c = d /\ s \in Subscribers)
  BY <1>1, <1>3 DEF WithResolution, HearsResolution
<1>. QED BY <1>2, <1>3

\* What reading a note does to them.
LEMMA ReadingEffect ==
  ASSUME TypeOK, NEW s \in Sessions, NEW c \in Calls, NEW note, Reads(s, c, note)
  PROVE  /\ \A u \in Sessions, d \in Calls : u # s \/ d # c => notes'[u][d] = notes[u][d]
         /\ notes[s][c] # <<>>
         /\ \A n : Holds(notes[s][c], n) <=> (n = note \/ Holds(notes'[s][c], n))
         /\ notes'[s][c] = <<>> => notes[s][c][Len(notes[s][c])] = note
         /\ notes'[s][c] # <<>> =>
              notes'[s][c][Len(notes'[s][c])] = notes[s][c][Len(notes[s][c])]
<1>1. /\ notes[s][c] \in Seq(Notes) /\ notes[s][c] # <<>> /\ Head(notes[s][c]) = note
      /\ notes' = [notes EXCEPT ![s][c] = Tail(@)]
  BY DEF TypeOK, Reads
<1>2. notes'[s][c] = Tail(notes[s][c])
  BY <1>1 DEF TypeOK
<1>3. \A u \in Sessions, d \in Calls : u # s \/ d # c => notes'[u][d] = notes[u][d]
  BY <1>1 DEF TypeOK
<1>4. \A n : Holds(notes[s][c], n) <=> (n = note \/ Holds(notes'[s][c], n))
  BY <1>1, <1>2, NoteTaken
<1>. QED BY <1>1, <1>2, <1>3, <1>4, NoteTaken

---------------------------------------------------------------------------
(* The invariant: what leaves parts of it alone.                           *)

\* Notes, by either name.
LEMMA HasHolds == \A s, c, n : Has(s, c, n) <=> Holds(notes[s][c], n)
BY DEF Has, Holds

\* As long as nobody joins or leaves there is a newest.
LEMMA NewestStays ==
  ASSUME SomeoneIsNewest, since' = since, joined' = joined
  PROVE  SomeoneIsNewest'
BY DEF SomeoneIsNewest, Subscribers, IsNewest

\* What is offered stays so when no invite is added, nobody leaves, and nobody
\* becomes available.
LEMMA OffersStay ==
  ASSUME PendingIsOffered, target' = target, pending' \subseteq pending,
         Subscribers \subseteq Subscribers', AvailableSessions' \subseteq AvailableSessions,
         \A c \in pending', s \in Subscribers : Offered(s, c) => Offered(s, c)'
  PROVE  PendingIsOffered'
<1>. SUFFICES ASSUME NEW c \in pending'
              PROVE  /\ target[c] = Anyone /\ AvailableSessions' # {} =>
                          \E s \in Subscribers' : Offered(s, c)'
                     /\ target[c] \in AvailableSessions' => Offered(target[c], c)'
  BY DEF PendingIsOffered
<1>1. ASSUME target[c] = Anyone, AvailableSessions' # {}
      PROVE  \E s \in Subscribers' : Offered(s, c)'
  <2>1. PICK s \in Subscribers : Offered(s, c)
    BY <1>1 DEF PendingIsOffered
  <2>. QED BY <2>1
<1>2. ASSUME target[c] \in AvailableSessions'
      PROVE  Offered(target[c], c)'
  <2>1. PICK s \in AvailableSessions : s = target[c]
    BY <1>2
  <2>2. Offered(s, c) /\ s \in Subscribers
    BY <2>1 DEF PendingIsOffered, AvailableSessions
  <2>3. Offered(s, c)'
    BY <2>2
  <2>4. target'[c] = s
    BY <2>1
  <2>. QED BY <2>1, <2>3 DEF Offered, Has
<1>. QED BY <1>1, <1>2

\* The handlers of calls and the requests of sessions, as long as no invite is
\* announced or resolved and no request is made by a session that is gone.
LEMMA QuietStep ==
  ASSUME TypeOK, InviteInvariant,
         UNCHANGED <<target, server, notes, session, answered>>,
         \A s \in Sessions : request'[s] \in {request[s], NoRequest} \/ process[s] = "running",
         AnnouncedOnce'
  PROVE  InviteInvariant'
<1>. USE DEF server, session
<1>1. SubscriptionsKnown'
  BY DEF InviteInvariant, SubscriptionsKnown
<1>2. SomeoneIsNewest'
  BY NewestStays DEF InviteInvariant
<1>3. PendingStaysOpen'
  BY DEF InviteInvariant, PendingStaysOpen, Has
<1>4. ResolutionComesLast'
  BY DEF InviteInvariant, ResolutionComesLast, Subscribers
<1>5. PendingIsOffered'
  BY DEF InviteInvariant, PendingIsOffered, Offered, Has, AvailableSessions, Subscribers
<1>. QED BY <1>1, <1>2, <1>3, <1>4, <1>5 DEF InviteInvariant

---------------------------------------------------------------------------
(* The handlers of a call.                                                 *)

LEMMA SuspendedApart ==
  \A c, d, m, n : Suspended(c, m) = Suspended(d, n) <=> c = d /\ m = n
BY DEF Suspended

\* An invite arrives.
LEMMA ReceiveInviteStep ==
  ASSUME TypeOK, InviteInvariant, NEW c \in Calls, ReceiveInvite(c)
  PROVE  InviteInvariant'
<1>1. AnnouncedOnce'
  BY SuspendedApart
     DEF ReceiveInvite, InviteInvariant, AnnouncedOnce, Unannounced, server, session
<1>2. request' = request
  BY DEF ReceiveInvite
<1>. QED BY <1>1, <1>2, QuietStep DEF ReceiveInvite

\* An END arrives.
LEMMA EndStep ==
  ASSUME TypeOK, InviteInvariant, NEW c \in Calls, End(c)
  PROVE  InviteInvariant'
<1>1. AnnouncedOnce'
  BY SuspendedApart DEF End, InviteInvariant, AnnouncedOnce, Unannounced, server, session
<1>2. request' = request
  BY DEF End
<1>. QED BY <1>1, <1>2, QuietStep DEF End

\* The record is stored.
LEMMA RingStep ==
  ASSUME TypeOK, InviteInvariant, NEW c \in Calls, Ring(c)
  PROVE  InviteInvariant'
<1>1. AnnouncedOnce'
  BY SuspendedApart
     DEF Ring, InviteInvariant, AnnouncedOnce, Unannounced, server, session, bounds
<1>2. request' = request
  BY DEF Ring
<1>. QED BY <1>1, <1>2, QuietStep DEF Ring, bounds

\* accept_invite is read.
LEMMA AcceptInviteStep ==
  ASSUME TypeOK, InviteInvariant, NEW s \in Sessions, AcceptInvite(s)
  PROVE  InviteInvariant'
<1>1. AnnouncedOnce'
  <2>1. tasks' \subseteq tasks \cup {Suspended(request[s].call, "emitConnected")}
        /\ tasks \subseteq tasks'
    BY DEF AcceptInvite
  <2>2. \A c \in Calls : /\ Suspended(c, "ring") \in tasks' <=> Suspended(c, "ring") \in tasks
                         /\ Suspended(c, "emitInvite") \in tasks'
                              <=> Suspended(c, "emitInvite") \in tasks
    BY <2>1, SuspendedApart
  <2>. QED BY <2>2
           DEF AcceptInvite, InviteInvariant, AnnouncedOnce, Unannounced, server, session, bounds
<1>2. \A u \in Sessions : request'[u] \in {request[u], NoRequest}
  BY DEF AcceptInvite, Read, TypeOK
<1>. QED BY <1>1, <1>2, QuietStep DEF AcceptInvite, bounds

\* deny_invite is read.
LEMMA DenyInviteStep ==
  ASSUME TypeOK, InviteInvariant, NEW s \in Sessions, DenyInvite(s)
  PROVE  InviteInvariant'
<1>1. AnnouncedOnce'
  BY DEF DenyInvite, InviteInvariant, AnnouncedOnce, Unannounced, server, session, bounds
<1>2. \A u \in Sessions : request'[u] \in {request[u], NoRequest}
  BY DEF DenyInvite, Read, TypeOK
<1>. QED BY <1>1, <1>2, QuietStep DEF DenyInvite, bounds

\* A session asks to become available or unavailable.
LEMMA MakeAvailableStep ==
  ASSUME TypeOK, InviteInvariant, NEW s \in Sessions, MakeAvailable(s)
  PROVE  InviteInvariant'
<1>1. AnnouncedOnce'
  BY DEF MakeAvailable, InviteInvariant, AnnouncedOnce, Unannounced, server, session
<1>2. \A u \in Sessions : request'[u] = request[u] \/ process[u] = "running"
  BY DEF MakeAvailable, Asks, TypeOK
<1>. QED BY <1>1, <1>2, QuietStep DEF MakeAvailable

\* The invite event: the audience is told, and has a newest.
LEMMA EmitInviteStep ==
  ASSUME TypeOK, InviteInvariant, NEW c \in Calls, EmitInvite(c)
  PROVE  InviteInvariant'
<1>. DEFINE subs == Audience(c)
<1>1. /\ Suspended(c, "emitInvite") \in tasks /\ tasks' = tasks \ {Suspended(c, "emitInvite")}
      /\ pending' = pending \cup {c} /\ notes' = WithInvites({c}, subs)
      /\ UNCHANGED <<state, target, since, joined, available, session, request, bounds>>
  BY DEF EmitInvite
<1>2. /\ SubscriptionsKnown /\ SomeoneIsNewest /\ AnnouncedOnce /\ PendingStaysOpen
      /\ ResolutionComesLast /\ PendingIsOffered
  BY DEF InviteInvariant
<1>3. subs \in SUBSET Subscribers /\ Subscribers \in SUBSET Sessions /\ {c} \in SUBSET Calls
  BY DEF Audience, AvailableSessions, Subscribers
<1>4. Unannounced(c) /\ c \notin pending /\ c \in arrived
      /\ \A s \in Sessions : notes[s][c] = <<>> /\ c \notin seen[s] \cup early[s]
  BY <1>1, <1>2 DEF AnnouncedOnce, Unannounced
<1>5. ASSUME NEW s \in Sessions, NEW d \in Calls
      PROVE  /\ ~(d = c /\ s \in subs) => notes'[s][d] = notes[s][d]
             /\ Holds(notes'[s][d], "resolved") <=> Has(s, d, "resolved")
             /\ Has(s, d, "invite") => Holds(notes'[s][d], "invite")
             /\ (d = c /\ s \in subs /\ IsNewest(s, subs)) => Holds(notes'[s][d], "invite")
  <2>1. PICK q : q = notes'[s][d]
    OBVIOUS
  <2>2. q = WithInvites({c}, subs)[s][d]
    BY <1>1, <2>1
  <2>. QED BY <1>3, <2>1, <2>2, InvitesGiven
<1>. HIDE DEF subs
<1>6. SubscriptionsKnown'
  <2>1. \A s \in Sessions : since[s] = 0 => s \notin subs
    BY <1>3 DEF Subscribers
  <2>2. \A s \in Sessions : since[s] = 0 => \A d \in Calls : notes'[s][d] = <<>>
    BY <1>2, <1>5, <2>1 DEF SubscriptionsKnown
  <2>. QED BY <1>1, <1>2, <2>2 DEF SubscriptionsKnown, session, bounds
<1>7. SomeoneIsNewest'
  BY <1>1, <1>2, NewestStays
<1>8. AnnouncedOnce'
  <2>1. ASSUME NEW d \in Calls, d # c
        PROVE  /\ Unannounced(d)' <=> Unannounced(d)
               /\ Suspended(d, "ring") \in tasks' <=> Suspended(d, "ring") \in tasks
               /\ Suspended(d, "emitInvite") \in tasks' <=> Suspended(d, "emitInvite") \in tasks
               /\ d \in pending' <=> d \in pending
               /\ \A s \in Sessions : notes'[s][d] = notes[s][d]
    <3>1. /\ Suspended(d, "ring") \in tasks' <=> Suspended(d, "ring") \in tasks
          /\ Suspended(d, "emitInvite") \in tasks' <=> Suspended(d, "emitInvite") \in tasks
      BY <1>1, <2>1, SuspendedApart
    <3>2. d \in pending' <=> d \in pending
      BY <1>1, <2>1
    <3>3. \A s \in Sessions : notes'[s][d] = notes[s][d]
      BY <1>5, <2>1
    <3>. QED BY <1>1, <3>1, <3>2, <3>3 DEF Unannounced, bounds
  <2>2. ~Unannounced(c)' /\ Suspended(c, "emitInvite") \notin tasks'
    BY <1>1, <1>2, <1>4 DEF Unannounced, AnnouncedOnce, bounds
  <2>. QED BY <1>1, <1>2, <1>4, <2>1, <2>2 DEF AnnouncedOnce, session, bounds
<1>9. PendingStaysOpen'
  <2>1. ASSUME NEW d \in pending', NEW s \in Sessions
        PROVE  /\ ~Has(s, d, "resolved") /\ d \notin early[s]
               /\ d \in seen[s] => d \in popup[s] \cup answered[s]
    BY <1>1, <1>2, <1>4 DEF PendingStaysOpen, Has
  <2>2. pending' \subseteq Calls
    BY <1>1 DEF TypeOK
  <2>3. \A d \in pending', s \in Sessions : ~Has(s, d, "resolved")'
    BY <1>5, <2>1, <2>2 DEF Has, Holds
  <2>. QED BY <1>1, <2>1, <2>3 DEF PendingStaysOpen, session, bounds
<1>10. ResolutionComesLast'
  <2>1. ASSUME NEW d \in Calls \ pending', NEW s \in Subscribers
        PROVE  IF notes'[s][d] = <<>> THEN d \in popup[s] => d \in answered[s]
                                      ELSE notes'[s][d][Len(notes'[s][d])] = "resolved"
    <3>1. d \in Calls \ pending /\ notes'[s][d] = notes[s][d]
      BY <1>1, <1>3, <1>5
    <3>. QED BY <1>2, <3>1 DEF ResolutionComesLast
  <2>2. Subscribers' = Subscribers
    BY <1>1 DEF Subscribers
  <2>. QED BY <1>1, <2>1, <2>2 DEF ResolutionComesLast, session, bounds
<1>11. PendingIsOffered'
  <2>1. Subscribers' = Subscribers /\ AvailableSessions' = AvailableSessions
    BY <1>1 DEF Subscribers, AvailableSessions
  <2>2. ASSUME NEW s \in Sessions, NEW d \in Calls, Offered(s, d)
        PROVE  Offered(s, d)'
    <3>1. Has(s, d, "invite") => Has(s, d, "invite")'
      BY <1>5 DEF Has, Holds
    <3>. QED BY <1>1, <2>2, <3>1 DEF Offered, session, bounds
  <2>3. ASSUME NEW s \in subs, IsNewest(s, subs)
        PROVE  Offered(s, c)'
    <3>1. Has(s, c, "invite")'
      BY <1>3, <1>5, <2>3 DEF Has, Holds
    <3>. QED BY <3>1 DEF Offered
  <2>4. subs # {} => \E s \in subs : IsNewest(s, subs)
    BY <1>2, <1>3 DEF SomeoneIsNewest
  <2>5. ASSUME NEW d \in pending', d # c
        PROVE  /\ target[d] = Anyone /\ AvailableSessions # {} =>
                    \E s \in Subscribers : Offered(s, d)'
               /\ target[d] \in AvailableSessions => Offered(target[d], d)'
    <3>1. d \in pending /\ d \in Calls
      BY <1>1, <2>5 DEF TypeOK
    <3>2. AvailableSessions \subseteq Sessions /\ Subscribers \subseteq Sessions
      BY DEF AvailableSessions, Subscribers
    <3>3. target[d] = Anyone /\ AvailableSessions # {} =>
            \E s \in Subscribers : Offered(s, d)'
      BY <1>2, <2>2, <3>1, <3>2 DEF PendingIsOffered
    <3>4. ASSUME target[d] \in AvailableSessions
          PROVE  Offered(target[d], d)'
      <4>1. PICK s \in AvailableSessions : s = target[d]
        BY <3>4
      <4>2. Offered(s, d)
        BY <1>2, <3>1, <4>1 DEF PendingIsOffered
      <4>3. Offered(s, d)'
        BY <2>2, <3>1, <3>2, <4>2
      <4>4. target'[d] = s
        BY <1>1, <4>1
      <4>. QED BY <4>1, <4>3, <4>4 DEF Offered, Has
    <3>. QED BY <3>3, <3>4
  <2>6. target[c] = Anyone /\ AvailableSessions # {} => \E s \in Subscribers : Offered(s, c)'
    <3>1. target[c] = Anyone => subs = AvailableSessions
      BY DEF subs, Audience
    <3>. QED BY <1>3, <2>3, <2>4, <3>1
  <2>7. ASSUME target[c] \in AvailableSessions
        PROVE  Offered(target[c], c)'
    <3>1. target[c] # Anyone
      BY <2>7, PopupsAssumption DEF AvailableSessions, Subscribers
    <3>2. PICK s \in AvailableSessions : s = target[c]
      BY <2>7
    <3>3. subs = {s}
      BY <3>1, <3>2 DEF subs, Audience
    <3>4. Offered(s, c)'
      BY <2>3, <2>4, <3>3
    <3>5. target'[c] = s
      BY <1>1, <3>2
    <3>. QED BY <3>2, <3>4, <3>5 DEF Offered, Has
  <2>. QED BY <1>1, <2>1, <2>5, <2>6, <2>7 DEF PendingIsOffered
<1>. QED BY <1>6, <1>7, <1>8, <1>9, <1>10, <1>11 DEF InviteInvariant

\* The connected and ended events: who heard of the invite hears that it is
\* resolved.
LEMMA EmitResolutionStep ==
  ASSUME TypeOK, InviteInvariant, NEW c \in Calls, EmitResolution(c)
  PROVE  InviteInvariant'
<1>1. /\ pending' = pending \ {c}
      /\ notes' = IF c \in pending THEN WithResolution(c) ELSE notes
      /\ UNCHANGED <<state, target, since, joined, available, session, request, bounds>>
  BY DEF EmitResolution
<1>2. /\ SubscriptionsKnown /\ SomeoneIsNewest /\ AnnouncedOnce /\ PendingStaysOpen
      /\ ResolutionComesLast /\ PendingIsOffered
  BY DEF InviteInvariant
<1>3. Subscribers' = Subscribers /\ AvailableSessions' = AvailableSessions
      /\ Subscribers \subseteq Sessions
  BY <1>1 DEF Subscribers, AvailableSessions
<1>4. \A d \in Calls : /\ Suspended(d, "ring") \in tasks' <=> Suspended(d, "ring") \in tasks
                       /\ Suspended(d, "emitInvite") \in tasks'
                            <=> Suspended(d, "emitInvite") \in tasks
  BY SuspendedApart DEF EmitResolution
<1>5. ASSUME NEW s \in Sessions, NEW d \in Calls
      PROVE  /\ ~(c \in pending /\ d = c /\ s \in Subscribers) => notes'[s][d] = notes[s][d]
             /\ (c \in pending /\ d = c /\ s \in Subscribers) =>
                  notes'[s][d] # <<>> /\ notes'[s][d][Len(notes'[s][d])] = "resolved"
  <2>1. PICK q : q = notes'[s][d]
    OBVIOUS
  <2>2. CASE c \in pending
    <3>1. q = WithResolution(c)[s][d]
      BY <1>1, <2>1, <2>2
    <3>. QED BY <2>1, <2>2, <3>1, ResolutionGiven
  <2>3. CASE c \notin pending
    BY <1>1, <2>3
  <2>. QED BY <2>2, <2>3
<1>6. SubscriptionsKnown'
  <2>1. \A s \in Sessions : since[s] = 0 => \A d \in Calls : notes'[s][d] = <<>>
    BY <1>2, <1>5 DEF SubscriptionsKnown, Subscribers
  <2>. QED BY <1>1, <1>2, <2>1 DEF SubscriptionsKnown, session, bounds
<1>7. SomeoneIsNewest'
  BY <1>1, <1>2, NewestStays
<1>8. AnnouncedOnce'
  <2>1. ASSUME NEW d \in Calls, Unannounced(d)'
        PROVE  Unannounced(d) /\ d \notin pending
    BY <1>1, <1>2, <1>4, <2>1 DEF Unannounced, AnnouncedOnce, bounds
  <2>2. ASSUME NEW d \in Calls, Unannounced(d)'
        PROVE  /\ d \notin pending'
               /\ \A s \in Sessions : notes'[s][d] = <<>> /\ d \notin seen[s] \cup early[s]
    BY <1>1, <1>2, <1>5, <2>1, <2>2 DEF AnnouncedOnce
  <2>. QED BY <1>1, <1>2, <1>4, <2>2 DEF AnnouncedOnce, session, bounds
<1>9. PendingStaysOpen'
  <2>1. \A d \in pending', s \in Sessions : notes'[s][d] = notes[s][d]
    BY <1>1, <1>5 DEF TypeOK
  <2>. QED BY <1>1, <1>2, <2>1 DEF PendingStaysOpen, Has, session, bounds
<1>10. ResolutionComesLast'
  <2>1. ASSUME NEW d \in Calls \ pending', NEW s \in Subscribers
        PROVE  IF notes'[s][d] = <<>> THEN d \in popup[s] => d \in answered[s]
                                      ELSE notes'[s][d][Len(notes'[s][d])] = "resolved"
    <3>1. CASE d \in pending
      BY <1>1, <1>3, <1>5, <2>1, <3>1
    <3>2. CASE d \notin pending
      <4>1. notes'[s][d] = notes[s][d]
        BY <1>3, <1>5, <2>1, <3>2
      <4>. QED BY <1>2, <2>1, <3>2, <4>1 DEF ResolutionComesLast
    <3>. QED BY <3>1, <3>2
  <2>. QED BY <1>1, <1>3, <2>1 DEF ResolutionComesLast, session, bounds
<1>11. PendingIsOffered'
  <2>1. ASSUME NEW d \in pending', NEW s \in Subscribers, Offered(s, d)
        PROVE  Offered(s, d)'
    <3>1. notes'[s][d] = notes[s][d]
      BY <1>1, <1>3, <1>5 DEF TypeOK
    <3>. QED BY <1>1, <2>1, <3>1 DEF Offered, Has, session, bounds
  <2>. QED BY <1>1, <1>2, <1>3, <2>1, OffersStay
<1>. QED BY <1>6, <1>7, <1>8, <1>9, <1>10, <1>11 DEF InviteInvariant

---------------------------------------------------------------------------
(* Sessions come, change and go.                                           *)

\* What is given to a session that becomes available, or to those that are
\* left when one has gone.
LEMMA GivenAnew ==
  ASSUME TypeOK, NEW subs \in SUBSET Sessions, NEW s \in Sessions, NEW c \in Calls,
         NEW q, q = WithInvites(pending, subs)[s][c]
  PROVE  /\ ~(c \in pending /\ s \in subs) => q = notes[s][c]
         /\ Holds(q, "resolved") <=> Has(s, c, "resolved")
         /\ Has(s, c, "invite") => Holds(q, "invite")
         /\ (c \in pending /\ s \in subs /\ IsNewest(s, subs)) => Holds(q, "invite")
<1>1. PICK cs \in SUBSET Calls : cs = pending
  BY DEF TypeOK
<1>. QED BY <1>1, InvitesGiven

\* subscribe_inbox: the newest joins, and has heard of nothing.
LEMMA SubscribeStep ==
  ASSUME TypeOK, InviteInvariant, NEW s \in Sessions, Subscribe(s)
  PROVE  InviteInvariant'
<1>1. /\ process[s] = "none" /\ process' = [process EXCEPT ![s] = "running"]
      /\ joined' = joined + 1 /\ since' = [since EXCEPT ![s] = joined + 1]
      /\ UNCHANGED <<state, target, tasks, pending, available, notes, seen, popup, early,
                     handled, request, bounds>>
  BY DEF Subscribe
<1>2. /\ SubscriptionsKnown /\ SomeoneIsNewest /\ AnnouncedOnce /\ PendingStaysOpen
      /\ ResolutionComesLast /\ PendingIsOffered
  BY DEF InviteInvariant
<1>3. /\ since'[s] = joined + 1 /\ process'[s] = "running" /\ joined + 1 # 0
      /\ \A u \in Sessions \ {s} : since'[u] = since[u] /\ process'[u] = process[u]
      /\ since[s] = 0 /\ ~available[s] /\ popup[s] = {} /\ joined \in Nat
      /\ \A c \in Calls : notes[s][c] = <<>>
  BY <1>1, <1>2 DEF SubscriptionsKnown, TypeOK
<1>4. Subscribers' = Subscribers \cup {s} /\ AvailableSessions' = AvailableSessions
  <2>1. Subscribers' = Subscribers \cup {s}
    BY <1>3 DEF Subscribers
  <2>. QED BY <1>1, <1>3, <2>1 DEF AvailableSessions
<1>5. SubscriptionsKnown'
  BY <1>1, <1>2, <1>3 DEF SubscriptionsKnown, bounds
<1>6. SomeoneIsNewest'
  <2>1. \A u \in Sessions : since'[u] <= joined' /\ since'[u] <= since'[s]
    BY <1>1, <1>2, <1>3 DEF SomeoneIsNewest, TypeOK
  <2>2. ASSUME NEW subs \in SUBSET (Subscribers'), subs # {}
        PROVE  \E u \in subs : \A v \in subs : since'[v] <= since'[u]
    <3>1. CASE s \in subs
      BY <2>1, <3>1 DEF Subscribers
    <3>2. CASE s \notin subs
      <4>1. subs \in SUBSET Subscribers
        BY <1>4, <3>2
      <4>2. PICK u \in subs : \A v \in subs : since[v] <= since[u]
        BY <1>2, <2>2, <4>1 DEF SomeoneIsNewest, IsNewest
      <4>3. \A v \in subs : since'[v] = since[v]
        BY <1>3, <3>2, <4>1 DEF Subscribers
      <4>. QED BY <4>2, <4>3
    <3>. QED BY <3>1, <3>2
  <2>. QED BY <2>1, <2>2 DEF SomeoneIsNewest, IsNewest
<1>7. AnnouncedOnce'
  BY <1>1, <1>2 DEF AnnouncedOnce, Unannounced, bounds
<1>8. PendingStaysOpen'
  BY <1>1, <1>2 DEF PendingStaysOpen, Has, bounds
<1>9. ResolutionComesLast'
  BY <1>1, <1>2, <1>3, <1>4 DEF ResolutionComesLast, bounds
<1>10. PendingIsOffered'
  <2>1. ASSUME NEW c \in pending', NEW u \in Subscribers, Offered(u, c)
        PROVE  Offered(u, c)'
    <3>1. u # s /\ process'[u] = process[u]
      BY <1>3 DEF Subscribers
    <3>. QED BY <1>1, <2>1, <3>1 DEF Offered, Has, bounds
  <2>. QED BY <1>1, <1>2, <1>4, <2>1, OffersStay
<1>. QED BY <1>5, <1>6, <1>7, <1>8, <1>9, <1>10 DEF InviteInvariant

\* set_session_metadata: a session that becomes available is given all that is
\* pending.
LEMMA SetSessionMetadataStep ==
  ASSUME TypeOK, InviteInvariant, NEW s \in Sessions, SetSessionMetadata(s)
  PROVE  InviteInvariant'
<1>1. /\ request[s].method = "set_session_metadata"
      /\ request' = [request EXCEPT ![s] = NoRequest]
      /\ available' = [available EXCEPT ![s] = request[s].available]
      /\ notes' = IF ~available[s] /\ request[s].available
                  THEN WithInvites(pending, {s}) ELSE notes
      /\ UNCHANGED <<state, target, tasks, pending, since, joined, session, bounds>>
  BY DEF SetSessionMetadata, Read, Replayed
<1>2. /\ SubscriptionsKnown /\ SomeoneIsNewest /\ AnnouncedOnce /\ PendingStaysOpen
      /\ ResolutionComesLast /\ PendingIsOffered
  BY DEF InviteInvariant
<1>3. since[s] # 0 /\ request[s].available \in BOOLEAN
  BY <1>1, <1>2, RequestTypes DEF SubscriptionsKnown, TypeOK
<1>4. Subscribers' = Subscribers /\ Subscribers \subseteq Sessions /\ s \in Subscribers
  BY <1>1, <1>3 DEF Subscribers
<1>5. ASSUME NEW u \in Sessions, NEW c \in Calls
      PROVE  /\ ~(c \in pending /\ u = s) => notes'[u][c] = notes[u][c]
             /\ Holds(notes'[u][c], "resolved") <=> Has(u, c, "resolved")
             /\ Has(u, c, "invite") => Holds(notes'[u][c], "invite")
             /\ (c \in pending /\ u = s /\ ~available[s] /\ available'[s]) =>
                  Holds(notes'[u][c], "invite")
  <2>1. PICK q : q = notes'[u][c]
    OBVIOUS
  <2>2. CASE ~available[s] /\ request[s].available
    <3>1. q = WithInvites(pending, {s})[u][c]
      BY <1>1, <2>1, <2>2
    <3>2. IsNewest(s, {s})
      BY DEF IsNewest, TypeOK
    <3>. QED BY <2>1, <3>1, <3>2, GivenAnew
  <2>3. CASE ~(~available[s] /\ request[s].available)
    <3>1. notes' = notes /\ available'[s] = request[s].available
      BY <1>1, <2>3 DEF TypeOK
    <3>. QED BY <2>3, <3>1, HasHolds
  <2>. QED BY <2>2, <2>3
<1>12. pending \subseteq Calls
  BY DEF TypeOK
<1>6. SubscriptionsKnown'
  <2>1. ASSUME NEW u \in Sessions, since[u] = 0
        PROVE  /\ ~available'[u] /\ request'[u] = NoRequest
               /\ \A c \in Calls : notes'[u][c] = <<>>
    <3>1. u # s
      BY <1>3, <2>1
    <3>2. available'[u] = available[u] /\ request'[u] = request[u]
      BY <1>1, <3>1 DEF TypeOK
    <3>3. \A c \in Calls : notes'[u][c] = notes[u][c]
      BY <1>5, <3>1
    <3>. QED BY <1>2, <2>1, <3>2, <3>3 DEF SubscriptionsKnown
  <2>. QED BY <1>1, <1>2, <2>1 DEF SubscriptionsKnown, session, bounds
<1>7. SomeoneIsNewest'
  BY <1>1, <1>2, NewestStays
<1>8. AnnouncedOnce'
  <2>1. \A c \in Calls, u \in Sessions : c \notin pending => notes'[u][c] = notes[u][c]
    BY <1>5
  <2>. QED BY <1>1, <1>2, <2>1 DEF AnnouncedOnce, Unannounced, session, bounds
<1>9. PendingStaysOpen'
  <2>1. \A c \in pending, u \in Sessions : ~Has(u, c, "resolved")'
    <3>1. ASSUME NEW c \in pending, NEW u \in Sessions
          PROVE  ~Holds(notes'[u][c], "resolved")
      BY <1>2, <1>5, <1>12 DEF PendingStaysOpen
    <3>. QED BY <3>1 DEF Has, Holds
  <2>. QED BY <1>1, <1>2, <2>1 DEF PendingStaysOpen, session, bounds
<1>10. ResolutionComesLast'
  <2>1. ASSUME NEW c \in Calls \ pending, NEW u \in Subscribers
        PROVE  IF notes'[u][c] = <<>> THEN c \in popup[u] => c \in answered[u]
                                      ELSE notes'[u][c][Len(notes'[u][c])] = "resolved"
    <3>1. notes'[u][c] = notes[u][c]
      BY <1>4, <1>5
    <3>. QED BY <1>2, <3>1 DEF ResolutionComesLast
  <2>. QED BY <1>1, <1>4, <2>1 DEF ResolutionComesLast, session, bounds
<1>11. PendingIsOffered'
  <2>1. ASSUME NEW u \in Sessions, NEW c \in pending, Offered(u, c)
        PROVE  Offered(u, c)'
    <3>1. Has(u, c, "invite") => Has(u, c, "invite")'
      BY <1>5, <1>12 DEF Has, Holds
    <3>. QED BY <1>1, <2>1, <3>1 DEF Offered, session, bounds
  <2>2. CASE available[s] \/ ~available'[s]
    <3>1. AvailableSessions' \subseteq AvailableSessions
      BY <1>1, <1>4, <2>2 DEF AvailableSessions, TypeOK
    <3>. QED BY <1>1, <1>2, <1>4, <2>1, <3>1, OffersStay
  <2>3. CASE ~available[s] /\ available'[s]
    <3>1. ASSUME NEW c \in pending
          PROVE  Offered(s, c)'
      <4>1. Has(s, c, "invite")'
        BY <1>5, <1>12, <2>3 DEF Has, Holds
      <4>. QED BY <4>1 DEF Offered
    <3>2. ASSUME NEW c \in pending, target[c] \in AvailableSessions'
          PROVE  Offered(target[c], c)'
      <4>1. PICK u \in AvailableSessions' : u = target[c]
        BY <3>2
      <4>2. Offered(u, c)'
        <5>1. CASE u = s
          BY <3>1, <5>1
        <5>2. CASE u # s
          <6>1. u \in AvailableSessions /\ u \in Sessions
            BY <1>1, <1>4, <5>2 DEF AvailableSessions, TypeOK
          <6>2. Offered(u, c)
            BY <1>2, <4>1, <6>1 DEF PendingIsOffered
          <6>. QED BY <2>1, <6>1, <6>2
        <5>. QED BY <5>1, <5>2
      <4>3. target'[c] = u
        BY <1>1, <4>1
      <4>. QED BY <4>2, <4>3 DEF Offered, Has
    <3>. QED BY <1>1, <1>4, <3>1, <3>2 DEF PendingIsOffered
  <2>. QED BY <2>2, <2>3
<1>. QED BY <1>6, <1>7, <1>8, <1>9, <1>10, <1>11 DEF InviteInvariant

\* The socket of s has closed: what is pending is given to those that are left.
LEMMA NoticeExitStep ==
  ASSUME TypeOK, InviteInvariant, NEW s \in Sessions, NoticeExit(s)
  PROVE  InviteInvariant'
<1>. DEFINE left == AvailableSessions \ {s}
<1>1. /\ process[s] = "exited" /\ request[s] = NoRequest
      /\ since' = [since EXCEPT ![s] = 0] /\ available' = [available EXCEPT ![s] = FALSE]
      /\ notes' = [WithInvites(pending, left) EXCEPT ![s] = [c \in Calls |-> <<>>]]
      /\ UNCHANGED <<state, target, tasks, pending, joined, session, request, bounds>>
  BY DEF NoticeExit
<1>2. /\ SubscriptionsKnown /\ SomeoneIsNewest /\ AnnouncedOnce /\ PendingStaysOpen
      /\ ResolutionComesLast /\ PendingIsOffered
  BY DEF InviteInvariant
<1>3. /\ since'[s] = 0 /\ ~available'[s] /\ joined \in Nat
      /\ \A u \in Sessions \ {s} : since'[u] = since[u] /\ available'[u] = available[u]
  BY <1>1 DEF TypeOK
<1>4. Subscribers' = Subscribers \ {s} /\ AvailableSessions' = left
      /\ Subscribers \subseteq Sessions /\ left \in SUBSET Subscribers
  <2>1. Subscribers' = Subscribers \ {s}
    BY <1>3 DEF Subscribers
  <2>2. AvailableSessions' = left
    BY <1>3, <2>1 DEF AvailableSessions, Subscribers
  <2>. QED BY <2>1, <2>2 DEF AvailableSessions, Subscribers
<1>. HIDE DEF left
<1>5. pending \subseteq Calls
  BY DEF TypeOK
<1>6. ASSUME NEW u \in Sessions, NEW c \in Calls
      PROVE  /\ u = s => notes'[u][c] = <<>>
             /\ (u # s /\ ~(c \in pending /\ u \in left)) => notes'[u][c] = notes[u][c]
             /\ Holds(notes'[u][c], "resolved") => Has(u, c, "resolved")
             /\ (u # s /\ Has(u, c, "invite")) => Holds(notes'[u][c], "invite")
             /\ (c \in pending /\ u \in left /\ u # s /\ IsNewest(u, left)) =>
                  Holds(notes'[u][c], "invite")
  <2>1. WithInvites(pending, left) \in [Sessions -> [Calls -> Seq(Notes)]]
    BY <1>4, <1>5, WithInvitesType DEF TypeOK
  <2>2. CASE u = s
    <3>1. notes'[u][c] = <<>>
      BY <1>1, <2>1, <2>2
    <3>. QED BY <2>2, <3>1, NoNotes
  <2>3. CASE u # s
    <3>1. PICK q : q = notes'[u][c]
      OBVIOUS
    <3>2. q = WithInvites(pending, left)[u][c]
      BY <1>1, <2>1, <2>3, <3>1
    <3>3. left \in SUBSET Sessions
      BY <1>4
    <3>. QED BY <2>3, <3>1, <3>2, <3>3, GivenAnew
  <2>. QED BY <2>2, <2>3
<1>7. SubscriptionsKnown'
  <2>1. ASSUME NEW u \in Sessions, since'[u] = 0
        PROVE  /\ ~available'[u] /\ request'[u] = NoRequest
               /\ \A c \in Calls : notes'[u][c] = <<>>
    <3>1. CASE u = s
      BY <1>1, <1>3, <1>6, <3>1
    <3>2. CASE u # s
      <4>1. since[u] = 0 /\ u \notin left
        BY <1>3, <1>4, <2>1, <3>2 DEF Subscribers
      <4>2. \A c \in Calls : notes'[u][c] = notes[u][c]
        BY <1>6, <3>2, <4>1
      <4>. QED BY <1>1, <1>2, <1>3, <3>2, <4>1, <4>2 DEF SubscriptionsKnown
    <3>. QED BY <3>1, <3>2
  <2>2. \A u \in Sessions : process[u] = "running" => since'[u] # 0
    BY <1>1, <1>2, <1>3 DEF SubscriptionsKnown
  <2>3. \A u \in Sessions : process[u] = "none" => since'[u] = 0
    BY <1>1, <1>2, <1>3 DEF SubscriptionsKnown
  <2>. QED BY <1>1, <1>2, <2>1, <2>2, <2>3 DEF SubscriptionsKnown, session, bounds
<1>8. SomeoneIsNewest'
  <2>1. \A u \in Sessions : since'[u] <= joined'
    BY <1>1, <1>2, <1>3 DEF SomeoneIsNewest
  <2>2. ASSUME NEW subs \in SUBSET (Subscribers'), subs # {}
        PROVE  \E u \in subs : \A v \in subs : since'[v] <= since'[u]
    <3>1. subs \in SUBSET Subscribers /\ s \notin subs
      BY <1>4
    <3>2. PICK u \in subs : \A v \in subs : since[v] <= since[u]
      BY <1>2, <2>2, <3>1 DEF SomeoneIsNewest, IsNewest
    <3>3. \A v \in subs : since'[v] = since[v]
      BY <1>3, <1>4, <3>1
    <3>. QED BY <3>2, <3>3
  <2>. QED BY <2>1, <2>2 DEF SomeoneIsNewest, IsNewest
<1>9. AnnouncedOnce'
  <2>1. \A c \in Calls, u \in Sessions :
          c \notin pending /\ notes[u][c] = <<>> => notes'[u][c] = <<>>
    BY <1>6
  <2>2. \A c \in Calls : Unannounced(c)' <=> Unannounced(c)
    BY <1>1 DEF Unannounced, bounds
  <2>. QED BY <1>1, <1>2, <2>1, <2>2 DEF AnnouncedOnce, session, bounds
<1>10. PendingStaysOpen'
  <2>1. \A c \in pending, u \in Sessions : ~Has(u, c, "resolved")'
    <3>1. ASSUME NEW c \in pending, NEW u \in Sessions
          PROVE  ~Holds(notes'[u][c], "resolved")
      BY <1>2, <1>5, <1>6 DEF PendingStaysOpen
    <3>. QED BY <3>1 DEF Has, Holds
  <2>. QED BY <1>1, <1>2, <2>1 DEF PendingStaysOpen, session, bounds
<1>11. ResolutionComesLast'
  <2>1. ASSUME NEW c \in Calls \ pending, NEW u \in Subscribers'
        PROVE  IF notes'[u][c] = <<>> THEN c \in popup[u] => c \in answered[u]
                                      ELSE notes'[u][c][Len(notes'[u][c])] = "resolved"
    <3>1. u \in Subscribers /\ u \in Sessions /\ u # s
      BY <1>4
    <3>2. notes'[u][c] = notes[u][c]
      BY <1>6, <3>1
    <3>. QED BY <1>2, <3>1, <3>2 DEF ResolutionComesLast
  <2>. QED BY <1>1, <2>1 DEF ResolutionComesLast, session, bounds
<1>12. PendingIsOffered'
  <2>1. ASSUME NEW c \in pending, target[c] = Anyone, left # {}
        PROVE  \E u \in Subscribers' : Offered(u, c)'
    <3>1. PICK u \in left : IsNewest(u, left)
      BY <1>2, <1>4, <2>1 DEF SomeoneIsNewest
    <3>2. u # s /\ u \in Subscribers' /\ u \in Sessions
      BY <1>4 DEF left
    <3>3. Has(u, c, "invite")'
      BY <1>5, <1>6, <3>1, <3>2 DEF Has, Holds
    <3>. QED BY <3>2, <3>3 DEF Offered
  <2>2. ASSUME NEW c \in pending, target[c] \in left
        PROVE  Offered(target[c], c)'
    <3>1. PICK u \in left : u = target[c]
      BY <2>2
    <3>2. u \in AvailableSessions /\ u # s /\ u \in Sessions
      BY <1>4 DEF left
    <3>3. Offered(u, c)
      BY <1>2, <3>1, <3>2 DEF PendingIsOffered
    <3>4. Has(u, c, "invite") => Has(u, c, "invite")'
      BY <1>5, <1>6, <3>2 DEF Has, Holds
    <3>5. Offered(u, c)'
      BY <1>1, <3>3, <3>4 DEF Offered, session, bounds
    <3>6. target'[c] = u
      BY <1>1, <3>1
    <3>. QED BY <3>1, <3>5, <3>6 DEF Offered, Has
  <2>. QED BY <1>1, <1>4, <2>1, <2>2 DEF PendingIsOffered
<1>. QED BY <1>7, <1>8, <1>9, <1>10, <1>11, <1>12 DEF InviteInvariant

\* A process ends; the server has not noticed.
LEMMA ExitStep ==
  ASSUME TypeOK, InviteInvariant, NEW s \in Sessions, Exit(s)
  PROVE  InviteInvariant'
<1>1. /\ process[s] = "running" /\ process' = [process EXCEPT ![s] = "exited"]
      /\ seen' = [seen EXCEPT ![s] = {}] /\ popup' = [popup EXCEPT ![s] = {}]
      /\ early' = [early EXCEPT ![s] = {}] /\ handled' = [handled EXCEPT ![s] = {}]
      /\ UNCHANGED <<state, target, tasks, server, notes, request, bounds>>
  BY DEF Exit
<1>2. /\ SubscriptionsKnown /\ SomeoneIsNewest /\ AnnouncedOnce /\ PendingStaysOpen
      /\ ResolutionComesLast /\ PendingIsOffered
  BY DEF InviteInvariant
<1>3. /\ process'[s] = "exited" /\ seen'[s] = {} /\ popup'[s] = {} /\ early'[s] = {}
      /\ handled'[s] = {}
      /\ \A u \in Sessions \ {s} :
           /\ process'[u] = process[u] /\ seen'[u] = seen[u] /\ popup'[u] = popup[u]
           /\ early'[u] = early[u] /\ handled'[u] = handled[u]
  BY <1>1 DEF TypeOK
<1>4. SubscriptionsKnown'
  BY <1>1, <1>2, <1>3 DEF SubscriptionsKnown, server, bounds
<1>5. SomeoneIsNewest'
  BY <1>1, <1>2, NewestStays DEF server
<1>6. AnnouncedOnce'
  BY <1>1, <1>2, <1>3 DEF AnnouncedOnce, Unannounced, server, bounds
<1>7. PendingStaysOpen'
  BY <1>1, <1>2, <1>3 DEF PendingStaysOpen, Has, server, bounds
<1>8. ResolutionComesLast'
  BY <1>1, <1>2, <1>3 DEF ResolutionComesLast, Subscribers, server, bounds
<1>9. PendingIsOffered'
  <2>1. ASSUME NEW c \in pending', NEW u \in Subscribers, Offered(u, c)
        PROVE  Offered(u, c)'
    BY <1>1, <1>3, <2>1 DEF Offered, Has, Subscribers, server, bounds
  <2>2. Subscribers' = Subscribers /\ AvailableSessions' = AvailableSessions
    BY <1>1 DEF Subscribers, AvailableSessions, server
  <2>. QED BY <1>1, <1>2, <2>1, <2>2, OffersStay DEF server
<1>. QED BY <1>4, <1>5, <1>6, <1>7, <1>8, <1>9 DEF InviteInvariant

\* A user answers: the popup is gone, and remembered as answered.
LEMMA AnswerStep ==
  ASSUME TypeOK, InviteInvariant, NEW s \in Sessions, NEW c \in Calls, Answer(s, c)
  PROVE  InviteInvariant'
<1>1. /\ answered' = [answered EXCEPT ![s] = @ \cup {c}]
      /\ popup' = [popup EXCEPT ![s] = @ \ {c}] /\ handled' = [handled EXCEPT ![s] = @ \cup {c}]
      /\ process[s] = "running"
      /\ UNCHANGED <<state, target, tasks, server, notes, process, seen, early, toggles,
                     arrived, ended>>
  BY DEF Answer, Asks
<1>2. /\ SubscriptionsKnown /\ SomeoneIsNewest /\ AnnouncedOnce /\ PendingStaysOpen
      /\ ResolutionComesLast /\ PendingIsOffered
  BY DEF InviteInvariant
<1>3. /\ answered'[s] = answered[s] \cup {c} /\ popup'[s] = popup[s] \ {c}
      /\ handled'[s] = handled[s] \cup {c}
      /\ \A u \in Sessions \ {s} :
           /\ answered'[u] = answered[u] /\ popup'[u] = popup[u] /\ handled'[u] = handled[u]
           /\ request'[u] = request[u]
  <2>1. \A u \in Sessions \ {s} : request'[u] = request[u]
    BY DEF Answer, Asks, TypeOK
  <2>. QED BY <1>1, <2>1 DEF TypeOK
<1>4. SubscriptionsKnown'
  <2>1. \A u \in Sessions : since[u] = 0 => request'[u] = NoRequest
    BY <1>1, <1>2, <1>3 DEF SubscriptionsKnown
  <2>2. \A u \in Sessions : process[u] # "running" => popup'[u] = {}
    BY <1>2, <1>3 DEF SubscriptionsKnown
  <2>3. \A u \in Sessions : popup'[u] \subseteq seen[u] /\ handled'[u] \subseteq answered'[u]
    BY <1>2, <1>3 DEF SubscriptionsKnown
  <2>. QED BY <1>1, <1>2, <2>1, <2>2, <2>3 DEF SubscriptionsKnown, server
<1>5. SomeoneIsNewest'
  BY <1>1, <1>2, NewestStays DEF server
<1>6. AnnouncedOnce'
  BY <1>1, <1>2 DEF AnnouncedOnce, Unannounced, server
<1>7. \A u \in Sessions, d \in Calls :
        /\ d \in popup[u] \cup answered[u] => d \in popup'[u] \cup answered'[u]
        /\ (d \in popup[u] => d \in answered[u]) => (d \in popup'[u] => d \in answered'[u])
  BY <1>3
<1>8. PendingStaysOpen'
  <2>1. pending \subseteq Calls
    BY DEF TypeOK
  <2>. QED BY <1>1, <1>2, <1>7, <2>1 DEF PendingStaysOpen, Has, server
<1>9. ResolutionComesLast'
  <2>1. Subscribers' = Subscribers /\ Subscribers \subseteq Sessions
    BY <1>1 DEF Subscribers, server
  <2>. QED BY <1>1, <1>2, <1>7, <2>1 DEF ResolutionComesLast, server
<1>10. PendingIsOffered'
  <2>1. ASSUME NEW d \in pending', NEW u \in Subscribers, Offered(u, d)
        PROVE  Offered(u, d)'
    <3>1. d \in Calls /\ u \in Sessions
      BY <1>1 DEF Subscribers, TypeOK, server
    <3>2. d \in popup[u] \cup answered[u] => d \in popup'[u] \cup answered'[u]
      BY <1>7, <3>1
    <3>. QED BY <1>1, <2>1, <3>2 DEF Offered, Has
  <2>2. Subscribers' = Subscribers /\ AvailableSessions' = AvailableSessions
    BY <1>1 DEF Subscribers, AvailableSessions, server
  <2>. QED BY <1>1, <1>2, <2>1, <2>2, OffersStay DEF server
<1>. QED BY <1>4, <1>5, <1>6, <1>8, <1>9, <1>10 DEF InviteInvariant

---------------------------------------------------------------------------
(* Sessions read.                                                          *)

\* s, which has read note about c, shows c if it is pending and was offered,
\* and does not if nothing more is to come; it remembers nothing else anew.
Handles(s, c, note) ==
  /\ \A u \in Sessions, d \in Calls :
       u # s \/ d # c => /\ d \in seen'[u] <=> d \in seen[u]
                         /\ d \in popup'[u] <=> d \in popup[u]
                         /\ d \in early'[u] <=> d \in early[u]
  /\ \A u \in Sessions : handled'[u] \subseteq handled[u]
  /\ c \in popup'[s] => c \in seen'[s]
  /\ c \in pending => /\ c \notin early'[s]
                      /\ c \in seen'[s] => c \in popup'[s] \cup answered[s]
                      /\ c \in popup[s] \/ note = "invite" => c \in popup'[s] \cup answered[s]
  /\ (c \notin pending /\ notes'[s][c] = <<>>) => (c \in popup'[s] => c \in answered[s])

\* Whatever note is read, it is enough to handle it so.
LEMMA HandlingStep ==
  ASSUME TypeOK, TypeOK', InviteInvariant, NEW s \in Sessions, NEW c \in Calls,
         NEW note \in Notes, Reads(s, c, note), Handles(s, c, note),
         UNCHANGED <<state, target, tasks, server, process, request, bounds>>
  PROVE  InviteInvariant'
<1>1. /\ SubscriptionsKnown /\ SomeoneIsNewest /\ AnnouncedOnce /\ PendingStaysOpen
      /\ ResolutionComesLast /\ PendingIsOffered
  BY DEF InviteInvariant
<1>2. /\ \A u \in Sessions, d \in Calls : u # s \/ d # c => notes'[u][d] = notes[u][d]
      /\ notes[s][c] # <<>>
      /\ \A n : Holds(notes[s][c], n) <=> (n = note \/ Holds(notes'[s][c], n))
      /\ notes'[s][c] # <<>> =>
           notes'[s][c][Len(notes'[s][c])] = notes[s][c][Len(notes[s][c])]
  BY ReadingEffect
<1>3. process[s] = "running" /\ since[s] # 0 /\ ~Unannounced(c)
  BY <1>1, <1>2 DEF Reads, SubscriptionsKnown, AnnouncedOnce
<1>4. /\ \A u \in Sessions : seen[u] \subseteq Calls /\ popup[u] \subseteq Calls
      /\ \A u \in Sessions : seen'[u] \subseteq Calls /\ popup'[u] \subseteq Calls
      /\ pending \subseteq Calls
  BY DEF TypeOK
<1>5. SubscriptionsKnown'
  <2>1. \A u \in Sessions : since[u] = 0 => \A d \in Calls : notes'[u][d] = <<>>
    BY <1>1, <1>2, <1>3 DEF SubscriptionsKnown
  <2>2. ASSUME NEW u \in Sessions, process[u] # "running"
        PROVE  popup'[u] = {}
    BY <1>1, <1>3, <1>4, <2>2 DEF SubscriptionsKnown, Handles
  <2>3. ASSUME NEW u \in Sessions, NEW d \in Calls, d \in popup'[u]
        PROVE  d \in seen'[u]
    BY <1>1, <2>3 DEF SubscriptionsKnown, Handles
  <2>4. \A u \in Sessions : handled'[u] \subseteq answered[u]
    BY <1>1 DEF SubscriptionsKnown, Handles
  <2>5. \A u \in Sessions : popup'[u] \subseteq seen'[u]
    BY <1>4, <2>3
  <2>. QED BY <1>1, <2>1, <2>2, <2>4, <2>5 DEF SubscriptionsKnown, server, bounds
<1>6. SomeoneIsNewest'
  BY <1>1, NewestStays DEF server
<1>7. AnnouncedOnce'
  <2>1. \A d \in Calls : Unannounced(d)' <=> Unannounced(d)
    BY DEF Unannounced, bounds
  <2>2. ASSUME NEW d \in Calls, Unannounced(d), NEW u \in Sessions
        PROVE  notes'[u][d] = <<>> /\ d \notin seen'[u] \cup early'[u]
    <3>1. d # c
      BY <1>3, <2>2
    <3>. QED BY <1>1, <1>2, <2>2, <3>1 DEF AnnouncedOnce, Handles
  <2>. QED BY <1>1, <2>1, <2>2 DEF AnnouncedOnce, server, bounds
<1>8. PendingStaysOpen'
  <2>1. ASSUME NEW d \in pending, NEW u \in Sessions
        PROVE  /\ ~Holds(notes'[u][d], "resolved") /\ d \notin early'[u]
               /\ d \in seen'[u] => d \in popup'[u] \cup answered[u]
    <3>1. ~Holds(notes[u][d], "resolved") /\ d \in Calls
      BY <1>1, <1>4, HasHolds DEF PendingStaysOpen
    <3>2. ~Holds(notes'[u][d], "resolved")
      BY <1>2, <3>1
    <3>. QED BY <1>1, <3>1, <3>2 DEF PendingStaysOpen, Handles
  <2>2. \A d \in pending, u \in Sessions : ~Has(u, d, "resolved")'
    BY <2>1 DEF Has, Holds
  <2>. QED BY <2>1, <2>2 DEF PendingStaysOpen, server, bounds
<1>9. ResolutionComesLast'
  <2>1. ASSUME NEW d \in Calls \ pending, NEW u \in Subscribers
        PROVE  IF notes'[u][d] = <<>> THEN d \in popup'[u] => d \in answered[u]
                                      ELSE notes'[u][d][Len(notes'[u][d])] = "resolved"
    <3>1. u \in Sessions
      BY DEF Subscribers
    <3>2. CASE u # s \/ d # c
      <4>1. notes'[u][d] = notes[u][d] /\ (d \in popup'[u] <=> d \in popup[u])
        BY <1>2, <3>1, <3>2 DEF Handles
      <4>. QED BY <1>1, <4>1 DEF ResolutionComesLast
    <3>3. CASE u = s /\ d = c
      <4>1. notes[s][c][Len(notes[s][c])] = "resolved"
        BY <1>1, <1>2, <2>1, <3>3 DEF ResolutionComesLast
      <4>. QED BY <1>2, <2>1, <3>3, <4>1 DEF Handles
    <3>. QED BY <3>2, <3>3
  <2>2. Subscribers' = Subscribers
    BY DEF Subscribers, server
  <2>. QED BY <2>1, <2>2 DEF ResolutionComesLast, server, bounds
<1>10. PendingIsOffered'
  <2>1. ASSUME NEW d \in pending, NEW u \in Subscribers, Offered(u, d)
        PROVE  Offered(u, d)'
    <3>1. u \in Sessions /\ d \in Calls
      BY <1>4 DEF Subscribers
    <3>2. CASE u # s \/ d # c
      <4>1. notes'[u][d] = notes[u][d] /\ (d \in popup'[u] <=> d \in popup[u])
        BY <1>2, <3>1, <3>2 DEF Handles
      <4>. QED BY <2>1, <4>1 DEF Offered, Has, bounds
    <3>3. CASE u = s /\ d = c
      <4>1. Holds(notes[s][c], "invite") =>
              note = "invite" \/ Holds(notes'[s][c], "invite")
        BY <1>2
      <4>2. Holds(notes'[s][c], "invite") => Has(s, c, "invite")'
        BY DEF Has, Holds
      <4>3. c \in popup[s] \/ note = "invite" => c \in popup'[s] \cup answered[s]
        BY <2>1, <3>3 DEF Handles
      <4>4. answered' = answered /\ process' = process
        BY DEF bounds
      <4>. QED BY <2>1, <3>3, <4>1, <4>2, <4>3, <4>4, HasHolds DEF Offered
    <3>. QED BY <3>2, <3>3
  <2>2. /\ Subscribers' = Subscribers /\ AvailableSessions' = AvailableSessions
        /\ pending' = pending /\ target' = target
    BY DEF Subscribers, AvailableSessions, server
  <2>. QED BY <1>1, <2>1, <2>2, OffersStay
<1>. QED BY <1>5, <1>6, <1>7, <1>8, <1>9, <1>10 DEF InviteInvariant

\* A note that is not a resolution is not the last one of what is resolved.
LEMMA MoreToCome ==
  ASSUME TypeOK, InviteInvariant, NEW s \in Sessions, NEW c \in Calls \ pending,
         NEW note, note # "resolved", Reads(s, c, note)
  PROVE  notes'[s][c] # <<>>
<1>1. /\ notes[s][c] # <<>>
      /\ notes'[s][c] = <<>> => notes[s][c][Len(notes[s][c])] = note
  BY ReadingEffect
<1>2. s \in Subscribers
  BY DEF InviteInvariant, SubscriptionsKnown, Subscribers, Reads
<1>3. notes[s][c][Len(notes[s][c])] = "resolved"
  BY <1>1, <1>2 DEF InviteInvariant, ResolutionComesLast
<1>. QED BY <1>1, <1>3

\* An invite is read.
LEMMA ReadInviteStep ==
  ASSUME TypeOK, TypeOK', InviteInvariant, NEW s \in Sessions, NEW c \in Calls,
         ReadInvite(s, c)
  PROVE  InviteInvariant'
<1>1. /\ Reads(s, c, "invite") /\ "invite" \in Notes
      /\ UNCHANGED <<state, target, tasks, server, process, handled, request, bounds>>
  BY DEF ReadInvite, Notes
<1>2. PendingStaysOpen /\ SubscriptionsKnown
  BY DEF InviteInvariant
<1>3. c \notin pending => notes'[s][c] # <<>>
  BY <1>1, MoreToCome
<1>. SUFFICES Handles(s, c, "invite")
  BY <1>1, HandlingStep
<1>4. CASE c \in seen[s] /\ UNCHANGED <<seen, popup, early>>
  BY <1>1, <1>2, <1>3, <1>4 DEF Handles, PendingStaysOpen, SubscriptionsKnown
<1>5. CASE /\ c \notin seen[s] /\ c \in early[s] /\ early' = [early EXCEPT ![s] = @ \ {c}]
           /\ UNCHANGED <<seen, popup>>
  <2>1. \A u \in Sessions, d \in Calls :
          u # s \/ d # c => (d \in early'[u] <=> d \in early[u])
    BY <1>5 DEF TypeOK
  <2>2. c \notin pending
    BY <1>2, <1>5 DEF PendingStaysOpen
  <2>. QED BY <1>1, <1>2, <1>3, <1>5, <2>1, <2>2 DEF Handles, SubscriptionsKnown
<1>6. CASE /\ seen' = [seen EXCEPT ![s] = @ \cup {c}]
           /\ popup' = [popup EXCEPT ![s] = @ \cup {c}] /\ c \notin early[s]
           /\ UNCHANGED early
  <2>1. /\ c \in seen'[s] /\ c \in popup'[s]
        /\ \A u \in Sessions, d \in Calls :
             u # s \/ d # c => /\ d \in seen'[u] <=> d \in seen[u]
                               /\ d \in popup'[u] <=> d \in popup[u]
    BY <1>6 DEF TypeOK
  <2>. QED BY <1>1, <1>3, <1>6, <2>1 DEF Handles
<1>. QED BY <1>4, <1>5, <1>6 DEF ReadInvite

\* A silent invite is read, and changes nothing.
LEMMA ReadSilentStep ==
  ASSUME TypeOK, TypeOK', InviteInvariant, NEW s \in Sessions, NEW c \in Calls,
         ReadSilent(s, c)
  PROVE  InviteInvariant'
<1>1. /\ Reads(s, c, "silent") /\ "silent" \in Notes
      /\ UNCHANGED <<state, target, tasks, server, session, request, bounds>>
  BY DEF ReadSilent, Notes
<1>2. PendingStaysOpen /\ SubscriptionsKnown
  BY DEF InviteInvariant
<1>3. c \notin pending => notes'[s][c] # <<>>
  BY <1>1, MoreToCome
<1>4. Handles(s, c, "silent")
  BY <1>1, <1>2, <1>3 DEF Handles, PendingStaysOpen, SubscriptionsKnown, session
<1>. QED BY <1>1, <1>4, HandlingStep DEF session

\* A resolution is read: of what is not pending.
LEMMA ReadResolutionStep ==
  ASSUME TypeOK, TypeOK', InviteInvariant, NEW s \in Sessions, NEW c \in Calls,
         ReadResolution(s, c)
  PROVE  InviteInvariant'
<1>1. /\ Reads(s, c, "resolved") /\ "resolved" \in Notes
      /\ UNCHANGED <<state, target, tasks, server, process, seen, request, bounds>>
  BY DEF ReadResolution, Notes
<1>2. PendingStaysOpen /\ SubscriptionsKnown
  BY DEF InviteInvariant
<1>3. c \notin pending
  <2>1. Has(s, c, "resolved")
    BY <1>1, ReadingEffect, HasHolds
  <2>. QED BY <1>2, <2>1 DEF PendingStaysOpen
<1>. SUFFICES Handles(s, c, "resolved")
  BY <1>1, HandlingStep
<1>4. CASE /\ c \in handled[s] /\ handled' = [handled EXCEPT ![s] = @ \ {c}]
           /\ UNCHANGED <<popup, early>>
  <2>1. \A u \in Sessions : handled'[u] \subseteq handled[u]
    BY <1>4 DEF TypeOK
  <2>2. c \in answered[s]
    BY <1>2, <1>4 DEF SubscriptionsKnown
  <2>. QED BY <1>1, <1>2, <1>3, <1>4, <2>1, <2>2 DEF Handles, SubscriptionsKnown
<1>5. CASE popup' = [popup EXCEPT ![s] = @ \ {c}] /\ UNCHANGED <<handled, early>>
  <2>1. /\ c \notin popup'[s]
        /\ \A u \in Sessions, d \in Calls :
             u # s \/ d # c => (d \in popup'[u] <=> d \in popup[u])
    BY <1>5 DEF TypeOK
  <2>. QED BY <1>1, <1>3, <1>5, <2>1 DEF Handles
<1>6. CASE /\ c \notin seen[s] /\ early' = [early EXCEPT ![s] = @ \cup {c}]
           /\ UNCHANGED <<handled, popup>>
  <2>1. \A u \in Sessions, d \in Calls :
          u # s \/ d # c => (d \in early'[u] <=> d \in early[u])
    BY <1>6 DEF TypeOK
  <2>2. c \notin popup[s]
    BY <1>2, <1>6 DEF SubscriptionsKnown
  <2>. QED BY <1>1, <1>3, <1>6, <2>1, <2>2 DEF Handles
<1>. QED BY <1>4, <1>5, <1>6 DEF ReadResolution

\* A resolution that came before its invite is forgotten.
LEMMA ForgetStep ==
  ASSUME TypeOK, InviteInvariant, NEW s \in Sessions, NEW c \in Calls, Forget(s, c)
  PROVE  InviteInvariant'
<1>1. /\ early' = [early EXCEPT ![s] = @ \ {c}]
      /\ UNCHANGED <<state, target, tasks, server, notes, process, seen, popup, handled,
                     request, bounds>>
  BY DEF Forget
<1>2. /\ SubscriptionsKnown /\ SomeoneIsNewest /\ AnnouncedOnce /\ PendingStaysOpen
      /\ ResolutionComesLast /\ PendingIsOffered
  BY DEF InviteInvariant
<1>3. \A u \in Sessions : early'[u] \subseteq early[u]
  BY <1>1 DEF TypeOK
<1>4. SubscriptionsKnown'
  BY <1>1, <1>2 DEF SubscriptionsKnown, server, bounds
<1>5. SomeoneIsNewest'
  BY <1>1, <1>2, NewestStays DEF server
<1>6. AnnouncedOnce'
  BY <1>1, <1>2, <1>3 DEF AnnouncedOnce, Unannounced, server, bounds
<1>7. PendingStaysOpen'
  BY <1>1, <1>2, <1>3 DEF PendingStaysOpen, Has, server, bounds
<1>8. ResolutionComesLast'
  BY <1>1, <1>2 DEF ResolutionComesLast, Subscribers, server, bounds
<1>9. PendingIsOffered'
  BY <1>1, <1>2
     DEF PendingIsOffered, Offered, Has, AvailableSessions, Subscribers, server, bounds
<1>. QED BY <1>4, <1>5, <1>6, <1>7, <1>8, <1>9 DEF InviteInvariant

---------------------------------------------------------------------------
(* The theorems.                                                           *)

\* At the beginning nobody has heard of anything.
LEMMA InitInvites == Init => InviteInvariant
<1>. SUFFICES ASSUME Init
              PROVE  InviteInvariant
  OBVIOUS
<1>1. Subscribers = {} /\ AvailableSessions = {}
  BY DEF Init, Subscribers, AvailableSessions
<1>2. SubscriptionsKnown
  BY DEF Init, SubscriptionsKnown
<1>3. SomeoneIsNewest
  BY <1>1 DEF Init, SomeoneIsNewest
<1>4. AnnouncedOnce
  BY DEF Init, AnnouncedOnce, Unannounced
<1>5. PendingStaysOpen /\ PendingIsOffered
  BY DEF Init, PendingStaysOpen, PendingIsOffered
<1>6. ResolutionComesLast
  BY <1>1 DEF ResolutionComesLast
<1>. QED BY <1>2, <1>3, <1>4, <1>5, <1>6 DEF InviteInvariant

\* Every step keeps the invariant.
LEMMA InviteStep == TypeOK /\ TypeOK' /\ InviteInvariant /\ [Next]_vars => InviteInvariant'
<1>. SUFFICES ASSUME TypeOK, TypeOK', InviteInvariant, [Next]_vars
              PROVE  InviteInvariant'
  OBVIOUS
<1>1. ASSUME NEW c \in Calls, ReceiveInvite(c) \/ End(c) \/ Handle(c)
      PROVE  InviteInvariant'
  BY <1>1, ReceiveInviteStep, EndStep, RingStep, EmitInviteStep, EmitResolutionStep DEF Handle
<1>2. ASSUME NEW s \in Sessions, Serve(s) \/ Subscribe(s) \/ MakeAvailable(s) \/ Exit(s)
      PROVE  InviteInvariant'
  BY <1>2, SetSessionMetadataStep, AcceptInviteStep, DenyInviteStep, NoticeExitStep,
     SubscribeStep, MakeAvailableStep, ExitStep DEF Serve
<1>3. ASSUME NEW s \in Sessions, NEW c \in Calls,
             Answer(s, c) \/ ReadNote(s, c) \/ Forget(s, c)
      PROVE  InviteInvariant'
  BY <1>3, AnswerStep, ReadInviteStep, ReadSilentStep, ReadResolutionStep, ForgetStep
     DEF ReadNote
<1>4. CASE UNCHANGED vars
  <2>1. \A s \in Sessions : request'[s] \in {request[s], NoRequest}
    BY <1>4 DEF vars
  <2>2. AnnouncedOnce'
    BY <1>4 DEF vars, InviteInvariant, AnnouncedOnce, Unannounced
  <2>. QED BY <1>4, <2>1, <2>2, QuietStep DEF vars, server, session
<1>. QED BY <1>1, <1>2, <1>3, <1>4 DEF Next

\* The server's record, the notes under way and what the sessions remember
\* always fit together (pendingInvites, subscribers and the dispatches of
\* control.ts; invitedSeen and resolvedBeforeEmit of the bridge).
THEOREM InviteInvariantHolds == Spec => []InviteInvariant
BY InitInvites, InviteStep, PopupsTypeCorrect, PTL DEF Spec

\* Once a session that may take it is available, a pending invite is always
\* with a session that shows it or will, whichever sessions come, go and change
\* their availability, and however many there are.
THEOREM PendingAlwaysOffered == Spec => []PendingIsOffered
<1>1. InviteInvariant => PendingIsOffered
  BY DEF InviteInvariant
<1>. QED BY <1>1, InviteInvariantHolds, PTL

\* No session goes on showing an invite that is resolved once it has read its
\* notes, however invites, resolutions and answers cross on the way.
THEOREM ResolvedAlwaysRetired == Spec => []ResolvedIsRetired
<1>1. InviteInvariant => ResolvedIsRetired
  BY DEF InviteInvariant, ResolutionComesLast, ResolvedIsRetired
<1>. QED BY <1>1, InviteInvariantHolds, PTL

============================================================================
