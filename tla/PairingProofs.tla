--------------------------- MODULE PairingProofs ---------------------------
(***************************************************************************)
(* Pairing, for any set of daemons and any number of attempts, removals    *)
(* and faults: types, the invariant of its steps, and what is true of a    *)
(* pairing that was reported or that stopped half way.                     *)
(***************************************************************************)
EXTENDS Pairing, TLAPS

\* What every step is shown to keep.
Inv == TypeOK /\ PairingInvariant

---------------------------------------------------------------------------
(* The two sides of an attempt.                                            *)

\* What an attempt makes of an entry is an entry, with tokens of its own; the
\* entries of two attempts, or of the two sides, differ.
LEMMA NewEntryFacts ==
  ASSUME NEW i \in Attempts, NEW side \in Sides
  PROVE  /\ NewEntry(i, side) \in Entries
         /\ NewEntry(i, side) # NoEntry
         /\ NewEntry(i, side).token = <<i, side>>
         /\ \A j \in Attempts, other \in Sides :
              NewEntry(i, side) = NewEntry(j, other) => i = j /\ side = other
<1>1. NewEntry(i, side) = [token |-> <<i, side>>,
        inbound |-> <<i, IF side = "initiator" THEN "acceptor" ELSE "initiator">>]
  BY DEF NewEntry, Sides
<1>2. <<i, side>> \in Tokens /\ <<i, "initiator">> \in Tokens /\ <<i, "acceptor">> \in Tokens
  BY DEF Tokens, Sides
<1>3. \A j \in Attempts, other \in Sides :
        NewEntry(j, other) = [token |-> <<j, other>>,
          inbound |-> <<j, IF other = "initiator" THEN "acceptor" ELSE "initiator">>]
  BY DEF NewEntry, Sides
<1>4. NewEntry(i, side).token = <<i, side>>
  BY <1>1
<1>5. \A j \in Attempts, other \in Sides :
        NewEntry(i, side) = NewEntry(j, other) => i = j /\ side = other
  BY <1>3, <1>4
<1>6. NoEntry.token = <<>>
  BY DEF NoEntry
<1>7. NewEntry(i, side) # NoEntry
  BY <1>4, <1>6
<1>8. NewEntry(i, side) \in Entries
  BY <1>1, <1>2 DEF Entries
<1>. QED BY <1>4, <1>5, <1>7, <1>8

\* The two daemons of an attempt.
LEMMA SidesFacts ==
  ASSUME TypeOK, AttemptsInOrder, NEW i \in Attempts, Started(i)
  PROVE  /\ Initiator(i) \in Daemons
         /\ Acceptor(i) \in Daemons
         /\ Initiator(i) # Acceptor(i)
         /\ \A side \in Sides : /\ Daemon(i, side) \in Daemons
                                /\ Other(i, side) \in Daemons
                                /\ Daemon(i, side) # Other(i, side)
                                /\ {Daemon(i, side), Other(i, side)} = {Initiator(i), Acceptor(i)}
<1>1. between[i] \in Pairs
  BY DEF AttemptsInOrder
<1>2. /\ Initiator(i) \in Daemons
      /\ Acceptor(i) \in Daemons
      /\ Initiator(i) # Acceptor(i)
  BY <1>1 DEF Pairs, Initiator, Acceptor
<1>. QED BY <1>2 DEF Daemon, Other, Sides

---------------------------------------------------------------------------
(* Writes.                                                                 *)

\* A write that is mixed with another stays the write that it was.
LEMMA MixedFacts ==
  ASSUME NEW ws \in SUBSET Writes
  PROVE  /\ Mixed(ws) \in SUBSET Writes
         /\ \A m \in Mixed(ws) : \E w \in ws :
              /\ m.content = w.content
              /\ m.attempt = w.attempt
              /\ m.side = w.side
              /\ m.mixed
         /\ (\A v, w \in ws : (v.attempt = w.attempt /\ v.side = w.side) => v = w)
              => \A v, w \in Mixed(ws) : (v.attempt = w.attempt /\ v.side = w.side) => v = w
<1>1. \A w \in ws : LET m == [w EXCEPT !.mixed = TRUE] IN
        /\ m \in Writes
        /\ m.content = w.content
        /\ m.attempt = w.attempt
        /\ m.side = w.side
        /\ m.mixed
  BY DEF Writes
<1>2. \A m \in Mixed(ws) : \E w \in ws : m = [w EXCEPT !.mixed = TRUE]
  BY DEF Mixed
<1>3. ASSUME \A v, w \in ws : (v.attempt = w.attempt /\ v.side = w.side) => v = w,
             NEW v \in Mixed(ws), NEW w \in Mixed(ws), v.attempt = w.attempt, v.side = w.side
      PROVE  v = w
  <2>1. PICK v0 \in ws : v = [v0 EXCEPT !.mixed = TRUE]
    BY <1>2
  <2>2. PICK w0 \in ws : w = [w0 EXCEPT !.mixed = TRUE]
    BY <1>2
  <2>3. v0 = w0
    BY <1>1, <1>3, <2>1, <2>2
  <2>. QED BY <2>1, <2>2, <2>3
<1>4. Mixed(ws) \in SUBSET Writes
  BY <1>1 DEF Mixed
<1>5. ASSUME NEW m \in Mixed(ws)
      PROVE  \E w \in ws : /\ m.content = w.content
                          /\ m.attempt = w.attempt
                          /\ m.side = w.side
                          /\ m.mixed
  <2>1. PICK w \in ws : m = [w EXCEPT !.mixed = TRUE]
    BY <1>2
  <2>. QED BY <1>1, <2>1
<1>. QED BY <1>3, <1>4, <1>5

\* What addPeer puts into memory and on its way to the file: the entry of the
\* attempt, and all others as memory had them.
LEMMA AddPeerFacts ==
  ASSUME TypeOK, AttemptsInOrder, NEW i \in Attempts, NEW side \in Sides, Started(i),
         AddPeer(i, side)
  PROVE  \E new \in Writes :
           LET d == Daemon(i, side)  e == Other(i, side) IN
           /\ new.attempt = i
           /\ new.side = side
           /\ new.mixed = (writes[d] # {})
           /\ new.content \in [Daemons -> Entries]
           /\ new.content[e] = NewEntry(i, side)
           /\ \A x \in Daemons \ {e} : new.content[x] = memory[d][x]
           /\ memory' = [memory EXCEPT ![d] = new.content]
           /\ writes' = [writes EXCEPT ![d] = Mixed(writes[d]) \cup {new}]
<1>. DEFINE d == Daemon(i, side)
            e == Other(i, side)
            peers == [memory[d] EXCEPT ![e] = NewEntry(i, side)]
            m == writes[d] # {}
            new == [content |-> peers, attempt |-> i, side |-> side, mixed |-> m]
<1>1. d \in Daemons /\ e \in Daemons
  BY SidesFacts
<1>2. memory[d] \in [Daemons -> Entries]
  BY <1>1 DEF TypeOK
<1>3. NewEntry(i, side) \in Entries
  BY NewEntryFacts
<1>4. /\ peers \in [Daemons -> Entries]
      /\ peers[e] = NewEntry(i, side)
      /\ \A x \in Daemons \ {e} : peers[x] = memory[d][x]
  BY <1>1, <1>2, <1>3
<1>5. m \in BOOLEAN
  OBVIOUS
<1>6. new \in Writes
  BY <1>4, <1>5 DEF Writes
<1>7. /\ memory' = [memory EXCEPT ![d] = peers]
      /\ writes' = [writes EXCEPT ![d] = Mixed(writes[d]) \cup {new}]
  BY DEF AddPeer
<1>8. /\ new.attempt = i
      /\ new.side = side
      /\ new.mixed = m
      /\ new.content = peers
  OBVIOUS
<1>. QED BY <1>4, <1>6, <1>7, <1>8

---------------------------------------------------------------------------
(* Types.                                                                  *)

\* The handler whose write has ended is that of a started attempt, and waits.
LEMMA WriteFacts ==
  ASSUME Inv, NEW d \in Daemons, NEW w \in writes[d]
  PROVE  /\ w \in Writes
         /\ w.attempt \in Attempts
         /\ w.side \in Sides
         /\ w.content \in [Daemons -> Entries]
         /\ Started(w.attempt)
         /\ Writing(w.attempt, w.side)
         /\ d = Daemon(w.attempt, w.side)
         /\ d # Other(w.attempt, w.side)
         /\ Other(w.attempt, w.side) \in Daemons
         /\ UnderWay(w.attempt)
         /\ Involves(w.attempt, d)
<1>1. w \in Writes
  BY DEF Inv, TypeOK
<1>2. /\ w.attempt \in Attempts
      /\ w.side \in Sides
      /\ w.content \in [Daemons -> Entries]
  BY <1>1 DEF Writes
<1>3. /\ Started(w.attempt)
      /\ Writing(w.attempt, w.side)
      /\ d = Daemon(w.attempt, w.side)
  BY DEF Inv, PairingInvariant, WritesAwaited
<1>4. /\ d # Other(w.attempt, w.side)
      /\ Other(w.attempt, w.side) \in Daemons
      /\ d \in {Initiator(w.attempt), Acceptor(w.attempt)}
  BY <1>2, <1>3, SidesFacts DEF Inv, PairingInvariant
<1>5. UnderWay(w.attempt)
  BY <1>2, <1>3 DEF Writing, UnderWay, Sides
<1>. QED BY <1>1, <1>2, <1>3, <1>4, <1>5 DEF Involves

\* Whatever is left of a file is a file, or torn.
LEMMA RemainsType ==
  ASSUME Inv, NEW d \in Daemons
  PROVE  Remains(d) \subseteq [Daemons -> Entries] \cup {Torn}
<1>1. NoPeers \in [Daemons -> Entries]
  BY DEF NoPeers, Entries
<1>2. file[d] \in [Daemons -> Entries] \cup {Torn}
  BY DEF Inv, TypeOK
<1>. QED BY <1>1, <1>2, WriteFacts DEF Remains

\* Going on after a write changes the state of its handler only.
LEMMA ContinueType ==
  ASSUME TypeOK, NEW w, NEW ok \in BOOLEAN, Continue(w, ok)
  PROVE  /\ accepting' \in [Attempts -> {"none", "reading", "writing", "answered",
                                         "refused", "gone"}]
         /\ adding' \in [Attempts -> {"none", "asked", "writing", "done", "refused",
                                      "gone"}]
BY DEF TypeOK, Continue

\* A daemon that stops leaves the types as they are.
LEMMA StopType ==
  ASSUME Inv, NEW d \in Daemons, Stop(d), faults' \in 0..MaxFaults
  PROVE  TypeOK'
<1>1. NoPeers \in [Daemons -> Entries]
  BY DEF NoPeers, Entries
<1>2. PICK f \in [Daemons -> Entries] \cup {Torn} : file' = [file EXCEPT ![d] = f]
  BY RemainsType DEF Inv, TypeOK, Stop
<1>3. undisturbed' \in [Attempts -> BOOLEAN]
  BY DEF Stop, Disturb, Inv, TypeOK
<1>4. /\ accepting' \in [Attempts -> {"none", "reading", "writing", "answered",
                                      "refused", "gone"}]
      /\ adding' \in [Attempts -> {"none", "asked", "writing", "done", "refused",
                                   "gone"}]
  BY DEF Stop, Inv, TypeOK
<1>5. loops' \in [Daemons -> [Daemons -> Nat]]
  BY DEF Stop, Inv, TypeOK
<1>6. /\ up' \in [Daemons -> BOOLEAN]
      /\ window' \in [Daemons -> BOOLEAN]
      /\ memory' \in [Daemons -> [Daemons -> Entries]]
      /\ writes' \in [Daemons -> SUBSET Writes]
      /\ file' \in [Daemons -> [Daemons -> Entries] \cup {Torn}]
  BY <1>1, <1>2 DEF Stop, Inv, TypeOK
<1>7. UNCHANGED <<between, command, removals>>
  BY DEF Stop
<1>. QED BY <1>3, <1>4, <1>5, <1>6, <1>7 DEF Inv, TypeOK

\* addPeer keeps the types of memory and of the writes.
LEMMA AddPeerType ==
  ASSUME TypeOK, AttemptsInOrder, NEW i \in Attempts, NEW side \in Sides, Started(i),
         AddPeer(i, side)
  PROVE  /\ memory' \in [Daemons -> [Daemons -> Entries]]
         /\ writes' \in [Daemons -> SUBSET Writes]
<1>. DEFINE d == Daemon(i, side)
<1>1. PICK new \in Writes :
        /\ new.content \in [Daemons -> Entries]
        /\ memory' = [memory EXCEPT ![d] = new.content]
        /\ writes' = [writes EXCEPT ![d] = Mixed(writes[d]) \cup {new}]
  BY AddPeerFacts
<1>2. d \in Daemons
  BY SidesFacts
<1>3. writes[d] \in SUBSET Writes
  BY <1>2 DEF TypeOK
<1>4. Mixed(writes[d]) \in SUBSET Writes
  BY <1>3, MixedFacts
<1>5. Mixed(writes[d]) \cup {new} \in SUBSET Writes
  BY <1>4
<1>. HIDE DEF d
<1>. QED BY <1>1, <1>5 DEF TypeOK

\* The initial state is well typed.
LEMMA InitType == Init => TypeOK
<1>1. NoPeers \in [Daemons -> Entries]
  BY DEF NoPeers, Entries
<1>. QED BY <1>1, PairingAssumption DEF Init, TypeOK

\* Every step keeps the types.
LEMMA TypeStep == Inv /\ [Next]_vars => TypeOK'
<1>. SUFFICES ASSUME Inv, [Next]_vars
              PROVE  TypeOK'
  OBVIOUS
<1>. USE DEF daemon, bounds
<1>0. TypeOK /\ AttemptsInOrder
  BY DEF Inv, PairingInvariant
<1>1. ASSUME NEW d \in Daemons, Ready(d)
      PROVE  TypeOK'
  BY <1>0, <1>1 DEF Ready, TypeOK
<1>2. ASSUME NEW d \in Daemons, CloseWindow(d)
      PROVE  TypeOK'
  BY <1>0, <1>2 DEF CloseWindow, TypeOK
<1>3. ASSUME NEW d \in Daemons, WriteEnds(d)
      PROVE  TypeOK'
  <2>1. PICK w \in writes[d] :
          /\ \E f \in {w.content} \cup (IF w.mixed THEN {Torn} ELSE {}) :
               file' = [file EXCEPT ![d] = f]
          /\ writes' = [writes EXCEPT ![d] = @ \ {w}]
          /\ loops' = [loops EXCEPT ![d][Other(w.attempt, w.side)] = @ + 1]
          /\ Continue(w, TRUE)
          /\ undisturbed' = Disturb(LAMBDA j : w.mixed /\ Involves(j, d))
          /\ UNCHANGED <<up, window, memory, between, command, bounds>>
    BY <1>3 DEF WriteEnds, Disturb
  <2>2. PICK f \in {w.content} \cup {Torn} : file' = [file EXCEPT ![d] = f]
    BY <2>1
  <2>3. file' \in [Daemons -> [Daemons -> Entries] \cup {Torn}]
    BY <1>0, <2>2, WriteFacts DEF TypeOK
  <2>4. writes' \in [Daemons -> SUBSET Writes]
    BY <1>0, <2>1 DEF TypeOK
  <2>5. loops' \in [Daemons -> [Daemons -> Nat]]
    <3>1. PICK e \in Daemons : loops' = [loops EXCEPT ![d][e] = @ + 1]
      BY <2>1, WriteFacts
    <3>2. loops[d] \in [Daemons -> Nat] /\ loops[d][e] + 1 \in Nat
      BY <1>0 DEF TypeOK
    <3>3. [loops[d] EXCEPT ![e] = loops[d][e] + 1] \in [Daemons -> Nat]
      BY <3>2
    <3>4. loops' = [loops EXCEPT ![d] = [loops[d] EXCEPT ![e] = loops[d][e] + 1]]
      BY <3>1
    <3>. QED BY <1>0, <3>3, <3>4 DEF TypeOK
  <2>6. undisturbed' \in [Attempts -> BOOLEAN]
    BY <1>0, <2>1 DEF Disturb, TypeOK
  <2>. QED BY <1>0, <2>1, <2>3, <2>4, <2>5, <2>6, ContinueType DEF TypeOK
<1>4. ASSUME NEW d \in Daemons, WriteFails(d)
      PROVE  TypeOK'
  <2>1. PICK w \in writes[d], f \in Remains(d) :
          /\ file' = [file EXCEPT ![d] = f]
          /\ writes' = [writes EXCEPT ![d] = @ \ {w}]
          /\ Continue(w, FALSE)
          /\ undisturbed' = Disturb(LAMBDA j : Involves(j, d) /\ j # w.attempt)
    BY <1>4 DEF WriteFails, Disturb
  <2>2. file' \in [Daemons -> [Daemons -> Entries] \cup {Torn}]
    BY <1>0, <2>1, RemainsType DEF TypeOK
  <2>3. writes' \in [Daemons -> SUBSET Writes]
    BY <1>0, <2>1 DEF TypeOK
  <2>4. undisturbed' \in [Attempts -> BOOLEAN]
    BY <1>0, <2>1 DEF Disturb, TypeOK
  <2>5. /\ faults' \in 0..MaxFaults
        /\ UNCHANGED <<up, window, memory, loops, between, command, removals>>
    BY <1>0, <1>4, PairingAssumption DEF WriteFails, TypeOK
  <2>. QED BY <1>0, <2>1, <2>2, <2>3, <2>4, <2>5, ContinueType DEF TypeOK
<1>5. ASSUME NEW d \in Daemons, Crash(d)
      PROVE  TypeOK'
  <2>1. faults' \in 0..MaxFaults
    BY <1>0, <1>5, PairingAssumption DEF Crash, TypeOK
  <2>. QED BY <1>5, <2>1, StopType DEF Crash
<1>6. ASSUME NEW d \in Daemons, Start(d)
      PROVE  TypeOK'
  <2>1. file[d] \in [Daemons -> Entries]
    BY <1>0, <1>6 DEF Start, TypeOK
  <2>2. memory' \in [Daemons -> [Daemons -> Entries]]
    BY <1>0, <1>6, <2>1 DEF Start, TypeOK
  <2>3. loops' \in [Daemons -> [Daemons -> Nat]]
    BY <1>0, <1>6 DEF Start, TypeOK
  <2>. QED BY <1>0, <1>6, <2>2, <2>3 DEF Start, TypeOK
<1>7. ASSUME NEW p \in Pairs, Remove(p[1], p[2])
      PROVE  TypeOK'
  <2>. DEFINE d == p[1]
              e == p[2]
  <2>1. d \in Daemons /\ e \in Daemons
    BY DEF Pairs
  <2>2. Remove(d, e)
    BY <1>7
  <2>. HIDE DEF d, e
  <2>3. NoEntry \in Entries
    BY DEF Entries
  <2>4. file[d] \in [Daemons -> Entries]
    BY <1>0, <2>1, <2>2 DEF Remove, TypeOK
  <2>5. [file[d] EXCEPT ![e] = NoEntry] \in [Daemons -> Entries]
    BY <2>3, <2>4
  <2>6. file' = [file EXCEPT ![d] = [file[d] EXCEPT ![e] = NoEntry]]
    BY <2>2 DEF Remove
  <2>7. file' \in [Daemons -> [Daemons -> Entries] \cup {Torn}]
    BY <1>0, <2>5, <2>6 DEF TypeOK
  <2>8. writes' \in [Daemons -> SUBSET Writes]
    BY <1>0, <2>1, <2>2, MixedFacts DEF Remove, TypeOK
  <2>9. undisturbed' \in [Attempts -> BOOLEAN]
    BY <1>0, <2>2 DEF Remove, Disturb, TypeOK
  <2>10. removals' \in 0..MaxRemovals
    BY <1>0, <2>2, PairingAssumption DEF Remove, TypeOK
  <2>11. UNCHANGED <<up, window, memory, loops, between, command, accepting, adding, faults>>
    BY <2>2 DEF Remove
  <2>. QED BY <1>0, <2>7, <2>8, <2>9, <2>10, <2>11 DEF TypeOK
<1>8. ASSUME NEW i \in Attempts, NEW p \in Pairs, StartPair(i, p[1], p[2])
      PROVE  TypeOK'
  <2>1. <<p[1], p[2]>> \in Pairs
    BY DEF Pairs
  <2>2. between' = [between EXCEPT ![i] = <<p[1], p[2]>>]
    BY <1>8 DEF StartPair
  <2>3. between' \in [Attempts -> Pairs \cup {<<>>}]
    BY <1>0, <2>1, <2>2 DEF TypeOK
  <2>4. command' = [command EXCEPT ![i] = "asking"]
    BY <1>8 DEF StartPair
  <2>5. undisturbed' \in [Attempts -> BOOLEAN]
    BY <1>0, <1>8 DEF StartPair, Disturb, TypeOK
  <2>6. UNCHANGED <<daemon, accepting, adding, bounds>>
    BY <1>8 DEF StartPair
  <2>. QED BY <1>0, <2>3, <2>4, <2>5, <2>6 DEF TypeOK
<1>9. ASSUME NEW i \in Attempts, CommandTimeout(i)
      PROVE  TypeOK'
  BY <1>0, <1>9 DEF CommandTimeout, TypeOK
<1>10. ASSUME NEW i \in Attempts, Arrive(i)
      PROVE  TypeOK'
  BY <1>0, <1>10 DEF Arrive, TypeOK
<1>11. ASSUME NEW i \in Attempts, Accept(i)
      PROVE  TypeOK'
  <2>1. Started(i) /\ AddPeer(i, "acceptor") /\ "acceptor" \in Sides
    BY <1>0, <1>11 DEF Accept, AttemptsInOrder, Sides
  <2>2. /\ memory' \in [Daemons -> [Daemons -> Entries]]
        /\ writes' \in [Daemons -> SUBSET Writes]
    BY <1>0, <2>1, AddPeerType
  <2>. QED BY <1>0, <1>11, <2>2 DEF Accept, TypeOK
<1>12. ASSUME NEW i \in Attempts, Answer(i)
      PROVE  TypeOK'
  BY <1>0, <1>12 DEF Answer, TypeOK
<1>13. ASSUME NEW i \in Attempts, Add(i)
      PROVE  TypeOK'
  <2>1. Started(i) /\ AddPeer(i, "initiator") /\ "initiator" \in Sides
    BY <1>0, <1>13 DEF Add, AttemptsInOrder, Sides
  <2>2. /\ memory' \in [Daemons -> [Daemons -> Entries]]
        /\ writes' \in [Daemons -> SUBSET Writes]
    BY <1>0, <2>1, AddPeerType
  <2>. QED BY <1>0, <1>13, <2>2 DEF Add, TypeOK
<1>14. ASSUME NEW i \in Attempts, AddReply(i)
      PROVE  TypeOK'
  BY <1>0, <1>14 DEF AddReply, TypeOK
<1>15. ASSUME NEW i \in Attempts, Abort(i)
      PROVE  TypeOK'
  <2>1. Acceptor(i) \in Daemons
    BY <1>0, <1>15, SidesFacts DEF Abort, Started
  <2>2. Stop(Acceptor(i)) /\ faults' \in 0..MaxFaults
    BY <1>0, <1>15 DEF Abort, TypeOK
  <2>. QED BY <2>1, <2>2, StopType
<1>16. CASE UNCHANGED vars
  BY <1>0, <1>16 DEF vars, TypeOK
<1>. QED BY <1>1, <1>2, <1>3, <1>4, <1>5, <1>6, <1>7, <1>8, <1>9, <1>10, <1>11, <1>12,
            <1>13, <1>14, <1>15, <1>16 DEF Next

---------------------------------------------------------------------------
(* The parts of an attempt come in their order.                            *)

\* The states of the handlers after the write of one of them has ended.
LEMMA ContinueFacts ==
  ASSUME TypeOK, NEW w \in Writes, NEW ok \in BOOLEAN, Continue(w, ok)
  PROVE  \A i \in Attempts :
           /\ accepting'[i] = IF w.side = "acceptor" /\ w.attempt = i
                              THEN IF ok THEN "answered" ELSE "refused"
                              ELSE accepting[i]
           /\ adding'[i] = IF w.side = "initiator" /\ w.attempt = i
                           THEN IF ok THEN "done" ELSE "refused"
                           ELSE adding[i]
<1>1. w.attempt \in Attempts /\ w.side \in Sides
  BY DEF Writes
<1>2. CASE w.side = "acceptor"
  BY <1>1, <1>2 DEF Continue, TypeOK
<1>3. CASE w.side = "initiator"
  BY <1>1, <1>3 DEF Continue, TypeOK
<1>. QED BY <1>1, <1>2, <1>3 DEF Sides

\* The end of a write keeps the order of every attempt.
LEMMA ContinueInOrder ==
  ASSUME Inv, NEW d \in Daemons, NEW w \in writes[d], NEW ok \in BOOLEAN, Continue(w, ok),
         UNCHANGED <<up, between, command>>
  PROVE  AttemptsInOrder'
<1>. SUFFICES ASSUME NEW i \in Attempts
              PROVE  /\ ~Started(i)' => accepting'[i] = "none" /\ adding'[i] = "none"
                     /\ Started(i)' => between'[i] \in Pairs
                     /\ adding'[i] \in {"asked", "writing", "done", "refused"}
                          => accepting'[i] = "answered"
                     /\ command'[i] = "paired" => adding'[i] = "done"
                     /\ accepting'[i] \in {"reading", "writing"} => up'[Acceptor(i)']
                     /\ adding'[i] \in {"asked", "writing"}
                          \/ (command'[i] = "asking" /\ adding'[i] = "none")
                          => up'[Initiator(i)']
  BY DEF AttemptsInOrder
<1>0. TypeOK /\ AttemptsInOrder
  BY DEF Inv, PairingInvariant
<1>1. /\ accepting'[i] = IF w.side = "acceptor" /\ w.attempt = i
                         THEN IF ok THEN "answered" ELSE "refused"
                         ELSE accepting[i]
      /\ adding'[i] = IF w.side = "initiator" /\ w.attempt = i
                      THEN IF ok THEN "done" ELSE "refused"
                      ELSE adding[i]
  BY <1>0, WriteFacts, ContinueFacts
<1>2. /\ w.attempt = i => Started(i) /\ Writing(i, w.side)
      /\ w.side \in Sides
  BY WriteFacts
<1>3. /\ Started(i)' = Started(i)
      /\ Acceptor(i)' = Acceptor(i)
      /\ Initiator(i)' = Initiator(i)
      /\ between'[i] = between[i]
      /\ command'[i] = command[i]
  BY DEF Started, Acceptor, Initiator
<1>4. CASE w.attempt = i /\ w.side = "acceptor"
  BY <1>0, <1>1, <1>2, <1>3, <1>4 DEF AttemptsInOrder, Writing
<1>5. CASE w.attempt = i /\ w.side = "initiator"
  BY <1>0, <1>1, <1>2, <1>3, <1>5 DEF AttemptsInOrder, Writing
<1>6. CASE w.attempt # i
  BY <1>0, <1>1, <1>3, <1>6 DEF AttemptsInOrder
<1>. QED BY <1>2, <1>4, <1>5, <1>6 DEF Sides

\* A daemon that stops takes the handlers with it that were not done.
LEMMA StopInOrder ==
  ASSUME Inv, NEW d \in Daemons, Stop(d)
  PROVE  AttemptsInOrder'
<1>. SUFFICES ASSUME NEW i \in Attempts
              PROVE  /\ ~Started(i)' => accepting'[i] = "none" /\ adding'[i] = "none"
                     /\ Started(i)' => between'[i] \in Pairs
                     /\ adding'[i] \in {"asked", "writing", "done", "refused"}
                          => accepting'[i] = "answered"
                     /\ command'[i] = "paired" => adding'[i] = "done"
                     /\ accepting'[i] \in {"reading", "writing"} => up'[Acceptor(i)']
                     /\ adding'[i] \in {"asked", "writing"}
                          \/ (command'[i] = "asking" /\ adding'[i] = "none")
                          => up'[Initiator(i)']
  BY DEF AttemptsInOrder
<1>0. TypeOK /\ AttemptsInOrder
  BY DEF Inv, PairingInvariant
<1>1. /\ accepting'[i] = IF accepting[i] \in {"reading", "writing"} /\ Acceptor(i) = d
                         THEN "gone" ELSE accepting[i]
      /\ adding'[i] = IF command[i] = "asking" /\ Initiator(i) = d THEN "gone"
                      ELSE IF adding[i] \in {"asked", "writing"} /\ Initiator(i) = d THEN "gone"
                      ELSE adding[i]
  BY DEF Stop
<1>2. /\ Started(i)' = Started(i)
      /\ Acceptor(i)' = Acceptor(i)
      /\ Initiator(i)' = Initiator(i)
      /\ between'[i] = between[i]
      /\ command'[i] = command[i]
  BY DEF Stop, Started, Acceptor, Initiator
<1>3. Started(i) => /\ up'[Acceptor(i)] = IF Acceptor(i) = d THEN FALSE ELSE up[Acceptor(i)]
                    /\ up'[Initiator(i)] = IF Initiator(i) = d THEN FALSE ELSE up[Initiator(i)]
  BY <1>0, SidesFacts DEF Stop, TypeOK
<1>4. ~Started(i) => accepting[i] = "none" /\ adding[i] = "none" /\ command[i] = "none"
  BY <1>0 DEF AttemptsInOrder, Started
<1>5. ~Started(i)' => accepting'[i] = "none" /\ adding'[i] = "none"
  BY <1>1, <1>2, <1>4
<1>6. command'[i] = "paired" => adding'[i] = "done"
  BY <1>0, <1>1, <1>2 DEF AttemptsInOrder
<1>7. adding'[i] \in {"asked", "writing", "done", "refused"} => accepting'[i] = "answered"
  BY <1>0, <1>1 DEF AttemptsInOrder
<1>8. accepting'[i] \in {"reading", "writing"} => up'[Acceptor(i)']
  BY <1>0, <1>1, <1>2, <1>3, <1>4 DEF AttemptsInOrder
<1>9. adding'[i] \in {"asked", "writing"} \/ (command'[i] = "asking" /\ adding'[i] = "none")
        => up'[Initiator(i)']
  BY <1>0, <1>1, <1>2, <1>3, <1>4 DEF AttemptsInOrder
<1>. QED BY <1>0, <1>2, <1>5, <1>6, <1>7, <1>8, <1>9 DEF AttemptsInOrder

\* Every step keeps the order.
LEMMA InOrderStep == Inv /\ [Next]_vars => AttemptsInOrder'
<1>. SUFFICES ASSUME Inv, [Next]_vars
              PROVE  AttemptsInOrder'
  OBVIOUS
<1>. USE DEF daemon, bounds, Started, Initiator, Acceptor
<1>0. TypeOK /\ AttemptsInOrder
  BY DEF Inv, PairingInvariant
<1>1. ASSUME NEW d \in Daemons, Ready(d) \/ CloseWindow(d)
      PROVE  AttemptsInOrder'
  BY <1>0, <1>1 DEF Ready, CloseWindow, AttemptsInOrder
<1>3. ASSUME NEW d \in Daemons, WriteEnds(d)
      PROVE  AttemptsInOrder'
  BY <1>3, ContinueInOrder DEF WriteEnds
<1>4. ASSUME NEW d \in Daemons, WriteFails(d)
      PROVE  AttemptsInOrder'
  BY <1>4, ContinueInOrder DEF WriteFails
<1>5. ASSUME NEW d \in Daemons, Crash(d)
      PROVE  AttemptsInOrder'
  BY <1>5, StopInOrder DEF Crash
<1>6. ASSUME NEW d \in Daemons, Start(d)
      PROVE  AttemptsInOrder'
  <2>1. \A e : up[e] => up'[e]
    BY <1>0, <1>6 DEF Start, TypeOK
  <2>. QED BY <1>0, <1>6, <2>1 DEF Start, AttemptsInOrder
<1>7. ASSUME NEW p \in Pairs, Remove(p[1], p[2])
      PROVE  AttemptsInOrder'
  BY <1>0, <1>7 DEF Remove, AttemptsInOrder
<1>8. ASSUME NEW i \in Attempts, NEW p \in Pairs, StartPair(i, p[1], p[2])
      PROVE  AttemptsInOrder'
  <2>1. /\ accepting[i] = "none"
        /\ adding[i] = "none"
        /\ up[p[1]]
        /\ between' = [between EXCEPT ![i] = <<p[1], p[2]>>]
        /\ command' = [command EXCEPT ![i] = "asking"]
        /\ UNCHANGED <<up, accepting, adding>>
    BY <1>0, <1>8 DEF StartPair, AttemptsInOrder
  <2>2. between'[i] = <<p[1], p[2]>> /\ <<p[1], p[2]>> \in Pairs
    BY <1>0, <2>1 DEF TypeOK, Pairs
  <2>3. command'[i] = "asking" /\ between'[i][1] = p[1]
    BY <1>0, <2>1, <2>2 DEF TypeOK
  <2>4. \A j \in Attempts \ {i} : between'[j] = between[j] /\ command'[j] = command[j]
    BY <1>0, <2>1 DEF TypeOK
  <2>. QED BY <1>0, <2>1, <2>2, <2>3, <2>4 DEF AttemptsInOrder
<1>9. ASSUME NEW i \in Attempts, CommandTimeout(i)
      PROVE  AttemptsInOrder'
  BY <1>0, <1>9 DEF CommandTimeout, TypeOK, AttemptsInOrder
<1>10. ASSUME NEW i \in Attempts, Arrive(i)
      PROVE  AttemptsInOrder'
  BY <1>0, <1>10 DEF Arrive, TypeOK, AttemptsInOrder
<1>11. ASSUME NEW i \in Attempts, Accept(i)
      PROVE  AttemptsInOrder'
  BY <1>0, <1>11 DEF Accept, TypeOK, AttemptsInOrder
<1>12. ASSUME NEW i \in Attempts, Answer(i)
      PROVE  AttemptsInOrder'
  BY <1>0, <1>12 DEF Answer, TypeOK, AttemptsInOrder
<1>13. ASSUME NEW i \in Attempts, Add(i)
      PROVE  AttemptsInOrder'
  BY <1>0, <1>13 DEF Add, TypeOK, AttemptsInOrder
<1>14. ASSUME NEW i \in Attempts, AddReply(i)
      PROVE  AttemptsInOrder'
  BY <1>0, <1>14 DEF AddReply, TypeOK, AttemptsInOrder
<1>15. ASSUME NEW i \in Attempts, Abort(i)
      PROVE  AttemptsInOrder'
  <2>1. Acceptor(i) \in Daemons
    BY <1>0, <1>15, SidesFacts DEF Abort
  <2>. QED BY <1>15, <2>1, StopInOrder DEF Abort
<1>16. CASE UNCHANGED vars
  BY <1>0, <1>16 DEF vars, AttemptsInOrder
<1>. QED BY <1>1, <1>3, <1>4, <1>5, <1>6, <1>7, <1>8, <1>9, <1>10, <1>11, <1>12,
            <1>13, <1>14, <1>15, <1>16 DEF Next

---------------------------------------------------------------------------
(* Attempts that are under way together.                                   *)

\* A disturbed attempt stays so; a started one keeps its daemons, does not come
\* back once it is over, and is not answered twice.
LEMMA AttemptsGoOn ==
  ASSUME Inv, [Next]_vars, NEW i \in Attempts
  PROVE  /\ undisturbed'[i] => undisturbed[i]
         /\ Started(i) => /\ Started(i)'
                          /\ between'[i] = between[i]
                          /\ ~UnderWay(i) => ~UnderWay(i)'
         /\ accepting[i] = "answered" => accepting'[i] = "answered"
<1>. DEFINE Goes == /\ undisturbed'[i] => undisturbed[i]
                    /\ Started(i) => /\ Started(i)'
                                     /\ between'[i] = between[i]
                                     /\ ~UnderWay(i) => ~UnderWay(i)'
                    /\ accepting[i] = "answered" => accepting'[i] = "answered"
<1>. SUFFICES Goes
  OBVIOUS
<1>. USE DEF daemon, bounds, Started, UnderWay, Disturb
<1>0. TypeOK /\ AttemptsInOrder
  BY DEF Inv, PairingInvariant
<1>1. ASSUME NEW d \in Daemons, Ready(d) \/ CloseWindow(d) \/ Start(d)
      PROVE  Goes
  BY <1>1 DEF Ready, CloseWindow, Start
<1>2. ASSUME NEW d \in Daemons, NEW w \in writes[d], NEW ok \in BOOLEAN, Continue(w, ok)
      PROVE  /\ accepting'[i] = "writing" => accepting[i] = "writing"
             /\ accepting'[i] \in {"none", "reading"} => accepting[i] = accepting'[i]
             /\ accepting[i] = "answered" => accepting'[i] = "answered"
             /\ adding'[i] \in {"asked", "writing"} => adding[i] = adding'[i]
  <2>1. w \in Writes /\ Writing(w.attempt, w.side)
    BY <1>2, WriteFacts
  <2>. QED BY <1>0, <1>2, <2>1, ContinueFacts DEF Writing
<1>3. ASSUME NEW d \in Daemons, WriteEnds(d)
      PROVE  Goes
  BY <1>2, <1>3 DEF WriteEnds
<1>4. ASSUME NEW d \in Daemons, WriteFails(d)
      PROVE  Goes
  BY <1>2, <1>4 DEF WriteFails
<1>5. ASSUME NEW d, Stop(d)
      PROVE  Goes
  BY <1>5 DEF Stop
<1>7. ASSUME NEW p \in Pairs, Remove(p[1], p[2])
      PROVE  Goes
  BY <1>7 DEF Remove
<1>8. ASSUME NEW j \in Attempts, NEW p \in Pairs, StartPair(j, p[1], p[2])
      PROVE  Goes
  <2>1. Started(i) => between'[i] = between[i] /\ command'[i] = command[i]
    BY <1>0, <1>8 DEF StartPair, TypeOK
  <2>. QED BY <1>8, <2>1 DEF StartPair
<1>9. ASSUME NEW j \in Attempts, CommandTimeout(j)
      PROVE  Goes
  BY <1>0, <1>9 DEF CommandTimeout, TypeOK
<1>10. ASSUME NEW j \in Attempts, Arrive(j)
      PROVE  Goes
  BY <1>0, <1>10 DEF Arrive, TypeOK
<1>11. ASSUME NEW j \in Attempts, Accept(j)
      PROVE  Goes
  BY <1>0, <1>11 DEF Accept, TypeOK
<1>12. ASSUME NEW j \in Attempts, Answer(j)
      PROVE  Goes
  BY <1>0, <1>12 DEF Answer, TypeOK
<1>13. ASSUME NEW j \in Attempts, Add(j)
      PROVE  Goes
  BY <1>0, <1>13 DEF Add, TypeOK
<1>14. ASSUME NEW j \in Attempts, AddReply(j)
      PROVE  Goes
  BY <1>0, <1>14 DEF AddReply, TypeOK
<1>16. CASE UNCHANGED vars
  BY <1>16 DEF vars
<1>. QED BY <1>1, <1>3, <1>4, <1>5, <1>7, <1>8, <1>9, <1>10, <1>11, <1>12,
            <1>13, <1>14, <1>16 DEF Next, Crash, Abort

\* An attempt starts only in StartPair.
LEMMA StartsOnce ==
  ASSUME Inv, [Next]_vars, NEW i \in Attempts, ~Started(i), Started(i)'
  PROVE  \E p \in Pairs : StartPair(i, p[1], p[2])
<1>0. TypeOK /\ AttemptsInOrder
  BY DEF Inv, PairingInvariant
<1>1. ASSUME NEW j \in Attempts, CommandTimeout(j) \/ Answer(j) \/ AddReply(j)
      PROVE  FALSE
  BY <1>0, <1>1 DEF CommandTimeout, Answer, AddReply, TypeOK, Started
<1>2. ASSUME NEW j \in Attempts, Arrive(j) \/ Accept(j) \/ Add(j)
      PROVE  FALSE
  BY <1>2 DEF Arrive, Accept, Add, Started
<1>3. ASSUME NEW d, Ready(d) \/ CloseWindow(d) \/ WriteEnds(d) \/ WriteFails(d)
                    \/ Stop(d) \/ Start(d)
      PROVE  FALSE
  BY <1>3 DEF Ready, CloseWindow, WriteEnds, WriteFails, Stop, Start, Started
<1>4. ASSUME NEW p \in Pairs, Remove(p[1], p[2])
      PROVE  FALSE
  BY <1>4 DEF Remove, Started
<1>5. ~UNCHANGED vars
  BY DEF vars, Started
<1>6. ASSUME NEW j \in Attempts, NEW p \in Pairs, StartPair(j, p[1], p[2])
      PROVE  j = i
  BY <1>0, <1>6 DEF StartPair, TypeOK, Started
<1>. QED BY <1>1, <1>2, <1>3, <1>4, <1>5, <1>6 DEF Next, Crash, Abort

\* Attempts that are under way with an undisturbed one keep apart from it.
LEMMA ApartStep == Inv /\ [Next]_vars => AttemptsApart'
<1>. SUFFICES ASSUME Inv, [Next]_vars,
                     NEW i \in Attempts, NEW j \in Attempts, i # j,
                     Started(i)', Started(j)', undisturbed'[i], UnderWay(j)'
              PROVE  /\ UnderWay(i)' =>
                          {Initiator(i)', Acceptor(i)'} \cap {Initiator(j)', Acceptor(j)'} = {}
                     /\ {Initiator(i)', Acceptor(i)'} # {Initiator(j)', Acceptor(j)'}
  BY DEF AttemptsApart
<1>. DEFINE Both(k) == {Initiator(k), Acceptor(k)}
<1>0. TypeOK
  BY DEF Inv
<1>1. undisturbed[i]
  BY AttemptsGoOn
<1>2. ASSUME NEW k \in Attempts, Started(k)
      PROVE  Initiator(k)' = Initiator(k) /\ Acceptor(k)' = Acceptor(k)
  BY <1>2, AttemptsGoOn DEF Initiator, Acceptor
<1>3. ASSUME NEW k \in Attempts, NEW p \in Pairs, StartPair(k, p[1], p[2])
      PROVE  /\ Initiator(k)' = p[1]
             /\ Acceptor(k)' = p[2]
             /\ ~Started(k)
             /\ k = i => \A m \in Attempts :
                           Started(m) /\ UnderWay(m) => Both(m) \cap {p[1], p[2]} = {}
             /\ k # i => /\ UnderWay(i) /\ Started(i) => Both(i) \cap {p[1], p[2]} = {}
                         /\ Started(i) => Both(i) # {p[1], p[2]}
  BY <1>0, <1>3 DEF StartPair, TypeOK, Disturb, Initiator, Acceptor
<1>4. CASE Started(i) /\ Started(j)
  <2>1. UnderWay(j) /\ (UnderWay(i)' => UnderWay(i))
    BY <1>4, AttemptsGoOn
  <2>2. /\ UnderWay(i) => Both(i) \cap Both(j) = {}
        /\ Both(i) # Both(j)
    BY <1>1, <1>4, <2>1 DEF Inv, PairingInvariant, AttemptsApart
  <2>. QED BY <1>2, <1>4, <2>1, <2>2
<1>5. CASE ~Started(i)
  <2>1. PICK p \in Pairs : StartPair(i, p[1], p[2])
    BY <1>5, StartsOnce
  <2>2. Started(j)
    <3>1. CASE ~Started(j)
      <4>1. PICK q \in Pairs : StartPair(j, q[1], q[2])
        BY <3>1, StartsOnce
      <4>2. command'[i] = command[i]
        BY <1>0, <4>1 DEF StartPair, TypeOK
      <4>. QED BY <1>5, <4>2 DEF Started
    <3>. QED BY <3>1
  <2>3. UnderWay(j)
    BY <2>2, AttemptsGoOn
  <2>4. Both(j) \cap {p[1], p[2]} = {}
    BY <1>3, <2>1, <2>2, <2>3
  <2>. QED BY <1>2, <1>3, <2>1, <2>2, <2>4
<1>6. CASE Started(i) /\ ~Started(j)
  <2>1. PICK p \in Pairs : StartPair(j, p[1], p[2])
    BY <1>6, StartsOnce
  <2>2. /\ UnderWay(i) => Both(i) \cap {p[1], p[2]} = {}
        /\ Both(i) # {p[1], p[2]}
    BY <1>3, <1>6, <2>1
  <2>3. UnderWay(i)' => UnderWay(i)
    BY <1>6, AttemptsGoOn
  <2>. QED BY <1>2, <1>3, <1>6, <2>1, <2>2, <2>3
<1>. QED BY <1>4, <1>5, <1>6

---------------------------------------------------------------------------
(* Writes under way.                                                       *)

\* A write that meets another one at its daemon is of a disturbed attempt, and
\* so is the other.
LEMMA MeetingDisturbs ==
  ASSUME Inv, NEW i \in Attempts, NEW side \in Sides, Started(i), UnderWay(i),
         ~Writing(i, side), NEW w \in writes[Daemon(i, side)]
  PROVE  w.attempt # i /\ ~undisturbed[i] /\ ~undisturbed[w.attempt]
<1>. DEFINE d == Daemon(i, side)
<1>0. TypeOK /\ AttemptsInOrder /\ AttemptsApart
  BY DEF Inv, PairingInvariant
<1>1. d \in Daemons
  BY <1>0, SidesFacts
<1>2. /\ w.attempt \in Attempts
      /\ w.side \in Sides
      /\ Started(w.attempt)
      /\ Writing(w.attempt, w.side)
      /\ d = Daemon(w.attempt, w.side)
      /\ UnderWay(w.attempt)
  BY <1>1, WriteFacts
<1>3. w.attempt # i
  <2>1. CASE w.attempt = i
    <3>1. w.side # side
      BY <1>2, <2>1
    <3>2. Daemon(i, w.side) # Daemon(i, side)
      BY <1>0, <1>2, <3>1, SidesFacts DEF Daemon, Sides
    <3>. QED BY <1>2, <2>1, <3>2
  <2>. QED BY <2>1
<1>4. /\ d \in {Initiator(i), Acceptor(i)}
      /\ d \in {Initiator(w.attempt), Acceptor(w.attempt)}
  BY <1>2 DEF Daemon
<1>. QED BY <1>0, <1>2, <1>3, <1>4 DEF AttemptsApart

\* The two calls of addPeer.
LEMMA AddPeerCalls ==
  ASSUME Inv, NEW i \in Attempts, NEW side \in Sides,
         \/ Accept(i) /\ side = "acceptor"
         \/ Add(i) /\ side = "initiator"
  PROVE  /\ AddPeer(i, side)
         /\ Started(i)
         /\ UnderWay(i)
         /\ up[Daemon(i, side)]
         /\ ~Writing(i, side)
         /\ ~Written(i, side)
         /\ Writing(i, side)'
         /\ \A j \in Attempts, other \in Sides :
              (j # i \/ other # side) => /\ Writing(j, other)' = Writing(j, other)
                                         /\ Written(j, other)' = Written(j, other)
         /\ side = "initiator" => accepting[i] = "answered"
         /\ UNCHANGED <<up, file, loops, between, command, undisturbed>>
<1>0. TypeOK /\ AttemptsInOrder
  BY DEF Inv, PairingInvariant
<1>1. CASE Accept(i) /\ side = "acceptor"
  BY <1>0, <1>1 DEF Accept, AttemptsInOrder, TypeOK, Started, UnderWay, Writing, Written,
                    Daemon, Sides
<1>2. CASE Add(i) /\ side = "initiator"
  BY <1>0, <1>2 DEF Add, AttemptsInOrder, TypeOK, Started, UnderWay, Writing, Written,
                    Daemon, Sides
<1>. QED BY <1>1, <1>2

\* A write is one that was there, still awaited; or addPeer has just begun it.
LEMMA WritesGoOn ==
  ASSUME Inv, [Next]_vars, NEW x \in Daemons, NEW m \in writes'[x]
  PROVE  \/ \E w \in writes[x] :
              /\ m.content = w.content
              /\ m.attempt = w.attempt
              /\ m.side = w.side
              /\ m.mixed => w.mixed \/ ~undisturbed'[w.attempt]
              /\ Writing(w.attempt, w.side)'
         \/ /\ m \in Writes
            /\ \/ Accept(m.attempt) /\ m.side = "acceptor"
               \/ Add(m.attempt) /\ m.side = "initiator"
            /\ x = Daemon(m.attempt, m.side)
            /\ m.mixed = (writes[x] # {})
            /\ m.content[Other(m.attempt, m.side)] = NewEntry(m.attempt, m.side)
            /\ \A e \in Daemons \ {Other(m.attempt, m.side)} : m.content[e] = memory[x][e]
<1>. DEFINE Same(w) == /\ m.content = w.content
                       /\ m.attempt = w.attempt
                       /\ m.side = w.side
                       /\ m.mixed => w.mixed \/ ~undisturbed'[w.attempt]
                       /\ Writing(w.attempt, w.side)'
            Begun == /\ m \in Writes
                     /\ \/ Accept(m.attempt) /\ m.side = "acceptor"
                        \/ Add(m.attempt) /\ m.side = "initiator"
                     /\ x = Daemon(m.attempt, m.side)
                     /\ m.mixed = (writes[x] # {})
                     /\ m.content[Other(m.attempt, m.side)] = NewEntry(m.attempt, m.side)
                     /\ \A e \in Daemons \ {Other(m.attempt, m.side)} :
                          m.content[e] = memory[x][e]
            Goal == (\E w \in writes[x] : Same(w)) \/ Begun
<1>. SUFFICES Goal
  OBVIOUS
<1>0. TypeOK /\ AttemptsInOrder
  BY DEF Inv, PairingInvariant
<1>1. ASSUME m \in writes[x], Writing(m.attempt, m.side)'
      PROVE  Goal
  BY <1>1
<1>2. ASSUME UNCHANGED <<writes, accepting, adding>>
      PROVE  Goal
  BY <1>1, <1>2, WriteFacts DEF Writing
<1>3. ASSUME NEW i \in Attempts, NEW side \in Sides,
             \/ Accept(i) /\ side = "acceptor"
             \/ Add(i) /\ side = "initiator"
      PROVE  Goal
  <2>. DEFINE d == Daemon(i, side)
  <2>1. /\ AddPeer(i, side)
        /\ Started(i)
        /\ UnderWay(i)
        /\ ~Writing(i, side)
        /\ Writing(i, side)'
        /\ \A j \in Attempts, other \in Sides :
             (j # i \/ other # side) => Writing(j, other)' = Writing(j, other)
        /\ UNCHANGED undisturbed
    BY <1>3, AddPeerCalls
  <2>2. PICK new \in Writes :
           LET e == Other(i, side) IN
           /\ new.attempt = i
           /\ new.side = side
           /\ new.mixed = (writes[d] # {})
           /\ new.content \in [Daemons -> Entries]
           /\ new.content[e] = NewEntry(i, side)
           /\ \A y \in Daemons \ {e} : new.content[y] = memory[d][y]
           /\ memory' = [memory EXCEPT ![d] = new.content]
           /\ writes' = [writes EXCEPT ![d] = Mixed(writes[d]) \cup {new}]
    BY <1>0, <2>1, AddPeerFacts
  <2>3. d \in Daemons
    BY <1>0, <2>1, SidesFacts
  <2>4. CASE x # d
    <3>1. m \in writes[x]
      BY <1>0, <2>2, <2>4 DEF TypeOK
    <3>2. Writing(m.attempt, m.side) /\ m.attempt \in Attempts /\ m.side \in Sides
      BY <3>1, WriteFacts
    <3>. QED BY <1>1, <2>1, <3>1, <3>2
  <2>5. CASE x = d /\ m = new
    BY <1>3, <2>2, <2>5
  <2>6. CASE x = d /\ m # new
    <3>1. m \in Mixed(writes[d]) /\ writes[d] \in SUBSET Writes
      BY <1>0, <2>2, <2>3, <2>6 DEF TypeOK
    <3>2. PICK w \in writes[d] :
             /\ m.content = w.content
             /\ m.attempt = w.attempt
             /\ m.side = w.side
      BY <3>1, MixedFacts
    <3>3. w.attempt # i /\ ~undisturbed[w.attempt]
      BY <2>1, MeetingDisturbs
    <3>4. Writing(w.attempt, w.side) /\ w.attempt \in Attempts /\ w.side \in Sides
      BY <2>3, WriteFacts
    <3>5. Same(w)
      BY <2>1, <3>2, <3>3, <3>4
    <3>. QED BY <2>6, <3>5
  <2>. QED BY <2>4, <2>5, <2>6
<1>4. ASSUME NEW d \in Daemons, NEW w \in writes[d], NEW ok \in BOOLEAN, Continue(w, ok),
             writes' = [writes EXCEPT ![d] = @ \ {w}]
      PROVE  Goal
  <2>1. m \in writes[x] /\ (x = d => m # w)
    BY <1>0, <1>4 DEF TypeOK
  <2>2. m.attempt # w.attempt \/ m.side # w.side
    <3>1. CASE x = d
      BY <2>1, <3>1 DEF Inv, PairingInvariant, WritesOnce
    <3>2. CASE x # d
      BY <2>1, <3>2, WriteFacts
    <3>. QED BY <3>1, <3>2
  <2>3. Writing(m.attempt, m.side) /\ m.attempt \in Attempts /\ m.side \in Sides
    BY <2>1, WriteFacts
  <2>4. w \in Writes /\ w.side \in Sides
    BY WriteFacts
  <2>5. Writing(m.attempt, m.side)'
    BY <1>0, <1>4, <2>2, <2>3, <2>4, ContinueFacts DEF Writing, Sides
  <2>. QED BY <1>1, <2>1, <2>5
<1>5. ASSUME NEW d \in Daemons, Stop(d)
      PROVE  Goal
  <2>1. x # d /\ m \in writes[x]
    BY <1>0, <1>5 DEF Stop, TypeOK
  <2>2. /\ Writing(m.attempt, m.side)
        /\ Started(m.attempt)
        /\ m.attempt \in Attempts
        /\ m.side \in Sides
        /\ x = Daemon(m.attempt, m.side)
    BY <2>1, WriteFacts
  <2>3. CASE m.side = "acceptor"
    <3>1. accepting'[m.attempt] = accepting[m.attempt]
      BY <1>5, <2>1, <2>2, <2>3 DEF Stop, Daemon
    <3>. QED BY <1>1, <2>1, <2>2, <2>3, <3>1 DEF Writing
  <2>4. CASE m.side = "initiator"
    <3>1. adding'[m.attempt] = adding[m.attempt]
      BY <1>5, <2>1, <2>2, <2>4 DEF Stop, Daemon
    <3>. QED BY <1>1, <2>1, <2>2, <2>4, <3>1 DEF Writing
  <2>. QED BY <2>2, <2>3, <2>4 DEF Sides
<1>6. ASSUME NEW p \in Pairs, Remove(p[1], p[2])
      PROVE  Goal
  <2>. DEFINE d == p[1]
  <2>1. /\ writes' = [writes EXCEPT ![d] = Mixed(@)]
        /\ UNCHANGED <<accepting, adding>>
        /\ \A j \in Attempts : Involves(j, d) /\ writes[d] # {} => ~undisturbed'[j]
    BY <1>6 DEF Remove, Disturb
  <2>2. CASE x # d
    <3>1. m \in writes[x]
      BY <1>0, <2>1, <2>2 DEF TypeOK
    <3>. QED BY <1>1, <2>1, <3>1, WriteFacts DEF Writing
  <2>3. CASE x = d
    <3>1. m \in Mixed(writes[x]) /\ writes[x] \in SUBSET Writes
      BY <1>0, <2>1, <2>3 DEF TypeOK
    <3>2. PICK w \in writes[x] :
             /\ m.content = w.content
             /\ m.attempt = w.attempt
             /\ m.side = w.side
      BY <3>1, MixedFacts
    <3>3. ~undisturbed'[w.attempt] /\ Writing(w.attempt, w.side)
      BY <2>1, <2>3, <3>2, WriteFacts
    <3>4. Writing(w.attempt, w.side)'
      BY <2>1, <3>3 DEF Writing
    <3>. QED BY <3>2, <3>3, <3>4
  <2>. QED BY <2>2, <2>3
<1>7. ASSUME NEW i \in Attempts, CommandTimeout(i) \/ Arrive(i) \/ Answer(i) \/ AddReply(i)
      PROVE  Goal
  <2>1. m \in writes[x]
    BY <1>7 DEF CommandTimeout, Arrive, Answer, AddReply, daemon
  <2>2. Writing(m.attempt, m.side) /\ m.attempt \in Attempts /\ m.side \in Sides
    BY <2>1, WriteFacts
  <2>3. CASE CommandTimeout(i) \/ Arrive(i)
    BY <1>0, <1>1, <2>1, <2>2, <2>3 DEF CommandTimeout, Arrive, TypeOK, Writing
  <2>4. CASE Answer(i) \/ AddReply(i)
    BY <1>0, <1>1, <2>1, <2>2, <2>4 DEF Answer, AddReply, TypeOK, Writing
  <2>. QED BY <1>7, <2>3, <2>4
<1>8. CASE Next
  <2>1. ASSUME NEW d \in Daemons, Ready(d) \/ CloseWindow(d) \/ Start(d)
        PROVE  Goal
    BY <1>2, <2>1 DEF Ready, CloseWindow, Start
  <2>2. ASSUME NEW d \in Daemons, WriteEnds(d)
        PROVE  Goal
    BY <1>4, <2>2 DEF WriteEnds
  <2>3. ASSUME NEW d \in Daemons, WriteFails(d)
        PROVE  Goal
    BY <1>4, <2>3 DEF WriteFails
  <2>4. ASSUME NEW d \in Daemons, Crash(d)
        PROVE  Goal
    BY <1>5, <2>4 DEF Crash
  <2>5. ASSUME NEW i \in Attempts, Abort(i)
        PROVE  Goal
    <3>1. Acceptor(i) \in Daemons
      BY <1>0, <2>5, SidesFacts DEF Abort, Started
    <3>. QED BY <1>5, <2>5, <3>1 DEF Abort
  <2>6. ASSUME NEW i \in Attempts, NEW p \in Pairs, StartPair(i, p[1], p[2])
        PROVE  Goal
    BY <1>2, <2>6 DEF StartPair, daemon
  <2>7. ASSUME NEW i \in Attempts, Accept(i)
        PROVE  Goal
    BY <1>3, <2>7 DEF Sides
  <2>8. ASSUME NEW i \in Attempts, Add(i)
        PROVE  Goal
    BY <1>3, <2>8 DEF Sides
  <2>. HIDE DEF Goal
  <2>. QED BY <1>6, <1>7, <1>8, <2>1, <2>2, <2>3, <2>4, <2>5, <2>6, <2>7, <2>8 DEF Next
<1>9. CASE UNCHANGED vars
  BY <1>2, <1>9 DEF vars
<1>. QED BY <1>8, <1>9

\* A write under way stays one that a handler waits for.
LEMMA AwaitedStep == Inv /\ [Next]_vars => WritesAwaited'
<1>. SUFFICES ASSUME Inv, [Next]_vars,
                     NEW x \in Daemons, NEW m \in writes'[x]
              PROVE  /\ Started(m.attempt)'
                     /\ Writing(m.attempt, m.side)'
                     /\ x = Daemon(m.attempt, m.side)'
                     /\ undisturbed'[m.attempt] => ~m.mixed
  BY DEF WritesAwaited
<1>1. ASSUME NEW i \in Attempts, NEW side \in Sides, Started(i)
      PROVE  /\ Started(i)'
             /\ Daemon(i, side)' = Daemon(i, side)
             /\ undisturbed'[i] => undisturbed[i]
  BY <1>1, AttemptsGoOn DEF Daemon, Initiator, Acceptor
<1>2. ASSUME NEW w \in writes[x],
             m.attempt = w.attempt,
             m.side = w.side,
             m.mixed => w.mixed \/ ~undisturbed'[w.attempt],
             Writing(w.attempt, w.side)'
      PROVE  /\ Started(m.attempt)'
             /\ Writing(m.attempt, m.side)'
             /\ x = Daemon(m.attempt, m.side)'
             /\ undisturbed'[m.attempt] => ~m.mixed
  <2>1. /\ m.attempt \in Attempts
        /\ m.side \in Sides
        /\ Started(m.attempt)
        /\ x = Daemon(m.attempt, m.side)
    BY <1>2, WriteFacts
  <2>2. undisturbed[w.attempt] => ~w.mixed
    BY DEF Inv, PairingInvariant, WritesAwaited
  <2>. QED BY <1>1, <1>2, <2>1, <2>2
<1>3. ASSUME m \in Writes,
             \/ Accept(m.attempt) /\ m.side = "acceptor"
             \/ Add(m.attempt) /\ m.side = "initiator",
             x = Daemon(m.attempt, m.side),
             m.mixed = (writes[x] # {})
      PROVE  /\ Started(m.attempt)'
             /\ Writing(m.attempt, m.side)'
             /\ x = Daemon(m.attempt, m.side)'
             /\ undisturbed'[m.attempt] => ~m.mixed
  <2>1. m.attempt \in Attempts /\ m.side \in Sides
    BY <1>3 DEF Writes
  <2>2. /\ Started(m.attempt)
        /\ UnderWay(m.attempt)
        /\ ~Writing(m.attempt, m.side)
        /\ Writing(m.attempt, m.side)'
    BY <1>3, <2>1, AddPeerCalls
  <2>3. undisturbed[m.attempt] => writes[x] = {}
    BY <1>3, <2>1, <2>2, MeetingDisturbs
  <2>. QED BY <1>1, <1>3, <2>1, <2>2, <2>3
<1>. QED BY <1>2, <1>3, WritesGoOn

\* The writes of a daemon lose one, are mixed, or are mixed with one more.
LEMMA WritesShape ==
  ASSUME Inv, [Next]_vars, NEW x \in Daemons
  PROVE  \/ writes'[x] \subseteq writes[x]
         \/ writes'[x] = Mixed(writes[x])
         \/ \E new \in Writes :
              /\ writes'[x] = Mixed(writes[x]) \cup {new}
              /\ \A w \in writes[x] : w.attempt # new.attempt
<1>. DEFINE Shape == \/ writes'[x] \subseteq writes[x]
                     \/ writes'[x] = Mixed(writes[x])
                     \/ \E new \in Writes :
                          /\ writes'[x] = Mixed(writes[x]) \cup {new}
                          /\ \A w \in writes[x] : w.attempt # new.attempt
<1>. SUFFICES Shape
  OBVIOUS
<1>0. TypeOK /\ AttemptsInOrder
  BY DEF Inv, PairingInvariant
<1>1. ASSUME NEW i \in Attempts, NEW side \in Sides,
             \/ Accept(i) /\ side = "acceptor"
             \/ Add(i) /\ side = "initiator"
      PROVE  Shape
  <2>. DEFINE d == Daemon(i, side)
  <2>1. /\ AddPeer(i, side)
        /\ Started(i)
        /\ UnderWay(i)
        /\ ~Writing(i, side)
    BY <1>1, AddPeerCalls
  <2>2. PICK new \in Writes : /\ new.attempt = i
                              /\ writes' = [writes EXCEPT ![d] = Mixed(writes[d]) \cup {new}]
    BY <1>0, <2>1, AddPeerFacts
  <2>3. \A w \in writes[d] : w.attempt # new.attempt
    BY <2>1, <2>2, MeetingDisturbs
  <2>4. CASE x = d
    BY <1>0, <2>2, <2>3, <2>4 DEF TypeOK
  <2>5. CASE x # d
    BY <1>0, <2>2, <2>5 DEF TypeOK
  <2>. QED BY <2>4, <2>5
<1>2. ASSUME UNCHANGED writes
      PROVE  Shape
  BY <1>2
<1>3. ASSUME NEW d \in Daemons, WriteEnds(d) \/ WriteFails(d)
      PROVE  Shape
  <2>1. PICK w \in writes[d] : writes' = [writes EXCEPT ![d] = @ \ {w}]
    BY <1>3 DEF WriteEnds, WriteFails
  <2>. QED BY <1>0, <2>1 DEF TypeOK
<1>4. ASSUME NEW d, Stop(d)
      PROVE  Shape
  <2>1. writes' = [writes EXCEPT ![d] = {}]
    BY <1>4 DEF Stop
  <2>. QED BY <1>0, <2>1 DEF TypeOK
<1>5. ASSUME NEW p \in Pairs, Remove(p[1], p[2])
      PROVE  Shape
  <2>1. writes' = [writes EXCEPT ![p[1]] = Mixed(writes[p[1]])]
    BY <1>5 DEF Remove
  <2>2. CASE x = p[1]
    BY <1>0, <2>1, <2>2 DEF TypeOK
  <2>3. CASE x # p[1]
    BY <1>0, <2>1, <2>3 DEF TypeOK
  <2>. QED BY <2>2, <2>3
<1>6. CASE Next
  <2>1. ASSUME NEW d \in Daemons, Ready(d) \/ CloseWindow(d) \/ Start(d)
        PROVE  UNCHANGED writes
    BY <2>1 DEF Ready, CloseWindow, Start
  <2>2. ASSUME NEW i \in Attempts, NEW p \in Pairs, StartPair(i, p[1], p[2])
        PROVE  UNCHANGED writes
    BY <2>2 DEF StartPair, daemon
  <2>3. ASSUME NEW i \in Attempts, CommandTimeout(i) \/ Arrive(i) \/ Answer(i) \/ AddReply(i)
        PROVE  UNCHANGED writes
    BY <2>3 DEF CommandTimeout, Arrive, Answer, AddReply, daemon
  <2>4. ASSUME NEW i \in Attempts, Accept(i) \/ Add(i)
        PROVE  Shape
    BY <1>1, <2>4 DEF Sides
  <2>. HIDE DEF Shape
  <2>. QED BY <1>2, <1>3, <1>4, <1>5, <1>6, <2>1, <2>2, <2>3, <2>4 DEF Next, Crash, Abort
<1>7. CASE UNCHANGED vars
  BY <1>2, <1>7 DEF vars
<1>. QED BY <1>6, <1>7

\* A handler waits for one write only.
LEMMA OnceStep == Inv /\ [Next]_vars => WritesOnce'
<1>. SUFFICES ASSUME Inv, [Next]_vars,
                     NEW x \in Daemons, NEW v \in writes'[x], NEW w \in writes'[x],
                     v.attempt = w.attempt, v.side = w.side
              PROVE  v = w
  BY DEF WritesOnce
<1>1. /\ writes[x] \in SUBSET Writes
      /\ \A v0, w0 \in writes[x] : (v0.attempt = w0.attempt /\ v0.side = w0.side) => v0 = w0
  BY DEF Inv, PairingInvariant, WritesOnce, TypeOK
<1>2. \A v0, w0 \in Mixed(writes[x]) :
        (v0.attempt = w0.attempt /\ v0.side = w0.side) => v0 = w0
  BY <1>1, MixedFacts
<1>3. CASE writes'[x] \subseteq writes[x] \/ writes'[x] = Mixed(writes[x])
  BY <1>1, <1>2, <1>3
<1>4. ASSUME NEW new \in Writes,
             writes'[x] = Mixed(writes[x]) \cup {new},
             \A w0 \in writes[x] : w0.attempt # new.attempt
      PROVE  v = w
  <2>1. \A m \in Mixed(writes[x]) : m.attempt # new.attempt
    BY <1>1, <1>4, MixedFacts
  <2>. QED BY <1>2, <1>4, <2>1
<1>. QED BY <1>3, <1>4, WritesShape

---------------------------------------------------------------------------
(* The tokens of an attempt follow its answer.                             *)

\* The contents that a file may have after a step are those that it had, or
\* that were on their way to it, or empty entries.
LEMMA FilesGoOn ==
  ASSUME Inv, [Next]_vars, NEW x \in Daemons, NEW e \in Daemons, file'[x] # Torn
  PROVE  \/ file'[x][e] = NoEntry
         \/ file[x] # Torn /\ file'[x][e] = file[x][e]
         \/ \E w \in writes[x] : file'[x][e] = w.content[e]
<1>. DEFINE Goal == \/ file'[x][e] = NoEntry
                    \/ file[x] # Torn /\ file'[x][e] = file[x][e]
                    \/ \E w \in writes[x] : file'[x][e] = w.content[e]
<1>. SUFFICES Goal
  OBVIOUS
<1>0. TypeOK /\ AttemptsInOrder
  BY DEF Inv, PairingInvariant
<1>1. ASSUME UNCHANGED file
      PROVE  Goal
  BY <1>1
<1>2. ASSUME NEW d, NEW f \in Remains(d) \cup {Torn}, file' = [file EXCEPT ![d] = f]
      PROVE  Goal
  <2>1. CASE x = d
    <3>1. file'[x] = f
      BY <1>0, <1>2, <2>1 DEF TypeOK
    <3>2. f \in {file[x], NoPeers} \cup {w.content : w \in writes[x]}
      BY <1>2, <2>1, <3>1 DEF Remains
    <3>3. NoPeers[e] = NoEntry
      BY DEF NoPeers
    <3>. QED BY <3>1, <3>2, <3>3
  <2>2. CASE x # d
    BY <1>0, <1>2, <2>2 DEF TypeOK
  <2>. QED BY <2>1, <2>2
<1>3. ASSUME NEW d, Stop(d)
      PROVE  Goal
  <2>1. PICK f \in Remains(d) : file' = [file EXCEPT ![d] = f]
    BY <1>3 DEF Stop, Remains
  <2>. QED BY <1>2, <2>1
<1>4. ASSUME NEW d \in Daemons, WriteEnds(d)
      PROVE  Goal
  <2>1. PICK f \in Remains(d) \cup {Torn} : file' = [file EXCEPT ![d] = f]
    BY <1>4 DEF WriteEnds, Remains
  <2>. QED BY <1>2, <2>1
<1>5. ASSUME NEW d \in Daemons, WriteFails(d)
      PROVE  Goal
  <2>1. PICK f \in Remains(d) \cup {Torn} : file' = [file EXCEPT ![d] = f]
    BY <1>5 DEF WriteFails
  <2>. QED BY <1>2, <2>1
<1>6. ASSUME NEW p \in Pairs, Remove(p[1], p[2])
      PROVE  Goal
  <2>1. /\ file' = [file EXCEPT ![p[1]][p[2]] = NoEntry]
        /\ file[p[1]] # Torn
    BY <1>6 DEF Remove
  <2>2. CASE x # p[1]
    BY <1>0, <2>1, <2>2 DEF TypeOK
  <2>3. CASE x = p[1]
    <3>1. /\ file'[x] = [file[x] EXCEPT ![p[2]] = NoEntry]
          /\ file[x] \in [Daemons -> Entries]
      BY <1>0, <2>1, <2>3 DEF TypeOK
    <3>2. file'[x][e] = IF e = p[2] THEN NoEntry ELSE file[x][e]
      BY <3>1
    <3>. QED BY <2>1, <2>3, <3>2
  <2>. QED BY <2>2, <2>3
<1>7. CASE Next
  <2>1. ASSUME NEW d \in Daemons, Ready(d) \/ CloseWindow(d) \/ Start(d)
        PROVE  UNCHANGED file
    BY <2>1 DEF Ready, CloseWindow, Start
  <2>2. ASSUME NEW i \in Attempts, NEW p \in Pairs, StartPair(i, p[1], p[2])
        PROVE  UNCHANGED file
    BY <2>2 DEF StartPair, daemon
  <2>3. ASSUME NEW i \in Attempts, \/ CommandTimeout(i) \/ Arrive(i) \/ Answer(i)
                                   \/ AddReply(i) \/ Accept(i) \/ Add(i)
        PROVE  UNCHANGED file
    BY <2>3 DEF CommandTimeout, Arrive, Answer, AddReply, Accept, Add, daemon
  <2>. HIDE DEF Goal
  <2>. QED BY <1>1, <1>3, <1>4, <1>5, <1>6, <1>7, <2>1, <2>2, <2>3 DEF Next, Crash, Abort
<1>8. CASE UNCHANGED vars
  BY <1>1, <1>8 DEF vars
<1>. QED BY <1>7, <1>8

\* What a daemon that runs has in memory is what it had, or what its file had
\* when it was started, or what addPeer has just put there.
LEMMA MemoryGoesOn ==
  ASSUME Inv, [Next]_vars, NEW x \in Daemons, NEW e \in Daemons
  PROVE  \/ memory'[x][e] = NoEntry /\ ~up'[x]
         \/ memory'[x][e] = memory[x][e] /\ (up'[x] => up[x])
         \/ ~up[x] /\ file[x] # Torn /\ memory'[x][e] = file[x][e]
         \/ \E i \in Attempts, side \in Sides :
              /\ \/ Accept(i) /\ side = "acceptor"
                 \/ Add(i) /\ side = "initiator"
              /\ x = Daemon(i, side)
              /\ e = Other(i, side)
              /\ memory'[x][e] = NewEntry(i, side)
<1>. DEFINE Goal ==
         \/ memory'[x][e] = NoEntry /\ ~up'[x]
         \/ memory'[x][e] = memory[x][e] /\ (up'[x] => up[x])
         \/ ~up[x] /\ file[x] # Torn /\ memory'[x][e] = file[x][e]
         \/ \E i \in Attempts, side \in Sides :
              /\ \/ Accept(i) /\ side = "acceptor"
                 \/ Add(i) /\ side = "initiator"
              /\ x = Daemon(i, side)
              /\ e = Other(i, side)
              /\ memory'[x][e] = NewEntry(i, side)
<1>. SUFFICES Goal
  OBVIOUS
<1>0. TypeOK /\ AttemptsInOrder
  BY DEF Inv, PairingInvariant
<1>1. ASSUME UNCHANGED <<memory, up>>
      PROVE  Goal
  BY <1>1
<1>2. ASSUME NEW i \in Attempts, NEW side \in Sides,
             \/ Accept(i) /\ side = "acceptor"
             \/ Add(i) /\ side = "initiator"
      PROVE  Goal
  <2>. DEFINE d == Daemon(i, side)
  <2>1. AddPeer(i, side) /\ Started(i) /\ UNCHANGED up
    BY <1>2, AddPeerCalls
  <2>2. PICK new \in Writes :
           LET o == Other(i, side) IN
           /\ new.content[o] = NewEntry(i, side)
           /\ \A y \in Daemons \ {o} : new.content[y] = memory[d][y]
           /\ memory' = [memory EXCEPT ![d] = new.content]
    BY <1>0, <2>1, AddPeerFacts
  <2>3. CASE x # d
    BY <1>0, <2>1, <2>2, <2>3 DEF TypeOK
  <2>4. CASE x = d
    <3>1. memory'[x][e] = new.content[e]
      BY <1>0, <2>2, <2>4 DEF TypeOK
    <3>2. CASE e = Other(i, side)
      BY <1>2, <2>2, <2>4, <3>1, <3>2
    <3>3. CASE e # Other(i, side)
      BY <2>1, <2>2, <2>4, <3>1, <3>3
    <3>. QED BY <3>2, <3>3
  <2>. QED BY <2>3, <2>4
<1>3. ASSUME NEW d, Stop(d)
      PROVE  Goal
  <2>1. memory' = [memory EXCEPT ![d] = NoPeers] /\ up' = [up EXCEPT ![d] = FALSE]
    BY <1>3 DEF Stop
  <2>2. CASE x = d
    <3>1. memory'[x] = NoPeers /\ ~up'[x]
      BY <1>0, <2>1, <2>2 DEF TypeOK
    <3>. QED BY <3>1 DEF NoPeers
  <2>3. CASE x # d
    BY <1>0, <2>1, <2>3 DEF TypeOK
  <2>. QED BY <2>2, <2>3
<1>4. ASSUME NEW d \in Daemons, Start(d)
      PROVE  Goal
  <2>1. CASE x = d
    BY <1>0, <1>4, <2>1 DEF Start, TypeOK
  <2>2. CASE x # d
    BY <1>0, <1>4, <2>2 DEF Start, TypeOK
  <2>. QED BY <2>1, <2>2
<1>5. CASE Next
  <2>1. ASSUME NEW d \in Daemons, Ready(d) \/ CloseWindow(d) \/ WriteEnds(d) \/ WriteFails(d)
        PROVE  UNCHANGED <<memory, up>>
    BY <2>1 DEF Ready, CloseWindow, WriteEnds, WriteFails
  <2>2. ASSUME NEW i \in Attempts, NEW p \in Pairs, StartPair(i, p[1], p[2])
        PROVE  UNCHANGED <<memory, up>>
    BY <2>2 DEF StartPair, daemon
  <2>3. ASSUME NEW i \in Attempts, CommandTimeout(i) \/ Arrive(i) \/ Answer(i) \/ AddReply(i)
        PROVE  UNCHANGED <<memory, up>>
    BY <2>3 DEF CommandTimeout, Arrive, Answer, AddReply, daemon
  <2>4. ASSUME NEW i \in Attempts, Accept(i) \/ Add(i)
        PROVE  Goal
    BY <1>2, <2>4 DEF Sides
  <2>5. ASSUME NEW p \in Pairs, Remove(p[1], p[2])
        PROVE  UNCHANGED <<memory, up>>
    BY <2>5 DEF Remove
  <2>. HIDE DEF Goal
  <2>. QED BY <1>1, <1>3, <1>4, <1>5, <2>1, <2>2, <2>3, <2>4, <2>5 DEF Next, Crash, Abort
<1>6. CASE UNCHANGED vars
  BY <1>1, <1>6 DEF vars
<1>. QED BY <1>5, <1>6

\* The initiator's tokens are at the initiator only after the answer.
LEMMA FollowStep == Inv /\ [Next]_vars => TokensFollow'
<1>. SUFFICES ASSUME Inv, [Next]_vars,
                     NEW d \in Daemons, NEW e \in Daemons, NEW i \in Attempts,
                     \/ memory'[d][e] = NewEntry(i, "initiator")
                     \/ file'[d] # Torn /\ file'[d][e] = NewEntry(i, "initiator")
                     \/ \E w \in writes'[d] : w.content[e] = NewEntry(i, "initiator")
              PROVE  accepting'[i] = "answered"
  BY DEF TokensFollow, NewEntry
<1>. DEFINE entry == NewEntry(i, "initiator")
            Had == \/ memory[d][e] = entry
                   \/ file[d] # Torn /\ file[d][e] = entry
                   \/ \E w \in writes[d] : w.content[e] = entry
<1>0. "initiator" \in Sides
  BY DEF Sides
<1>1. entry # NoEntry
  BY <1>0, NewEntryFacts
<1>2. ASSUME Had
      PROVE  accepting'[i] = "answered"
  <2>1. accepting[i] = "answered"
    BY <1>2 DEF Inv, PairingInvariant, TokensFollow
  <2>. QED BY <2>1, AttemptsGoOn
<1>3. ASSUME NEW j \in Attempts, NEW side \in Sides,
             \/ Accept(j) /\ side = "acceptor"
             \/ Add(j) /\ side = "initiator",
             NewEntry(j, side) = entry
      PROVE  accepting'[i] = "answered"
  <2>1. j = i /\ side = "initiator"
    BY <1>0, <1>3, NewEntryFacts
  <2>2. accepting[i] = "answered"
    BY <1>3, <2>1, AddPeerCalls
  <2>. QED BY <2>2, AttemptsGoOn
<1>. HIDE DEF entry
<1>4. CASE memory'[d][e] = entry
  BY <1>1, <1>2, <1>3, <1>4, MemoryGoesOn
<1>5. CASE file'[d] # Torn /\ file'[d][e] = entry
  BY <1>1, <1>2, <1>5, FilesGoOn
<1>6. CASE \E w \in writes'[d] : w.content[e] = entry
  <2>1. PICK m \in writes'[d] : m.content[e] = entry
    BY <1>6
  <2>2. ASSUME NEW w \in writes[d], m.content = w.content
        PROVE  Had
    BY <2>1, <2>2
  <2>3. ASSUME m \in Writes,
               \/ Accept(m.attempt) /\ m.side = "acceptor"
               \/ Add(m.attempt) /\ m.side = "initiator",
               m.content[Other(m.attempt, m.side)] = NewEntry(m.attempt, m.side),
               \A o \in Daemons \ {Other(m.attempt, m.side)} : m.content[o] = memory[d][o]
        PROVE  accepting'[i] = "answered"
    <3>1. m.attempt \in Attempts /\ m.side \in Sides
      BY <2>3 DEF Writes
    <3>2. CASE e = Other(m.attempt, m.side)
      BY <1>3, <2>1, <2>3, <3>1, <3>2
    <3>3. CASE e # Other(m.attempt, m.side)
      BY <1>2, <2>1, <2>3, <3>3
    <3>. QED BY <3>2, <3>3
  <2>. QED BY <1>2, <2>2, <2>3, WritesGoOn
<1>. QED BY <1>4, <1>5, <1>6 DEF entry

---------------------------------------------------------------------------
(* What an undisturbed attempt has stored.                                 *)

\* The write of an undisturbed attempt is the only one at its daemon, or the
\* attempt does not wait for one of them.
LEMMA OwnWrite ==
  ASSUME Inv, NEW i \in Attempts, NEW side \in Sides, Started(i),
         NEW w \in writes[Daemon(i, side)], w.attempt = i
  PROVE  w.side = side /\ Writing(i, side) /\ ~Written(i, side)
<1>0. TypeOK /\ AttemptsInOrder
  BY DEF Inv, PairingInvariant
<1>1. Daemon(i, side) \in Daemons
  BY <1>0, SidesFacts
<1>2. w.side \in Sides /\ Writing(i, w.side) /\ Daemon(i, side) = Daemon(i, w.side)
  BY <1>1, WriteFacts
<1>3. w.side = side
  BY <1>0, <1>2, SidesFacts DEF Daemon, Sides
<1>. QED BY <1>2, <1>3 DEF Writing, Written

\* Once its write is over, what an undisturbed side has stored is in the file,
\* and its daemon dials.
LEMMA WrittenStep ==
  ASSUME Inv, [Next]_vars, NEW i \in Attempts, NEW side \in Sides,
         Started(i), undisturbed'[i], Written(i, side)'
  PROVE  LET d == Daemon(i, side)  e == Other(i, side) IN
         /\ file'[d] # Torn
         /\ file'[d][e] = NewEntry(i, side)
         /\ up'[d] => loops'[d][e] > 0
<1>. DEFINE d == Daemon(i, side)
            e == Other(i, side)
            Kept == /\ file'[d] # Torn
                    /\ file'[d][e] = NewEntry(i, side)
                    /\ up'[d] => loops'[d][e] > 0
<1>. SUFFICES Kept
  OBVIOUS
<1>0. TypeOK /\ AttemptsInOrder
  BY DEF Inv, PairingInvariant
<1>1. d \in Daemons /\ e \in Daemons /\ d # e /\ Involves(i, d) /\ Involves(i, e)
  BY <1>0, SidesFacts DEF Involves
<1>2. undisturbed[i]
  BY AttemptsGoOn
<1>3. /\ Written(i, side) => /\ file[d] # Torn
                             /\ file[d][e] = NewEntry(i, side)
                             /\ up[d] => loops[d][e] > 0
      /\ Writing(i, side) \/ Written(i, side) =>
           /\ up[d] => memory[d][e] = NewEntry(i, side)
           /\ \A w \in writes[d] : w.content[e] = NewEntry(i, side)
  BY <1>2 DEF Inv, PairingInvariant, UndisturbedKept, StoredKept
<1>4. ASSUME UNCHANGED <<file, loops, up>>, Written(i, side)
      PROVE  Kept
  BY <1>3, <1>4
<1>5. ASSUME NEW j \in Attempts, NEW other \in Sides,
             \/ Accept(j) /\ other = "acceptor"
             \/ Add(j) /\ other = "initiator"
      PROVE  Kept
  <2>1. /\ Writing(j, other)'
        /\ \A k \in Attempts, s \in Sides :
             (k # j \/ s # other) => Written(k, s)' = Written(k, s)
        /\ UNCHANGED <<file, loops, up>>
    BY <1>5, AddPeerCalls
  <2>2. ~(j = i /\ other = side)
    BY <2>1 DEF Writing, Written
  <2>3. Written(i, side)
    BY <2>1, <2>2
  <2>. QED BY <1>4, <2>1, <2>3
<1>6. ASSUME NEW x \in Daemons, WriteEnds(x)
      PROVE  Kept
  <2>1. PICK w \in writes[x] :
          /\ \E f \in {w.content} \cup (IF w.mixed THEN {Torn} ELSE {}) :
               file' = [file EXCEPT ![x] = f]
          /\ loops' = [loops EXCEPT ![x][Other(w.attempt, w.side)] = @ + 1]
          /\ Continue(w, TRUE)
          /\ undisturbed' = Disturb(LAMBDA j : w.mixed /\ Involves(j, x))
          /\ UNCHANGED up
    BY <1>6 DEF WriteEnds, Disturb
  <2>2. w \in Writes /\ Other(w.attempt, w.side) \in Daemons
    BY WriteFacts
  <2>3. loops[x] \in [Daemons -> Nat] /\ loops[d] \in [Daemons -> Nat]
    BY <1>0, <1>1 DEF TypeOK
  <2>4. Written(i, side)' =>
          Written(i, side) \/ (w.attempt = i /\ w.side = side)
    <3>1. CASE side = "acceptor"
      BY <1>0, <2>1, <2>2, <3>1, ContinueFacts DEF Written
    <3>2. CASE side = "initiator"
      BY <1>0, <2>1, <2>2, <3>2, ContinueFacts DEF Written
    <3>. QED BY <3>1, <3>2 DEF Sides
  <2>5. CASE x # d
    <3>1. file'[d] = file[d] /\ loops'[d] = loops[d]
      BY <1>0, <1>1, <2>1, <2>5 DEF TypeOK
    <3>2. w.attempt = i => w.side # side
      BY <2>5, WriteFacts
    <3>. QED BY <1>3, <2>1, <2>4, <3>1, <3>2
  <2>6. CASE x = d
    <3>1. ~w.mixed
      BY <1>1, <2>1, <2>6 DEF Disturb
    <3>2. file'[d] = w.content
      BY <1>0, <1>1, <2>1, <2>6, <3>1 DEF TypeOK
    <3>3. Writing(i, side) \/ Written(i, side)
      BY <2>4, <2>6, WriteFacts
    <3>4. file'[d][e] = NewEntry(i, side)
      BY <1>3, <2>6, <3>2, <3>3
    <3>5. file'[d] # Torn
      <4>1. w.content \in [Daemons -> Entries]
        BY WriteFacts
      <4>2. w.content # <<>>
        BY <1>1, <4>1
      <4>. QED BY <3>2, <4>2 DEF Torn
    <3>6. up'[d] => loops'[d][e] > 0
      <4>1. CASE w.attempt = i
        <5>1. Other(w.attempt, w.side) = e
          BY <2>6, <4>1, OwnWrite
        <5>2. loops'[d][e] = loops[d][e] + 1
          BY <1>0, <1>1, <2>1, <2>3, <2>6, <5>1 DEF TypeOK
        <5>. QED BY <1>1, <2>3, <5>2
      <4>2. CASE w.attempt # i
        <5>1. Written(i, side)
          BY <2>4, <4>2
        <5>2. loops'[d][e] \in {loops[d][e], loops[d][e] + 1}
          BY <1>0, <1>1, <2>1, <2>2, <2>3, <2>6 DEF TypeOK
        <5>. QED BY <1>1, <1>3, <2>1, <2>3, <5>1, <5>2
      <4>. QED BY <4>1, <4>2
    <3>. QED BY <3>4, <3>5, <3>6
  <2>. QED BY <2>5, <2>6
<1>7. ASSUME NEW x \in Daemons, WriteFails(x)
      PROVE  Kept
  <2>1. PICK w \in writes[x], f \in Remains(x) :
          /\ file' = [file EXCEPT ![x] = f]
          /\ Continue(w, FALSE)
          /\ undisturbed' = Disturb(LAMBDA j : Involves(j, x) /\ j # w.attempt)
          /\ UNCHANGED <<up, loops>>
    BY <1>7 DEF WriteFails, Disturb
  <2>2. w \in Writes
    BY WriteFacts
  <2>3. Written(i, side)
    BY <1>0, <2>1, <2>2, ContinueFacts DEF Written, Sides
  <2>4. x # d
    <3>1. CASE x = d
      <4>1. w.attempt = i
        BY <1>1, <2>1, <3>1 DEF Disturb
      <4>. QED BY <2>3, <3>1, <4>1, OwnWrite
    <3>. QED BY <3>1
  <2>5. file'[d] = file[d]
    BY <1>0, <1>1, <2>1, <2>4 DEF TypeOK
  <2>. QED BY <1>3, <2>1, <2>3, <2>5
<1>8. ASSUME NEW x \in Daemons, Stop(x)
      PROVE  Kept
  <2>1. /\ \E f \in IF writes[x] = {} THEN {file[x]} ELSE Remains(x) :
             file' = [file EXCEPT ![x] = f]
        /\ up' = [up EXCEPT ![x] = FALSE]
        /\ loops' = [loops EXCEPT ![x] = [y \in Daemons |-> 0]]
        /\ undisturbed' =
             Disturb(LAMBDA j : Involves(j, x) /\ \E w \in writes[x] : w.attempt # j)
    BY <1>8 DEF Stop, Disturb
  <2>2. Written(i, side)
    BY <1>8 DEF Stop, Written
  <2>3. CASE x # d
    BY <1>0, <1>1, <1>3, <2>1, <2>2, <2>3 DEF TypeOK
  <2>4. CASE x = d
    <3>1. \A w \in writes[d] : w.attempt = i
      BY <1>1, <2>1, <2>4 DEF Disturb
    <3>2. writes[d] = {}
      BY <2>2, <3>1, OwnWrite
    <3>3. file'[d] = file[d] /\ ~up'[d]
      BY <1>0, <1>1, <2>1, <2>4, <3>2 DEF TypeOK
    <3>. QED BY <1>3, <2>2, <3>3
  <2>. QED BY <2>3, <2>4
<1>9. ASSUME NEW x \in Daemons, Start(x)
      PROVE  Kept
  <2>1. Written(i, side)
    BY <1>9 DEF Start, Written
  <2>2. UNCHANGED file
    BY <1>9 DEF Start
  <2>3. CASE x # d
    BY <1>0, <1>1, <1>3, <1>9, <2>1, <2>3 DEF Start, TypeOK
  <2>4. CASE x = d
    <3>1. file[d][e] # NoEntry
      BY <1>3, <2>1, NewEntryFacts
    <3>2. loops'[d][e] = 1
      BY <1>0, <1>1, <1>9, <2>4, <3>1 DEF Start, TypeOK
    <3>. QED BY <1>3, <2>1, <2>2, <3>2
  <2>. QED BY <2>3, <2>4
<1>10. ASSUME NEW p \in Pairs, Remove(p[1], p[2])
      PROVE  Kept
  <2>1. /\ file' = [file EXCEPT ![p[1]][p[2]] = NoEntry]
        /\ file[p[1]] # Torn
        /\ UNCHANGED <<up, loops>>
        /\ Involves(i, p[1]) /\ Involves(i, p[2]) => ~undisturbed'[i]
    BY <1>10 DEF Remove, Disturb
  <2>2. Written(i, side)
    BY <1>10 DEF Remove, Written
  <2>3. CASE p[1] # d
    BY <1>0, <1>1, <1>3, <2>1, <2>2, <2>3 DEF TypeOK
  <2>4. CASE p[1] = d
    <3>1. p[2] # e
      BY <1>1, <2>1, <2>4
    <3>2. /\ file[d] \in [Daemons -> Entries]
          /\ file'[d] = [file[d] EXCEPT ![p[2]] = NoEntry]
      BY <1>0, <1>1, <2>1, <2>4 DEF TypeOK
    <3>3. file'[d][e] = file[d][e]
      BY <1>1, <3>1, <3>2
    <3>4. file'[d] # Torn
      <4>1. file'[d] # <<>>
        BY <1>1, <3>2
      <4>. QED BY <4>1 DEF Torn
    <3>. QED BY <1>3, <2>1, <2>2, <3>3, <3>4
  <2>. QED BY <2>3, <2>4
<1>11. CASE Next
  <2>1. ASSUME NEW x \in Daemons, Ready(x) \/ CloseWindow(x)
        PROVE  Kept
    BY <1>4, <2>1 DEF Ready, CloseWindow, Written
  <2>2. ASSUME NEW j \in Attempts, NEW p \in Pairs, StartPair(j, p[1], p[2])
        PROVE  Kept
    BY <1>4, <2>2 DEF StartPair, daemon, Written
  <2>3. ASSUME NEW j \in Attempts, CommandTimeout(j) \/ Arrive(j)
        PROVE  Kept
    <3>1. UNCHANGED <<file, loops, up>>
      BY <2>3 DEF CommandTimeout, Arrive, daemon
    <3>2. Written(i, side)
      BY <1>0, <2>3 DEF CommandTimeout, Arrive, Written, TypeOK
    <3>. QED BY <1>4, <3>1, <3>2
  <2>4. ASSUME NEW j \in Attempts, Answer(j) \/ AddReply(j)
        PROVE  Kept
    <3>1. UNCHANGED <<file, loops, up>>
      BY <2>4 DEF Answer, AddReply, daemon
    <3>2. Written(i, side)
      BY <1>0, <2>4 DEF Answer, AddReply, Written, TypeOK
    <3>. QED BY <1>4, <3>1, <3>2
  <2>5. ASSUME NEW j \in Attempts, Accept(j) \/ Add(j)
        PROVE  Kept
    BY <1>5, <2>5 DEF Sides
  <2>6. ASSUME NEW j \in Attempts, Abort(j)
        PROVE  Kept
    <3>1. Acceptor(j) \in Daemons
      BY <1>0, <2>6, SidesFacts DEF Abort, Started
    <3>. QED BY <1>8, <2>6, <3>1 DEF Abort
  <2>. HIDE DEF Kept
  <2>. QED BY <1>6, <1>7, <1>8, <1>9, <1>10, <1>11, <2>1, <2>2, <2>3, <2>4, <2>5, <2>6
           DEF Next, Crash
<1>12. CASE UNCHANGED vars
  BY <1>4, <1>12 DEF vars, Written
<1>. QED BY <1>11, <1>12

\* A side begins to store with addPeer only.
LEMMA StoringBegins ==
  ASSUME Inv, [Next]_vars, NEW i \in Attempts, NEW side \in Sides,
         Writing(i, side)' \/ Written(i, side)'
  PROVE  \/ Writing(i, side) \/ Written(i, side)
         \/ Accept(i) /\ side = "acceptor"
         \/ Add(i) /\ side = "initiator"
<1>. DEFINE Goal == \/ Writing(i, side) \/ Written(i, side)
                    \/ Accept(i) /\ side = "acceptor"
                    \/ Add(i) /\ side = "initiator"
<1>. SUFFICES Goal
  OBVIOUS
<1>0. TypeOK /\ AttemptsInOrder
  BY DEF Inv, PairingInvariant
<1>1. ASSUME UNCHANGED <<accepting, adding>>
      PROVE  Goal
  BY <1>1 DEF Writing, Written
<1>2. ASSUME NEW j \in Attempts, NEW other \in Sides,
             \/ Accept(j) /\ other = "acceptor"
             \/ Add(j) /\ other = "initiator"
      PROVE  Goal
  <2>1. \A k \in Attempts, s \in Sides :
             (k # j \/ s # other) => /\ Writing(k, s)' = Writing(k, s)
                                     /\ Written(k, s)' = Written(k, s)
    BY <1>2, AddPeerCalls
  <2>2. CASE j = i /\ other = side
    BY <1>2, <2>2
  <2>3. CASE ~(j = i /\ other = side)
    BY <2>1, <2>3
  <2>. QED BY <2>2, <2>3
<1>3. ASSUME NEW d \in Daemons, NEW w \in writes[d], NEW ok \in BOOLEAN, Continue(w, ok)
      PROVE  Goal
  <2>1. w \in Writes /\ Writing(w.attempt, w.side) /\ w.side \in Sides
    BY WriteFacts
  <2>2. CASE side = "acceptor"
    BY <1>0, <1>3, <2>1, <2>2, ContinueFacts DEF Writing, Written, Sides
  <2>3. CASE side = "initiator"
    BY <1>0, <1>3, <2>1, <2>3, ContinueFacts DEF Writing, Written, Sides
  <2>. QED BY <2>2, <2>3 DEF Sides
<1>4. ASSUME NEW d, Stop(d)
      PROVE  Goal
  BY <1>4 DEF Stop, Writing, Written
<1>5. CASE Next
  <2>1. ASSUME NEW d \in Daemons, Ready(d) \/ CloseWindow(d) \/ Start(d)
        PROVE  UNCHANGED <<accepting, adding>>
    BY <2>1 DEF Ready, CloseWindow, Start
  <2>2. ASSUME NEW d \in Daemons, WriteEnds(d) \/ WriteFails(d)
        PROVE  Goal
    BY <1>3, <2>2 DEF WriteEnds, WriteFails
  <2>3. ASSUME NEW p \in Pairs, Remove(p[1], p[2])
        PROVE  UNCHANGED <<accepting, adding>>
    BY <2>3 DEF Remove
  <2>4. ASSUME NEW j \in Attempts, NEW p \in Pairs, StartPair(j, p[1], p[2])
        PROVE  UNCHANGED <<accepting, adding>>
    BY <2>4 DEF StartPair
  <2>5. ASSUME NEW j \in Attempts, CommandTimeout(j) \/ Arrive(j)
        PROVE  Goal
    BY <1>0, <2>5 DEF CommandTimeout, Arrive, TypeOK, Writing, Written
  <2>6. ASSUME NEW j \in Attempts, Answer(j) \/ AddReply(j)
        PROVE  Goal
    BY <1>0, <2>6 DEF Answer, AddReply, TypeOK, Writing, Written
  <2>7. ASSUME NEW j \in Attempts, Accept(j) \/ Add(j)
        PROVE  Goal
    BY <1>2, <2>7 DEF Sides
  <2>. HIDE DEF Goal
  <2>. QED BY <1>1, <1>4, <1>5, <2>1, <2>2, <2>3, <2>4, <2>5, <2>6, <2>7
           DEF Next, Crash, Abort
<1>6. CASE UNCHANGED vars
  BY <1>1, <1>6 DEF vars
<1>. QED BY <1>5, <1>6

\* addPeer of another attempt at a daemon of an undisturbed one is about
\* another peer.
LEMMA OtherPeer ==
  ASSUME Inv, NEW i \in Attempts, NEW side \in Sides, Started(i), undisturbed[i],
         NEW j \in Attempts, NEW other \in Sides, j # i, Started(j), UnderWay(j),
         Daemon(i, side) = Daemon(j, other)
  PROVE  Other(i, side) # Other(j, other)
<1>1. {Initiator(i), Acceptor(i)} # {Initiator(j), Acceptor(j)}
  BY DEF Inv, PairingInvariant, AttemptsApart
<1>2. /\ {Daemon(i, side), Other(i, side)} = {Initiator(i), Acceptor(i)}
      /\ {Daemon(j, other), Other(j, other)} = {Initiator(j), Acceptor(j)}
  BY SidesFacts DEF Inv, PairingInvariant
<1>. QED BY <1>1, <1>2

\* What an undisturbed attempt has stored stays.
LEMMA UndisturbedStep == Inv /\ [Next]_vars => UndisturbedKept'
<1>. SUFFICES ASSUME Inv, [Next]_vars, NEW i \in Attempts, NEW side \in Sides,
                     Started(i)', undisturbed'[i]
              PROVE  StoredKept(i, side)'
  BY DEF UndisturbedKept
<1>. DEFINE d == Daemon(i, side)
            e == Other(i, side)
            entry == NewEntry(i, side)
            Stored == Writing(i, side) \/ Written(i, side)
            Begins == \/ Accept(i) /\ side = "acceptor"
                      \/ Add(i) /\ side = "initiator"
<1>0. TypeOK /\ AttemptsInOrder
  BY DEF Inv, PairingInvariant
<1>1. undisturbed[i]
  BY AttemptsGoOn
<1>2. CASE ~Started(i)
  <2>1. PICK p \in Pairs : StartPair(i, p[1], p[2])
    BY <1>2, StartsOnce
  <2>2. accepting'[i] = "none" /\ adding'[i] = "none"
    BY <1>0, <1>2, <2>1 DEF StartPair, AttemptsInOrder
  <2>. QED BY <2>2 DEF StoredKept, Writing, Written
<1>3. CASE Started(i)
  <2>1. Daemon(i, side)' = d /\ Other(i, side)' = e /\ NewEntry(i, side)' = entry
    BY <1>3, AttemptsGoOn DEF Daemon, Other, Initiator, Acceptor, NewEntry
  <2>2. d \in Daemons /\ e \in Daemons
    BY <1>0, <1>3, SidesFacts
  <2>3. /\ Stored => /\ up[d] => memory[d][e] = entry
                     /\ \A w \in writes[d] : w.content[e] = entry
        /\ Written(i, side) => file[d] # Torn /\ file[d][e] = entry
    BY <1>1, <1>3 DEF Inv, PairingInvariant, UndisturbedKept, StoredKept
  <2>4. (Writing(i, side) \/ Written(i, side))' => Stored \/ Begins
    BY StoringBegins
  <2>5. Writing(i, side) => up[d]
    BY <1>0, <1>3 DEF AttemptsInOrder, Writing, Daemon, Sides
  <2>6. Begins => /\ up[d]
                  /\ UnderWay(i)
                  /\ ~Writing(i, side)
                  /\ ~Written(i, side)
                  /\ \E new \in Writes :
                       /\ new.content[e] = entry
                       /\ memory' = [memory EXCEPT ![d] = new.content]
    <3>1. ASSUME Begins
          PROVE  /\ AddPeer(i, side)
                 /\ up[d]
                 /\ UnderWay(i)
                 /\ ~Writing(i, side)
                 /\ ~Written(i, side)
      BY <3>1, AddPeerCalls
    <3>. QED BY <1>0, <1>3, <3>1, AddPeerFacts
  <2>7. Begins => writes[d] = {}
    <3>1. ASSUME Begins, NEW w \in writes[d]
          PROVE  FALSE
      BY <1>1, <1>3, <2>6, <3>1, MeetingDisturbs
    <3>. QED BY <3>1
  <2>8. ASSUME Stored \/ Begins, up'[d]
        PROVE  memory'[d][e] = entry
    <3>1. CASE Begins
      <4>1. PICK new : /\ new.content[e] = entry
                       /\ memory' = [memory EXCEPT ![d] = new.content]
        BY <2>6, <3>1
      <4>. QED BY <1>0, <2>2, <4>1 DEF TypeOK
    <3>2. CASE Stored /\ ~Begins
      <4>1. ASSUME NEW j \in Attempts, NEW other \in Sides,
                   \/ Accept(j) /\ other = "acceptor"
                   \/ Add(j) /\ other = "initiator",
                   d = Daemon(j, other),
                   e = Other(j, other)
            PROVE  FALSE
        <5>1. Started(j) /\ UnderWay(j)
          BY <4>1, AddPeerCalls
        <5>2. j = i
          BY <1>1, <1>3, <4>1, <5>1, OtherPeer
        <5>3. side = other
          BY <1>0, <1>3, <4>1, <5>2, SidesFacts DEF Daemon, Sides
        <5>. QED BY <3>2, <4>1, <5>2, <5>3
      <4>2. CASE memory'[d][e] = memory[d][e] /\ (up'[d] => up[d])
        BY <2>3, <2>8, <3>2, <4>2
      <4>3. CASE ~up[d] /\ file[d] # Torn /\ memory'[d][e] = file[d][e]
        BY <2>3, <2>5, <3>2, <4>3
      <4>. QED BY <2>2, <2>8, <4>1, <4>2, <4>3, MemoryGoesOn
    <3>. QED BY <2>8, <3>1, <3>2
  <2>9. ASSUME Stored \/ Begins, NEW m \in writes'[d]
        PROVE  m.content[e] = entry
    <3>1. ASSUME NEW w \in writes[d], m.content = w.content
          PROVE  m.content[e] = entry
      BY <2>3, <2>7, <2>9, <3>1
    <3>2. ASSUME m \in Writes,
                 \/ Accept(m.attempt) /\ m.side = "acceptor"
                 \/ Add(m.attempt) /\ m.side = "initiator",
                 d = Daemon(m.attempt, m.side),
                 m.content[Other(m.attempt, m.side)] = NewEntry(m.attempt, m.side),
                 \A o \in Daemons \ {Other(m.attempt, m.side)} : m.content[o] = memory[d][o]
          PROVE  m.content[e] = entry
      <4>1. m.attempt \in Attempts /\ m.side \in Sides
        BY <3>2 DEF Writes
      <4>2. /\ Started(m.attempt)
            /\ UnderWay(m.attempt)
            /\ up[Daemon(m.attempt, m.side)]
            /\ \A k \in Attempts, s \in Sides :
                 (k # m.attempt \/ s # m.side) => /\ Writing(k, s)' = Writing(k, s)
                                                  /\ Written(k, s)' = Written(k, s)
        BY <3>2, <4>1, AddPeerCalls
      <4>3. CASE m.attempt = i
        <5>1. m.side = side
          BY <1>0, <1>3, <3>2, <4>1, <4>3, SidesFacts DEF Daemon, Sides
        <5>. QED BY <3>2, <4>3, <5>1
      <4>4. CASE m.attempt # i
        <5>1. e # Other(m.attempt, m.side)
          BY <1>1, <1>3, <3>2, <4>1, <4>2, <4>4, OtherPeer
        <5>2. m.content[e] = memory[d][e] /\ up[d]
          BY <2>2, <3>2, <4>2, <5>1
        <5>3. ~Begins
          <6>1. CASE Begins
            <7>1. /\ Writing(i, side)' /\ ~Writing(i, side)
              BY <6>1, AddPeerCalls
            <7>. QED BY <4>1, <4>2, <4>4, <7>1
          <6>. QED BY <6>1
        <5>. QED BY <2>3, <2>9, <5>2, <5>3
      <4>. QED BY <4>3, <4>4
    <3>. QED BY <2>2, <3>1, <3>2, WritesGoOn
  <2>10. ASSUME Written(i, side)'
         PROVE  /\ file'[d] # Torn
                /\ file'[d][e] = entry
                /\ up'[d] => loops'[d][e] > 0
    BY <1>3, <2>10, WrittenStep
  <2>. HIDE DEF d, e, entry, Stored, Begins
  <2>11. /\ (Writing(i, side) \/ Written(i, side))' =>
              /\ up'[d] => memory'[d][e] = entry
              /\ \A w \in writes'[d] : w.content[e] = entry
         /\ Written(i, side)' => /\ file'[d] # Torn
                                 /\ file'[d][e] = entry
                                 /\ up'[d] => loops'[d][e] > 0
    BY <2>4, <2>8, <2>9, <2>10
  <2>. QED BY <2>1, <2>11 DEF StoredKept
<1>. QED BY <1>2, <1>3

---------------------------------------------------------------------------
(* The theorems.                                                           *)

\* The invariant of the steps holds in the initial state.
LEMMA InitPairing == Init => PairingInvariant
<1>. SUFFICES ASSUME Init
              PROVE  PairingInvariant
  OBVIOUS
<1>1. AttemptsInOrder /\ AttemptsApart /\ UndisturbedKept
  BY DEF Init, AttemptsInOrder, AttemptsApart, UndisturbedKept, Started
<1>2. WritesAwaited /\ WritesOnce
  BY DEF Init, WritesAwaited, WritesOnce
<1>3. ASSUME NEW i \in Attempts
      PROVE  NewEntry(i, "initiator") # NoEntry
  BY NewEntryFacts DEF Sides
<1>4. TokensFollow
  BY <1>3 DEF Init, TokensFollow, NoPeers
<1>. QED BY <1>1, <1>2, <1>4 DEF PairingInvariant

\* Both hold in every reachable state.
LEMMA InvHolds == Spec => []Inv
<1>1. Init => Inv
  BY InitType, InitPairing DEF Inv
<1>2. Inv /\ [Next]_vars => Inv'
  BY TypeStep, InOrderStep, AwaitedStep, OnceStep, ApartStep, FollowStep, UndisturbedStep
     DEF Inv, PairingInvariant
<1>. QED BY <1>1, <1>2, PTL DEF Spec

\* Pairing keeps its types: tables, files, writes and attempts stay what they
\* are whatever commands, failures and crashes come in between.
THEOREM PairingTypeCorrect == Spec => []TypeOK
<1>1. Inv => TypeOK
  BY DEF Inv
<1>. QED BY <1>1, InvHolds, PTL

\* The handlers of each attempt, the writes that they wait for and the tables
\* of the two daemons go together at every step of addPeer and of the files,
\* and keep apart from those of the other attempts.
THEOREM PairingInvariantHolds == Spec => []PairingInvariant
<1>1. Inv => PairingInvariant
  BY DEF Inv
<1>. QED BY <1>1, InvHolds, PTL

\* In any state that keeps the invariant, the two entries of a reported and
\* undisturbed attempt are those that it has made.
LEMMA ReportedEntries ==
  ASSUME Inv, NEW i \in Attempts, command[i] = "paired", undisturbed[i]
  PROVE  LET d == Initiator(i)  e == Acceptor(i) IN
         /\ file[d] # Torn /\ file[d][e] = NewEntry(i, "initiator")
         /\ file[e] # Torn /\ file[e][d] = NewEntry(i, "acceptor")
         /\ up[d] => memory[d][e] = NewEntry(i, "initiator") /\ loops[d][e] > 0
         /\ up[e] => memory[e][d] = NewEntry(i, "acceptor") /\ loops[e][d] > 0
<1>1. Started(i) /\ Written(i, "initiator") /\ Written(i, "acceptor")
  BY DEF Inv, PairingInvariant, AttemptsInOrder, Started, Written
<1>2. StoredKept(i, "initiator") /\ StoredKept(i, "acceptor")
  BY <1>1 DEF Inv, PairingInvariant, UndisturbedKept, Sides
<1>. QED BY <1>1, <1>2 DEF StoredKept, Daemon, Other

\* The upgrade check admits each side of an attempt at the other.
LEMMA EntriesAdmit ==
  ASSUME NEW i \in Attempts
  PROVE  /\ Admits(NewEntry(i, "initiator"), NewEntry(i, "acceptor"))
         /\ Admits(NewEntry(i, "acceptor"), NewEntry(i, "initiator"))
<1>1. NewEntry(i, "initiator") # NoEntry /\ NewEntry(i, "acceptor") # NoEntry
  BY NewEntryFacts DEF Sides
<1>. QED BY <1>1 DEF Admits, NewEntry

\* After a pairing that `peerd pair` has reported and nothing has disturbed,
\* each daemon that runs dials the other, and each admits the other.
THEOREM ReportedPairingConnects == Spec => []PairedBothWays
<1>1. Inv => PairedBothWays
  BY ReportedEntries, EntriesAdmit DEF PairedBothWays, Matched
<1>. QED BY <1>1, InvHolds, PTL

\* Such a pairing is in the files of both, whatever crashes come later.
THEOREM ReportedPairingSurvives == Spec => []PairedDurably
<1>1. Inv => PairedDurably
  BY ReportedEntries, EntriesAdmit DEF PairedDurably, Matched
<1>. QED BY <1>1, InvHolds, PTL

\* A pairing that stops half way leaves an initiator with tokens only if the
\* acceptor has stored its own: the half that is missing is the initiator's.
THEOREM HalfPairingAtAcceptor == Spec => []HalfAtAcceptorOnly
<1>1. ASSUME Inv, NEW i \in Attempts, Started(i), undisturbed[i],
             memory[Initiator(i)][Acceptor(i)] = NewEntry(i, "initiator")
      PROVE  LET d == Initiator(i)  e == Acceptor(i) IN
             /\ file[e] # Torn
             /\ Admits(file[e][d], memory[d][e])
             /\ up[e] => Admits(memory[e][d], memory[d][e])
  <2>1. Initiator(i) \in Daemons /\ Acceptor(i) \in Daemons
    BY <1>1, SidesFacts DEF Inv, PairingInvariant
  <2>2. accepting[i] = "answered"
    BY <1>1, <2>1 DEF Inv, PairingInvariant, TokensFollow
  <2>3. StoredKept(i, "acceptor") /\ Written(i, "acceptor")
    BY <1>1, <2>2 DEF Inv, PairingInvariant, UndisturbedKept, Written, Sides
  <2>. QED BY <1>1, <2>3, EntriesAdmit DEF StoredKept, Daemon, Other
<1>2. Inv => HalfAtAcceptorOnly
  BY <1>1 DEF HalfAtAcceptorOnly
<1>. QED BY <1>2, InvHolds, PTL

============================================================================
