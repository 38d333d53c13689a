------------------------------ MODULE Pairing ------------------------------
(***************************************************************************)
(* Pairing of daemons: `peerd ready` on one machine, `peerd pair` on the   *)
(* other (peerd-cli/src/cmd), the POST /pair between them (peerd/src/      *)
(* server.ts), and what each daemon keeps of it in memory and in           *)
(* peers.toml (addPeer and persistPeersToml of index.ts, loadConfig).      *)
(*                                                                         *)
(* An attempt is one run of `peerd pair` by its initiator; the daemon that *)
(* it asks is the acceptor.  The acceptor stores the tokens, writes its    *)
(* file and answers; then the initiator's daemon does the same.  Any step  *)
(* may come after the command has given up, a daemon may crash between two *)
(* steps, and attempts overlap.                                            *)
(***************************************************************************)
EXTENDS Naturals, FiniteSets

CONSTANTS
  Daemons,
  MaxAttempts,  \* bound: runs of `peerd pair`
  MaxRemovals,  \* bound: runs of `peerd remove`
  MaxFaults     \* bound: crashes and failing writes

Attempts == 1..MaxAttempts

ASSUME PairingAssumption ==
  /\ MaxAttempts \in Nat
  /\ MaxRemovals \in Nat
  /\ MaxFaults \in Nat

\* The two tokens that an attempt makes; that of the initiator is the one it
\* will present, that of the acceptor likewise.
Tokens == Attempts \X {"initiator", "acceptor"}

NoEntry == [token |-> <<>>, inbound |-> <<>>]

\* An entry of peers.toml: the token to present to the peer, and the one to
\* expect from it.
Entries == [token : Tokens, inbound : Tokens] \cup {NoEntry}

NoPeers == [d \in Daemons |-> NoEntry]

\* A file that holds parts of two contents, or half of one.
Torn == <<>>

VARIABLES
  up,        \* the daemon runs
  window,    \* pairing mode: pairExpiresAt is in the future
  memory,    \* config.peers
  file,      \* peers.toml
  writes,    \* the writeFile calls under way: content, attempt and side
  loops,     \* how many maintainOutbound loops d has for a peer
  between,   \* between[i]: initiator and acceptor of attempt i
  command,   \* command[i]: the state of the `peerd pair` process
  accepting, \* accepting[i]: the acceptor's handlePairRequest
  adding,    \* adding[i]: the initiator's add_peer request
  undisturbed, \* undisturbed[i]: nothing has interfered with attempt i
  removals,  \* bound: the removals so far
  faults     \* bound: the faults so far

daemon == <<up, window, memory, file, writes, loops>>
bounds == <<removals, faults>>

vars == <<up, window, memory, file, writes, loops, between, command,
          accepting, adding, undisturbed, removals, faults>>

Sides == {"initiator", "acceptor"}

\* mixed: another process or call has written the file since the write began.
Writes == [content : [Daemons -> Entries], attempt : Attempts, side : Sides,
           mixed : BOOLEAN]

\* The writes ws when another process or call writes the file meanwhile.
Mixed(ws) == {[w EXCEPT !.mixed = TRUE] : w \in ws}

Pairs == {p \in Daemons \X Daemons : p[1] # p[2]}

TypeOK ==
  /\ up \in [Daemons -> BOOLEAN]
  /\ window \in [Daemons -> BOOLEAN]
  /\ memory \in [Daemons -> [Daemons -> Entries]]
  /\ file \in [Daemons -> [Daemons -> Entries] \cup {Torn}]
  /\ writes \in [Daemons -> SUBSET Writes]
  /\ loops \in [Daemons -> [Daemons -> Nat]]
  /\ between \in [Attempts -> Pairs \cup {<<>>}]
  /\ command \in [Attempts -> {"none", "asking", "adding", "paired", "failed"}]
  /\ accepting \in [Attempts -> {"none", "reading", "writing", "answered",
                                 "refused", "gone"}]
  /\ adding \in [Attempts -> {"none", "asked", "writing", "done", "refused",
                              "gone"}]
  /\ undisturbed \in [Attempts -> BOOLEAN]
  /\ removals \in 0..MaxRemovals
  /\ faults \in 0..MaxFaults

Init ==
  /\ up = [d \in Daemons |-> TRUE]
  /\ window = [d \in Daemons |-> FALSE]
  /\ memory = [d \in Daemons |-> NoPeers]
  /\ file = [d \in Daemons |-> NoPeers]
  /\ writes = [d \in Daemons |-> {}]
  /\ loops = [d \in Daemons |-> [e \in Daemons |-> 0]]
  /\ between = [i \in Attempts |-> <<>>]
  /\ command = [i \in Attempts |-> "none"]
  /\ accepting = [i \in Attempts |-> "none"]
  /\ adding = [i \in Attempts |-> "none"]
  /\ undisturbed = [i \in Attempts |-> TRUE]
  /\ removals = 0
  /\ faults = 0

Initiator(i) == between[i][1]
Acceptor(i) == between[i][2]

Started(i) == command[i] # "none"

Daemon(i, side) == IF side = "initiator" THEN Initiator(i) ELSE Acceptor(i)
Other(i, side) == IF side = "initiator" THEN Acceptor(i) ELSE Initiator(i)

\* Some part of attempt i has still to end, though its command may have.
UnderWay(i) ==
  \/ command[i] \in {"asking", "adding"}
  \/ accepting[i] \in {"none", "reading", "writing"}
  \/ adding[i] \in {"asked", "writing"}

Involves(i, d) == Started(i) /\ d \in {Initiator(i), Acceptor(i)}

\* The attempts that something which happens to daemon d's files disturbs.
Disturb(D(_)) == [i \in Attempts |-> undisturbed[i] /\ ~D(i)]

---------------------------------------------------------------------------
(* The commands.                                                           *)

\* `peerd ready`.
Ready(d) ==
  /\ up[d]
  /\ window' = [window EXCEPT ![d] = TRUE]
  /\ UNCHANGED <<up, memory, file, writes, loops, between, command, accepting,
                 adding, undisturbed, bounds>>

\* The time is over, or exit_pairing_mode.
CloseWindow(d) ==
  /\ window[d]
  /\ window' = [window EXCEPT ![d] = FALSE]
  /\ UNCHANGED <<up, memory, file, writes, loops, between, command, accepting,
                 adding, undisturbed, bounds>>

\* `peerd pair`: get_self, a new token, and the POST.  An attempt of the same
\* two daemons takes the place of the earlier ones; attempts under way at the
\* same time that share a daemon disturb each other.
StartPair(i, d, e) ==
  /\ ~Started(i)
  /\ \A j \in Attempts : j < i => Started(j)
  /\ up[d]
  /\ between' = [between EXCEPT ![i] = <<d, e>>]
  /\ command' = [command EXCEPT ![i] = "asking"]
  /\ LET Meets(j) == Started(j) /\ UnderWay(j) /\ {Initiator(j), Acceptor(j)} \cap {d, e} # {}
         Succeeds(j) == Started(j) /\ {Initiator(j), Acceptor(j)} = {d, e}
         Disturbed(j) == IF j = i THEN \E k \in Attempts : Meets(k)
                                  ELSE Meets(j) \/ Succeeds(j)
     IN undisturbed' = Disturb(Disturbed)
  /\ UNCHANGED <<daemon, accepting, adding, bounds>>

\* The connection or the timer of the command fails; the daemons go on.  A
\* POST on its way is lost, or still arrives.
CommandTimeout(i) ==
  /\ command[i] \in {"asking", "adding"}
  /\ command' = [command EXCEPT ![i] = "failed"]
  /\ \/ UNCHANGED accepting
     \/ accepting[i] = "none" /\ accepting' = [accepting EXCEPT ![i] = "gone"]
  /\ UNCHANGED <<daemon, between, adding, undisturbed, bounds>>

\* `peerd remove`: the file is read and rewritten, whatever the daemon holds.
Remove(d, e) ==
  /\ removals < MaxRemovals
  /\ file[d] # Torn
  /\ file[d][e] # NoEntry
  /\ file' = [file EXCEPT ![d][e] = NoEntry]
  /\ removals' = removals + 1
  /\ writes' = [writes EXCEPT ![d] = Mixed(@)]
  /\ LET Disturbed(j) == Involves(j, d) /\ (Involves(j, e) \/ writes[d] # {})
     IN undisturbed' = Disturb(Disturbed)
  /\ UNCHANGED <<up, window, memory, loops, between, command,
                 accepting, adding, faults>>

---------------------------------------------------------------------------
(* The daemons.                                                            *)

\* Mistake: both sides keep the pair of tokens that the initiator sent.
NewEntrySwapped(i, side) == [token |-> <<i, "initiator">>, inbound |-> <<i, "acceptor">>]

\* Mistake: the token to expect is not passed on to addPeer.
NewEntryHalf(i, side) == [token |-> <<i, side>>, inbound |-> <<>>]

\* What attempt i makes of the entry for the other side.  Each side presents
\* the token of its own making that it has sent over, and expects the other's.
NewEntry(i, side) ==
  IF side = "initiator"
  THEN [token |-> <<i, "initiator">>, inbound |-> <<i, "acceptor">>]
  ELSE [token |-> <<i, "acceptor">>, inbound |-> <<i, "initiator">>]

\* Mistake: the file is written with the new entry alone.
AddPeerAlone(i, side) ==
  LET d == Daemon(i, side)
      alone == [NoPeers EXCEPT ![Other(i, side)] = NewEntry(i, side)]
      new == [content |-> alone, attempt |-> i, side |-> side,
              mixed |-> writes[d] # {}]
  IN /\ memory' = [memory EXCEPT ![d][Other(i, side)] = NewEntry(i, side)]
     /\ writes' = [writes EXCEPT ![d] = Mixed(@) \cup {new}]

\* addPeer up to its await: the entry is in memory, and all of memory on its
\* way to the file.
AddPeer(i, side) ==
  LET d == Daemon(i, side)
      peers == [memory[d] EXCEPT ![Other(i, side)] = NewEntry(i, side)]
      new == [content |-> peers, attempt |-> i, side |-> side,
              mixed |-> writes[d] # {}]
  IN /\ memory' = [memory EXCEPT ![d] = peers]
     /\ writes' = [writes EXCEPT ![d] = Mixed(@) \cup {new}]

\* The POST arrives: handlePairRequest looks at the window, and then waits for
\* the body.
Arrive(i) ==
  /\ Started(i)
  /\ accepting[i] = "none"
  /\ accepting' = [accepting EXCEPT ![i] =
       IF up[Acceptor(i)] /\ window[Acceptor(i)] THEN "reading" ELSE "refused"]
  /\ UNCHANGED <<daemon, between, command, adding, undisturbed, bounds>>

\* Mistake: the answer is sent without waiting for addPeer.
AcceptAtOnce(i) ==
  /\ accepting[i] = "reading"
  /\ AddPeer(i, "acceptor")
  /\ accepting' = [accepting EXCEPT ![i] = "answered"]
  /\ UNCHANGED <<up, window, file, loops, between, command, adding,
                 undisturbed, bounds>>

\* The body is there: new token, pair_completed, addPeer.
Accept(i) ==
  /\ accepting[i] = "reading"
  /\ AddPeer(i, "acceptor")
  /\ accepting' = [accepting EXCEPT ![i] = "writing"]
  /\ UNCHANGED <<up, window, file, loops, between, command, adding,
                 undisturbed, bounds>>

\* The answer reaches the command, which goes on to its own daemon.  The
\* control connection it has had since get_self may be gone.
Answer(i) ==
  /\ command[i] = "asking"
  /\ \/ /\ accepting[i] = "answered"
        /\ command' = [command EXCEPT ![i] = "adding"]
        /\ adding' = [adding EXCEPT ![i] = IF @ = "none" THEN "asked" ELSE @]
     \/ /\ accepting[i] \in {"refused", "gone"}
        /\ command' = [command EXCEPT ![i] = "failed"]
        /\ UNCHANGED adding
  /\ UNCHANGED <<daemon, between, accepting, undisturbed, bounds>>

\* add_peer at the initiator's daemon.
Add(i) ==
  /\ adding[i] = "asked"
  /\ AddPeer(i, "initiator")
  /\ adding' = [adding EXCEPT ![i] = "writing"]
  /\ UNCHANGED <<up, window, file, loops, between, command, accepting,
                 undisturbed, bounds>>

\* The reply of add_peer: `peerd pair` reports what has become of it.
AddReply(i) ==
  /\ command[i] = "adding"
  /\ adding[i] \in {"done", "refused"}
  /\ command' = [command EXCEPT ![i] =
                   IF adding[i] = "done" THEN "paired" ELSE "failed"]
  /\ UNCHANGED <<daemon, between, accepting, adding, undisturbed, bounds>>

\* Mistake: the result of addPeer is not looked at.
ContinueRegardless(w, ok) ==
  IF w.side = "acceptor"
  THEN /\ accepting' = [accepting EXCEPT ![w.attempt] = "answered"]
       /\ UNCHANGED adding
  ELSE /\ adding' = [adding EXCEPT ![w.attempt] = "done"]
       /\ UNCHANGED accepting

\* The handler that waits for write w goes on, with success or not.
Continue(w, ok) ==
  IF w.side = "acceptor"
  THEN /\ accepting' = [accepting EXCEPT ![w.attempt] = IF ok THEN "answered" ELSE "refused"]
       /\ UNCHANGED adding
  ELSE /\ adding' = [adding EXCEPT ![w.attempt] = IF ok THEN "done" ELSE "refused"]
       /\ UNCHANGED accepting

\* A write ends; what was written at the same time may be mixed with it, which
\* disturbs everybody at d.  One more dial loop is started.
WriteEnds(d) ==
  \E w \in writes[d] :
    /\ \E f \in {w.content} \cup (IF w.mixed THEN {Torn} ELSE {}) :
         file' = [file EXCEPT ![d] = f]
    /\ writes' = [writes EXCEPT ![d] = @ \ {w}]
    /\ loops' = [loops EXCEPT ![d][Other(w.attempt, w.side)] = @ + 1]
    /\ Continue(w, TRUE)
    /\ LET Disturbed(j) == w.mixed /\ Involves(j, d)
       IN undisturbed' = Disturb(Disturbed)
    /\ UNCHANGED <<up, window, memory, between, command, bounds>>

\* What is left of a file whose rewriting was cut short.
Remains(d) == {file[d], NoPeers, Torn} \cup {w.content : w \in writes[d]}

\* The disk refuses: addPeer answers false, and memory keeps the entry.
WriteFails(d) ==
  /\ faults < MaxFaults
  /\ faults' = faults + 1
  /\ \E w \in writes[d], f \in Remains(d) :
       /\ file' = [file EXCEPT ![d] = f]
       /\ writes' = [writes EXCEPT ![d] = @ \ {w}]
       /\ Continue(w, FALSE)
       /\ LET Disturbed(j) == Involves(j, d) /\ j # w.attempt
          IN undisturbed' = Disturb(Disturbed)
  /\ UNCHANGED <<up, window, memory, loops, between, command, removals>>

\* Daemon d stops where it is.
Stop(d) ==
  /\ up[d]
  /\ up' = [up EXCEPT ![d] = FALSE]
  /\ window' = [window EXCEPT ![d] = FALSE]
  /\ memory' = [memory EXCEPT ![d] = NoPeers]
  /\ \E f \in IF writes[d] = {} THEN {file[d]} ELSE Remains(d) :
       file' = [file EXCEPT ![d] = f]
  /\ writes' = [writes EXCEPT ![d] = {}]
  /\ loops' = [loops EXCEPT ![d] = [e \in Daemons |-> 0]]
  /\ accepting' = [i \in Attempts |->
       IF accepting[i] \in {"reading", "writing"} /\ Acceptor(i) = d
       THEN "gone" ELSE accepting[i]]
  /\ adding' = [i \in Attempts |->
       IF command[i] = "asking" /\ Initiator(i) = d THEN "gone"
       ELSE IF adding[i] \in {"asked", "writing"} /\ Initiator(i) = d THEN "gone"
       ELSE adding[i]]
  /\ LET Disturbed(j) == Involves(j, d) /\ \E w \in writes[d] : w.attempt # j
     IN undisturbed' = Disturb(Disturbed)
  /\ UNCHANGED <<between, command, removals>>

Crash(d) ==
  /\ faults < MaxFaults
  /\ faults' = faults + 1
  /\ Stop(d)

\* The command has gone before its body was complete: the error is emitted on
\* a PeerServer to whose errors nobody listens, which ends the process.
Abort(i) ==
  /\ accepting[i] = "reading"
  /\ command[i] = "failed"
  /\ Stop(Acceptor(i))
  /\ UNCHANGED faults

\* loadConfig, and a dial loop for each peer; a file that does not parse ends
\* the daemon again.
Start(d) ==
  /\ ~up[d]
  /\ file[d] # Torn
  /\ up' = [up EXCEPT ![d] = TRUE]
  /\ memory' = [memory EXCEPT ![d] = file[d]]
  /\ loops' = [loops EXCEPT ![d] =
                 [e \in Daemons |-> IF file[d][e] = NoEntry THEN 0 ELSE 1]]
  /\ UNCHANGED <<window, file, writes, between, command, accepting, adding,
                 undisturbed, bounds>>

---------------------------------------------------------------------------
Next ==
  \/ \E d \in Daemons :
       \/ Ready(d)
       \/ CloseWindow(d)
       \/ WriteEnds(d)
       \/ WriteFails(d)
       \/ Crash(d)
       \/ Start(d)
  \/ \E p \in Pairs : Remove(p[1], p[2])
  \/ \E i \in Attempts :
       \/ \E p \in Pairs : StartPair(i, p[1], p[2])
       \/ CommandTimeout(i)
       \/ Arrive(i)
       \/ Accept(i)
       \/ Answer(i)
       \/ Add(i)
       \/ AddReply(i)
       \/ Abort(i)

Spec == Init /\ [][Next]_vars

---------------------------------------------------------------------------
(* Properties.                                                             *)

\* The upgrade check of server.ts: e, which holds `theirs` for d, presents its
\* token to d, which holds `ours` for e.
Admits(ours, theirs) ==
  /\ ours # NoEntry
  /\ theirs # NoEntry
  /\ theirs.token = ours.inbound

\* Two daemons with these tables can connect in both directions.
Matched(tables, d, e) ==
  /\ Admits(tables[d][e], tables[e][d])
  /\ Admits(tables[e][d], tables[d][e])

\* A pairing that `peerd pair` has reported, and that nothing has disturbed,
\* lets the two daemons connect in both directions and both dial, also after
\* crashes between its steps (pair.ts: "Both sides have updated peers.toml.
\* peerd is auto-dialing now.").
PairedBothWays ==
  \A i \in Attempts :
    LET d == Initiator(i)  e == Acceptor(i) IN
    (command[i] = "paired" /\ undisturbed[i] /\ up[d] /\ up[e])
      => Matched(memory, d, e) /\ loops[d][e] > 0 /\ loops[e][d] > 0

\* A reported and undisturbed pairing is in both files, so that both daemons
\* find it again when they start (persistPeersToml before the answer).
PairedDurably ==
  \A i \in Attempts :
    LET d == Initiator(i)  e == Acceptor(i) IN
    (command[i] = "paired" /\ undisturbed[i])
      => file[d] # Torn /\ file[e] # Torn /\ Matched(file, d, e)

\* An attempt that goes wrong half way leaves its tokens at the acceptor only:
\* whatever is lost or crashes, an initiator that holds tokens of an undisturbed
\* attempt is one that the acceptor admits, now and after a restart.
HalfAtAcceptorOnly ==
  \A i \in Attempts :
    LET d == Initiator(i)  e == Acceptor(i) IN
    (Started(i) /\ undisturbed[i] /\ memory[d][e] = NewEntry(i, "initiator"))
      => /\ file[e] # Torn
         /\ Admits(file[e][d], memory[d][e])
         /\ up[e] => Admits(memory[e][d], memory[d][e])

---------------------------------------------------------------------------
(* Why they hold.                                                          *)

\* The handler of that side waits for its write, or has done so.
Writing(i, side) == IF side = "acceptor" THEN accepting[i] = "writing" ELSE adding[i] = "writing"
Written(i, side) == IF side = "acceptor" THEN accepting[i] = "answered" ELSE adding[i] = "done"

\* The three parts of an attempt come in their order, and a handler that is
\* not done belongs to a daemon that runs.
AttemptsInOrder ==
  \A i \in Attempts :
    /\ ~Started(i) => accepting[i] = "none" /\ adding[i] = "none"
    /\ Started(i) => between[i] \in Pairs
    /\ adding[i] \in {"asked", "writing", "done", "refused"} => accepting[i] = "answered"
    /\ command[i] = "paired" => adding[i] = "done"
    /\ accepting[i] \in {"reading", "writing"} => up[Acceptor(i)]
    /\ adding[i] \in {"asked", "writing"} \/ (command[i] = "asking" /\ adding[i] = "none")
         => up[Initiator(i)]

\* A write under way is the one that a handler waits for, and mixed only when
\* something has disturbed its attempt.
WritesAwaited ==
  \A d \in Daemons : \A w \in writes[d] :
    /\ Started(w.attempt)
    /\ Writing(w.attempt, w.side)
    /\ d = Daemon(w.attempt, w.side)
    /\ undisturbed[w.attempt] => ~w.mixed

WritesOnce ==
  \A d \in Daemons : \A v, w \in writes[d] :
    (v.attempt = w.attempt /\ v.side = w.side) => v = w

\* Another attempt that is under way together with an undisturbed one has
\* other daemons, and one of the same two daemons is over.
AttemptsApart ==
  \A i, j \in Attempts :
    (i # j /\ Started(i) /\ Started(j) /\ undisturbed[i] /\ UnderWay(j))
      => /\ UnderWay(i) => {Initiator(i), Acceptor(i)} \cap {Initiator(j), Acceptor(j)} = {}
         /\ {Initiator(i), Acceptor(i)} # {Initiator(j), Acceptor(j)}

\* The tokens of an attempt are nowhere at its initiator before the acceptor
\* has answered.
TokensFollow ==
  \A d, e \in Daemons, i \in Attempts :
    (\/ memory[d][e] = NewEntry(i, "initiator")
     \/ file[d] # Torn /\ file[d][e] = NewEntry(i, "initiator")
     \/ \E w \in writes[d] : w.content[e] = NewEntry(i, "initiator"))
      => accepting[i] = "answered"

\* What a side of an undisturbed attempt has stored is in the memory of its
\* daemon and in all that is on its way to the file; once the write is over it
\* is in the file too, and the daemon dials.
StoredKept(i, side) ==
  LET d == Daemon(i, side)  e == Other(i, side) IN
  /\ Writing(i, side) \/ Written(i, side) =>
       /\ up[d] => memory[d][e] = NewEntry(i, side)
       /\ \A w \in writes[d] : w.content[e] = NewEntry(i, side)
  /\ Written(i, side) =>
       /\ file[d] # Torn
       /\ file[d][e] = NewEntry(i, side)
       /\ up[d] => loops[d][e] > 0

UndisturbedKept ==
  \A i \in Attempts, side \in Sides :
    Started(i) /\ undisturbed[i] => StoredKept(i, side)

\* Every step of the two daemons and of the command keeps this, whatever the
\* other attempts do meanwhile.
PairingInvariant ==
  /\ AttemptsInOrder
  /\ WritesAwaited
  /\ WritesOnce
  /\ AttemptsApart
  /\ TokensFollow
  /\ UndisturbedKept
============================================================================
