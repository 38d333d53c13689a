# Verification of agent-to-agent sync

`peerd` is a daemon that runs on each of two machines and lets the Claude Code
sessions of one call the sessions of the other. This directory holds TLA+
modules of it, TLC configurations that check them on small instances, and
proofs that TLAPS checks. Every definition is translated from the TypeScript
source; `PROJECT.json` maps each to its lines.

## 1. The system

| component | state | operations | talks to |
|---|---|---|---|
| **CallManager** (`peerd/src/call_manager.ts`) | `calls` (a `CallRecord` each: state, floor, seqOut, seqIn), `pending` invites with timers, `pendingFetches`, `pendingListSessions`, `localRefs`; on disk a transcript and a `meta.json` per call, written and never read back | `invite`, `acceptInvite`, `denyInvite`, `send`, `shareFile`, `proposeChange`, `shareFileRef`, `fetchRef`, `pause`, `resumeCall`, `humanInject`, `end`, `listRemoteSessions`; a handler per frame type in `routeIncoming` | the connection table (`getConnection`), the control server (events `invite`, `connected`, `message`, `ended`) |
| **CallInbox** (`call_inbox.ts`) | a queue of events and a queue of waiters per call | `push`, `recv` with a timer | CallManager's events, the `recv` request |
| **ControlServer** (`control.ts`) | `pendingInvites`, `subscribers` with availability, label, cwd | one request per line of a Unix socket, each served by its own async call; popups dispatched to available sessions; broadcasts when an invite is resolved | CallManager, CallInbox, PeerServer, the sessions |
| **Connection** (`connection.ts`, `client.ts`, `wire.ts`) | `ready`, `closed`, handshake and heartbeat timers | HELLO/WELCOME, PING/PONG, `send` (silent once closed), `close` | a WebSocket |
| **Daemon** (`index.ts`) | the table of connections by peer name, the configuration | accept inbound, `maintainOutbound` (dial, wait for close, redial), `addPeer`, `persistPeersToml` | all of the above |
| **PeerServer and pairing** (`server.ts`, `config.ts`, `peerd-cli/src/cmd/pair.ts`) | the pairing window, tokens, `peers.toml` | the upgrade check, `POST /pair` | the daemon |
| **peer-mcp** (`peer-mcp/src/index.ts`) | `handledLocally`, `ownedByThisSession`, the snapshot of calls its poll compares with | a tool per call operation, `resolvePeer` (edit distance), the channel bridge | ControlServer |
| **rest** | none shared | command line, notifications, status line, TLS identity, installer | files, processes |

The daemons are single threaded. What makes the code hard is that nearly every
operation awaits the disk between the check of a record and its change, that
each control request and each frame is served by an async function of its own
(nothing queues them), and that the two daemons see a call's messages, timers
and connection losses in different orders.

Behaviours that matter and are hard to test, by component:

* **CallManager**: an answer racing the invite timer and an END; a second
  request between the floor check and the floor flip; frames crossing; state
  assigned after an await without looking; a connection lost with the turn in
  flight; a daemon restarted without its calls. It is correct if the turn is
  never with both sides and is passed on, if a closed call stays closed and is
  closed at both sides, and if `invite` settles and says what happened.
* **CallInbox**: waiters, timers and events racing. Correct if each event is
  delivered once, in the order of emission, and a request that waits is
  answered or times out. (That the waiter's client still listens the daemon cannot know.)
* **ControlServer and peer-mcp**: popups, availability and resolutions racing
  over several sessions. Correct if a pending invite is offered, to its target
  only when it has one, until it is resolved, and not afterwards; and if a call
  has one owning session.
* **Connection and daemon**: both daemons dial; handshakes and closes cross;
  closes delete table entries by name. Correct if what the table has can be sent
  on, if the two ends agree on whether a connection lives, and if a lost
  connection is found and dialled again.
* **References**: offers, fetches, their timers and the end of the call cross.
  Correct if an offered file can be fetched until the call ends and not after,
  and a fetch brings what it asked for.
* **Pairing**: one side persists and the other does not. Correct if after a
  completed pairing each side holds the token that the other one checks, in
  memory and in its file.

`PROJECT.json` lists these hazards one by one, at their lines.

## 2. Modules

| module | what it is |
|---|---|
| `Call` | one call between two daemons: the detailed model |
| `TurnTaking` | what the floor promises: the abstract specification |
| `CallProperties` | the properties of a call, the refinement mapping to `TurnTaking`, the inductive invariants |
| `MCCall` | values of the constants for TLC |
| `CallProofs` | type correctness of `Call`, proved |
| `CallFloorProofs` | exclusiveness of the floor, proved |
| `CallTurnProofs` | `Call` implements `TurnTaking`, and applies turn messages in order, proved |
| `CallClosingProofs` | a closed call stays closed, closes at both sides and is reported truthfully, and the floors agree in the end, proved |
| `Popups` | incoming calls and the sessions of one machine: the control server and its `peer-mcp` processes |
| `MCPopups` | `Popups` for TLC |
| `PopupsProofs` | types, and an invite is offered while it is pending and retired afterwards, proved |
| `Links` | the connections between two daemons: handshake, heartbeat, closing, the tables, the dial loops, and LIST_SESSIONS over them |
| `MCLinks` | `Links` for TLC |
| `LinksProofs` | types, and what the tables, ends and requests may be, proved |
| `Pairing` | `peerd ready`, `pair` and `remove`, and what the daemons keep of them in memory and in `peers.toml` |
| `MCPairing` | `Pairing` for TLC |
| `PairingProofs` | types, and what a pairing that was reported or stopped leaves behind, proved |
| `Inbox` | the events of a call and the requests of sessions at one daemon: a component without a specification of its own |
| `Sessions` | composes `Inbox` with a connected call: files by reference, fetches, pausing and ending, the polling bridge |
| `MCSessions` | `Sessions` for TLC: what its clients do |
| `SessionsProofs` | types, and the delivery of events, fetches and offers, proved |

`Call`, `Links` and `Sessions` look at the same two daemons at different
depths. `Call` has everything that a call's record goes through and one link
that breaks and returns; `Links` has what a link is made of, and one request
that depends on nothing else; `Sessions` takes a connected call, with the part of
`Call` that changes its state, and adds what hangs on that.

### How `Call` corresponds to the code

The two daemons are named by their roles in the call, `caller` and `callee`.

* `state[p]`, `floor[p]`, `seqOut[p]`, `seqIn[p]` are the fields of p's
  `CallRecord`. `NONE` stands for no record yet, `LOST` for a record that a
  crash removed.
* A step is the code between two awaits. `tasks[p]` holds the suspended
  handlers of p: what each does next, the sequence number it carries, and
  whether the connection it captured is still open (`invite`, `acceptInvite`
  and `denyInvite` keep the connection they looked up at the start; `send` and
  its like look it up after the await). Any suspended handler may be the next
  to resume, since file operations complete in any order.
* `wire[p]` are the frames travelling towards p, in order. `up[p]` says that p
  has a connection in its table, `alive` that the connection really carries
  frames. A frame sent on a dead or closed connection is lost without an error,
  which is what `Connection.sendRaw` does.
* `pending` is the armed invite timer, `outcome` what the promise of `invite()`
  has become, `heard[p]` the last event p's CallManager emitted.

Each operation is an action for its part before the first await, and one for
the part after it: `Speak`/`SendTurn`, `RequestEnd`/`SendEnd`,
`ReceiveTurn`/`ApplyTurn` and so on. `Emit` is the emit that ends a handler.
`send`, `shareFile`, `proposeChange` and `shareFileRef` have the same control
and are one action, as are the four handlers of their frames; `pause` and
`resumeCall` share actions that differ in a constant. PAUSE, RESUME,
HUMAN_INJECT, END and INVITE_RESPONSE are taken by any known call whatever its
state, in one action (`ReceiveForCall`).

Abstractions: payloads, texts and the transcript's contents are left out; the
disk does not fail; the connection is one link with an order of frames per
direction (the several links that exist while both daemons dial are in
`Links`), and both sides must have noticed its loss before it is dialled again; the control server's decision whether a session is
available for an invite is a free choice; END takes its sequence number with
its request, though the code takes it after the artifacts are written (nobody
reads it). The await of `persistMeta` that ends a handler which emits nothing
is not a step of its own. `Invite` merges the directory's creation with the
storing of the record: nobody knows the call before.

### How `Popups` corresponds to the code

`Popups` is the callee's side seen from the sessions. `state[c]` is the call's
state, as far as a session notices it; `tasks` the handlers of the call manager
that are suspended before they store the record or emit an event. `pending` is
`pendingInvites`; `since[s]` the place of s in the ordered map `subscribers`
(0 when it is not there), `available[s]` its flag. `seen`, `early` and
`handled` are `invitedSeen`, `resolvedBeforeEmit` and `handledLocally` of the
`peer-mcp` process of s; `popup[s]` are the invites that its bridge has
announced and not taken back. `request[s]` is the line that s has written and
the server not yet read, `notes[s][c]` what the server has written for s about
c and s not yet read. One socket keeps its lines in order; what concerns two
different calls touches no common state, so an order per call is kept.

`Audience` and `WithInvites` are the dispatch: to the target, if it is
available, or else to all available sessions, the newest with a popup. The
dispatch that follows the end of a socket (`NoticeExit`) and the replay
(`SetSessionMetadata`) leave the target out, as the code does. `End` stands for
every END, from the peer, its timer or a client; `AcceptInvite` may fail for
want of a connection after it has set CONNECTED.

Left out: labels and working directories, a session that subscribes a second
time, and two requests of one session under way together. The polling of
`list_calls` and the ownership of calls are in `Sessions`.

### How `Links` corresponds to the code

A link is one WebSocket, named by the daemon that dials it; its slot is used
again when both ends and the loop have done with it. `phase[l][d]` is where
d's `Connection` object is: "shaking" until `ready`, "gone" after its close
event. `closed[l][d]` is the flag of the same name, which `close()` sets before
the close event comes: in between, the end still handles what arrives, and
sends nothing. `table[d]` is `connections`, `loop[d]` and `held[d]` the place
of `maintainOutbound` and the connection it has in hand.

`ReadHello`, `ReadWelcome`, `ReadClose`, `ReadList` and `ReadResponse` are the
cases of `handleRaw` and of the close event; `HandshakeTimeout`, `Heartbeat`
and `CloseTimeout` the timers of an end, the last that of the `ws` library;
`GiveUp` the loop's own handshake timer or an error. A broken link loses what
is on it and tells nobody: each end finds out by itself (`Reset`, or a timer).
`TableAfterClose` is the difference that matters: the listener of an outbound
connection deletes the peer's entry, whatever it is; that of an inbound one
only its own.

Abstractions: PING and PONG are not frames; on a link that lives the heartbeat
does not fire, on a dead one it does, which is what they are for. A handshake
that times out on a live link counts as a fault. `fatal()` has no action, since
`NothingUnexpected` shows that no frame calls for it. Versions, tokens and
capabilities match.

### How `Pairing` corresponds to the code

An attempt i is one run of `peerd pair`: `command[i]` is its process,
`accepting[i]` the acceptor's `handlePairRequest`, `adding[i]` the `add_peer`
request at its own daemon. `memory[d]` is `config.peers`, `file[d]` is
`peers.toml`, `writes[d]` are the `writeFile` calls under way: `AddPeer` changes
memory and starts one with all of memory's contents, `WriteEnds` is what follows
the await. A write that overlaps with another one of the same file is marked
(`Mixed`) and may leave a mixture (`Torn`), whichever of the two ends first, as
may a crash or a failure in the middle of one; a daemon does not start from such
a file. A token is named by the attempt and the side that made it.

`undisturbed[i]` is what the properties rest on: no other attempt with one of
its daemons, no removal of its entry, and no other failing, interrupted or
mixed write at its daemons met the attempt, and no later attempt has taken its
place. The code has no lock, so without it nothing holds (see the findings). A
mixture can also come from the writes of two other attempts at the same daemon;
the proof found this, with three attempts, where the run has two.

Abstractions: names, hosts, ports and fingerprints are right; a request or
answer that is lost is a command that fails, with or without the POST having
arrived; the dial loops are counted (`loops`), what they do is in `Links`.

### How `Inbox` and `Sessions` correspond to the code

In `Inbox`, `asks` are the requests of all sessions, `answer[i]` what the
daemon has resolved the i-th with, `status[i]` what the client's promise has
become; in between lies `socket[s]`, the lines written and not yet read.
`queue` and `waiters` are the two maps of `CallInbox` for the call, `Push`,
`Recv` and `RecvTimeout` its code. A session that exits or gives up tells the
daemon nothing, and its waiter stays in line.

`Sessions` has two daemons: `near`, whose sessions are looked at, and `far`.
`tasks` and `wire` are as in `Call`. `refs` is far's `localRefs`, `pending`
near's `pendingFetches`; `owned`, `seen` and `told` are `ownedByThisSession`,
`lastState` and the last channel event of each bridge. `ended` remembers that
far has begun or heard of an end.

Abstractions: the floor is left out (`Call` has it), so any share may come when
its guard on the state allows it; only far shares and only near fetches; the
time that a request travels is counted as time before it is made; both daemons
notice a loss of the connection at once (`Links` has the rest); `list_calls` is
polled when there is something new, since another poll changes nothing. What
the clients of one behaviour do is a *workload*: they receive, or fetch, or
watch. Receiving, fetching and watching share no state but the events and the
state of the call, and each workload has the controls and faults that bear on it.

Some operators have a variant next to them whose comment begins with
"Mistake". It has a plausible bug in it; put in the operator's place, it must
make a property fail. `PROJECT.json` ("mutants") says which.

## 3. Properties and runs

| run | question | bounds |
|---|---|---|
| `call_turns` | `TypeOK`, `FloorExclusive`, `FloorInvariant`, `TurnsAppliedInOrder`, `TakesTurns` (the refinement of `TurnTaking`): is there always at most one turn, whatever crosses and fails? | every request, either first floor, 2 in-call requests, 1 fault |
| `call_closing` | `ClosingInvariant`, `CloseAgreement`, `OutcomeHonest`, `ClosedIsFinal`: do answer, timer, several clients and ENDs race to the same result on both sides? | send, inject, end; clients do not wait; 2 requests, no fault |
| `call_settled` | `FloorsAgree`, `GivenUpStaysDown`, and under fairness `InviteSettles`, `EndReachesPeer` | send, end; 4 requests, 1 fault |
| `floor_two_clients` | refutes `FloorExclusive` when clients do not wait for their answers | 3 sends |
| `closed_reopened` | refutes `ClosedIsFinal` with PAUSE | 2 requests |
| `orphan_ringing` | refutes `NoOrphanRinging` | 1 request |
| `pause_loses_floor` | refutes `FloorsAgree` with PAUSE and RESUME | 3 requests |
| `popups` | `TypeOK`, `InviteInvariant`, `PendingIsOffered`, `ResolvedIsRetired`, and under fairness `RingingIsShown`: is an invite always with a session that can show it, and taken back everywhere when it is resolved? | 2 sessions, 1 call with or without a target, 3 changes of availability |
| `denied_rings_on` | refutes `DenialRetires` | 1 session, 1 change |
| `links` | `TypeOK`, `LinkInvariant`, `TabledIsOpen`, `NoHalfOpen`, `NothingUnexpected`, `SettledOnce`, and under fairness `DeadIsDropped`, `Reconnects`: while both daemons dial, do their tables hold usable connections, do the ends agree, is a loss found and repaired? | 2 links per dialling daemon, 1 request, 1 fault |
| `pairing` | `TypeOK`, `PairingInvariant`, `PairedBothWays`, `PairedDurably`, `HalfAtAcceptorOnly`: what is true of a pairing that was reported, or that stopped half way? | 3 daemons, 2 attempts, 1 removal, 1 fault |
| `sessions` | `TypeOK`, `SessionsInvariant`, `EachEventOnce`, `FetchMatches`, `OfferedIsHeld`, `RefsFreed`, `ReadInOrder`, and under fairness `RequestsSettle`, `NoticesCatchUp`: do events, files, requests and notices survive every crossing of timers, ends, reopenings, exits and lost connections? | 6 workloads of 1 or 2 sessions, up to 3 requests, 2 files, 2 controls, 1 fault each |

`FloorInvariant`, `ClosingInvariant`, `LinkInvariant`, `SessionsInvariant`,
`InviteInvariant` and `PairingInvariant` are the inductive invariants of
section 4.

The invite, the answer, the timer, the loss of the connection and the reconnect
are not bounded by `MaxRequests`; it counts only what clients do inside the
call. Two requests let any two operations cross, from either side, in any
order, with all their suspended parts; three let a third act on what the
crossing left (this is where the floor is lost); four let both sides speak
twice. One fault is a crash or a broken connection at any moment, with a
reconnect afterwards.

For `popups`, two sessions make a newest and an older one, and each may exit,
before or after the server and the other have noticed anything; three changes
of availability let one session come, go and come back, or both come and one
go, at any moment of the call. Invites share no state but the sessions, so one
call, with each possible target and without one, is enough.

For `links`, two links per daemon let a daemon dial anew while its last link is
still closing at the other end, beside the two of the peer; one fault (a late
handshake, a break or a restart, at any moment) makes every such overlap, and
the dialling, closing and redialling that follow are not bounded. For `pairing`,
two attempts overlap or follow each other, between the same daemons in both
directions or with one in common; the fault is a crash or a failing write; a
stop by a broken request body is not counted. For `sessions`, three requests of
two sessions let a second and a third wait behind one that times out or is
abandoned; two files let answers cross; two controls let a PAUSE or RESUME cross
an END, which is what reopens a call.

Deadlock is not checked: a call on which the clients ask for nothing more just
stays as it is, and so do sessions whose users do nothing.

**Serial.** A Claude Code session asks the daemon for one thing at a time and
waits for the answer. With `Serial = TRUE` no client of a side asks while
another request of that side is under way. That is an assumption about the
clients: `ControlServer.handleClient` starts an async call for every line it
reads and queues nothing, and several sessions may act on one call. The floor
is exclusive only under it, which `floor_two_clients` shows.

**Fairness.** Weak fairness of receiving, resuming and noticing a closed
connection, for each daemon, of the invite timer and of the redial: the event
loop runs every callback that is ready, file operations complete, a timer
fires, `maintainOutbound` dials for ever. Nothing is assumed of the clients,
and faults are never obliged. In `Popups`: suspended handlers resume, the
server reads its sockets and notices those that close, and a session that runs
reads what it is sent; users are assumed to do nothing. In `Links`: the ends of
a link read and their timers fire, and the loops go on. In `Sessions`: handlers
resume, frames and lines are read, timers fire and bridges poll. Requests,
faults and, in `Sessions`, the return of a connection are never obliged, so
`RequestsSettle` holds although nothing ever reconnects. `NoticesCatchUp` is
about a session that owns the call and has seen it before it was connected, or
has been told something of it: the code promises the others nothing (see below).

### What the runs found

* A second request between the floor check and the flip of `send()` lets both
  sides have the floor (`floor_two_clients`); the architecture document
  promises a strict turn lock.
* PAUSE and RESUME reopen a call that was closed while they were suspended
  (`closed_reopened`).
* An END that overtakes the callee's `mkdir` leaves a call ringing that nobody
  made (`orphan_ringing`).
* A SEND that crosses a PAUSE loses the floor for the rest of the call
  (`pause_loses_floor`).
* A denied call stays pending: `denyInvite` emits no event, so the control
  server neither forgets the invite nor tells the other sessions
  (`denied_rings_on`).

Fourteen more disagreements between the documents or comments and the code,
seen on reading or while modelling, are listed in `PROJECT.json` without a run.
Of calls: a dropped connection does not end one, RESUME is not limited to the
side that paused, calls are not reloaded after a crash, there is no idle
timeout, and a comment still has the old limit for shared files. Of sessions: a
targeted invite is passed on to sessions it was not for, two sessions can own a
call, the README names both the newest and the oldest session as the one that
pops up (it is the newest), the bridge takes every session for the callee, and
it misses "connected" if it polls before the session owns the call. Of daemons:
a displaced outbound connection keeps its loop waiting (`Reconnects` names the
exception), overlapping pairings may both succeed and not match, a removed peer
comes back with the next pairing, and a broken `POST /pair` stops the daemon.

## 4. Proofs

Every safety invariant and every action property that a passing run checks is
also a theorem, for every value of the constants: any requests, first floors,
sessions, daemons, and any bounds. The theorems about
calls, except on types, have hypotheses, given in the table.

| module | theorems | property | under |
|---|---|---|---|
| `CallProofs` | `CallTypeCorrect` | `TypeOK` | |
| `CallFloorProofs` | `FloorInvariantHolds`, `FloorIsExclusive` | `FloorInvariant`, `FloorExclusive` | `Serial` |
| `CallTurnProofs` | `CallTakesTurns`, `TurnsAreInOrder` | `TakesTurns` (refinement), `TurnsAppliedInOrder` | `Serial` |
| `CallClosingProofs` | `ClosedStaysClosed` | `ClosedIsFinal` | nobody pauses |
| | `ClosingInvariantHolds`, `ClosesAtBothSides`, `ReportIsHonest` | `ClosingInvariant`, `CloseAgreement`, `OutcomeHonest` | nobody pauses, no fault |
| | `GivenUpInviteStaysDown` | `GivenUpStaysDown` | `Serial`, nobody pauses |
| | `FloorsAgreeInTheEnd` | `FloorsAgree` | `Serial`, nobody pauses, the caller speaks first |
| `LinksProofs` | `LinksTypeCorrect`, `LinkInvariantHolds`, `TableIsOpen`, `NoHalfOpenLink`, `NothingUnexpectedArrives`, `RequestsSettleOnce` | `TypeOK`, `LinkInvariant`, `TabledIsOpen`, `NoHalfOpen`, `NothingUnexpected`, `SettledOnce` | |
| `SessionsProofs` | `SessionsTypeCorrect`, `SessionsInvariantHolds`, `EventsGivenOnce`, `EventsReadInOrder`, `FetchesMatchAlways`, `OfferedRefsAreHeld`, `ClosedCallsForget` | `TypeOK`, `SessionsInvariant`, `EachEventOnce`, `ReadInOrder`, `FetchMatches`, `OfferedIsHeld`, `RefsFreed` | |
| `PopupsProofs` | `PopupsTypeCorrect`, `InviteInvariantHolds`, `PendingAlwaysOffered`, `ResolvedAlwaysRetired` | `TypeOK`, `InviteInvariant`, `PendingIsOffered`, `ResolvedIsRetired` | |
| `PairingProofs` | `PairingTypeCorrect`, `PairingInvariantHolds`, `ReportedPairingConnects`, `ReportedPairingSurvives`, `HalfPairingAtAcceptor` | `TypeOK`, `PairingInvariant`, `PairedBothWays`, `PairedDurably`, `HalfAtAcceptorOnly` | |

The assumptions are `ConstantsAssumption` (`Call`), `LinksAssumption`,
`PopupsAssumption`, `PairingAssumption` and those of `Inbox` and `Sessions`:
types of the constants, and that named values differ. Every run evaluates those
of its modules.

**The hypotheses.** Each is a setting of the constants that a run has too.

* `Serial`, that a client waits for its answer: two requests of one daemon both
  pass the floor check (`floor_two_clients`), and an END that a second client
  asks for while the call is being dialled makes it CLOSING, which neither the
  timer nor an acceptance looks for: the invite is reported as timed out, and
  the acceptance then sets CONNECTED.
* Nobody pauses (`NobodyPauses`: neither PAUSE nor RESUME is in `Requests`): a
  suspended PAUSE or RESUME reopens a closed call (`closed_reopened`) and loses
  the floor (`pause_loses_floor`).
* No fault (`MaxFaults = 0`), for the agreement on the end and the honest
  report: a lost END leaves the two sides apart, since nothing ends the call of
  a side that hears nothing any more, and a lost record has no answer to show.
* The caller speaks first (`FirstFloors \subseteq {"caller"}`), for the floors:
  a callee with the first floor may be refused before the caller has applied
  its acceptance, and the floor is then with nobody. The hazard at
  `call_manager.ts:720` in `PROJECT.json` is this one.

**The floor.** `FloorExclusive` alone is not inductive: a side that hears a turn
message takes the floor, so one must know that the other side has given it
away, that there is only one such message, and that no second one is about to
be sent. `FloorInvariant` says this (`OneTurnInFlight`, `SpeakerHoldsFloor`),
together with what makes it start: the callee's record is made from the INVITE,
so until it exists there is one invite in one place (`OneInvite`), and nobody
has spoken (`NobodySpeaksBeforeRinging`, `NothingBeforeInvite`); and handlers
other than the invite's belong to calls that have a record (`TasksHaveRecord`).
`Serial` is used in one place, the step of `Speak`.

The proof describes each step by what it adds: `TasksGrow(p, steps)` and
`WireGrows(p, types)` bound the handlers and frames that can appear, whatever
the sequence operations are. `OrdinaryStep` then covers, at once, every action
that makes no record, moves no floor and sends neither INVITE nor a turn
message; `InvitingSteps` and `SpeakingSteps` treat the other nine, `CrashStep`
the crash. The same lemmas say what a step does to the turn: it keeps it
(`TurnKept`; a turn message may get lost), makes a record (`RecordMade`), sends
the turn (`TurnSent`) or hears it (`TurnHeard`), and a crash forgets it
(`TurnForgotten`). `TurnRefined` maps these five to `TurnTaking`: `Begin` when
the side that is to speak first gets its record, `SpeakTo`, `Hear`, `Lose`,
`Forget`, or nothing.

**The order of turns.** `handleIncomingSend` assigns `seqIn` after an await from
what it read before, so monotonicity needs that no older message is still to be
applied. `OrderInvariant` says that the number of every turn message on its
way, suspended, in flight or about to be applied, lies between the receiver's
`seqIn` and the sender's `seqOut`, and that before the callee has its record all
is still at 0. With `FloorInvariant` (one message on its way) every step keeps
it.

**Closing.** The argument has two layers. Under any faults, without pauses, no
handler that assigns CONNECTED or PAUSED is left for a closed call, and the
callee's record is made once out of nothing (`NoPausing`, `RingsOnce`); this is
`ClosedStaysClosed`. Without faults, the answer that is on its way or was
reported is what the callee's record says (`AnswersFit`), nothing disappears
(`NothingLost`), and a call closed at one side only has an END, a refusal or an
acceptance on its way, which makes the other side close too or answer with its
own END (`EndsMeet`). `CloseAgreement` does not mention what is on its way, so
it is not inductive without this. It allows that the callee rings on after the
caller gave up, since that happens (`orphan_ringing`).

`GivenUpStaysDown` holds under any faults. Its invariant is that as long as the
promise may be settled, which the armed timer or the INVITE not yet sent can
do, and not both, the caller is DIALING or CLOSED, so that what settles it
closes the call.

**The floors agree in the end.** Apart from `FloorInvariant`, this needs that the
one acceptance is in one place (`OneAccept`), that the two records fit
(`RecordsFit`: before the acceptance has been applied the caller is not in
conversation), that nobody speaks before that (`NobodySpeaksBeforeAnswer`), and
that the floors differ only while the turn message that makes them equal is on
its way (`FloorsMeet`). Each is claimed as long as there has been no fault.

**Connections.** `TabledIsOpen` is about one daemon, but the close event of an
outbound link deletes whatever the table holds, and frames of a handshake
decide what is in it. `LinkInvariant` relates each loop to the link it has in
hand (no two wait on the same one), and the frames on each link to the phases
of its ends: one HELLO, first; one WELCOME, first; an end that has closed is
known to have, or its CLOSE is still to be read. `NothingUnexpected`,
`NoHalfOpen` and `TabledIsOpen` follow from it.

**Sessions.** `SessionsInvariant` says that who stands in line stands there once
and has no answer, that the queue is what remains of the events, in order
(`TakenInOrder`), that the replies to a session are to its own requests and
bring later events than it has read (`RepliesInOrder`), that every task and frame
of a fetch names the ref its request asks for (`FetchesMatch`), and that what is
about to be offered is held until an end (`OffersHeld`). `Inbox` is a component
without a specification: its facts are lemmas about its operators, and
`SessionsProofs` uses them for each action that calls it.

**Popups.** Which session pops up is decided by its place in the ordered map of
subscribers; `SomeoneIsNewest` states that every non-empty set of subscribers
has a newest one, as an invariant of the places given out, so that no argument
on finite sets is needed. `PendingIsOffered` needs that nobody who heard of an
invite has heard it resolved (`PendingStaysOpen`), and `ResolvedIsRetired` that
the last note about a resolved invite says so (`ResolutionComesLast`).

**Pairing.** What keeps a reported pairing is that each write under way at one of
its daemons contains its entry (`UndisturbedKept`), because memory does. That
needs that writes belong to handlers that wait for them (`WritesAwaited`,
`WritesOnce`), that no other attempt with one of its daemons is under way
(`AttemptsApart`), and that the initiator stores nothing before the acceptor has
answered (`TokensFollow`).

**Checked and proved.** TLC checks the six invariants named in section 3 on the
runs' instances. `GivenUpInvariant`, `OrderInvariant` (with the numbers bounded)
and `FloorsInvariant` were checked by TLC on instances like those of
`call_settled` and `call_turns` before they were proved; no run repeats this,
since the proof says more.

**Model-checked only.** `InviteSettles`, `EndReachesPeer`, `RingingIsShown`,
`DeadIsDropped`, `Reconnects`, `RequestsSettle` and `NoticesCatchUp`: they are
liveness under fairness, and ENABLED and fairness are out of the prover's reach.
The five refutations are TLC's too: a counterexample is a behaviour of one
instance.

## 5. What is left

All components that carry a protocol are modelled, and their safety properties
are proved. Worth doing next:

1. The agreement of `CloseAgreement` and `OutcomeHonest` up to the first fault,
   in place of `MaxFaults = 0`, as `FloorsAgreeInTheEnd` has it.
2. `FloorsAgree` for a callee that speaks first, once `call_manager.ts` holds a
   SEND back until the acceptance before it has been applied.
3. Invariants for the hazards of `PROJECT.json` that have no property, where the
   code promises something.

Not modelled:

* `resolvePeer` of `peer-mcp`, a pure function over strings (its edit distance
  against names of a few letters would say nothing about the protocol), the
  reading of files to share, and the texts that tools return.
* TLS identity and random identifiers: libraries, no protocol state.
* Notifications, status line and hooks: output only.
* `peerd list`, `status`, `sessions`, `init`: one-shot commands that read, or
  that write `peers.toml` before a daemon runs.
* Installer, local test setup, skills and smoke tests.
* Failures of the disk other than for `peers.toml`: the code lets them reject
  the operation's promise and handles them nowhere.
