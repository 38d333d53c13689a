---------------------------- MODULE TurnTaking ----------------------------
(***************************************************************************)
(* What the floor of a call promises (the turn discipline that             *)
(* call_manager.ts keeps with CallRecord.floor): at any time one side may  *)
(* speak, or a message is on its way and nobody may, or the turn is lost.  *)
(* The turn is never with both, and who hears a message speaks next.       *)
(***************************************************************************)
CONSTANT Sides

VARIABLES
  begun,   \* the call has given somebody the first turn
  turn,    \* who may speak, or "nobody"
  flight   \* whom a message is on its way to, or "nobody"

ttvars == <<begun, turn, flight>>

TurnTypeOK ==
  /\ begun \in BOOLEAN
  /\ turn \in Sides \cup {"nobody"}
  /\ flight \in Sides \cup {"nobody"}
  /\ turn = "nobody" \/ flight = "nobody"

TurnInit ==
  /\ begun = FALSE
  /\ turn = "nobody"
  /\ flight = "nobody"

Begin(p) ==
  /\ ~begun
  /\ begun' = TRUE
  /\ turn' = p
  /\ UNCHANGED flight

\* p speaks: the message is on its way to the other side, or lost at once.
SpeakTo(p, q) ==
  /\ turn = p
  /\ turn' = "nobody"
  /\ flight' \in {q, "nobody"}
  /\ UNCHANGED begun

Hear(p) ==
  /\ flight = p
  /\ flight' = "nobody"
  /\ turn' = p
  /\ UNCHANGED begun

\* The message on its way is dropped or refused.
Lose ==
  /\ flight # "nobody"
  /\ flight' = "nobody"
  /\ UNCHANGED <<begun, turn>>

\* The side that may speak has forgotten the call.
Forget ==
  /\ turn # "nobody"
  /\ turn' = "nobody"
  /\ UNCHANGED <<begun, flight>>

TurnNext ==
  \/ \E p \in Sides : Begin(p) \/ Hear(p)
  \/ \E p, q \in Sides : p # q /\ SpeakTo(p, q)
  \/ Lose
  \/ Forget

TurnSpec == TurnInit /\ [][TurnNext]_ttvars
============================================================================
