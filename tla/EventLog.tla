------------------------------ MODULE EventLog ------------------------------
(***************************************************************************)
(* What the Intent Registry promises to its callers and subscribers: every *)
(* intent has a history that only grows at its end, and an event is        *)
(* announced only after it was committed, and is never withdrawn.          *)
(***************************************************************************)
EXTENDS Naturals, Sequences

CONSTANTS Intents, Types

VARIABLES
  history,     \* the types of the events of each intent, in version order
  announced    \* the (intent, version) pairs a subscriber can have seen

Init ==
  /\ history = [i \in Intents |-> <<>>]
  /\ announced = {}

Commit(i) ==
  /\ \E type \in Types : history' = [history EXCEPT ![i] = Append(@, type)]
  /\ UNCHANGED announced

Announce(i) ==
  /\ \E v \in DOMAIN history[i] : announced' = announced \cup {<<i, v>>}
  /\ UNCHANGED history

Next == \E i \in Intents : Commit(i) \/ Announce(i)

Spec == Init /\ [][Next]_<<history, announced>>

=============================================================================
