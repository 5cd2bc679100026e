------------------------------ MODULE OpenOnce ------------------------------
(***************************************************************************)
(* What the inbox of Slack messages promises: a message opens one goal for *)
(* as long as it is remembered.  Messages are forgotten when more than     *)
(* MaxKnown are remembered, and when somebody dies at work.                *)
(***************************************************************************)
EXTENDS Integers, FiniteSets

CONSTANTS Messages, MaxKnown

VARIABLES
  opened,   \* how many goals each message has opened
  known,    \* the messages that are remembered
  deaths    \* how often somebody died at work

ovars == <<opened, known, deaths>>

Init == opened = [m \in Messages |-> 0] /\ known = {} /\ deaths = 0

Open(m) ==
  /\ m \notin known
  /\ opened' = [opened EXCEPT ![m] = @ + 1]
  /\ known' = known \cup {m}
  /\ UNCHANGED deaths

Evict(S) ==
  /\ Cardinality(known) > MaxKnown
  /\ S \subseteq known /\ Cardinality(S) = MaxKnown
  /\ known' = S
  /\ UNCHANGED <<opened, deaths>>

Die(S) ==
  /\ S \subseteq known
  /\ known' = S /\ deaths' = deaths + 1
  /\ UNCHANGED opened

Next == \/ \E m \in Messages : Open(m)
        \/ \E S \in SUBSET known : Evict(S) \/ Die(S)

Spec == Init /\ [][Next]_ovars
=============================================================================
