---------------------------- MODULE SessionIndex ----------------------------
(***************************************************************************)
(* What registry.json of dottie-rlm promises to everybody who reads it: a  *)
(* session once added is never removed, done is for ever, and one call     *)
(* moves one session, or sets some live ones idle.                         *)
(***************************************************************************)
CONSTANT Sessions
VARIABLE index

Init == index = [s \in Sessions |-> "absent"]

Add(s)     == index[s] = "absent"          /\ index' = [index EXCEPT ![s] = "live"]
Address(s) == index[s] \in {"live", "idle"} /\ index' = [index EXCEPT ![s] = "live"]
Finish(s)  == index[s] # "absent"          /\ index' = [index EXCEPT ![s] = "done"]
Retire(S)  == /\ \A s \in S : index[s] = "live"
              /\ index' = [s \in Sessions |-> IF s \in S THEN "idle" ELSE index[s]]

Next == \/ \E s \in Sessions : Add(s) \/ Address(s) \/ Finish(s)
        \/ \E S \in SUBSET Sessions : Retire(S)

Spec == Init /\ [][Next]_index
=============================================================================
