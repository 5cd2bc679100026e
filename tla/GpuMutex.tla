------------------------------ MODULE GpuMutex ------------------------------
(***************************************************************************)
(* What the retraining lease is for (closed_loop.py, "a single active      *)
(* retraining lease"): one job at a time uses the GPU, and the next one    *)
(* takes it only after the last has left.                                  *)
(***************************************************************************)
CONSTANT Uses          \* whatever can use the GPU
VARIABLE using         \* the uses that go on

Init == using = {}

Take(u)  == using = {} /\ using' = {u}
Leave(u) == u \in using /\ using' = using \ {u}

Next == \E u \in Uses : Take(u) \/ Leave(u)
Spec == Init /\ [][Next]_using
=============================================================================
