---------------------------- MODULE MCSlackInbox ----------------------------
(* Files 1 and 4 hold message 2, file 3 cannot be read; messages arrive in  *)
(* any order.                                                               *)
EXTENDS SlackInbox, TLC

CONSTANTS d1, d2

MCTsOf == (1 :> 2) @@ (2 :> 1) @@ (3 :> NULL) @@ (4 :> 2)
=============================================================================
