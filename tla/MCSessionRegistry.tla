------------------------- MODULE MCSessionRegistry -------------------------
(* One session: threads c1 and c2 of one process and c3 of another work on  *)
(* it.  Three processes: c1 and c2 work on s1, c3 on its child s2.          *)
EXTENDS SessionRegistry

CONSTANTS c1, c2, c3, p1, p2, p3, s1, s2

MCProcOf == [c \in Callers |-> IF c = c3 THEN p2 ELSE p1]
MCOneEach == [c \in Callers |-> IF c = c1 THEN p1 ELSE IF c = c2 THEN p2 ELSE p3]
MCOnlyS1 == [c \in Callers |-> {s1}]
MCWorks == [c \in Callers |-> IF c = c3 THEN {s2} ELSE {s1}]
MCParent == [s \in Sessions |-> IF s = s1 THEN NULL ELSE s1]
=============================================================================
