----------------------- MODULE SessionRegistryProofs -----------------------
(***************************************************************************)
(* Proofs about SessionRegistry, for any threads, sessions and crashes.    *)
(*                                                                         *)
(* A sweep takes no session from a turn in flight: _busy_depth of a        *)
(* session counts the turns of its process on it, which needs that a       *)
(* thread in a turn is in no other call.                                   *)
(*                                                                         *)
(* Until the lock of a call that is alive is broken, the registry          *)
(* implements SessionIndex: a call under the lock file has read what the   *)
(* index still is, and a lock that is broken is a dead process's.          *)
(***************************************************************************)
EXTENDS SessionRegistry, FiniteSetTheorems, TLAPS

States == {"absent", "live", "idle", "done"}
Ops == {"none", "admit", "add", "get", "turn", "touch", "done", "sweep", "flip"}
PCs == {"rest", "wait", "break", "apply", "unlock", "flush", "turn"}
FrameType == [op : Ops, pc : PCs, s : Sessions \cup {NULL},
              copy : [Sessions -> States] \cup {NULL}, popped : SUBSET Sessions,
              mine : Sessions \cup {NULL}]

(* The variables the argument is about have their types. *)
GTypeOK ==
  /\ index \in [Sessions -> States]
  /\ busy \in [Procs -> [Sessions -> Int]]
  /\ frame \in [Callers -> FrameType]

(* What a call knows where it needs it. *)
Knows(f) ==
  /\ f.op \in {"admit", "add", "get", "turn", "touch", "done"} => f.s \in Sessions
  /\ f.pc = "apply" => f.copy \in [Sessions -> States]
  /\ f.pc = "flush" => f.op \in {"admit", "done", "sweep", "turn"}
  /\ f.pc = "turn" => f.mine \in Sessions
FramesKnow == \A c \in Callers : Knows(frame[c])

(* _busy_depth[s] counts the turns on s of the threads of its process. *)
Turns(p, s) == {c \in Callers : ProcOf[c] = p /\ frame[c].pc = "turn" /\ frame[c].mine = s}
TurnsCounted ==
  \A p \in Procs, s \in Sessions : busy[p][s] = Cardinality(Turns(p, s))

RInv == GTypeOK /\ FramesKnow /\ TurnsCounted

-----------------------------------------------------------------------------
(* Every call but a turn leaves the turns alone                            *)

(* A step of c that is no part of a turn. *)
Quiet(c) ==
  /\ \A b \in Callers : b # c => frame'[b] = frame[b]
  /\ frame[c].pc # "turn" /\ frame'[c].pc # "turn"
  /\ busy' = busy

LEMMA QuietCounts ==
  ASSUME TurnsCounted, NEW c \in Callers, Quiet(c)
  PROVE  TurnsCounted'
<1>1. \A p \in Procs, s \in Sessions : Turns(p, s)' = Turns(p, s)
  BY DEF Quiet, Turns
<1> QED BY <1>1 DEF TurnsCounted, Quiet

(* A caller whose frame becomes g. *)
LEMMA Becoming ==
  ASSUME RInv, NEW c \in Callers, NEW g \in FrameType,
         frame' = [frame EXCEPT ![c] = g], Knows(g),
         frame[c].pc # "turn", g.pc # "turn",
         busy' = busy, index' \in [Sessions -> States]
  PROVE  RInv' /\ Quiet(c)
<1>1. Quiet(c)
  BY DEF Quiet, RInv, GTypeOK
<1>2. GTypeOK'
  BY DEF RInv, GTypeOK
<1>3. FramesKnow'
  BY DEF RInv, GTypeOK, FramesKnow
<1>4. TurnsCounted'
  BY <1>1, QuietCounts DEF RInv
<1> QED BY <1>1, <1>2, <1>3, <1>4 DEF RInv

(* A caller that goes on with its call, with nothing new in its hands. *)
LEMMA Going ==
  ASSUME RInv, NEW c \in Callers, NEW x \in {"wait", "break", "unlock"},
         frame' = Goes(c, x), frame[c].pc # "turn",
         busy' = busy, index' \in [Sessions -> States]
  PROVE  RInv' /\ Quiet(c)
<1> DEFINE f == frame[c]
           g == [f EXCEPT !.pc = x]
<1>1. f \in FrameType /\ Knows(f) /\ frame' = [frame EXCEPT ![c] = g]
  BY DEF RInv, GTypeOK, FramesKnow, Goes
<1>2. g \in FrameType /\ g.pc = x /\ g.op = f.op /\ g.s = f.s
  <2> HIDE DEF f
  <2> QED BY <1>1 DEF FrameType, PCs
<1>3. Knows(g)
  <2> HIDE DEF f, g
  <2> QED BY <1>1, <1>2 DEF Knows
<1> HIDE DEF g
<1> QED BY <1>1, <1>2, <1>3, Becoming

(* A caller that forgets its call. *)
LEMMA Returning ==
  ASSUME RInv, NEW c \in Callers, frame' = Returned(c), frame[c].pc # "turn",
         busy' = busy, index' = index
  PROVE  RInv' /\ Quiet(c)
<1> DEFINE f == frame[c]
           g == [Rest EXCEPT !.mine = f.mine]
<1>1. f \in FrameType /\ frame' = [frame EXCEPT ![c] = g]
  BY DEF RInv, GTypeOK, Returned
<1>2. g \in FrameType /\ g.pc = "rest" /\ g.op = "none"
  <2> HIDE DEF f
  <2> QED BY <1>1 DEF FrameType, Rest, PCs, Ops
<1>3. Knows(g)
  BY <1>2 DEF Knows
<1> HIDE DEF g
<1> QED BY <1>1, <1>2, <1>3, Becoming DEF RInv, GTypeOK

(* The calls begin. *)
LEMMA CallsQuiet ==
  ASSUME RInv, NEW c \in Callers,
         \/ EvictIdle(c)
         \/ \E s \in Works[c] : Create(c, s) \/ Get(c, s) \/ MarkDone(c, s)
  PROVE  RInv' /\ Quiet(c)
<1> DEFINE f == frame[c]
<1>1. f \in FrameType /\ Knows(f) /\ Works[c] \subseteq Sessions
  BY RegistryAssumption DEF RInv, GTypeOK, FramesKnow
<1>2. ASSUME NEW op \in {"admit", "get", "sweep"}, NEW s \in Sessions \cup {NULL},
             op # "sweep" => s \in Sessions, Begin(c, op, s)
      PROVE  RInv' /\ Quiet(c)
  <2> DEFINE g == [f EXCEPT !.op = op, !.pc = "wait", !.s = s]
  <2>1. frame' = [frame EXCEPT ![c] = g] /\ f.pc = "rest" /\ busy' = busy
        /\ index' \in [Sessions -> States]
    BY <1>2 DEF Begin, At, RInv, GTypeOK
  <2>2. g \in FrameType /\ g.pc = "wait" /\ g.op = op /\ g.s = s
    <3> HIDE DEF f
    <3> QED BY <1>1 DEF FrameType, PCs, Ops
  <2>3. Knows(g)
    <3> HIDE DEF f, g
    <3> QED BY <1>2, <2>2 DEF Knows
  <2> HIDE DEF g
  <2> QED BY <2>1, <2>2, <2>3, Becoming
<1>3. ASSUME NEW s \in Sessions, MarkDone(c, s)
      PROVE  RInv' /\ Quiet(c)
  <2> DEFINE g == [f EXCEPT !.op = "done", !.pc = "flush", !.s = s]
  <2>1. frame' = [frame EXCEPT ![c] = g] /\ f.pc = "rest" /\ busy' = busy
        /\ index' \in [Sessions -> States]
    BY <1>3 DEF MarkDone, At, RInv, GTypeOK
  <2>2. g \in FrameType /\ g.pc = "flush" /\ g.op = "done" /\ g.s = s
    <3> HIDE DEF f
    <3> QED BY <1>1 DEF FrameType, PCs, Ops
  <2>3. Knows(g)
    <3> HIDE DEF f, g
    <3> QED BY <1>3, <2>2 DEF Knows
  <2> HIDE DEF g
  <2> QED BY <2>1, <2>2, <2>3, Becoming
<1>4. EvictIdle(c) => Begin(c, "sweep", NULL)
  BY DEF EvictIdle
<1>5. \A s \in Works[c] : /\ Create(c, s) => Begin(c, "admit", s)
                          /\ Get(c, s) => Begin(c, "get", s)
  BY DEF Create, Get
<1> QED BY <1>1, <1>2, <1>3, <1>4, <1>5

(* The steps of a call. *)
LEMMA StepQuiet ==
  ASSUME RInv, NEW c \in Callers, Step(c)
  PROVE  RInv' /\ Quiet(c)
<1> DEFINE f == frame[c]
<1>1. f \in FrameType /\ Knows(f) /\ index \in [Sessions -> States]
  BY DEF RInv, GTypeOK, FramesKnow
<1>2. CASE TimeOut(c) \/ BreakLock(c)
  <2>1. /\ busy' = busy /\ index' = index /\ f.pc # "turn"
        /\ frame' = Goes(c, "break") \/ frame' = Goes(c, "wait")
    BY <1>2 DEF TimeOut, BreakLock, At
  <2> QED BY <1>1, <2>1, Going
<1>3. CASE Lock(c)
  <2> DEFINE g == [f EXCEPT !.copy = index, !.pc = "apply"]
  <2>1. /\ frame' = [frame EXCEPT ![c] = g] /\ f.pc = "wait" /\ busy' = busy
        /\ index' \in [Sessions -> States]
    BY <1>1, <1>3 DEF Lock, At, RInv, GTypeOK
  <2>2. g \in FrameType /\ g.pc = "apply" /\ g.op = f.op /\ g.s = f.s /\ g.copy = index
    <3> HIDE DEF f
    <3> QED BY <1>1 DEF FrameType, PCs
  <2>3. Knows(g)
    <3> HIDE DEF f, g
    <3> QED BY <1>1, <2>2 DEF Knows
  <2> HIDE DEF g
  <2> QED BY <2>1, <2>2, <2>3, Becoming
<1>4. CASE f.pc = "apply" /\ (Raises(c) \/ Touch(c) \/ Finish(c) \/ Flip(c))
  <2>1. f.copy \in [Sessions -> States]
    BY <1>1, <1>4 DEF Knows
  <2>2. busy' = busy /\ frame' = Goes(c, "unlock")
    BY <1>4 DEF Raises, Touch, Finish, Flip
  <2>3. index' \in [Sessions -> States]
    BY <1>1, <1>4, <2>1 DEF Raises, Touch, Finish, Flip, States
  <2> QED BY <1>4, <2>2, <2>3, Going
<1>5. CASE Admit(c)
  <2>1. busy' = busy /\ index' = index /\ f.pc = "apply"
    BY <1>5 DEF Admit, At
  <2>2. CASE frame' = Goes(c, "unlock")
    BY <1>1, <2>1, <2>2, Going
  <2>3. CASE frame' = [frame EXCEPT ![c].op = "none", ![c].pc = "unlock"]
    <3> DEFINE g == [f EXCEPT !.op = "none", !.pc = "unlock"]
    <3>1. frame' = [frame EXCEPT ![c] = g]
      BY <2>3 DEF RInv, GTypeOK
    <3>2. g \in FrameType /\ g.pc = "unlock" /\ g.op = "none"
      <4> HIDE DEF f
      <4> QED BY <1>1 DEF FrameType, PCs, Ops
    <3>3. Knows(g)
      BY <3>2 DEF Knows
    <3> HIDE DEF g
    <3> QED BY <1>1, <2>1, <3>1, <3>2, <3>3, Becoming
  <2> QED BY <1>5, <2>2, <2>3 DEF Admit
<1>6. CASE (Add(c) \/ Address(c)) /\ ~Raises(c)
  <2> DEFINE g == [f EXCEPT !.pc = "unlock", !.mine = f.s]
  <2>1. f.pc = "apply" /\ f.op \in {"add", "get"}
    BY <1>6 DEF Add, Address, At
  <2>2. f.s \in Sessions /\ f.copy \in [Sessions -> States]
    BY <1>1, <2>1 DEF Knows
  <2>3. frame' = [frame EXCEPT ![c] = g] /\ busy' = busy
    BY <1>6 DEF Add, Address, RInv, GTypeOK
  <2>4. index' \in [Sessions -> States]
    BY <1>6, <2>2 DEF Add, Address, States
  <2>5. g \in FrameType /\ g.pc = "unlock" /\ g.op = f.op /\ g.s = f.s
    <3> HIDE DEF f
    <3> QED BY <1>1, <2>2 DEF FrameType, PCs
  <2>6. Knows(g)
    <3> HIDE DEF f, g
    <3> QED BY <1>1, <2>5 DEF Knows
  <2> HIDE DEF g
  <2> QED BY <2>1, <2>3, <2>4, <2>5, <2>6, Becoming
<1>7. CASE Sweep(c)
  <2>1. PICK old \in SUBSET Idle(c) :
          frame' = [frame EXCEPT ![c].popped = old, ![c].pc = "unlock"]
    BY <1>7 DEF Sweep
  <2> DEFINE g == [f EXCEPT !.popped = old, !.pc = "unlock"]
  <2>2. /\ frame' = [frame EXCEPT ![c] = g] /\ f.pc = "apply" /\ busy' = busy
        /\ index' \in [Sessions -> States]
    BY <1>7, <2>1 DEF Sweep, At, RInv, GTypeOK
  <2>3. old \in SUBSET Sessions
    BY DEF Idle
  <2>4. g \in FrameType /\ g.pc = "unlock" /\ g.op = f.op /\ g.s = f.s
    <3> HIDE DEF f
    <3> QED BY <1>1, <2>3 DEF FrameType, PCs
  <2>5. Knows(g)
    <3> HIDE DEF f, g
    <3> QED BY <1>1, <2>4 DEF Knows
  <2> HIDE DEF g
  <2> QED BY <2>2, <2>4, <2>5, Becoming
<1>8. CASE (Unlock(c) \/ FlushRaises(c)) /\ frame' = Returned(c)
  BY <1>8, Returning DEF Unlock, FlushRaises, At
<1>9. CASE Unlock(c) /\ frame' # Returned(c)
  <2> DEFINE g == [f EXCEPT !.pc = "flush"]
  <2>1. /\ f.op \in {"admit", "sweep"} /\ frame' = [frame EXCEPT ![c] = g]
        /\ f.pc = "unlock" /\ busy' = busy /\ index' = index
    BY <1>9 DEF Unlock, At, Goes, RInv, GTypeOK
  <2>2. g \in FrameType /\ g.pc = "flush" /\ g.op = f.op /\ g.s = f.s
    <3> HIDE DEF f
    <3> QED BY <1>1 DEF FrameType, PCs
  <2>3. Knows(g)
    <3> HIDE DEF f, g
    <3> QED BY <1>1, <2>1, <2>2 DEF Knows
  <2> HIDE DEF g
  <2> QED BY <1>1, <2>1, <2>2, <2>3, Becoming
<1>10. CASE Flush(c)
  <2> DEFINE x == After[f.op]
             g == [f EXCEPT !.pc = "wait", !.op = x]
  <2>1. /\ frame' = [frame EXCEPT ![c] = g]
        /\ f.pc = "flush" /\ busy' = busy /\ index' = index
    BY <1>10 DEF Flush, At, RInv, GTypeOK
  <2>2. /\ x \in {"add", "done", "flip", "touch"}
        /\ x \in {"add", "done", "touch"} => f.s \in Sessions
    BY <1>1, <2>1 DEF Knows, After
  <2>3. g \in FrameType /\ g.pc = "wait" /\ g.op = x /\ g.s = f.s
    <3> HIDE DEF f, x
    <3> QED BY <1>1, <2>2 DEF FrameType, PCs, Ops
  <2>4. Knows(g)
    <3> HIDE DEF f, g, x
    <3> QED BY <2>2, <2>3 DEF Knows
  <2> HIDE DEF g
  <2> QED BY <1>1, <2>1, <2>3, <2>4, Becoming
<1>11. \/ Raises(c) /\ f.pc = "apply"
       \/ ~Raises(c)
       \/ ~(Add(c) \/ Address(c))
  BY DEF Add, Address, At
<1>12. Touch(c) \/ Finish(c) \/ Flip(c) => f.pc = "apply"
  BY DEF Touch, Finish, Flip, At
<1>13. Unlock(c) \/ FlushRaises(c) => (Unlock(c) /\ frame' # Returned(c)) \/ frame' = Returned(c)
  BY DEF FlushRaises
<1> QED BY <1>2, <1>3, <1>4, <1>5, <1>6, <1>7, <1>8, <1>9, <1>10, <1>11, <1>12, <1>13 DEF Step

-----------------------------------------------------------------------------
(* Turns, and crashes                                                      *)

LEMMA TurnBegins ==
  ASSUME IsFiniteSet(Callers), RInv, NEW c \in Callers, BeginTurn(c)
  PROVE  RInv'
<1> DEFINE f == frame[c]
           s == f.mine
           p == ProcOf[c]
           g == [f EXCEPT !.pc = "turn"]
<1>1. /\ f \in FrameType /\ Knows(f) /\ f.pc = "rest" /\ s \in Sessions /\ p \in Procs
      /\ frame' = [frame EXCEPT ![c] = g]
      /\ index' = index
  BY RegistryAssumption DEF BeginTurn, At, Goes, RInv, GTypeOK, FramesKnow, FrameType
<1>2. g \in FrameType /\ g.pc = "turn" /\ g.op = f.op /\ g.s = f.s /\ g.mine = s
  <2> HIDE DEF f
  <2> QED BY <1>1 DEF FrameType, PCs
<1>3. Knows(g)
  <2> HIDE DEF f, g, s
  <2> QED BY <1>1, <1>2 DEF Knows
<1>4. /\ busy' \in [Procs -> [Sessions -> Int]]
      /\ \A q \in Procs, t \in Sessions :
           busy'[q][t] = IF q = p /\ t = s THEN busy[q][t] + 1 ELSE busy[q][t]
  BY <1>1 DEF BeginTurn, RInv, GTypeOK
<1> HIDE DEF g
<1>5. GTypeOK' /\ FramesKnow'
  BY <1>1, <1>2, <1>3, <1>4 DEF RInv, GTypeOK, FramesKnow
<1>6. ASSUME NEW q \in Procs, NEW t \in Sessions
      PROVE  busy'[q][t] = Cardinality(Turns(q, t)')
  <2>1. CASE q = p /\ t = s
    <3>1. Turns(q, t)' = Turns(q, t) \cup {c} /\ c \notin Turns(q, t)
      BY <1>1, <1>2, <2>1 DEF Turns, RInv, GTypeOK
    <3>2. IsFiniteSet(Turns(q, t))
      BY FS_Subset DEF Turns
    <3>3. Cardinality(Turns(q, t) \cup {c}) = Cardinality(Turns(q, t)) + 1
      BY <3>1, <3>2, FS_AddElement
    <3> QED BY <1>4, <2>1, <3>1, <3>3 DEF RInv, TurnsCounted
  <2>2. CASE ~(q = p /\ t = s)
    <3>1. Turns(q, t)' = Turns(q, t)
      BY <1>1, <1>2, <2>2 DEF Turns, RInv, GTypeOK
    <3> QED BY <1>4, <2>2, <3>1 DEF RInv, TurnsCounted
  <2> QED BY <2>1, <2>2
<1> QED BY <1>5, <1>6 DEF RInv, TurnsCounted

LEMMA TurnEnds ==
  ASSUME IsFiniteSet(Callers), RInv, NEW c \in Callers, EndTurn(c)
  PROVE  RInv'
<1> DEFINE f == frame[c]
           s == f.mine
           p == ProcOf[c]
           g == [f EXCEPT !.op = "turn", !.pc = "flush", !.s = s]
<1>1. f \in FrameType /\ Knows(f) /\ f.pc = "turn" /\ p \in Procs
  BY RegistryAssumption DEF EndTurn, At, RInv, GTypeOK, FramesKnow
<1>2. s \in Sessions
  BY <1>1 DEF Knows
<1>3. frame' = [frame EXCEPT ![c] = g] /\ index' = index
  BY DEF EndTurn, RInv, GTypeOK
<1>4. g \in FrameType /\ g.pc = "flush" /\ g.op = "turn" /\ g.s = s
  <2> HIDE DEF s
  <2>1. f \in FrameType /\ s \in Sessions
    BY <1>1, <1>2
  <2> HIDE DEF f
  <2> QED BY <2>1 DEF FrameType, PCs, Ops
<1>5. Knows(g)
  <2> HIDE DEF f, g, s
  <2> QED BY <1>2, <1>4 DEF Knows
<1>6. /\ busy' \in [Procs -> [Sessions -> Int]]
      /\ \A q \in Procs, t \in Sessions :
           busy'[q][t] = IF q = p /\ t = s THEN busy[q][t] - 1 ELSE busy[q][t]
  BY <1>1, <1>2 DEF EndTurn, Unbusy, RInv, GTypeOK
<1> HIDE DEF g
<1>7. GTypeOK' /\ FramesKnow'
  BY <1>1, <1>3, <1>4, <1>5, <1>6 DEF RInv, GTypeOK, FramesKnow
<1>8. ASSUME NEW q \in Procs, NEW t \in Sessions
      PROVE  busy'[q][t] = Cardinality(Turns(q, t)')
  <2>1. CASE q = p /\ t = s
    <3>1. Turns(q, t)' = Turns(q, t) \ {c} /\ c \in Turns(q, t)
      BY <1>1, <1>3, <1>4, <2>1 DEF Turns, RInv, GTypeOK
    <3>2. IsFiniteSet(Turns(q, t))
      BY FS_Subset DEF Turns
    <3>3. Cardinality(Turns(q, t) \ {c}) = Cardinality(Turns(q, t)) - 1
      BY <3>1, <3>2, FS_RemoveElement
    <3> QED BY <1>6, <2>1, <3>1, <3>3 DEF RInv, TurnsCounted
  <2>2. CASE ~(q = p /\ t = s)
    <3>1. Turns(q, t)' = Turns(q, t)
      BY <1>1, <1>3, <1>4, <2>2 DEF Turns, RInv, GTypeOK
    <3> QED BY <1>6, <2>2, <3>1 DEF RInv, TurnsCounted
  <2> QED BY <2>1, <2>2
<1> QED BY <1>7, <1>8 DEF RInv, TurnsCounted

LEMMA RestKnows == Rest \in FrameType /\ Knows(Rest) /\ Rest.pc = "rest"
BY DEF Rest, FrameType, Knows, Ops, PCs

LEMMA ProcessDies ==
  ASSUME RInv, NEW p \in Procs, Crash(p)
  PROVE  RInv'
<1>1. /\ index' = index
      /\ busy' = [busy EXCEPT ![p] = [s \in Sessions |-> 0]]
      /\ frame' = [c \in Callers |-> IF ProcOf[c] = p THEN Rest ELSE frame[c]]
  BY DEF Crash
<1>2. GTypeOK' /\ FramesKnow'
  BY <1>1, RestKnows DEF RInv, GTypeOK, FramesKnow
<1>3. ASSUME NEW q \in Procs, NEW t \in Sessions
      PROVE  busy'[q][t] = Cardinality(Turns(q, t)')
  <2>1. CASE q = p
    <3>1. Turns(q, t)' = {}
      BY <1>1, <2>1, RestKnows DEF Turns
    <3> QED BY <1>1, <2>1, <3>1, FS_EmptySet DEF RInv, GTypeOK
  <2>2. CASE q # p
    <3>1. Turns(q, t)' = Turns(q, t)
      BY <1>1, <2>2 DEF Turns
    <3> QED BY <1>1, <2>2, <3>1 DEF RInv, GTypeOK, TurnsCounted
  <2> QED BY <2>1, <2>2
<1> QED BY <1>2, <1>3 DEF RInv, TurnsCounted

-----------------------------------------------------------------------------
(* The invariant, and the sweeps                                           *)

LEMMA RInvInit == Init => RInv
<1> SUFFICES ASSUME Init PROVE RInv
  OBVIOUS
<1>1. GTypeOK /\ FramesKnow
  BY RestKnows DEF Init, GTypeOK, FramesKnow, States
<1>2. \A p \in Procs, s \in Sessions : Turns(p, s) = {}
  BY RestKnows DEF Init, Turns
<1>3. TurnsCounted
  BY <1>2, FS_EmptySet DEF Init, TurnsCounted
<1> QED BY <1>1, <1>3 DEF RInv

LEMMA RInvStep ==
  ASSUME IsFiniteSet(Callers)
  PROVE  RInv /\ [Next]_vars => RInv'
<1> SUFFICES ASSUME RInv, [Next]_vars PROVE RInv'
  OBVIOUS
<1>1. CASE UNCHANGED vars
  BY <1>1 DEF vars, RInv, GTypeOK, FramesKnow, TurnsCounted, Turns
<1>2. ASSUME NEW c \in Callers, Step(c) PROVE RInv'
  BY <1>2, StepQuiet
<1>3. ASSUME NEW c \in Callers, BeginTurn(c) PROVE RInv'
  BY <1>3, TurnBegins
<1>4. ASSUME NEW c \in Callers, EndTurn(c) PROVE RInv'
  BY <1>4, TurnEnds
<1>5. ASSUME NEW c \in Callers,
             \/ EvictIdle(c)
             \/ \E s \in Works[c] : Create(c, s) \/ Get(c, s) \/ MarkDone(c, s)
      PROVE  RInv'
  BY <1>5, CallsQuiet
<1>6. ASSUME NEW p \in Procs, Crash(p) PROVE RInv'
  BY <1>6, ProcessDies
<1> QED BY <1>1, <1>2, <1>3, <1>4, <1>5, <1>6 DEF Next

(* In a process, _busy_depth of a session is the number of its turns in    *)
(* flight, whatever calls, sweeps and crashes there were (registry.busy).  *)
THEOREM BusyCountsTurns ==
  ASSUME IsFiniteSet(Callers)
  PROVE  Spec => []RInv
<1>1. Init => RInv
  BY RInvInit
<1>2. RInv /\ [Next]_vars => RInv'
  BY RInvStep
<1> QED BY <1>1, <1>2, PTL DEF Spec

(* evict_idle() takes out of memory no session with a turn in flight.      *)
THEOREM SweepsSpareTurns ==
  ASSUME IsFiniteSet(Callers)
  PROVE  Spec => SweepSparesTurns
<1> DEFINE Spares == \A c, b \in Callers :
             Sweep(c) /\ At(b, "turn") /\ ProcOf[b] = ProcOf[c]
               => frame[b].mine \notin frame'[c].popped
<1>1. RInv => Spares
  <2> SUFFICES ASSUME RInv, NEW c \in Callers, NEW b \in Callers,
                      Sweep(c), At(b, "turn"), ProcOf[b] = ProcOf[c],
                      frame[b].mine \in frame'[c].popped
               PROVE  FALSE
    OBVIOUS
  <2> DEFINE s == frame[b].mine
             p == ProcOf[c]
  <2>1. PICK old \in SUBSET Idle(c) :
          frame' = [frame EXCEPT ![c].popped = old, ![c].pc = "unlock"]
    BY DEF Sweep
  <2>2. frame'[c].popped = old
    <3>1. frame[c] \in FrameType
      BY DEF RInv, GTypeOK
    <3>2. frame'[c] = [frame[c] EXCEPT !.popped = old, !.pc = "unlock"]
      BY <2>1 DEF RInv, GTypeOK
    <3> QED BY <3>1, <3>2 DEF FrameType
  <2>3. s \in Sessions /\ busy[p][s] = 0 /\ p \in Procs
    BY <2>1, <2>2, RegistryAssumption DEF Idle
  <2>4. b \in Turns(p, s)
    BY DEF Turns, At
  <2>5. IsFiniteSet(Turns(p, s))
    BY FS_Subset DEF Turns
  <2>6. Cardinality(Turns(p, s)) # 0
    BY <2>4, <2>5, FS_EmptySet
  <2> QED BY <2>3, <2>6 DEF RInv, TurnsCounted
<1>2. Spec => []RInv
  BY BusyCountsTurns
<1>3. RInv /\ [Next]_vars => [Spares]_vars
  BY <1>1
<1> QED BY <1>2, <1>3, PTL DEF Spec, SweepSparesTurns

-----------------------------------------------------------------------------
(* The lock file, and the index                                            *)

(* The threads of a process are one at a time in a call that locks. *)
OneLocks ==
  \A b, c \in Callers :
    ProcOf[b] = ProcOf[c] /\ frame[b].pc \in Locking /\ frame[c].pc \in Locking => b = c

(* A call that has the lock file is the one that made it, and what it has  *)
(* read is what the index is.                                              *)
HoldersHold ==
  \A c \in Callers :
    /\ At(c, "apply") \/ At(c, "unlock") => lockfile = c
    /\ At(c, "apply") => frame[c].copy = index

LInv ==
  /\ lockfile \in Callers \cup {NULL} /\ stolen \in BOOLEAN
  /\ OneLocks
  /\ ~stolen => HoldersHold

(* A step of c alone, by which no process dies. *)
Alone(c) ==
  /\ \A b \in Callers : b # c => frame'[b] = frame[b]
  /\ dead' = dead

(* What c does to the thread lock is what threading.Lock lets it. *)
LEMMA OneLocksKept ==
  ASSUME OneLocks, NEW c \in Callers, Alone(c),
         frame'[c].pc \in Locking => frame[c].pc \in Locking \/ ThreadFree(c)
  PROVE  OneLocks'
BY DEF OneLocks, Alone, ThreadFree

(* A step that has to do with neither the index nor the lock file. *)
LEMMA ElsewhereKeeps ==
  ASSUME LInv, NEW c \in Callers, Alone(c), lockfile' = lockfile, index' = index,
         stolen' = stolen, frame'[c].pc \notin {"apply", "unlock"},
         frame'[c].pc \in Locking => frame[c].pc \in Locking \/ ThreadFree(c)
  PROVE  LInv'
<1>1. OneLocks'
  BY OneLocksKept DEF LInv
<1>2. ~stolen => HoldersHold'
  BY DEF LInv, HoldersHold, Alone, At, Alive
<1> QED BY <1>1, <1>2 DEF LInv, Alone

(* A step under the lock: the index is written, or left as it is.          *)
LEMMA ApplyKeeps ==
  ASSUME LInv, NEW c \in Callers, At(c, "apply"), Alone(c), lockfile' = lockfile,
         stolen' = stolen, frame'[c].pc = "unlock"
  PROVE  LInv'
<1>1. OneLocks'
  BY OneLocksKept DEF LInv, At, Locking
<1>2. ~stolen => lockfile = c /\ \A b \in Callers : b # c => ~At(b, "apply")
  BY DEF LInv, HoldersHold
<1>3. ~stolen => HoldersHold'
  BY <1>2 DEF LInv, HoldersHold, Alone, At, Alive
<1> QED BY <1>1, <1>3 DEF LInv, Alone

(* What EXCEPT does to the frame of a caller. *)
LEMMA FrameMoves ==
  ASSUME NEW f \in FrameType, NEW x \in PCs
  PROVE  /\ [f EXCEPT !.pc = x].pc = x
         /\ \A o, s : [f EXCEPT !.op = o, !.pc = x, !.s = s].pc = x
         /\ \A o : [f EXCEPT !.op = o, !.pc = x].pc = x
         /\ \A o : [f EXCEPT !.pc = x, !.op = o].pc = x
         /\ \A s : [f EXCEPT !.pc = x, !.mine = s].pc = x
         /\ \A S : [f EXCEPT !.popped = S, !.pc = x].pc = x
         /\ \A i : /\ [f EXCEPT !.copy = i, !.pc = x].pc = x
                   /\ [f EXCEPT !.copy = i, !.pc = x].copy = i
BY DEF FrameType

LEMMA CallsLock ==
  ASSUME RInv, LInv, NEW c \in Callers,
         \/ BeginTurn(c) \/ EndTurn(c) \/ EvictIdle(c)
         \/ \E s \in Works[c] : Create(c, s) \/ Get(c, s) \/ MarkDone(c, s)
  PROVE  LInv'
<1> USE DEF PCs
<1>1. frame \in [Callers -> FrameType] /\ frame[c] \in FrameType
  BY DEF RInv, GTypeOK
<1>2. CASE BeginTurn(c)
  <2>1. frame'[c].pc = "turn" /\ Alone(c)
    BY <1>1, <1>2, FrameMoves DEF BeginTurn, Goes, Alone
  <2> QED BY <1>2, <2>1, ElsewhereKeeps DEF BeginTurn, Locking
<1>3. CASE EndTurn(c)
  <2>1. frame' = [frame EXCEPT ![c] = [frame[c] EXCEPT !.op = "turn", !.pc = "flush",
                                                       !.s = frame[c].mine]]
    BY <1>1, <1>3 DEF EndTurn
  <2>2. frame'[c].pc = "flush" /\ Alone(c)
    BY <1>1, <1>3, <2>1, FrameMoves DEF EndTurn, Alone
  <2> QED BY <1>3, <2>2, ElsewhereKeeps DEF EndTurn, Locking
<1>4. ASSUME NEW op, NEW s, Begin(c, op, s) PROVE LInv'
  <2>1. frame' = [frame EXCEPT ![c] = [frame[c] EXCEPT !.op = op, !.pc = "wait", !.s = s]]
    BY <1>1, <1>4 DEF Begin
  <2>2. frame'[c].pc = "wait" /\ Alone(c)
    BY <1>1, <1>4, <2>1, FrameMoves DEF Begin, Alone
  <2> QED BY <1>4, <2>2, ElsewhereKeeps DEF Begin
<1>5. ASSUME NEW s, MarkDone(c, s) PROVE LInv'
  <2>1. frame' = [frame EXCEPT ![c] = [frame[c] EXCEPT !.op = "done", !.pc = "flush", !.s = s]]
    BY <1>1, <1>5 DEF MarkDone
  <2>2. [frame[c] EXCEPT !.op = "done", !.pc = "flush", !.s = s].pc = "flush"
    BY <1>1, FrameMoves
  <2>3. dead' = dead
    BY <1>5 DEF MarkDone
  <2>4. frame'[c].pc = "flush" /\ Alone(c)
    BY <1>1, <2>1, <2>2, <2>3 DEF Alone
  <2> QED BY <1>5, <2>4, ElsewhereKeeps DEF MarkDone, Locking
<1> QED BY <1>2, <1>3, <1>4, <1>5 DEF EvictIdle, Create, Get

LEMMA LockSteps ==
  ASSUME RInv, LInv, NEW c \in Callers,
         Lock(c) \/ TimeOut(c) \/ BreakLock(c) \/ Unlock(c)
  PROVE  LInv'
<1> USE DEF PCs
<1>1. frame \in [Callers -> FrameType] /\ frame[c] \in FrameType /\ NULL \notin Callers
  BY RegistryAssumption DEF RInv, GTypeOK
<1>2. CASE Lock(c)
  <2>1. /\ At(c, "wait") /\ lockfile = NULL /\ lockfile' = c /\ index' = index
        /\ stolen' = stolen
        /\ frame' = [frame EXCEPT ![c] = [frame[c] EXCEPT !.copy = index, !.pc = "apply"]]
    BY <1>1, <1>2 DEF Lock
  <2>2. frame'[c].pc = "apply" /\ frame'[c].copy = index /\ Alone(c)
    BY <1>1, <1>2, <2>1, FrameMoves DEF Lock, Alone
  <2>3. OneLocks'
    BY <2>1, <2>2, OneLocksKept DEF LInv, At, Locking
  <2>4. ~stolen => \A b \in Callers : ~At(b, "apply") /\ ~At(b, "unlock")
    BY <1>1, <2>1 DEF LInv, HoldersHold
  <2>5. ~stolen => HoldersHold'
    BY <2>1, <2>2, <2>4 DEF HoldersHold, Alone, At, Alive
  <2> QED BY <2>1, <2>2, <2>3, <2>5 DEF LInv, Alone
<1>3. CASE TimeOut(c)
  <2>1. At(c, "wait") /\ lockfile' = lockfile /\ index' = index /\ stolen' = stolen
    BY <1>3 DEF TimeOut
  <2>2. frame'[c].pc = "break" /\ Alone(c)
    BY <1>1, <1>3, FrameMoves DEF TimeOut, Goes, Alone
  <2> QED BY <2>1, <2>2, ElsewhereKeeps DEF At, Locking
<1>4. CASE BreakLock(c)
  <2>1. /\ At(c, "break") /\ lockfile' = NULL /\ index' = index
        /\ stolen' = (stolen \/ (lockfile # NULL /\ Alive(lockfile)))
    BY <1>4 DEF BreakLock
  <2>2. frame'[c].pc = "wait" /\ Alone(c)
    BY <1>1, <1>4, FrameMoves DEF BreakLock, Goes, Alone
  <2>3. OneLocks'
    BY <2>1, <2>2, OneLocksKept DEF LInv, At, Locking
  <2>4. ~stolen' => ~stolen /\ (lockfile = NULL \/ ~Alive(lockfile))
    BY <2>1
  <2>5. ~stolen' => \A b \in Callers : ~At(b, "apply") /\ ~At(b, "unlock")
    BY <1>1, <2>4 DEF LInv, HoldersHold, At
  <2>6. ~stolen' => HoldersHold'
    BY <2>2, <2>5 DEF HoldersHold, Alone, At, Alive
  <2>7. stolen' \in BOOLEAN
    BY <2>1
  <2> QED BY <2>1, <2>3, <2>6, <2>7 DEF LInv
<1>5. CASE Unlock(c)
  <2>1. At(c, "unlock") /\ lockfile' = NULL /\ index' = index /\ stolen' = stolen
    BY <1>5 DEF Unlock
  <2>2. frame'[c].pc \in {"flush", "rest"} /\ Alone(c)
    <3> dead' = dead
      BY <1>5 DEF Unlock
    <3>1. CASE frame' = Goes(c, "flush")
      BY <1>1, <3>1, FrameMoves DEF Goes, Alone
    <3>2. CASE frame' = Returned(c)
      BY <1>1, <3>2 DEF Returned, Rest, Alone
    <3> QED BY <1>5, <3>1, <3>2 DEF Unlock
  <2>3. OneLocks'
    BY <2>1, <2>2, OneLocksKept DEF LInv, At, Locking
  <2>4. ~stolen => lockfile = c
    BY <2>1 DEF LInv, HoldersHold
  <2>5. ~stolen => \A b \in Callers : b # c => ~At(b, "apply") /\ ~At(b, "unlock")
    BY <2>4 DEF LInv, HoldersHold
  <2>6. ~stolen => HoldersHold'
    BY <2>2, <2>5 DEF HoldersHold, Alone, At, Alive
  <2> QED BY <2>1, <2>3, <2>6 DEF LInv
<1> QED BY <1>2, <1>3, <1>4, <1>5

(* The calls that have the lock; they are the ones that write the index.   *)
Applies(c) ==
  Admit(c) \/ Add(c) \/ Address(c) \/ Touch(c) \/ Finish(c) \/ Sweep(c) \/ Flip(c)

LEMMA AppliesUnlocks ==
  ASSUME RInv, NEW c \in Callers, Applies(c)
  PROVE  /\ At(c, "apply") /\ Alone(c) /\ lockfile' = lockfile /\ stolen' = stolen
         /\ frame'[c].pc = "unlock"
<1> USE DEF PCs
<1>1. frame \in [Callers -> FrameType] /\ frame[c] \in FrameType
  BY DEF RInv, GTypeOK
<1>2. At(c, "apply")
  BY DEF Applies, Admit, Add, Address, Touch, Finish, Sweep, Flip
<1>3. dead' = dead /\ lockfile' = lockfile /\ stolen' = stolen
  BY DEF Applies, Admit, Add, Address, Touch, Finish, Sweep, Flip, Raises
<1>4. \/ frame' = Goes(c, "unlock")
      \/ frame' = [frame EXCEPT ![c].op = "none", ![c].pc = "unlock"]
      \/ frame' = [frame EXCEPT ![c].pc = "unlock", ![c].mine = frame[c].s]
      \/ \E old : frame' = [frame EXCEPT ![c].popped = old, ![c].pc = "unlock"]
  BY DEF Applies, Admit, Add, Address, Touch, Finish, Sweep, Flip, Raises
<1>5. CASE frame' = Goes(c, "unlock")
  BY <1>1, <1>2, <1>3, <1>5, FrameMoves DEF Goes, Alone
<1>6. CASE frame' = [frame EXCEPT ![c].op = "none", ![c].pc = "unlock"]
  <2>1. frame' = [frame EXCEPT ![c] = [frame[c] EXCEPT !.op = "none", !.pc = "unlock"]]
    BY <1>1, <1>6
  <2> QED BY <1>1, <1>2, <1>3, <2>1, FrameMoves DEF Alone
<1>7. CASE frame' = [frame EXCEPT ![c].pc = "unlock", ![c].mine = frame[c].s]
  <2>1. frame' = [frame EXCEPT ![c] = [frame[c] EXCEPT !.pc = "unlock", !.mine = frame[c].s]]
    BY <1>1, <1>7
  <2> QED BY <1>1, <1>2, <1>3, <2>1, FrameMoves DEF Alone
<1>8. CASE \E old : frame' = [frame EXCEPT ![c].popped = old, ![c].pc = "unlock"]
  <2>1. PICK old : frame' = [frame EXCEPT ![c].popped = old, ![c].pc = "unlock"]
    BY <1>8
  <2>2. frame' = [frame EXCEPT ![c] = [frame[c] EXCEPT !.popped = old, !.pc = "unlock"]]
    BY <1>1, <2>1
  <2> QED BY <1>1, <1>2, <1>3, <2>2, FrameMoves DEF Alone
<1> QED BY <1>4, <1>5, <1>6, <1>7, <1>8

LEMMA AfterUnlock ==
  ASSUME RInv, LInv, NEW c \in Callers, Flush(c) \/ FlushRaises(c)
  PROVE  LInv'
<1> USE DEF PCs
<1>1. frame \in [Callers -> FrameType] /\ frame[c] \in FrameType
  BY DEF RInv, GTypeOK
<1>2. CASE Flush(c)
  <2> DEFINE o == After[frame[c].op]
  <2>1. frame' = [frame EXCEPT ![c] = [frame[c] EXCEPT !.pc = "wait", !.op = o]]
    BY <1>1, <1>2 DEF Flush
  <2> HIDE DEF o
  <2>2. frame'[c].pc = "wait" /\ Alone(c)
    BY <1>1, <1>2, <2>1, FrameMoves DEF Flush, Alone
  <2> QED BY <1>2, <2>2, ElsewhereKeeps DEF Flush
<1>3. CASE FlushRaises(c)
  <2>1. frame'[c].pc = "rest" /\ Alone(c)
    BY <1>1, <1>3 DEF FlushRaises, Returned, Rest, Alone
  <2> QED BY <1>3, <2>1, ElsewhereKeeps DEF FlushRaises, Locking
<1> QED BY <1>2, <1>3

LEMMA DeathLeavesLock ==
  ASSUME LInv, NEW p \in Procs, Crash(p)
  PROVE  LInv'
<1>1. /\ lockfile' = lockfile /\ index' = index /\ dead' = dead \cup {p}
      /\ stolen' = stolen
      /\ frame' = [c \in Callers |-> IF ProcOf[c] = p THEN Rest ELSE frame[c]]
  BY DEF Crash
<1>2. OneLocks'
  BY <1>1, RestKnows DEF LInv, OneLocks, Locking
<1>3. ~stolen => HoldersHold'
  BY <1>1 DEF LInv, HoldersHold, At, Alive
<1> QED BY <1>1, <1>2, <1>3 DEF LInv

LEMMA LInvInit == Init => LInv
BY RestKnows DEF Init, LInv, OneLocks, HoldersHold, At, Locking

LEMMA LInvStep == RInv /\ LInv /\ [Next]_vars => LInv'
<1> SUFFICES ASSUME RInv, LInv, [Next]_vars PROVE LInv'
  OBVIOUS
<1>1. CASE UNCHANGED vars
  BY <1>1 DEF vars, LInv, OneLocks, HoldersHold, At, Alive
<1>2. ASSUME NEW c \in Callers, Step(c) PROVE LInv'
  <2>1. CASE Applies(c)
    BY <2>1, AppliesUnlocks, ApplyKeeps
  <2>2. CASE Lock(c) \/ TimeOut(c) \/ BreakLock(c) \/ Unlock(c)
    BY <2>2, LockSteps
  <2>3. CASE Flush(c) \/ FlushRaises(c)
    BY <2>3, AfterUnlock
  <2> QED BY <1>2, <2>1, <2>2, <2>3 DEF Step, Applies
<1>3. ASSUME NEW c \in Callers,
             \/ BeginTurn(c) \/ EndTurn(c) \/ EvictIdle(c)
             \/ \E s \in Works[c] : Create(c, s) \/ Get(c, s) \/ MarkDone(c, s)
      PROVE  LInv'
  BY <1>3, CallsLock
<1>4. ASSUME NEW p \in Procs, Crash(p) PROVE LInv'
  BY <1>4, DeathLeavesLock
<1> QED BY <1>1, <1>2, <1>3, <1>4 DEF Next

(* A write under the lock is one move of the index.                        *)
LEMMA WritesMoveIndex ==
  ASSUME RInv, LInv, ~stolen, NEW c \in Callers, Applies(c)
  PROVE  [Index!Next]_index
<1> DEFINE f == frame[c]
<1>1. /\ At(c, "apply") /\ f.copy = index /\ index \in [Sessions -> States] /\ Knows(f)
  BY AppliesUnlocks DEF RInv, GTypeOK, FramesKnow, LInv, HoldersHold
<1>2. CASE Raises(c) \/ Admit(c) \/ Touch(c) \/ Sweep(c)
  BY <1>1, <1>2 DEF Raises, Admit, Touch, Sweep
<1>3. CASE Add(c) /\ ~Raises(c)
  <2>1. f.s \in Sessions
    BY <1>3, <1>1 DEF Add, Knows
  <2>2. Index!Add(f.s)
    BY <1>1, <1>3 DEF Add, Index!Add
  <2> QED BY <2>1, <2>2 DEF Index!Next
<1>4. CASE Address(c) /\ ~Raises(c)
  <2>1. f.s \in Sessions /\ index[f.s] \in {"live", "idle"}
    BY <1>4, <1>1 DEF Address, Knows, States
  <2>2. Index!Address(f.s) \/ index' = index
    BY <1>1, <1>4, <2>1 DEF Address, Index!Address
  <2> QED BY <2>1, <2>2 DEF Index!Next
<1>5. CASE Finish(c) /\ ~Raises(c)
  <2>1. f.s \in Sessions
    BY <1>5, <1>1 DEF Finish, Knows
  <2>2. Index!Finish(f.s)
    BY <1>1, <1>5 DEF Finish, Index!Finish
  <2> QED BY <2>1, <2>2 DEF Index!Next
<1>6. CASE Flip(c)
  <2> DEFINE S == {s \in Sessions : s \in StillLive(f.copy, f.popped)}
  <2>1. S \in SUBSET Sessions /\ \A s \in S : index[s] = "live"
    BY <1>1 DEF StillLive
  <2>2. Index!Retire(S)
    BY <1>1, <1>6, <2>1 DEF Flip, Index!Retire
  <2> HIDE DEF S
  <2> QED BY <2>1, <2>2 DEF Index!Next
<1> QED BY <1>2, <1>3, <1>4, <1>5, <1>6 DEF Applies

(* Every step of the registry is a move of the index or leaves it alone.   *)
LEMMA StepsMoveIndex == RInv /\ LInv /\ [Next]_vars => [~stolen => Index!Next]_index
<1> SUFFICES ASSUME RInv, LInv, ~stolen, [Next]_vars PROVE [Index!Next]_index
  OBVIOUS
<1>1. ASSUME NEW c \in Callers, Applies(c) PROVE [Index!Next]_index
  BY <1>1, WritesMoveIndex
<1>2. ASSUME NEW c \in Callers, Step(c), ~Applies(c) PROVE index' = index
  BY <1>2 DEF Step, Applies, Lock, TimeOut, BreakLock, Unlock, Flush, FlushRaises
<1>3. ASSUME NEW c \in Callers, BeginTurn(c) \/ EndTurn(c) \/ EvictIdle(c) PROVE index' = index
  BY <1>3 DEF BeginTurn, EndTurn, EvictIdle, Begin
<1>4. ASSUME NEW c \in Callers, NEW s, Create(c, s) \/ Get(c, s) \/ MarkDone(c, s)
      PROVE  index' = index
  BY <1>4 DEF Create, Get, MarkDone, Begin
<1>5. ASSUME NEW p \in Procs, Crash(p) PROVE index' = index
  BY <1>5 DEF Crash
<1>6. CASE UNCHANGED vars
  BY <1>6 DEF vars
<1> QED BY <1>1, <1>2, <1>3, <1>4, <1>5, <1>6 DEF Next

(* Whole indexes read and written back under the lock file are single      *)
(* moves of single sessions (registry._file_lock, _read_index,             *)
(* _write_index), until a waiter breaks the lock of a call that is alive:  *)
(* no write undoes another's, whoever dies with the lock in place.         *)
THEOREM RegistryImplementsIndex ==
  ASSUME IsFiniteSet(Callers)
  PROVE  Spec => IndexUntilStolen
<1>1. Spec => []RInv
  BY BusyCountsTurns
<1>2. Init => LInv
  BY LInvInit
<1>3. RInv /\ LInv /\ [Next]_vars => LInv'
  BY LInvStep
<1>4. RInv /\ LInv /\ [Next]_vars => [~stolen => Index!Next]_index
  BY StepsMoveIndex
<1>5. Init => Index!Init
  BY DEF Init, Index!Init
<1> QED BY <1>1, <1>2, <1>3, <1>4, <1>5, PTL DEF Spec, IndexUntilStolen
=============================================================================
