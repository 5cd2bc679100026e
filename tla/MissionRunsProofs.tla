--------------------------- MODULE MissionRunsProofs ---------------------------
(***************************************************************************)
(* Theorems about MissionRuns, for any missions, limits, commands, numbers *)
(* of attempts and of crashes.  The steps fall into four kinds: a command  *)
(* under way goes on, the operator or a process acts while every command   *)
(* stays where it is, a run is claimed, an evaluation is claimed.  Each of *)
(* the first two kinds is described once, and a lemma per kind shows that  *)
(* it keeps the inductive invariant.                                       *)
(***************************************************************************)
EXTENDS MissionRuns, MissionLedgerProofs

Fresh == {"absent", "proposed", "preflight_blocked", "ready"}

(* Frames and processes are well formed; the attempt of a command exists,  *)
(* and its evaluation was claimed if it evaluates.                         *)
RunsTypeOK ==
  /\ job \in [Workers -> JobRow]
  /\ child \in [Workers -> {"none"} \cup Running \cup Exits]
  /\ hurried \subseteq Missions
  /\ \A w \in Workers :
       job[w].pc # "new" =>
         /\ job[w].a \in Attempts /\ Made(job[w].a)
         /\ job[w].phase = "eval" => attempts[job[w].a].evaluated

(* Where a command is tells what its process can be.                       *)
ChildShape ==
  \A w \in Workers :
    /\ job[w].pc \notin {"register", "wait", "killed"} => child[w] # "alive"
    /\ job[w].pc \in {"register", "wait"} => child[w] # "none"

(* An attempt is run by one command and evaluated by one; those of an      *)
(* attempt that is about to be run have not begun.                         *)
OneEach ==
  \A v, w \in Workers :
    /\ job[v].pc # "new" /\ job[w].pc # "new"
    /\ job[v].phase = job[w].phase /\ job[v].a = job[w].a
    => v = w

FreshUnused ==
  \A m \in Missions, w \in Workers :
    missions[m].state \in Fresh /\ job[w].pc # "new" =>
      job[w].a # missions[m].active

(* The command that is at work on a mission which was not resumed early is *)
(* the one the state of the mission speaks of.                             *)
OnTime ==
  \A w \in Workers :
    job[w].pc \notin Idle /\ MissionOf(w) \notin hurried =>
      /\ IsActive(job[w].a)
      /\ missions[MissionOf(w)].state \notin Fresh
      /\ missions[MissionOf(w)].state \in Busy =>
           missions[MissionOf(w)].state = PhaseState[job[w].phase]

(* An evaluation that is about to pass the mission has written so.         *)
JudgedFirst ==
  \A w \in Workers :
    job[w].pc = "advance" =>
      /\ job[w].rc \in Exits
      /\ job[w].phase = "eval" /\ job[w].rc = "ok" =>
           attempts[job[w].a].provenance = "passed"

(* A process is recorded from its registration until it is cleared, or for *)
(* ever if that failed; in the last case the mission was failed.           *)
MayBeRecorded(w) ==
  \/ job[w].pc \in {"wait", "clear", "killed"}
  \/ job[w].pc = "record" /\ job[w].rc = "raised"
  \/ job[w].pc = "returned" /\ ~(IsActive(job[w].a) /\ missions[MissionOf(w)].state \in Busy)

RecordedShape ==
  \A a \in Attempts, w \in Workers :
    attempts[a].process = w => job[w].a = a /\ MayBeRecorded(w)

RunsInv ==
  /\ RunsTypeOK /\ ChildShape /\ OneEach /\ FreshUnused /\ OnTime
  /\ JudgedFirst /\ RecordedShape /\ PassedIfUnhurried /\ ProcessHasSlot

-----------------------------------------------------------------------------
(* What every call on the ledger keeps. *)

LEMMA MadeStaysMade ==
  ASSUME Inv, [LNext]_lvars, NEW a \in Attempts, Made(a)
  PROVE  Made(a)'
<1> DEFINE m == a[1]
<1>1. /\ m \in Missions
      /\ missions \in [Missions -> MissionRow]
      /\ missions[m].ordinals \in Nat
      /\ a[2] \in Nat
  BY DEF Inv, LTypeOK, MissionRow, Attempts
<1>2. SUFFICES /\ missions'[m].ordinals \in Nat
               /\ missions'[m].ordinals >= missions[m].ordinals
  BY <1>1 DEF Made
<1>3. CASE missions' = missions
  BY <1>1, <1>3
<1>4. ASSUME NEW n \in Missions, MissionStep(n)
      PROVE  /\ missions'[m].ordinals \in Nat
             /\ missions'[m].ordinals >= missions[m].ordinals
  <2>1. MissionWrite(n)
    BY <1>4, MissionStepWrites
  <2>2. CASE n = m
    BY <1>1, <2>1, <2>2 DEF MissionWrite, MissionRow
  <2>3. CASE n # m
    <3>1. missions'[m] = missions[m]
      BY <1>1, <2>1, <2>3 DEF MissionWrite
    <3> QED BY <1>1, <3>1
  <2> QED BY <2>2, <2>3
<1>5. ASSUME NEW n \in Missions, NEW st, SetState(n, st)
      PROVE  missions'[m].ordinals = missions[m].ordinals
  BY <1>1, <1>5 DEF SetState, MissionRow
<1>6. ASSUME NEW b \in Attempts, FailActive(b)
      PROVE  missions'[m].ordinals = missions[m].ordinals
  <2>1. b[1] \in Missions
    BY DEF Attempts
  <2>2. missions' = missions \/ SetState(b[1], "failed")
    BY <1>6 DEF FailActive, SetState
  <2> QED BY <1>5, <2>1, <2>2
<1>7. ASSUME NEW t \in Promotions, FinalizePromotion(t)
      PROVE  missions'[m].ordinals = missions[m].ordinals
  <2>1. /\ journal[t].attempt[1] \in Missions
        /\ SetState(journal[t].attempt[1], "promoted")
    BY <1>7 DEF FinalizePromotion, CanFinalize, Inv, JournalShape, Attempts
  <2> QED BY <1>5, <2>1
<1> QED
  BY <1>1, <1>3, <1>4, <1>6, <1>7
  DEF LNext, lvars, AttemptStep, ClaimEvaluation, RegisterProcess, ClearProcess,
      AddProvenance, BeginPromotion, RollbackPromotion

-----------------------------------------------------------------------------
(* A command that is under way goes on. *)

MovesMission(w) ==
  /\ job'[w].pc = "returned"
  /\ missions[MissionOf(w)].state \in Busy
  /\ \E st \in {"failed", "evaluating", "passed"} :
       /\ SetState(MissionOf(w), st)
       /\ st = "passed" => attempts[job[w].a].provenance = "passed"

WorkerMove(w) ==
  /\ job[w].pc \notin Idle
  /\ job' = [job EXCEPT ![w] = job'[w]]
  /\ job'[w] \in JobRow
  /\ job'[w].a = job[w].a /\ job'[w].phase = job[w].phase /\ job'[w].pc # "new"
  /\ child' = [child EXCEPT ![w] = child'[w]]
  /\ child'[w] \in {"none"} \cup Running \cup Exits
  /\ job'[w].pc \notin {"register", "wait", "killed"} => child'[w] # "alive"
  /\ job'[w].pc \in {"register", "wait"} => child'[w] # "none"
  /\ job'[w].pc = "advance" =>
       /\ job'[w].rc \in Exits
       /\ job[w].phase = "eval" /\ job'[w].rc = "ok" =>
            attempts'[job[w].a].provenance = "passed"
  /\ \A b \in Attempts, v \in Workers :
       attempts'[b].process = v =>
         attempts[b].process = v \/ (b = job[w].a /\ v = w)
  /\ attempts'[job[w].a].process = w =>
       /\ MayBeRecorded(w)'
       /\ attempts[job[w].a].process # w =>
            /\ IsActive(job[w].a)
            /\ missions[MissionOf(w)].state = PhaseState[job[w].phase]
       /\ child'[w] = "alive" => child[w] = "alive"
  /\ missions' = missions \/ MovesMission(w)
  /\ hurried' = hurried

LEMMA PhaseFacts ==
  ASSUME NEW p \in {"train", "eval"}
  PROVE  /\ PhaseState[p] \in Busy
         /\ \A q \in {"train", "eval"} : PhaseState[p] = PhaseState[q] => p = q
  BY DEF PhaseState, Busy

LEMMA FrameFacts ==
  ASSUME RunsTypeOK, NEW w \in Workers, job[w].pc # "new"
  PROVE  /\ job[w] \in JobRow /\ job[w].phase \in {"train", "eval"}
         /\ job[w].a \in Attempts /\ MissionOf(w) \in Missions
         /\ job[w].a[1] = MissionOf(w)
  BY DEF RunsTypeOK, JobRow, MissionOf, Attempts

LEMMA WorkerMoveKeeps ==
  ASSUME NEW w \in Workers, Inv, RunsInv, WorkerMove(w), [LNext]_lvars, EvidenceKept
  PROVE  RunsInv'
<1> DEFINE m == MissionOf(w)
           a == job[w].a
<1>1. /\ RunsTypeOK /\ job \in [Workers -> JobRow]
      /\ child \in [Workers -> {"none"} \cup Running \cup Exits]
      /\ missions \in [Missions -> MissionRow]
  BY DEF RunsInv, RunsTypeOK, Inv, LTypeOK
<1>2. /\ a \in Attempts /\ m \in Missions /\ a[1] = m
      /\ job[w].phase \in {"train", "eval"}
      /\ job[w].pc # "new" /\ job[w].pc \notin Idle
  BY <1>1, FrameFacts DEF WorkerMove, Idle
<1>3. /\ \A v \in Workers : v # w => job'[v] = job[v] /\ child'[v] = child[v]
      /\ \A v \in Workers :
           /\ job'[v].a = job[v].a /\ job'[v].phase = job[v].phase
           /\ job'[v].pc = "new" <=> job[v].pc = "new"
  BY <1>1, <1>2 DEF WorkerMove
<1>4. \A v \in Workers : MissionOf(v)' = MissionOf(v)
  BY <1>3 DEF MissionOf
<1>5. \A n \in Missions :
        /\ missions'[n].active = missions[n].active
        /\ missions'[n].state # missions[n].state =>
             /\ n = m /\ job'[w].pc = "returned"
             /\ missions[m].state \in Busy
             /\ missions'[m].state \in {"failed", "evaluating", "passed"}
             /\ missions'[m].state = "passed" => attempts[a].provenance = "passed"
  <2>1. CASE missions' = missions
    BY <2>1
  <2>2. CASE MovesMission(w)
    BY <1>1, <1>2, <2>2 DEF MovesMission, SetState, MissionRow
  <2> QED BY <2>1, <2>2 DEF WorkerMove
<1>6. \A b \in Attempts : IsActive(b)' <=> IsActive(b)
  BY <1>5 DEF IsActive, Attempts
<1> HIDE DEF m, a
(* No other command is at work on this mission while this one moves it.    *)
<1>7. ASSUME NEW v \in Workers, job[v].pc # "new", MissionOf(v) = m, m \notin hurried,
             missions'[m].state # missions[m].state,
             /\ IsActive(job[v].a)
             /\ missions[m].state \in Busy =>
                  missions[m].state = PhaseState[job[v].phase]
      PROVE  v = w
  <2>1. missions[m].state \in Busy
    BY <1>2, <1>5, <1>7
  <2>2. IsActive(a) /\ missions[m].state = PhaseState[job[w].phase]
    BY <1>2, <1>7, <2>1 DEF RunsInv, OnTime, m, a
  <2>3. job[v].phase \in {"train", "eval"} /\ job[v].a[1] = m
    BY <1>1, <1>7, FrameFacts
  <2>4. job[v].a = a /\ job[v].phase = job[w].phase
    BY <1>2, <1>7, <2>1, <2>2, <2>3, PhaseFacts DEF IsActive
  <2> QED BY <1>2, <1>7, <2>4 DEF RunsInv, OneEach, a
<1>8. RunsTypeOK'
  <2>1. ASSUME NEW v \in Workers, job'[v].pc # "new"
        PROVE  /\ job'[v].a \in Attempts
               /\ job'[v].a[2] <= missions'[job'[v].a[1]].ordinals
               /\ job'[v].phase = "eval" => attempts'[job'[v].a].evaluated
    <3>1. job[v].pc # "new"
      BY <1>3, <2>1
    <3>2. /\ job[v].a \in Attempts /\ Made(job[v].a)
          /\ job[v].phase = "eval" => attempts[job[v].a].evaluated
      BY <1>1, <3>1 DEF RunsTypeOK
    <3>3. \A c \in Attempts : Made(c) => c[2] <= missions'[c[1]].ordinals
      BY MadeStaysMade DEF Made
    <3> QED BY <1>3, <3>2, <3>3 DEF EvidenceKept
  <2>2. /\ job' \in [Workers -> JobRow] /\ hurried' \subseteq Missions
        /\ child' \in [Workers -> {"none"} \cup Running \cup Exits]
    BY <1>1 DEF WorkerMove, RunsTypeOK
  <2> QED BY <2>1, <2>2 DEF RunsTypeOK, Made
<1>9. ChildShape'
  BY <1>3 DEF RunsInv, ChildShape, WorkerMove
<1>10. OneEach'
  BY <1>3 DEF RunsInv, OneEach
<1>11. FreshUnused'
  BY <1>3, <1>5 DEF RunsInv, FreshUnused, Fresh
<1>12. OnTime'
  <2> SUFFICES ASSUME NEW v \in Workers, job'[v].pc \notin Idle, MissionOf(v) \notin hurried
               PROVE  /\ IsActive(job[v].a)
                      /\ missions'[MissionOf(v)].state \notin Fresh
                      /\ missions'[MissionOf(v)].state \in Busy =>
                           missions'[MissionOf(v)].state = PhaseState[job[v].phase]
    <3>1. hurried' = hurried
      BY DEF WorkerMove
    <3>2. \A v \in Workers : job'[v].pc \notin Idle =>
            (missions'[job'[v].a[1]].active = job'[v].a <=> IsActive(job[v].a))
      BY <1>1, <1>3, <1>6, FrameFacts DEF Idle, IsActive
    <3> QED BY <1>3, <1>4, <3>1, <3>2 DEF OnTime, IsActive
  <2>1. job[v].pc \notin Idle /\ job[v].pc # "new"
    BY <1>2, <1>3 DEF Idle
  <2>2. /\ IsActive(job[v].a)
        /\ missions[MissionOf(v)].state \notin Fresh
        /\ missions[MissionOf(v)].state \in Busy =>
             missions[MissionOf(v)].state = PhaseState[job[v].phase]
    BY <2>1 DEF RunsInv, OnTime
  <2>3. CASE missions'[MissionOf(v)].state = missions[MissionOf(v)].state
    BY <2>2, <2>3
  <2>4. CASE missions'[MissionOf(v)].state # missions[MissionOf(v)].state
    <3>1. MissionOf(v) = m /\ job'[w].pc = "returned"
      BY <1>1, <1>5, <2>1, <2>4, FrameFacts
    <3>2. v = w
      BY <1>7, <2>1, <2>2, <2>4, <3>1
    <3> QED BY <3>1, <3>2 DEF Idle
  <2> QED BY <2>3, <2>4
<1>13. JudgedFirst'
  <2> SUFFICES ASSUME NEW v \in Workers, job'[v].pc = "advance"
               PROVE  /\ job'[v].rc \in Exits
                      /\ job'[v].phase = "eval" /\ job'[v].rc = "ok" =>
                           attempts'[job'[v].a].provenance = "passed"
    BY DEF JudgedFirst
  <2>1. CASE v = w
    BY <1>3, <2>1 DEF WorkerMove
  <2>2. CASE v # w
    <3>1. job'[v] = job[v] /\ job[v].pc = "advance"
      BY <1>3, <2>2
    <3>2. job[v].a \in Attempts
      BY <1>1, <3>1, FrameFacts
    <3>3. NULL # "passed"
      BY NullAssumption
    <3> QED BY <3>1, <3>2, <3>3 DEF RunsInv, JudgedFirst, EvidenceKept
  <2> QED BY <2>1, <2>2
<1>14. RecordedShape'
  <2> SUFFICES ASSUME NEW b \in Attempts, NEW v \in Workers, attempts'[b].process = v
               PROVE  job'[v].a = b /\ MayBeRecorded(v)'
    BY DEF RecordedShape
  <2>1. CASE v = w
    <3>1. b = a
      BY <2>1 DEF RunsInv, RecordedShape, WorkerMove, a
    <3> QED BY <1>3, <2>1, <3>1 DEF WorkerMove, a
  <2>2. CASE v # w
    <3>1. attempts[b].process = v
      BY <2>2 DEF WorkerMove
    <3>2. job[v].a = b /\ MayBeRecorded(v)
      BY <3>1 DEF RunsInv, RecordedShape
    <3>3. job'[v] = job[v] /\ MissionOf(v)' = MissionOf(v) /\ MissionOf(v) \in Missions
      BY <1>3, <1>4, <2>2, <3>2 DEF MissionOf, Attempts
    <3>4. /\ IsActive(b)' <=> IsActive(b)
          /\ missions'[MissionOf(v)].state \in Busy =>
               missions[MissionOf(v)].state \in Busy
      BY <1>5, <1>6, <3>3
    <3> QED BY <3>2, <3>3, <3>4 DEF MayBeRecorded, IsActive
  <2> QED BY <2>1, <2>2
<1>15. PassedIfUnhurried'
  <2> SUFFICES ASSUME NEW n \in Missions, n \notin hurried, missions'[n].state = "passed"
               PROVE  attempts'[missions'[n].active].provenance = "passed"
    BY DEF PassedIfUnhurried, OwnEvidence, WorkerMove
  <2>0. NULL # "passed" /\ missions'[n].active = missions[n].active
    BY <1>5, NullAssumption
  <2>1. CASE missions[n].state = "passed"
    <3>1. attempts[missions[n].active].provenance = "passed"
      BY <2>1 DEF RunsInv, PassedIfUnhurried, OwnEvidence
    <3>2. missions[n].active \in Attempts
      BY <1>1, <2>1 DEF Inv, BusyHasAttempt, MissionRow
    <3> QED BY <2>0, <3>1, <3>2 DEF EvidenceKept
  <2>2. CASE missions[n].state # "passed"
    <3>1. n = m /\ attempts[a].provenance = "passed"
      BY <1>5, <2>2
    <3>2. missions[m].active = a
      BY <1>2, <3>1 DEF RunsInv, OnTime, IsActive, m, a
    <3> QED BY <1>2, <2>0, <3>1, <3>2 DEF EvidenceKept
  <2> QED BY <2>1, <2>2
<1>16. ProcessHasSlot'
  <2> SUFFICES ASSUME NEW v \in Workers, child'[v] = "alive", job'[v].a # NULL,
                      attempts'[job[v].a].process = v, MissionOf(v) \notin hurried,
                      job[v].a \in Attempts
               PROVE  /\ IsActive(job[v].a)
                      /\ missions'[MissionOf(v)].state = PhaseState[job[v].phase]
    <3>1. hurried' = hurried
      BY DEF WorkerMove
    <3>2. \A v \in Workers : job'[v].a # NULL =>
            /\ job[v].a \in Attempts
            /\ (missions'[job'[v].a[1]].active = job'[v].a <=> IsActive(job[v].a))
      BY <1>1, <1>3, <1>6 DEF JobRow, IsActive
    <3> QED BY <1>3, <1>4, <3>1, <3>2 DEF ProcessHasSlot, IsActive
  <2>1. /\ IsActive(job[v].a)
        /\ missions[MissionOf(v)].state = PhaseState[job[v].phase]
    <3>1. CASE v = w /\ attempts[a].process # w
      BY <3>1 DEF WorkerMove, a, m
    <3>2. CASE v # w \/ attempts[a].process = w
      <4>1. attempts[job[v].a].process = v /\ child[v] = "alive"
        BY <1>3, <3>2 DEF WorkerMove, a
      <4>2. job[v].a # NULL
        BY <1>3
      <4> QED BY <4>1, <4>2 DEF RunsInv, ProcessHasSlot
    <3> QED BY <3>1, <3>2
  <2>2. CASE missions'[MissionOf(v)].state = missions[MissionOf(v)].state
    BY <2>1, <2>2
  <2>3. CASE missions'[MissionOf(v)].state # missions[MissionOf(v)].state
    <3>1. MissionOf(v) \in Missions
      BY DEF MissionOf, Attempts
    <3>2. MissionOf(v) = m /\ job'[w].pc = "returned"
      BY <1>5, <2>3, <3>1
    <3>3. job[v].pc # "new"
      <4>1. attempts[job[v].a].process = v \/ v = w
        BY DEF WorkerMove
      <4>2. attempts[job[v].a].process = v => MayBeRecorded(v)
        BY DEF RunsInv, RecordedShape
      <4> QED BY <1>2, <4>1, <4>2 DEF MayBeRecorded
    <3>4. v = w
      BY <1>7, <2>1, <2>3, <3>2, <3>3
    <3> QED BY <3>2, <3>4 DEF WorkerMove
  <2> QED BY <2>2, <2>3
<1> QED
  BY <1>8, <1>9, <1>10, <1>11, <1>12, <1>13, <1>14, <1>15, <1>16 DEF RunsInv

-----------------------------------------------------------------------------
(* Every command stays where it is. *)

\* What may become of one mission then: it is about to be run, or cancelled.
OperatorWrites(m) ==
  LET new == missions'[m] IN
  /\ missions' = [missions EXCEPT ![m] = new]
  /\ new.state \notin Busy \cup {"passed"}
  /\ new.state \in Fresh =>
       /\ \A w \in Workers : job[w].pc # "new" => job[w].a # new.active
       /\ m \notin hurried' => Live(m) = {}
  /\ new.state \notin Fresh => new.active = missions[m].active
  /\ \A w \in Workers :
       ~ /\ child'[w] = "alive" /\ job[w].a # NULL /\ MissionOf(w) = m
         /\ attempts[job[w].a].process = w /\ m \notin hurried'

OperatorMove ==
  /\ job' = job /\ attempts' = attempts
  /\ hurried \subseteq hurried' /\ hurried' \subseteq Missions
  /\ child' \in [Workers -> {"none"} \cup Running \cup Exits]
  /\ \A w \in Workers : /\ child'[w] = "alive" => child[w] = "alive"
                        /\ child[w] # "none" => child'[w] # "none"
  /\ missions' = missions \/ \E m \in Missions : OperatorWrites(m)

LEMMA OperatorMoveKeeps ==
  ASSUME Inv, RunsInv, OperatorMove, [LNext]_lvars
  PROVE  RunsInv'
<1>1. /\ RunsTypeOK /\ missions \in [Missions -> MissionRow]
      /\ job' = job /\ attempts' = attempts /\ hurried \subseteq hurried'
      /\ \A w \in Workers : MissionOf(w)' = MissionOf(w)
  BY DEF RunsInv, Inv, LTypeOK, OperatorMove, MissionOf
<1>2. PICK m : \/ missions' = missions
               \/ m \in Missions /\ OperatorWrites(m)
  BY DEF OperatorMove
<1>3. \A n \in Missions : n # m => missions'[n] = missions[n]
  BY <1>1, <1>2 DEF OperatorWrites
(* What is said of a mission that did not change is still true. *)
<1>4. \A n \in Missions :
        \/ missions'[n] = missions[n]
        \/ n = m /\ OperatorWrites(m)
  BY <1>2, <1>3
<1>5. RunsTypeOK'
  <2>1. ASSUME NEW v \in Workers, job[v].pc # "new"
        PROVE  job[v].a \in Attempts /\ job[v].a[2] <= missions'[job[v].a[1]].ordinals
    <3>1. job[v].a \in Attempts /\ Made(job[v].a)
      BY <1>1, <2>1 DEF RunsTypeOK
    <3>2. \A c \in Attempts : Made(c) => c[2] <= missions'[c[1]].ordinals
      BY MadeStaysMade DEF Made
    <3> QED BY <3>1, <3>2
  <2> QED BY <1>1, <2>1 DEF RunsTypeOK, OperatorMove, Made
<1>6. ChildShape' /\ OneEach' /\ JudgedFirst'
  BY <1>1 DEF RunsInv, ChildShape, OneEach, JudgedFirst, OperatorMove
<1>7. FreshUnused'
  <2> SUFFICES ASSUME NEW n \in Missions, NEW v \in Workers,
                      missions'[n].state \in Fresh, job[v].pc # "new"
               PROVE  job[v].a # missions'[n].active
    BY <1>1 DEF FreshUnused
  <2>1. CASE missions'[n] = missions[n]
    BY <2>1 DEF RunsInv, FreshUnused
  <2>2. CASE n = m /\ OperatorWrites(m)
    BY <2>2 DEF OperatorWrites
  <2> QED BY <1>4, <2>1, <2>2
<1>8. OnTime'
  <2> SUFFICES ASSUME NEW v \in Workers, job[v].pc \notin Idle, MissionOf(v) \notin hurried'
               PROVE  /\ missions'[MissionOf(v)].active = job[v].a
                      /\ missions'[MissionOf(v)].state \notin Fresh
                      /\ missions'[MissionOf(v)].state \in Busy =>
                           missions'[MissionOf(v)].state = PhaseState[job[v].phase]
    BY <1>1 DEF OnTime, IsActive, MissionOf
  <2>1. /\ missions[MissionOf(v)].active = job[v].a
        /\ missions[MissionOf(v)].state \notin Fresh
        /\ missions[MissionOf(v)].state \in Busy =>
             missions[MissionOf(v)].state = PhaseState[job[v].phase]
    BY <1>1 DEF RunsInv, OnTime, IsActive, MissionOf
  <2>2. MissionOf(v) \in Missions
    BY <1>1, FrameFacts DEF Idle
  <2>3. CASE missions'[MissionOf(v)] = missions[MissionOf(v)]
    BY <2>1, <2>3
  <2>4. CASE MissionOf(v) = m /\ OperatorWrites(m)
    <3>1. v \in Live(m)
      BY <2>4 DEF Live
    <3> QED BY <2>1, <2>4, <3>1 DEF OperatorWrites
  <2> QED BY <1>4, <2>2, <2>3, <2>4
<1>9. RecordedShape'
  <2> SUFFICES ASSUME NEW b \in Attempts, NEW v \in Workers, attempts[b].process = v
               PROVE  job[v].a = b /\ MayBeRecorded(v)'
    BY <1>1 DEF RecordedShape
  <2>1. job[v].a = b /\ MayBeRecorded(v)
    BY DEF RunsInv, RecordedShape
  <2>2. MissionOf(v) \in Missions /\ b[1] = MissionOf(v)
    BY <2>1 DEF MissionOf, Attempts
  <2>3. missions'[MissionOf(v)] = missions[MissionOf(v)]
          \/ missions'[MissionOf(v)].state \notin Busy
    BY <1>4, <2>2 DEF OperatorWrites
  <2> QED BY <1>1, <2>1, <2>2, <2>3 DEF MayBeRecorded, IsActive
<1>10. PassedIfUnhurried'
  <2> SUFFICES ASSUME NEW n \in Missions, n \notin hurried', missions'[n].state = "passed"
               PROVE  attempts[missions'[n].active].provenance = "passed"
    BY <1>1 DEF PassedIfUnhurried, OwnEvidence
  <2>1. missions'[n] = missions[n]
    BY <1>4 DEF OperatorWrites
  <2> QED BY <1>1, <2>1 DEF RunsInv, PassedIfUnhurried, OwnEvidence
<1>11. ProcessHasSlot'
  <2> SUFFICES ASSUME NEW v \in Workers, child'[v] = "alive", job[v].a # NULL,
                      attempts[job[v].a].process = v, MissionOf(v) \notin hurried'
               PROVE  /\ missions'[MissionOf(v)].active = job[v].a
                      /\ missions'[MissionOf(v)].state = PhaseState[job[v].phase]
    BY <1>1 DEF ProcessHasSlot, IsActive, MissionOf
  <2>1. /\ missions[MissionOf(v)].active = job[v].a
        /\ missions[MissionOf(v)].state = PhaseState[job[v].phase]
    BY <1>1 DEF RunsInv, ProcessHasSlot, IsActive, MissionOf, OperatorMove
  <2>2. MissionOf(v) \in Missions
    BY <1>1 DEF RunsTypeOK, JobRow, MissionOf, Attempts
  <2>3. missions'[MissionOf(v)] = missions[MissionOf(v)]
    BY <1>4, <2>2 DEF OperatorWrites
  <2> QED BY <2>1, <2>3
<1> QED
  BY <1>5, <1>6, <1>7, <1>8, <1>9, <1>10, <1>11 DEF RunsInv

-----------------------------------------------------------------------------
(* The two claims. *)

LEMMA StartRunKeeps ==
  ASSUME NEW w \in Workers, NEW m \in Missions, Inv, RunsInv, StartRun(w, m), [LNext]_lvars
  PROVE  RunsInv'
<1> DEFINE a == AttemptToRun(m)
           row == [pc |-> "snapshot", phase |-> "train", a |-> a, rc |-> NULL]
           n == IF missions[m].active # NULL THEN missions[m].ordinals
                                             ELSE missions[m].ordinals + 1
           new == [state |-> "running", active |-> a, ordinals |-> n]
<1>1. /\ RunsTypeOK /\ job \in [Workers -> JobRow]
      /\ missions \in [Missions -> MissionRow]
      /\ missions[m].state = "ready" /\ job[w].pc = "new"
      /\ attempts' = attempts /\ child' = child /\ hurried' = hurried
  BY DEF RunsInv, RunsTypeOK, Inv, LTypeOK, StartRun, Claim
<1>2. a \in Attempts /\ a[1] = m
  BY <1>1 DEF StartRun, Claim, Attempts, AttemptToRun, Inv, LTypeOK
<1>3. /\ job' = [job EXCEPT ![w] = row]
      /\ missions' = [missions EXCEPT ![m] = new]
  BY DEF StartRun, Claim
<1>4. row \in JobRow
  BY <1>2 DEF JobRow, PCs
<1>5. /\ row.pc = "snapshot" /\ row.phase = "train" /\ row.a = a
      /\ new.state = "running" /\ new.active = a
  OBVIOUS
(* Nobody has run this attempt. *)
<1>6. \A v \in Workers : job[v].pc # "new" => job[v].a # a
  <2> SUFFICES ASSUME NEW v \in Workers, job[v].pc # "new", job[v].a = a
               PROVE  FALSE
    OBVIOUS
  <2>1. CASE missions[m].active # NULL
    BY <1>1, <2>1 DEF AttemptToRun, RunsInv, FreshUnused, Fresh
  <2>2. CASE missions[m].active = NULL
    <3>1. a = <<m, missions[m].ordinals + 1>> /\ missions[m].ordinals \in Nat
      BY <1>1, <2>2 DEF AttemptToRun, MissionRow
    <3>2. Made(a)
      BY <1>1 DEF RunsTypeOK
    <3> QED BY <3>1, <3>2 DEF Made
  <2> QED BY <2>1, <2>2
<1>7. \A v \in Workers : attempts[a].process # v
  BY <1>2, <1>6 DEF RunsInv, RecordedShape, MayBeRecorded
<1> HIDE DEF row, new, a, n
<1>8. /\ \A v \in Workers : job'[v] = IF v = w THEN row ELSE job[v]
      /\ \A q \in Missions : missions'[q] = IF q = m THEN new ELSE missions[q]
  BY <1>1, <1>3
<1>9. /\ MissionOf(w)' = m
      /\ \A v \in Workers : v # w => MissionOf(v)' = MissionOf(v)
  BY <1>2, <1>5, <1>8 DEF MissionOf
<1>10. RunsTypeOK'
  <2>1. ASSUME NEW v \in Workers, job'[v].pc # "new"
        PROVE  /\ job'[v].a \in Attempts
               /\ job'[v].a[2] <= missions'[job'[v].a[1]].ordinals
               /\ job'[v].phase = "eval" => attempts[job'[v].a].evaluated
    <3>1. CASE v = w
      <4>1. a[2] <= new.ordinals
        <5>1. CASE missions[m].active = NULL
          BY <1>1, <5>1 DEF a, new, n, AttemptToRun, MissionRow
        <5>2. CASE missions[m].active # NULL
          BY <1>1, <5>2 DEF a, new, n, AttemptToRun, Inv, LTypeOK, Made
        <5> QED BY <5>1, <5>2
      <4> QED BY <1>2, <1>5, <1>8, <3>1, <4>1
    <3>2. CASE v # w
      <4>1. /\ job[v].a \in Attempts /\ Made(job[v].a) /\ job'[v] = job[v]
            /\ job[v].phase = "eval" => attempts[job[v].a].evaluated
        BY <1>1, <1>8, <2>1, <3>2 DEF RunsTypeOK
      <4>2. \A c \in Attempts : Made(c) => c[2] <= missions'[c[1]].ordinals
        BY MadeStaysMade DEF Made
      <4> QED BY <4>1, <4>2
    <3> QED BY <3>1, <3>2
  <2>2. job' \in [Workers -> JobRow]
    BY <1>1, <1>3, <1>4
  <2> QED BY <1>1, <2>1, <2>2 DEF RunsTypeOK, Made
<1>11. ChildShape' /\ JudgedFirst'
  BY <1>1, <1>5, <1>8 DEF RunsInv, ChildShape, JudgedFirst
<1>12. OneEach'
  BY <1>5, <1>6, <1>8 DEF RunsInv, OneEach
<1>13. FreshUnused'
  <2> SUFFICES ASSUME NEW q \in Missions, NEW v \in Workers,
                      missions'[q].state \in Fresh, job'[v].pc # "new"
               PROVE  job'[v].a # missions'[q].active
    BY DEF FreshUnused
  <2>1. q # m /\ missions'[q] = missions[q]
    BY <1>5, <1>8 DEF Fresh
  <2>2. CASE v = w
    <3>1. missions[q].active # NULL => missions[q].active[1] = q
      BY DEF Inv, LTypeOK
    <3>2. a # NULL
      BY <1>2, NullAssumption DEF Attempts
    <3> QED BY <1>2, <1>5, <1>8, <2>1, <2>2, <3>1, <3>2
  <2>3. CASE v # w
    BY <1>8, <2>1, <2>3 DEF RunsInv, FreshUnused
  <2> QED BY <2>2, <2>3
<1>14. OnTime'
  <2> SUFFICES ASSUME NEW v \in Workers, job'[v].pc \notin Idle, MissionOf(v)' \notin hurried
               PROVE  /\ missions'[MissionOf(v)'].active = job'[v].a
                      /\ missions'[MissionOf(v)'].state \notin Fresh
                      /\ missions'[MissionOf(v)'].state \in Busy =>
                           missions'[MissionOf(v)'].state = PhaseState[job'[v].phase]
    BY <1>1 DEF OnTime, IsActive, MissionOf
  <2>1. CASE v = w
    BY <1>5, <1>8, <1>9, <2>1 DEF Fresh, PhaseState
  <2>2. CASE v # w
    <3>1. /\ job'[v] = job[v] /\ MissionOf(v)' = MissionOf(v)
          /\ job[v].pc \notin Idle /\ MissionOf(v) \notin hurried
      BY <1>8, <1>9, <2>2
    <3>2. /\ missions[MissionOf(v)].active = job[v].a
          /\ missions[MissionOf(v)].state \notin Fresh
          /\ missions[MissionOf(v)].state \in Busy =>
               missions[MissionOf(v)].state = PhaseState[job[v].phase]
      BY <3>1 DEF RunsInv, OnTime, IsActive, MissionOf
    <3>3. MissionOf(v) \in Missions /\ MissionOf(v) # m
      BY <1>1, <3>1, <3>2, FrameFacts DEF Idle, Fresh
    <3> QED BY <1>8, <3>1, <3>2, <3>3
  <2> QED BY <2>1, <2>2
<1>15. RecordedShape'
  <2> SUFFICES ASSUME NEW b \in Attempts, NEW v \in Workers, attempts[b].process = v
               PROVE  job'[v].a = b /\ MayBeRecorded(v)'
    BY <1>1 DEF RecordedShape
  <2>1. job[v].a = b /\ MayBeRecorded(v)
    BY DEF RunsInv, RecordedShape
  <2>2. v # w /\ job'[v] = job[v] /\ MissionOf(v)' = MissionOf(v) /\ b # a
    BY <1>1, <1>7, <1>8, <1>9, <2>1 DEF MayBeRecorded
  <2>3. b[1] = MissionOf(v) /\ MissionOf(v) \in Missions
    BY <2>1 DEF MissionOf, Attempts
  <2>4. CASE MissionOf(v) = m
    <3>1. ~IsActive(b)'
      BY <1>5, <1>8, <2>2, <2>3, <2>4 DEF IsActive
    <3> QED BY <2>1, <2>2, <3>1 DEF MayBeRecorded, IsActive
  <2>5. CASE MissionOf(v) # m
    BY <1>8, <2>1, <2>2, <2>3, <2>5 DEF MayBeRecorded, IsActive
  <2> QED BY <2>4, <2>5
<1>16. PassedIfUnhurried'
  BY <1>1, <1>5, <1>8 DEF RunsInv, PassedIfUnhurried, OwnEvidence
<1>17. ProcessHasSlot'
  <2> SUFFICES ASSUME NEW v \in Workers, child[v] = "alive", job'[v].a # NULL,
                      attempts[job'[v].a].process = v, MissionOf(v)' \notin hurried
               PROVE  /\ missions'[MissionOf(v)'].active = job'[v].a
                      /\ missions'[MissionOf(v)'].state = PhaseState[job'[v].phase]
    BY <1>1 DEF ProcessHasSlot, IsActive, MissionOf
  <2>1. v # w /\ job'[v] = job[v] /\ MissionOf(v)' = MissionOf(v)
    BY <1>5, <1>7, <1>8, <1>9
  <2>2. /\ missions[MissionOf(v)].active = job[v].a
        /\ missions[MissionOf(v)].state = PhaseState[job[v].phase]
    BY <2>1 DEF RunsInv, ProcessHasSlot, IsActive, MissionOf
  <2>3. job[v].phase \in {"train", "eval"} /\ MissionOf(v) \in Missions
    BY <1>1, <2>1 DEF JobRow, MissionOf, Attempts
  <2>4. MissionOf(v) # m
    BY <1>1, <2>2, <2>3 DEF PhaseState
  <2> QED BY <1>8, <2>1, <2>2, <2>3, <2>4
<1> QED
  BY <1>10, <1>11, <1>12, <1>13, <1>14, <1>15, <1>16, <1>17 DEF RunsInv

LEMMA StartEvaluationKeeps ==
  ASSUME NEW w \in Workers, NEW a \in Attempts, Inv, RunsInv, StartEvaluation(w, a),
         [LNext]_lvars, EvidenceKept
  PROVE  RunsInv'
<1> DEFINE m == a[1]
           row == [pc |-> "launch", phase |-> "eval", a |-> a, rc |-> NULL]
<1>1. /\ RunsTypeOK /\ job \in [Workers -> JobRow]
      /\ attempts \in [Attempts -> AttemptRow]
      /\ missions' = missions /\ child' = child /\ hurried' = hurried
      /\ IsActive(a) /\ missions[m].state = "evaluating" /\ ~attempts[a].evaluated
      /\ job[w].pc = "new" /\ m \in Missions
  BY DEF RunsInv, RunsTypeOK, Inv, LTypeOK, StartEvaluation, ClaimEvaluation,
         CanClaimEvaluation, Attempts
<1>2. /\ job' = [job EXCEPT ![w] = row]
      /\ attempts' = [attempts EXCEPT ![a].evaluated = TRUE]
  BY DEF StartEvaluation, ClaimEvaluation
<1>3. row \in JobRow /\ row.pc = "launch" /\ row.phase = "eval" /\ row.a = a
  BY DEF JobRow, PCs
<1> HIDE DEF row
<1>4. \A v \in Workers : job'[v] = IF v = w THEN row ELSE job[v]
  BY <1>1, <1>2
<1>5. \A b \in Attempts :
        /\ attempts'[b].process = attempts[b].process
        /\ attempts'[b].provenance = attempts[b].provenance
  BY <1>1, <1>2 DEF AttemptRow
<1>6. attempts'[a].evaluated
  BY <1>1, <1>2 DEF AttemptRow
<1>7. /\ MissionOf(w)' = m
      /\ \A v \in Workers : v # w => MissionOf(v)' = MissionOf(v)
  BY <1>3, <1>4 DEF MissionOf
(* Nobody has evaluated this attempt. *)
<1>8. \A v \in Workers : job[v].pc # "new" /\ job[v].phase = "eval" => job[v].a # a
  BY <1>1 DEF RunsTypeOK
<1>9. RunsTypeOK'
  <2>1. ASSUME NEW v \in Workers, job'[v].pc # "new"
        PROVE  /\ job'[v].a \in Attempts /\ Made(job'[v].a)
               /\ job'[v].phase = "eval" => attempts'[job'[v].a].evaluated
    <3>1. CASE v = w
      <4>1. Made(a)
        <5>1. NULL # a
          BY NullAssumption DEF Attempts
        <5> QED BY <1>1, <5>1 DEF Inv, LTypeOK, IsActive
      <4> QED BY <1>3, <1>4, <1>6, <3>1, <4>1
    <3>2. CASE v # w
      BY <1>1, <1>4, <2>1, <3>2 DEF RunsTypeOK, EvidenceKept
    <3> QED BY <3>1, <3>2
  <2>2. job' \in [Workers -> JobRow]
    BY <1>1, <1>2, <1>3
  <2> QED BY <1>1, <2>1, <2>2 DEF RunsTypeOK, Made
<1>10. ChildShape'
  BY <1>1, <1>3, <1>4 DEF RunsInv, ChildShape
<1>11. OneEach'
  BY <1>3, <1>4, <1>8 DEF RunsInv, OneEach
<1>12. FreshUnused'
  <2> SUFFICES ASSUME NEW q \in Missions, NEW v \in Workers,
                      missions[q].state \in Fresh, job'[v].pc # "new"
               PROVE  job'[v].a # missions[q].active
    BY <1>1 DEF FreshUnused
  <2>1. CASE v = w
    <3>1. q # m
      BY <1>1 DEF Fresh
    <3>2. missions[q].active # NULL => missions[q].active[1] = q
      BY DEF Inv, LTypeOK
    <3>3. a # NULL
      BY NullAssumption DEF Attempts
    <3> QED BY <1>3, <1>4, <2>1, <3>1, <3>2, <3>3
  <2>2. CASE v # w
    BY <1>4, <2>2 DEF RunsInv, FreshUnused
  <2> QED BY <2>1, <2>2
<1>13. OnTime'
  <2> SUFFICES ASSUME NEW v \in Workers, job'[v].pc \notin Idle, MissionOf(v)' \notin hurried
               PROVE  /\ missions[MissionOf(v)'].active = job'[v].a
                      /\ missions[MissionOf(v)'].state \notin Fresh
                      /\ missions[MissionOf(v)'].state \in Busy =>
                           missions[MissionOf(v)'].state = PhaseState[job'[v].phase]
    BY <1>1 DEF OnTime, IsActive, MissionOf
  <2>1. CASE v = w
    BY <1>1, <1>3, <1>4, <1>7, <2>1 DEF Fresh, PhaseState, IsActive
  <2>2. CASE v # w
    BY <1>4, <1>7, <2>2 DEF RunsInv, OnTime, IsActive, MissionOf
  <2> QED BY <2>1, <2>2
<1>14. JudgedFirst'
  <2> SUFFICES ASSUME NEW v \in Workers, job'[v].pc = "advance"
               PROVE  /\ job'[v].rc \in Exits
                      /\ job'[v].phase = "eval" /\ job'[v].rc = "ok" =>
                           attempts'[job'[v].a].provenance = "passed"
    BY DEF JudgedFirst
  <2>1. job'[v] = job[v]
    BY <1>3, <1>4
  <2>2. job[v].a \in Attempts
    BY <1>1, <2>1, FrameFacts
  <2> QED BY <1>5, <2>1, <2>2 DEF RunsInv, JudgedFirst
<1>15. RecordedShape'
  <2> SUFFICES ASSUME NEW b \in Attempts, NEW v \in Workers, attempts[b].process = v
               PROVE  job'[v].a = b /\ MayBeRecorded(v)'
    BY <1>5 DEF RecordedShape
  <2>1. job[v].a = b /\ MayBeRecorded(v)
    BY DEF RunsInv, RecordedShape
  <2>2. v # w /\ job'[v] = job[v] /\ MissionOf(v)' = MissionOf(v)
    BY <1>1, <1>4, <1>7, <2>1 DEF MayBeRecorded
  <2> QED BY <1>1, <2>1, <2>2 DEF MayBeRecorded, IsActive
<1>16. PassedIfUnhurried'
  <2> SUFFICES ASSUME NEW n \in Missions, n \notin hurried, missions[n].state = "passed"
               PROVE  attempts'[missions[n].active].provenance = "passed"
    BY <1>1 DEF PassedIfUnhurried, OwnEvidence
  <2>1. missions[n].active \in Attempts
    BY DEF Inv, BusyHasAttempt, LTypeOK, MissionRow
  <2> QED BY <1>5, <2>1 DEF RunsInv, PassedIfUnhurried, OwnEvidence
<1>17. ProcessHasSlot'
  <2> SUFFICES ASSUME NEW v \in Workers, child[v] = "alive", job'[v].a # NULL,
                      attempts'[job'[v].a].process = v, MissionOf(v)' \notin hurried
               PROVE  /\ missions[MissionOf(v)'].active = job'[v].a
                      /\ missions[MissionOf(v)'].state = PhaseState[job'[v].phase]
    BY <1>1 DEF ProcessHasSlot, IsActive, MissionOf
  <2>1. job'[v].a \in Attempts
    BY <1>1, <1>3, <1>4 DEF JobRow
  <2>2. attempts[job'[v].a].process = v
    BY <1>5, <2>1
  <2>3. v # w
    BY <1>1, <2>1, <2>2 DEF RunsInv, RecordedShape, MayBeRecorded
  <2>4. job'[v] = job[v] /\ MissionOf(v)' = MissionOf(v)
    BY <1>4, <1>7, <2>3
  <2> QED BY <2>2, <2>4 DEF RunsInv, ProcessHasSlot, IsActive, MissionOf
<1> QED
  BY <1>9, <1>10, <1>11, <1>12, <1>13, <1>14, <1>15, <1>16, <1>17 DEF RunsInv

-----------------------------------------------------------------------------
(* Which steps are of which kind, and which calls on the ledger they make. *)

LEMMA TryTransitionWrites ==
  ASSUME NEW m \in Missions, Inv, TryTransition(m, "failed")
  PROVE  /\ [LNext]_lvars
         /\ attempts' = attempts
         /\ missions' = missions \/ (missions[m].state \in Busy /\ SetState(m, "failed"))
<1>1. CASE CanTransition(m, "failed")
  <2>1. Transition(m, "failed")
    BY <1>1 DEF TryTransition
  <2>2. missions[m].state \in Busy
    <3>1. missions[m].state \in States
      BY DEF Inv, LTypeOK, MissionRow
    <3> QED BY <1>1, <3>1 DEF CanTransition, Legal, Busy, States
  <2> QED BY <2>1, <2>2 DEF Transition, LNext, MissionStep, Targets
<1>2. CASE ~CanTransition(m, "failed")
  BY <1>2 DEF TryTransition, lvars
<1> QED BY <1>1, <1>2

LEMMA FailActiveWrites ==
  ASSUME NEW a \in Attempts, FailActive(a), Made(a)
  PROVE  /\ [LNext]_lvars
         /\ attempts' = attempts
         /\ \/ missions' = missions /\ ~(IsActive(a) /\ missions[a[1]].state \in Busy)
            \/ /\ missions[a[1]].state \in Busy /\ IsActive(a)
               /\ SetState(a[1], "failed")
<1>1. [LNext]_lvars
  BY DEF LNext, AttemptStep
<1> QED BY <1>1 DEF FailActive, SetState

(* The frame of a command after GoTo and GoWith.                           *)
LEMMA Goes ==
  ASSUME NEW w \in Workers, RunsTypeOK, job[w].pc # "new",
         NEW pc \in PCs \ {"new"}, NEW rc \in {"ok", "bad", "raised", NULL},
         GoWith(w, pc, rc) \/ (GoTo(w, pc) /\ rc = job[w].rc)
  PROVE  /\ job' = [job EXCEPT ![w] = job'[w]]
         /\ job'[w] \in JobRow
         /\ job'[w].a = job[w].a /\ job'[w].phase = job[w].phase
         /\ job'[w].pc = pc /\ job'[w].rc = rc
         /\ MissionOf(w)' = MissionOf(w)
<1> DEFINE row == [pc |-> pc, phase |-> job[w].phase, a |-> job[w].a, rc |-> rc]
<1>1. job \in [Workers -> JobRow] /\ job[w] \in JobRow
  BY DEF RunsTypeOK
<1>2. CASE GoTo(w, pc) /\ rc = job[w].rc
  <2>1. job' = [job EXCEPT ![w] = [job[w] EXCEPT !.pc = pc]]
    BY <1>2 DEF GoTo
  <2>2. job'[w] = [job[w] EXCEPT !.pc = pc]
    BY <1>1, <2>1
  <2>3. /\ job'[w] \in JobRow
        /\ job'[w].a = job[w].a /\ job'[w].phase = job[w].phase
        /\ job'[w].pc = pc /\ job'[w].rc = rc
    BY <1>1, <1>2, <2>2 DEF JobRow
  <2> QED BY <2>1, <2>2, <2>3 DEF MissionOf
<1>3. CASE GoWith(w, pc, rc)
  <2>1. job' = [job EXCEPT ![w] = [[job[w] EXCEPT !.pc = pc] EXCEPT !.rc = rc]]
    BY <1>1, <1>3 DEF GoWith, JobRow
  <2>2. job'[w] = [[job[w] EXCEPT !.pc = pc] EXCEPT !.rc = rc]
    BY <1>1, <2>1
  <2>3. /\ job'[w] \in JobRow
        /\ job'[w].a = job[w].a /\ job'[w].phase = job[w].phase
        /\ job'[w].pc = pc /\ job'[w].rc = rc
    BY <1>1, <2>2 DEF JobRow
  <2> QED BY <2>1, <2>2, <2>3 DEF MissionOf
<1> QED BY <1>2, <1>3

LEMMA Terminates ==
  ASSUME NEW w \in Workers, RunsTypeOK, Terminate(w)
  PROVE  /\ child' = [child EXCEPT ![w] = child'[w]]
         /\ child'[w] \in {"none"} \cup Exits
         /\ child[w] # "none" => child'[w] \in Exits
<1>1. child \in [Workers -> {"none"} \cup Running \cup Exits]
  BY DEF RunsTypeOK
<1>2. PICK rc \in Exits :
        child' = [child EXCEPT ![w] = IF child[w] \in Running THEN rc ELSE child[w]]
  BY DEF Terminate
<1> QED BY <1>1, <1>2 DEF Running, Exits

(* Steps that leave the ledger alone.                                      *)
LEMMA QuietMoves ==
  ASSUME NEW w \in Workers, Inv, RunsInv, lvars' = lvars, hurried' = hurried,
         job[w].pc \notin Idle,
         NEW pc \in PCs \ {"new"}, NEW rc \in {"ok", "bad", "raised", NULL},
         GoWith(w, pc, rc) \/ (GoTo(w, pc) /\ rc = job[w].rc),
         child' = [child EXCEPT ![w] = child'[w]],
         child'[w] \in {"none"} \cup Running \cup Exits,
         pc \notin {"register", "wait", "killed"} => child'[w] # "alive",
         pc \in {"register", "wait"} => child'[w] # "none",
         pc = "advance" => rc \in Exits /\ job[w].phase = "train",
         MayBeRecorded(w) =>
           /\ \/ pc \in {"wait", "clear", "killed"}
              \/ pc = "record" /\ rc = "raised"
           /\ child'[w] = "alive" => child[w] = "alive"
  PROVE  WorkerMove(w) /\ [LNext]_lvars
<1>1. RunsTypeOK /\ job[w].pc # "new" /\ job[w].a \in Attempts
  BY DEF RunsInv, RunsTypeOK, Idle
<1>2. /\ job' = [job EXCEPT ![w] = job'[w]]
      /\ job'[w] \in JobRow
      /\ job'[w].a = job[w].a /\ job'[w].phase = job[w].phase
      /\ job'[w].pc = pc /\ job'[w].rc = rc
  BY <1>1, Goes
<1>3. missions' = missions /\ attempts' = attempts
  BY DEF lvars
<1>4. attempts[job[w].a].process = w => MayBeRecorded(w)
  BY <1>1 DEF RunsInv, RecordedShape
<1>5. attempts'[job[w].a].process = w =>
        /\ MayBeRecorded(w)'
        /\ child'[w] = "alive" => child[w] = "alive"
  BY <1>2, <1>3, <1>4 DEF MayBeRecorded
<1> QED
  BY <1>2, <1>3, <1>5 DEF WorkerMove

(* Steps that end the command and may move its mission.                    *)
LEMMA EndMoves ==
  ASSUME NEW w \in Workers, Inv, RunsInv, attempts' = attempts, hurried' = hurried,
         job[w].pc \notin Idle, GoTo(w, "returned"), child' = child,
         child[w] # "alive",
         missions' = missions \/ MovesMission(w),
         MayBeRecorded(w) => MayBeRecorded(w)'
  PROVE  WorkerMove(w)
<1>1. RunsTypeOK /\ job[w].pc # "new" /\ job[w].a \in Attempts
      /\ child \in [Workers -> {"none"} \cup Running \cup Exits]
      /\ job[w].rc \in {"ok", "bad", "raised", NULL}
  BY DEF RunsInv, RunsTypeOK, Idle, JobRow
<1>2. "returned" \in PCs \ {"new"}
  BY DEF PCs
<1>3. /\ job' = [job EXCEPT ![w] = job'[w]]
      /\ job'[w] \in JobRow
      /\ job'[w].a = job[w].a /\ job'[w].phase = job[w].phase
      /\ job'[w].pc = "returned"
  BY <1>1, <1>2, Goes
<1>4. attempts[job[w].a].process = w => MayBeRecorded(w)
  BY <1>1 DEF RunsInv, RecordedShape
<1>5. child' = [child EXCEPT ![w] = child'[w]]
      /\ child'[w] \in {"none"} \cup Running \cup Exits
  BY <1>1
<1> QED
  BY <1>3, <1>4, <1>5 DEF WorkerMove

LEMMA TryFailedMoves ==
  ASSUME NEW w \in Workers, Inv, RunsInv, hurried' = hurried,
         job[w].pc \notin Idle, ~MayBeRecorded(w), child[w] # "alive",
         TryTransition(MissionOf(w), "failed"), GoTo(w, "returned"), child' = child
  PROVE  WorkerMove(w) /\ [LNext]_lvars
<1>1. RunsTypeOK /\ job[w].pc # "new" /\ MissionOf(w) \in Missions
      /\ job[w].rc \in {"ok", "bad", "raised", NULL}
  BY FrameFacts DEF RunsInv, Idle, JobRow
<1>2. /\ [LNext]_lvars
      /\ attempts' = attempts
      /\ \/ missions' = missions
         \/ missions[MissionOf(w)].state \in Busy /\ SetState(MissionOf(w), "failed")
  BY <1>1, TryTransitionWrites
<1>3. "returned" \in PCs \ {"new"}
  BY DEF PCs
<1>4. job'[w].pc = "returned"
  BY <1>1, <1>3, Goes
<1>5. missions' = missions \/ MovesMission(w)
  BY <1>2, <1>4 DEF MovesMission
<1> QED
  BY <1>2, <1>5, EndMoves

LEMMA WorkerStepMoves ==
  ASSUME NEW w \in Workers, Inv, RunsInv, WorkerStep(w)
  PROVE  WorkerMove(w) /\ [LNext]_lvars
<1> DEFINE a == job[w].a
<1>1. job[w].pc \notin Idle
  BY DEF WorkerStep, SnapshotDone, SnapshotFails, Launch, Registers, NotRegistered,
         ChildReturns, Clears, Fails, ProtectedChanged, ReadsStatus, Judges, Advance,
         Exited, Idle
<1>2. /\ RunsTypeOK /\ job[w].pc # "new"
      /\ child \in [Workers -> {"none"} \cup Running \cup Exits]
      /\ attempts \in [Attempts -> AttemptRow]
      /\ job[w].rc \in {"ok", "bad", "raised", NULL}
      /\ job[w].phase \in {"train", "eval"}
      /\ a \in Attempts /\ Made(a) /\ attempts[a] \in AttemptRow
      /\ MissionOf(w) = a[1] /\ MissionOf(w) \in Missions
  BY <1>1 DEF RunsInv, RunsTypeOK, Idle, JobRow, Inv, LTypeOK, MissionOf, Attempts
<1>3. ChildShape /\ RecordedShape
  BY DEF RunsInv
<1>4. \A pc \in {"snapshot", "launch", "register", "advance"} :
        job[w].pc = pc => ~MayBeRecorded(w)
  BY DEF MayBeRecorded
<1>5. \A b \in Attempts, v \in Workers :
        attempts[b].process = v => job[v].a = b /\ MayBeRecorded(v)
  BY <1>3 DEF RecordedShape
<1> HIDE DEF a
<1>6. CASE SnapshotDone(w)
  <2>1. /\ lvars' = lvars /\ hurried' = hurried /\ child' = child
        /\ GoTo(w, "launch") /\ job[w].pc = "snapshot"
    BY <1>6 DEF SnapshotDone, lvars
  <2>2. "launch" \in PCs \ {"new"} /\ child[w] # "alive"
        /\ child' = [child EXCEPT ![w] = child'[w]] /\ child'[w] = child[w]
    BY <1>2, <1>3, <2>1 DEF PCs, ChildShape
  <2> QED BY <1>1, <1>2, <1>4, <2>1, <2>2, QuietMoves
<1>7. CASE SnapshotFails(w)
  <2>1. child[w] # "alive"
    BY <1>3, <1>7 DEF SnapshotFails, ChildShape
  <2> QED BY <1>1, <1>4, <1>7, <2>1, TryFailedMoves DEF SnapshotFails
<1>8. CASE Launch(w)
  <2>1. /\ lvars' = lvars /\ hurried' = hurried
        /\ GoTo(w, "register") /\ job[w].pc = "launch"
        /\ child' = [child EXCEPT ![w] = "alive"]
    BY <1>8 DEF Launch, lvars
  <2>2. child' = [child EXCEPT ![w] = child'[w]] /\ child'[w] = "alive"
    BY <1>2, <2>1
  <2>3. "register" \in PCs \ {"new"} /\ "alive" \in Running
    BY DEF PCs, Running
  <2> QED BY <1>1, <1>2, <1>4, <2>1, <2>2, <2>3, QuietMoves
<1>9. CASE Registers(w)
  <2>1. /\ RegisterProcess(a, job[w].phase, w) /\ CanRegister(a, job[w].phase)
        /\ GoTo(w, "wait") /\ job[w].pc = "register"
        /\ missions' = missions /\ child' = child /\ hurried' = hurried
        /\ attempts' = [attempts EXCEPT ![a] = [attempts[a] EXCEPT !.process = w]]
    BY <1>9 DEF Registers, RegisterProcess, a
  <2>2. [LNext]_lvars
    BY <1>2, <2>1 DEF LNext, AttemptStep
  <2>3. "wait" \in PCs \ {"new"}
    BY DEF PCs
  <2>4. /\ job' = [job EXCEPT ![w] = job'[w]]
        /\ job'[w] \in JobRow
        /\ job'[w].a = job[w].a /\ job'[w].phase = job[w].phase
        /\ job'[w].pc = "wait"
    BY <1>2, <2>1, <2>3, Goes
  <2>5. \A b \in Attempts :
          attempts'[b].process = IF b = a THEN w ELSE attempts[b].process
    BY <1>2, <2>1 DEF AttemptRow
  <2>6. child' = [child EXCEPT ![w] = child'[w]] /\ child'[w] = child[w]
        /\ child[w] # "none"
    BY <1>2, <1>3, <2>1 DEF ChildShape
  <2> QED
    BY <1>1, <1>2, <2>1, <2>2, <2>4, <2>5, <2>6
    DEF WorkerMove, CanRegister, MayBeRecorded, a
<1>10. CASE NotRegistered(w)
  <2>1. /\ lvars' = lvars /\ hurried' = hurried
        /\ Terminate(w) /\ job[w].pc = "register"
        /\ GoWith(w, "record", child'[w])
    BY <1>10 DEF NotRegistered, lvars
  <2>2. /\ child' = [child EXCEPT ![w] = child'[w]] /\ child'[w] \in Exits
    BY <1>2, <1>3, <2>1, Terminates DEF ChildShape
  <2>3. "record" \in PCs \ {"new"} /\ child'[w] \in {"ok", "bad", "raised", NULL}
        /\ child'[w] # "alive"
    BY <2>2 DEF PCs, Exits
  <2> QED BY <1>1, <1>4, <2>1, <2>2, <2>3, QuietMoves
<1>11. CASE ChildReturns(w)
  <2>1. /\ lvars' = lvars /\ hurried' = hurried /\ child' = child
        /\ GoWith(w, "clear", child[w]) /\ child[w] \in Exits
    BY <1>11 DEF ChildReturns, lvars
  <2>2. "clear" \in PCs \ {"new"} /\ child[w] \in {"ok", "bad", "raised", NULL}
        /\ child[w] # "alive"
        /\ child' = [child EXCEPT ![w] = child'[w]] /\ child'[w] = child[w]
    BY <1>2, <2>1 DEF PCs, Exits
  <2> QED BY <1>1, <2>1, <2>2, QuietMoves
<1>12. CASE Clears(w)
  <2>1. /\ ClearProcess(a, w) /\ GoTo(w, "record") /\ job[w].pc = "clear"
        /\ missions' = missions /\ child' = child /\ hurried' = hurried
    BY <1>12 DEF Clears, ClearProcess, a
  <2>2. [LNext]_lvars
    BY <1>2, <2>1 DEF LNext, AttemptStep
  <2>3. "record" \in PCs \ {"new"}
    BY DEF PCs
  <2>4. /\ job' = [job EXCEPT ![w] = job'[w]]
        /\ job'[w] \in JobRow
        /\ job'[w].a = job[w].a /\ job'[w].phase = job[w].phase
        /\ job'[w].pc = "record"
    BY <1>2, <2>1, <2>3, Goes
  <2>5. /\ \A b \in Attempts, v \in Workers :
             attempts'[b].process = v => attempts[b].process = v
        /\ attempts'[a].process # w
    <3>1. CASE attempts[a].process = w
      <4>1. attempts' = [attempts EXCEPT ![a] = [attempts[a] EXCEPT !.process = NULL]]
        BY <2>1, <3>1 DEF ClearProcess
      <4>2. \A b \in Attempts :
              attempts'[b].process = IF b = a THEN NULL ELSE attempts[b].process
        BY <1>2, <4>1 DEF AttemptRow
      <4> QED BY <1>2, <4>2, NullAssumption
    <3>2. CASE attempts[a].process # w
      BY <2>1, <3>2 DEF ClearProcess
    <3> QED BY <3>1, <3>2
  <2>6. child' = [child EXCEPT ![w] = child'[w]] /\ child'[w] = child[w]
        /\ child[w] # "alive"
    BY <1>2, <1>3, <2>1 DEF ChildShape
  <2> QED
    BY <1>1, <1>2, <2>1, <2>2, <2>4, <2>5, <2>6 DEF WorkerMove, a
<1>13. CASE Fails(w)
  <2>1. /\ FailActive(a) /\ GoTo(w, "returned") /\ job[w].pc = "record"
        /\ child' = child /\ hurried' = hurried
    BY <1>13 DEF Fails, a
  <2>2. /\ [LNext]_lvars
        /\ attempts' = attempts
        /\ \/ missions' = missions /\ ~(IsActive(a) /\ missions[a[1]].state \in Busy)
           \/ /\ missions[a[1]].state \in Busy /\ IsActive(a)
              /\ SetState(a[1], "failed")
    BY <1>2, <2>1, FailActiveWrites
  <2>3. "returned" \in PCs \ {"new"}
    BY DEF PCs
  <2>4. job'[w].pc = "returned" /\ job'[w].a = a /\ MissionOf(w)' = MissionOf(w)
    BY <1>2, <2>1, <2>3, Goes DEF a
  <2>5. missions' = missions \/ MovesMission(w)
    BY <1>2, <2>2, <2>4 DEF MovesMission
  <2>6. child[w] # "alive"
    BY <1>3, <2>1 DEF ChildShape
  <2>7. MayBeRecorded(w)'
    <3>1. ~(missions'[a[1]].active = a /\ missions'[a[1]].state \in Busy)
      <4>1. CASE missions' = missions /\ ~(IsActive(a) /\ missions[a[1]].state \in Busy)
        BY <4>1 DEF IsActive
      <4>2. CASE SetState(a[1], "failed")
        BY <1>2, <4>2 DEF SetState, Inv, LTypeOK, MissionRow, Busy
      <4> QED BY <2>2, <4>1, <4>2
    <3> QED BY <1>2, <2>4, <3>1 DEF MayBeRecorded, IsActive
  <2> QED BY <1>1, <2>1, <2>2, <2>5, <2>6, <2>7, EndMoves
<1>14. CASE ProtectedChanged(w)
  <2>1. /\ TryTransition(MissionOf(w), "failed") /\ GoTo(w, "returned")
        /\ job[w].pc = "record" /\ job[w].rc \in {"ok", "bad"}
        /\ child' = child /\ hurried' = hurried
    BY <1>14 DEF ProtectedChanged, Exited
  <2>2. child[w] # "alive" /\ ~MayBeRecorded(w)
    BY <1>3, <2>1 DEF ChildShape, MayBeRecorded
  <2> QED BY <1>1, <2>1, <2>2, TryFailedMoves
<1>15. CASE ReadsStatus(w)
  <2>1. /\ lvars' = lvars /\ hurried' = hurried /\ child' = child
        /\ job[w].pc = "record" /\ job[w].rc \in {"ok", "bad"} /\ job[w].phase = "train"
    BY <1>15 DEF ReadsStatus, Exited, lvars
  <2>2. PICK pc \in {"returned", "advance"} : GoTo(w, pc)
    BY <1>15 DEF ReadsStatus
  <2>3. pc \in PCs \ {"new"}
    BY DEF PCs
  <2>4. child[w] # "alive" /\ ~MayBeRecorded(w)
    BY <1>3, <2>1 DEF ChildShape, MayBeRecorded
  <2>5. child' = [child EXCEPT ![w] = child'[w]] /\ child'[w] = child[w]
        /\ child[w] \in {"none"} \cup Running \cup Exits
    BY <1>2, <2>1
  <2>6. job[w].rc \in Exits
    BY <2>1 DEF Exits
  <2> QED BY <1>1, <1>2, <2>1, <2>2, <2>3, <2>4, <2>5, <2>6, QuietMoves
<1>16. CASE Judges(w)
  <2>1. /\ job[w].pc = "record" /\ job[w].rc \in {"ok", "bad"} /\ job[w].phase = "eval"
        /\ child' = child /\ hurried' = hurried
    BY <1>16 DEF Judges, Exited
  <2>2. PICK verdict \in Verdicts :
          /\ AddProvenance(a, verdict)
          /\ GoWith(w, "advance", IF verdict = "passed" THEN "ok" ELSE "bad")
    BY <1>16 DEF Judges, Verdicts, a
  <2>3. /\ missions' = missions
        /\ attempts' = [attempts EXCEPT ![a] = [attempts[a] EXCEPT !.provenance = verdict]]
    BY <2>2 DEF AddProvenance
  <2>4. attempts[a].evaluated
    BY <1>2, <2>1 DEF RunsTypeOK, a
  <2>5. [LNext]_lvars
    BY <1>2, <2>2, <2>4 DEF LNext, AttemptStep
  <2>6. \A b \in Attempts :
          /\ attempts'[b].process = attempts[b].process
          /\ attempts'[b].provenance = IF b = a THEN verdict ELSE attempts[b].provenance
    BY <1>2, <2>3 DEF AttemptRow
  <2>7. PICK rc \in {"ok", "bad"} :
          GoWith(w, "advance", rc) /\ (rc = "ok" => verdict = "passed")
    BY <2>2
  <2>8. "advance" \in PCs \ {"new"} /\ rc \in Exits
    BY DEF PCs, Exits
  <2>9. /\ job' = [job EXCEPT ![w] = job'[w]]
        /\ job'[w] \in JobRow
        /\ job'[w].a = job[w].a /\ job'[w].phase = job[w].phase
        /\ job'[w].pc = "advance" /\ job'[w].rc = rc
    BY <1>2, <2>7, <2>8, Goes
  <2>10. child[w] # "alive" /\ ~MayBeRecorded(w)
    BY <1>3, <2>1 DEF ChildShape, MayBeRecorded
  <2>11. child' = [child EXCEPT ![w] = child'[w]] /\ child'[w] = child[w]
        /\ child[w] \in {"none"} \cup Running \cup Exits
    BY <1>2, <2>1
  <2>12. attempts'[a].process # w
    BY <1>2, <1>5, <2>6, <2>10
  <2> QED
    BY <1>1, <1>2, <2>1, <2>3, <2>5, <2>6, <2>7, <2>8, <2>9, <2>10, <2>11, <2>12
    DEF WorkerMove, a
<1>17. CASE Advance(w)
  <2>1. /\ job[w].pc = "advance" /\ GoTo(w, "returned")
        /\ child' = child /\ hurried' = hurried
    BY <1>17 DEF Advance
  <2>2. child[w] # "alive" /\ ~MayBeRecorded(w)
    BY <1>3, <2>1 DEF ChildShape, MayBeRecorded
  <2>3. "returned" \in PCs \ {"new"}
    BY DEF PCs
  <2>4. job'[w].pc = "returned"
    BY <1>2, <2>1, <2>3, Goes
  <2>5. /\ Target(w) \in {"failed", "evaluating", "passed"}
        /\ Target(w) = "passed" => attempts[a].provenance = "passed"
    <3>1. /\ job[w].rc \in Exits
          /\ job[w].phase = "eval" /\ job[w].rc = "ok" =>
               attempts[a].provenance = "passed"
      BY <2>1 DEF RunsInv, JudgedFirst, a
    <3> QED BY <1>2, <3>1 DEF Target, Exits
  <2>6. CASE CanTransition(MissionOf(w), Target(w))
    <3>1. Transition(MissionOf(w), Target(w))
      BY <1>17, <2>6 DEF Advance
    <3>2. missions[MissionOf(w)].state \in States
      BY <1>2 DEF Inv, LTypeOK, MissionRow
    <3>3. missions[MissionOf(w)].state \in Busy
      BY <2>5, <2>6, <3>2 DEF CanTransition, Legal, Busy, States
    <3>4. MovesMission(w) /\ attempts' = attempts
      BY <2>4, <2>5, <3>1, <3>3 DEF MovesMission, Transition, a
    <3>5. [LNext]_lvars
      BY <1>2, <2>5, <3>1 DEF LNext, MissionStep, Targets
    <3> QED BY <1>1, <2>1, <2>2, <3>4, <3>5, EndMoves
  <2>7. CASE ~CanTransition(MissionOf(w), Target(w)) /\ job[w].phase = "eval"
    <3>1. FailActive(a)
      BY <1>17, <2>7 DEF Advance, a
    <3>2. /\ [LNext]_lvars /\ attempts' = attempts
          /\ missions' = missions \/ MovesMission(w)
      BY <1>2, <2>4, <3>1, FailActiveWrites DEF MovesMission
    <3> QED BY <1>1, <2>1, <2>2, <3>2, EndMoves
  <2>8. CASE ~CanTransition(MissionOf(w), Target(w)) /\ job[w].phase # "eval"
    <3>1. UNCHANGED lvars
      BY <1>17, <2>8 DEF Advance
    <3>2. missions' = missions /\ attempts' = attempts /\ [LNext]_lvars
      BY <3>1 DEF lvars
    <3> QED BY <1>1, <2>1, <2>2, <3>2, EndMoves
  <2> QED BY <2>6, <2>7, <2>8
<1> QED
  BY <1>6, <1>7, <1>8, <1>9, <1>10, <1>11, <1>12, <1>13, <1>14, <1>15, <1>16, <1>17
  DEF WorkerStep

LEMMA RaisesMoves ==
  ASSUME NEW w \in Workers, Inv, RunsInv, Raises(w)
  PROVE  WorkerMove(w) /\ [LNext]_lvars
<1>1. /\ lvars' = lvars /\ hurried' = hurried /\ Terminate(w)
      /\ job[w].pc \notin Idle
      /\ job[w].pc \in {"launch", "register", "wait", "clear", "record", "advance"}
  BY DEF Raises, lvars, Idle
<1>2. PICK pc \in {"clear", "record"} : GoWith(w, pc, "raised")
  BY DEF Raises
<1>3. /\ pc \in PCs \ {"new"}
      /\ pc \notin {"advance", "register", "wait"}
      /\ "raised" \in {"ok", "bad", "raised", NULL}
      /\ pc \in {"wait", "clear", "killed"} \/ pc = "record"
  BY DEF PCs
<1>4. /\ child' = [child EXCEPT ![w] = child'[w]]
      /\ child'[w] \in {"none"} \cup Exits /\ child'[w] # "alive"
  BY <1>1, Terminates DEF RunsInv, Exits
<1> QED
  BY <1>1, <1>2, <1>3, <1>4, QuietMoves

LEMMA WorkerKilledMoves ==
  ASSUME NEW w \in Workers, Inv, RunsInv, WorkerKilled(w)
  PROVE  WorkerMove(w) /\ [LNext]_lvars
<1>1. /\ lvars' = lvars /\ hurried' = hurried /\ child' = child
      /\ job[w].pc \notin Idle /\ GoTo(w, "killed")
  BY DEF WorkerKilled, lvars
<1>2. "killed" \in PCs \ {"new"}
  BY DEF PCs
<1>3. /\ child' = [child EXCEPT ![w] = child'[w]] /\ child'[w] = child[w]
      /\ child[w] \in {"none"} \cup Running \cup Exits
      /\ job[w].rc \in {"ok", "bad", "raised", NULL}
  BY <1>1 DEF RunsInv, RunsTypeOK, JobRow
<1> QED
  BY <1>1, <1>2, <1>3, QuietMoves

(* The short commands, the processes, and a cancellation that is killed.   *)
LEMMA PreservedChild ==
  ASSUME RunsTypeOK, NEW w \in Workers,
         child' = Told(w) \/ (\E rc \in Exits : child' = [child EXCEPT ![w] = rc])
  PROVE  /\ child' \in [Workers -> {"none"} \cup Running \cup Exits]
         /\ \A v \in Workers : /\ child'[v] = "alive" => child[v] = "alive"
                               /\ child[v] # "none" => child'[v] # "none"
         /\ child'[w] # "alive"
<1>1. child \in [Workers -> {"none"} \cup Running \cup Exits]
  BY DEF RunsTypeOK
<1> QED BY <1>1 DEF Told, Running, Exits

(* A mission that is not busy has no recorded process at work.             *)
LEMMA NoProcessAtWork ==
  ASSUME RunsInv, NEW m \in Missions, missions[m].state \notin Busy, m \notin hurried,
         NEW w \in Workers, child[w] = "alive", job[w].a # NULL, MissionOf(w) = m,
         attempts[job[w].a].process = w
  PROVE  FALSE
<1>1. missions[m].state = PhaseState[job[w].phase]
  BY DEF RunsInv, ProcessHasSlot
<1>2. job[w].phase \in {"train", "eval"}
  BY DEF RunsInv, RunsTypeOK, JobRow
<1> QED BY <1>1, <1>2, PhaseFacts

LEMMA FreshWrites ==
  ASSUME NEW m \in Missions, Inv, RunsInv, missions[m].state \in Fresh,
         NEW st \in Fresh, SetState(m, st), child' = child, hurried' = hurried
  PROVE  OperatorWrites(m)
<1>1. missions \in [Missions -> MissionRow] /\ RunsTypeOK
  BY DEF Inv, LTypeOK, RunsInv
<1>2. /\ missions' = [missions EXCEPT ![m] = missions'[m]]
      /\ missions'[m].state = st /\ missions'[m].active = missions[m].active
  BY <1>1 DEF SetState, MissionRow
<1>3. \A w \in Workers : job[w].pc # "new" => job[w].a # missions[m].active
  BY DEF RunsInv, FreshUnused
<1>4. m \notin hurried => Live(m) = {}
  BY DEF RunsInv, OnTime, Live
<1>5. st \notin Busy \cup {"passed"} /\ missions[m].state \notin Busy
  BY DEF Fresh, Busy
<1> QED
  BY <1>2, <1>3, <1>4, <1>5, NoProcessAtWork DEF OperatorWrites

LEMMA CancelWrites ==
  ASSUME NEW m \in Missions, Inv, RunsInv, CancelMission(m)
  PROVE  OperatorMove /\ OperatorWrites(m)
<1>1. /\ missions \in [Missions -> MissionRow] /\ RunsTypeOK
      /\ child \in [Workers -> {"none"} \cup Running \cup Exits]
      /\ SetState(m, "cancelled") /\ child' = Killed(m)
      /\ job' = job /\ attempts' = attempts /\ hurried' = hurried
  BY DEF Inv, LTypeOK, RunsInv, RunsTypeOK, CancelMission, Cancel
<1>2. /\ missions' = [missions EXCEPT ![m] = missions'[m]]
      /\ missions'[m].state = "cancelled" /\ missions'[m].active = missions[m].active
  BY <1>1 DEF SetState, MissionRow
<1>3. ProcessToKill(m) # NULL => ProcessToKill(m) \in Workers
  <2>1. missions[m].active # NULL => attempts[missions[m].active].process \in Workers \cup {NULL}
    BY <1>1 DEF Inv, LTypeOK, MissionRow, AttemptRow
  <2> QED BY <2>1 DEF ProcessToKill
<1>4. /\ child' \in [Workers -> {"none"} \cup Running \cup Exits]
      /\ \A v \in Workers : /\ child'[v] = "alive" => child[v] = "alive"
                            /\ child[v] # "none" => child'[v] # "none"
      /\ ProcessToKill(m) # NULL => child'[ProcessToKill(m)] # "alive"
  BY <1>1, <1>3, PreservedChild DEF Killed
<1>5. ASSUME NEW w \in Workers, child'[w] = "alive", job[w].a # NULL, MissionOf(w) = m,
             attempts[job[w].a].process = w, m \notin hurried
      PROVE  FALSE
  <2>1. child[w] = "alive"
    BY <1>4, <1>5
  <2>2. missions[m].state \in Busy
    BY <1>5, <2>1, NoProcessAtWork
  <2>3. IsActive(job[w].a) /\ job[w].a[1] = m
    BY <1>5, <2>1 DEF RunsInv, ProcessHasSlot, MissionOf
  <2>4. ProcessToKill(m) = w
    BY <1>5, <2>2, <2>3 DEF ProcessToKill, IsActive
  <2> QED BY <1>4, <1>5, <2>4, NullAssumption
<1>6. OperatorWrites(m)
  BY <1>1, <1>2, <1>5 DEF OperatorWrites, Busy, Fresh
<1> QED
  BY <1>1, <1>4, <1>6 DEF OperatorMove, RunsTypeOK

LEMMA ResumeMissionWrites ==
  ASSUME NEW m \in Missions, Inv, RunsInv, ResumeMission(m)
  PROVE  OperatorMove /\ OperatorWrites(m)
<1> DEFINE n == missions[m].ordinals + 1
<1>1. /\ missions \in [Missions -> MissionRow] /\ RunsTypeOK
      /\ missions[m].state \in {"failed", "rejected", "cancelled"}
      /\ missions' = [missions EXCEPT ![m] =
           [state |-> "ready", active |-> <<m, n>>, ordinals |-> n]]
      /\ hurried' = IF Live(m) = {} THEN hurried ELSE hurried \cup {m}
      /\ job' = job /\ attempts' = attempts /\ child' = child
  BY DEF Inv, LTypeOK, RunsInv, ResumeMission, Resume
<1>2. /\ missions' = [missions EXCEPT ![m] = missions'[m]]
      /\ missions'[m].state = "ready" /\ missions'[m].active = <<m, n>>
      /\ missions[m].ordinals \in Nat
  BY <1>1 DEF MissionRow
<1>3. ASSUME NEW w \in Workers, job[w].pc # "new", job[w].a = <<m, n>>
      PROVE  FALSE
  BY <1>1, <1>2, <1>3 DEF RunsTypeOK, Made
<1>4. /\ hurried \subseteq hurried' /\ hurried' \subseteq Missions
      /\ m \notin hurried' => m \notin hurried /\ Live(m) = {}
  BY <1>1 DEF RunsTypeOK
<1>5. OperatorWrites(m)
  BY <1>1, <1>2, <1>3, <1>4, NoProcessAtWork DEF OperatorWrites, Fresh, Busy
<1> QED
  BY <1>1, <1>4, <1>5 DEF OperatorMove, RunsTypeOK

LEMMA ChildOnlyMoves ==
  ASSUME RunsInv, lvars' = lvars, job' = job, hurried' = hurried,
         child' = child
           \/ \E w \in Workers :
                child' = Told(w) \/ \E rc \in Exits : child' = [child EXCEPT ![w] = rc]
  PROVE  OperatorMove /\ [LNext]_lvars
<1>1. RunsTypeOK /\ missions' = missions /\ attempts' = attempts
  BY DEF RunsInv, lvars
<1>2. /\ child' \in [Workers -> {"none"} \cup Running \cup Exits]
      /\ \A v \in Workers : /\ child'[v] = "alive" => child[v] = "alive"
                            /\ child[v] # "none" => child'[v] # "none"
  <2>1. CASE child' = child
    BY <1>1, <2>1 DEF RunsTypeOK
  <2>2. CASE child' # child
    BY <1>1, <2>2, PreservedChild
  <2> QED BY <2>1, <2>2
<1> QED
  BY <1>1, <1>2 DEF OperatorMove, RunsTypeOK

-----------------------------------------------------------------------------
(* Every step of the commands is a call the ledger allows, and all of them *)
(* keep the inductive invariant.                                           *)

LEMMA ShortCommandMoves ==
  ASSUME NEW m \in Missions, Inv, RunsInv,
         \/ ProposeMission(m) \/ Preflight(m) \/ CancelMission(m) \/ ResumeMission(m)
         \/ CancelKilled(m)
  PROVE  OperatorMove /\ [LNext]_lvars
<1>1. RunsTypeOK /\ hurried \subseteq Missions
      /\ child \in [Workers -> {"none"} \cup Running \cup Exits]
  BY DEF RunsInv, RunsTypeOK
<1>2. CASE ProposeMission(m) \/ Preflight(m)
  <2>1. PICK st \in {"proposed", "preflight_blocked", "ready"} :
          /\ missions[m].state \in Fresh /\ SetState(m, st)
          /\ Propose(m) \/ (Transition(m, st) /\ st \in Targets)
    <3>1. CASE ProposeMission(m)
      BY <3>1 DEF ProposeMission, Propose, Fresh
    <3>2. CASE Preflight(m)
      <4>1. PICK st \in {"preflight_blocked", "ready"} :
              missions[m].state \in {"proposed", "preflight_blocked"} /\ Transition(m, st)
        BY <3>2 DEF Preflight
      <4> QED BY <4>1 DEF Transition, Fresh, Targets
    <3> QED BY <1>2, <3>1, <3>2
  <2>2. /\ job' = job /\ child' = child /\ hurried' = hurried /\ attempts' = attempts
    BY <1>2 DEF ProposeMission, Propose, Preflight, Transition, rvars
  <2>3. st \in Fresh
    BY DEF Fresh
  <2>4. OperatorMove
    BY <1>1, <2>1, <2>2, <2>3, FreshWrites DEF OperatorMove
  <2>5. [LNext]_lvars
    BY <2>1 DEF LNext, MissionStep
  <2> QED BY <2>4, <2>5
<1>3. CASE CancelMission(m)
  BY <1>3, CancelWrites DEF CancelMission, LNext, MissionStep
<1>4. CASE ResumeMission(m)
  BY <1>4, ResumeMissionWrites DEF ResumeMission, LNext, MissionStep
<1>5. CASE CancelKilled(m)
  <2>1. ProcessToKill(m) \in Workers
    BY <1>5 DEF CancelKilled, ProcessToKill, Inv, LTypeOK, MissionRow, AttemptRow
  <2>2. child' = Told(ProcessToKill(m))
    BY <1>5 DEF CancelKilled, Killed
  <2> QED
    BY <1>5, <2>1, <2>2, ChildOnlyMoves DEF CancelKilled, lvars
<1> QED
  BY <1>2, <1>3, <1>4, <1>5

LEMMA RunsInit == Init => Inv /\ RunsInv
<1> SUFFICES ASSUME Init PROVE RunsInv
  BY InitInv DEF Init
<1>1. /\ \A w \in Workers : job[w] =
             [pc |-> "new", phase |-> "train", a |-> NULL, rc |-> NULL]
      /\ \A w \in Workers : job[w].pc = "new" /\ child[w] = "none"
      /\ \A m \in Missions : missions[m].state = "absent"
      /\ \A a \in Attempts : attempts[a].process = NULL
      /\ hurried = {}
  BY DEF Init, LInit
<1>2. job \in [Workers -> JobRow]
  BY DEF Init, JobRow, PCs
<1>3. RunsTypeOK
  BY <1>1, <1>2 DEF RunsTypeOK, Init
<1>4. ProcessHasSlot /\ ChildShape
  BY <1>1 DEF ProcessHasSlot, ChildShape
<1>5. RecordedShape
  BY <1>1, NullAssumption DEF RecordedShape
<1> QED
  BY <1>1, <1>3, <1>4, <1>5
  DEF RunsInv, OneEach, FreshUnused, OnTime, JudgedFirst, PassedIfUnhurried, OwnEvidence, Idle

LEMMA RunsStep ==
  ASSUME Inv, RunsInv, [Next]_vars
  PROVE  Inv' /\ RunsInv' /\ [LNext]_lvars
<1>1. ASSUME [LNext]_lvars
      PROVE  Inv' /\ EvidenceKept
  BY <1>1, StepInv, EvidenceStaysKept
<1>2. ASSUME NEW w \in Workers, WorkerStep(w) \/ Raises(w) \/ WorkerKilled(w)
      PROVE  Inv' /\ RunsInv' /\ [LNext]_lvars
  <2>1. WorkerMove(w) /\ [LNext]_lvars
    BY <1>2, WorkerStepMoves, RaisesMoves, WorkerKilledMoves
  <2> QED BY <1>1, <2>1, WorkerMoveKeeps
<1>3. ASSUME NEW m \in Missions,
             \/ ProposeMission(m) \/ Preflight(m) \/ CancelMission(m)
             \/ ResumeMission(m) \/ CancelKilled(m)
      PROVE  Inv' /\ RunsInv' /\ [LNext]_lvars
  <2>1. OperatorMove /\ [LNext]_lvars
    BY <1>3, ShortCommandMoves
  <2> QED BY <1>1, <2>1, OperatorMoveKeeps
<1>4. ASSUME NEW w \in Workers, ChildExits(w)
      PROVE  Inv' /\ RunsInv' /\ [LNext]_lvars
  <2>1. OperatorMove /\ [LNext]_lvars
    BY <1>4, ChildOnlyMoves DEF ChildExits, lvars
  <2> QED BY <1>1, <2>1, OperatorMoveKeeps
<1>5. ASSUME NEW m \in Missions, NEW w \in Workers, StartRun(w, m)
      PROVE  Inv' /\ RunsInv' /\ [LNext]_lvars
  <2>1. [LNext]_lvars
    BY <1>5 DEF StartRun, LNext, MissionStep
  <2> QED BY <1>1, <1>5, <2>1, StartRunKeeps
<1>6. ASSUME NEW m \in Missions, NEW w \in Workers, NEW n \in 1..MaxAttempts,
             StartEvaluation(w, <<m, n>>)
      PROVE  Inv' /\ RunsInv' /\ [LNext]_lvars
  <2> DEFINE a == <<m, n>>
  <2>1. a \in Attempts
    BY DEF Attempts
  <2> HIDE DEF a
  <2>2. StartEvaluation(w, a)
    BY <1>6 DEF a
  <2>3. Made(a)
    <3>1. a # NULL /\ missions[a[1]].active = a /\ a[1] \in Missions
      BY <2>1, <2>2, NullAssumption
      DEF StartEvaluation, ClaimEvaluation, CanClaimEvaluation, IsActive, Attempts
    <3> QED BY <3>1 DEF Inv, LTypeOK
  <2>4. [LNext]_lvars
    BY <2>1, <2>2, <2>3 DEF StartEvaluation, LNext, AttemptStep
  <2> QED BY <1>1, <2>1, <2>2, <2>4, StartEvaluationKeeps
<1>7. CASE UNCHANGED vars
  <2>1. OperatorMove /\ [LNext]_lvars
    BY <1>7, ChildOnlyMoves DEF vars, lvars
  <2> QED BY <1>1, <2>1, OperatorMoveKeeps
<1> QED
  BY <1>2, <1>3, <1>4, <1>5, <1>6, <1>7 DEF Next, OperatorStep, Finished

LEMMA RunsInvariant == Spec => [](Inv /\ RunsInv)
<1>1. Inv /\ RunsInv /\ [Next]_vars => (Inv /\ RunsInv)'
  BY RunsStep
<1> QED
  BY <1>1, RunsInit, PTL DEF Spec

(* The commands, interleaved in any way, killed and raising anywhere, call *)
(* the ledger only as MissionLedger says: what is proved of LSpec is true  *)
(* of them.                                                                *)
THEOREM RunsImplementLedger == Spec => ImplementsLedger
<1>1. Inv /\ RunsInv /\ [Next]_vars => [LNext]_lvars
  BY RunsStep
<1>2. Init => LInit
  BY DEF Init
<1> QED
  BY <1>1, <1>2, RunsInvariant, PTL DEF Spec, LSpec, ImplementsLedger

(* The unique claim of an evaluation makes one command of many operators   *)
(* its evaluator, whatever was cancelled and resumed.                      *)
THEOREM EvaluationsAreUnique == Spec => []EvaluatedOnce
<1>1. RunsInv => EvaluatedOnce
  BY DEF RunsInv, OneEach, EvaluatedOnce
<1> QED
  BY <1>1, RunsInvariant, PTL

(* A mission passes on the evidence of its active attempt, if it is        *)
(* resumed only after its commands have returned or were killed.           *)
THEOREM PassesOnOwnEvidence == Spec => []PassedIfUnhurried
  BY RunsInvariant, PTL DEF RunsInv

(* A recorded process that was not told to end has the slot of its phase.  *)
THEOREM ProcessesHaveSlots == Spec => []ProcessHasSlot
  BY RunsInvariant, PTL DEF RunsInv

(* cancel() finds the process it must end, unless the command that         *)
(* launched it is about to clear it, failed to, or was killed.             *)
THEOREM CancelIsRefusedLate == Spec => []RefusedOnlyAfterKill
<1>1. Inv /\ RunsInv => RefusedOnlyAfterKill
  <2> SUFFICES ASSUME Inv, RunsInv, NEW m \in Missions, ~Killable(m)
               PROVE  LET w == ProcessToKill(m) IN
                      \/ job[w].pc \in {"clear", "killed"}
                      \/ job[w].pc = "record" /\ job[w].rc = "raised"
    BY DEF RefusedOnlyAfterKill
  <2> DEFINE w == ProcessToKill(m)
             a == missions[m].active
  <2>1. /\ w # NULL /\ ~Exists(w)
        /\ missions[m].state \in Busy /\ a # NULL /\ attempts[a].process = w
    BY DEF Killable, ProcessToKill
  <2>2. a \in Attempts /\ a[1] = m /\ w \in Workers
    BY <2>1 DEF Inv, LTypeOK, MissionRow, AttemptRow
  <2> HIDE DEF w, a
  <2>3. job[w].a = a /\ MayBeRecorded(w)
    BY <2>1, <2>2 DEF RunsInv, RecordedShape
  <2>4. job[w].pc # "wait"
    <3>1. job[w].pc = "wait" => child[w] \in Running \cup Exits
      BY <2>2 DEF RunsInv, ChildShape, RunsTypeOK
    <3> QED BY <2>1, <3>1 DEF Exists
  <2>5. job[w].pc # "returned"
    BY <2>1, <2>2, <2>3 DEF MayBeRecorded, IsActive, MissionOf, a
  <2> QED BY <2>3, <2>4, <2>5 DEF MayBeRecorded, w
<1> QED
  BY <1>1, RunsInvariant, PTL
=============================================================================
