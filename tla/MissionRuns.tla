----------------------------- MODULE MissionRuns -----------------------------
(***************************************************************************)
(* The commands `factory mission propose, preflight, run, evaluate, cancel *)
(* and resume` over one ledger (mission.py, mission_process.py).           *)
(*                                                                         *)
(* `run` and `evaluate` are long: each launches one child process and      *)
(* comes back to the ledger several times, while other commands of the     *)
(* operator run.  A worker is one such command, from its claim to its      *)
(* return; it may be interrupted by an exception at any call, or killed    *)
(* (its child, in a session of its own, then lives on).                    *)
(***************************************************************************)
EXTENDS MissionLedger

CONSTANT MaxCrashes    \* bound of the model: killed commands

ASSUME CrashesAssumption == MaxCrashes \in Nat

VARIABLES
  job,           \* the frame of each worker: where it is, for which attempt
  child,         \* the process it launched: running, told to end by a
                 \* signal, or its exit status
  hurried,       \* missions that were resumed before every earlier command
                 \* on them had returned or was killed (history)
  crashes

rvars == <<job, child, hurried, crashes>>
vars  == <<missions, attempts, journal, job, child, hurried, crashes>>

PCs == {"new", "snapshot", "launch", "register", "wait", "clear", "record",
        "advance", "returned", "killed"}

JobRow == [ pc : PCs, phase : {"train", "eval"}, a : Attempts \cup {NULL},
            rc : {"ok", "bad", "raised", NULL} ]

Idle == {"new", "returned", "killed"}
MissionOf(w)  == job[w].a[1]
Live(m)       == {w \in Workers : job[w].pc \notin Idle /\ MissionOf(w) = m}

GoTo(w, pc)      == job' = [job EXCEPT ![w].pc = pc]
GoWith(w, pc, rc) == job' = [job EXCEPT ![w].pc = pc, ![w].rc = rc]

Running == {"alive", "told"}
Exits   == {"ok", "bad"}

\* /proc/<pid>/stat is there until the command that launched it has waited.
Exists(w) == child[w] \in Running \/ (child[w] \in Exits /\ job[w].pc = "wait")

\* killpg(SIGTERM), which does not wait for the end.
Told(w) == [child EXCEPT ![w] = IF @ = "alive" THEN "told" ELSE @]

\* _terminate_launched: signals, waits, and kills what does not end; a
\* process that has ended keeps its exit status.
Terminate(w) ==
  \E rc \in Exits : child' = [child EXCEPT ![w] = IF @ \in Running THEN rc ELSE @]

\* transition() called outside any handler: it raises, or writes.
TryTransition(m, target) ==
  IF CanTransition(m, target) THEN Transition(m, target) ELSE UNCHANGED lvars

-----------------------------------------------------------------------------
(* run_attempt. *)

StartRun(w, m) ==
  /\ job[w].pc = "new"
  /\ Claim(m)
  /\ job' = [job EXCEPT ![w] =
       [pc |-> "snapshot", phase |-> "train", a |-> AttemptToRun(m), rc |-> NULL]]
  /\ UNCHANGED <<child, hurried, crashes>>

SnapshotDone(w) ==
  /\ job[w].pc = "snapshot"
  /\ GoTo(w, "launch")
  /\ UNCHANGED <<lvars, child, hurried, crashes>>

\* Source drift, a dataset hash that differs: FAILED, whoever holds the mission.
SnapshotFails(w) ==
  /\ job[w].pc = "snapshot"
  /\ TryTransition(MissionOf(w), "failed")
  /\ GoTo(w, "returned")
  /\ UNCHANGED <<child, hurried, crashes>>

-----------------------------------------------------------------------------
(* evaluate_attempt, up to the launch. *)

StartEvaluation(w, a) ==
  /\ job[w].pc = "new"
  /\ ClaimEvaluation(a)
  /\ job' = [job EXCEPT ![w] =
       [pc |-> "launch", phase |-> "eval", a |-> a, rc |-> NULL]]
  /\ UNCHANGED <<child, hurried, crashes>>

-----------------------------------------------------------------------------
(* run_capture, in both. *)

Launch(w) ==
  /\ job[w].pc = "launch"
  /\ GoTo(w, "register")
  /\ child' = [child EXCEPT ![w] = "alive"]
  /\ UNCHANGED <<lvars, hurried, crashes>>

Registers(w) ==
  /\ job[w].pc = "register"
  /\ RegisterProcess(job[w].a, job[w].phase, w)
  /\ GoTo(w, "wait")
  /\ UNCHANGED <<child, hurried, crashes>>

\* Mutant: a launch that was refused is left running.
NotRegistered_Spared(w) ==
  /\ job[w].pc = "register"
  /\ ~CanRegister(job[w].a, job[w].phase)
  /\ GoWith(w, "record", "bad")
  /\ UNCHANGED <<lvars, child, hurried, crashes>>

NotRegistered(w) ==
  /\ job[w].pc = "register"
  /\ ~CanRegister(job[w].a, job[w].phase)
  /\ Terminate(w)
  /\ GoWith(w, "record", child'[w])
  /\ UNCHANGED <<lvars, hurried, crashes>>

ChildReturns(w) ==
  /\ job[w].pc = "wait"
  /\ child[w] \in Exits
  /\ GoWith(w, "clear", child[w])
  /\ UNCHANGED <<lvars, child, hurried, crashes>>

\* Mutant: the recorded process is not cleared.
Clears_Nothing(w) ==
  /\ job[w].pc = "clear"
  /\ GoTo(w, "record")
  /\ UNCHANGED <<lvars, child, hurried, crashes>>

Clears(w) ==
  /\ job[w].pc = "clear"
  /\ ClearProcess(job[w].a, w)
  /\ GoTo(w, "record")
  /\ UNCHANGED <<child, hurried, crashes>>

\* Any call in the try blocks raises (a locked database, a full disk,
\* Ctrl-C): the child is terminated, the recorded process is cleared unless
\* that call raised.  All of an evaluation is in one try block.
Raises(w) ==
  /\ \/ job[w].pc \in {"launch", "register", "wait", "clear", "record"}
     \/ job[w].pc = "advance" /\ job[w].phase = "eval"
  /\ job[w].rc # "raised"
  /\ GoWith(w, IF job[w].pc = "wait" THEN "clear" ELSE "record", "raised")
  /\ Terminate(w)
  /\ UNCHANGED <<lvars, hurried, crashes>>

-----------------------------------------------------------------------------
(* What run_attempt and evaluate_attempt make of the exit status. *)

Fails(w) ==
  /\ job[w].pc = "record" /\ job[w].rc = "raised"
  /\ FailActive(job[w].a)
  /\ GoTo(w, "returned")
  /\ UNCHANGED <<child, hurried, crashes>>

Exited(w, phase) ==
  job[w].pc = "record" /\ job[w].rc \in {"ok", "bad"} /\ job[w].phase = phase

ProtectedChanged(w) ==
  /\ Exited(w, "train")
  /\ TryTransition(MissionOf(w), "failed")
  /\ GoTo(w, "returned")
  /\ UNCHANGED <<child, hurried, crashes>>

\* The state is read here, and acted on in Advance.
ReadsStatus(w) ==
  /\ Exited(w, "train")
  /\ GoTo(w, IF missions[MissionOf(w)].state = "cancelled" THEN "returned"
                                                          ELSE "advance")
  /\ UNCHANGED <<lvars, child, hurried, crashes>>

\* Mutant: the report alone decides, not the evaluator's exit status.
Judges_Report(w) ==
  /\ Exited(w, "eval")
  /\ \E verdict \in Verdicts :
       /\ AddProvenance(job[w].a, IF job[w].rc = "bad" THEN "failed" ELSE verdict)
       /\ GoWith(w, "advance", IF verdict = "passed" THEN "ok" ELSE "bad")
  /\ UNCHANGED <<child, hurried, crashes>>

\* The report, the metric gates and the outputs decide, if the evaluator
\* exited with 0.
Judges(w) ==
  /\ Exited(w, "eval")
  /\ \E verdict \in IF job[w].rc = "ok" THEN Verdicts ELSE {"failed"} :
       /\ AddProvenance(job[w].a, verdict)
       /\ GoWith(w, "advance", IF verdict = "passed" THEN "ok" ELSE "bad")
  /\ UNCHANGED <<child, hurried, crashes>>

Target(w) == IF job[w].rc = "bad" THEN "failed"
             ELSE IF job[w].phase = "train" THEN "evaluating" ELSE "passed"

\* An illegal transition raises; evaluate_attempt has a handler for it.
Advance(w) ==
  /\ job[w].pc = "advance"
  /\ IF CanTransition(MissionOf(w), Target(w))
     THEN Transition(MissionOf(w), Target(w))
     ELSE IF job[w].phase = "eval" THEN FailActive(job[w].a) ELSE UNCHANGED lvars
  /\ GoTo(w, "returned")
  /\ UNCHANGED <<child, hurried, crashes>>

-----------------------------------------------------------------------------
(* The short commands. *)

ProposeMission(m) == Propose(m) /\ UNCHANGED rvars

\* Mutant: the state is not looked at.
Preflight_AnyState(m) ==
  /\ missions[m].state # "absent" /\ SetState(m, "ready")
  /\ UNCHANGED <<attempts, journal, job, child, hurried, crashes>>

\* The blockers are computed, then the state is read, then transition()
\* checks it again: the outcome is that of one step with any blockers.
Preflight(m) ==
  /\ \/ missions[m].state = "proposed" /\ Transition(m, "preflight_blocked")
     \/ missions[m].state \in {"proposed", "preflight_blocked"}
        /\ Transition(m, "ready")
  /\ UNCHANGED rvars

Killable(m) == ProcessToKill(m) # NULL => Exists(ProcessToKill(m))
Killed(m)   == IF ProcessToKill(m) = NULL THEN child ELSE Told(ProcessToKill(m))

CancelMission(m) ==
  /\ Killable(m)
  /\ Cancel(m)
  /\ child' = Killed(m)
  /\ UNCHANGED <<job, hurried, crashes>>

ResumeMission(m) ==
  /\ Resume(m)
  /\ hurried' = IF Live(m) = {} THEN hurried ELSE hurried \cup {m}
  /\ UNCHANGED <<job, child, crashes>>

-----------------------------------------------------------------------------
(* The environment. *)

ChildExits(w) ==
  /\ child[w] \in Running
  /\ \E rc \in Exits : child' = [child EXCEPT ![w] = rc]
  /\ UNCHANGED <<lvars, job, hurried, crashes>>

\* Of those, the end of a process that was told to.
ToldEnds(w) == child[w] = "told" /\ ChildExits(w)

\* kill -9, a reboot; or a ledger call raises where no try block is around
\* it: in a handler, or after the training of run_attempt.

WorkerKilled(w) ==
  /\ crashes < MaxCrashes
  /\ job[w].pc \notin Idle
  /\ GoTo(w, "killed")
  /\ crashes' = crashes + 1
  /\ UNCHANGED <<lvars, child, hurried>>

\* cancel() is killed between the process and the commit.
CancelKilled(m) ==
  /\ crashes < MaxCrashes
  /\ "cancelled" \in Legal[missions[m].state]
  /\ ProcessToKill(m) # NULL /\ Killable(m)
  /\ child' = Killed(m)
  /\ crashes' = crashes + 1
  /\ UNCHANGED <<lvars, job, hurried>>

-----------------------------------------------------------------------------
Init ==
  /\ LInit
  /\ job = [w \in Workers |-> [pc |-> "new", phase |-> "train", a |-> NULL, rc |-> NULL]]
  /\ child = [w \in Workers |-> "none"]
  /\ hurried = {}
  /\ crashes = 0

WorkerStep(w) ==
  \/ SnapshotDone(w) \/ SnapshotFails(w)
  \/ Launch(w) \/ Registers(w) \/ NotRegistered(w) \/ ChildReturns(w) \/ Clears(w)
  \/ Fails(w) \/ ProtectedChanged(w) \/ ReadsStatus(w) \/ Judges(w) \/ Advance(w)

OperatorStep(m) ==
  \/ ProposeMission(m) \/ Preflight(m) \/ CancelMission(m) \/ ResumeMission(m)
  \/ \E w \in Workers : StartRun(w, m)
  \/ \E w \in Workers, n \in 1..MaxAttempts : StartEvaluation(w, <<m, n>>)
  \/ CancelKilled(m)

\* Every command returned and no attempt is left.
Finished ==
  /\ \A w \in Workers : job[w].pc \in Idle
  /\ UNCHANGED vars

Next ==
  \/ \E m \in Missions : OperatorStep(m)
  \/ \E w \in Workers : WorkerStep(w) \/ Raises(w) \/ ChildExits(w) \/ WorkerKilled(w)
  \/ Finished

Spec == Init /\ [][Next]_vars

\* A command runs until it returns and a process ends that is told to;
\* nothing makes the operator act, nor a training end.
FairSpec ==
  Spec /\ \A w \in Workers : WF_vars(WorkerStep(w)) /\ WF_vars(ToldEnds(w))

-----------------------------------------------------------------------------
(* Properties. *)

OwnEvidence(m) ==
  missions[m].state = "passed" => attempts[missions[m].active].provenance = "passed"

(* A mission is "passed" on the evidence of the attempt that is active: no *)
(* command of an earlier attempt moves it, if a mission is resumed only    *)
(* when its earlier commands have returned or were killed, whatever those  *)
(* had done or left behind.  (run_attempt and evaluate_attempt do not say  *)
(* of which attempt their transitions are; when a mission is resumed       *)
(* earlier, it passes on the evidence of another attempt.)                 *)
PassedIfUnhurried == \A m \in Missions \ hurried : OwnEvidence(m)

(* The evaluator of an attempt is started once, for two operators too.     *)
EvaluatedOnce ==
  \A v, w \in Workers :
    /\ job[v].pc # "new" /\ job[v].phase = "eval"
    /\ job[w].pc # "new" /\ job[w].phase = "eval"
    /\ job[v].a = job[w].a
    => v = w

(* Likewise a recorded process that was not told to end belongs to a       *)
(* mission that occupies a slot in the same phase, so the capacity bounds  *)
(* the processes and not only the rows; a cancellation between launch and  *)
(* registration included.                                                  *)
ProcessHasSlot ==
  \A w \in Workers :
    /\ child[w] = "alive"
    /\ job[w].a # NULL
    /\ attempts[job[w].a].process = w
    /\ MissionOf(w) \notin hurried
    => /\ IsActive(job[w].a)
       /\ missions[MissionOf(w)].state = PhaseState[job[w].phase]

(* cancel() refuses a mission because its process is gone only while the   *)
(* command that launched it is about to clear it, or was killed.           *)
RefusedOnlyAfterKill ==
  \A m \in Missions :
    ~Killable(m) =>
      LET w == ProcessToKill(m) IN
      \/ job[w].pc \in {"clear", "killed"}
      \/ job[w].pc = "record" /\ job[w].rc = "raised"

(* A cancelled mission stops its process, recorded or not yet, although    *)
(* nothing else would end it, unless the mission was resumed early or a    *)
(* command was killed: nobody knows its process if it was not recorded.    *)
CancelledStops ==
  \A w \in Workers :
    (child[w] \in Running /\ missions[MissionOf(w)].state = "cancelled")
      ~> (child[w] \notin Running \/ MissionOf(w) \in hurried \/ crashes > 0)

(* If trainings and evaluations end, a mission does not stay "running", nor *)
(* "evaluating" once its evaluation is claimed: whatever raises in their   *)
(* try blocks, the slot is freed; again, of missions not resumed early and *)
(* commands not killed.                                                    *)
SlotFreed ==
  (\A w \in Workers : WF_vars(ChildExits(w))) =>
    \A m \in Missions :
      /\ (missions[m].state = "running")
           ~> (missions[m].state # "running" \/ m \in hurried \/ crashes > 0)
      /\ (/\ missions[m].state = "evaluating"
          /\ attempts[missions[m].active].evaluated)
           ~> (missions[m].state # "evaluating" \/ m \in hurried \/ crashes > 0)

(* The commands use the ledger as MissionLedger says it is used.           *)
ImplementsLedger == LSpec
=============================================================================
