---------------------------- MODULE MissionLedger ----------------------------
(***************************************************************************)
(* The ledger of model missions of factory/: a SQLite database that every  *)
(* `factory mission ...` command opens, the only memory the commands share *)
(* (mission_ledger.py, with the legal transitions of mission_schema.py).   *)
(*                                                                         *)
(* Every method of class Ledger that writes is one BEGIN IMMEDIATE         *)
(* transaction and one action here.  A method that raises rolls back: its  *)
(* action is disabled.  The commands that call the methods, step by step,  *)
(* are in MissionRuns and MissionPromotion; the specification of this      *)
(* module lets any of their calls come at any time.                        *)
(***************************************************************************)
EXTENDS Naturals, FiniteSets

CONSTANTS
  Missions,      \* mission ids
  Capacity,      \* resources.max_parallel_jobs of each mission
  MaxAttempts,   \* bound of the model: attempts per mission
  Workers,       \* runs of the `run` and `evaluate` commands, one child process each
  Promotions,    \* ids of promotion transactions
  Actors,        \* stripped names of reviewers and shippers
  Fold,          \* str.casefold of each
  NULL           \* SQL NULL

ASSUME MissionsAssumption == IsFiniteSet(Missions)
ASSUME CapacityAssumption == Capacity \in [Missions -> Nat \ {0}]
ASSUME MaxAttemptsAssumption == MaxAttempts \in Nat \ {0}
ASSUME NullAssumption ==
         /\ NULL \notin Workers
         /\ NULL \notin Missions \X (1..MaxAttempts)
         /\ NULL \notin Actors \X Actors
         /\ NULL \notin {"passed", "failed"}

VARIABLES
  missions,      \* the table "missions"
  attempts,      \* "attempts" with "attempt_runtime", "evaluation_claims",
                 \* "provenance" and "approvals", whose keys are attempt ids
  journal        \* "promotion_transactions"

lvars == <<missions, attempts, journal>>

-----------------------------------------------------------------------------
(* The lifecycle.  "absent" stands for "no row with this id". *)

Legal ==
  [ absent            |-> {},
    proposed          |-> {"preflight_blocked", "ready"},
    preflight_blocked |-> {"ready", "cancelled"},
    ready             |-> {"running", "cancelled"},
    running           |-> {"evaluating", "failed", "cancelled"},
    evaluating        |-> {"passed", "failed", "cancelled"},
    passed            |-> {"promoted", "rejected", "cancelled"},
    failed            |-> {"rejected", "cancelled"},
    promoted          |-> {},
    rejected          |-> {},
    cancelled         |-> {} ]

States   == DOMAIN Legal
Busy     == {"running", "evaluating"}
Verdicts == {"passed", "failed"}

\* An attempt id names its mission and its ordinal.
Attempts == Missions \X (1..MaxAttempts)

MissionRow == [ state    : States,
                active   : Attempts \cup {NULL},
                ordinals : 0..MaxAttempts ]

AttemptRow == [ process    : Workers \cup {NULL},
                evaluated  : BOOLEAN,
                provenance : Verdicts \cup {NULL},
                approvals  : (Actors \X Actors) \cup {NULL} ]

TxnRow == [ state    : {"none", "pending", "completed", "rolled_back"},
            attempt  : Attempts \cup {NULL},
            reviewer : Actors \cup {NULL},
            shipper  : Actors \cup {NULL} ]

Occupied == {m \in Missions : missions[m].state \in Busy}
Made(a)  == a[2] <= missions[a[1]].ordinals
IsActive(a) == missions[a[1]].active = a

Pending(m) == {t \in Promotions : /\ journal[t].state = "pending"
                                  /\ journal[t].attempt[1] = m}

Distinct(r, s) == Fold[r] # Fold[s]

\* What the UPDATEs of one mission have in common.
SetState(m, st) == missions' = [missions EXCEPT ![m].state = st]

-----------------------------------------------------------------------------
(* The methods of Ledger. *)

Propose(m) ==
  /\ missions[m].state = "absent"
  /\ SetState(m, "proposed")
  /\ UNCHANGED <<attempts, journal>>

\* attempt_id is written to the log of transitions and not compared.
CanTransition(m, target) == target \in Legal[missions[m].state]

Transition(m, target) ==
  /\ CanTransition(m, target)
  /\ SetState(m, target)
  /\ UNCHANGED <<attempts, journal>>

\* Mutant: only the candidate's own limit counts.
HasCapacity_OwnLimit(m) == Cardinality(Occupied) < Capacity[m]

HasCapacity(m) ==
  \A n \in Occupied \cup {m} : Cardinality(Occupied) < Capacity[n]

\* The attempt that resume() prepared, or the next one.
AttemptToRun(m) ==
  IF missions[m].active # NULL THEN missions[m].active
                               ELSE <<m, missions[m].ordinals + 1>>

\* Mutant: the row of a new attempt is not inserted.
Claim_NoAttemptRow(m) ==
  /\ missions[m].state = "ready"
  /\ HasCapacity(m)
  /\ AttemptToRun(m) \in Attempts
  /\ missions' = [missions EXCEPT ![m].state = "running", ![m].active = AttemptToRun(m)]
  /\ UNCHANGED <<attempts, journal>>

Claim(m) ==
  /\ missions[m].state = "ready"
  /\ HasCapacity(m)
  /\ AttemptToRun(m) \in Attempts
  /\ missions' = [missions EXCEPT ![m] =
       [ state |-> "running", active |-> AttemptToRun(m),
         ordinals |-> IF missions[m].active # NULL
                      THEN missions[m].ordinals
                      ELSE missions[m].ordinals + 1 ]]
  /\ UNCHANGED <<attempts, journal>>

\* Mutant: the unique claim of an evaluation is forgotten.
CanClaimEvaluation_Again(a) == IsActive(a) /\ missions[a[1]].state = "evaluating"

CanClaimEvaluation(a) ==
  /\ IsActive(a)
  /\ missions[a[1]].state = "evaluating"
  /\ ~attempts[a].evaluated

ClaimEvaluation(a) ==
  /\ CanClaimEvaluation(a)
  /\ attempts' = [attempts EXCEPT ![a].evaluated = TRUE]
  /\ UNCHANGED <<missions, journal>>

\* Mutant: nothing is written.
FailActive_Silent(a) == UNCHANGED lvars

\* A method that returns without writing when the attempt lost the mission.
FailActive(a) ==
  /\ missions' = IF IsActive(a) /\ missions[a[1]].state \in Busy
                 THEN [missions EXCEPT ![a[1]].state = "failed"]
                 ELSE missions
  /\ UNCHANGED <<attempts, journal>>

PhaseState == [train |-> "running", eval |-> "evaluating"]

\* Mutant: a process is recorded over another one, in whatever state.
CanRegister_Over(a, phase) == IsActive(a)

CanRegister(a, phase) ==
  /\ IsActive(a)
  /\ missions[a[1]].state = PhaseState[phase]
  /\ attempts[a].process = NULL

RegisterProcess(a, phase, w) ==
  /\ CanRegister(a, phase)
  /\ attempts' = [attempts EXCEPT ![a].process = w]
  /\ UNCHANGED <<missions, journal>>

ClearProcess(a, w) ==
  /\ attempts' = IF attempts[a].process = w
                 THEN [attempts EXCEPT ![a].process = NULL]
                 ELSE attempts
  /\ UNCHANGED <<missions, journal>>

CanAddProvenance(a) == attempts[a].provenance = NULL

AddProvenance(a, verdict) ==
  /\ CanAddProvenance(a)
  /\ attempts' = [attempts EXCEPT ![a].provenance = verdict]
  /\ UNCHANGED <<missions, journal>>

\* Mutant: the names are compared as they were typed.
CanBegin_ExactNames(a, r, s) ==
  /\ r # s /\ IsActive(a) /\ missions[a[1]].state = "passed"
  /\ attempts[a].provenance # NULL /\ Pending(a[1]) = {}

CanBegin(a, r, s) ==
  /\ Distinct(r, s)
  /\ IsActive(a)
  /\ missions[a[1]].state = "passed"
  /\ attempts[a].provenance # NULL
  /\ Pending(a[1]) = {}             \* the index one_pending_promotion

BeginPromotion(t, a, r, s) ==
  /\ journal[t].state = "none"      \* uuid4: a new transaction
  /\ CanBegin(a, r, s)
  /\ journal' = [journal EXCEPT ![t] =
       [state |-> "pending", attempt |-> a, reviewer |-> r, shipper |-> s]]
  /\ UNCHANGED <<missions, attempts>>

CloseTxn(t, st) == journal' = [journal EXCEPT ![t].state = st]

RollbackPromotion(t) ==
  /\ IF journal[t].state = "pending" THEN CloseTxn(t, "rolled_back")
                                     ELSE UNCHANGED journal
  /\ UNCHANGED <<missions, attempts>>

\* Mutant: a mission that left "passed" meanwhile is promoted all the same.
CanFinalize_AnyState(t) ==
  /\ journal[t].state = "pending"
  /\ attempts[journal[t].attempt].approvals = NULL

CanFinalize(t) ==
  LET a == journal[t].attempt IN
  /\ journal[t].state = "pending"
  /\ IsActive(a)
  /\ missions[a[1]].state = "passed"
  /\ attempts[a].provenance # NULL
  /\ attempts[a].approvals = NULL

FinalizePromotion(t) ==
  LET a == journal[t].attempt IN
  /\ CanFinalize(t)
  /\ attempts' = [attempts EXCEPT ![a].approvals =
                    <<journal[t].reviewer, journal[t].shipper>>]
  /\ SetState(a[1], "promoted")
  /\ CloseTxn(t, "completed")

\* Mutant: the mission comes back with the attempt it had.
Resume_SameAttempt(m) ==
  /\ missions[m].state \in {"failed", "rejected", "cancelled"}
  /\ SetState(m, "ready")
  /\ UNCHANGED <<attempts, journal>>

Resume(m) ==
  /\ missions[m].state \in {"failed", "rejected", "cancelled"}
  /\ missions[m].ordinals < MaxAttempts        \* bound of the model
  /\ missions' = [missions EXCEPT ![m] =
       [ state |-> "ready", active |-> <<m, missions[m].ordinals + 1>>,
         ordinals |-> missions[m].ordinals + 1 ]]
  /\ UNCHANGED <<attempts, journal>>

\* The process that cancel() must kill before it writes; it raises, and
\* rolls back, when that process is no longer the recorded one.
ProcessToKill(m) ==
  IF missions[m].state \in Busy /\ missions[m].active # NULL
  THEN attempts[missions[m].active].process
  ELSE NULL

Cancel(m) ==
  /\ "cancelled" \in Legal[missions[m].state]
  /\ SetState(m, "cancelled")
  /\ UNCHANGED <<attempts, journal>>

-----------------------------------------------------------------------------
(* The calls the repository makes. *)

LInit ==
  /\ missions = [m \in Missions |->
                   [state |-> "absent", active |-> NULL, ordinals |-> 0]]
  /\ attempts = [a \in Attempts |->
                   [ process |-> NULL, evaluated |-> FALSE,
                     provenance |-> NULL, approvals |-> NULL ]]
  /\ journal = [t \in Promotions |->
                   [ state |-> "none", attempt |-> NULL,
                     reviewer |-> NULL, shipper |-> NULL ]]

\* The targets that preflight_and_record, run_attempt and evaluate pass.
Targets == {"preflight_blocked", "ready", "evaluating", "passed", "failed"}

\* promote_attempt reads the provenance first; it never changes again.
MissionStep(m) ==
  \/ Propose(m)
  \/ \E target \in Targets : Transition(m, target)
  \/ Claim(m)
  \/ Resume(m)
  \/ Cancel(m)

AttemptStep(a) ==
  /\ Made(a)
  /\ \/ ClaimEvaluation(a)
     \/ FailActive(a)
     \/ \E w \in Workers :
          \/ \E phase \in {"train", "eval"} : RegisterProcess(a, phase, w)
          \/ ClearProcess(a, w)
     \/ \E verdict \in Verdicts : attempts[a].evaluated /\ AddProvenance(a, verdict)
     \/ \E t \in Promotions, r, s \in Actors :
          /\ attempts[a].provenance = "passed"
          /\ BeginPromotion(t, a, r, s)

LNext ==
  \/ \E m \in Missions : MissionStep(m)
  \/ \E a \in Attempts : AttemptStep(a)
  \/ \E t \in Promotions : RollbackPromotion(t) \/ FinalizePromotion(t)

LSpec == LInit /\ [][LNext]_lvars

-----------------------------------------------------------------------------
(* Properties. *)

(* Every table is well formed, and attempts are used only once they exist. *)
LTypeOK ==
  /\ missions \in [Missions -> MissionRow]
  /\ attempts \in [Attempts -> AttemptRow]
  /\ journal  \in [Promotions -> TxnRow]
  /\ \A m \in Missions :
       missions[m].active # NULL =>
         missions[m].active[1] = m /\ Made(missions[m].active)

(* max_parallel_jobs of EVERY mission that runs or is evaluated bounds     *)
(* their number, also that of a mission claimed before the others: a claim *)
(* looks at the limits of those that are already there.                    *)
CapacityKept ==
  \A m \in Occupied : Cardinality(Occupied) <= Capacity[m]

(* A promoted mission was judged passing on the evidence of the attempt    *)
(* that is active, approved by two people who are not one person typed in  *)
(* two ways, and these are the approvals its journal entry announced --    *)
(* whatever was cancelled, resumed or journalled in between.               *)
PromotedOnEvidence ==
  \A m \in Missions :
    missions[m].state = "promoted" =>
      LET a == missions[m].active IN
      /\ attempts[a].provenance = "passed"
      /\ \E t \in Promotions :
           /\ journal[t].state = "completed"
           /\ journal[t].attempt = a
           /\ attempts[a].approvals = <<journal[t].reviewer, journal[t].shipper>>
           /\ Distinct(journal[t].reviewer, journal[t].shipper)

(* Approvals exist only for a promoted attempt: no entry that was rolled   *)
(* back or is still pending leaves an approval that a later one could use. *)
ApprovedIsPromoted ==
  \A a \in Attempts :
    attempts[a].approvals # NULL =>
      IsActive(a) /\ missions[a[1]].state = "promoted"

(* What an attempt was judged by is never rewritten, and neither is who    *)
(* approved it: a resumed mission is judged as another attempt.            *)
EvidenceKept ==
  \A a \in Attempts :
    /\ attempts[a].provenance # NULL =>
         attempts'[a].provenance = attempts[a].provenance
    /\ attempts[a].evaluated => attempts'[a].evaluated
    /\ attempts[a].approvals # NULL =>
         attempts'[a].approvals = attempts[a].approvals
EvidenceAppendOnly == [][EvidenceKept]_lvars

(* A failed or cancelled mission comes back only as an attempt nobody ran: *)
(* no transition, late report or promotion revives it, and no evidence or  *)
(* approval of an attempt it left counts for it again (Ledger.resume).     *)
ResumeIsFresh ==
  [][\A m \in Missions :
       /\ missions[m].state \in {"failed", "rejected", "cancelled"}
       /\ missions'[m].state \notin {"failed", "rejected", "cancelled"}
       => /\ missions'[m].state = "ready"
          /\ missions'[m].active # NULL /\ ~Made(missions'[m].active)]_lvars
=============================================================================
