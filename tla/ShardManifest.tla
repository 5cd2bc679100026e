---------------------------- MODULE ShardManifest ----------------------------
(***************************************************************************)
(* The shard manifest of apps/ava-factory: one SQLite table, the single    *)
(* source of truth for every training shard, shared by collectors,         *)
(* curators, trainers and the janitor                                      *)
(* (dottie/pipeline/manifest.py).                                          *)
(*                                                                         *)
(* Every method of class Manifest is one BEGIN IMMEDIATE transaction, so   *)
(* one method is one action.  A method that raises rolls back: the action  *)
(* is then disabled, and ShardPipeline, which models the callers, tests    *)
(* the guard to decide what the caller does with the exception.            *)
(*                                                                         *)
(* Here the callers are unconstrained: any worker may make any of the      *)
(* calls that a call site of the repository makes for a worker of its      *)
(* role, in any order.                                                     *)
(***************************************************************************)
EXTENDS Naturals, FiniteSets

CONSTANTS
  Shards,        \* shard ids
  Curators,      \* worker_id() of curators: one per process life, never reused
  Trainers,      \* worker_id() of the samplers inside trainers
  Tokenizers,    \* sha256 values of trained tokenizers
  MaxAttempts,   \* Manifest.max_attempts
  NULL           \* SQL NULL

ASSUME MaxAttemptsAssumption == MaxAttempts \in Nat \ {0}
ASSUME RolesAssumption == Curators \cap Trainers = {}
ASSUME NullAssumption ==
         /\ NULL \notin Curators
         /\ NULL \notin Trainers
         /\ NULL \notin Tokenizers
         /\ NULL \notin {"raw", "packed", "live", "lapsed"}

VARIABLES
  rows,          \* the table "shards": one record per id
  frozen         \* the table "tokenizer": the frozen sha, or NULL

mvars == <<rows, frozen>>

Workers == Curators \cup Trainers

-----------------------------------------------------------------------------
(* The lifecycle.  ABSENT stands for "no row with this id". *)

Claimed == {"CLAIMED_CURATE", "CLAIMED_TRAIN"}
States  == Claimed \cup {"ABSENT", "RAW", "PACKED", "CONSUMED", "DELETED", "FAILED"}
Splits  == {"train", "val", "test"}
ProtectedSplits == {"val", "test"}

ClaimableFrom == [curate |-> "RAW",            train |-> "PACKED"]
ClaimedAs     == [curate |-> "CLAIMED_CURATE", train |-> "CLAIMED_TRAIN"]

Legal == [ ABSENT         |-> {},
           RAW            |-> {"CLAIMED_CURATE", "FAILED", "DELETED"},
           CLAIMED_CURATE |-> {"PACKED", "RAW", "FAILED"},
           PACKED         |-> {"CLAIMED_TRAIN", "FAILED", "DELETED"},
           CLAIMED_TRAIN  |-> {"CONSUMED", "PACKED", "FAILED"},
           CONSUMED       |-> {"DELETED"},
           DELETED        |-> {},
           FAILED         |-> {"RAW"} ]

\* Where a claim returns to, and where it ends when it is completed.
Origin(st) == CASE st = "CLAIMED_CURATE" -> "RAW"
                [] st = "CLAIMED_TRAIN"  -> "PACKED"
                [] OTHER                 -> st
CompletedAs(st) == IF st = "CLAIMED_CURATE" THEN "PACKED" ELSE "CONSUMED"

(* A row.  "path" says which file the row points at; "lease" abstracts     *)
(* lease_expires_at to whether that instant has passed.                    *)
Row == [ state    : States,
         split    : Splits,
         path     : {"raw", "packed", NULL},
         sha      : Tokenizers \cup {NULL},
         attempts : 0..MaxAttempts,
         by       : Workers \cup {NULL},
         lease    : {"live", "lapsed", NULL} ]

NewRow(split, sha, path, st) ==
  [ state |-> st, split |-> split, path |-> path, sha |-> sha,
    attempts |-> 0, by |-> NULL, lease |-> NULL ]

Coalesce(x, y) == IF x # NULL THEN x ELSE y

(* The UPDATE statements, as functions of the row they are applied to. *)

ClaimedRow(r, stage, w) ==
  [r EXCEPT !.state = ClaimedAs[stage], !.by = w, !.lease = "live",
            !.attempts = @ + 1]

Unclaimed(r, st) == [r EXCEPT !.state = st, !.by = NULL, !.lease = NULL]

RequeuedRow_ToRaw(r)      == Unclaimed(r, "RAW")

RequeuedRow(r) == Unclaimed(r, Origin(r.state))

ReleasedRow(r) ==
  [RequeuedRow(r) EXCEPT !.attempts = IF @ = 0 THEN 0 ELSE @ - 1]

CompletedRow(r, path, split, sha) ==
  [Unclaimed(r, CompletedAs(r.state)) EXCEPT
     !.path     = Coalesce(path, @),
     !.split    = Coalesce(split, @),
     !.sha      = Coalesce(sha, @),
     !.attempts = IF r.state = "CLAIMED_CURATE" THEN 0 ELSE @]

DeletedRow(r) == [r EXCEPT !.state = "DELETED", !.path = NULL]

-----------------------------------------------------------------------------
(* The methods of Manifest. *)

\* ShardConflictError: the id is registered with other immutable facts.
Conflicts(s, split, sha) ==
  /\ rows[s].state # "ABSENT"
  /\ \/ rows[s].split # split
     \/ sha # NULL /\ rows[s].sha # NULL /\ rows[s].sha # sha

AddShard(s, split, sha, path, st) ==
  /\ ~Conflicts(s, split, sha)
  /\ rows' = [rows EXCEPT ![s] =
                IF @.state = "ABSENT"
                THEN NewRow(split, sha, path, st)
                ELSE [rows[s] EXCEPT !.sha = Coalesce(@, sha)]]
  /\ UNCHANGED frozen

\* Mutants: no cap on attempts; no split filter.
Claimable_NoCap(stage, s, splits) ==
  rows[s].state = ClaimableFrom[stage] /\ rows[s].split \in splits
Claimable_AnySplit(stage, s, splits) ==
  rows[s].state = ClaimableFrom[stage] /\ rows[s].attempts < MaxAttempts

Claimable(stage, s, splits) ==
  /\ rows[s].state = ClaimableFrom[stage]
  /\ rows[s].split \in splits
  /\ rows[s].attempts < MaxAttempts

\* The SELECT's order (phase, age) is abstracted: any claimable row may come.
Claim(stage, s, w, splits) ==
  /\ Claimable(stage, s, splits)
  /\ rows' = [rows EXCEPT ![s] = ClaimedRow(@, stage, w)]
  /\ UNCHANGED frozen

Renew(s, w) ==
  /\ rows[s].by = w
  /\ rows' = [rows EXCEPT ![s].lease = "live"]
  /\ UNCHANGED frozen

\* Mutant: the freeze gate is forgotten.
CanComplete_NoGate(s, w, sha) == rows[s].by = w /\ rows[s].state \in Claimed
\* Mutant: whoever calls may complete.
CanComplete_AnyOwner(s, w, sha) ==
  rows[s].state \in Claimed /\ (sha # NULL => frozen = sha)

\* complete() raises unless this holds.
CanComplete(s, w, sha) ==
  /\ rows[s].by = w
  /\ rows[s].state \in Claimed
  /\ sha # NULL => frozen = sha

Complete(s, w, path, split, sha) ==
  /\ CanComplete(s, w, sha)
  /\ rows' = [rows EXCEPT ![s] = CompletedRow(@, path, split, sha)]
  /\ UNCHANGED frozen

\* fail() takes a worker, and does not look at it.
FailTarget(r) == IF r.attempts >= MaxAttempts THEN "FAILED" ELSE Origin(r.state)
CanFail(s)    == FailTarget(rows[s]) \in Legal[rows[s].state]

Fail(s) ==
  /\ CanFail(s)
  /\ rows' = [rows EXCEPT ![s] = Unclaimed(@, FailTarget(@))]
  /\ UNCHANGED frozen

CanRelease(s, w) == rows[s].by = w /\ rows[s].state \in Claimed

ReleaseClaim(s, w) ==
  /\ CanRelease(s, w)
  /\ rows' = [rows EXCEPT ![s] = ReleasedRow(@)]
  /\ UNCHANGED frozen

RescueStranded ==
  /\ rows' = [s \in Shards |->
                IF rows[s].state = "PACKED" /\ rows[s].attempts >= MaxAttempts
                THEN [rows[s] EXCEPT !.attempts = 0]
                ELSE rows[s]]
  /\ UNCHANGED frozen

RequeueExpired ==
  /\ rows' = [s \in Shards |->
                IF rows[s].state \in Claimed /\ rows[s].lease = "lapsed"
                THEN RequeuedRow(rows[s])
                ELSE rows[s]]
  /\ UNCHANGED frozen

\* Mutant: the split is not looked at.
CanDelete_AnySplit(S) ==
  \A s \in S : rows[s].state # "ABSENT" => "DELETED" \in Legal[rows[s].state]

\* One protected or illegal row raises, and the whole batch rolls back.
CanDelete(S) ==
  \A s \in S : rows[s].state # "ABSENT" =>
                 /\ rows[s].split \notin ProtectedSplits
                 /\ "DELETED" \in Legal[rows[s].state]

MarkDeleted(S) ==
  /\ CanDelete(S)
  /\ rows' = [s \in Shards |->
                IF s \in S /\ rows[s].state # "ABSENT"
                THEN DeletedRow(rows[s])
                ELSE rows[s]]
  /\ UNCHANGED frozen

FreezeTokenizer(t) ==
  /\ frozen \in {NULL, t}
  /\ frozen' = t
  /\ UNCHANGED rows

AbandonClaims ==
  /\ rows' = [s \in Shards |->
                IF rows[s].state \in Claimed
                THEN RequeuedRow(rows[s])
                ELSE rows[s]]
  /\ UNCHANGED frozen

\* Mutant: the cutover spares the held-out rows.
ClearTokenizer_KeepsHeldOut ==
  /\ \A s \in Shards : rows[s].state \notin Claimed
  /\ rows' = [s \in Shards |->
                IF rows[s].state \in {"PACKED", "CONSUMED"} /\ rows[s].split = "train"
                THEN DeletedRow(rows[s])
                ELSE rows[s]]
  /\ frozen' = NULL

ClearTokenizerForRetrain ==
  /\ \A s \in Shards : rows[s].state \notin Claimed
  /\ rows' = [s \in Shards |->
                IF rows[s].state \in {"PACKED", "CONSUMED"}
                THEN DeletedRow(rows[s])
                ELSE rows[s]]
  /\ frozen' = NULL

\* time.time() passes lease_expires_at of the row.
LeaseLapses(s) ==
  /\ rows[s].lease = "live"
  /\ rows' = [rows EXCEPT ![s].lease = "lapsed"]
  /\ UNCHANGED frozen

-----------------------------------------------------------------------------
(* The calls the repository makes. *)

MInit ==
  /\ rows = [s \in Shards |-> NewRow("train", NULL, NULL, "ABSENT")]
  /\ frozen = NULL

CollectorAdds(s) == AddShard(s, "train", NULL, "raw", "RAW")

CuratorAdds(s, split, t) ==
  /\ split \in ProtectedSplits
  /\ AddShard(s, split, t, "packed", "PACKED")

\* claim() defaults to split 'train' for the train stage and to no filter
\* for the curate stage; no call site passes splits.
CuratorClaims(s, w) == Claim("curate", s, w, Splits)
TrainerClaims(s, w) == Claim("train", s, w, {"train"})

\* _emit_packed: no path when no document went to the train split.
CuratorCompletes(s, w, path, t) == Complete(s, w, path, "train", t)
TrainerCompletes(s, w)          == Complete(s, w, NULL, NULL, NULL)

MNext ==
  \/ \E s \in Shards :
       \/ CollectorAdds(s)
       \/ \E split \in ProtectedSplits, t \in Tokenizers : CuratorAdds(s, split, t)
       \/ \E w \in Curators :
            \/ CuratorClaims(s, w)
            \/ \E path \in {"packed", NULL}, t \in Tokenizers :
                 CuratorCompletes(s, w, path, t)
       \/ \E w \in Trainers :
            \/ TrainerClaims(s, w)
            \/ TrainerCompletes(s, w)
            \/ ReleaseClaim(s, w)
       \/ \E w \in Workers : Renew(s, w)
       \/ Fail(s)
       \/ LeaseLapses(s)
  \/ \E S \in SUBSET Shards : MarkDeleted(S)
  \/ RescueStranded
  \/ RequeueExpired
  \/ \E t \in Tokenizers : FreezeTokenizer(t)
  \/ AbandonClaims
  \/ ClearTokenizerForRetrain

MSpec == MInit /\ [][MNext]_mvars

-----------------------------------------------------------------------------
(* Properties. *)

(* Every row is well formed; in particular no sequence of claims, crashes  *)
(* and failures pushes a row's attempts past max_attempts.                 *)
TypeOK ==
  /\ rows \in [Shards -> Row]
  /\ frozen \in Tokenizers \cup {NULL}

(* A row is in a CLAIMED_* state exactly when it names an owner of that    *)
(* stage and a lease, and its claim is counted.  A row that lost one of    *)
(* the three is a shard no requeue can find, or one that renew() keeps     *)
(* alive for nobody.                                                       *)
ClaimShape ==
  \A s \in Shards :
    /\ rows[s].state = "CLAIMED_CURATE" <=> rows[s].by \in Curators
    /\ rows[s].state = "CLAIMED_TRAIN"  <=> rows[s].by \in Trainers
    /\ rows[s].by # NULL <=> rows[s].lease # NULL
    /\ rows[s].state \in Claimed => rows[s].attempts > 0

(* "val and test shards are terminal at PACKED": whatever is called on     *)
(* them, they are never claimed, consumed or parked in FAILED; only a      *)
(* tokenizer cutover deletes them.                                         *)
HeldOutTerminal ==
  \A s \in Shards :
    rows[s].split \in ProtectedSplits =>
      /\ rows[s].state \in {"PACKED", "DELETED"}
      /\ rows[s].attempts = 0

(* What the trainer may consume, or is consuming, or consumed, was packed  *)
(* with the tokenizer that is frozen now: the freeze gate of complete(),   *)
(* freeze_tokenizer() and the cutover hold together.                       *)
TrainedOnFrozen ==
  \A s \in Shards :
    /\ rows[s].split = "train"
    /\ rows[s].state \in {"PACKED", "CLAIMED_TRAIN", "CONSUMED"}
    => frozen # NULL /\ rows[s].sha = frozen

(* Also the methods that write "state" without asking _assert_legal (the   *)
(* requeues, the abandoning and the cutover) move a row only along         *)
(* _LEGAL_TRANSITIONS.                                                     *)
LegalMoves ==
  [][\A s \in Shards :
       \/ rows'[s].state = rows[s].state
       \/ rows[s].state = "ABSENT"
       \/ rows'[s].state \in Legal[rows[s].state]]_mvars

(* A held-out row leaves PACKED only when the freeze itself is dropped; no *)
(* batch of the janitor's deletions takes it along.                        *)
HeldOutKept ==
  [][\A s \in Shards :
       /\ rows[s].split \in ProtectedSplits
       /\ rows[s].state = "PACKED"
       /\ rows'[s].state # "PACKED"
       => frozen' = NULL]_mvars
=============================================================================
