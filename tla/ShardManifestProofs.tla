------------------------- MODULE ShardManifestProofs -------------------------
(***************************************************************************)
(* Theorems about ShardManifest.  The four invariants together are         *)
(* inductive, so one argument proves them all: a step writes rows          *)
(* independently of each other, hence the invariant is restated as a       *)
(* predicate on one row (RowInv) and each action is shown to turn rows     *)
(* that satisfy it into rows that satisfy it.                              *)
(***************************************************************************)
EXTENDS ShardManifest, TLAPS

USE MaxAttemptsAssumption, RolesAssumption, NullAssumption

RowInv(r, f) ==
  /\ r \in Row
  /\ r.state = "CLAIMED_CURATE" <=> r.by \in Curators
  /\ r.state = "CLAIMED_TRAIN"  <=> r.by \in Trainers
  /\ r.by # NULL <=> r.lease # NULL
  /\ r.state \in Claimed => r.attempts > 0
  /\ r.split \in ProtectedSplits =>
       r.state \in {"PACKED", "DELETED"} /\ r.attempts = 0
  /\ r.split = "train" /\ r.state \in {"PACKED", "CLAIMED_TRAIN", "CONSUMED"} =>
       f # NULL /\ r.sha = f

(* The conjunction of the four invariants of the runs. *)
Inv == TypeOK /\ ClaimShape /\ HeldOutTerminal /\ TrainedOnFrozen

LEMMA InvByRow ==
  Inv <=> /\ rows = [s \in Shards |-> rows[s]]
          /\ frozen \in Tokenizers \cup {NULL}
          /\ \A s \in Shards : RowInv(rows[s], frozen)
  BY DEF Inv, TypeOK, ClaimShape, HeldOutTerminal, TrainedOnFrozen, RowInv

LEMMA NewRowInv ==
  ASSUME NEW f \in Tokenizers \cup {NULL}
  PROVE  /\ RowInv(NewRow("train", NULL, NULL, "ABSENT"), f)
         /\ RowInv(NewRow("train", NULL, "raw", "RAW"), f)
         /\ \A split \in ProtectedSplits, t \in Tokenizers :
              RowInv(NewRow(split, t, "packed", "PACKED"), f)
  BY DEF RowInv, NewRow, Row, Workers, States, Splits, Claimed, ProtectedSplits

-----------------------------------------------------------------------------
(* What each way of writing a row does to RowInv. *)

LEMMA ClaimRow ==
  ASSUME NEW r, NEW f, RowInv(r, f), r.attempts < MaxAttempts, NEW stage, NEW w,
         \/ r.state = "RAW" /\ stage = "curate" /\ w \in Curators
         \/ r.state = "PACKED" /\ r.split = "train"
            /\ stage = "train" /\ w \in Trainers
  PROVE  RowInv(ClaimedRow(r, stage, w), f)
<1> DEFINE st == ClaimedAs[stage]
           q == [r EXCEPT !.state = st, !.by = w, !.lease = "live", !.attempts = @ + 1]
<1>0. \/ stage = "curate" /\ st = "CLAIMED_CURATE"
      \/ stage = "train"  /\ st = "CLAIMED_TRAIN"
  BY DEF ClaimedAs
<1> HIDE DEF st
<1>1. r \in Row
  BY DEF RowInv
<1>2. /\ q.state = st /\ q.by = w /\ q.lease = "live"
      /\ q.attempts = r.attempts + 1
      /\ q.split = r.split /\ q.sha = r.sha /\ q.path = r.path
  BY <1>1 DEF Row
<1>3. q \in Row
  <2>1. r.attempts + 1 \in 0..MaxAttempts
    BY <1>1 DEF Row
  <2>2. w \in Workers \cup {NULL} /\ st \in States
    BY <1>0 DEF Workers, States, Claimed
  <2> QED
    BY <1>1, <2>1, <2>2 DEF Row
<1> HIDE DEF q
<1>4. RowInv(q, f)
  BY <1>0, <1>1, <1>2, <1>3 DEF RowInv, Claimed, ProtectedSplits, Row
<1> QED
  BY <1>4 DEF q, st, ClaimedRow

LEMMA LeaseRow ==
  ASSUME NEW r, NEW f, RowInv(r, f), r.by # NULL, NEW l \in {"live", "lapsed"}
  PROVE  RowInv([r EXCEPT !.lease = l], f)
<1> DEFINE q == [r EXCEPT !.lease = l]
<1>1. r \in Row
  BY DEF RowInv
<1>2. /\ q \in Row /\ q.lease = l
      /\ q.state = r.state /\ q.by = r.by /\ q.attempts = r.attempts
      /\ q.split = r.split /\ q.sha = r.sha
  BY <1>1 DEF Row
<1> HIDE DEF q
<1>3. RowInv(q, f)
  BY <1>1, <1>2 DEF RowInv
<1> QED
  BY <1>3 DEF q

(* A cleared claim: the row returns to its origin, or is parked. *)
LEMMA UnclaimedFields ==
  ASSUME NEW r \in Row, NEW st \in States
  PROVE  LET q == Unclaimed(r, st) IN
         /\ q \in Row
         /\ q.state = st /\ q.by = NULL /\ q.lease = NULL
         /\ q.attempts = r.attempts /\ q.split = r.split
         /\ q.sha = r.sha /\ q.path = r.path
  BY DEF Unclaimed, Row

LEMMA UnclaimedRow ==
  ASSUME NEW r, NEW f, RowInv(r, f), NEW st \in {Origin(r.state), "FAILED"},
         \/ r.state \in Claimed
         \/ r.state \in {"RAW", "PACKED"} /\ st = "FAILED" /\ r.attempts # 0
  PROVE  RowInv(Unclaimed(r, st), f)
<1> DEFINE q == Unclaimed(r, st)
<1>1. r \in Row /\ st \in States
  BY DEF RowInv, Row, States, Claimed, Origin
<1>2. /\ q \in Row
      /\ q.state = st /\ q.by = NULL /\ q.lease = NULL
      /\ q.attempts = r.attempts /\ q.split = r.split /\ q.sha = r.sha
  BY <1>1, UnclaimedFields
<1> HIDE DEF q
<1>3. RowInv(q, f)
  BY <1>1, <1>2 DEF RowInv, Claimed, ProtectedSplits, Row, Origin
<1> QED
  BY <1>3 DEF q

LEMMA ReleaseRow ==
  ASSUME NEW r, NEW f, RowInv(r, f), r.state \in Claimed
  PROVE  RowInv(ReleasedRow(r), f)
<1> DEFINE u == Unclaimed(r, Origin(r.state))
           q == [u EXCEPT !.attempts = IF @ = 0 THEN 0 ELSE @ - 1]
<1>1. RowInv(u, f)
  BY UnclaimedRow
<1>2. r \in Row /\ Origin(r.state) \in {"RAW", "PACKED"}
  BY DEF RowInv, Claimed, Origin
<1>3. u.state \in {"RAW", "PACKED"} /\ u.by = NULL /\ u \in Row
  BY <1>2, UnclaimedFields DEF States
<1> HIDE DEF u
<1>4. /\ q.state = u.state /\ q.by = u.by /\ q.lease = u.lease
      /\ q.split = u.split /\ q.sha = u.sha
      /\ q.attempts = IF u.attempts = 0 THEN 0 ELSE u.attempts - 1
  BY <1>3 DEF Row
<1>5. q \in Row
  <2>1. (IF u.attempts = 0 THEN 0 ELSE u.attempts - 1) \in 0..MaxAttempts
    BY <1>3 DEF Row
  <2> QED
    BY <1>3, <2>1 DEF Row
<1> HIDE DEF q
<1>6. RowInv(q, f)
  BY <1>1, <1>3, <1>4, <1>5 DEF RowInv, Claimed, ProtectedSplits
<1> QED
  BY <1>6 DEF q, u, ReleasedRow, RequeuedRow

LEMMA CompleteRow ==
  ASSUME NEW r, NEW f, RowInv(r, f), NEW path \in {"packed", NULL},
         NEW split, NEW sha,
         \/ r.state = "CLAIMED_CURATE" /\ split = "train"
            /\ sha \in Tokenizers /\ sha = f
         \/ r.state = "CLAIMED_TRAIN" /\ split = NULL /\ sha = NULL
  PROVE  RowInv(CompletedRow(r, path, split, sha), f)
<1> DEFINE target == CompletedAs(r.state)
           u == Unclaimed(r, target)
           q == [u EXCEPT !.path     = Coalesce(path, @),
                          !.split    = Coalesce(split, @),
                          !.sha      = Coalesce(sha, @),
                          !.attempts = IF r.state = "CLAIMED_CURATE" THEN 0 ELSE @]
<1>1. r \in Row /\ target \in {"PACKED", "CONSUMED"} /\ r.split = "train"
  BY DEF RowInv, CompletedAs, ProtectedSplits, Row, Splits
<1>2. /\ u \in Row
      /\ u.state = target /\ u.by = NULL /\ u.lease = NULL
      /\ u.attempts = r.attempts /\ u.split = "train" /\ u.sha = r.sha
  <2>1. target \in States
    BY <1>1 DEF States
  <2> QED
    BY <1>1, <2>1, UnclaimedFields
<1>3. target = "PACKED" <=> r.state = "CLAIMED_CURATE"
  BY DEF CompletedAs
<1> HIDE DEF target, u
<1>4. /\ Coalesce(split, u.split) = "train"
      /\ Coalesce(sha, u.sha) = f /\ f # NULL
      /\ Coalesce(sha, u.sha) \in Tokenizers \cup {NULL}
      /\ Coalesce(path, u.path) \in {"raw", "packed", NULL}
  BY <1>1, <1>2 DEF Coalesce, RowInv, Row
<1>5. /\ q \in Row
      /\ q.state = target /\ q.by = NULL /\ q.lease = NULL
      /\ q.split = "train" /\ q.sha = f
      /\ q.attempts = IF r.state = "CLAIMED_CURATE" THEN 0 ELSE r.attempts
  <2>1. (IF r.state = "CLAIMED_CURATE" THEN 0 ELSE u.attempts) \in 0..MaxAttempts
    BY <1>2 DEF Row
  <2>2. "train" \in Splits
    BY DEF Splits
  <2> QED
    BY <1>2, <1>4, <2>1, <2>2 DEF Row
<1> HIDE DEF q
<1>6. RowInv(q, f)
  BY <1>1, <1>3, <1>4, <1>5 DEF RowInv, Claimed, ProtectedSplits
<1> QED
  BY <1>6 DEF q, u, target, CompletedRow

(* add_shard on a registered id only fills in a missing tokenizer sha. *)
LEMMA ShaRow ==
  ASSUME NEW r, NEW f, RowInv(r, f), NEW sha \in Tokenizers \cup {NULL},
         r.split # "train" \/ sha = NULL
  PROVE  RowInv([r EXCEPT !.sha = Coalesce(@, sha)], f)
<1> DEFINE q == [r EXCEPT !.sha = Coalesce(@, sha)]
<1>1. r \in Row
  BY DEF RowInv
<1>2. /\ Coalesce(r.sha, sha) \in Tokenizers \cup {NULL}
      /\ sha = NULL => Coalesce(r.sha, sha) = r.sha
  BY <1>1 DEF Coalesce, Row
<1>3. /\ q \in Row /\ q.sha = Coalesce(r.sha, sha)
      /\ q.state = r.state /\ q.by = r.by /\ q.attempts = r.attempts
      /\ q.split = r.split /\ q.lease = r.lease
  BY <1>1, <1>2 DEF Row
<1> HIDE DEF q
<1>4. RowInv(q, f)
  BY <1>1, <1>2, <1>3 DEF RowInv
<1> QED
  BY <1>4 DEF q

LEMMA RescueRow ==
  ASSUME NEW r, NEW f, RowInv(r, f), r.state = "PACKED"
  PROVE  RowInv([r EXCEPT !.attempts = 0], f)
<1> DEFINE q == [r EXCEPT !.attempts = 0]
<1>1. r \in Row
  BY DEF RowInv
<1>2. /\ q \in Row /\ q.attempts = 0 /\ q.state = r.state /\ q.by = r.by
      /\ q.split = r.split /\ q.sha = r.sha /\ q.lease = r.lease
  BY <1>1 DEF Row
<1> HIDE DEF q
<1>3. RowInv(q, f)
  BY <1>1, <1>2 DEF RowInv, Claimed
<1> QED
  BY <1>3 DEF q

LEMMA DeleteRow ==
  ASSUME NEW r, NEW f, RowInv(r, f), NEW g, r.state \notin Claimed
  PROVE  RowInv(DeletedRow(r), g)
<1> DEFINE q == [r EXCEPT !.state = "DELETED", !.path = NULL]
<1>1. r \in Row /\ "DELETED" \in States
  BY DEF RowInv, States
<1>2. /\ q \in Row /\ q.attempts = r.attempts /\ q.state = "DELETED"
      /\ q.by = r.by /\ q.split = r.split /\ q.lease = r.lease
  BY <1>1 DEF Row
<1> HIDE DEF q
<1>3. RowInv(q, g)
  BY <1>1, <1>2 DEF RowInv, Claimed, Row, Workers
<1> QED
  BY <1>3 DEF q, DeletedRow

-----------------------------------------------------------------------------
(* The invariant is inductive. *)

LEMMA RowsInv ==
  ASSUME rows' = [s \in Shards |-> rows'[s]],
         frozen' \in Tokenizers \cup {NULL},
         \A s \in Shards : RowInv(rows'[s], frozen')
  PROVE  Inv'
  BY DEF Inv, TypeOK, ClaimShape, HeldOutTerminal, TrainedOnFrozen, RowInv

(* A method that writes one row. *)
LEMMA OneRowInv ==
  ASSUME Inv, NEW s \in Shards, NEW q, RowInv(q, frozen),
         rows' = [rows EXCEPT ![s] = q], frozen' = frozen
  PROVE  Inv'
<1>1. rows' = [x \in Shards |-> rows'[x]]
  BY InvByRow
<1>2. \A x \in Shards : RowInv(rows'[x], frozen')
  BY InvByRow
<1> QED
  BY <1>1, <1>2, RowsInv, InvByRow

LEMMA InitInv == MInit => Inv
<1> SUFFICES ASSUME MInit PROVE Inv
  OBVIOUS
<1>1. \A s \in Shards : RowInv(rows[s], frozen)
  BY NewRowInv DEF MInit
<1> QED
  BY <1>1, InvByRow DEF MInit

LEMMA AddShardInv ==
  ASSUME Inv, NEW s \in Shards,
         \/ CollectorAdds(s)
         \/ \E split \in ProtectedSplits, t \in Tokenizers : CuratorAdds(s, split, t)
  PROVE  Inv'
<1>1. PICK split, sha, path, st :
        /\ AddShard(s, split, sha, path, st)
        /\ RowInv(NewRow(split, sha, path, st), frozen)
        /\ sha \in Tokenizers \cup {NULL}
        /\ split # "train" \/ sha = NULL
  BY NewRowInv, InvByRow DEF CollectorAdds, CuratorAdds, ProtectedSplits
<1>2. CASE rows[s].state = "ABSENT"
  BY <1>1, <1>2, OneRowInv DEF AddShard
<1>3. CASE rows[s].state # "ABSENT"
  <2>1. rows[s].split = split
    BY <1>1, <1>3 DEF AddShard, Conflicts
  <2> DEFINE q == [rows[s] EXCEPT !.sha = Coalesce(@, sha)]
  <2>2. RowInv(q, frozen)
    BY <1>1, <2>1, ShaRow, InvByRow
  <2>3. rows' = [rows EXCEPT ![s] = q] /\ frozen' = frozen
    BY <1>1, <1>3 DEF AddShard
  <2> HIDE DEF q
  <2> QED
    BY <2>2, <2>3, OneRowInv
<1> QED
  BY <1>2, <1>3

LEMMA ClaimInv ==
  ASSUME Inv, NEW s \in Shards,
         \/ \E w \in Curators : CuratorClaims(s, w)
         \/ \E w \in Trainers : TrainerClaims(s, w)
  PROVE  Inv'
<1>1. PICK w, stage :
        /\ rows[s].attempts < MaxAttempts
        /\ \/ rows[s].state = "RAW" /\ stage = "curate" /\ w \in Curators
           \/ rows[s].state = "PACKED" /\ rows[s].split = "train"
              /\ stage = "train" /\ w \in Trainers
        /\ rows' = [rows EXCEPT ![s] = ClaimedRow(rows[s], stage, w)]
        /\ frozen' = frozen
  BY DEF CuratorClaims, TrainerClaims, Claim, Claimable, ClaimableFrom
<1>2. RowInv(ClaimedRow(rows[s], stage, w), frozen)
  BY <1>1, ClaimRow, InvByRow
<1> QED
  BY <1>1, <1>2, OneRowInv

LEMMA LeaseInv ==
  ASSUME Inv, NEW s \in Shards,
         (\E w \in Workers : Renew(s, w)) \/ LeaseLapses(s)
  PROVE  Inv'
<1>1. PICK l \in {"live", "lapsed"} :
        /\ rows' = [rows EXCEPT ![s].lease = l]
        /\ frozen' = frozen
  BY DEF Renew, LeaseLapses
<1>2. rows[s].by # NULL
  BY InvByRow DEF Renew, LeaseLapses, RowInv, Workers
<1> DEFINE q == [rows[s] EXCEPT !.lease = l]
<1>3. RowInv(q, frozen)
  BY <1>2, LeaseRow, InvByRow
<1>4. rows' = [rows EXCEPT ![s] = q]
  BY <1>1
<1> HIDE DEF q
<1> QED
  BY <1>1, <1>3, <1>4, OneRowInv

LEMMA CompleteInv ==
  ASSUME Inv, NEW s \in Shards, NEW w, NEW path \in {"packed", NULL},
         NEW split, NEW sha, Complete(s, w, path, split, sha),
         \/ w \in Curators /\ split = "train" /\ sha \in Tokenizers
         \/ w \in Trainers /\ split = NULL /\ sha = NULL
  PROVE  Inv'
<1>1. RowInv(rows[s], frozen)
  BY InvByRow
<1>2. \/ rows[s].state = "CLAIMED_CURATE" /\ split = "train"
         /\ sha \in Tokenizers /\ sha = frozen
      \/ rows[s].state = "CLAIMED_TRAIN" /\ split = NULL /\ sha = NULL
  BY <1>1 DEF Complete, CanComplete, RowInv, Claimed
<1>3. RowInv(CompletedRow(rows[s], path, split, sha), frozen)
  BY <1>1, <1>2, CompleteRow
<1> QED
  BY <1>3, OneRowInv DEF Complete

LEMMA FailInv ==
  ASSUME Inv, NEW s \in Shards, Fail(s)
  PROVE  Inv'
<1>1. RowInv(rows[s], frozen)
  BY InvByRow
<1>2. FailTarget(rows[s]) \in {Origin(rows[s].state), "FAILED"}
  BY DEF FailTarget
<1>3. \/ rows[s].state \in Claimed
      \/ /\ rows[s].state \in {"RAW", "PACKED"}
         /\ FailTarget(rows[s]) = "FAILED"
         /\ rows[s].attempts # 0
  BY <1>1 DEF Fail, CanFail, FailTarget, Legal, Claimed, Origin, RowInv, Row, States
<1> DEFINE q == Unclaimed(rows[s], FailTarget(rows[s]))
<1>4. RowInv(q, frozen)
  BY <1>1, <1>2, <1>3, UnclaimedRow
<1>5. rows' = [rows EXCEPT ![s] = q] /\ frozen' = frozen
  BY DEF Fail
<1> HIDE DEF q
<1> QED
  BY <1>4, <1>5, OneRowInv

LEMMA ReleaseInv ==
  ASSUME Inv, NEW s \in Shards, NEW w \in Trainers, ReleaseClaim(s, w)
  PROVE  Inv'
<1>1. RowInv(ReleasedRow(rows[s]), frozen)
  BY InvByRow, ReleaseRow DEF ReleaseClaim, CanRelease
<1> QED
  BY <1>1, OneRowInv DEF ReleaseClaim

(* The methods that sweep the table write, in each row, what the lemmas of *)
(* the previous section are about, or nothing.                             *)
LEMMA SweepInv ==
  ASSUME Inv,
         \/ RescueStranded \/ RequeueExpired \/ AbandonClaims
         \/ \E S \in SUBSET Shards : MarkDeleted(S)
  PROVE  Inv'
<1>1. /\ frozen' = frozen
      /\ rows' = [s \in Shards |-> rows'[s]]
      /\ \A s \in Shards :
           \/ rows'[s] = rows[s]
           \/ rows[s].state = "PACKED" /\ rows'[s] = [rows[s] EXCEPT !.attempts = 0]
           \/ rows[s].state \in Claimed /\ rows'[s] = RequeuedRow(rows[s])
           \/ rows[s].state \notin Claimed /\ rows'[s] = DeletedRow(rows[s])
  <2>1. CASE RescueStranded
    BY <2>1 DEF RescueStranded
  <2>2. CASE RequeueExpired
    BY <2>2 DEF RequeueExpired
  <2>3. CASE AbandonClaims
    BY <2>3 DEF AbandonClaims
  <2>4. CASE \E S \in SUBSET Shards : MarkDeleted(S)
    BY <2>4 DEF MarkDeleted, CanDelete, Legal, Claimed
  <2> QED
    BY <2>1, <2>2, <2>3, <2>4
<1>2. ASSUME NEW s \in Shards PROVE RowInv(rows'[s], frozen)
  <2>1. RowInv(rows[s], frozen)
    BY InvByRow
  <2>2. rows[s].state = "PACKED" => RowInv([rows[s] EXCEPT !.attempts = 0], frozen)
    BY <2>1, RescueRow
  <2>3. rows[s].state \in Claimed => RowInv(RequeuedRow(rows[s]), frozen)
    BY <2>1, UnclaimedRow DEF RequeuedRow
  <2>4. rows[s].state \notin Claimed => RowInv(DeletedRow(rows[s]), frozen)
    BY <2>1, DeleteRow
  <2> QED
    BY <1>1, <2>1, <2>2, <2>3, <2>4
<1> QED
  BY <1>1, <1>2, RowsInv, InvByRow

LEMMA FreezeInv ==
  ASSUME Inv, NEW t \in Tokenizers, FreezeTokenizer(t)
  PROVE  Inv'
<1>1. \A s \in Shards : RowInv(rows[s], t)
  BY InvByRow DEF RowInv, FreezeTokenizer
<1> QED
  BY <1>1, RowsInv, InvByRow DEF FreezeTokenizer

LEMMA ClearInv ==
  ASSUME Inv, ClearTokenizerForRetrain
  PROVE  Inv'
<1>1. ASSUME NEW s \in Shards PROVE RowInv(rows'[s], NULL)
  <2>1. RowInv(rows[s], frozen) /\ rows[s].state \notin Claimed
    BY InvByRow DEF ClearTokenizerForRetrain
  <2>2. RowInv(DeletedRow(rows[s]), NULL)
    BY <2>1, DeleteRow
  <2>3. rows[s].state \notin {"PACKED", "CONSUMED"} => RowInv(rows[s], NULL)
    BY <2>1 DEF RowInv, Claimed
  <2> QED
    BY <2>2, <2>3 DEF ClearTokenizerForRetrain
<1> QED
  BY <1>1, RowsInv DEF ClearTokenizerForRetrain

LEMMA NextInv == Inv /\ [MNext]_mvars => Inv'
<1> SUFFICES ASSUME Inv, [MNext]_mvars PROVE Inv'
  OBVIOUS
<1>1. ASSUME NEW s \in Shards,
             CollectorAdds(s) \/ \E split \in ProtectedSplits, t \in Tokenizers :
                                   CuratorAdds(s, split, t)
      PROVE  Inv'
  BY <1>1, AddShardInv
<1>2. ASSUME NEW s \in Shards, NEW w \in Curators, CuratorClaims(s, w)
      PROVE  Inv'
  BY <1>2, ClaimInv
<1>3. ASSUME NEW s \in Shards, NEW w \in Trainers, TrainerClaims(s, w)
      PROVE  Inv'
  BY <1>3, ClaimInv
<1>4. ASSUME NEW s \in Shards, NEW w \in Curators, NEW path \in {"packed", NULL},
             NEW t \in Tokenizers, CuratorCompletes(s, w, path, t)
      PROVE  Inv'
  BY <1>4, CompleteInv DEF CuratorCompletes
<1>5. ASSUME NEW s \in Shards, NEW w \in Trainers, TrainerCompletes(s, w)
      PROVE  Inv'
  BY <1>5, CompleteInv DEF TrainerCompletes
<1>6. ASSUME NEW s \in Shards, NEW w \in Trainers, ReleaseClaim(s, w)
      PROVE  Inv'
  BY <1>6, ReleaseInv
<1>7. ASSUME NEW s \in Shards, (\E w \in Workers : Renew(s, w)) \/ LeaseLapses(s)
      PROVE  Inv'
  BY <1>7, LeaseInv
<1>8. ASSUME NEW s \in Shards, Fail(s)
      PROVE  Inv'
  BY <1>8, FailInv
<1>9. CASE \/ RescueStranded \/ RequeueExpired \/ AbandonClaims
           \/ \E S \in SUBSET Shards : MarkDeleted(S)
  BY <1>9, SweepInv
<1>10. ASSUME NEW t \in Tokenizers, FreezeTokenizer(t)
       PROVE  Inv'
  BY <1>10, FreezeInv
<1>11. CASE ClearTokenizerForRetrain
  BY <1>11, ClearInv
<1>12. CASE UNCHANGED mvars
  BY <1>12 DEF mvars, Inv, TypeOK, ClaimShape, HeldOutTerminal, TrainedOnFrozen
<1> QED
  BY <1>1, <1>2, <1>3, <1>4, <1>5, <1>6, <1>7, <1>8, <1>9, <1>10, <1>11, <1>12
     DEF MNext

LEMMA ManifestInvariant == MSpec => []Inv
  BY InitInv, NextInv, PTL DEF MSpec

(* Every reachable row is well formed and within max_attempts.             *)
THEOREM TypeCorrect == MSpec => []TypeOK
  BY ManifestInvariant, PTL DEF Inv

(* Every reachable claim names an owner of its stage and a lease, and only *)
(* claims do.                                                              *)
THEOREM ClaimsWellFormed == MSpec => []ClaimShape
  BY ManifestInvariant, PTL DEF Inv

(* No sequence of calls takes a val or test shard anywhere but PACKED or   *)
(* DELETED.                                                                *)
THEOREM HeldOutNeverTrained == MSpec => []HeldOutTerminal
  BY ManifestInvariant, PTL DEF Inv

(* No sequence of calls lets the trainer hold a shard that was packed with *)
(* a tokenizer other than the frozen one.                                  *)
THEOREM FreezeGateHolds == MSpec => []TrainedOnFrozen
  BY ManifestInvariant, PTL DEF Inv

-----------------------------------------------------------------------------
(* The two action properties. *)

(* The new state of every row of one step, in the vocabulary of the old    *)
(* row: the common ground of both properties.                              *)
Moves(s) ==
  \/ rows'[s].state = rows[s].state
  \/ rows[s].state = "ABSENT"
  \/ rows[s].state = "RAW"    /\ rows'[s].state = "CLAIMED_CURATE"
  \/ rows[s].state = "PACKED" /\ rows'[s].state = "CLAIMED_TRAIN"
     /\ rows[s].split = "train"
  \/ rows[s].state \in Claimed /\ rows'[s].state = Origin(rows[s].state)
  \/ rows[s].state \in Claimed /\ rows'[s].state = CompletedAs(rows[s].state)
  \/ "FAILED" \in Legal[rows[s].state] /\ rows'[s].state = "FAILED"
     /\ rows[s].attempts >= MaxAttempts
  \/ "DELETED" \in Legal[rows[s].state] /\ rows'[s].state = "DELETED"
     /\ (rows[s].split \in ProtectedSplits => frozen' = NULL)

LEMMA OneRowMoves ==
  ASSUME Inv, NEW s \in Shards, NEW q, rows' = [rows EXCEPT ![s] = q],
         NEW x \in Shards
  PROVE  /\ x # s => Moves(x)
         /\ x = s => rows'[x] = q
  BY InvByRow DEF Moves

LEMMA NewStates ==
  ASSUME NEW r \in Row
  PROVE  /\ \A stage, w : ClaimedRow(r, stage, w).state = ClaimedAs[stage]
         /\ \A st : Unclaimed(r, st).state = st
         /\ RequeuedRow(r).state = Origin(r.state)
         /\ ReleasedRow(r).state = Origin(r.state)
         /\ \A path, split, sha :
              CompletedRow(r, path, split, sha).state = CompletedAs(r.state)
         /\ DeletedRow(r).state = "DELETED"
         /\ \A sha : [r EXCEPT !.sha = sha].state = r.state
         /\ \A l : [r EXCEPT !.lease = l].state = r.state
         /\ \A n : [r EXCEPT !.attempts = n].state = r.state
<1>1. /\ \A stage, w : ClaimedRow(r, stage, w).state = ClaimedAs[stage]
      /\ \A st : Unclaimed(r, st).state = st
      /\ DeletedRow(r).state = "DELETED"
      /\ \A sha : [r EXCEPT !.sha = sha].state = r.state
      /\ \A l : [r EXCEPT !.lease = l].state = r.state
      /\ \A n : [r EXCEPT !.attempts = n].state = r.state
  BY DEF Row, ClaimedRow, Unclaimed, DeletedRow
<1>2. RequeuedRow(r).state = Origin(r.state)
  BY <1>1 DEF RequeuedRow
<1>3. ReleasedRow(r).state = RequeuedRow(r).state
  BY DEF ReleasedRow, RequeuedRow, Unclaimed, Row
<1>4. \A path, split, sha : CompletedRow(r, path, split, sha).state = CompletedAs(r.state)
  BY DEF CompletedRow, Unclaimed, Row
<1> QED
  BY <1>1, <1>2, <1>3, <1>4

LEMMA NextMoves ==
  ASSUME Inv, MNext, NEW x \in Shards
  PROVE  Moves(x)
<1> USE DEF Moves
<1>1. \A s \in Shards : rows[s] \in Row /\ RowInv(rows[s], frozen)
  BY InvByRow DEF RowInv
<1>2. ASSUME NEW s \in Shards, NEW split, NEW sha, NEW path, NEW st,
             AddShard(s, split, sha, path, st)
      PROVE  Moves(x)
  <2>1. CASE rows[s].state = "ABSENT"
    BY <1>1, <1>2, <2>1 DEF AddShard
  <2> DEFINE q == [rows[s] EXCEPT !.sha = Coalesce(@, sha)]
  <2>2. CASE rows[s].state # "ABSENT"
    <3>1. rows' = [rows EXCEPT ![s] = q]
      BY <1>2, <2>2 DEF AddShard
    <3>2. q.state = rows[s].state
      BY <1>1, NewStates
    <3> HIDE DEF q
    <3> QED
      BY <3>1, <3>2, OneRowMoves
  <2> QED
    BY <2>1, <2>2
<1>3. ASSUME NEW s \in Shards, NEW w \in Curators, CuratorClaims(s, w)
      PROVE  Moves(x)
  BY <1>1, <1>3, OneRowMoves, NewStates
     DEF CuratorClaims, Claim, Claimable, ClaimableFrom, ClaimedAs
<1>4. ASSUME NEW s \in Shards, NEW w \in Trainers, TrainerClaims(s, w)
      PROVE  Moves(x)
  BY <1>1, <1>4, OneRowMoves, NewStates
     DEF TrainerClaims, Claim, Claimable, ClaimableFrom, ClaimedAs
<1>5. ASSUME NEW s \in Shards, NEW w, NEW path, NEW split, NEW sha,
             Complete(s, w, path, split, sha)
      PROVE  Moves(x)
  <2>1. CompletedRow(rows[s], path, split, sha).state = CompletedAs(rows[s].state)
    BY <1>1, NewStates
  <2>2. rows' = [rows EXCEPT ![s] = CompletedRow(rows[s], path, split, sha)]
        /\ rows[s].state \in Claimed
    BY <1>5 DEF Complete, CanComplete
  <2> QED
    BY <2>1, <2>2, OneRowMoves
<1>6. ASSUME NEW s \in Shards, NEW w, ReleaseClaim(s, w)
      PROVE  Moves(x)
  BY <1>1, <1>6, OneRowMoves, NewStates DEF ReleaseClaim, CanRelease
<1>7. ASSUME NEW s \in Shards, NEW l, rows' = [rows EXCEPT ![s].lease = l]
      PROVE  Moves(x)
  <2>1. [rows[s] EXCEPT !.lease = l].state = rows[s].state
    BY <1>1, NewStates
  <2> QED
    BY <1>7, <2>1, OneRowMoves
<1>8. ASSUME NEW s \in Shards, Fail(s)
      PROVE  Moves(x)
  <2>1. rows' = [rows EXCEPT ![s] = Unclaimed(rows[s], FailTarget(rows[s]))]
        /\ FailTarget(rows[s]) \in Legal[rows[s].state]
    BY <1>8 DEF Fail, CanFail
  <2>2. Unclaimed(rows[s], FailTarget(rows[s])).state = FailTarget(rows[s])
    BY <1>1, NewStates
  <2>3. \/ FailTarget(rows[s]) = "FAILED" /\ rows[s].attempts >= MaxAttempts
        \/ FailTarget(rows[s]) = Origin(rows[s].state)
    BY DEF FailTarget
  <2>4. rows[s].state \notin Claimed => Origin(rows[s].state) = rows[s].state
    BY DEF Claimed, Origin
  <2> QED
    BY <2>1, <2>2, <2>3, <2>4, OneRowMoves
<1>9. CASE RescueStranded
  BY <1>1, <1>9, NewStates DEF RescueStranded
<1>10. CASE RequeueExpired \/ AbandonClaims
  BY <1>1, <1>10, NewStates DEF RequeueExpired, AbandonClaims
<1>11. CASE \E S \in SUBSET Shards : MarkDeleted(S)
  BY <1>1, <1>11, NewStates DEF MarkDeleted, CanDelete
<1>12. CASE \E t \in Tokenizers : FreezeTokenizer(t)
  BY <1>12 DEF FreezeTokenizer
<1>13. CASE ClearTokenizerForRetrain
  BY <1>1, <1>13, NewStates DEF ClearTokenizerForRetrain, Legal
<1> QED
  BY <1>2, <1>3, <1>4, <1>5, <1>6, <1>7, <1>8, <1>9, <1>10, <1>11, <1>12, <1>13
     DEF MNext, CollectorAdds, CuratorAdds, CuratorCompletes, TrainerCompletes,
         Renew, LeaseLapses

(* Every row of every step moves along _LEGAL_TRANSITIONS, also where the  *)
(* code does not ask.                                                      *)
THEOREM MovesAreLegal == MSpec => LegalMoves
<1> DEFINE A == \A s \in Shards :
                  \/ rows'[s].state = rows[s].state
                  \/ rows[s].state = "ABSENT"
                  \/ rows'[s].state \in Legal[rows[s].state]
<1>1. Inv /\ [MNext]_mvars => [A]_mvars
  <2> SUFFICES ASSUME Inv, MNext, NEW s \in Shards
               PROVE  \/ rows'[s].state = rows[s].state
                      \/ rows[s].state = "ABSENT"
                      \/ rows'[s].state \in Legal[rows[s].state]
    OBVIOUS
  <2>1. Moves(s)
    BY NextMoves
  <2> QED
    BY <2>1 DEF Moves, Legal, Claimed, Origin, CompletedAs
<1> QED
  BY <1>1, ManifestInvariant, PTL DEF MSpec, LegalMoves

(* A held-out row is deleted only by the step that drops the freeze.       *)
THEOREM HeldOutOnlyCutOver == MSpec => HeldOutKept
<1> DEFINE A == \A s \in Shards :
                  /\ rows[s].split \in ProtectedSplits
                  /\ rows[s].state = "PACKED"
                  /\ rows'[s].state # "PACKED"
                  => frozen' = NULL
<1>1. Inv /\ [MNext]_mvars => [A]_mvars
  <2> SUFFICES ASSUME Inv, MNext, NEW s \in Shards,
                      rows[s].split \in ProtectedSplits,
                      rows[s].state = "PACKED", rows'[s].state # "PACKED"
               PROVE  frozen' = NULL
    OBVIOUS
  <2>1. Moves(s)
    BY NextMoves
  <2>2. rows[s].attempts = 0
    BY DEF Inv, HeldOutTerminal
  <2> QED
    BY <2>1, <2>2 DEF Moves, Claimed, ProtectedSplits
<1> QED
  BY <1>1, ManifestInvariant, PTL DEF MSpec, HeldOutKept
=============================================================================
