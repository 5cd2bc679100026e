-------------------------- MODULE ShardPipelineProofs --------------------------
(***************************************************************************)
(* Theorems about ShardPipeline, for any shards, tokenizers and process    *)
(* lives.  The processes use the manifest only as it is specified, so the  *)
(* invariant of ShardManifestProofs holds of them; on it rest the          *)
(* invariants that relate the rows to the memory of the processes and to   *)
(* the disk.  What eviction may break is proved without eviction.          *)
(***************************************************************************)
EXTENDS ShardPipeline, ShardManifestProofs, FiniteSetTheorems

CurRow == [ pc : CurPcs, shard : Sources \cup {NULL},
            lt : Tokenizers \cup {NULL}, todo : SUBSET ProtectedSplits ]
TrnRow == [ pc : TrnPcs, shard : Sources \cup {NULL} ]

(* What a process remembers in each of its steps.                          *)
CurFrame(f) ==
  /\ f \in CurRow
  /\ f.pc \notin {"off", "starting", "idle", "dead"} => f.shard \in Sources
  /\ f.pc = "registering" => /\ f.lt \in Tokenizers
                             /\ f.todo \subseteq SplitsOf[f.shard]
TrnFrame(f) ==
  /\ f \in TrnRow
  /\ f.pc \in {"claimed", "training", "failing"} => f.shard \in Sources

(* While the cutover runs nobody but the janitor does.                     *)
FramesOK ==
  /\ raw \in SUBSET Sources
  /\ packed \in [Shards -> Tokenizers \cup {NULL}]
  /\ tokfile \in Tokenizers \cup {NULL}
  /\ coll \in [pc : {"idle", "published", "registered"}, shard : Sources \cup {NULL}]
  /\ coll.pc # "idle" => coll.shard \in Sources
  /\ cur = [c \in Curators |-> cur[c]]
  /\ trn = [r \in Trainers |-> trn[r]]
  /\ \A c \in Curators : CurFrame(cur[c])
  /\ \A r \in Trainers : TrnFrame(trn[r])
  /\ jan \in [pc : {"idle", "chosen", "unlinked"}, batch : SUBSET Shards,
              raws : SUBSET Shards]
  /\ cut \in {"idle", "abandoned", "cleared"}
  /\ cut # "idle" => WorkersStopped

-----------------------------------------------------------------------------
(* Rows and memory. *)

CurHolds == {"claimed", "packing", "registering", "failing"}

CurOwns(c) ==
  \A s \in Sources : rows[s].by = c /\ cur[c].pc # "dead" =>
                       cur[c].shard = s /\ cur[c].pc \in CurHolds
(* A living curator is at work on every row that names it.                 *)
OwnersKnow == \A c \in Curators : CurOwns(c)

(* A shard that was packed never gets back to where it has to be packed,   *)
(* so a curator that is past complete() stays the only one.                *)
PackedOnce == {"PACKED", "CLAIMED_TRAIN", "CONSUMED", "DELETED", "FAILED"}
Finishing(c) == cur[c].pc \in {"completed", "removing"}
FinishersArePast ==
  \A c \in Curators : Finishing(c) => rows[cur[c].shard].state \in PackedOnce

-----------------------------------------------------------------------------
(* Rows and disk. *)

\* The rows of the sources are train rows, the others are held out; by its
\* guards on the split the janitor has chosen none of the others.
SplitsKept ==
  /\ \A s \in Sources : rows[s].split = "train"
  /\ \A i \in Shards \ Sources :
       rows[i].state # "ABSENT" => rows[i].split \in ProtectedSplits
  /\ jan.batch \subseteq Sources

NothingPacked ==
  \A i \in Shards : rows[i].state \notin Claimed \cup {"PACKED", "CONSUMED"}

HeldOutPacked ==
  /\ \A i \in Shards \ Sources : rows[i].state = "PACKED" => packed[i] # NULL
  /\ \A c \in Curators : cur[c].pc = "registering" =>
       \A split \in SplitsOf[cur[c].shard] \cap ProtectedSplits :
         packed[HeldOut(cur[c].shard, split)] # NULL
  /\ cut = "cleared" => NothingPacked

(* Without eviction the janitor works on what is consumed for good, ...    *)
Gone == {"CONSUMED", "DELETED"}
JanitorCalm ==
  jan.pc # "idle" => \A s \in jan.batch \cup jan.raws : rows[s].state \in Gone

(* ... so raw files go when their shard was packed, ...                    *)
Unpacked == {"RAW", "CLAIMED_CURATE"}
RawKept ==
  /\ RawSafe
  /\ coll.pc = "published" /\ rows[coll.shard].state = "ABSENT" => coll.shard \in raw

(* ... and packed files of sources when they were consumed.                *)
TrainPacked ==
  /\ \A s \in Sources :
       /\ rows[s].state \in {"PACKED", "CLAIMED_TRAIN"} /\ rows[s].path = "packed"
            => packed[s] # NULL
       /\ rows[s].state \in Unpacked => rows[s].path # "packed"
  /\ \A c \in Curators : cur[c].pc = "registering" /\ HasTrain(cur[c].shard) =>
       packed[cur[c].shard] # NULL \/ rows[cur[c].shard].state \in Gone

-----------------------------------------------------------------------------
(* The memory of the processes.  A step of a curator or a trainer writes   *)
(* its own entry only.                                                     *)

LEMMA CurFields ==
  ASSUME NEW f \in CurRow, NEW pc \in CurPcs
  PROVE  LET q == [f EXCEPT !.pc = pc] IN
         /\ q \in CurRow /\ q.pc = pc
         /\ q.shard = f.shard /\ q.lt = f.lt /\ q.todo = f.todo
  BY DEF CurRow

LEMMA TrnFields ==
  ASSUME NEW f \in TrnRow, NEW pc \in TrnPcs
  PROVE  LET q == [f EXCEPT !.pc = pc] IN
         q \in TrnRow /\ q.pc = pc /\ q.shard = f.shard
  BY DEF TrnRow

\* What a step of curator c does to the memories.
CurMoves(c) ==
  /\ UNCHANGED <<coll, emitted, trn, jan, cut, tokfile>>
  /\ cur' = [cur EXCEPT ![c] = cur'[c]]
  /\ CurFrame(cur'[c])
  /\ cut # "idle" => cur'[c].pc \in {"off", "dead"}

TrnMoves(r) ==
  /\ UNCHANGED <<disk, coll, emitted, cur, jan, cut>>
  /\ trn' = [trn EXCEPT ![r] = trn'[r]]
  /\ TrnFrame(trn'[r])
  /\ cut # "idle" => trn'[r].pc \in {"off", "dead"}

LEMMA CurMovesFrames ==
  ASSUME FramesOK, NEW c \in Curators, CurMoves(c),
         raw' \in SUBSET Sources, packed' \in [Shards -> Tokenizers \cup {NULL}]
  PROVE  FramesOK'
<1>1. \A d \in Curators : CurFrame(cur'[d])
  BY DEF CurMoves, FramesOK
<1>2. cut # "idle" => WorkersStopped'
  BY DEF CurMoves, FramesOK, WorkersStopped
<1> QED
  BY <1>1, <1>2 DEF CurMoves, FramesOK

LEMMA TrnMovesFrames ==
  ASSUME FramesOK, NEW r \in Trainers, TrnMoves(r)
  PROVE  FramesOK'
<1>1. \A d \in Trainers : TrnFrame(trn'[d])
  BY DEF TrnMoves, FramesOK
<1>2. cut # "idle" => WorkersStopped'
  BY DEF TrnMoves, FramesOK, WorkersStopped
<1> QED
  BY <1>1, <1>2 DEF TrnMoves, FramesOK, disk

(* A step that only changes the program counter.                           *)
LEMMA CurPcMoves ==
  ASSUME FramesOK, NEW c \in Curators, NEW pc \in CurPcs, CurGoes(c, pc),
         UNCHANGED <<coll, emitted, trn, jan, cut, tokfile>>,
         pc \notin {"off", "starting", "idle", "dead"} => cur[c].shard \in Sources,
         pc # "registering", cut = "idle" \/ pc \in {"off", "dead"}
  PROVE  CurMoves(c) /\ cur'[c].pc = pc /\ cur'[c].shard = cur[c].shard
<1> DEFINE q == [cur[c] EXCEPT !.pc = pc]
<1>1. cur[c] \in CurRow
  BY DEF FramesOK, CurFrame
<1>2. q \in CurRow /\ q.pc = pc /\ q.shard = cur[c].shard
  BY <1>1, CurFields
<1>3. cur' = [cur EXCEPT ![c] = q] /\ cur'[c] = q
  BY DEF CurGoes, FramesOK
<1> HIDE DEF q
<1>4. CurFrame(q)
  BY <1>2 DEF CurFrame
<1> QED
  BY <1>2, <1>3, <1>4 DEF CurMoves

LEMMA CurWrites ==
  ASSUME FramesOK, NEW c \in Curators, NEW q, CurFrame(q),
         cur' = [cur EXCEPT ![c] = q],
         UNCHANGED <<coll, emitted, trn, jan, cut, tokfile>>,
         cut = "idle" \/ q.pc \in {"off", "dead"}
  PROVE  CurMoves(c) /\ cur'[c] = q
<1>1. cur'[c] = q
  BY DEF FramesOK
<1> QED
  BY <1>1 DEF CurMoves

LEMMA CurAwake ==
  ASSUME FramesOK, NEW c \in Curators, cur[c].pc \notin {"off", "dead"}
  PROVE  cut = "idle"
  BY DEF FramesOK, WorkersStopped

LEMMA TrnAwake ==
  ASSUME FramesOK, NEW r \in Trainers, trn[r].pc \notin {"off", "dead"}
  PROVE  cut = "idle"
  BY DEF FramesOK, WorkersStopped

LEMMA CurClaimMoves ==
  ASSUME FramesOK, NEW c \in Curators, NEW s \in Sources, CurClaim(c, s)
  PROVE  CurMoves(c) /\ cur'[c].pc = "claimed" /\ cur'[c].shard = s
<1> DEFINE q == [cur[c] EXCEPT !.pc = "claimed", !.shard = s]
<1>1. cur[c] \in CurRow /\ cut = "idle"
  BY CurAwake DEF CurClaim, FramesOK, CurFrame
<1>2. q \in CurRow /\ q.pc = "claimed" /\ q.shard = s
  BY <1>1 DEF CurRow, CurPcs
<1>3. cur' = [cur EXCEPT ![c] = q]
  BY DEF CurClaim, FramesOK
<1> HIDE DEF q
<1>4. CurFrame(q)
  BY <1>2 DEF CurFrame
<1> QED
  BY <1>1, <1>2, <1>3, <1>4, CurWrites DEF CurClaim, CurOthers, disk

(* A curator that is done with its shard, in one way or the other.         *)
LEMMA CurDropMoves ==
  ASSUME FramesOK, NEW c \in Curators, CurRemoveRaw(c) \/ CurFail(c) \/ CurCrash(c)
  PROVE  /\ CurMoves(c) /\ cur'[c].pc \in {"idle", "dead"}
         /\ cur'[c].shard = NULL
<1>1. cur[c] \in CurRow /\ cut = "idle"
  BY CurAwake DEF CurRemoveRaw, CurFail, CurCrash, FramesOK, CurFrame
<1>2. PICK q : /\ cur' = [cur EXCEPT ![c] = q]
               /\ q \in CurRow /\ q.pc \in {"idle", "dead"} /\ q.shard = NULL
  <2>1. CASE CurRemoveRaw(c)
    <3> DEFINE q == [cur[c] EXCEPT !.pc = "idle", !.shard = NULL]
    <3>1. q \in CurRow /\ q.pc \in {"idle", "dead"} /\ q.shard = NULL
      BY <1>1 DEF CurRow, CurPcs
    <3>2. cur' = [cur EXCEPT ![c] = q]
      BY <2>1 DEF CurRemoveRaw, FramesOK
    <3> QED
      BY <3>1, <3>2
  <2>2. CASE CurFail(c) \/ CurCrash(c)
    <3>1. PICK pc \in {"idle", "dead"} :
            cur' = [cur EXCEPT ![c].pc = pc, ![c].shard = NULL, ![c].todo = {}]
      BY <2>2 DEF CurFail, CurCrash
    <3> DEFINE q == [cur[c] EXCEPT !.pc = pc, !.shard = NULL, !.todo = {}]
    <3>2. q \in CurRow /\ q.pc \in {"idle", "dead"} /\ q.shard = NULL
      BY <1>1 DEF CurRow, CurPcs
    <3>3. cur' = [cur EXCEPT ![c] = q]
      BY <3>1 DEF FramesOK
    <3> QED
      BY <3>2, <3>3
  <2> QED
    BY <2>1, <2>2
<1>3. CurFrame(q)
  BY <1>2 DEF CurFrame
<1> QED
  BY <1>1, <1>2, <1>3, CurWrites DEF CurRemoveRaw, CurFail, CurCrash, CurOthers, disk

LEMMA CurPackMoves ==
  ASSUME FramesOK, NEW c \in Curators, CurPack(c)
  PROVE  /\ CurMoves(c) /\ cur'[c].pc = "registering"
         /\ cur'[c].shard = cur[c].shard
         /\ \E lt \in Tokenizers :
              packed' = [i \in Shards |->
                           IF \E split \in SplitsOf[cur[c].shard] : i = IdOf(cur[c].shard, split)
                           THEN lt ELSE packed[i]]
<1> DEFINE s == cur[c].shard
           lt == IF cur[c].lt # NULL THEN cur[c].lt ELSE tokfile
           q == [cur[c] EXCEPT !.pc = "registering", !.lt = lt,
                               !.todo = SplitsOf[s] \cap ProtectedSplits]
<1>1. cur[c] \in CurRow /\ cut = "idle" /\ s \in Sources
  BY CurAwake DEF CurPack, FramesOK, CurFrame
<1>2. lt \in Tokenizers
  BY <1>1 DEF CurPack, CurRow, FramesOK
<1>3. cur' = [cur EXCEPT ![c] = q]
  BY DEF CurPack, FramesOK
<1>4. packed' = [i \in Shards |-> IF \E split \in SplitsOf[s] : i = IdOf(s, split)
                                  THEN lt ELSE packed[i]]
  BY DEF CurPack
<1> HIDE DEF lt
<1>5. /\ q \in CurRow /\ q.pc = "registering" /\ q.shard = s /\ q.lt = lt
      /\ q.todo = SplitsOf[s] \cap ProtectedSplits
  BY <1>1, <1>2 DEF CurRow, CurPcs
<1> HIDE DEF q
<1>6. CurFrame(q)
  BY <1>1, <1>2, <1>5 DEF CurFrame
<1> QED
  BY <1>1, <1>2, <1>3, <1>4, <1>5, <1>6, CurWrites DEF CurPack

LEMMA CurRegisterMoves ==
  ASSUME FramesOK, NEW c \in Curators, NEW split \in ProtectedSplits,
         CurRegister(c, split)
  PROVE  CurMoves(c) /\ cur'[c].pc = "registering" /\ cur'[c].shard = cur[c].shard
<1> DEFINE q == [cur[c] EXCEPT !.todo = @ \ {split}]
<1>1. CurFrame(cur[c]) /\ cut = "idle" /\ cur[c].pc = "registering"
  BY CurAwake DEF CurRegister, FramesOK
<1>2. /\ q \in CurRow /\ q.pc = "registering" /\ q.shard = cur[c].shard
      /\ q.lt = cur[c].lt /\ q.todo = cur[c].todo \ {split}
  BY <1>1 DEF CurRow, CurFrame
<1>3. cur' = [cur EXCEPT ![c] = q]
  BY DEF CurRegister, FramesOK
<1> HIDE DEF q
<1>4. CurFrame(q)
  BY <1>1, <1>2 DEF CurFrame
<1> QED
  BY <1>1, <1>2, <1>3, <1>4, CurWrites DEF CurRegister, CurOthers, disk

(* The other steps of a curator only move its program counter.             *)
LEMMA CurPlainMoves ==
  ASSUME FramesOK, NEW c \in Curators,
         \/ CurStart(c) \/ CurRequeue(c) \/ CurRead(c)
         \/ CurComplete(c) \/ CurRetire(c) \/ CurError(c)
  PROVE  /\ CurMoves(c) /\ cur'[c].shard = cur[c].shard
         /\ CurStart(c) => cur'[c].pc = "starting"
         /\ CurRequeue(c) => cur'[c].pc = "idle"
         /\ CurRead(c) => cur'[c].pc = "packing"
         /\ CurComplete(c) => cur'[c].pc \in {"removing", "completed"}
         /\ CurRetire(c) => cur'[c].pc = "removing"
         /\ CurError(c) => cur'[c].pc = "failing"
<1>1. CurFrame(cur[c]) /\ cut = "idle"
  BY CurAwake DEF CurStart, CurRequeue, CurRead, CurComplete, CurRetire, CurError,
                  CurRaises, FramesOK
<1>2. UNCHANGED <<coll, emitted, trn, jan, cut, tokfile>>
  BY DEF CurStart, CurRequeue, CurRead, CurComplete, CurRetire, CurError, CurOthers, disk
<1>3. ASSUME NEW pc \in {"starting", "idle", "packing", "removing", "completed", "failing"},
             CurGoes(c, pc), pc \in {"starting", "idle"} \/ cur[c].shard \in Sources
      PROVE  CurMoves(c) /\ cur'[c].pc = pc /\ cur'[c].shard = cur[c].shard
  BY <1>1, <1>2, <1>3, CurPcMoves DEF CurPcs
<1>4. CASE CurStart(c)
  BY <1>1, <1>3, <1>4 DEF CurStart, CurRequeue, CurRead, CurComplete, CurRetire, CurError,
                          CurRaises
<1>5. CASE CurRequeue(c)
  BY <1>1, <1>3, <1>5 DEF CurStart, CurRequeue, CurRead, CurComplete, CurRetire, CurError,
                          CurRaises
<1>6. CASE CurRead(c)
  BY <1>1, <1>3, <1>6 DEF CurStart, CurRequeue, CurRead, CurComplete, CurRetire, CurError,
                          CurRaises, CurFrame, CurGoes
<1>7. CASE CurComplete(c)
  BY <1>1, <1>3, <1>7 DEF CurStart, CurRequeue, CurRead, CurComplete, CurRetire, CurError,
                          CurRaises, CurFrame, CurGoes
<1>8. CASE CurRetire(c)
  BY <1>1, <1>3, <1>8 DEF CurStart, CurRequeue, CurRead, CurComplete, CurRetire, CurError,
                          CurRaises, CurFrame, CurGoes
<1>9. CASE CurError(c)
  BY <1>1, <1>3, <1>9 DEF CurStart, CurRequeue, CurRead, CurComplete, CurRetire, CurError,
                          CurRaises, CurFrame, CurGoes
<1> QED
  BY <1>4, <1>5, <1>6, <1>7, <1>8, <1>9

LEMMA CuratorFrames ==
  ASSUME FramesOK, NEW c \in Curators, CuratorStep(c) \/ CurCrash(c)
  PROVE  FramesOK'
<1>1. CASE CurPack(c)
  <2>1. packed' \in [Shards -> Tokenizers \cup {NULL}]
    BY <1>1, CurPackMoves DEF FramesOK
  <2> QED
    BY <1>1, <2>1, CurPackMoves, CurMovesFrames DEF CurPack, FramesOK
<1>2. CASE CurRemoveRaw(c)
  BY <1>2, CurDropMoves, CurMovesFrames DEF CurRemoveRaw, FramesOK
<1>3. CASE CurRenew(c)
  BY <1>3 DEF CurRenew, CurOthers, disk, FramesOK, WorkersStopped
<1>4. CASE CurFail(c) \/ CurCrash(c)
  BY <1>4, CurDropMoves, CurMovesFrames DEF CurFail, CurCrash, CurOthers, disk, FramesOK
<1>5. CASE \E s \in Sources : CurClaim(c, s)
  BY <1>5, CurClaimMoves, CurMovesFrames DEF CurClaim, CurOthers, disk, FramesOK
<1>6. CASE \E split \in ProtectedSplits : CurRegister(c, split)
  BY <1>6, CurRegisterMoves, CurMovesFrames DEF CurRegister, CurOthers, disk, FramesOK
<1>7. CASE \/ CurStart(c) \/ CurRequeue(c) \/ CurRead(c)
           \/ CurComplete(c) \/ CurRetire(c) \/ CurError(c)
  BY <1>7, CurPlainMoves, CurMovesFrames
     DEF CurStart, CurRequeue, CurRead, CurComplete, CurRetire, CurError, CurOthers,
         disk, FramesOK
<1> QED
  BY <1>1, <1>2, <1>3, <1>4, <1>5, <1>6, <1>7 DEF CuratorStep

-----------------------------------------------------------------------------
(* The trainers. *)

LEMMA TrnWrites ==
  ASSUME FramesOK, NEW r \in Trainers, NEW q, TrnFrame(q),
         trn' = [trn EXCEPT ![r] = q], TrnOthers,
         cut = "idle" \/ q.pc \in {"off", "dead"}
  PROVE  TrnMoves(r) /\ trn'[r] = q
<1>1. trn'[r] = q
  BY DEF FramesOK
<1> QED
  BY <1>1 DEF TrnMoves, TrnOthers, disk

LEMMA TrnClaimMoves ==
  ASSUME FramesOK, NEW r \in Trainers, NEW s \in Sources, TrnClaim(r, s)
  PROVE  TrnMoves(r) /\ trn'[r].pc = "claimed" /\ trn'[r].shard = s
<1> DEFINE q == [trn[r] EXCEPT !.pc = "claimed", !.shard = s]
<1>1. trn[r] \in TrnRow /\ cut = "idle"
  BY TrnAwake DEF TrnClaim, FramesOK, TrnFrame
<1>2. q \in TrnRow /\ q.pc = "claimed" /\ q.shard = s
  BY <1>1 DEF TrnRow, TrnPcs
<1>3. trn' = [trn EXCEPT ![r] = q]
  BY DEF TrnClaim, FramesOK
<1> HIDE DEF q
<1>4. TrnFrame(q)
  BY <1>2 DEF TrnFrame
<1> QED
  BY <1>1, <1>2, <1>3, <1>4, TrnWrites DEF TrnClaim

LEMMA TrnPlainMoves ==
  ASSUME FramesOK, NEW r \in Trainers, NEW pc \in TrnPcs, TrnGoes(r, pc), TrnOthers,
         pc \in {"claimed", "training", "failing"} => trn[r].shard \in Sources,
         cut = "idle"
  PROVE  TrnMoves(r) /\ trn'[r].pc = pc /\ trn'[r].shard = trn[r].shard
<1> DEFINE q == [trn[r] EXCEPT !.pc = pc]
<1>1. trn[r] \in TrnRow
  BY DEF FramesOK, TrnFrame
<1>2. q \in TrnRow /\ q.pc = pc /\ q.shard = trn[r].shard
  BY <1>1, TrnFields
<1>3. trn' = [trn EXCEPT ![r] = q]
  BY DEF TrnGoes
<1> HIDE DEF q
<1>4. TrnFrame(q)
  BY <1>2 DEF TrnFrame
<1> QED
  BY <1>2, <1>3, <1>4, TrnWrites

LEMMA TrnDropMoves ==
  ASSUME FramesOK, NEW r \in Trainers, NEW pc \in {"idle", "dead"}, TrnDrops(r, pc),
         TrnOthers, cut = "idle"
  PROVE  TrnMoves(r) /\ trn'[r].pc = pc /\ trn'[r].shard = NULL
<1> DEFINE q == [trn[r] EXCEPT !.pc = pc, !.shard = NULL]
<1>1. trn[r] \in TrnRow
  BY DEF FramesOK, TrnFrame
<1>2. q \in TrnRow /\ q.pc = pc /\ q.shard = NULL
  BY <1>1 DEF TrnRow, TrnPcs
<1>3. trn' = [trn EXCEPT ![r] = q]
  BY DEF TrnDrops, FramesOK
<1> HIDE DEF q
<1>4. TrnFrame(q)
  BY <1>2 DEF TrnFrame
<1> QED
  BY <1>2, <1>3, <1>4, TrnWrites

LEMMA TrainerFrames ==
  ASSUME FramesOK, NEW r \in Trainers, TrainerStep(r) \/ TrnCrash(r)
  PROVE  FramesOK'
<1>1. TrnFrame(trn[r])
  BY DEF FramesOK
<1>2. CASE TrnStart(r) \/ TrnRequeue(r) \/ TrnRescue(r) \/ TrnLoad(r)
  <2>1. cut = "idle"
    BY <1>2, TrnAwake DEF TrnStart, TrnRequeue, TrnRescue, TrnLoad
  <2>2. PICK pc \in {"starting", "rescuing", "idle", "training", "failing"} :
          /\ TrnGoes(r, pc) /\ TrnOthers
          /\ pc \in {"claimed", "training", "failing"} => trn[r].shard \in Sources
    BY <1>1, <1>2 DEF TrnStart, TrnRequeue, TrnRescue, TrnLoad, TrnFrame
  <2> QED
    BY <2>1, <2>2, TrnPlainMoves, TrnMovesFrames DEF TrnPcs
<1>3. CASE TrnFail(r) \/ TrnFinish(r) \/ TrnExit(r) \/ TrnCrash(r)
  <2>1. cut = "idle"
    BY <1>3, TrnAwake DEF TrnFail, TrnFinish, TrnExit, TrnCrash
  <2>2. PICK pc \in {"idle", "dead"} : TrnDrops(r, pc) /\ TrnOthers
    BY <1>3 DEF TrnFail, TrnFinish, TrnExit, TrnCrash
  <2> QED
    BY <2>1, <2>2, TrnDropMoves, TrnMovesFrames
<1>4. CASE \E s \in Sources : TrnClaim(r, s)
  BY <1>4, TrnClaimMoves, TrnMovesFrames
<1>5. CASE TrnRenew(r)
  BY <1>5 DEF TrnRenew, TrnOthers, disk, FramesOK, WorkersStopped
<1> QED
  BY <1>2, <1>3, <1>4, <1>5 DEF TrainerStep

-----------------------------------------------------------------------------
(* The frames of every step. *)

LEMMA FramesInit == Init => FramesOK
  BY DEF Init, FramesOK, CurFrame, TrnFrame, CurRow, TrnRow, CurPcs, TrnPcs, JanIdle,
         WorkersStopped

LEMMA CollectorFrames ==
  ASSUME FramesOK, CollectorNext
  PROVE  FramesOK'
<1>1. CASE \E s \in Sources : Publish(s)
  BY <1>1 DEF Publish, FramesOK, WorkersStopped
<1>2. CASE Register
  BY <1>2 DEF Register, disk, FramesOK, WorkersStopped
<1>3. CASE AdvanceCursor \/ CollectorCrash
  BY <1>3 DEF AdvanceCursor, CollectorCrash, disk, FramesOK, WorkersStopped
<1> QED
  BY <1>1, <1>2, <1>3 DEF CollectorNext

LEMMA JanitorFrames ==
  ASSUME FramesOK, JanitorNext
  PROVE  FramesOK'
<1>1. CASE \E S \in SUBSET Shards : Reclaim(S) \/ Evict(S)
  BY <1>1 DEF Reclaim, Evict, Chooses, JanOthers, disk, FramesOK, WorkersStopped
<1>2. CASE Unlink
  <2>1. /\ raw' \in SUBSET Sources
        /\ packed' \in [Shards -> Tokenizers \cup {NULL}]
        /\ tokfile' = tokfile
        /\ jan' \in [pc : {"idle", "chosen", "unlinked"}, batch : SUBSET Shards,
                     raws : SUBSET Shards]
    BY <1>2 DEF Unlink, JanGoes, FramesOK
  <2> QED
    BY <1>2, <2>1 DEF Unlink, JanOthers, FramesOK, WorkersStopped
<1>3. CASE JanMark \/ JanCrash
  BY <1>3 DEF JanMark, JanCrash, JanIdle, JanOthers, disk, FramesOK, WorkersStopped
<1> QED
  BY <1>1, <1>2, <1>3 DEF JanitorNext

LEMMA OperatorFrames ==
  ASSUME FramesOK, OperatorNext \/ \E s \in Sources : Lapse(s)
  PROVE  FramesOK'
<1>1. CASE \E t \in Tokenizers : TrainTokenizer(t)
  BY <1>1 DEF TrainTokenizer, FramesOK, WorkersStopped
<1>2. CASE Freeze \/ \E s \in Sources : Lapse(s)
  BY <1>2 DEF Freeze, Lapse, disk, FramesOK, WorkersStopped
<1>3. CASE CutAbandon \/ CutClear
  BY <1>3 DEF CutAbandon, CutClear, disk, FramesOK, WorkersStopped
<1>4. CASE CutRemovePacked
  BY <1>4 DEF CutRemovePacked, FramesOK, WorkersStopped
<1>5. CASE CutCrash
  BY <1>5 DEF CutCrash, FramesOK, WorkersStopped
<1> QED
  BY <1>1, <1>2, <1>3, <1>4, <1>5 DEF OperatorNext

LEMMA FramesNext ==
  ASSUME FramesOK, [Next]_vars
  PROVE  FramesOK'
<1>1. CASE UNCHANGED vars
  BY <1>1 DEF vars, FramesOK, WorkersStopped
<1> QED
  BY <1>1, CollectorFrames, CuratorFrames, TrainerFrames, JanitorFrames, OperatorFrames
     DEF Next

-----------------------------------------------------------------------------
(* Refinement: each step is one call of the manifest, or none. *)

USE SourcesAssumption

LEMMA CuratorCalls ==
  ASSUME FramesOK, NEW c \in Curators, CuratorStep(c) \/ CurCrash(c)
  PROVE  [MNext]_mvars
<1>1. CurFrame(cur[c]) /\ c \in Workers
  BY DEF FramesOK, Workers
<1>2. CASE CurRequeue(c)
  BY <1>2 DEF CurRequeue, MNext
<1>3. CASE \E s \in Sources : CurClaim(c, s)
  BY <1>3 DEF CurClaim, MNext
<1>4. CASE CurRenew(c)
  BY <1>1, <1>4 DEF CurRenew, MNext, CurFrame
<1>5. CASE \E split \in ProtectedSplits : CurRegister(c, split)
  <2>1. PICK split \in ProtectedSplits : CurRegister(c, split)
    BY <1>5
  <2>2. HeldOut(cur[c].shard, split) \in Shards /\ cur[c].lt \in Tokenizers
    BY <1>1, <2>1 DEF CurRegister, CurFrame
  <2> QED
    BY <2>1, <2>2 DEF CurRegister, MNext
<1>6. CASE CurComplete(c)
  <2>1. cur[c].shard \in Shards /\ cur[c].lt \in Tokenizers
    BY <1>1, <1>6 DEF CurComplete, CurFrame
  <2>2. PICK path \in {"packed", NULL} : CuratorCompletes(cur[c].shard, c, path, cur[c].lt)
    BY <1>6 DEF CurComplete
  <2> QED
    BY <2>1, <2>2 DEF MNext
<1>7. CASE CurRetire(c)
  BY <1>1, <1>7 DEF CurRetire, MNext, CurFrame
<1>8. CASE CurFail(c)
  BY <1>1, <1>8 DEF CurFail, MNext, CurFrame, mvars
<1>9. CASE \/ CurStart(c) \/ CurRead(c) \/ CurPack(c) \/ CurRemoveRaw(c)
           \/ CurError(c) \/ CurCrash(c)
  BY <1>9 DEF CurStart, CurRead, CurPack, CurRemoveRaw, CurError, CurCrash, mvars
<1> QED
  BY <1>2, <1>3, <1>4, <1>5, <1>6, <1>7, <1>8, <1>9 DEF CuratorStep

LEMMA TrainerCalls ==
  ASSUME FramesOK, NEW r \in Trainers, TrainerStep(r) \/ TrnCrash(r)
  PROVE  [MNext]_mvars
<1>1. TrnFrame(trn[r]) /\ r \in Workers
  BY DEF FramesOK, Workers
<1>2. CASE TrnRequeue(r) \/ TrnRescue(r)
  BY <1>2 DEF TrnRequeue, TrnRescue, MNext
<1>3. CASE \E s \in Sources : TrnClaim(r, s)
  BY <1>3 DEF TrnClaim, MNext
<1>4. CASE TrnRenew(r)
  BY <1>1, <1>4 DEF TrnRenew, MNext, TrnFrame
<1>5. CASE TrnFail(r)
  BY <1>1, <1>5 DEF TrnFail, MNext, TrnFrame, mvars
<1>6. CASE TrnFinish(r)
  BY <1>1, <1>6 DEF TrnFinish, MNext, TrnFrame, mvars
<1>7. CASE TrnExit(r)
  BY <1>1, <1>7 DEF TrnExit, MNext, TrnFrame, mvars
<1>8. CASE TrnStart(r) \/ TrnLoad(r) \/ TrnCrash(r)
  BY <1>8 DEF TrnStart, TrnLoad, TrnCrash, mvars
<1> QED
  BY <1>2, <1>3, <1>4, <1>5, <1>6, <1>7, <1>8 DEF TrainerStep

LEMMA OtherCalls ==
  ASSUME FramesOK,
         CollectorNext \/ JanitorNext \/ OperatorNext \/ \E s \in Sources : Lapse(s)
  PROVE  [MNext]_mvars
<1>1. CASE Register
  BY <1>1 DEF Register, FramesOK, MNext
<1>2. CASE JanMark
  <2>1. jan.batch \in SUBSET Shards
    BY DEF FramesOK
  <2> QED
    BY <1>2, <2>1 DEF JanMark, MNext, mvars
<1>3. CASE Freeze
  BY <1>3 DEF Freeze, FramesOK, MNext
<1>4. CASE CutAbandon \/ CutClear
  BY <1>4 DEF CutAbandon, CutClear, MNext
<1>5. CASE \E s \in Sources : Lapse(s)
  BY <1>5 DEF Lapse, MNext
<1>6. CASE \/ (\E s \in Sources : Publish(s)) \/ AdvanceCursor \/ CollectorCrash
           \/ (\E S \in SUBSET Shards : Reclaim(S) \/ Evict(S)) \/ Unlink \/ JanCrash
           \/ (\E t \in Tokenizers : TrainTokenizer(t)) \/ CutRemovePacked \/ CutCrash
  BY <1>6 DEF Publish, AdvanceCursor, CollectorCrash, Reclaim, Evict, Chooses, Unlink, JanCrash,
              TrainTokenizer, CutRemovePacked, CutCrash, mvars
<1> QED
  BY <1>1, <1>2, <1>3, <1>4, <1>5, <1>6 DEF CollectorNext, JanitorNext, OperatorNext

LEMMA StepCalls ==
  ASSUME FramesOK, [Next]_vars
  PROVE  [MNext]_mvars
<1>1. CASE UNCHANGED vars
  BY <1>1 DEF vars, mvars
<1> QED
  BY <1>1, CuratorCalls, TrainerCalls, OtherCalls DEF Next

LEMMA FramesInvariant == Spec => []FramesOK
  BY FramesInit, FramesNext, PTL DEF Spec

(* Whatever the processes do, in any interleaving and however they crash,  *)
(* is a sequence of calls the manifest's specification allows.             *)
THEOREM PipelineImplementsManifest == Spec => ImplementsManifest
<1>1. Init => MInit
  BY DEF Init
<1> QED
  BY <1>1, FramesInvariant, StepCalls, PTL DEF Spec, ImplementsManifest, MSpec

-----------------------------------------------------------------------------
(* What a step does to the rows.  Most calls leave a row with the owner,   *)
(* path and split it has, or take the first two away; the others write the *)
(* one row they are about.                                                 *)

Quiet(i) ==
  /\ rows'[i].split = rows[i].split
  /\ rows'[i].path \in {rows[i].path, NULL}
  /\ rows'[i].by \in {rows[i].by, NULL}
  /\ \/ rows'[i].state = rows[i].state
     \/ rows[i].state \in Claimed /\ rows'[i].state = Origin(rows[i].state)
     \/ rows[i].state # "ABSENT" /\ rows'[i].state \in {"FAILED", "DELETED"}

AllQuiet == \A i \in Shards : Quiet(i)

LEMMA RowFields ==
  ASSUME NEW r \in Row
  PROVE  /\ \A l : LET q == [r EXCEPT !.lease = l] IN
              q.state = r.state /\ q.split = r.split /\ q.path = r.path /\ q.by = r.by
         /\ \A n : LET q == [r EXCEPT !.attempts = n] IN
              q.state = r.state /\ q.split = r.split /\ q.path = r.path /\ q.by = r.by
         /\ \A sha : LET q == [r EXCEPT !.sha = sha] IN
              q.state = r.state /\ q.split = r.split /\ q.path = r.path /\ q.by = r.by
         /\ \A st : LET q == Unclaimed(r, st) IN
              q.state = st /\ q.split = r.split /\ q.path = r.path /\ q.by = NULL
         /\ \A stage, w : LET q == ClaimedRow(r, stage, w) IN
              /\ q.state = ClaimedAs[stage] /\ q.split = r.split
              /\ q.path = r.path /\ q.by = w
         /\ LET q == DeletedRow(r) IN
              q.state = "DELETED" /\ q.split = r.split /\ q.path = NULL /\ q.by = r.by
  BY DEF Row, Unclaimed, ClaimedRow, DeletedRow

LEMMA ReleasedFields ==
  ASSUME NEW r \in Row
  PROVE  LET q == ReleasedRow(r) IN
         q.state = Origin(r.state) /\ q.split = r.split /\ q.path = r.path /\ q.by = NULL
  BY DEF Row, ReleasedRow, RequeuedRow, Unclaimed

LEMMA CompletedFields ==
  ASSUME NEW r \in Row, NEW path, NEW split, NEW sha
  PROVE  LET q == CompletedRow(r, path, split, sha) IN
         /\ q.state = CompletedAs(r.state) /\ q.split = Coalesce(split, r.split)
         /\ q.path = Coalesce(path, r.path) /\ q.by = NULL
  BY DEF Row, CompletedRow, Unclaimed

LEMMA InvRows ==
  ASSUME Inv
  PROVE  rows = [s \in Shards |-> rows[s]] /\ \A s \in Shards : rows[s] \in Row
  BY InvByRow DEF RowInv

LEMMA OneQuiet ==
  ASSUME Inv, NEW s \in Shards, NEW q, rows' = [rows EXCEPT ![s] = q],
         /\ q.split = rows[s].split
         /\ q.path \in {rows[s].path, NULL}
         /\ q.by \in {rows[s].by, NULL}
         /\ \/ q.state = rows[s].state
            \/ rows[s].state \in Claimed /\ q.state = Origin(rows[s].state)
            \/ rows[s].state # "ABSENT" /\ q.state \in {"FAILED", "DELETED"}
  PROVE  AllQuiet
<1>1. rows'[s] = q /\ \A i \in Shards \ {s} : rows'[i] = rows[i]
  BY InvRows
<1>2. Quiet(s)
  BY <1>1 DEF Quiet
<1> QED
  BY <1>1, <1>2 DEF AllQuiet, Quiet

LEMMA LeaseQuiet ==
  ASSUME Inv, NEW s \in Shards, (\E w : Renew(s, w)) \/ LeaseLapses(s)
  PROVE  AllQuiet
<1>1. PICK l : rows' = [rows EXCEPT ![s].lease = l]
  BY DEF Renew, LeaseLapses
<1> DEFINE q == [rows[s] EXCEPT !.lease = l]
<1>2. rows' = [rows EXCEPT ![s] = q]
  BY <1>1
<1>3. q.state = rows[s].state /\ q.split = rows[s].split /\ q.path = rows[s].path
      /\ q.by = rows[s].by
  BY InvRows, RowFields
<1> HIDE DEF q
<1> QED
  BY <1>2, <1>3, OneQuiet

LEMMA FailQuiet ==
  ASSUME Inv, NEW s \in Shards, Fail(s)
  PROVE  AllQuiet /\ rows'[s].by = NULL
<1> DEFINE q == Unclaimed(rows[s], FailTarget(rows[s]))
<1>1. rows' = [rows EXCEPT ![s] = q]
  BY DEF Fail
<1>2. /\ q.split = rows[s].split /\ q.path = rows[s].path /\ q.by = NULL
      /\ q.state = FailTarget(rows[s])
  BY InvRows, RowFields
<1>3. \/ q.state = rows[s].state
      \/ rows[s].state \in Claimed /\ q.state = Origin(rows[s].state)
      \/ rows[s].state # "ABSENT" /\ q.state \in {"FAILED", "DELETED"}
  BY <1>2 DEF Fail, CanFail, FailTarget, Legal, Origin, Claimed
<1> HIDE DEF q
<1> QED
  BY <1>1, <1>2, <1>3, OneQuiet, InvRows

LEMMA ReleaseQuiet ==
  ASSUME Inv, NEW s \in Shards, NEW w, ReleaseClaim(s, w)
  PROVE  AllQuiet /\ rows'[s].by = NULL
<1>1. /\ ReleasedRow(rows[s]).split = rows[s].split
      /\ ReleasedRow(rows[s]).path = rows[s].path
      /\ ReleasedRow(rows[s]).by = NULL
      /\ ReleasedRow(rows[s]).state = Origin(rows[s].state)
  BY InvRows, ReleasedFields
<1> QED
  BY <1>1, OneQuiet, InvRows DEF ReleaseClaim, CanRelease

LEMMA SweepQuiet ==
  ASSUME Inv,
         \/ RescueStranded \/ RequeueExpired \/ AbandonClaims \/ ClearTokenizerForRetrain
         \/ \E S : MarkDeleted(S)
  PROVE  AllQuiet
<1>1. ASSUME NEW s \in Shards PROVE Quiet(s)
  <2>1. rows[s] \in Row
    BY InvRows
  <2>2. \/ rows'[s] = rows[s]
        \/ rows'[s] = [rows[s] EXCEPT !.attempts = 0]
        \/ rows[s].state \in Claimed /\ rows'[s] = Unclaimed(rows[s], Origin(rows[s].state))
        \/ rows[s].state # "ABSENT" /\ rows'[s] = DeletedRow(rows[s])
    BY DEF RescueStranded, RequeueExpired, AbandonClaims, ClearTokenizerForRetrain,
           MarkDeleted, RequeuedRow
  <2>3. CASE rows'[s] = rows[s]
    BY <2>3 DEF Quiet
  <2>4. CASE rows'[s] = [rows[s] EXCEPT !.attempts = 0]
    BY <2>1, <2>4, RowFields DEF Quiet
  <2>5. CASE rows[s].state \in Claimed /\ rows'[s] = Unclaimed(rows[s], Origin(rows[s].state))
    BY <2>1, <2>5, RowFields DEF Quiet
  <2>6. CASE rows[s].state # "ABSENT" /\ rows'[s] = DeletedRow(rows[s])
    BY <2>1, <2>6, RowFields DEF Quiet
  <2> QED
    BY <2>2, <2>3, <2>4, <2>5, <2>6
<1> QED
  BY <1>1 DEF AllQuiet

LEMMA StillQuiet ==
  ASSUME UNCHANGED rows
  PROVE  AllQuiet
  BY DEF AllQuiet, Quiet

(* The calls that are not quiet: they write row s, and no other.           *)
OnlyRow(s) == \A i \in Shards \ {s} : rows'[i] = rows[i]

LEMMA AddEffect ==
  ASSUME Inv, NEW s \in Shards, NEW split, NEW sha, NEW path, NEW st,
         AddShard(s, split, sha, path, st)
  PROVE  /\ OnlyRow(s)
         /\ rows[s].state = "ABSENT" => rows'[s] = NewRow(split, sha, path, st)
         /\ rows[s].state # "ABSENT" =>
              AllQuiet /\ rows'[s].state = rows[s].state /\ rows'[s].path = rows[s].path
                       /\ rows[s].split = split
<1>1. CASE rows[s].state = "ABSENT"
  BY <1>1, InvRows DEF AddShard, OnlyRow
<1>2. CASE rows[s].state # "ABSENT"
  <2> DEFINE q == [rows[s] EXCEPT !.sha = Coalesce(@, sha)]
  <2>1. rows' = [rows EXCEPT ![s] = q] /\ rows[s].split = split
    BY <1>2 DEF AddShard, Conflicts
  <2>2. q.state = rows[s].state /\ q.split = rows[s].split /\ q.path = rows[s].path
        /\ q.by = rows[s].by
    BY InvRows, RowFields
  <2> HIDE DEF q
  <2> QED
    BY <1>2, <2>1, <2>2, InvRows, OneQuiet DEF OnlyRow
<1> QED
  BY <1>1, <1>2

LEMMA ClaimEffect ==
  ASSUME Inv, NEW s \in Shards, NEW stage, NEW w, NEW splits, Claim(stage, s, w, splits)
  PROVE  /\ OnlyRow(s)
         /\ rows[s].state = ClaimableFrom[stage] /\ rows[s].split \in splits
         /\ rows'[s].state = ClaimedAs[stage] /\ rows'[s].by = w
         /\ rows'[s].split = rows[s].split /\ rows'[s].path = rows[s].path
<1>1. rows'[s] = ClaimedRow(rows[s], stage, w) /\ OnlyRow(s)
  BY InvRows DEF Claim, OnlyRow
<1> QED
  BY <1>1, InvRows, RowFields DEF Claim, Claimable

LEMMA CompleteEffect ==
  ASSUME Inv, NEW s \in Shards, NEW w, NEW path, NEW split, NEW sha,
         Complete(s, w, path, split, sha)
  PROVE  /\ OnlyRow(s)
         /\ rows[s].by = w /\ rows[s].state \in Claimed
         /\ rows'[s].state = CompletedAs(rows[s].state) /\ rows'[s].by = NULL
         /\ rows'[s].split = Coalesce(split, rows[s].split)
         /\ rows'[s].path = Coalesce(path, rows[s].path)
<1>1. rows'[s] = CompletedRow(rows[s], path, split, sha) /\ OnlyRow(s)
  BY InvRows DEF Complete, OnlyRow
<1>2. rows[s] \in Row
  BY InvRows
<1> QED
  BY <1>1, <1>2, CompletedFields DEF Complete, CanComplete

\* The steps whose call is not quiet.
Finishes(r) == TrnFinish(r) /\ TrainerCompletes(trn[r].shard, r)
LoudCurator(c) ==
  \/ \E s \in Sources : CurClaim(c, s)
  \/ \E split \in ProtectedSplits : CurRegister(c, split)
  \/ CurComplete(c)
LoudTrainer(r) == (\E s \in Sources : TrnClaim(r, s)) \/ Finishes(r)

LEMMA CuratorQuiet ==
  ASSUME Inv, FramesOK, NEW c \in Curators, CuratorStep(c) \/ CurCrash(c), ~LoudCurator(c)
  PROVE  AllQuiet
<1>1. CASE CurRequeue(c)
  BY <1>1, SweepQuiet DEF CurRequeue
<1>2. CASE CurRenew(c)
  BY <1>2, LeaseQuiet DEF CurRenew, FramesOK, CurFrame
<1>3. CASE CurRetire(c)
  BY <1>3, SweepQuiet DEF CurRetire
<1>4. CASE CurFail(c)
  BY <1>4, FailQuiet, StillQuiet DEF CurFail, FramesOK, CurFrame
<1>5. CASE \/ CurStart(c) \/ CurRead(c) \/ CurPack(c) \/ CurRemoveRaw(c)
           \/ CurError(c) \/ CurCrash(c)
  BY <1>5, StillQuiet DEF CurStart, CurRead, CurPack, CurRemoveRaw, CurError, CurCrash
<1> QED
  BY <1>1, <1>2, <1>3, <1>4, <1>5 DEF CuratorStep, LoudCurator

LEMMA TrainerQuiet ==
  ASSUME Inv, FramesOK, NEW r \in Trainers, TrainerStep(r) \/ TrnCrash(r), ~LoudTrainer(r)
  PROVE  AllQuiet
<1>1. CASE TrnRequeue(r) \/ TrnRescue(r)
  BY <1>1, SweepQuiet DEF TrnRequeue, TrnRescue
<1>2. CASE TrnRenew(r)
  BY <1>2, LeaseQuiet DEF TrnRenew, FramesOK, TrnFrame
<1>3. CASE TrnFail(r)
  BY <1>3, FailQuiet, StillQuiet DEF TrnFail, FramesOK, TrnFrame
<1>4. CASE TrnFinish(r)
  BY <1>4, StillQuiet DEF TrnFinish, LoudTrainer, Finishes
<1>5. CASE TrnExit(r)
  BY <1>5, ReleaseQuiet, StillQuiet DEF TrnExit, FramesOK, TrnFrame
<1>6. CASE TrnStart(r) \/ TrnLoad(r) \/ TrnCrash(r)
  BY <1>6, StillQuiet DEF TrnStart, TrnLoad, TrnCrash
<1> QED
  BY <1>1, <1>2, <1>3, <1>4, <1>5, <1>6 DEF TrainerStep, LoudTrainer

LEMMA OthersQuiet ==
  ASSUME Inv, FramesOK,
         CollectorNext \/ JanitorNext \/ OperatorNext \/ \E s \in Sources : Lapse(s),
         ~Register
  PROVE  AllQuiet
<1>1. CASE JanMark
  BY <1>1, SweepQuiet, StillQuiet DEF JanMark
<1>2. CASE Freeze
  BY <1>2, StillQuiet DEF Freeze, FreezeTokenizer
<1>3. CASE CutAbandon \/ CutClear
  BY <1>3, SweepQuiet DEF CutAbandon, CutClear
<1>4. CASE \E s \in Sources : Lapse(s)
  BY <1>4, LeaseQuiet DEF Lapse
<1>5. CASE \/ (\E s \in Sources : Publish(s)) \/ AdvanceCursor \/ CollectorCrash
           \/ (\E S \in SUBSET Shards : Reclaim(S) \/ Evict(S)) \/ Unlink \/ JanCrash
           \/ (\E t \in Tokenizers : TrainTokenizer(t)) \/ CutRemovePacked \/ CutCrash
  BY <1>5, StillQuiet DEF Publish, AdvanceCursor, CollectorCrash, Reclaim, Evict, Chooses, Unlink,
                          JanCrash, TrainTokenizer, CutRemovePacked, CutCrash
<1> QED
  BY <1>1, <1>2, <1>3, <1>4, <1>5 DEF CollectorNext, JanitorNext, OperatorNext

\* What the steps of one process leave alone.
LEMMA CuratorStill ==
  ASSUME FramesOK, NEW c \in Curators, CuratorStep(c) \/ CurCrash(c)
  PROVE  /\ UNCHANGED <<tokfile, coll, emitted, trn, jan, cut>>
         /\ \A d \in Curators \ {c} : cur'[d] = cur[d]
         /\ CurPack(c) \/ UNCHANGED packed
         /\ CurRemoveRaw(c) \/ UNCHANGED raw
  BY DEF CuratorStep, CurStart, CurRequeue, CurClaim, CurRead, CurRenew, CurPack,
         CurRegister, CurComplete, CurRetire, CurRemoveRaw, CurError, CurFail, CurCrash,
         CurGoes, CurOthers, disk, FramesOK

LEMMA TrainerStill ==
  ASSUME FramesOK, NEW r \in Trainers, TrainerStep(r) \/ TrnCrash(r)
  PROVE  /\ UNCHANGED <<disk, coll, emitted, cur, jan, cut>>
         /\ \A d \in Trainers \ {r} : trn'[d] = trn[d]
  BY DEF TrainerStep, TrnStart, TrnRequeue, TrnRescue, TrnClaim, TrnLoad, TrnFail,
         TrnRenew, TrnFinish, TrnExit, TrnCrash, TrnGoes, TrnDrops, TrnOthers, FramesOK

\* What the steps of the others leave alone.
LEMMA OthersStill ==
  ASSUME CollectorNext \/ JanitorNext \/ OperatorNext \/ \E s \in Sources : Lapse(s)
  PROVE  UNCHANGED <<cur, trn>>
  BY DEF CollectorNext, JanitorNext, OperatorNext, Publish, Register, AdvanceCursor,
         CollectorCrash, Reclaim, Evict, Chooses, Unlink, JanMark, JanCrash, JanOthers,
         TrainTokenizer, Freeze, CutAbandon, CutClear, CutRemovePacked, CutCrash, Lapse

LEMMA CuratorMoved ==
  ASSUME FramesOK, [Next]_vars, NEW c \in Curators
  PROVE  cur'[c] = cur[c] \/ CuratorStep(c) \/ CurCrash(c)
<1>1. CASE UNCHANGED vars
  BY <1>1 DEF vars
<1> QED
  BY <1>1, CuratorStill, TrainerStill, OthersStill DEF Next

-----------------------------------------------------------------------------
(* Owners know what they own. *)

OwnersShrink == \A s \in Sources : rows'[s].by \in {rows[s].by, NULL} \cup Trainers

LEMMA CurOwnsKept ==
  ASSUME OwnersShrink, NEW c \in Curators, CurOwns(c),
         \/ cur'[c] = cur[c]
         \/ cur'[c].pc = "dead"
         \/ cur[c].pc # "dead" /\ cur'[c].shard = cur[c].shard /\ cur'[c].pc \in CurHolds
         \/ cur[c].pc \notin CurHolds \cup {"dead"}
         \/ cur[c].pc # "dead" /\ (cur[c].shard \in Sources => rows'[cur[c].shard].by # c)
  PROVE  CurOwns(c)'
  BY NullAssumption, RolesAssumption DEF OwnersShrink, CurOwns

(* A claim gives the row to a curator that knew of no row.                 *)
LEMMA ClaimOwns ==
  ASSUME Inv, FramesOK, OwnersKnow, NEW c \in Curators, NEW s \in Sources, CurClaim(c, s)
  PROVE  OwnersKnow'
<1>1. /\ OnlyRow(s) /\ rows'[s].by = c
      /\ cur'[c].pc = "claimed" /\ cur'[c].shard = s
      /\ cur' = [cur EXCEPT ![c] = cur'[c]]
  <2>1. OnlyRow(s) /\ rows'[s].by = c
    BY ClaimEffect DEF CurClaim, CuratorClaims
  <2> QED
    BY <2>1, CurClaimMoves DEF CurMoves
<1>2. \A x \in Sources : rows[x].by # c
  BY DEF OwnersKnow, CurOwns, CurClaim, CurHolds
<1>3. \A x \in Sources \ {s} : rows'[x].by = rows[x].by
  BY <1>1 DEF OnlyRow
<1>4. CurOwns(c)'
  BY <1>1, <1>2, <1>3 DEF CurOwns, CurHolds
<1>5. ASSUME NEW d \in Curators \ {c} PROVE CurOwns(d)'
  <2>1. cur'[d] = cur[d]
    BY <1>1 DEF FramesOK
  <2> QED
    BY <1>1, <1>3, <2>1 DEF OwnersKnow, CurOwns
<1> QED
  BY <1>4, <1>5 DEF OwnersKnow

LEMMA QuietShrinks ==
  ASSUME AllQuiet
  PROVE  OwnersShrink
  BY DEF AllQuiet, Quiet, OwnersShrink

LEMMA CuratorOwns ==
  ASSUME Inv, FramesOK, OwnersKnow, NEW c \in Curators, CuratorStep(c) \/ CurCrash(c),
         ~ \E s \in Sources : CurClaim(c, s)
  PROVE  OwnersKnow'
<1>1. cur[c] \in CurRow /\ CurFrame(cur[c])
  BY DEF FramesOK, CurFrame
<1>2. CurOwns(c)
  BY DEF OwnersKnow
<1>3. /\ OwnersShrink
      /\ \/ cur'[c] = cur[c]
         \/ cur'[c].pc = "dead"
         \/ cur[c].pc # "dead" /\ cur'[c].shard = cur[c].shard /\ cur'[c].pc \in CurHolds
         \/ cur[c].pc \notin CurHolds \cup {"dead"}
         \/ cur[c].pc # "dead" /\ (cur[c].shard \in Sources => rows'[cur[c].shard].by # c)
  <2>1. CASE CurRegister(c, "val") \/ CurRegister(c, "test")
    <3>1. PICK split \in ProtectedSplits : CurRegister(c, split)
      BY <2>1 DEF ProtectedSplits
    <3>2. HeldOut(cur[c].shard, split) \in Shards \ Sources
      BY <1>1, <3>1 DEF CurRegister, CurFrame
    <3>3. OwnersShrink
      BY <3>1, <3>2, AddEffect DEF CurRegister, CuratorAdds, OnlyRow, OwnersShrink
    <3> QED
      BY <3>1, <3>3, CurRegisterMoves DEF CurHolds, CurRegister
  <2>2. CASE CurComplete(c)
    <3>1. cur[c].shard \in Sources /\ cur[c].pc = "registering"
      BY <1>1, <2>2 DEF CurComplete, CurFrame
    <3>2. OnlyRow(cur[c].shard) /\ rows'[cur[c].shard].by = NULL
      BY <2>2, <3>1, CompleteEffect DEF CurComplete, CuratorCompletes
    <3>3. OwnersShrink
      BY <3>2 DEF OnlyRow, OwnersShrink
    <3> QED
      BY <3>1, <3>2, <3>3, NullAssumption
  <2>3. CASE ~LoudCurator(c)
    <3>1. OwnersShrink
      BY <2>3, CuratorQuiet, QuietShrinks
    <3>2. CASE CurStart(c) \/ CurRequeue(c) \/ CurRetire(c) \/ CurRemoveRaw(c)
      BY <3>1, <3>2 DEF CurStart, CurRequeue, CurRetire, CurRemoveRaw, CurHolds
    <3>3. CASE CurRead(c) \/ CurError(c)
      BY <3>1, <3>3, CurPlainMoves DEF CurHolds, CurRead, CurError, CurRaises
    <3>4. CASE CurPack(c)
      BY <3>1, <3>4, CurPackMoves DEF CurHolds, CurPack
    <3>5. CASE CurRenew(c)
      BY <3>1, <3>5 DEF CurRenew
    <3>6. CASE CurCrash(c)
      <4>1. cur'[c].pc = "dead"
        BY <1>1, <3>6 DEF CurCrash, FramesOK, CurRow
      <4> QED
        BY <3>1, <4>1
    <3>7. CASE CurFail(c)
      <4>1. CASE CanFail(cur[c].shard)
        <5>1. cur[c].shard \in Sources /\ cur[c].pc = "failing"
          BY <1>1, <3>7 DEF CurFail, CurFrame
        <5>2. rows'[cur[c].shard].by = NULL
          BY <3>7, <4>1, <5>1, FailQuiet DEF CurFail
        <5> QED
          BY <3>1, <5>1, <5>2, NullAssumption
      <4>2. CASE ~CanFail(cur[c].shard)
        <5>1. cur' = [cur EXCEPT ![c].pc = "dead", ![c].shard = NULL, ![c].todo = {}]
          BY <3>7, <4>2 DEF CurFail
        <5>2. cur'[c].pc = "dead"
          BY <1>1, <5>1 DEF FramesOK, CurRow
        <5> QED
          BY <3>1, <5>2
      <4> QED
        BY <4>1, <4>2
    <3> QED
      BY <2>3, <3>2, <3>3, <3>4, <3>5, <3>6, <3>7 DEF CuratorStep, LoudCurator
  <2> QED
    BY <2>1, <2>2, <2>3 DEF LoudCurator, ProtectedSplits
<1>4. CurOwns(c)'
  BY <1>2, <1>3, CurOwnsKept
<1>5. \A d \in Curators \ {c} : cur'[d] = cur[d]
  BY CuratorStill
<1> QED
  BY <1>3, <1>4, <1>5, CurOwnsKept DEF OwnersKnow

(* A trainer takes rows for itself, and hands them on to no curator.       *)
LEMMA TrainerOwns ==
  ASSUME Inv, FramesOK, OwnersKnow, NEW r \in Trainers, TrainerStep(r) \/ TrnCrash(r)
  PROVE  OwnersKnow'
<1>1. OwnersShrink
  <2>1. CASE \E s \in Sources : TrnClaim(r, s)
    <3>1. PICK s \in Sources : TrnClaim(r, s)
      BY <2>1
    <3>2. OnlyRow(s) /\ rows'[s].by = r
      BY <3>1, ClaimEffect DEF TrnClaim, TrainerClaims
    <3> QED
      BY <3>2 DEF OnlyRow, OwnersShrink
  <2>2. CASE Finishes(r)
    <3>1. trn[r].shard \in Sources
      BY <2>2 DEF Finishes, TrnFinish, FramesOK, TrnFrame
    <3>2. OnlyRow(trn[r].shard) /\ rows'[trn[r].shard].by = NULL
      BY <2>2, <3>1, CompleteEffect DEF Finishes, TrainerCompletes
    <3> QED
      BY <3>2 DEF OnlyRow, OwnersShrink
  <2>3. CASE ~LoudTrainer(r)
    BY <2>3, TrainerQuiet, QuietShrinks
  <2> QED
    BY <2>1, <2>2, <2>3 DEF LoudTrainer
<1>2. cur' = cur
  BY TrainerStill
<1> QED
  BY <1>1, <1>2, CurOwnsKept DEF OwnersKnow

LEMMA OthersOwn ==
  ASSUME Inv, FramesOK, OwnersKnow,
         CollectorNext \/ JanitorNext \/ OperatorNext \/ \E s \in Sources : Lapse(s)
  PROVE  OwnersKnow'
<1>1. OwnersShrink
  <2>1. CASE Register
    <3>1. coll.shard \in Sources
      BY <2>1 DEF Register, FramesOK
    <3>2. CASE rows[coll.shard].state = "ABSENT"
      <4>1. rows'[coll.shard].by = NULL /\ OnlyRow(coll.shard)
        <5>1. rows'[coll.shard] = NewRow("train", NULL, "raw", "RAW") /\ OnlyRow(coll.shard)
          BY <2>1, <3>1, <3>2, AddEffect DEF Register, CollectorAdds
        <5> QED
          BY <5>1 DEF NewRow
      <4> QED
        BY <4>1 DEF OwnersShrink, OnlyRow
    <3>3. CASE rows[coll.shard].state # "ABSENT"
      BY <2>1, <3>1, <3>3, AddEffect, QuietShrinks DEF Register, CollectorAdds
    <3> QED
      BY <3>2, <3>3
  <2> QED
    BY <2>1, OthersQuiet, QuietShrinks
<1> QED
  BY <1>1, OthersStill, CurOwnsKept DEF OwnersKnow

LEMMA OwnersInit == Init => OwnersKnow
  BY NullAssumption DEF Init, MInit, NewRow, OwnersKnow, CurOwns

LEMMA OwnersNext ==
  ASSUME Inv, FramesOK, OwnersKnow, [Next]_vars
  PROVE  OwnersKnow'
<1>1. CASE UNCHANGED vars
  BY <1>1 DEF vars, OwnersKnow, CurOwns
<1> QED
  BY <1>1, ClaimOwns, CuratorOwns, TrainerOwns, OthersOwn DEF Next

LEMMA OwnersSuffice == OwnersKnow => NoForgottenClaim
  BY DEF OwnersKnow, CurOwns, NoForgottenClaim

LEMMA ManifestInvariantHolds == Spec => []Inv
  BY PipelineImplementsManifest, ManifestInvariant, PTL DEF ImplementsManifest

LEMMA OwnersInvariant == Spec => []OwnersKnow
  BY ManifestInvariantHolds, FramesInvariant, OwnersInit, OwnersNext, PTL DEF Spec

(* A curator that lives is at work on every shard that names it: no claim  *)
(* is left behind by an error, a lost lease or a refused call.             *)
THEOREM ClaimsAreRemembered == Spec => []NoForgottenClaim
  BY OwnersInvariant, OwnersSuffice, PTL

-----------------------------------------------------------------------------
(* Only the holder of a claim advances it. *)

\* A step of the curator, or the trainer, that holds s and works on it.
HolderPacks(s) ==
  \E c \in Curators : /\ rows[s].by = c /\ cur[c].shard = s
                    /\ cur[c].pc = "registering" /\ cur'[c] # cur[c]
HolderConsumes(s) ==
  \E r \in Trainers : /\ rows[s].by = r /\ trn[r].shard = s
                    /\ trn[r].pc = "training" /\ trn'[r] # trn[r]

\* Row s does not go from a claim to where complete() takes it.
NotDone(s) ==
  /\ rows[s].state = "CLAIMED_CURATE" => rows'[s].state # "PACKED"
  /\ rows[s].state = "CLAIMED_TRAIN" => rows'[s].state # "CONSUMED"

LEMMA QuietIsNotDone ==
  ASSUME NEW s \in Shards, Quiet(s)
  PROVE  NotDone(s)
  BY DEF Quiet, NotDone, Origin

LEMMA RegisterNotDone ==
  ASSUME Inv, FramesOK, NEW s \in Sources,
         Register \/ \E c \in Curators, split \in ProtectedSplits : CurRegister(c, split)
  PROVE  NotDone(s)
<1>a. PICK x \in Shards : \E split, sha, path, st : AddShard(x, split, sha, path, st)
  <2>1. CASE Register
    BY <2>1 DEF Register, CollectorAdds, FramesOK
  <2>2. CASE \E c \in Curators, split \in ProtectedSplits : CurRegister(c, split)
    <3>1. PICK c \in Curators, split \in ProtectedSplits : CurRegister(c, split)
      BY <2>2
    <3>2. HeldOut(cur[c].shard, split) \in Shards
      BY <3>1 DEF CurRegister, CurFrame, FramesOK
    <3> QED
      BY <3>1, <3>2 DEF CurRegister, CuratorAdds
  <2> QED
    BY <2>1, <2>2
<1>1. PICK split, sha, path, st : AddShard(x, split, sha, path, st)
  BY <1>a
<1>2. CASE rows[x].state # "ABSENT"
  BY <1>1, <1>2, AddEffect, QuietIsNotDone DEF AllQuiet
<1>3. CASE rows[x].state = "ABSENT" /\ x # s
  BY <1>1, <1>3, AddEffect DEF OnlyRow, NotDone
<1>4. CASE rows[x].state = "ABSENT" /\ x = s
  BY <1>4 DEF NotDone
<1> QED
  BY <1>2, <1>3, <1>4

LEMMA ClaimNotDone ==
  ASSUME Inv, NEW x \in Shards, NEW w, NEW s \in Sources,
         CuratorClaims(x, w) \/ TrainerClaims(x, w)
  PROVE  NotDone(s)
<1>1. PICK stage \in {"curate", "train"} :
        OnlyRow(x) /\ rows[x].state = ClaimableFrom[stage]
  BY ClaimEffect DEF CuratorClaims, TrainerClaims
<1>2. rows[x].state \notin Claimed
  BY <1>1 DEF ClaimableFrom, Claimed
<1> QED
  BY <1>1, <1>2 DEF NotDone, OnlyRow, Claimed

LEMMA CompletedByHolder ==
  ASSUME Inv, FramesOK, NEW c \in Curators, CurComplete(c), NEW s \in Sources
  PROVE  NotDone(s) \/ HolderPacks(s)
<1> DEFINE x == cur[c].shard
<1>1. x \in Sources /\ cur[c].pc = "registering"
  BY DEF CurComplete, FramesOK, CurFrame
<1>2. OnlyRow(x) /\ rows[x].by = c
  BY <1>1, CompleteEffect DEF CurComplete, CuratorCompletes
<1>3. cur'[c].pc \in {"removing", "completed"}
  BY CurPlainMoves
<1>4. CASE s = x
  BY <1>1, <1>2, <1>3, <1>4 DEF HolderPacks
<1>5. CASE s # x
  BY <1>2, <1>5 DEF OnlyRow, NotDone
<1> QED
  BY <1>4, <1>5

LEMMA ConsumedByHolder ==
  ASSUME Inv, FramesOK, NEW r \in Trainers, Finishes(r), NEW s \in Sources
  PROVE  NotDone(s) \/ HolderConsumes(s)
<1> DEFINE x == trn[r].shard
<1>1. x \in Sources /\ trn[r].pc = "training" /\ trn[r] \in TrnRow
  BY DEF Finishes, TrnFinish, FramesOK, TrnFrame
<1>2. OnlyRow(x) /\ rows[x].by = r
  BY <1>1, CompleteEffect DEF Finishes, TrainerCompletes
<1>3. trn'[r].pc = "idle"
  BY <1>1 DEF Finishes, TrnFinish, TrnDrops, FramesOK, TrnRow
<1>4. CASE s = x
  BY <1>1, <1>2, <1>3, <1>4 DEF HolderConsumes
<1>5. CASE s # x
  BY <1>2, <1>5 DEF OnlyRow, NotDone
<1> QED
  BY <1>4, <1>5

\* A curator never consumes, and a trainer never packs.
LEMMA StagesApart ==
  ASSUME Inv, NEW s \in Sources
  PROVE  /\ HolderPacks(s) => rows[s].state = "CLAIMED_CURATE"
         /\ HolderConsumes(s) => rows[s].state = "CLAIMED_TRAIN"
  BY DEF Inv, ClaimShape, HolderPacks, HolderConsumes

LEMMA AdvancedByHolder ==
  ASSUME Inv, FramesOK, [Next]_vars, NEW s \in Sources
  PROVE  NotDone(s) \/ HolderPacks(s) \/ HolderConsumes(s)
<1>1. CASE AllQuiet
  BY <1>1, QuietIsNotDone DEF AllQuiet
<1>2. CASE UNCHANGED vars
  BY <1>2 DEF vars, NotDone
<1>3. ASSUME NEW c \in Curators, CuratorStep(c) \/ CurCrash(c)
      PROVE  NotDone(s) \/ HolderPacks(s)
  <2>1. CASE \E x \in Sources : CurClaim(c, x)
    BY <2>1, ClaimNotDone DEF CurClaim
  <2>2. CASE ~LoudCurator(c)
    BY <1>3, <2>2, CuratorQuiet, QuietIsNotDone DEF AllQuiet
  <2> QED
    BY <2>1, <2>2, RegisterNotDone, CompletedByHolder DEF LoudCurator
<1>4. ASSUME NEW r \in Trainers, TrainerStep(r) \/ TrnCrash(r)
      PROVE  NotDone(s) \/ HolderConsumes(s)
  <2>1. CASE \E x \in Sources : TrnClaim(r, x)
    BY <2>1, ClaimNotDone DEF TrnClaim
  <2>2. CASE ~LoudTrainer(r)
    BY <1>4, <2>2, TrainerQuiet, QuietIsNotDone DEF AllQuiet
  <2> QED
    BY <2>1, <2>2, ConsumedByHolder DEF LoudTrainer
<1>5. CASE CollectorNext \/ JanitorNext \/ OperatorNext \/ \E x \in Sources : Lapse(x)
  BY <1>1, <1>5, OthersQuiet, RegisterNotDone
<1> QED
  BY <1>2, <1>3, <1>4, <1>5 DEF Next

(* A claim is completed by the process it names, while that works on the   *)
(* shard: no other process, and no late step of one that lost its lease,   *)
(* moves it on.                                                            *)
THEOREM HoldersAdvance == Spec => OnlyHolderAdvances
<1> DEFINE A == \A s \in Sources :
       /\ rows[s].state = "CLAIMED_CURATE" /\ rows'[s].state = "PACKED" =>
            \E c \in Curators : /\ rows[s].by = c /\ cur[c].shard = s
                              /\ cur[c].pc = "registering" /\ cur'[c] # cur[c]
       /\ rows[s].state = "CLAIMED_TRAIN" /\ rows'[s].state = "CONSUMED" =>
            \E r \in Trainers : /\ rows[s].by = r /\ trn[r].shard = s
                              /\ trn[r].pc = "training" /\ trn'[r] # trn[r]
<1>1. Inv /\ FramesOK /\ [Next]_vars => [A]_vars
  BY AdvancedByHolder, StagesApart DEF NotDone, HolderPacks, HolderConsumes
<1> QED
  BY <1>1, ManifestInvariantHolds, FramesInvariant, PTL DEF Spec, OnlyHolderAdvances

-----------------------------------------------------------------------------
(* What was packed once, and what is gone, stays so. *)

LEMMA PackedOnceStays ==
  ASSUME Inv, FramesOK, [Next]_vars, NEW s \in Shards, rows[s].state \in PackedOnce
  PROVE  rows'[s].state \in PackedOnce
<1>1. CASE MNext
  <2>1. Moves(s)
    BY <1>1, NextMoves
  <2> QED
    BY <2>1 DEF Moves, PackedOnce, Claimed, Origin, CompletedAs
<1>2. CASE UNCHANGED mvars
  BY <1>2 DEF mvars
<1> QED
  BY <1>1, <1>2, StepCalls

LEMMA GoneStays ==
  ASSUME Inv, FramesOK, [Next]_vars, NEW s \in Shards, rows[s].state \in Gone
  PROVE  rows'[s].state \in Gone
<1>1. CASE MNext
  <2>1. Moves(s)
    BY <1>1, NextMoves
  <2> QED
    BY <2>1 DEF Moves, Gone, Claimed, Legal
<1>2. CASE UNCHANGED mvars
  BY <1>2 DEF mvars
<1> QED
  BY <1>1, <1>2, StepCalls

-----------------------------------------------------------------------------
(* One curator finishes a shard. *)

\* How a curator comes to be past complete().
LEMMA FinisherCame ==
  ASSUME FramesOK, [Next]_vars, NEW c \in Curators, Finishing(c)'
  PROVE  \/ Finishing(c) /\ cur'[c].shard = cur[c].shard
         \/ CurComplete(c) /\ cur'[c].shard = cur[c].shard
<1>1. CASE cur'[c] = cur[c]
  BY <1>1 DEF Finishing
<1>2. CASE CuratorStep(c) \/ CurCrash(c)
  <2>1. CASE CurPack(c) \/ CurRemoveRaw(c) \/ CurFail(c) \/ CurCrash(c)
    BY <2>1, CurPackMoves, CurDropMoves DEF Finishing
  <2>2. CASE \/ \E s \in Sources : CurClaim(c, s)
             \/ \E split \in ProtectedSplits : CurRegister(c, split)
    BY <2>2, CurClaimMoves, CurRegisterMoves DEF Finishing
  <2>3. CASE CurRenew(c)
    BY <1>1, <2>3 DEF CurRenew
  <2>4. CASE CurStart(c) \/ CurRequeue(c) \/ CurRead(c) \/ CurError(c)
    BY <2>4, CurPlainMoves DEF Finishing
  <2>5. CASE CurComplete(c)
    BY <2>5, CurPlainMoves
  <2>6. CASE CurRetire(c)
    BY <2>6, CurPlainMoves DEF Finishing, CurRetire
  <2> QED
    BY <1>2, <2>1, <2>2, <2>3, <2>4, <2>5, <2>6 DEF CuratorStep
<1> QED
  BY <1>1, <1>2, CuratorMoved

\* complete() takes a shard from its curator's claim to PACKED.
LEMMA CurCompletes ==
  ASSUME Inv, FramesOK, NEW c \in Curators, CurComplete(c)
  PROVE  /\ cur[c].shard \in Sources
         /\ rows[cur[c].shard].state = "CLAIMED_CURATE"
         /\ rows'[cur[c].shard].state = "PACKED"
         /\ rows'[cur[c].shard].split = "train"
         /\ rows'[cur[c].shard].path = IF HasTrain(cur[c].shard) THEN "packed"
                                       ELSE rows[cur[c].shard].path
         /\ OnlyRow(cur[c].shard)
<1> DEFINE s == cur[c].shard
<1>1. s \in Sources
  BY DEF CurComplete, FramesOK, CurFrame
<1>2. /\ OnlyRow(s) /\ rows[s].by = c
      /\ rows'[s].state = CompletedAs(rows[s].state)
      /\ rows'[s].split = Coalesce("train", rows[s].split)
      /\ rows'[s].path = Coalesce(IF HasTrain(s) THEN "packed" ELSE NULL, rows[s].path)
  BY <1>1, CompleteEffect DEF CurComplete, CuratorCompletes
<1>3. rows[s].state = "CLAIMED_CURATE"
  BY <1>1, <1>2 DEF Inv, ClaimShape
<1>4. rows[s].split = "train"
  BY <1>1, <1>3, InvRows DEF Inv, HeldOutTerminal, Row, Splits, ProtectedSplits
<1> QED
  BY <1>1, <1>2, <1>3, <1>4, NullAssumption DEF CompletedAs, Coalesce

LEMMA FinishersInit == Init => FinishersArePast /\ SingleFinisher
  BY DEF Init, FinishersArePast, SingleFinisher, Finishing

LEMMA FinishersNext ==
  ASSUME Inv, FramesOK, FinishersArePast, SingleFinisher, [Next]_vars
  PROVE  FinishersArePast' /\ SingleFinisher'
<1>1. ASSUME NEW c \in Curators, Finishing(c)'
      PROVE  rows'[cur'[c].shard].state \in PackedOnce
  <2>1. CASE Finishing(c) /\ cur'[c].shard = cur[c].shard
    <3>1. cur[c].shard \in Shards
      BY <2>1 DEF Finishing, FramesOK, CurFrame
    <3> QED
      BY <2>1, <3>1, PackedOnceStays DEF FinishersArePast
  <2>2. CASE CurComplete(c) /\ cur'[c].shard = cur[c].shard
    BY <2>2, CurCompletes DEF PackedOnce
  <2> QED
    BY <1>1, <2>1, <2>2, FinisherCame
<1>2. ASSUME NEW c \in Curators, NEW d \in Curators, Finishing(c)', Finishing(d)',
             cur'[c].shard = cur'[d].shard
      PROVE  c = d
  <2>1. ASSUME NEW x \in Curators, NEW y \in Curators, CurComplete(x), Finishing(y),
               cur[x].shard = cur[y].shard
        PROVE  FALSE
    BY <2>1, CurCompletes DEF FinishersArePast, PackedOnce
  <2>2. CASE Finishing(c) /\ Finishing(d) /\ cur[c].shard = cur[d].shard
    BY <2>2 DEF SingleFinisher, Finishing
  <2>3. CASE CurComplete(c) /\ CurComplete(d)
    <3>1. CASE c # d
      <4>1. cur'[d] = cur[d]
        BY <2>3, <3>1 DEF CurComplete, CurGoes, FramesOK
      <4>2. cur'[d].pc \in {"removing", "completed"} /\ cur[d].pc = "registering"
        BY <2>3, CurPlainMoves DEF CurComplete
      <4> QED
        BY <4>1, <4>2
    <3> QED
      BY <3>1
  <2> QED
    BY <1>2, <2>1, <2>2, <2>3, FinisherCame
<1> QED
  BY <1>1, <1>2 DEF FinishersArePast, SingleFinisher, Finishing

LEMMA FinishersInvariant == Spec => [](FinishersArePast /\ SingleFinisher)
  BY ManifestInvariantHolds, FramesInvariant, FinishersInit, FinishersNext, PTL DEF Spec

(* However many curators packed a shard, one retires its row and removes   *)
(* its raw file.                                                           *)
THEOREM FinisherIsUnique == Spec => []SingleFinisher
  BY FinishersInvariant, PTL

-----------------------------------------------------------------------------
(* Every step writes no row loudly, one row of a source, or adds one       *)
(* held-out row.                                                           *)

SourceWrite(s) ==
  /\ OnlyRow(s)
  /\ \/ /\ Register /\ s = coll.shard
        /\ rows[s].state = "ABSENT" /\ rows'[s] = NewRow("train", NULL, "raw", "RAW")
     \/ /\ rows'[s].split = rows[s].split /\ rows'[s].path = rows[s].path
        /\ \/ rows[s].state = "RAW" /\ rows'[s].state = "CLAIMED_CURATE"
           \/ rows[s].state = "PACKED" /\ rows'[s].state = "CLAIMED_TRAIN"
           \/ rows[s].state = "CLAIMED_TRAIN" /\ rows'[s].state = "CONSUMED"
     \/ \E c \in Curators : CurComplete(c) /\ s = cur[c].shard

HeldOutAdd(c, split) ==
  LET h == HeldOut(cur[c].shard, split) IN
  /\ CurRegister(c, split)
  /\ h \in Shards \ Sources /\ OnlyRow(h) /\ rows[h].state = "ABSENT"
  /\ rows'[h].state = "PACKED" /\ rows'[h].split = split

LEMMA RegisterKinds ==
  ASSUME Inv, FramesOK, Register
  PROVE  AllQuiet \/ \E s \in Sources : SourceWrite(s)
<1>1. coll.shard \in Sources /\ AddShard(coll.shard, "train", NULL, "raw", "RAW")
  BY DEF Register, CollectorAdds, FramesOK
<1>2. CASE rows[coll.shard].state = "ABSENT"
  <2>1. rows'[coll.shard] = NewRow("train", NULL, "raw", "RAW") /\ OnlyRow(coll.shard)
    BY <1>1, <1>2, AddEffect
  <2> QED
    BY <1>1, <1>2, <2>1 DEF SourceWrite
<1>3. CASE rows[coll.shard].state # "ABSENT"
  BY <1>1, <1>3, AddEffect
<1> QED
  BY <1>2, <1>3

LEMMA CuratorKinds ==
  ASSUME Inv, FramesOK, NEW c \in Curators, CuratorStep(c) \/ CurCrash(c)
  PROVE  \/ AllQuiet
         \/ \E s \in Sources : SourceWrite(s)
         \/ \E split \in ProtectedSplits : HeldOutAdd(c, split)
<1>1. ASSUME NEW s \in Sources, CurClaim(c, s)
      PROVE  SourceWrite(s)
  <2>1. Claim("curate", s, c, Splits)
    BY <1>1 DEF CurClaim, CuratorClaims
  <2> QED
    BY <2>1, ClaimEffect DEF SourceWrite, ClaimableFrom, ClaimedAs
<1>2. ASSUME NEW split \in ProtectedSplits, CurRegister(c, split)
      PROVE  AllQuiet \/ HeldOutAdd(c, split)
  <2> DEFINE h == HeldOut(cur[c].shard, split)
  <2>1. h \in Shards \ Sources
    BY <1>2 DEF CurRegister, CurFrame, FramesOK
  <2>2. AddShard(h, split, cur[c].lt, "packed", "PACKED")
    BY <1>2 DEF CurRegister, CuratorAdds
  <2>3. CASE rows[h].state = "ABSENT"
    <3>1. rows'[h] = NewRow(split, cur[c].lt, "packed", "PACKED") /\ OnlyRow(h)
      BY <2>1, <2>2, <2>3, AddEffect
    <3>2. rows'[h].state = "PACKED" /\ rows'[h].split = split
      BY <3>1 DEF NewRow
    <3> QED
      BY <1>2, <2>1, <2>3, <3>1, <3>2 DEF HeldOutAdd
  <2>4. CASE rows[h].state # "ABSENT"
    BY <2>1, <2>2, <2>4, AddEffect
  <2> QED
    BY <2>3, <2>4
<1>3. CASE CurComplete(c)
  BY <1>3, CurCompletes DEF SourceWrite
<1>4. CASE ~LoudCurator(c)
  BY <1>4, CuratorQuiet
<1> QED
  BY <1>1, <1>2, <1>3, <1>4 DEF LoudCurator

LEMMA TrainerKinds ==
  ASSUME Inv, FramesOK, NEW r \in Trainers, TrainerStep(r) \/ TrnCrash(r)
  PROVE  AllQuiet \/ \E s \in Sources : SourceWrite(s)
<1>1. ASSUME NEW s \in Sources, TrnClaim(r, s)
      PROVE  SourceWrite(s)
  <2>1. Claim("train", s, r, {"train"})
    BY <1>1 DEF TrnClaim, TrainerClaims
  <2> QED
    BY <2>1, ClaimEffect DEF SourceWrite, ClaimableFrom, ClaimedAs
<1>2. CASE Finishes(r)
  <2> DEFINE s == trn[r].shard
  <2>1. s \in Sources
    BY <1>2 DEF Finishes, TrnFinish, FramesOK, TrnFrame
  <2>2. /\ OnlyRow(s) /\ rows[s].by = r
        /\ rows'[s].state = CompletedAs(rows[s].state)
        /\ rows'[s].split = Coalesce(NULL, rows[s].split)
        /\ rows'[s].path = Coalesce(NULL, rows[s].path)
    BY <1>2, <2>1, CompleteEffect DEF Finishes, TrainerCompletes
  <2>3. rows[s].state = "CLAIMED_TRAIN"
    BY <2>1, <2>2 DEF Inv, ClaimShape
  <2> QED
    BY <2>1, <2>2, <2>3 DEF SourceWrite, CompletedAs, Coalesce
<1>3. CASE ~LoudTrainer(r)
  BY <1>3, TrainerQuiet
<1> QED
  BY <1>1, <1>2, <1>3 DEF LoudTrainer

LEMMA StepKinds ==
  ASSUME Inv, FramesOK, [Next]_vars
  PROVE  \/ AllQuiet
         \/ \E s \in Sources : SourceWrite(s)
         \/ \E c \in Curators, split \in ProtectedSplits : HeldOutAdd(c, split)
<1>1. CASE UNCHANGED vars
  BY <1>1, StillQuiet DEF vars
<1> QED
  BY <1>1, RegisterKinds, CuratorKinds, TrainerKinds, OthersQuiet DEF Next

\* While the cutover runs only quiet steps come.
LEMMA CutQuiet ==
  ASSUME Inv, FramesOK, [Next]_vars, cut # "idle"
  PROVE  AllQuiet
<1>1. \A c \in Curators : ~LoudCurator(c)
  BY CurAwake DEF LoudCurator, CurClaim, CurRegister, CurComplete
<1>2. \A r \in Trainers : ~LoudTrainer(r)
  BY TrnAwake DEF LoudTrainer, TrnClaim, Finishes, TrnFinish
<1>3. ~Register
  BY DEF Register, FramesOK, WorkersStopped
<1>4. CASE UNCHANGED vars
  BY <1>4, StillQuiet DEF vars
<1> QED
  BY <1>1, <1>2, <1>3, <1>4, CuratorQuiet, TrainerQuiet, OthersQuiet DEF Next

-----------------------------------------------------------------------------
(* Held-out rows and their files. *)

LEMMA SplitsInit == Init => SplitsKept
  BY DEF Init, MInit, NewRow, SplitsKept, JanIdle

(* The split guards of the two queries: every chosen row is a train row.   *)
LEMMA ChosenAreSources ==
  ASSUME Inv, SplitsKept, NEW S \in SUBSET Shards, Reclaim(S) \/ Evict(S)
  PROVE  S \subseteq Sources
<1>1. ASSUME NEW s \in S, s \notin Sources
      PROVE  rows[s].split \in ProtectedSplits
  BY <1>1 DEF Reclaim, Evict, SplitsKept
<1> QED
  BY <1>1 DEF Reclaim, Evict, ProtectedSplits

LEMMA JanitorCame ==
  ASSUME FramesOK, [Next]_vars
  PROVE  \/ jan' = jan
         \/ \E S \in SUBSET Shards : Reclaim(S) \/ Evict(S)
         \/ jan' = JanIdle
         \/ Unlink /\ jan'.batch = jan.batch /\ jan'.raws = jan.raws
<1>1. ASSUME NEW c \in Curators, CuratorStep(c) \/ CurCrash(c)
      PROVE  jan' = jan
  BY <1>1, CuratorStill
<1>2. ASSUME NEW r \in Trainers, TrainerStep(r) \/ TrnCrash(r)
      PROVE  jan' = jan
  BY <1>2, TrainerStill
<1>3. CASE CollectorNext \/ OperatorNext \/ \E s \in Sources : Lapse(s)
  BY <1>3 DEF CollectorNext, OperatorNext, Publish, Register, AdvanceCursor,
     CollectorCrash, TrainTokenizer, Freeze, CutAbandon, CutClear, CutRemovePacked, CutCrash, Lapse
<1>4. CASE Unlink
  BY <1>4 DEF Unlink, JanGoes, FramesOK
<1>5. CASE JanMark \/ JanCrash
  BY <1>5 DEF JanMark, JanCrash
<1>6. CASE UNCHANGED vars
  BY <1>6 DEF vars
<1> QED
  BY <1>1, <1>2, <1>3, <1>4, <1>5, <1>6 DEF Next, JanitorNext

LEMMA BatchNext ==
  ASSUME Inv, FramesOK, SplitsKept, [Next]_vars
  PROVE  jan'.batch \subseteq Sources
<1>1. ASSUME NEW S \in SUBSET Shards, Reclaim(S) \/ Evict(S)
      PROVE  jan'.batch \subseteq Sources
  BY <1>1, ChosenAreSources DEF Reclaim, Evict, Chooses
<1> QED
  BY <1>1, JanitorCame DEF SplitsKept, JanIdle

LEMMA SplitsNext ==
  ASSUME Inv, FramesOK, SplitsKept, [Next]_vars
  PROVE  SplitsKept'
<1>1. CASE AllQuiet
  BY <1>1, BatchNext DEF AllQuiet, Quiet, SplitsKept, Claimed
<1>2. ASSUME NEW s \in Sources, SourceWrite(s)
      PROVE  SplitsKept'
  <2>1. rows'[s].split = "train"
    BY <1>2, CurCompletes DEF SourceWrite, SplitsKept, NewRow
  <2> QED
    BY <1>2, <2>1, BatchNext DEF SourceWrite, OnlyRow, SplitsKept
<1>3. ASSUME NEW c \in Curators, NEW split \in ProtectedSplits, HeldOutAdd(c, split)
      PROVE  SplitsKept'
  BY <1>3, BatchNext DEF HeldOutAdd, OnlyRow, SplitsKept
<1> QED
  BY <1>1, <1>2, <1>3, StepKinds

LEMMA HeldOutStates ==
  ASSUME Inv, SplitsKept, NEW i \in Shards \ Sources
  PROVE  rows[i].state \in {"ABSENT", "PACKED", "DELETED"}
  BY DEF Inv, HeldOutTerminal, SplitsKept

\* A held-out row that is PACKED was so, or is being registered.
LEMMA HeldOutCame ==
  ASSUME Inv, FramesOK, SplitsKept, [Next]_vars, NEW i \in Shards \ Sources,
         rows'[i].state = "PACKED"
  PROVE  \/ rows[i].state = "PACKED"
         \/ \E c \in Curators, split \in ProtectedSplits :
              CurRegister(c, split) /\ i = HeldOut(cur[c].shard, split)
<1>1. CASE AllQuiet
  BY <1>1, HeldOutStates DEF AllQuiet, Quiet, Claimed
<1>2. ASSUME NEW s \in Sources, SourceWrite(s)
      PROVE  rows[i].state = "PACKED"
  BY <1>2 DEF SourceWrite, OnlyRow
<1>3. ASSUME NEW c \in Curators, NEW split \in ProtectedSplits, HeldOutAdd(c, split),
             rows[i].state # "PACKED"
      PROVE  CurRegister(c, split) /\ i = HeldOut(cur[c].shard, split)
  BY <1>3 DEF HeldOutAdd, OnlyRow
<1> QED
  BY <1>1, <1>2, <1>3, StepKinds

\* Which steps write the packed files.
Wipes == cut = "cleared" /\ (CutRemovePacked \/ CutCrash)

LEMMA PackedWrites ==
  ASSUME FramesOK, [Next]_vars
  PROVE  \/ UNCHANGED packed
         \/ \E c \in Curators : CurPack(c)
         \/ Unlink
         \/ Wipes
<1>1. ASSUME NEW c \in Curators, CuratorStep(c) \/ CurCrash(c), ~CurPack(c)
      PROVE  UNCHANGED packed
  BY <1>1, CuratorStill
<1>2. ASSUME NEW r \in Trainers, TrainerStep(r) \/ TrnCrash(r)
      PROVE  UNCHANGED packed
  BY <1>2, TrainerStill DEF disk
<1>3. CASE CollectorNext \/ JanitorNext \/ OperatorNext \/ \E s \in Sources : Lapse(s)
  BY <1>3 DEF CollectorNext, JanitorNext, OperatorNext, Publish, Register, AdvanceCursor,
     CollectorCrash, Reclaim, Evict, Chooses, JanMark, JanCrash, TrainTokenizer, Freeze, CutAbandon,
     CutClear, CutRemovePacked, CutCrash, Wipes, Lapse, disk, FramesOK
<1>4. CASE UNCHANGED vars
  BY <1>4 DEF vars
<1> QED
  BY <1>1, <1>2, <1>3, <1>4 DEF Next

LEMMA HeldOutFileStays ==
  ASSUME FramesOK, SplitsKept, [Next]_vars, NEW i \in Shards \ Sources,
         packed[i] # NULL, ~Wipes
  PROVE  packed'[i] # NULL
<1>1. ASSUME NEW c \in Curators, CurPack(c)
      PROVE  packed'[i] # NULL
  BY <1>1, CurPackMoves, NullAssumption
<1>2. CASE Unlink
  BY <1>2 DEF Unlink, SplitsKept
<1> QED
  BY <1>1, <1>2, PackedWrites

\* After packing, every split that got documents has its files.
LEMMA CurPackFiles ==
  ASSUME FramesOK, NEW c \in Curators, CurPack(c)
  PROVE  /\ cur[c].shard \in Sources
         /\ \A split \in SplitsOf[cur[c].shard] \cap ProtectedSplits :
              packed'[HeldOut(cur[c].shard, split)] # NULL
         /\ HasTrain(cur[c].shard) => packed'[cur[c].shard] # NULL
<1> DEFINE s == cur[c].shard
<1>1. s \in Sources
  BY DEF CurPack, FramesOK, CurFrame
<1>2. PICK lt \in Tokenizers :
        packed' = [i \in Shards |-> IF \E split \in SplitsOf[s] : i = IdOf(s, split)
                                    THEN lt ELSE packed[i]]
  BY CurPackMoves
<1>3. ASSUME NEW split \in SplitsOf[s] \cap ProtectedSplits
      PROVE  packed'[HeldOut(s, split)] # NULL
  <2>1. HeldOut(s, split) \in Shards /\ HeldOut(s, split) = IdOf(s, split)
    BY <1>1 DEF IdOf, ProtectedSplits
  <2> QED
    BY <1>2, <2>1, NullAssumption
<1>4. ASSUME HasTrain(s)
      PROVE  packed'[s] # NULL
  <2>1. s \in Shards /\ s = IdOf(s, "train")
    BY <1>1 DEF IdOf
  <2> QED
    BY <1>2, <1>4, <2>1, NullAssumption DEF HasTrain
<1> QED
  BY <1>1, <1>3, <1>4

\* How a curator comes to register: it packed, or goes on doing so.
LEMMA RegistererCame ==
  ASSUME FramesOK, [Next]_vars, NEW c \in Curators, cur'[c].pc = "registering"
  PROVE  /\ cur'[c].shard = cur[c].shard
         /\ CurPack(c) \/ cur[c].pc = "registering"
<1>1. CASE cur'[c] = cur[c]
  BY <1>1
<1>2. CASE CuratorStep(c) \/ CurCrash(c)
  <2>1. CASE CurPack(c)
    BY <2>1, CurPackMoves
  <2>2. CASE CurRemoveRaw(c) \/ CurFail(c) \/ CurCrash(c)
    BY <2>2, CurDropMoves
  <2>3. CASE \E s \in Sources : CurClaim(c, s)
    BY <2>3, CurClaimMoves
  <2>4. CASE \E split \in ProtectedSplits : CurRegister(c, split)
    BY <2>4, CurRegisterMoves DEF CurRegister
  <2>5. CASE CurRenew(c)
    BY <1>1, <2>5 DEF CurRenew
  <2>6. CASE \/ CurStart(c) \/ CurRequeue(c) \/ CurRead(c)
             \/ CurComplete(c) \/ CurRetire(c) \/ CurError(c)
    BY <2>6, CurPlainMoves
  <2> QED
    BY <1>2, <2>1, <2>2, <2>3, <2>4, <2>5, <2>6 DEF CuratorStep
<1> QED
  BY <1>1, <1>2, CuratorMoved

LEMMA HeldOutPackedInit == Init => HeldOutPacked
  BY DEF Init, MInit, NewRow, HeldOutPacked

LEMMA HeldOutPackedNext ==
  ASSUME Inv, FramesOK, SplitsKept, HeldOutPacked, [Next]_vars
  PROVE  HeldOutPacked'
<1>1. ASSUME NEW i \in Shards \ Sources, rows'[i].state = "PACKED"
      PROVE  packed'[i] # NULL
  <2>1. packed[i] # NULL
    <3>1. ASSUME NEW c \in Curators, NEW split \in ProtectedSplits,
                 CurRegister(c, split), i = HeldOut(cur[c].shard, split)
          PROVE  packed[i] # NULL
      BY <3>1 DEF CurRegister, FramesOK, CurFrame, HeldOutPacked
    <3> QED
      BY <1>1, <3>1, HeldOutCame DEF HeldOutPacked
  <2>2. CASE Wipes
    <3>1. NothingPacked /\ rows' = rows
      BY <2>2 DEF Wipes, CutRemovePacked, CutCrash, HeldOutPacked
    <3> QED
      BY <1>1, <3>1 DEF NothingPacked
  <2> QED
    BY <2>1, <2>2, HeldOutFileStays
<1>2. ASSUME NEW c \in Curators, cur'[c].pc = "registering",
             NEW split \in SplitsOf[cur'[c].shard] \cap ProtectedSplits
      PROVE  packed'[HeldOut(cur'[c].shard, split)] # NULL
  <2>1. CASE CurPack(c)
    BY <1>2, <2>1, RegistererCame, CurPackFiles
  <2>2. CASE cur[c].pc = "registering"
    <3>1. cur'[c].shard = cur[c].shard /\ cur[c].shard \in Sources
      BY <1>2, <2>2, RegistererCame DEF FramesOK, CurFrame
    <3>2. packed[HeldOut(cur[c].shard, split)] # NULL
      BY <1>2, <2>2, <3>1 DEF HeldOutPacked
    <3>3. HeldOut(cur[c].shard, split) \in Shards \ Sources
      BY <1>2, <3>1
    <3>4. ~Wipes
      BY <2>2, CurAwake DEF Wipes
    <3> QED
      BY <3>1, <3>2, <3>3, <3>4, HeldOutFileStays
  <2> QED
    BY <1>2, <2>1, <2>2, RegistererCame
<1>3. ASSUME cut' = "cleared"
      PROVE  NothingPacked'
  <2>1. CASE CutClear
    <3>1. ASSUME NEW i \in Shards
          PROVE  rows'[i].state \notin Claimed \cup {"PACKED", "CONSUMED"}
      BY <2>1, InvRows, RowFields DEF CutClear, ClearTokenizerForRetrain, Claimed
    <3> QED
      BY <3>1 DEF NothingPacked
  <2>2. CASE cut = "cleared"
    BY <2>2, CutQuiet DEF AllQuiet, Quiet, HeldOutPacked, NothingPacked, Claimed
  <2>3. CASE cut # "cleared" /\ ~CutClear
    <3>1. ASSUME NEW c \in Curators, CuratorStep(c) \/ CurCrash(c) PROVE cut' = cut
      BY <3>1, CuratorStill
    <3>2. ASSUME NEW r \in Trainers, TrainerStep(r) \/ TrnCrash(r) PROVE cut' = cut
      BY <3>2, TrainerStill
    <3>3. CASE CollectorNext \/ JanitorNext \/ OperatorNext \/ \E s \in Sources : Lapse(s)
      BY <1>3, <2>3, <3>3 DEF CollectorNext, JanitorNext, OperatorNext, Publish, Register,
         AdvanceCursor, CollectorCrash, Reclaim, Evict, Chooses, Unlink, JanMark, JanCrash, JanOthers,
         TrainTokenizer, Freeze, CutAbandon, CutRemovePacked, CutCrash, Lapse
    <3>4. CASE UNCHANGED vars
      BY <1>3, <2>3, <3>4 DEF vars
    <3> QED
      BY <1>3, <2>3, <3>1, <3>2, <3>3, <3>4 DEF Next
  <2> QED
    BY <2>1, <2>2, <2>3
<1> QED
  BY <1>1, <1>2, <1>3 DEF HeldOutPacked

LEMMA HeldOutSuffices == SplitsKept /\ HeldOutPacked => HeldOutFilesKept
  BY DEF SplitsKept, HeldOutPacked, HeldOutFilesKept, ProtectedSplits

LEMMA HeldOutInvariant == Spec => [](SplitsKept /\ HeldOutPacked)
<1>1. Init => SplitsKept /\ HeldOutPacked
  BY SplitsInit, HeldOutPackedInit
<1>2. Inv /\ FramesOK /\ SplitsKept /\ HeldOutPacked /\ [Next]_vars
      => SplitsKept' /\ HeldOutPacked'
  BY SplitsNext, HeldOutPackedNext
<1> QED
  BY <1>1, <1>2, ManifestInvariantHolds, FramesInvariant, PTL DEF Spec

(* While a val or test row is offered its files are on disk, whatever the  *)
(* janitor evicts, whoever crashes, and wherever a cutover stops: the      *)
(* janitor's two queries range over all rows, and their guards on the      *)
(* split keep the held-out ones out of every batch.                        *)
THEOREM HeldOutFilesStay == Spec => []HeldOutFilesKept
  BY HeldOutInvariant, HeldOutSuffices, PTL

-----------------------------------------------------------------------------
(* Without eviction the janitor deletes only what was consumed. *)

LEMMA NoEviction ==
  ASSUME EvictBatch = 0, IsFiniteSet(Shards), NEW S \in SUBSET Shards
  PROVE  ~Evict(S)
<1>1. IsFiniteSet(S)
  BY FS_Subset
<1>2. Cardinality(S) \in Nat /\ (Cardinality(S) = 0 <=> S = {})
  BY <1>1, FS_CardinalityType, FS_EmptySet
<1> QED
  BY <1>2 DEF Evict

LEMMA JanitorCalmInit == Init => JanitorCalm
  BY DEF Init, JanIdle, JanitorCalm

LEMMA JanitorCalmNext ==
  ASSUME EvictBatch = 0, IsFiniteSet(Shards), Inv, FramesOK, JanitorCalm, [Next]_vars
  PROVE  JanitorCalm'
<1>1. ASSUME jan' = jan \/ (Unlink /\ jan'.batch = jan.batch /\ jan'.raws = jan.raws)
      PROVE  JanitorCalm'
  <2>1. ASSUME jan'.pc # "idle", NEW s \in jan'.batch \cup jan'.raws
        PROVE  rows'[s].state \in Gone
    <3>1. s \in Shards /\ rows[s].state \in Gone
      BY <1>1, <2>1 DEF JanitorCalm, FramesOK, Unlink
    <3> QED
      BY <3>1, GoneStays
  <2> QED
    BY <1>1, <2>1 DEF JanitorCalm
<1>2. ASSUME NEW S \in SUBSET Shards, Reclaim(S)
      PROVE  JanitorCalm'
  BY <1>2 DEF Reclaim, Chooses, JanitorCalm, Gone
<1>3. CASE jan' = JanIdle
  BY <1>3 DEF JanIdle, JanitorCalm
<1> QED
  BY <1>1, <1>2, <1>3, JanitorCame, NoEviction

LEMMA CalmInvariant ==
  ASSUME EvictBatch = 0, IsFiniteSet(Shards)
  PROVE  Spec => []JanitorCalm
<1>1. Inv /\ FramesOK /\ JanitorCalm /\ [Next]_vars => JanitorCalm'
  BY JanitorCalmNext
<1> QED
  BY <1>1, JanitorCalmInit, ManifestInvariantHolds, FramesInvariant, PTL DEF Spec

-----------------------------------------------------------------------------
(* Raw files. *)

\* Which steps write the raw files.
LEMMA RawWrites ==
  ASSUME FramesOK, [Next]_vars
  PROVE  \/ UNCHANGED raw
         \/ \E s \in Sources : Publish(s)
         \/ \E c \in Curators : CurRemoveRaw(c)
         \/ Unlink
<1>1. ASSUME NEW c \in Curators, CuratorStep(c) \/ CurCrash(c), ~CurRemoveRaw(c)
      PROVE  UNCHANGED raw
  BY <1>1, CuratorStill
<1>2. ASSUME NEW r \in Trainers, TrainerStep(r) \/ TrnCrash(r)
      PROVE  UNCHANGED raw
  BY <1>2, TrainerStill DEF disk
<1>3. CASE CollectorNext \/ JanitorNext \/ OperatorNext \/ \E s \in Sources : Lapse(s)
  BY <1>3 DEF CollectorNext, JanitorNext, OperatorNext, Register, AdvanceCursor,
     CollectorCrash, Reclaim, Evict, Chooses, JanMark, JanCrash, TrainTokenizer, Freeze, CutAbandon,
     CutClear, CutRemovePacked, CutCrash, Lapse, disk
<1>4. CASE UNCHANGED vars
  BY <1>4 DEF vars
<1> QED
  BY <1>1, <1>2, <1>3, <1>4 DEF Next

LEMMA RawStays ==
  ASSUME Inv, FramesOK, FinishersArePast, JanitorCalm, [Next]_vars,
         NEW s \in Sources, s \in raw, rows'[s].state \in Unpacked \cup {"ABSENT"}
  PROVE  s \in raw'
<1>1. ASSUME NEW c \in Curators, CurRemoveRaw(c)
      PROVE  s \in raw'
  <2>1. CASE s = cur[c].shard
    <3>1. rows[s].state \in PackedOnce
      BY <1>1, <2>1 DEF CurRemoveRaw, FinishersArePast, Finishing
    <3>2. rows'[s].state \in PackedOnce
      BY <3>1, PackedOnceStays
    <3> QED
      BY <3>2 DEF PackedOnce, Unpacked
  <2> QED
    BY <1>1, <2>1 DEF CurRemoveRaw
<1>2. CASE Unlink
  BY <1>2 DEF Unlink, JanitorCalm, Gone, Unpacked
<1>3. ASSUME NEW x \in Sources, Publish(x)
      PROVE  s \in raw'
  BY <1>3 DEF Publish
<1> QED
  BY <1>1, <1>2, <1>3, RawWrites

\* How a row comes to where it has to be packed, or is not registered.
LEMMA UnpackedCame ==
  ASSUME Inv, FramesOK, [Next]_vars, NEW s \in Sources
  PROVE  /\ rows'[s].state \in Unpacked =>
              \/ rows[s].state \in Unpacked
              \/ Register /\ s = coll.shard /\ rows[s].state = "ABSENT"
         /\ rows'[s].state = "ABSENT" => rows[s].state = "ABSENT"
<1>1. CASE AllQuiet
  BY <1>1 DEF AllQuiet, Quiet, Unpacked, Claimed, Origin
<1>2. ASSUME NEW x \in Sources, SourceWrite(x)
      PROVE  /\ rows'[s].state \in Unpacked =>
                  \/ rows[s].state \in Unpacked
                  \/ Register /\ s = coll.shard /\ rows[s].state = "ABSENT"
             /\ rows'[s].state = "ABSENT" => rows[s].state = "ABSENT"
  BY <1>2, CurCompletes DEF SourceWrite, OnlyRow, Unpacked
<1>3. ASSUME NEW c \in Curators, NEW split \in ProtectedSplits, HeldOutAdd(c, split)
      PROVE  rows'[s] = rows[s]
  BY <1>3 DEF HeldOutAdd, OnlyRow
<1> QED
  BY <1>1, <1>2, <1>3, StepKinds

LEMMA CollectorCame ==
  ASSUME FramesOK, [Next]_vars, coll'.pc = "published"
  PROVE  \/ coll' = coll
         \/ \E s \in Sources : Publish(s)
<1>1. ASSUME NEW c \in Curators, CuratorStep(c) \/ CurCrash(c)
      PROVE  coll' = coll
  BY <1>1, CuratorStill
<1>2. ASSUME NEW r \in Trainers, TrainerStep(r) \/ TrnCrash(r)
      PROVE  coll' = coll
  BY <1>2, TrainerStill
<1>3. CASE JanitorNext \/ OperatorNext \/ \E s \in Sources : Lapse(s)
  BY <1>3 DEF JanitorNext, OperatorNext, Reclaim, Evict, Chooses, Unlink, JanMark, JanCrash,
     JanOthers, TrainTokenizer, Freeze, CutAbandon, CutClear, CutRemovePacked, CutCrash, Lapse
<1>4. CASE CollectorNext
  <2>1. CASE Register
    <3>1. coll' = [coll EXCEPT !.pc = "registered"] /\ coll.pc = "published"
      BY <2>1 DEF Register
    <3> QED
      BY <3>1
  <2> QED
    BY <1>4, <2>1 DEF CollectorNext, AdvanceCursor, CollectorCrash
<1>5. CASE UNCHANGED vars
  BY <1>5 DEF vars
<1> QED
  BY <1>1, <1>2, <1>3, <1>4, <1>5 DEF Next

LEMMA RawKeptInit == Init => RawKept
  BY DEF Init, MInit, NewRow, RawKept, RawSafe

LEMMA RawKeptNext ==
  ASSUME Inv, FramesOK, FinishersArePast, JanitorCalm, RawKept, [Next]_vars
  PROVE  RawKept'
<1>1. ASSUME NEW s \in Sources, rows'[s].state \in Unpacked
      PROVE  s \in raw'
  <2>1. s \in raw
    BY <1>1, UnpackedCame DEF RawKept, RawSafe, Unpacked, Register
  <2> QED
    BY <1>1, <2>1, RawStays
<1>2. ASSUME coll'.pc = "published", rows'[coll'.shard].state = "ABSENT"
      PROVE  coll'.shard \in raw'
  <2>1. CASE coll' = coll
    <3>1. coll.shard \in Sources /\ coll.pc = "published"
      BY <1>2, <2>1 DEF FramesOK
    <3>2. coll.shard \in raw
      BY <1>2, <2>1, <3>1, UnpackedCame DEF RawKept
    <3> QED
      BY <1>2, <2>1, <3>1, <3>2, RawStays
  <2>2. ASSUME NEW s \in Sources, Publish(s)
        PROVE  coll'.shard \in raw'
    BY <2>2 DEF Publish
  <2> QED
    BY <1>2, <2>1, <2>2, CollectorCame
<1> QED
  BY <1>1, <1>2 DEF RawKept, RawSafe, Unpacked

(* Without eviction, a shard that still has to be packed has its raw file, *)
(* however the curators crash, lose their leases and pack it twice, and    *)
(* whatever the janitor reclaims.                                          *)
THEOREM RawIsSafe ==
  ASSUME EvictBatch = 0, IsFiniteSet(Shards)
  PROVE  Spec => []RawSafe
<1>1. Inv /\ FramesOK /\ FinishersArePast /\ JanitorCalm /\ RawKept /\ [Next]_vars
      => RawKept'
  BY RawKeptNext
<1>2. RawKept => RawSafe
  BY DEF RawKept
<1> QED
  BY <1>1, <1>2, RawKeptInit, ManifestInvariantHolds, FramesInvariant,
     FinishersInvariant, CalmInvariant, PTL DEF Spec

-----------------------------------------------------------------------------
(* Packed files of the sources. *)

LEMMA TrainFileStays ==
  ASSUME FramesOK, HeldOutPacked, JanitorCalm, [Next]_vars,
         NEW s \in Sources, packed[s] # NULL
  PROVE  \/ packed'[s] # NULL
         \/ Unlink /\ rows[s].state \in Gone
         \/ Wipes /\ rows[s].state \notin Claimed \cup {"PACKED"}
<1>1. ASSUME NEW c \in Curators, CurPack(c)
      PROVE  packed'[s] # NULL
  BY <1>1, CurPackMoves, NullAssumption
<1>2. CASE Unlink
  BY <1>2 DEF Unlink, JanitorCalm
<1>3. CASE Wipes
  BY <1>3 DEF Wipes, HeldOutPacked, NothingPacked
<1> QED
  BY <1>1, <1>2, <1>3, PackedWrites

\* How the row of a source comes to offer packed files.
LEMMA OfferCame ==
  ASSUME Inv, FramesOK, TrainPacked, [Next]_vars, NEW s \in Sources,
         rows'[s].state \in {"PACKED", "CLAIMED_TRAIN"}, rows'[s].path = "packed"
  PROVE  packed[s] # NULL
<1>1. CASE AllQuiet
  <2>1. rows[s].path = "packed"
    BY <1>1, NullAssumption DEF AllQuiet, Quiet
  <2>2. rows[s].state \in {"PACKED", "CLAIMED_TRAIN"}
    BY <1>1, <2>1 DEF AllQuiet, Quiet, Claimed, Origin
  <2> QED
    BY <2>1, <2>2 DEF TrainPacked
<1>2. ASSUME NEW x \in Sources, SourceWrite(x)
      PROVE  packed[s] # NULL
  <2>1. CASE x # s
    BY <1>2, <2>1 DEF SourceWrite, OnlyRow, TrainPacked
  <2>2. CASE \E c \in Curators : CurComplete(c) /\ s = cur[c].shard
    <3>1. PICK c \in Curators : CurComplete(c) /\ s = cur[c].shard
      BY <2>2
    <3>2. /\ rows[s].state = "CLAIMED_CURATE" /\ cur[c].pc = "registering"
          /\ rows'[s].path = IF HasTrain(s) THEN "packed" ELSE rows[s].path
      BY <3>1, CurCompletes DEF CurComplete
    <3>3. HasTrain(s)
      BY <3>2 DEF TrainPacked, Unpacked
    <3> QED
      BY <3>1, <3>2, <3>3 DEF TrainPacked, Gone
  <2>3. CASE x = s /\ ~ \E c \in Curators : CurComplete(c) /\ s = cur[c].shard
    BY <1>2, <2>3 DEF SourceWrite, NewRow, TrainPacked
  <2> QED
    BY <2>1, <2>2, <2>3
<1>3. ASSUME NEW c \in Curators, NEW split \in ProtectedSplits, HeldOutAdd(c, split)
      PROVE  packed[s] # NULL
  BY <1>3 DEF HeldOutAdd, OnlyRow, TrainPacked
<1> QED
  BY <1>1, <1>2, <1>3, StepKinds

LEMMA RawPathStays ==
  ASSUME Inv, FramesOK, TrainPacked, [Next]_vars, NEW s \in Sources,
         rows'[s].state \in Unpacked
  PROVE  rows'[s].path # "packed"
<1>1. CASE AllQuiet
  <2>1. rows[s].state \in Unpacked
    BY <1>1 DEF AllQuiet, Quiet, Unpacked, Claimed, Origin
  <2> QED
    BY <1>1, <2>1, NullAssumption DEF AllQuiet, Quiet, TrainPacked
<1>2. ASSUME NEW x \in Sources, SourceWrite(x)
      PROVE  rows'[s].path # "packed"
  <2>1. CASE x = s /\ rows'[s] = NewRow("train", NULL, "raw", "RAW")
    BY <2>1 DEF NewRow
  <2>2. CASE x = s /\ rows'[s] # NewRow("train", NULL, "raw", "RAW")
    <3>1. rows'[s].path = rows[s].path /\ rows[s].state = "RAW"
      BY <1>2, <2>2, CurCompletes DEF SourceWrite, Unpacked
    <3> QED
      BY <3>1 DEF TrainPacked, Unpacked
  <2>3. CASE x # s
    BY <1>2, <2>3 DEF SourceWrite, OnlyRow, TrainPacked
  <2> QED
    BY <2>1, <2>2, <2>3
<1>3. ASSUME NEW c \in Curators, NEW split \in ProtectedSplits, HeldOutAdd(c, split)
      PROVE  rows'[s].path # "packed"
  BY <1>3 DEF HeldOutAdd, OnlyRow, TrainPacked
<1> QED
  BY <1>1, <1>2, <1>3, StepKinds

LEMMA TrainPackedInit == Init => TrainPacked
  BY NullAssumption DEF Init, MInit, NewRow, TrainPacked

LEMMA TrainPackedNext ==
  ASSUME Inv, FramesOK, HeldOutPacked, JanitorCalm, TrainPacked, [Next]_vars
  PROVE  TrainPacked'
<1>1. ASSUME NEW s \in Sources, rows'[s].state \in {"PACKED", "CLAIMED_TRAIN"},
             rows'[s].path = "packed"
      PROVE  packed'[s] # NULL
  <2>1. packed[s] # NULL
    BY <1>1, OfferCame
  <2>2. Unlink \/ Wipes => rows' = rows
    BY DEF Unlink, Wipes, CutRemovePacked, CutCrash
  <2> QED
    BY <1>1, <2>1, <2>2, TrainFileStays DEF Gone, Claimed
<1>2. ASSUME NEW c \in Curators, cur'[c].pc = "registering", HasTrain(cur'[c].shard)
      PROVE  packed'[cur'[c].shard] # NULL \/ rows'[cur'[c].shard].state \in Gone
  <2> DEFINE s == cur[c].shard
  <2>1. CASE CurPack(c)
    BY <1>2, <2>1, RegistererCame, CurPackFiles
  <2>2. CASE cur[c].pc = "registering"
    <3>1. cur'[c].shard = s /\ s \in Sources /\ HasTrain(s)
      BY <1>2, <2>2, RegistererCame DEF FramesOK, CurFrame
    <3>2. ~Wipes
      BY <2>2, CurAwake DEF Wipes
    <3>3. packed[s] # NULL \/ rows[s].state \in Gone
      BY <2>2, <3>1 DEF TrainPacked
    <3>4. rows[s].state \in Gone => rows'[s].state \in Gone
      BY <3>1, GoneStays
    <3> QED
      BY <3>1, <3>2, <3>3, <3>4, TrainFileStays
  <2> QED
    BY <1>2, <2>1, <2>2, RegistererCame
<1> QED
  BY <1>1, <1>2, RawPathStays DEF TrainPacked

LEMMA PackedSuffices ==
  ASSUME Inv, SplitsKept, HeldOutPacked, TrainPacked
  PROVE  PackedSafe
<1>1. ASSUME NEW i \in Shards \ Sources, rows[i].state \in {"PACKED", "CLAIMED_TRAIN"}
      PROVE  packed[i] # NULL
  BY <1>1, HeldOutStates DEF HeldOutPacked
<1> QED
  BY <1>1 DEF PackedSafe, TrainPacked

(* Without eviction, a row that offers packed files has them: a curator    *)
(* that lost its lease, a second packing, the janitor and a cutover that   *)
(* stops half way leave them alone.                                        *)
THEOREM PackedIsSafe ==
  ASSUME EvictBatch = 0, IsFiniteSet(Shards)
  PROVE  Spec => []PackedSafe
<1>1. Inv /\ FramesOK /\ HeldOutPacked /\ JanitorCalm /\ TrainPacked /\ [Next]_vars
      => TrainPacked'
  BY TrainPackedNext
<1>2. Inv /\ SplitsKept /\ HeldOutPacked /\ TrainPacked => PackedSafe
  BY PackedSuffices
<1> QED
  BY <1>1, <1>2, TrainPackedInit, ManifestInvariantHolds, FramesInvariant,
     HeldOutInvariant, CalmInvariant, PTL DEF Spec
=============================================================================
