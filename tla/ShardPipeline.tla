---------------------------- MODULE ShardPipeline ----------------------------
(***************************************************************************)
(* The processes around the shard manifest of apps/ava-factory: a          *)
(* collector that publishes raw files, curators that pack them, trainers   *)
(* that consume the packed files, the janitor that evicts and reclaims,    *)
(* and the operator's tokenizer cutover.  Each handler is split where it   *)
(* leaves a manifest transaction or touches the disk, because there        *)
(* another process, a lapsed lease or a crash can come in between.         *)
(*                                                                         *)
(* Curators and Trainers are process lives (worker_id() is fresh for each  *)
(* life); a container that restarts is the start of another one, so the    *)
(* size of the two sets bounds the number of crashes.                      *)
(***************************************************************************)
EXTENDS ShardManifest

CONSTANTS
  Sources,       \* ids of the shards the collector emits
  SplitsOf,      \* SplitsOf[s]: the splits that get documents when s is packed
  EvictBatch     \* storage.evict_batch_limit

\* The held-out part of shard s is registered as "<id>:val" or "<id>:test".
HeldOut(s, split) == <<s, split>>

ASSUME SourcesAssumption ==
         /\ Sources \subseteq Shards
         /\ SplitsOf \in [Sources -> SUBSET Splits]
         /\ \A s \in Sources : \A split \in SplitsOf[s] \cap ProtectedSplits :
              HeldOut(s, split) \in Shards \ Sources
         /\ NULL \notin Shards
ASSUME EvictBatchAssumption == EvictBatch \in Nat

VARIABLES
  raw,           \* Sources whose raw file is on disk
  packed,        \* packed[i]: tokenizer of the packed files of id i, or NULL
  tokfile,       \* sha of /state/tokenizer.json, or NULL
  coll,          \* the collector: [pc, shard]
  emitted,       \* Sources that the collector's cursor is past
  cur,           \* cur[c]: [pc, shard, lt, todo] of a curator
  trn,           \* trn[r]: [pc, shard] of a trainer
  jan,           \* the janitor: [pc, batch, raws], raws the chosen rows whose
                 \* path is a raw file
  cut            \* the cutover script: "idle", "abandoned", "cleared"

disk == <<raw, packed, tokfile>>
vars == <<rows, frozen, raw, packed, tokfile, coll, emitted, cur, trn, jan, cut>>

CurPcs == { "off", "starting", "idle", "claimed", "packing", "registering",
            "completed", "removing", "failing", "dead" }
TrnPcs == { "off", "starting", "rescuing", "idle", "claimed", "training",
            "failing", "dead" }

HasTrain(s) == "train" \in SplitsOf[s]

\* The id under which the packed files of one split of s are registered.
IdOf(s, split) == IF split = "train" THEN s ELSE HeldOut(s, split)

-----------------------------------------------------------------------------
(* The collector: publish the file, register it, advance the cursor. *)

Publish(s) ==
  /\ coll.pc = "idle" /\ cut = "idle"
  /\ s \notin emitted
  /\ raw' = raw \cup {s}
  /\ coll' = [pc |-> "published", shard |-> s]
  /\ UNCHANGED <<rows, frozen, packed, tokfile, emitted, cur, trn, jan, cut>>

Register ==
  /\ coll.pc = "published"
  /\ CollectorAdds(coll.shard)
  /\ coll' = [coll EXCEPT !.pc = "registered"]
  /\ UNCHANGED <<disk, emitted, cur, trn, jan, cut>>

AdvanceCursor ==
  /\ coll.pc = "registered"
  /\ emitted' = emitted \cup {coll.shard}
  /\ coll' = [pc |-> "idle", shard |-> NULL]
  /\ UNCHANGED <<rows, frozen, disk, cur, trn, jan, cut>>

\* A restarted collector resumes at the cursor and emits the same shard again.
CollectorCrash ==
  /\ coll.pc # "idle"
  /\ coll' = [pc |-> "idle", shard |-> NULL]
  /\ UNCHANGED <<rows, frozen, disk, emitted, cur, trn, jan, cut>>

-----------------------------------------------------------------------------
(* A curator: serve(), run_once(), process_shard(), _emit_packed(). *)

CurGoes(c, pc) == cur' = [cur EXCEPT ![c].pc = pc]
CurOthers == UNCHANGED <<disk, coll, emitted, trn, jan, cut>>

CurStart(c) ==
  /\ cur[c].pc = "off" /\ cut = "idle"
  /\ CurGoes(c, "starting")
  /\ UNCHANGED <<rows, frozen>> /\ CurOthers

\* Mutant: no requeue while idle.
CurRequeue_StartupOnly(c) ==
  cur[c].pc = "starting" /\ RequeueExpired /\ CurGoes(c, "idle") /\ CurOthers

\* serve() requeues on startup, and again every few idle polls.
CurRequeue(c) ==
  /\ cur[c].pc \in {"starting", "idle"}
  /\ RequeueExpired
  /\ CurGoes(c, "idle")
  /\ CurOthers

CurClaim(c, s) ==
  /\ cur[c].pc = "idle"
  /\ CuratorClaims(s, c)
  /\ cur' = [cur EXCEPT ![c].pc = "claimed", ![c].shard = s]
  /\ CurOthers

\* Opens the raw file and filters its documents.
CurRead(c) ==
  /\ cur[c].pc = "claimed"
  /\ cur[c].shard \in raw
  /\ CurGoes(c, "packing")
  /\ UNCHANGED <<rows, frozen>> /\ CurOthers

\* While reading, process_shard() renews and ignores whether it still owns.
CurRenew(c) ==
  /\ cur[c].pc = "packing"
  /\ Renew(cur[c].shard, c)
  /\ UNCHANGED cur /\ CurOthers

\* Step 1 of _emit_packed; the tokenizer is loaded once per process.
CurPack(c) ==
  LET s  == cur[c].shard
      lt == IF cur[c].lt # NULL THEN cur[c].lt ELSE tokfile IN
  /\ cur[c].pc = "packing"
  /\ lt # NULL
  /\ packed' = [i \in Shards |-> IF \E split \in SplitsOf[s] : i = IdOf(s, split)
                                 THEN lt ELSE packed[i]]
  /\ cur' = [cur EXCEPT ![c].pc = "registering", ![c].lt = lt,
                        ![c].todo = SplitsOf[s] \cap ProtectedSplits]
  /\ UNCHANGED <<rows, frozen, raw, tokfile, coll, emitted, trn, jan, cut>>

\* Mutant: the held-out row is registered with add_shard's default split.
CurRegister_DefaultSplit(c, split) ==
  /\ cur[c].pc = "registering"
  /\ split \in cur[c].todo
  /\ AddShard(HeldOut(cur[c].shard, split), "train", cur[c].lt, "packed", "PACKED")
  /\ cur' = [cur EXCEPT ![c].todo = @ \ {split}]
  /\ CurOthers

\* Step 2: val before test.
CurRegister(c, split) ==
  /\ cur[c].pc = "registering"
  /\ split \in cur[c].todo
  /\ split = "test" => "val" \notin cur[c].todo
  /\ CuratorAdds(HeldOut(cur[c].shard, split), split, cur[c].lt)
  /\ cur' = [cur EXCEPT ![c].todo = @ \ {split}]
  /\ CurOthers

\* Step 3.
CurComplete(c) ==
  LET s == cur[c].shard IN
  /\ cur[c].pc = "registering" /\ cur[c].todo = {}
  /\ CuratorCompletes(s, c, IF HasTrain(s) THEN "packed" ELSE NULL, cur[c].lt)
  /\ CurGoes(c, IF HasTrain(s) THEN "removing" ELSE "completed")
  /\ CurOthers

\* No document went to the train split: the completed row is retired.
CurRetire(c) ==
  /\ cur[c].pc = "completed"
  /\ MarkDeleted({cur[c].shard})
  /\ CurGoes(c, "removing")
  /\ CurOthers

\* Step 4: the raw file goes last.
CurRemoveRaw(c) ==
  /\ cur[c].pc = "removing"
  /\ raw' = raw \ {cur[c].shard}
  /\ cur' = [cur EXCEPT ![c].pc = "idle", ![c].shard = NULL]
  /\ UNCHANGED <<rows, frozen, packed, tokfile, coll, emitted, trn, jan, cut>>

(* Any of those steps may raise: a poison document, a full disk, a manifest *)
(* call whose guard is false or that waits too long for the database.      *)
(* run_once() catches every exception.                                     *)
CurRaises(c) ==
  cur[c].pc \in {"claimed", "packing", "registering", "completed", "removing"}

\* Mutants: step 4 runs although step 3 raised; the failure is not reported.
CurError_Continues(c) ==
  CurRaises(c) /\ CurGoes(c, "removing") /\ UNCHANGED <<rows, frozen>> /\ CurOthers
CurError_Silent(c) ==
  /\ CurRaises(c)
  /\ cur' = [cur EXCEPT ![c].pc = "idle", ![c].shard = NULL, ![c].todo = {}]
  /\ UNCHANGED <<rows, frozen>> /\ CurOthers

CurError(c) ==
  /\ CurRaises(c)
  /\ CurGoes(c, "failing")
  /\ UNCHANGED <<rows, frozen>> /\ CurOthers

\* run_once() reports the failure; the report itself may raise, and then
\* nothing catches it and the process ends.
CurFail(c) ==
  LET s == cur[c].shard IN
  /\ cur[c].pc = "failing"
  /\ cur' = [cur EXCEPT ![c].pc = IF CanFail(s) THEN "idle" ELSE "dead",
                        ![c].shard = NULL, ![c].todo = {}]
  /\ IF CanFail(s) THEN Fail(s) ELSE UNCHANGED <<rows, frozen>>
  /\ CurOthers

CurCrash(c) ==
  /\ cur[c].pc \notin {"off", "dead"}
  /\ cur' = [cur EXCEPT ![c].pc = "dead", ![c].shard = NULL, ![c].todo = {}]
  /\ UNCHANGED <<rows, frozen>> /\ CurOthers

-----------------------------------------------------------------------------
(* A trainer's StreamingShardSampler. *)

TrnGoes(r, pc) == trn' = [trn EXCEPT ![r].pc = pc]
TrnDrops(r, pc) == trn' = [trn EXCEPT ![r].pc = pc, ![r].shard = NULL]
TrnOthers == UNCHANGED <<disk, coll, emitted, cur, jan, cut>>

TrnStart(r) ==
  /\ trn[r].pc = "off" /\ cut = "idle"
  /\ TrnGoes(r, "starting")
  /\ UNCHANGED <<rows, frozen>> /\ TrnOthers

\* __enter__: two transactions.
TrnRequeue(r) ==
  /\ trn[r].pc = "starting"
  /\ RequeueExpired
  /\ TrnGoes(r, "rescuing")
  /\ TrnOthers

TrnRescue(r) ==
  /\ trn[r].pc = "rescuing"
  /\ RescueStranded
  /\ TrnGoes(r, "idle")
  /\ TrnOthers

TrnClaim(r, s) ==
  /\ trn[r].pc = "idle"
  /\ TrainerClaims(s, r)
  /\ trn' = [trn EXCEPT ![r].pc = "claimed", ![r].shard = s]
  /\ TrnOthers

\* _LoadedShard checks the files against the hashes of the claimed row, and
\* _claim() the file's tokenizer against the freeze.
Loadable(s) ==
  /\ HasTrain(s)
  /\ packed[s] # NULL /\ packed[s] = rows[s].sha
  /\ frozen \in {NULL, packed[s]}

TrnLoad(r) ==
  /\ trn[r].pc = "claimed"
  /\ TrnGoes(r, IF Loadable(trn[r].shard) THEN "training" ELSE "failing")
  /\ UNCHANGED <<rows, frozen>> /\ TrnOthers

\* Nothing in the sampler catches what fail() raises.
TrnFail(r) ==
  LET s == trn[r].shard IN
  /\ trn[r].pc = "failing"
  /\ TrnDrops(r, IF CanFail(s) THEN "idle" ELSE "dead")
  /\ IF CanFail(s) THEN Fail(s) ELSE UNCHANGED <<rows, frozen>>
  /\ TrnOthers

TrnRenew(r) ==
  /\ trn[r].pc = "training"
  /\ Renew(trn[r].shard, r)
  /\ UNCHANGED trn /\ TrnOthers

\* _release() swallows whatever complete() raises: a lost lease, but also a
\* database that stays busy, and then the row keeps naming the trainer.
TrnFinish(r) ==
  LET s == trn[r].shard IN
  /\ trn[r].pc = "training"
  /\ TrnDrops(r, "idle")
  /\ TrainerCompletes(s, r) \/ UNCHANGED <<rows, frozen>>
  /\ TrnOthers

\* __exit__ -> release_held(): hand the shard back.
TrnExit(r) ==
  LET s == trn[r].shard IN
  /\ trn[r].pc \in {"idle", "training"}
  /\ TrnDrops(r, "dead")
  /\ IF trn[r].pc = "training" /\ CanRelease(s, r) THEN ReleaseClaim(s, r)
                                                   ELSE UNCHANGED <<rows, frozen>>
  /\ TrnOthers

TrnCrash(r) ==
  /\ trn[r].pc \notin {"off", "dead"}
  /\ TrnDrops(r, "dead")
  /\ UNCHANGED <<rows, frozen>> /\ TrnOthers

-----------------------------------------------------------------------------
(* The janitor: choose rows, delete their files, mark the rows deleted. *)

JanGoes(pc) == jan' = [jan EXCEPT !.pc = pc]
JanOthers == UNCHANGED <<coll, emitted, cur, trn, cut>>
JanIdle == [pc |-> "idle", batch |-> {}, raws |-> {}]

\* The files are deleted by the path that the row had when it was chosen.
Chooses(S) ==
  /\ jan' = [pc |-> "chosen", batch |-> S, raws |-> {s \in S : rows[s].path = "raw"}]
  /\ UNCHANGED <<rows, frozen, disk>> /\ JanOthers

\* reclaim_consumed(): CONSUMED rows outside val and test.
Reclaim(S) ==
  /\ jan.pc = "idle" /\ S # {}
  /\ \A s \in S : rows[s].state = "CONSUMED" /\ rows[s].split \notin ProtectedSplits
  /\ Chooses(S)

\* Mutant: the query does not look at the split.
Evict_AnySplit(S) ==
  /\ jan.pc = "idle" /\ S # {} /\ Cardinality(S) <= EvictBatch
  /\ \A s \in S : rows[s].state \in {"RAW", "PACKED"}
  /\ Chooses(S)

\* evict_oversupplied(): unclaimed train rows; the curriculum's ranking of
\* them is abstracted to any choice of at most EvictBatch.
Evict(S) ==
  /\ jan.pc = "idle" /\ S # {} /\ Cardinality(S) <= EvictBatch
  /\ \A s \in S : rows[s].state \in {"RAW", "PACKED"} /\ rows[s].split = "train"
  /\ Chooses(S)

Unlink ==
  /\ jan.pc = "chosen"
  /\ raw' = raw \ jan.raws
  /\ packed' = [i \in Shards |-> IF i \in jan.batch \ jan.raws THEN NULL ELSE packed[i]]
  /\ JanGoes("unlinked")
  /\ UNCHANGED <<rows, frozen, tokfile>> /\ JanOthers

\* A batch that mark_deleted() refuses is only counted in the statistics.
JanMark ==
  /\ jan.pc = "unlinked"
  /\ IF CanDelete(jan.batch) THEN MarkDeleted(jan.batch) ELSE UNCHANGED <<rows, frozen>>
  /\ jan' = JanIdle
  /\ UNCHANGED disk /\ JanOthers

JanCrash ==
  /\ jan.pc # "idle"
  /\ jan' = JanIdle
  /\ UNCHANGED <<rows, frozen, disk>> /\ JanOthers

-----------------------------------------------------------------------------
(* The operator: tokenizer training, and the cutover script, which is run  *)
(* with collector, curators and trainers stopped.                          *)

\* `tokenizer train`: replaces the tokenizer file.
TrainTokenizer(t) ==
  /\ tokfile # t
  /\ tokfile' = t
  /\ UNCHANGED <<rows, frozen, raw, packed, coll, emitted, cur, trn, jan, cut>>

\* `--freeze`: records the file's sha in the manifest.
Freeze ==
  /\ tokfile # NULL /\ cut = "idle"
  /\ FreezeTokenizer(tokfile)
  /\ UNCHANGED <<disk, coll, emitted, cur, trn, jan, cut>>

WorkersStopped ==
  /\ coll.pc = "idle"
  /\ \A c \in Curators : cur[c].pc \in {"off", "dead"}
  /\ \A r \in Trainers : trn[r].pc \in {"off", "dead"}

CutAbandon ==
  /\ cut = "idle" /\ WorkersStopped
  /\ AbandonClaims
  /\ cut' = "abandoned"
  /\ UNCHANGED <<disk, coll, emitted, cur, trn, jan>>

CutClear ==
  /\ cut = "abandoned"
  /\ ClearTokenizerForRetrain
  /\ cut' = "cleared"
  /\ UNCHANGED <<disk, coll, emitted, cur, trn, jan>>

CutRemovePacked ==
  /\ cut = "cleared"
  /\ packed' = [i \in Shards |-> NULL]
  /\ cut' = "idle"
  /\ UNCHANGED <<rows, frozen, raw, tokfile, coll, emitted, cur, trn, jan>>

\* The script dies; of the packed files it may have removed some.
CutCrash ==
  /\ cut # "idle"
  /\ \E S \in SUBSET Shards :
       /\ cut = "abandoned" => S = {}
       /\ packed' = [i \in Shards |-> IF i \in S THEN NULL ELSE packed[i]]
  /\ cut' = "idle"
  /\ UNCHANGED <<rows, frozen, raw, tokfile, coll, emitted, cur, trn, jan>>

\* Wall-clock time passes the lease of a row.
Lapse(s) ==
  /\ LeaseLapses(s)
  /\ UNCHANGED <<disk, coll, emitted, cur, trn, jan, cut>>

-----------------------------------------------------------------------------
Init ==
  /\ MInit
  /\ raw = {} /\ emitted = {} /\ tokfile = NULL
  /\ packed = [i \in Shards |-> NULL]
  /\ coll = [pc |-> "idle", shard |-> NULL]
  /\ cur = [c \in Curators |-> [pc |-> "off", shard |-> NULL, lt |-> NULL, todo |-> {}]]
  /\ trn = [r \in Trainers |-> [pc |-> "off", shard |-> NULL]]
  /\ jan = JanIdle
  /\ cut = "idle"

CollectorNext == (\E s \in Sources : Publish(s)) \/ Register \/ AdvanceCursor \/ CollectorCrash

CuratorStep(c) ==
  \/ CurStart(c) \/ CurRequeue(c) \/ CurRead(c) \/ CurRenew(c) \/ CurPack(c)
  \/ \E s \in Sources : CurClaim(c, s)
  \/ \E split \in ProtectedSplits : CurRegister(c, split)
  \/ CurComplete(c) \/ CurRetire(c) \/ CurRemoveRaw(c)
  \/ CurError(c) \/ CurFail(c)

TrainerStep(r) ==
  \/ TrnStart(r) \/ TrnRequeue(r) \/ TrnRescue(r) \/ TrnLoad(r) \/ TrnFail(r)
  \/ \E s \in Sources : TrnClaim(r, s)
  \/ TrnRenew(r) \/ TrnFinish(r) \/ TrnExit(r)

JanitorNext ==
  \/ \E S \in SUBSET Shards : Reclaim(S) \/ Evict(S)
  \/ Unlink \/ JanMark \/ JanCrash

OperatorNext ==
  \/ \E t \in Tokenizers : TrainTokenizer(t)
  \/ Freeze \/ CutAbandon \/ CutClear \/ CutRemovePacked \/ CutCrash

Next ==
  \/ CollectorNext
  \/ \E c \in Curators : CuratorStep(c) \/ CurCrash(c)
  \/ \E r \in Trainers : TrainerStep(r) \/ TrnCrash(r)
  \/ JanitorNext
  \/ OperatorNext
  \/ \E s \in Sources : Lapse(s)

Spec == Init /\ [][Next]_vars

(* The operating system schedules every living process and the clock runs. *)
(* Renewing is left out, so that a process cannot satisfy its fairness by  *)
(* renewing for ever, and so are crashes, starts and exits.                *)
CurWorks(c) ==
  \/ CurRead(c) \/ CurPack(c) \/ CurComplete(c) \/ CurRetire(c) \/ CurRemoveRaw(c)
  \/ \E split \in ProtectedSplits : CurRegister(c, split)
  \/ CurError(c) \/ CurFail(c)
TrnWorks(r) == TrnRequeue(r) \/ TrnRescue(r) \/ TrnLoad(r) \/ TrnFail(r) \/ TrnFinish(r)

Fairness ==
  /\ \A c \in Curators : WF_vars(CurWorks(c)) /\ WF_vars(CurRequeue(c))
  /\ \A r \in Trainers : WF_vars(TrnWorks(r))
  /\ \A s \in Sources : WF_vars(Lapse(s))

FairSpec == Spec /\ Fairness

-----------------------------------------------------------------------------
(* Properties. *)

(* "A crash before this only leaks an inert raw file, never loses data": a *)
(* shard that still has to be packed has its raw file, however curators    *)
(* crash, lose their leases and finish the same shard twice.  Eviction is  *)
(* excluded (EvictBatch = 0): EvictionSparesClaims shows what it does.     *)
RawSafe ==
  \A s \in Sources : rows[s].state \in {"RAW", "CLAIMED_CURATE"} => s \in raw

(* A row that offers packed data has its files: no zombie curator, janitor *)
(* pass, replay or cutover pulls them away, whichever tokenizer each of    *)
(* them loaded.  That the files were packed with the row's tokenizer is    *)
(* not promised: a shard that is packed again after a retraining           *)
(* overwrites them, and TrnLoad refuses such files by their hash.          *)
PackedSafe ==
  \A i \in Shards :
    /\ rows[i].state \in {"PACKED", "CLAIMED_TRAIN"}
    /\ rows[i].path = "packed"
    => packed[i] # NULL

(* At most one curator ever gets past the completion of a shard: only one  *)
(* of those that packed it retires its row and removes its raw file.       *)
SingleFinisher ==
  \A c, d \in Curators :
    /\ cur[c].pc \in {"completed", "removing"}
    /\ cur[d].pc \in {"completed", "removing"}
    /\ cur[c].shard = cur[d].shard
    => c = d

(* A living curator never forgets a shard it owns: whatever raises in it,  *)
(* it reports the failure or ends, for a claim whose owner moved on would  *)
(* block the shard for a whole lease for nothing.  A trainer does move on  *)
(* so, when complete() raises in TrnFinish.                                *)
NoForgottenClaim ==
  \A s \in Sources, c \in Curators :
    rows[s].by = c /\ cur[c].pc # "dead" => cur[c].shard = s

(* "Only the lease holder may complete": a claimed row advances only in a  *)
(* step of the process it names, which is then working on this very row.   *)
OnlyHolderAdvances ==
  [][\A s \in Sources :
       /\ rows[s].state = "CLAIMED_CURATE" /\ rows'[s].state = "PACKED" =>
            \E c \in Curators : /\ rows[s].by = c /\ cur[c].shard = s
                              /\ cur[c].pc = "registering" /\ cur'[c] # cur[c]
       /\ rows[s].state = "CLAIMED_TRAIN" /\ rows'[s].state = "CONSUMED" =>
            \E r \in Trainers : /\ rows[s].by = r /\ trn[r].shard = s
                              /\ trn[r].pc = "training" /\ trn'[r] # trn[r]]_vars

(* "the janitor must never delete them": while a held-out row is PACKED its *)
(* packed files are on disk, whatever the janitor evicts and whoever       *)
(* crashes in between.                                                     *)
HeldOutFilesKept ==
  \A i \in Shards : rows[i].split \in ProtectedSplits /\ rows[i].state = "PACKED"
                    => packed[i] # NULL

(* Every call of the processes is a call the manifest's specification      *)
(* allows: what is proved of ShardManifest holds of the whole pipeline.    *)
ImplementsManifest == MSpec

(* "This is what makes docker kill on a curator safe": as long as one      *)
(* curator lives, no shard stays in the hands of a process for ever, also  *)
(* not of one that was killed or lost track of it.                         *)
ClaimsEnd ==
  (\E c \in Curators : <>[](cur[c].pc \notin {"off", "dead"}))
  => \A s \in Sources : []<>(rows[s].state \notin Claimed)

(* Eviction protects "CLAIMED_* (leased work in flight)": no step takes    *)
(* away the file that the owner of a claimed shard is working from.        *)
EvictionSparesClaims ==
  [][\A s \in Sources :
       /\ rows[s].state = "CLAIMED_CURATE" /\ s \in raw => s \in raw'
       /\ rows[s].state = "CLAIMED_TRAIN" /\ packed[s] # NULL => packed'[s] # NULL]_vars
=============================================================================
