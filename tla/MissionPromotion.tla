--------------------------- MODULE MissionPromotion ---------------------------
(***************************************************************************)
(* `factory mission promote`: the outputs of a passed attempt are          *)
(* published into the repository by way of a journal (promote_attempt and  *)
(* _recover_promotion of mission.py).  Each output is copied to a stage    *)
(* file beside its destination; the destination is a hard link to the      *)
(* stage, and "the same inode as my stage" is how a later run of the       *)
(* command, after a crash, knows that a destination is its own.            *)
(*                                                                         *)
(* A promoter is one run of the command.  It can be killed between any two *)
(* calls, every call can raise, a person can create or delete the          *)
(* destination files, and the other commands work on the same ledger.      *)
(***************************************************************************)
EXTENDS MissionLedger

CONSTANTS
  NOutputs,      \* mission.outputs, by their position
  MaxCrashes,    \* bound of the model: killed promoters
  Overlap        \* FALSE: one promoter at a time

ASSUME PromotionAssumption ==
         /\ NOutputs \in Nat \ {0} /\ MaxCrashes \in Nat /\ Overlap \in BOOLEAN
         /\ Promotions \cap {"someone", "none", "whole", NULL} = {} /\ NULL # "someone"

VARIABLES
  prom,          \* the frame of each promoter; a promoter that begins a
                 \* transaction is identified with it
  stage,         \* per transaction and output: the stage file
  dest,          \* per output: the destination file
  kills

pvars == <<prom, stage, dest, kills>>
vars  == <<missions, attempts, journal, prom, stage, dest, kills>>

Outputs == 1..NOutputs

Idle == {"new", "returned", "killed"}
PCs  == Idle \cup {"reread", "stage", "copy", "verify", "publish", "link",
                   "check", "finalize", "handler", "unlink", "rollback", "cleanup"}

PromRow == [ pc : PCs, txn : Promotions \cup {NULL}, k : 1..NOutputs + 1,
             owned : SUBSET Outputs ]

(* A stage file is absent, complete, or being written by a promoter.  A    *)
(* destination is somebody's, or a transaction's; then it also says        *)
(* whether that stage file is still a link to the same inode, and whether  *)
(* the inode is complete.                                                  *)
StageFile == {"none", "whole"} \cup Promotions
DestFile  == [ of     : Promotions \cup {"someone", NULL},
               linked : BOOLEAN,
               whole  : BOOLEAN ]

NoFile  == [of |-> NULL, linked |-> FALSE, whole |-> FALSE]
Foreign == [of |-> "someone", linked |-> FALSE, whole |-> FALSE]
LinkTo(t, o) == [of |-> t, linked |-> TRUE, whole |-> stage[t][o] = "whole"]

SameFile(t, o) == stage[t][o] # "none" /\ dest[o].of = t /\ dest[o].linked

Here(p, pc)  == prom[p].pc = pc
GoTo(p, pc)  == prom' = [prom EXCEPT ![p].pc = pc]
Txn(p)       == prom[p].txn
Output(p)    == prom[p].k

SetStage(t, o, f) == stage' = [stage EXCEPT ![t] = [@ EXCEPT ![o] = f]]

MayStart(p) == /\ Here(p, "new")
               /\ Overlap \/ \A q \in Promotions : prom[q].pc \in Idle

-----------------------------------------------------------------------------
(* promote_attempt.  Its checks of files and hashes can only make it       *)
(* raise before anything is written.                                       *)

\* Mutant: the verdict in the evidence is not looked at.
Begins_AnyVerdict(p, a, r, s) ==
  /\ MayStart(p)
  /\ BeginPromotion(p, a, r, s)
  /\ prom' = [prom EXCEPT ![p] = [pc |-> "reread", txn |-> p, k |-> 1, owned |-> {}]]
  /\ UNCHANGED <<stage, dest, kills>>

Begins(p, a, r, s) ==
  /\ MayStart(p)
  /\ Made(a)
  /\ attempts[a].provenance = "passed"
  /\ BeginPromotion(p, a, r, s)
  /\ prom' = [prom EXCEPT ![p] = [pc |-> "reread", txn |-> p, k |-> 1, owned |-> {}]]
  /\ UNCHANGED <<stage, dest, kills>>

Rereads(p) ==
  /\ Here(p, "reread")
  /\ GoTo(p, IF journal[p].state = "pending" THEN "stage" ELSE "returned")
  /\ UNCHANGED <<lvars, stage, dest, kills>>

\* A pending transaction is taken over by the same reviewer and shipper.
Recovers(p, t, r, s) ==
  /\ MayStart(p)
  /\ journal[p].state = "none"
  /\ journal[t].state = "pending"
  /\ journal[t].reviewer = r /\ journal[t].shipper = s
  /\ prom' = [prom EXCEPT ![p] = [pc |-> "stage", txn |-> t, k |-> 1, owned |-> {}]]
  /\ UNCHANGED <<lvars, stage, dest, kills>>

-----------------------------------------------------------------------------
(* _recover_promotion: the loop over the outputs. *)

\* open(stage, "xb"): a stage file that exists is not written again.
OpensStage(p) ==
  /\ Here(p, "stage")
  /\ IF stage[Txn(p)][Output(p)] = "none"
     THEN SetStage(Txn(p), Output(p), p) /\ GoTo(p, "copy")
     ELSE GoTo(p, "verify") /\ UNCHANGED stage
  /\ UNCHANGED <<lvars, dest, kills>>

Copies(p) ==
  LET o == Output(p) IN
  /\ Here(p, "copy")
  /\ IF stage[Txn(p)][o] = p
     THEN /\ SetStage(Txn(p), o, "whole")
          /\ dest' = IF SameFile(Txn(p), o)
                     THEN [dest EXCEPT ![o].whole = TRUE] ELSE dest
     ELSE UNCHANGED <<stage, dest>>
  /\ GoTo(p, "verify")
  /\ UNCHANGED <<lvars, kills>>

VerifiesStage(p) ==
  /\ Here(p, "verify")
  /\ GoTo(p, IF stage[Txn(p)][Output(p)] = "whole" THEN "publish" ELSE "handler")
  /\ UNCHANGED <<lvars, stage, dest, kills>>

\* destination.exists()
LooksAtDestination(p) ==
  /\ Here(p, "publish")
  /\ GoTo(p, IF stage[Txn(p)][Output(p)] = "none" THEN "handler"
             ELSE IF dest[Output(p)] = NoFile THEN "link"
             ELSE IF SameFile(Txn(p), Output(p)) THEN "check" ELSE "handler")
  /\ UNCHANGED <<lvars, stage, dest, kills>>

\* Mutant: os.replace instead of os.link.
Links_Replacing(p) ==
  LET t == Txn(p)  o == Output(p) IN
  /\ Here(p, "link")
  /\ IF stage[t][o] # "none"
     THEN /\ dest' = [dest EXCEPT ![o] = LinkTo(t, o)]
          /\ GoTo(p, "check")
     ELSE UNCHANGED dest /\ GoTo(p, "handler")
  /\ UNCHANGED <<lvars, stage, kills>>

\* os.link, which never replaces a file.
Links(p) ==
  LET t == Txn(p)  o == Output(p) IN
  /\ Here(p, "link")
  /\ IF stage[t][o] # "none" /\ dest[o] = NoFile
     THEN /\ dest' = [dest EXCEPT ![o] = LinkTo(t, o)]
          /\ GoTo(p, "check")
     ELSE UNCHANGED dest /\ GoTo(p, "handler")
  /\ UNCHANGED <<lvars, stage, kills>>

\* Mutant: the approval is recorded after the first output.
ChecksPublished_First(p) ==
  LET o == Output(p) IN
  /\ Here(p, "check")
  /\ IF SameFile(Txn(p), o) /\ dest[o].whole
     THEN prom' = [prom EXCEPT ![p].k = o + 1, ![p].pc = "finalize"]
     ELSE GoTo(p, "handler")
  /\ UNCHANGED <<lvars, stage, dest, kills>>

ChecksPublished(p) ==
  LET o == Output(p) IN
  /\ Here(p, "check")
  /\ IF SameFile(Txn(p), o) /\ dest[o].whole
     THEN prom' = [prom EXCEPT ![p].k = o + 1,
                               ![p].pc = IF o = NOutputs THEN "finalize" ELSE "stage"]
     ELSE GoTo(p, "handler")
  /\ UNCHANGED <<lvars, stage, dest, kills>>

Finalizes(p) ==
  /\ Here(p, "finalize")
  /\ IF CanFinalize(Txn(p))
     THEN FinalizePromotion(Txn(p)) /\ GoTo(p, "cleanup")
     ELSE UNCHANGED lvars /\ GoTo(p, "handler")
  /\ UNCHANGED <<stage, dest, kills>>

\* Any call of the try block raises.
Raises(p) ==
  /\ prom[p].pc \in {"stage", "copy", "verify", "publish", "link", "check", "finalize"}
  /\ GoTo(p, "handler")
  /\ UNCHANGED <<lvars, stage, dest, kills>>

-----------------------------------------------------------------------------
(* _recover_promotion: the handler, and the finally clause. *)

\* Mutant: only the output that failed is looked at.
DecidesOwnership_Current(p) ==
  /\ Here(p, "handler")
  /\ prom' = [prom EXCEPT ![p].pc = "unlink",
                          ![p].owned = {o \in Outputs : o = Output(p) /\ SameFile(Txn(p), o)}]
  /\ UNCHANGED <<lvars, stage, dest, kills>>

DecidesOwnership(p) ==
  /\ Here(p, "handler")
  /\ prom' = [prom EXCEPT ![p].pc = "unlink",
                          ![p].owned = {o \in Outputs : SameFile(Txn(p), o)}]
  /\ UNCHANGED <<lvars, stage, dest, kills>>

Unlinks(p) ==
  /\ Here(p, "unlink")
  /\ IF prom[p].owned = {}
     THEN GoTo(p, "rollback") /\ UNCHANGED dest
     ELSE LET o == CHOOSE o \in prom[p].owned : \A x \in prom[p].owned : o <= x
          IN  /\ dest' = [dest EXCEPT ![o] = NoFile]
              /\ prom' = [prom EXCEPT ![p].owned = @ \ {o}]
  /\ UNCHANGED <<lvars, stage, kills>>

RollsBack(p) ==
  /\ Here(p, "rollback")
  /\ RollbackPromotion(Txn(p))
  /\ GoTo(p, "cleanup")
  /\ UNCHANGED <<stage, dest, kills>>

\* "journal and stages remain pending for recovery"
GivesUp(p) ==
  /\ prom[p].pc \in {"handler", "unlink", "rollback"}
  /\ GoTo(p, "returned")
  /\ UNCHANGED <<lvars, stage, dest, kills>>

Staged(t) == {o \in Outputs : stage[t][o] # "none"}

\* Mutant: the stages are kept.
CleansUp_Nothing(p) ==
  /\ Here(p, "cleanup")
  /\ GoTo(p, "returned")
  /\ UNCHANGED <<lvars, stage, dest, kills>>

CleansUp(p) ==
  LET t == Txn(p) IN
  /\ Here(p, "cleanup")
  /\ IF Staged(t) = {}
     THEN GoTo(p, "returned") /\ UNCHANGED <<stage, dest>>
     ELSE LET o == CHOOSE o \in Staged(t) : \A x \in Staged(t) : o <= x
          IN  /\ SetStage(t, o, "none")
              /\ dest' = IF SameFile(t, o)
                         THEN [dest EXCEPT ![o].linked = FALSE] ELSE dest
              /\ UNCHANGED prom
  /\ UNCHANGED <<lvars, kills>>

-----------------------------------------------------------------------------
(* The environment. *)

\* Also a stage file that cannot be deleted ends the clean-up.
PromoterKilled(p) ==
  /\ kills < MaxCrashes
  /\ prom[p].pc \notin Idle
  /\ GoTo(p, "killed")
  /\ kills' = kills + 1
  /\ UNCHANGED <<lvars, stage, dest>>

SomeoneWrites(o) ==
  /\ dest[o] = NoFile
  /\ dest' = [dest EXCEPT ![o] = Foreign]
  /\ UNCHANGED <<lvars, prom, stage, kills>>

SomeoneDeletes(o) ==
  /\ dest[o] = Foreign
  /\ dest' = [dest EXCEPT ![o] = NoFile]
  /\ UNCHANGED <<lvars, prom, stage, kills>>

\* The other commands, as far as the ledger sees them.
OtherCommands ==
  /\ \/ \E m \in Missions : MissionStep(m)
     \/ \E a \in Attempts :
          /\ Made(a)
          /\ \/ ClaimEvaluation(a)
             \/ FailActive(a)
             \/ \E v \in Verdicts : attempts[a].evaluated /\ AddProvenance(a, v)
  /\ UNCHANGED pvars

-----------------------------------------------------------------------------
Init ==
  /\ LInit
  /\ prom = [p \in Promotions |-> [pc |-> "new", txn |-> NULL, k |-> 1, owned |-> {}]]
  /\ stage = [t \in Promotions |-> [o \in Outputs |-> "none"]]
  /\ dest = [o \in Outputs |-> NoFile]
  /\ kills = 0

PromoterStep(p) ==
  \/ \E a \in Attempts, r, s \in Actors : Begins(p, a, r, s)
  \/ \E t \in Promotions, r, s \in Actors : Recovers(p, t, r, s)
  \/ Rereads(p) \/ OpensStage(p) \/ Copies(p) \/ VerifiesStage(p)
  \/ LooksAtDestination(p) \/ Links(p) \/ ChecksPublished(p) \/ Finalizes(p)
  \/ Raises(p) \/ DecidesOwnership(p) \/ Unlinks(p) \/ RollsBack(p)
  \/ GivesUp(p) \/ CleansUp(p) \/ PromoterKilled(p)

Next ==
  \/ \E p \in Promotions : PromoterStep(p)
  \/ \E o \in Outputs : SomeoneWrites(o) \/ SomeoneDeletes(o)
  \/ OtherCommands

Spec == Init /\ [][Next]_vars

-----------------------------------------------------------------------------
(* Properties. *)

(* docs/FACTORY.md: "Approvals and promoted state are committed only after *)
(* every destination hash is verified".  A promoted mission has every      *)
(* output in place, complete, from the transaction that promoted it.       *)
PublishedWhenPromoted ==
  \A t \in Promotions :
    journal[t].state = "completed" =>
      \A o \in Outputs :
        dest[o].of = t /\ dest[o].whole

(* "or removes only those owned links": once every promoter is gone, a     *)
(* transaction that was rolled back has none of its outputs in the         *)
(* repository, where it would make each later promotion end in a collision.*)
NothingLeftBehind ==
  (\A p \in Promotions : prom[p].pc \in Idle) =>
    \A t \in Promotions, o \in Outputs :
      journal[t].state = "rolled_back" => dest[o].of # t

(* A file that somebody else put in place is neither replaced nor removed  *)
(* by a promoter, however late it appears.                                 *)
ForeignKept ==
  [][\A o \in Outputs :
       dest[o] = Foreign /\ dest'[o] # Foreign => UNCHANGED prom]_vars

(* Stage files outlive a closed transaction only when a promoter was       *)
(* killed: they would make the clean-checkout tests of later missions fail.*)
StagesGone ==
  \A t \in Promotions :
    /\ kills = 0
    /\ journal[t].state \in {"completed", "rolled_back"}
    /\ \A p \in Promotions : prom[p].pc \in Idle \/ Txn(p) # t
    => Staged(t) = {}

(* The promoters use the ledger as MissionLedger says it is used.          *)
ImplementsLedger == LSpec
=============================================================================
