------------------------- MODULE MissionPromotionProofs -------------------------
(***************************************************************************)
(* Theorems about MissionPromotion, for any number of outputs, promoters,  *)
(* attempts and kills.  That the promoters use the ledger as specified     *)
(* holds however they overlap; what they leave on the disk is proved for   *)
(* promoters that come one after the other, each at any step of a          *)
(* predecessor that was killed, raised or gave up.                         *)
(***************************************************************************)
EXTENDS MissionPromotion, MissionLedgerProofs, WellFoundedInduction

Publishing == {"stage", "copy", "verify", "publish", "link", "check"}
AtWork     == Publishing \cup {"finalize", "handler", "unlink", "rollback"}

(* A promoter that has started has a transaction, and counts its outputs.  *)
FrameOK(row) ==
  /\ row \in PromRow
  /\ row.pc # "new" => row.txn \in Promotions
  /\ row.pc \in Publishing \cup {"reread"} => row.k \in Outputs
  /\ row.pc = "finalize" => row.k = NOutputs + 1

FramesOK ==
  /\ prom \in [Promotions -> PromRow]
  /\ \A p \in Promotions : FrameOK(prom[p])

FilesOK ==
  /\ stage \in [Promotions -> [Outputs -> StageFile]]
  /\ dest \in [Outputs -> DestFile]
  /\ kills \in Nat

OneAtATime ==
  \A p, q \in Promotions : prom[p].pc \notin Idle /\ prom[q].pc \notin Idle => p = q

(* What a promoter at work relies on: nobody else closes its transaction,  *)
(* the outputs behind it are published, and it removes what is its own.    *)
WorkShape(p) ==
  /\ prom[p].pc \in AtWork => journal[Txn(p)].state = "pending"
  /\ prom[p].pc = "reread" => Txn(p) = p
  /\ prom[p].pc = "cleanup" => journal[Txn(p)].state \in {"completed", "rolled_back"}
  /\ prom[p].pc \in Publishing \cup {"reread", "finalize"} =>
       \A o \in Outputs : o < prom[p].k => dest[o].of = Txn(p) /\ dest[o].whole
  /\ prom[p].pc = "unlink" =>
       \A o \in Outputs : o \in prom[p].owned <=> dest[o].of = Txn(p)
  /\ prom[p].pc = "rollback" => \A o \in Outputs : dest[o].of # Txn(p)

WorkShapes == \A p \in Promotions : WorkShape(p)

(* The links of a transaction that is not closed can be told by their      *)
(* stage files; one that was rolled back has none.                         *)
OpenIsLinked ==
  \A t \in Promotions, o \in Outputs :
    journal[t].state \in {"none", "pending"} /\ dest[o].of = t => SameFile(t, o)

RolledBackIsClean ==
  \A t \in Promotions, o \in Outputs :
    journal[t].state = "rolled_back" => dest[o].of # t

ClosedIsCleaned ==
  \A t \in Promotions :
    kills = 0 /\ journal[t].state \in {"completed", "rolled_back"} =>
      \/ Staged(t) = {}
      \/ \E p \in Promotions : prom[p].pc = "cleanup" /\ Txn(p) = t

OnDisk  == FilesOK /\ OpenIsLinked /\ RolledBackIsClean /\ PublishedWhenPromoted

PromInv == FramesOK /\ OneAtATime /\ WorkShapes /\ OnDisk /\ ClosedIsCleaned

-----------------------------------------------------------------------------
(* The frames: whatever the promoters do to each other. *)

LEMMA OutputsAreNumbers ==
  /\ Outputs \subseteq Nat \ {0} /\ NOutputs \in Outputs /\ 1 \in Outputs
  /\ \A o \in Outputs : o + 1 \in 1..NOutputs + 1 /\ (o # NOutputs => o + 1 \in Outputs)
  BY PromotionAssumption DEF Outputs

LEMMA Goes ==
  ASSUME FramesOK, NEW p \in Promotions, NEW pc \in PCs, GoTo(p, pc)
  PROVE  /\ prom' \in [Promotions -> PromRow]
         /\ prom'[p].pc = pc /\ prom'[p].txn = prom[p].txn
         /\ prom'[p].k = prom[p].k /\ prom'[p].owned = prom[p].owned
         /\ \A q \in Promotions : q # p => prom'[q] = prom[q]
  BY DEF FramesOK, GoTo, PromRow

LEMMA Begun ==
  ASSUME FramesOK, NEW p \in Promotions, NEW t \in Promotions, NEW pc \in {"reread", "stage"},
         prom' = [prom EXCEPT ![p] = [pc |-> pc, txn |-> t, k |-> 1, owned |-> {}]]
  PROVE  /\ FramesOK'
         /\ prom'[p].pc = pc /\ prom'[p].txn = t /\ prom'[p].k = 1
         /\ \A q \in Promotions : q # p => prom'[q] = prom[q]
<1> DEFINE row == [pc |-> pc, txn |-> t, k |-> 1, owned |-> {}]
<1>1. row \in PromRow
  BY OutputsAreNumbers, PromotionAssumption DEF PromRow, PCs
<1>2. FrameOK(row)
  BY <1>1, OutputsAreNumbers DEF FrameOK
<1>3. /\ prom \in [Promotions -> PromRow]
      /\ \A q \in Promotions : FrameOK(prom[q])
  BY DEF FramesOK
<1> HIDE DEF row
<1>4. prom' = [prom EXCEPT ![p] = row]
  BY DEF row
<1>5. /\ prom'[p] = row
      /\ prom' \in [Promotions -> PromRow]
      /\ \A q \in Promotions : q # p => prom'[q] = prom[q]
  BY <1>1, <1>3, <1>4
<1>6. FramesOK'
  BY <1>2, <1>3, <1>5 DEF FramesOK
<1> QED BY <1>5, <1>6 DEF row

(* A promoter goes on without leaving the loop over the outputs out of     *)
(* step with its counter.                                                  *)
LEMMA GoesInFrame ==
  ASSUME FramesOK, NEW p \in Promotions, NEW pc \in PCs \ {"new", "finalize"}, GoTo(p, pc),
         prom[p].pc # "new",
         pc \in Publishing => prom[p].pc \in Publishing \cup {"reread"},
         pc # "reread"
  PROVE  FramesOK'
<1>1. /\ prom' \in [Promotions -> PromRow]
      /\ prom'[p].pc = pc /\ prom'[p].txn = prom[p].txn
      /\ prom'[p].k = prom[p].k
      /\ \A q \in Promotions : q # p => prom'[q] = prom[q]
  BY Goes
<1>2. \A q \in Promotions : FrameOK(prom[q])
  BY DEF FramesOK
<1>3. FrameOK(prom'[p])
  BY <1>1, <1>2 DEF FrameOK
<1>4. \A q \in Promotions : FrameOK(prom'[q])
  BY <1>1, <1>2, <1>3
<1> QED BY <1>1, <1>4 DEF FramesOK

LEMMA ChecksFrame ==
  ASSUME FramesOK, NEW p \in Promotions, Here(p, "check"),
         prom' = [prom EXCEPT ![p].k = Output(p) + 1,
                              ![p].pc = IF Output(p) = NOutputs THEN "finalize" ELSE "stage"]
  PROVE  /\ FramesOK'
         /\ prom'[p].pc \in {"stage", "finalize"} /\ prom'[p].txn = prom[p].txn
         /\ prom'[p].k = Output(p) + 1
         /\ \A q \in Promotions : q # p => prom'[q] = prom[q]
<1> DEFINE pc == IF Output(p) = NOutputs THEN "finalize" ELSE "stage"
           k == Output(p) + 1
<1>1. /\ prom \in [Promotions -> PromRow] /\ prom[p] \in PromRow
      /\ \A q \in Promotions : FrameOK(prom[q])
      /\ prom[p].txn \in Promotions /\ prom[p].k \in Outputs
  BY DEF FramesOK, FrameOK, Here, Publishing
<1>2. /\ pc \in {"stage", "finalize"} /\ k \in 1..NOutputs + 1
      /\ pc = "stage" => k \in Outputs
      /\ pc = "finalize" => k = NOutputs + 1
  BY <1>1, OutputsAreNumbers DEF Output
<1> HIDE DEF pc, k
<1>3. prom' = [prom EXCEPT ![p].k = k, ![p].pc = pc]
  BY DEF pc, k
<1>4. /\ prom'[p] = [pc |-> pc, txn |-> prom[p].txn, k |-> k, owned |-> prom[p].owned]
      /\ \A q \in Promotions : q # p => prom'[q] = prom[q]
      /\ DOMAIN prom' = Promotions /\ prom' = [q \in Promotions |-> prom'[q]]
  BY <1>1, <1>3 DEF PromRow
<1>5. prom'[p] \in PromRow
  BY <1>1, <1>2, <1>4 DEF PromRow, PCs
<1>6. prom' \in [Promotions -> PromRow]
  BY <1>1, <1>4, <1>5
<1>7. FrameOK(prom'[p])
  BY <1>1, <1>2, <1>4, <1>5 DEF FrameOK, Publishing
<1>8. FramesOK'
  BY <1>1, <1>4, <1>6, <1>7 DEF FramesOK
<1>9. /\ prom'[p].pc = pc /\ prom'[p].txn = prom[p].txn /\ prom'[p].k = k
  BY <1>4
<1> QED BY <1>2, <1>4, <1>8, <1>9 DEF k

LEMMA OwnsFrame ==
  ASSUME FramesOK, NEW p \in Promotions, NEW S \in SUBSET Outputs, Here(p, "handler"),
         prom' = [prom EXCEPT ![p].pc = "unlink", ![p].owned = S]
  PROVE  /\ FramesOK'
         /\ prom'[p].pc = "unlink" /\ prom'[p].txn = prom[p].txn /\ prom'[p].owned = S
         /\ \A q \in Promotions : q # p => prom'[q] = prom[q]
<1>1. /\ prom \in [Promotions -> PromRow] /\ prom[p] \in PromRow
      /\ \A q \in Promotions : FrameOK(prom[q])
      /\ prom[p].txn \in Promotions
  BY DEF FramesOK, FrameOK, Here
<1>2. /\ prom'[p] = [pc |-> "unlink", txn |-> prom[p].txn, k |-> prom[p].k, owned |-> S]
      /\ \A q \in Promotions : q # p => prom'[q] = prom[q]
      /\ DOMAIN prom' = Promotions /\ prom' = [q \in Promotions |-> prom'[q]]
  BY <1>1 DEF PromRow
<1>3. prom'[p] \in PromRow
  BY <1>1, <1>2 DEF PromRow, PCs
<1>4. prom' \in [Promotions -> PromRow]
  BY <1>1, <1>2, <1>3
<1>5. FrameOK(prom'[p])
  BY <1>1, <1>2, <1>3 DEF FrameOK, Publishing
<1>6. FramesOK'
  BY <1>1, <1>2, <1>4, <1>5 DEF FramesOK
<1> QED BY <1>2, <1>6

LEMMA UnlinkFrame ==
  ASSUME FramesOK, NEW p \in Promotions, NEW o, Here(p, "unlink"),
         prom' = [prom EXCEPT ![p].owned = @ \ {o}]
  PROVE  /\ FramesOK'
         /\ prom'[p].pc = "unlink" /\ prom'[p].txn = prom[p].txn
         /\ prom'[p].owned = prom[p].owned \ {o}
         /\ \A q \in Promotions : q # p => prom'[q] = prom[q]
<1>1. /\ prom \in [Promotions -> PromRow] /\ prom[p] \in PromRow
      /\ \A q \in Promotions : FrameOK(prom[q])
      /\ prom[p].txn \in Promotions
  BY DEF FramesOK, FrameOK, Here
<1>2. /\ prom'[p] = [pc |-> "unlink", txn |-> prom[p].txn, k |-> prom[p].k,
                     owned |-> prom[p].owned \ {o}]
      /\ \A q \in Promotions : q # p => prom'[q] = prom[q]
      /\ DOMAIN prom' = Promotions /\ prom' = [q \in Promotions |-> prom'[q]]
  BY <1>1 DEF PromRow, Here
<1>3. prom'[p] \in PromRow
  BY <1>1, <1>2 DEF PromRow, PCs
<1>4. prom' \in [Promotions -> PromRow]
  BY <1>1, <1>2, <1>3
<1>5. FrameOK(prom'[p])
  BY <1>1, <1>2, <1>3 DEF FrameOK, Publishing
<1>6. FramesOK'
  BY <1>1, <1>2, <1>4, <1>5 DEF FramesOK
<1> QED BY <1>2, <1>6

LEMMA InitFrames == Init => FramesOK
  BY OutputsAreNumbers DEF Init, FramesOK, FrameOK, PromRow, PCs, Idle, Publishing

LEMMA OpensMoves ==
  ASSUME NEW p, OpensStage(p)
  PROVE  \E pc \in {"copy", "verify"} : GoTo(p, pc)
  BY DEF OpensStage

LEMMA StepFrames ==
  ASSUME FramesOK, NEW p \in Promotions, PromoterStep(p)
  PROVE  FramesOK' /\ \A q \in Promotions : q # p => prom'[q] = prom[q]
<1> USE DEF Here
<1> DEFINE Goal == FramesOK' /\ \A q \in Promotions : q # p => prom'[q] = prom[q]
<1>0. /\ Publishing \cup {"returned", "handler", "rollback", "cleanup", "killed"}
           \subseteq PCs \ {"new", "finalize"}
      /\ {"returned", "handler", "rollback", "cleanup", "killed"} \cap Publishing = {}
      /\ "reread" \notin Publishing /\ "new" \notin Publishing
  BY DEF Publishing, PCs, Idle
<1>1. ASSUME NEW a \in Attempts, NEW r \in Actors, NEW s \in Actors, Begins(p, a, r, s)
      PROVE  Goal
  BY <1>1, Begun DEF Begins
<1>2. ASSUME NEW t \in Promotions, NEW r \in Actors, NEW s \in Actors, Recovers(p, t, r, s)
      PROVE  Goal
  BY <1>2, Begun DEF Recovers
<1>3. ASSUME NEW pc \in Publishing, GoTo(p, pc), prom[p].pc \in Publishing \cup {"reread"}
      PROVE  Goal
  <2>1. pc \in PCs \ {"new", "finalize"} /\ pc # "reread" /\ prom[p].pc # "new"
    BY <1>0, <1>3
  <2> QED BY <1>3, <2>1, Goes, GoesInFrame
<1>4. ASSUME NEW pc \in {"returned", "handler", "rollback", "cleanup", "killed"},
             GoTo(p, pc), prom[p].pc # "new"
      PROVE  Goal
  <2>1. pc \in PCs \ {"new", "finalize"} /\ pc # "reread" /\ pc \notin Publishing
    BY <1>0
  <2> QED BY <1>4, <2>1, Goes, GoesInFrame
<1>5. CASE Rereads(p) \/ OpensStage(p) \/ Copies(p) \/ VerifiesStage(p) \/ LooksAtDestination(p)
           \/ Links(p)
  <2>1. /\ prom[p].pc \in Publishing \cup {"reread"} /\ prom[p].pc # "new"
        /\ \E pc \in {"stage", "copy", "verify", "publish", "link", "check",
                      "returned", "handler"} : GoTo(p, pc)
    BY <1>5 DEF Rereads, OpensStage, Copies, VerifiesStage, LooksAtDestination, Links, Publishing
  <2> QED BY <2>1, <1>3, <1>4 DEF Publishing
<1>6. CASE ChecksPublished(p)
  <2>1. CASE GoTo(p, "handler")
    BY <1>4, <1>6, <2>1 DEF ChecksPublished
  <2> QED BY <1>6, <2>1, ChecksFrame DEF ChecksPublished, Output
<1>7. CASE Finalizes(p) \/ Raises(p) \/ RollsBack(p) \/ GivesUp(p) \/ PromoterKilled(p)
  <2>1. /\ prom[p].pc # "new"
        /\ \E pc \in {"handler", "cleanup", "returned", "killed"} : GoTo(p, pc)
    BY <1>7 DEF Finalizes, Raises, RollsBack, GivesUp, PromoterKilled, Idle
  <2> QED BY <2>1, <1>4
<1>8. CASE DecidesOwnership(p)
  <2> DEFINE S == {o \in Outputs : SameFile(Txn(p), o)}
  <2>1. /\ S \in SUBSET Outputs /\ prom[p].pc = "handler"
        /\ prom' = [prom EXCEPT ![p].pc = "unlink", ![p].owned = S]
    BY <1>8 DEF DecidesOwnership
  <2> HIDE DEF S
  <2> QED BY <2>1, OwnsFrame
<1>9. CASE Unlinks(p)
  <2>1. CASE GoTo(p, "rollback")
    BY <1>4, <1>9, <2>1 DEF Unlinks
  <2> QED BY <1>9, <2>1, UnlinkFrame DEF Unlinks
<1>10. CASE CleansUp(p)
  <2>1. CASE GoTo(p, "returned")
    BY <1>4, <1>10, <2>1 DEF CleansUp
  <2>2. CASE UNCHANGED prom
    BY <2>2 DEF FramesOK
  <2> QED BY <1>10, <2>1, <2>2 DEF CleansUp
<1> QED
  BY <1>1, <1>2, <1>5, <1>6, <1>7, <1>8, <1>9, <1>10 DEF PromoterStep

LEMMA FramesStay == FramesOK /\ [Next]_vars => FramesOK'
<1> SUFFICES ASSUME FramesOK, [Next]_vars PROVE FramesOK'
  OBVIOUS
<1>1. CASE UNCHANGED prom
  BY <1>1 DEF FramesOK
<1>2. ASSUME NEW p \in Promotions, PromoterStep(p) PROVE FramesOK'
  BY <1>2, StepFrames
<1> QED
  BY <1>1, <1>2 DEF Next, vars, pvars, SomeoneWrites, SomeoneDeletes, OtherCommands

-----------------------------------------------------------------------------
(* The ledger as the promoters use it. *)

LEMMA StepUsesLedger ==
  ASSUME FramesOK, NEW p \in Promotions, PromoterStep(p)
  PROVE  [LNext]_lvars
<1>1. ASSUME NEW a \in Attempts, NEW r \in Actors, NEW s \in Actors, Begins(p, a, r, s)
      PROVE  LNext
  BY <1>1 DEF Begins, LNext, AttemptStep
<1>2. CASE Finalizes(p)
  <2>1. Txn(p) \in Promotions
    BY <1>2 DEF FramesOK, FrameOK, Finalizes, Here, Txn
  <2> QED BY <1>2, <2>1 DEF Finalizes, LNext
<1>3. CASE RollsBack(p)
  <2>1. Txn(p) \in Promotions
    BY <1>3 DEF FramesOK, FrameOK, RollsBack, Here, Txn
  <2> QED BY <1>3, <2>1 DEF RollsBack, LNext
<1> QED
  BY <1>1, <1>2, <1>3
  DEF PromoterStep, Recovers, Rereads, OpensStage, Copies, VerifiesStage, LooksAtDestination,
      Links, ChecksPublished, Raises, DecidesOwnership, Unlinks, GivesUp, CleansUp, PromoterKilled

LEMMA NextUsesLedger == FramesOK /\ [Next]_vars => [LNext]_lvars
<1> SUFFICES ASSUME FramesOK, [Next]_vars PROVE [LNext]_lvars
  OBVIOUS
<1>1. ASSUME NEW p \in Promotions, PromoterStep(p) PROVE [LNext]_lvars
  BY <1>1, StepUsesLedger
<1>2. CASE OtherCommands
  BY <1>2 DEF OtherCommands, LNext, AttemptStep
<1>3. CASE UNCHANGED lvars
  BY <1>3
<1> QED
  BY <1>1, <1>2, <1>3 DEF Next, vars, lvars, SomeoneWrites, SomeoneDeletes

LEMMA FramesInvariant == Spec => []FramesOK
  BY InitFrames, FramesStay, PTL DEF Spec

(* The promoters, however many run at a time and wherever they are killed, *)
(* and the other commands write to the ledger only as its specification    *)
(* says, so that what is proved of the ledger is true of them.             *)
THEOREM PromotionImplementsLedger == Spec => ImplementsLedger
<1>1. Init => LInit
  BY DEF Init
<1> QED
  BY <1>1, NextUsesLedger, FramesInvariant, PTL DEF Spec, LSpec, ImplementsLedger

-----------------------------------------------------------------------------
(* The files, when promoters come one after the other. *)

LEMMA Names ==
  /\ NULL \notin Promotions /\ "someone" \notin Promotions /\ "none" \notin Promotions
  /\ "someone" # NULL
  /\ NoFile.of = NULL /\ Foreign.of = "someone" /\ NoFile \in DestFile /\ Foreign \in DestFile
<1>1. NoFile.of = NULL /\ Foreign.of = "someone"
  BY DEF NoFile, Foreign
<1>2. NoFile \in DestFile /\ Foreign \in DestFile
  BY DEF NoFile, Foreign, DestFile
<1> QED BY <1>1, <1>2, PromotionAssumption

LEMMA Alone ==
  ASSUME ~Overlap, OneAtATime, NEW p \in Promotions, PromoterStep(p)
  PROVE  \A q \in Promotions : q # p => prom[q].pc \in Idle
<1>1. CASE MayStart(p)
  BY <1>1 DEF MayStart
<1>2. CASE prom[p].pc \notin Idle
  BY <1>2 DEF OneAtATime
<1>3. MayStart(p) \/ prom[p].pc \notin Idle
  BY DEF PromoterStep, Begins, Recovers, Rereads, OpensStage, Copies, VerifiesStage,
         LooksAtDestination, Links, ChecksPublished, Finalizes, Raises, DecidesOwnership,
         Unlinks, RollsBack, GivesUp, CleansUp, PromoterKilled, Here, Idle
<1> QED BY <1>1, <1>2, <1>3

LEMMA OneWorker ==
  ASSUME NEW p \in Promotions, WorkShape(p)',
         \A q \in Promotions : q # p => prom[q].pc \in Idle /\ prom'[q] = prom[q]
  PROVE  OneAtATime' /\ WorkShapes'
<1>1. \A q \in Promotions : q # p => prom'[q].pc \in Idle
  OBVIOUS
<1>2. \A q \in Promotions : q # p => WorkShape(q)'
  BY <1>1 DEF WorkShape, AtWork, Publishing, Idle
<1>3. OneAtATime'
  BY <1>1 DEF OneAtATime
<1> QED BY <1>2, <1>3 DEF WorkShapes

LEMMA WorkFacts ==
  ASSUME PromInv, NEW p \in Promotions, prom[p].pc # "new"
  PROVE  /\ Txn(p) \in Promotions /\ prom[p] \in PromRow /\ WorkShape(p)
         /\ prom[p].pc \in Publishing \cup {"reread"} => Output(p) \in Outputs
         /\ prom[p].pc \in AtWork => journal[Txn(p)].state = "pending"
         /\ stage \in [Promotions -> [Outputs -> StageFile]]
         /\ dest \in [Outputs -> DestFile]
         /\ kills \in Nat
         /\ prom \in [Promotions -> PromRow]
  BY DEF PromInv, FramesOK, FrameOK, WorkShapes, WorkShape, OnDisk, FilesOK, Txn, Output

(* Nothing on the disk or in the journal moves, and no clean-up ends.      *)
LEMMA QuietKeeps ==
  ASSUME PromInv, UNCHANGED <<stage, dest, journal>>, kills' \in Nat,
         kills' = 0 =>
           /\ kills = 0
           /\ \A p \in Promotions : prom[p].pc = "cleanup" => prom'[p] = prom[p]
  PROVE  OnDisk' /\ ClosedIsCleaned'
<1>1. OnDisk'
  BY DEF PromInv, OnDisk, FilesOK, OpenIsLinked, RolledBackIsClean, PublishedWhenPromoted, SameFile
<1>2. ClosedIsCleaned'
  BY DEF PromInv, ClosedIsCleaned, Staged, Txn
<1> QED BY <1>1, <1>2

(* A promoter at work goes to another place of its function.               *)
LEMMA GoesOn ==
  ASSUME PromInv, NEW p \in Promotions,
         NEW pc \in {"copy", "verify", "publish", "link", "check", "stage",
                     "handler", "returned", "killed"},
         GoTo(p, pc), prom[p].pc # "new",
         pc \in AtWork => journal[Txn(p)].state = "pending",
         pc \in Publishing => prom[p].pc \in Publishing \cup {"reread"},
         UNCHANGED <<dest, journal>>
  PROVE  WorkShape(p)'
<1>1. /\ prom'[p].pc = pc /\ prom'[p].txn = prom[p].txn /\ prom'[p].k = prom[p].k
      /\ prom'[p].owned = prom[p].owned
  <2>1. pc \in PCs
    BY DEF PCs, Idle
  <2> QED BY <2>1, Goes DEF PromInv
<1>2. WorkShape(p)
  BY WorkFacts
<1> QED BY <1>1, <1>2 DEF WorkShape, Txn, AtWork, Publishing

LEMMA Orderly ==
  ASSUME PromInv, ~Overlap, NEW p \in Promotions, PromoterStep(p), WorkShape(p)'
  PROVE  /\ FramesOK' /\ OneAtATime' /\ WorkShapes'
         /\ \A q \in Promotions : q # p => prom'[q] = prom[q]
  BY StepFrames, Alone, OneWorker DEF PromInv

(* What the steps that move only a promoter have in common.                *)
LEMMA QuietStep ==
  ASSUME PromInv, ~Overlap, NEW p \in Promotions, PromoterStep(p), WorkShape(p)',
         UNCHANGED <<stage, dest, journal>>,
         (kills' = kills /\ prom[p].pc # "cleanup") \/ kills' = kills + 1
  PROVE  PromInv'
<1>1. /\ FramesOK' /\ OneAtATime' /\ WorkShapes'
      /\ \A q \in Promotions : q # p => prom'[q] = prom[q]
  BY Orderly
<1>2. kills \in Nat
  BY DEF PromInv, OnDisk, FilesOK
<1>3. OnDisk' /\ ClosedIsCleaned'
  BY <1>1, <1>2, QuietKeeps
<1> QED BY <1>1, <1>3 DEF PromInv

LEMMA RecoversKeeps ==
  ASSUME PromInv, ~Overlap, NEW p \in Promotions, PromoterStep(p),
         NEW t \in Promotions, NEW r, NEW s, Recovers(p, t, r, s)
  PROVE  PromInv'
<1>1. prom'[p].pc = "stage" /\ prom'[p].txn = t /\ prom'[p].k = 1
  BY Begun DEF Recovers, PromInv
<1>2. WorkShape(p)'
  BY <1>1, OutputsAreNumbers DEF Recovers, WorkShape, Txn, AtWork, Publishing, lvars, Outputs
<1>3. prom[p].pc # "cleanup"
  BY DEF Recovers, MayStart, Here
<1> QED BY <1>2, <1>3, QuietStep DEF Recovers, lvars

LEMMA QuietStepsKeep ==
  ASSUME PromInv, ~Overlap, NEW p \in Promotions, PromoterStep(p),
         \/ Rereads(p) \/ VerifiesStage(p) \/ LooksAtDestination(p)
         \/ Raises(p) \/ GivesUp(p) \/ PromoterKilled(p)
  PROVE  PromInv'
<1>1. /\ prom[p].pc # "new" /\ UNCHANGED <<stage, dest, journal>>
      /\ (kills' = kills /\ prom[p].pc # "cleanup") \/ kills' = kills + 1
  BY DEF Rereads, VerifiesStage, LooksAtDestination, Raises, GivesUp, PromoterKilled,
         Here, Idle, lvars
<1>2. WorkShape(p)
  BY <1>1, WorkFacts
<1>3. \E pc \in {"copy", "verify", "publish", "link", "check", "stage",
                 "handler", "returned", "killed"} :
        /\ GoTo(p, pc)
        /\ pc \in AtWork => journal[Txn(p)].state = "pending"
        /\ pc \in Publishing => prom[p].pc \in Publishing \cup {"reread"}
  BY <1>2 DEF Rereads, VerifiesStage, LooksAtDestination, Raises, GivesUp, PromoterKilled,
              Here, WorkShape, AtWork, Publishing
<1>4. WorkShape(p)'
  BY <1>1, <1>3, GoesOn
<1> QED BY <1>1, <1>4, QuietStep

(* The journal entry of a promoter at work, or that begins, moves on.      *)
LEMMA BeginsKeeps ==
  ASSUME PromInv, Inv, ~Overlap, NEW p \in Promotions, PromoterStep(p),
         NEW a \in Attempts, NEW r \in Actors, NEW s \in Actors, Begins(p, a, r, s)
  PROVE  PromInv'
<1>1. prom'[p].pc = "reread" /\ prom'[p].txn = p /\ prom'[p].k = 1
  BY Begun DEF Begins, PromInv
<1>2. WorkShape(p)'
  BY <1>1, OutputsAreNumbers DEF WorkShape, Txn, AtWork, Publishing, Outputs
<1>3. /\ FramesOK' /\ OneAtATime' /\ WorkShapes'
      /\ \A q \in Promotions : q # p => prom'[q] = prom[q]
  BY <1>2, Orderly
<1>4. /\ stage' = stage /\ dest' = dest /\ kills' = kills /\ prom[p].pc = "new"
      /\ journal[p].state = "none" /\ journal'[p].state = "pending"
      /\ \A t \in Promotions : t # p => journal'[t] = journal[t]
  <2>1. journal \in [Promotions -> TxnRow]
    BY DEF Inv, LTypeOK
  <2> QED BY <2>1 DEF Begins, BeginPromotion, MayStart, Here
<1>5. OnDisk'
  BY <1>4 DEF PromInv, OnDisk, FilesOK, OpenIsLinked, RolledBackIsClean, PublishedWhenPromoted,
              SameFile
<1>6. ClosedIsCleaned'
  BY <1>3, <1>4 DEF PromInv, ClosedIsCleaned, Staged, Txn
<1> QED BY <1>3, <1>5, <1>6 DEF PromInv

(* The journal entry of a promoter is closed, and it begins to clean up.   *)
LEMMA ClosesKeeps ==
  ASSUME PromInv, Inv, ~Overlap, NEW p \in Promotions, PromoterStep(p), prom[p].pc # "new",
         NEW st \in {"completed", "rolled_back"},
         journal[Txn(p)].state = "pending",
         CloseTxn(Txn(p), st), GoTo(p, "cleanup"), UNCHANGED <<stage, dest, kills>>,
         st = "completed" => \A o \in Outputs : dest[o].of = Txn(p) /\ dest[o].whole,
         st = "rolled_back" => \A o \in Outputs : dest[o].of # Txn(p)
  PROVE  PromInv'
<1> DEFINE t == Txn(p)
<1>1. t \in Promotions /\ prom'[p].pc = "cleanup" /\ prom'[p].txn = t
  <2>1. "cleanup" \in PCs
    BY DEF PCs
  <2> QED BY <2>1, Goes, WorkFacts DEF PromInv, Txn
<1>2. /\ journal'[t].state = st
      /\ \A u \in Promotions : u # t => journal'[u] = journal[u]
  <2>1. journal \in [Promotions -> TxnRow]
    BY DEF Inv, LTypeOK
  <2> QED BY <1>1, <2>1 DEF CloseTxn, TxnRow
<1>3. WorkShape(p)'
  BY <1>1, <1>2 DEF WorkShape, Txn, AtWork, Publishing
<1>4. /\ FramesOK' /\ OneAtATime' /\ WorkShapes'
      /\ \A q \in Promotions : q # p => prom'[q] = prom[q]
  BY <1>3, Orderly
<1>5. OnDisk'
  BY <1>1, <1>2 DEF PromInv, OnDisk, FilesOK, OpenIsLinked, RolledBackIsClean,
                    PublishedWhenPromoted, SameFile
<1>6. prom[p].pc # "cleanup"
  BY WorkFacts DEF WorkShape
<1>7. ClosedIsCleaned'
  BY <1>1, <1>2, <1>4, <1>6 DEF PromInv, ClosedIsCleaned, Staged, Txn
<1> QED BY <1>4, <1>5, <1>7 DEF PromInv

LEMMA FinalizesKeeps ==
  ASSUME PromInv, Inv, ~Overlap, NEW p \in Promotions, PromoterStep(p), Finalizes(p)
  PROVE  PromInv'
<1> DEFINE t == Txn(p)
<1>1. prom[p].pc = "finalize" /\ prom[p].pc # "new" /\ prom[p].pc # "cleanup"
  BY DEF Finalizes, Here
<1>2. journal[t].state = "pending" /\ WorkShape(p) /\ prom[p].k = NOutputs + 1
  BY <1>1, WorkFacts DEF PromInv, FramesOK, FrameOK, AtWork
<1>3. CASE CanFinalize(t)
  <2>1. CloseTxn(t, "completed") /\ GoTo(p, "cleanup") /\ UNCHANGED <<stage, dest, kills>>
    BY <1>3 DEF Finalizes, FinalizePromotion
  <2>2. \A o \in Outputs : o < prom[p].k
    BY <1>2, PromotionAssumption DEF Outputs
  <2>3. \A o \in Outputs : dest[o].of = t /\ dest[o].whole
    BY <1>1, <1>2, <2>2 DEF WorkShape
  <2> QED BY <1>1, <1>2, <2>1, <2>3, ClosesKeeps
<1>4. CASE ~CanFinalize(t)
  <2>1. GoTo(p, "handler") /\ UNCHANGED <<lvars, stage, dest, kills>>
    BY <1>4 DEF Finalizes
  <2>2. WorkShape(p)'
    BY <1>1, <1>2, <2>1, GoesOn DEF lvars, Publishing
  <2> QED BY <1>1, <2>1, <2>2, QuietStep DEF lvars
<1> QED BY <1>3, <1>4

LEMMA RollsBackKeeps ==
  ASSUME PromInv, Inv, ~Overlap, NEW p \in Promotions, PromoterStep(p), RollsBack(p)
  PROVE  PromInv'
<1>1. prom[p].pc = "rollback" /\ prom[p].pc # "new"
  BY DEF RollsBack, Here
<1>2. journal[Txn(p)].state = "pending" /\ WorkShape(p)
  BY <1>1, WorkFacts DEF AtWork
<1>3. /\ CloseTxn(Txn(p), "rolled_back") /\ GoTo(p, "cleanup")
      /\ UNCHANGED <<stage, dest, kills>>
  BY <1>2 DEF RollsBack, RollbackPromotion
<1> QED BY <1>1, <1>2, <1>3, ClosesKeeps DEF WorkShape

-----------------------------------------------------------------------------
(* The steps of the promoters that touch files. *)

LEMMA OpensStageKeeps ==
  ASSUME PromInv, ~Overlap, NEW p \in Promotions, PromoterStep(p), OpensStage(p)
  PROVE  PromInv'
<1> DEFINE t == Txn(p)
           k == Output(p)
<1>1. /\ prom[p].pc = "stage" /\ prom[p].pc # "new" /\ prom[p].pc # "cleanup"
      /\ prom[p].pc \in Publishing /\ prom[p].pc \in AtWork
  BY DEF OpensStage, Here, Publishing, AtWork
<1>2. /\ t \in Promotions /\ k \in Outputs /\ journal[t].state = "pending" /\ WorkShape(p)
      /\ stage \in [Promotions -> [Outputs -> StageFile]] /\ dest \in [Outputs -> DestFile]
  BY <1>1, WorkFacts
<1>3. /\ \E pc \in {"copy", "verify"} : GoTo(p, pc)
      /\ UNCHANGED <<dest, journal, kills>>
  BY DEF OpensStage, lvars
<1>4. WorkShape(p)'
  BY <1>1, <1>2, <1>3, GoesOn
<1>5. CASE stage' = stage
  BY <1>1, <1>3, <1>4, <1>5, QuietStep
<1>6. CASE stage[t][k] = "none" /\ SetStage(t, k, p)
  <2>1. /\ FramesOK' /\ OneAtATime' /\ WorkShapes'
        /\ \A q \in Promotions : q # p => prom'[q] = prom[q]
    BY <1>4, Orderly
  <2>2. /\ stage'[t][k] = p
        /\ \A u \in Promotions, o \in Outputs : ~(u = t /\ o = k) => stage'[u][o] = stage[u][o]
        /\ stage' \in [Promotions -> [Outputs -> StageFile]]
    BY <1>2, <1>6 DEF SetStage, StageFile
  <2>3. OpenIsLinked'
    <3>1. \A u \in Promotions, o \in Outputs : SameFile(u, o) => SameFile(u, o)'
      BY <1>3, <1>6, <2>2 DEF SameFile
    <3> QED BY <1>3, <3>1 DEF OpenIsLinked, PromInv, OnDisk
  <2>4. OnDisk'
    BY <1>3, <2>2, <2>3 DEF PromInv, OnDisk, FilesOK, RolledBackIsClean, PublishedWhenPromoted
  <2>5. ClosedIsCleaned'
    <3>1. \A u \in Promotions : u # t => Staged(u)' = Staged(u)
      BY <2>2 DEF Staged
    <3> QED BY <1>1, <1>2, <1>3, <2>1, <3>1 DEF PromInv, ClosedIsCleaned, Txn
  <2> QED BY <2>1, <2>4, <2>5 DEF PromInv
<1> QED BY <1>5, <1>6 DEF OpensStage

LEMMA CopiesKeeps ==
  ASSUME PromInv, ~Overlap, NEW p \in Promotions, PromoterStep(p), Copies(p)
  PROVE  PromInv'
<1> DEFINE t == Txn(p)
           k == Output(p)
<1>1. /\ prom[p].pc = "copy" /\ prom[p].pc # "new" /\ prom[p].pc # "cleanup"
      /\ prom[p].pc \in Publishing /\ prom[p].pc \in AtWork
  BY DEF Copies, Here, Publishing, AtWork
<1>2. /\ t \in Promotions /\ k \in Outputs /\ journal[t].state = "pending" /\ WorkShape(p)
      /\ stage \in [Promotions -> [Outputs -> StageFile]] /\ dest \in [Outputs -> DestFile]
  BY <1>1, WorkFacts
<1>3. GoTo(p, "verify") /\ UNCHANGED <<journal, kills>>
  BY DEF Copies, lvars
<1>4. CASE UNCHANGED <<stage, dest>>
  <2>1. WorkShape(p)'
    BY <1>1, <1>2, <1>3, <1>4, GoesOn
  <2> QED BY <1>1, <1>3, <1>4, <2>1, QuietStep
<1>5. CASE /\ stage[t][k] = p /\ SetStage(t, k, "whole")
           /\ dest' = IF SameFile(t, k) THEN [dest EXCEPT ![k].whole = TRUE] ELSE dest
  <2>1. /\ stage'[t][k] = "whole"
        /\ \A u \in Promotions, o \in Outputs : ~(u = t /\ o = k) => stage'[u][o] = stage[u][o]
        /\ stage' \in [Promotions -> [Outputs -> StageFile]]
    BY <1>2, <1>5 DEF SetStage, StageFile
  <2>2. /\ dest' \in [Outputs -> DestFile]
        /\ \A o \in Outputs : /\ dest'[o].of = dest[o].of /\ dest'[o].linked = dest[o].linked
                              /\ dest[o].whole => dest'[o].whole
    BY <1>2, <1>5 DEF DestFile
  <2>3. /\ prom'[p].pc = "verify" /\ prom'[p].txn = prom[p].txn /\ prom'[p].k = prom[p].k
    <3>1. "verify" \in PCs
      BY DEF PCs
    <3> QED BY <1>3, <3>1, Goes DEF PromInv
  <2>4. WorkShape(p)'
    BY <1>1, <1>2, <1>3, <2>2, <2>3 DEF WorkShape, Txn, AtWork, Publishing
  <2>5. /\ FramesOK' /\ OneAtATime' /\ WorkShapes'
        /\ \A q \in Promotions : q # p => prom'[q] = prom[q]
    BY <2>4, Orderly
  <2>6. \A u \in Promotions, o \in Outputs : stage[u][o] # "none" => stage'[u][o] # "none"
    BY <2>1
  <2>7. OnDisk'
    <3>1. FilesOK'
      BY <1>3, <2>1, <2>2 DEF PromInv, OnDisk, FilesOK
    <3>2. \A u \in Promotions, o \in Outputs : SameFile(u, o) => SameFile(u, o)'
      BY <2>2, <2>6 DEF SameFile
    <3>3. OpenIsLinked'
      BY <1>3, <2>2, <3>2 DEF PromInv, OnDisk, OpenIsLinked
    <3>4. RolledBackIsClean' /\ PublishedWhenPromoted'
      BY <1>3, <2>2 DEF PromInv, OnDisk, RolledBackIsClean, PublishedWhenPromoted
    <3> QED BY <3>1, <3>3, <3>4 DEF OnDisk
  <2>8. ClosedIsCleaned'
    <3>1. \A u \in Promotions : u # t => Staged(u)' = Staged(u)
      BY <2>1 DEF Staged
    <3> QED BY <1>1, <1>2, <1>3, <2>5, <3>1 DEF PromInv, ClosedIsCleaned, Txn
  <2> QED BY <2>5, <2>7, <2>8 DEF PromInv
<1> QED BY <1>4, <1>5 DEF Copies

LEMMA LinksKeeps ==
  ASSUME PromInv, ~Overlap, NEW p \in Promotions, PromoterStep(p), Links(p)
  PROVE  PromInv'
<1> DEFINE t == Txn(p)
           k == Output(p)
<1>1. /\ prom[p].pc = "link" /\ prom[p].pc # "new" /\ prom[p].pc # "cleanup"
      /\ prom[p].pc \in Publishing /\ prom[p].pc \in AtWork
  BY DEF Links, Here, Publishing, AtWork
<1>2. /\ t \in Promotions /\ k \in Outputs /\ journal[t].state = "pending" /\ WorkShape(p)
      /\ stage \in [Promotions -> [Outputs -> StageFile]] /\ dest \in [Outputs -> DestFile]
  BY <1>1, WorkFacts
<1>3. UNCHANGED <<journal, kills, stage>>
  BY DEF Links, lvars
<1>4. CASE UNCHANGED dest /\ GoTo(p, "handler")
  <2>1. WorkShape(p)'
    BY <1>1, <1>2, <1>3, <1>4, GoesOn DEF Publishing
  <2> QED BY <1>1, <1>3, <1>4, <2>1, QuietStep
<1>5. CASE /\ stage[t][k] # "none" /\ dest[k] = NoFile
           /\ dest' = [dest EXCEPT ![k] = LinkTo(t, k)] /\ GoTo(p, "check")
  <2>1. LinkTo(t, k).of = t /\ LinkTo(t, k).linked /\ LinkTo(t, k) \in DestFile
    BY <1>2 DEF LinkTo, DestFile
  <2>2. /\ dest'[k] = LinkTo(t, k) /\ \A o \in Outputs : o # k => dest'[o] = dest[o]
        /\ dest' \in [Outputs -> DestFile]
    BY <1>2, <1>5, <2>1
  <2>3. /\ prom'[p].pc = "check" /\ prom'[p].txn = prom[p].txn /\ prom'[p].k = prom[p].k
    <3>1. "check" \in PCs
      BY DEF PCs
    <3> QED BY <1>5, <3>1, Goes DEF PromInv
  <2>4. \A o \in Outputs : o < prom[p].k => o # k
    BY <1>2 DEF Output, Outputs
  <2>5. WorkShape(p)'
    BY <1>1, <1>2, <1>3, <2>2, <2>3, <2>4 DEF WorkShape, Txn, AtWork, Publishing
  <2>6. /\ FramesOK' /\ OneAtATime' /\ WorkShapes'
        /\ \A q \in Promotions : q # p => prom'[q] = prom[q]
    BY <2>5, Orderly
  <2>7. OnDisk'
    <3>1. FilesOK'
      BY <1>3, <2>2 DEF PromInv, OnDisk, FilesOK
    <3>2. dest[k].of \notin Promotions
      BY <1>5, Names
    <3>3. OpenIsLinked'
      BY <1>2, <1>3, <1>5, <2>1, <2>2 DEF PromInv, OnDisk, OpenIsLinked, SameFile
    <3>4. RolledBackIsClean'
      BY <1>2, <1>3, <2>1, <2>2 DEF PromInv, OnDisk, RolledBackIsClean
    <3>5. PublishedWhenPromoted'
      BY <1>2, <1>3, <2>2, <3>2 DEF PromInv, OnDisk, PublishedWhenPromoted
    <3> QED BY <3>1, <3>3, <3>4, <3>5 DEF OnDisk
  <2>8. ClosedIsCleaned'
    BY <1>1, <1>3, <2>6 DEF PromInv, ClosedIsCleaned, Staged, Txn
  <2> QED BY <2>6, <2>7, <2>8 DEF PromInv
<1> QED BY <1>4, <1>5 DEF Links

LEMMA ChecksKeeps ==
  ASSUME PromInv, ~Overlap, NEW p \in Promotions, PromoterStep(p), ChecksPublished(p)
  PROVE  PromInv'
<1> DEFINE k == Output(p)
<1>1. /\ prom[p].pc = "check" /\ prom[p].pc # "new" /\ prom[p].pc # "cleanup"
      /\ prom[p].pc \in Publishing /\ prom[p].pc \in AtWork
      /\ UNCHANGED <<stage, dest, journal, kills>>
  BY DEF ChecksPublished, Here, Publishing, AtWork, lvars
<1>2. /\ k \in Outputs /\ journal[Txn(p)].state = "pending" /\ WorkShape(p)
  BY <1>1, WorkFacts
<1>3. CASE GoTo(p, "handler")
  <2>1. WorkShape(p)'
    BY <1>1, <1>2, <1>3, GoesOn DEF Publishing
  <2> QED BY <1>1, <2>1, QuietStep
<1>4. CASE /\ SameFile(Txn(p), k) /\ dest[k].whole
           /\ prom' = [prom EXCEPT ![p].k = k + 1,
                                   ![p].pc = IF k = NOutputs THEN "finalize" ELSE "stage"]
  <2>1. /\ prom'[p].pc \in {"stage", "finalize"} /\ prom'[p].txn = prom[p].txn
        /\ prom'[p].k = k + 1
    BY <1>1, <1>4, ChecksFrame DEF PromInv, Here
  <2>2. \A o \in Outputs : o < k + 1 => o < k \/ o = k
    BY <1>2 DEF Outputs
  <2>3. \A o \in Outputs : o < prom'[p].k => dest[o].of = Txn(p) /\ dest[o].whole
    BY <1>1, <1>2, <1>4, <2>1, <2>2 DEF WorkShape, SameFile, Output
  <2>4. WorkShape(p)'
    BY <1>1, <1>2, <2>1, <2>3 DEF WorkShape, Txn, AtWork, Publishing
  <2> QED BY <1>1, <2>4, QuietStep
<1> QED BY <1>3, <1>4 DEF ChecksPublished

LEMMA DecidesKeeps ==
  ASSUME PromInv, ~Overlap, NEW p \in Promotions, PromoterStep(p), DecidesOwnership(p)
  PROVE  PromInv'
<1> DEFINE t == Txn(p)
           S == {o \in Outputs : SameFile(t, o)}
<1>1. /\ prom[p].pc = "handler" /\ prom[p].pc # "new" /\ prom[p].pc # "cleanup"
      /\ prom[p].pc \in AtWork
      /\ UNCHANGED <<stage, dest, journal, kills>>
  BY DEF DecidesOwnership, Here, AtWork, lvars
<1>2. t \in Promotions /\ journal[t].state = "pending"
  BY <1>1, WorkFacts
<1>3. \A o \in Outputs : o \in S <=> dest[o].of = t
  BY <1>2 DEF PromInv, OnDisk, OpenIsLinked, SameFile
<1>4. S \in SUBSET Outputs /\ prom' = [prom EXCEPT ![p].pc = "unlink", ![p].owned = S]
  BY DEF DecidesOwnership
<1> HIDE DEF S
<1>5. prom'[p].pc = "unlink" /\ prom'[p].txn = prom[p].txn /\ prom'[p].owned = S
  BY <1>1, <1>4, OwnsFrame DEF PromInv, Here
<1>6. WorkShape(p)'
  BY <1>1, <1>2, <1>3, <1>5 DEF WorkShape, Txn, AtWork, Publishing
<1> QED BY <1>1, <1>6, QuietStep

\* What Unlinks and CleansUp choose is in the set they choose it from.
LEMMA FirstIsIn ==
  ASSUME NEW S \in SUBSET Outputs, S # {}
  PROVE  (CHOOSE o \in S : \A x \in S : o <= x) \in S
<1> DEFINE R == {xy \in Nat \X Nat : xy[1] < xy[2]}
<1>1. S \subseteq Nat
  BY OutputsAreNumbers
<1>2. IsWellFoundedOn(R, Nat)
  BY NatLessThanWellFounded DEF OpToRel
<1>3. PICK o \in S : \A x \in S : <<x, o>> \notin R
  <2> HIDE DEF R
  <2> QED BY <1>1, <1>2, WFMin
<1>4. ASSUME NEW x \in S PROVE o <= x
  <2>1. x \in Nat /\ o \in Nat /\ <<x, o>> \in Nat \X Nat
    BY <1>1
  <2>2. ~(x < o)
    BY <1>3, <2>1
  <2> QED BY <2>1, <2>2
<1> QED BY <1>4

LEMMA UnlinksKeeps ==
  ASSUME PromInv, ~Overlap, NEW p \in Promotions, PromoterStep(p), Unlinks(p)
  PROVE  PromInv'
<1> DEFINE t == Txn(p)
           S == prom[p].owned
           k == CHOOSE o \in S : \A x \in S : o <= x
<1>1. /\ prom[p].pc = "unlink" /\ prom[p].pc # "new" /\ prom[p].pc # "cleanup"
      /\ prom[p].pc \in AtWork /\ UNCHANGED <<stage, journal, kills>>
  BY DEF Unlinks, Here, AtWork, lvars
<1>2. /\ t \in Promotions /\ S \in SUBSET Outputs /\ journal[t].state = "pending"
      /\ WorkShape(p) /\ dest \in [Outputs -> DestFile]
  BY <1>1, WorkFacts DEF PromRow
<1>3. CASE S = {}
  <2>1. GoTo(p, "rollback") /\ UNCHANGED dest
    BY <1>3 DEF Unlinks
  <2>2. prom'[p].pc = "rollback" /\ prom'[p].txn = prom[p].txn
    <3>1. "rollback" \in PCs
      BY DEF PCs
    <3> QED BY <2>1, <3>1, Goes DEF PromInv
  <2>3. WorkShape(p)'
    BY <1>1, <1>2, <1>3, <2>1, <2>2 DEF WorkShape, Txn, AtWork, Publishing
  <2> QED BY <1>1, <2>1, <2>3, QuietStep
<1>4. CASE S # {}
  <2>1. k \in S /\ k \in Outputs
    BY <1>2, <1>4, FirstIsIn
  <2>2. dest' = [dest EXCEPT ![k] = NoFile] /\ prom' = [prom EXCEPT ![p].owned = @ \ {k}]
    BY <1>4 DEF Unlinks
  <2> HIDE DEF k
  <2>3. /\ FramesOK' /\ prom'[p].pc = "unlink" /\ prom'[p].txn = prom[p].txn
        /\ prom'[p].owned = S \ {k}
    BY <1>1, <2>2, UnlinkFrame DEF PromInv, Here
  <2>4. /\ dest'[k] = NoFile /\ \A o \in Outputs : o # k => dest'[o] = dest[o]
        /\ dest' \in [Outputs -> DestFile]
    BY <1>2, <2>1, <2>2, Names
  <2>5. dest[k].of = t /\ \A o \in Outputs : o \in S <=> dest[o].of = t
    BY <1>1, <1>2, <2>1 DEF WorkShape
  <2>6. \A o \in Outputs : o \in prom'[p].owned <=> dest'[o].of = t
    BY <1>2, <2>3, <2>4, <2>5, Names
  <2>7. WorkShape(p)'
    BY <1>1, <1>2, <2>3, <2>6 DEF WorkShape, Txn, AtWork, Publishing
  <2>8. /\ FramesOK' /\ OneAtATime' /\ WorkShapes'
        /\ \A q \in Promotions : q # p => prom'[q] = prom[q]
    BY <2>7, Orderly
  <2>9. OnDisk'
    <3>1. FilesOK'
      BY <1>1, <2>4 DEF PromInv, OnDisk, FilesOK
    <3>2. NoFile.of \notin Promotions
      BY Names
    <3>3. OpenIsLinked' /\ RolledBackIsClean'
      BY <1>1, <2>4, <3>2 DEF PromInv, OnDisk, OpenIsLinked, RolledBackIsClean, SameFile
    <3>4. PublishedWhenPromoted'
      BY <1>1, <1>2, <2>4, <2>5 DEF PromInv, OnDisk, PublishedWhenPromoted
    <3> QED BY <3>1, <3>3, <3>4 DEF OnDisk
  <2>10. ClosedIsCleaned'
    BY <1>1, <2>8 DEF PromInv, ClosedIsCleaned, Staged, Txn
  <2> QED BY <2>8, <2>9, <2>10 DEF PromInv
<1> QED BY <1>3, <1>4

LEMMA CleansUpKeeps ==
  ASSUME PromInv, ~Overlap, NEW p \in Promotions, PromoterStep(p), CleansUp(p)
  PROVE  PromInv'
<1> DEFINE t == Txn(p)
           S == Staged(t)
           k == CHOOSE o \in S : \A x \in S : o <= x
<1>1. /\ prom[p].pc = "cleanup" /\ prom[p].pc # "new" /\ prom[p].pc \notin AtWork
      /\ UNCHANGED <<journal, kills>>
  BY DEF CleansUp, Here, AtWork, Publishing, lvars
<1>2. /\ t \in Promotions /\ WorkShape(p)
      /\ stage \in [Promotions -> [Outputs -> StageFile]] /\ dest \in [Outputs -> DestFile]
  BY <1>1, WorkFacts
<1>3. journal[t].state \in {"completed", "rolled_back"}
  BY <1>1, <1>2 DEF WorkShape
<1>4. CASE S = {}
  <2>1. GoTo(p, "returned") /\ UNCHANGED <<stage, dest>>
    BY <1>4 DEF CleansUp
  <2>2. WorkShape(p)'
    BY <1>1, <1>2, <2>1, GoesOn DEF AtWork, Publishing
  <2>3. /\ FramesOK' /\ OneAtATime' /\ WorkShapes'
        /\ \A q \in Promotions : q # p => prom'[q] = prom[q]
    BY <2>2, Orderly
  <2>4. OnDisk'
    BY <1>1, <2>1 DEF PromInv, OnDisk, FilesOK, OpenIsLinked, RolledBackIsClean,
                      PublishedWhenPromoted, SameFile
  <2>5. ClosedIsCleaned'
    BY <1>1, <1>4, <2>1, <2>3 DEF PromInv, ClosedIsCleaned, Staged, Txn
  <2> QED BY <2>3, <2>4, <2>5 DEF PromInv
<1>5. CASE S # {}
  <2>1. S \in SUBSET Outputs
    BY DEF Staged
  <2>2. k \in S /\ k \in Outputs
    BY <1>5, <2>1, FirstIsIn
  <2>3. /\ SetStage(t, k, "none") /\ UNCHANGED prom
        /\ dest' = IF SameFile(t, k) THEN [dest EXCEPT ![k].linked = FALSE] ELSE dest
    BY <1>5 DEF CleansUp
  <2> HIDE DEF k
  <2>4. /\ stage'[t][k] = "none"
        /\ \A u \in Promotions, o \in Outputs : ~(u = t /\ o = k) => stage'[u][o] = stage[u][o]
        /\ stage' \in [Promotions -> [Outputs -> StageFile]]
    BY <1>2, <2>2, <2>3 DEF SetStage, StageFile
  <2>5. /\ dest' \in [Outputs -> DestFile]
        /\ \A o \in Outputs : dest'[o].of = dest[o].of /\ dest'[o].whole = dest[o].whole
        /\ \A o \in Outputs : dest[o].of # t => dest'[o].linked = dest[o].linked
    BY <1>2, <2>2, <2>3 DEF DestFile, SameFile
  <2>6. FramesOK' /\ OneAtATime'
    BY <2>3 DEF PromInv, FramesOK, OneAtATime
  <2>7. WorkShapes'
    BY <1>1, <2>3, <2>5 DEF PromInv, WorkShapes, WorkShape, Txn
  <2>8. OnDisk'
    <3>1. FilesOK'
      BY <1>1, <2>4, <2>5 DEF PromInv, OnDisk, FilesOK
    <3>2. \A u \in Promotions, o \in Outputs : u # t /\ SameFile(u, o) => SameFile(u, o)'
      BY <2>4, <2>5 DEF SameFile
    <3>3. OpenIsLinked'
      BY <1>1, <1>3, <2>5, <3>2 DEF PromInv, OnDisk, OpenIsLinked
    <3>4. RolledBackIsClean' /\ PublishedWhenPromoted'
      BY <1>1, <2>5 DEF PromInv, OnDisk, RolledBackIsClean, PublishedWhenPromoted
    <3> QED BY <3>1, <3>3, <3>4 DEF OnDisk
  <2>9. ClosedIsCleaned'
    <3>1. \A u \in Promotions : u # t => Staged(u)' = Staged(u)
      BY <2>4 DEF Staged
    <3> QED BY <1>1, <1>2, <2>3, <3>1 DEF PromInv, ClosedIsCleaned, Txn
  <2> QED BY <2>6, <2>7, <2>8, <2>9 DEF PromInv
<1> QED BY <1>4, <1>5

-----------------------------------------------------------------------------
(* The environment, and the whole. *)

LEMMA PersonKeeps ==
  ASSUME PromInv, NEW k \in Outputs, SomeoneWrites(k) \/ SomeoneDeletes(k)
  PROVE  PromInv'
<1>1. /\ UNCHANGED <<journal, prom, stage, kills>>
      /\ dest[k] \in {NoFile, Foreign} /\ dest'[k] \in {NoFile, Foreign}
      /\ \A o \in Outputs : o # k => dest'[o] = dest[o]
      /\ dest' \in [Outputs -> DestFile]
  <2>1. dest \in [Outputs -> DestFile]
    BY DEF PromInv, OnDisk, FilesOK
  <2> QED BY <2>1, Names DEF SomeoneWrites, SomeoneDeletes, lvars
<1>2. dest[k].of \notin Promotions /\ dest'[k].of \notin Promotions
  BY <1>1, Names
<1>3. FramesOK' /\ OneAtATime'
  BY <1>1 DEF PromInv, FramesOK, OneAtATime
<1>4. \A p \in Promotions : prom[p].pc # "new" => Txn(p) \in Promotions
  BY WorkFacts
<1>5. WorkShapes'
  <2> SUFFICES ASSUME NEW p \in Promotions PROVE WorkShape(p)'
    BY DEF WorkShapes
  <2>1. WorkShape(p)
    BY DEF PromInv, WorkShapes
  <2>2. CASE prom[p].pc = "new"
    BY <1>1, <2>2 DEF WorkShape, AtWork, Publishing
  <2>3. CASE prom[p].pc # "new"
    <3>1. Txn(p) \in Promotions
      BY <1>4, <2>3
    <3>2. \A o \in Outputs : dest[o].of = Txn(p) => dest'[o] = dest[o]
      BY <1>1, <1>2, <3>1
    <3>3. \A o \in Outputs : dest'[o].of = Txn(p) => dest'[o] = dest[o]
      BY <1>1, <1>2, <3>1
    <3> QED BY <1>1, <2>1, <3>2, <3>3 DEF WorkShape, Txn
  <2> QED BY <2>2, <2>3
<1>6. OnDisk'
  <2>1. FilesOK'
    BY <1>1 DEF PromInv, OnDisk, FilesOK
  <2>2. OpenIsLinked' /\ RolledBackIsClean'
    BY <1>1, <1>2 DEF PromInv, OnDisk, OpenIsLinked, RolledBackIsClean, SameFile
  <2>3. PublishedWhenPromoted'
    BY <1>1, <1>2 DEF PromInv, OnDisk, PublishedWhenPromoted
  <2> QED BY <2>1, <2>2, <2>3 DEF OnDisk
<1>7. ClosedIsCleaned'
  BY <1>1 DEF PromInv, ClosedIsCleaned, Staged, Txn
<1> QED BY <1>3, <1>5, <1>6, <1>7 DEF PromInv

LEMMA NothingMoves ==
  ASSUME PromInv, UNCHANGED <<journal, prom, stage, dest, kills>>
  PROVE  PromInv'
<1>1. FramesOK' /\ OneAtATime' /\ WorkShapes'
  BY DEF PromInv, FramesOK, OneAtATime, WorkShapes, WorkShape, Txn
<1>2. OnDisk' /\ ClosedIsCleaned'
  BY QuietKeeps DEF PromInv, OnDisk, FilesOK
<1> QED BY <1>1, <1>2 DEF PromInv

LEMMA OthersLeaveTheJournal == OtherCommands => UNCHANGED <<journal, prom, stage, dest, kills>>
  BY DEF OtherCommands, pvars, MissionStep, Propose, Transition, Claim, Resume, Cancel,
         ClaimEvaluation, FailActive, AddProvenance

LEMMA PromStep == ~Overlap /\ Inv /\ PromInv /\ [Next]_vars => PromInv'
<1> SUFFICES ASSUME ~Overlap, Inv, PromInv, [Next]_vars PROVE PromInv'
  OBVIOUS
<1>1. CASE UNCHANGED vars \/ OtherCommands
  BY <1>1, OthersLeaveTheJournal, NothingMoves DEF vars
<1>2. ASSUME NEW o \in Outputs, SomeoneWrites(o) \/ SomeoneDeletes(o) PROVE PromInv'
  BY <1>2, PersonKeeps
<1>3. ASSUME NEW p \in Promotions, PromoterStep(p) PROVE PromInv'
  BY <1>3, BeginsKeeps, RecoversKeeps, QuietStepsKeep, OpensStageKeeps, CopiesKeeps,
     LinksKeeps, ChecksKeeps, FinalizesKeeps, DecidesKeeps, UnlinksKeeps, RollsBackKeeps,
     CleansUpKeeps
  DEF PromoterStep
<1> QED BY <1>1, <1>2, <1>3 DEF Next

LEMMA InitProm == Init => PromInv
<1> SUFFICES ASSUME Init PROVE PromInv
  OBVIOUS
<1>1. FramesOK
  BY InitFrames
<1>2. OneAtATime /\ WorkShapes
  BY DEF Init, OneAtATime, WorkShapes, WorkShape, Idle, AtWork, Publishing
<1>3. FilesOK
  BY Names DEF Init, FilesOK, StageFile
<1>4. OpenIsLinked /\ RolledBackIsClean /\ ClosedIsCleaned /\ PublishedWhenPromoted
  BY Names DEF Init, LInit, OpenIsLinked, RolledBackIsClean, ClosedIsCleaned,
               PublishedWhenPromoted, Staged
<1> QED BY <1>1, <1>2, <1>3, <1>4 DEF PromInv, OnDisk

LEMMA LedgerInvHolds == Spec => []Inv
  BY PromotionImplementsLedger, LedgerInvariant, PTL DEF ImplementsLedger

LEMMA PromInvHolds == ASSUME ~Overlap PROVE Spec => []PromInv
  BY PromStep, InitProm, LedgerInvHolds, PTL DEF Spec

(* "Approvals and promoted state are committed only after every            *)
(* destination hash is verified": wherever promoters are killed, whatever  *)
(* raises and whatever files a person puts in the way, a transaction that  *)
(* is completed has all its outputs in the repository.                     *)
THEOREM PublicationIsWhole == ASSUME ~Overlap PROVE Spec => []PublishedWhenPromoted
<1>1. PromInv => PublishedWhenPromoted
  BY DEF PromInv, OnDisk
<1> QED BY <1>1, PromInvHolds, PTL

(* A transaction that is rolled back, by its own promoter or by one that   *)
(* took it over after a crash, leaves no link of its own behind.           *)
THEOREM RollbackIsClean == ASSUME ~Overlap PROVE Spec => []NothingLeftBehind
<1>1. PromInv => NothingLeftBehind
  BY DEF PromInv, OnDisk, RolledBackIsClean, NothingLeftBehind
<1> QED BY <1>1, PromInvHolds, PTL

(* Unless a promoter is killed, no stage file outlives its transaction.    *)
THEOREM StagesAreCleaned == ASSUME ~Overlap PROVE Spec => []StagesGone
<1>1. PromInv => StagesGone
  <2> SUFFICES ASSUME PromInv, NEW t \in Promotions, kills = 0,
                      journal[t].state \in {"completed", "rolled_back"},
                      \A p \in Promotions : prom[p].pc \in Idle \/ Txn(p) # t
               PROVE  Staged(t) = {}
    BY DEF StagesGone
  <2> QED BY DEF PromInv, ClosedIsCleaned, Idle
<1> QED BY <1>1, PromInvHolds, PTL

(* Publication never replaces, and a rollback never removes, a file that a *)
(* promoter did not put there itself: os.link fails on one, and only files *)
(* with the inode of a stage are unlinked.                                 *)
THEOREM ForeignFilesAreKept == ASSUME ~Overlap PROVE Spec => ForeignKept
<1> DEFINE Kept == \A o \in Outputs : dest[o] = Foreign /\ dest'[o] # Foreign => UNCHANGED prom
<1>1. ASSUME ~Overlap, PromInv, [Next]_vars
      PROVE  Kept
  <2> SUFFICES ASSUME NEW o \in Outputs, dest[o] = Foreign, dest'[o] # Foreign
               PROVE  UNCHANGED prom
    OBVIOUS
  <2>1. dest[o].of \notin Promotions /\ dest[o] # NoFile /\ dest \in [Outputs -> DestFile]
    BY <1>1, Names DEF PromInv, OnDisk, FilesOK
  <2>2. \A p \in Promotions : prom[p].pc # "new" => Txn(p) \in Promotions
    BY <1>1, WorkFacts
  <2>3. ASSUME NEW p \in Promotions, PromoterStep(p) PROVE FALSE
    <3>1. dest' # dest
      OBVIOUS
    <3>2. Copies(p) \/ Links(p) \/ Unlinks(p) \/ CleansUp(p)
      BY <2>3, <3>1
      DEF PromoterStep, Begins, Recovers, Rereads, OpensStage, VerifiesStage,
          LooksAtDestination, ChecksPublished, Finalizes, Raises, DecidesOwnership,
          RollsBack, GivesUp, PromoterKilled
    <3>3. Txn(p) \in Promotions
      BY <2>2, <3>2 DEF Copies, Links, Unlinks, CleansUp, Here
    <3>4. CASE Copies(p)
      BY <2>1, <3>1, <3>3, <3>4 DEF Copies, SameFile
    <3>5. CASE Links(p)
      BY <2>1, <3>1, <3>5 DEF Links
    <3>6. CASE Unlinks(p)
      <4> DEFINE S == prom[p].owned
                 k == CHOOSE x \in S : \A y \in S : x <= y
      <4>1. S \in SUBSET Outputs /\ WorkShape(p) /\ prom[p].pc = "unlink"
        BY <1>1, <3>6, WorkFacts DEF Unlinks, Here, PromRow
      <4>2. S # {} /\ dest' = [dest EXCEPT ![k] = NoFile]
        BY <3>1, <3>6 DEF Unlinks
      <4>3. k \in S
        BY <4>1, <4>2, FirstIsIn
      <4> HIDE DEF k
      <4>4. dest[k].of = Txn(p)
        BY <4>1, <4>3 DEF WorkShape
      <4> QED BY <2>1, <3>3, <4>2, <4>4
    <3>7. CASE CleansUp(p)
      BY <2>1, <3>1, <3>3, <3>7 DEF CleansUp, SameFile
    <3> QED BY <3>2, <3>4, <3>5, <3>6, <3>7
  <2> QED
    BY <1>1, <2>3 DEF Next, vars, pvars, SomeoneWrites, SomeoneDeletes, OtherCommands
<1>2. PromInv /\ [Next]_vars => [Kept]_vars
  BY <1>1
<1> QED BY <1>2, PromInvHolds, PTL DEF Spec, ForeignKept
=============================================================================
