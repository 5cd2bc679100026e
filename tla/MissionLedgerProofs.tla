------------------------- MODULE MissionLedgerProofs -------------------------
(***************************************************************************)
(* Theorems about MissionLedger, for any missions, limits, actors and      *)
(* number of attempts.  The steps fall into four kinds by what they write: *)
(* one mission, the evidence of one attempt, one journal entry, or (the    *)
(* promotion) all three.  Each kind is described once, and one lemma per   *)
(* kind shows that it keeps the inductive invariant.                       *)
(***************************************************************************)
EXTENDS MissionLedger, FiniteSetTheorems, TLAPS

USE MissionsAssumption, CapacityAssumption, MaxAttemptsAssumption, NullAssumption

(* A mission that runs, is judged or is promoted has an active attempt.    *)
BusyHasAttempt ==
  \A m \in Missions :
    missions[m].state \in Busy \cup {"passed", "promoted"} =>
      missions[m].active # NULL

(* What _begin_promotion checked stays true while the entry can be used.   *)
JournalShape ==
  \A t \in Promotions :
    journal[t].state \in {"pending", "completed"} =>
      /\ journal[t].attempt \in Attempts
      /\ journal[t].reviewer \in Actors /\ journal[t].shipper \in Actors
      /\ Distinct(journal[t].reviewer, journal[t].shipper)
      /\ attempts[journal[t].attempt].provenance = "passed"

Inv ==
  /\ LTypeOK
  /\ CapacityKept
  /\ BusyHasAttempt
  /\ JournalShape
  /\ PromotedOnEvidence
  /\ ApprovedIsPromoted

-----------------------------------------------------------------------------
LEMMA InitInv == LInit => Inv
<1> SUFFICES ASSUME LInit PROVE Inv
  OBVIOUS
<1>1. /\ \A m \in Missions :
           /\ missions[m] = [state |-> "absent", active |-> NULL, ordinals |-> 0]
           /\ missions[m].state = "absent" /\ missions[m].active = NULL
      /\ \A a \in Attempts : attempts[a].approvals = NULL
      /\ \A t \in Promotions : journal[t].state = "none"
  BY DEF LInit
<1>2. LTypeOK
  <2>1. missions \in [Missions -> MissionRow]
    BY DEF LInit, MissionRow, States, Legal
  <2>2. attempts \in [Attempts -> AttemptRow]
    BY DEF LInit, AttemptRow
  <2>3. journal \in [Promotions -> TxnRow]
    BY DEF LInit, TxnRow
  <2> QED
    BY <1>1, <2>1, <2>2, <2>3 DEF LTypeOK
<1> QED
  BY <1>1, <1>2 DEF Inv, CapacityKept, Occupied, Busy, BusyHasAttempt, JournalShape,
     PromotedOnEvidence, ApprovedIsPromoted

-----------------------------------------------------------------------------
(* Promoted missions stay earned as long as what earned them is kept.      *)
LEMMA KeepsEarned ==
  ASSUME Inv,
         \A n \in Missions : missions'[n].state = "promoted" =>
            missions[n].state = "promoted" /\ missions'[n].active = missions[n].active,
         \A b \in Attempts :
            /\ attempts'[b].approvals = attempts[b].approvals
            /\ attempts[b].provenance = "passed" => attempts'[b].provenance = "passed",
         \A u \in Promotions : journal[u].state = "completed" =>
            /\ journal'[u].state = "completed"
            /\ journal'[u].attempt = journal[u].attempt
            /\ journal'[u].reviewer = journal[u].reviewer
            /\ journal'[u].shipper = journal[u].shipper
  PROVE  PromotedOnEvidence'
<1> SUFFICES ASSUME NEW n \in Missions, missions'[n].state = "promoted"
             PROVE  LET b == missions'[n].active IN
                    /\ attempts'[b].provenance = "passed"
                    /\ \E u \in Promotions :
                         /\ journal'[u].state = "completed"
                         /\ journal'[u].attempt = b
                         /\ attempts'[b].approvals =
                              <<journal'[u].reviewer, journal'[u].shipper>>
                         /\ Distinct(journal'[u].reviewer, journal'[u].shipper)
  BY DEF PromotedOnEvidence
<1> DEFINE b == missions[n].active
<1>1. missions[n].state = "promoted" /\ missions'[n].active = b
  OBVIOUS
<1>2. b \in Attempts
  BY <1>1 DEF Inv, LTypeOK, MissionRow, BusyHasAttempt
<1>3. PICK u \in Promotions :
        /\ attempts[b].provenance = "passed"
        /\ journal[u].state = "completed"
        /\ journal[u].attempt = b
        /\ attempts[b].approvals = <<journal[u].reviewer, journal[u].shipper>>
        /\ Distinct(journal[u].reviewer, journal[u].shipper)
  BY <1>1 DEF Inv, PromotedOnEvidence
<1> QED
  BY <1>1, <1>2, <1>3

-----------------------------------------------------------------------------
(* Steps that write one mission. *)

MissionWrite(m) ==
  LET old == missions[m]
      new == missions'[m]
  IN  /\ missions' = [missions EXCEPT ![m] = new]
      /\ new \in MissionRow
      /\ old.state # "promoted" /\ new.state # "promoted"
      /\ \/ new.active = old.active /\ new.ordinals = old.ordinals
         \/ /\ new.ordinals = old.ordinals + 1
            /\ new.active = <<m, new.ordinals>>
      /\ new.state \in Busy \cup {"passed"} => new.active # NULL
      /\ new.state \in Busy => old.state \in Busy \/ HasCapacity(m)
      /\ UNCHANGED <<attempts, journal>>

LEMMA SetStateWrites ==
  ASSUME NEW m \in Missions, NEW st \in States, Inv, SetState(m, st),
         UNCHANGED <<attempts, journal>>,
         missions[m].state # "promoted", st # "promoted",
         st \in Busy \cup {"passed"} => missions[m].state \in Busy
  PROVE  MissionWrite(m)
<1>1. missions \in [Missions -> MissionRow] /\ missions[m] \in MissionRow
  BY DEF Inv, LTypeOK
<1>2. missions' = [missions EXCEPT ![m] = [missions[m] EXCEPT !.state = st]]
  BY DEF SetState
<1>3. missions'[m] = [missions[m] EXCEPT !.state = st]
  BY <1>1, <1>2
<1>4. /\ missions'[m] \in MissionRow
      /\ missions'[m].state = st
      /\ missions'[m].active = missions[m].active
      /\ missions'[m].ordinals = missions[m].ordinals
  BY <1>1, <1>3 DEF MissionRow
<1>5. missions[m].state \in Busy => missions[m].active # NULL
  BY DEF Inv, BusyHasAttempt
<1> QED
  BY <1>2, <1>3, <1>4, <1>5 DEF MissionWrite

LEMMA ClaimWrites ==
  ASSUME NEW m \in Missions, Inv, Claim(m)
  PROVE  MissionWrite(m)
<1> DEFINE n == IF missions[m].active # NULL THEN missions[m].ordinals
                                             ELSE missions[m].ordinals + 1
           new == [state |-> "running", active |-> AttemptToRun(m), ordinals |-> n]
<1>1. missions \in [Missions -> MissionRow] /\ missions[m] \in MissionRow
  BY DEF Inv, LTypeOK
<1>2. missions' = [missions EXCEPT ![m] = new]
  BY DEF Claim
<1>3. missions'[m] = new
  BY <1>1, <1>2
<1>4. AttemptToRun(m) \in Attempts /\ AttemptToRun(m) # NULL
  BY DEF Claim, Attempts
<1>5. n \in 0..MaxAttempts
  <2>1. CASE missions[m].active # NULL
    BY <1>1, <2>1 DEF MissionRow
  <2>2. CASE missions[m].active = NULL
    <3>1. <<m, missions[m].ordinals + 1>> \in Attempts
      BY <1>4, <2>2 DEF AttemptToRun
    <3> QED
      BY <1>1, <2>2, <3>1 DEF Attempts, MissionRow
  <2> QED
    BY <2>1, <2>2
<1>6. new \in MissionRow
  BY <1>4, <1>5 DEF MissionRow, States, Legal
<1>7. \/ AttemptToRun(m) = missions[m].active /\ n = missions[m].ordinals
      \/ n = missions[m].ordinals + 1 /\ AttemptToRun(m) = <<m, n>>
  BY DEF AttemptToRun
<1>8. missions[m].state = "ready" /\ HasCapacity(m) /\ UNCHANGED <<attempts, journal>>
  BY DEF Claim
<1>9. new.state = "running" /\ new.active = AttemptToRun(m) /\ new.ordinals = n
  OBVIOUS
<1> HIDE DEF new, n
<1>10. \/ new.active = missions[m].active /\ new.ordinals = missions[m].ordinals
       \/ /\ new.ordinals = missions[m].ordinals + 1
          /\ new.active = <<m, new.ordinals>>
  BY <1>7, <1>9
<1> QED
  BY <1>2, <1>3, <1>4, <1>6, <1>8, <1>9, <1>10 DEF MissionWrite

LEMMA ResumeWrites ==
  ASSUME NEW m \in Missions, Inv, Resume(m)
  PROVE  MissionWrite(m)
<1> DEFINE n == missions[m].ordinals + 1
           new == [state |-> "ready", active |-> <<m, n>>, ordinals |-> n]
<1>1. missions \in [Missions -> MissionRow] /\ missions[m] \in MissionRow
  BY DEF Inv, LTypeOK
<1>2. missions' = [missions EXCEPT ![m] = new] /\ UNCHANGED <<attempts, journal>>
  BY DEF Resume
<1>3. missions'[m] = new
  BY <1>1, <1>2
<1>4. n \in 1..MaxAttempts
  BY <1>1 DEF Resume, MissionRow
<1>5. new \in MissionRow
  BY <1>4 DEF MissionRow, States, Legal, Attempts
<1>6. missions[m].state # "promoted"
  BY DEF Resume
<1>7. /\ new.state = "ready" /\ new.active = <<m, new.ordinals>>
      /\ new.ordinals = missions[m].ordinals + 1
  OBVIOUS
<1> HIDE DEF new
<1> QED
  BY <1>2, <1>3, <1>5, <1>6, <1>7 DEF MissionWrite, Busy

LEMMA MissionStepWrites ==
  ASSUME NEW m \in Missions, Inv, MissionStep(m)
  PROVE  MissionWrite(m)
<1> missions[m].state \in States
  BY DEF Inv, LTypeOK, MissionRow
<1>1. CASE Propose(m)
  BY <1>1, SetStateWrites DEF Propose, States, Legal, Busy
<1>2. CASE \E target \in Targets : Transition(m, target)
  <2> PICK target \in Targets : Transition(m, target)
    BY <1>2
  <2>1. target \in Legal[missions[m].state]
    BY DEF Transition, CanTransition
  <2>2. /\ target \in States /\ target # "promoted"
        /\ missions[m].state # "promoted"
        /\ target \in Busy \cup {"passed"} => missions[m].state \in Busy
    BY <2>1 DEF States, Legal, Busy, Targets
  <2> QED
    BY <2>2, SetStateWrites DEF Transition
<1>3. CASE Claim(m)
  BY <1>3, ClaimWrites
<1>4. CASE Resume(m)
  BY <1>4, ResumeWrites
<1>5. CASE Cancel(m)
  BY <1>5, SetStateWrites DEF Cancel, States, Legal, Busy
<1> QED
  BY <1>1, <1>2, <1>3, <1>4, <1>5 DEF MissionStep

(* A step that turns a mission busy comes from a claim, which counted.     *)
LEMMA WriteKeepsCapacity ==
  ASSUME NEW m \in Missions, Inv, MissionWrite(m)
  PROVE  CapacityKept'
<1>1. missions \in [Missions -> MissionRow]
  BY DEF Inv, LTypeOK
<1>2. IsFiniteSet(Occupied) /\ Cardinality(Occupied) \in Nat
  BY FS_Subset, FS_CardinalityType DEF Occupied
<1>3. \A n \in Missions : n # m => missions'[n] = missions[n]
  BY <1>1 DEF MissionWrite
<1>4. CASE Occupied' \subseteq Occupied
  <2>1. Cardinality(Occupied') <= Cardinality(Occupied) /\ Cardinality(Occupied') \in Nat
    BY <1>2, <1>4, FS_Subset, FS_CardinalityType
  <2>2. \A n \in Occupied' : Cardinality(Occupied) <= Capacity[n] /\ Capacity[n] \in Nat
    BY <1>4 DEF Inv, CapacityKept, Occupied
  <2> QED
    BY <1>2, <2>1, <2>2 DEF CapacityKept
<1>5. CASE ~(Occupied' \subseteq Occupied)
  <2>1. m \notin Occupied /\ Occupied' = Occupied \cup {m} /\ HasCapacity(m)
    BY <1>3, <1>5 DEF Occupied, MissionWrite
  <2>2. Cardinality(Occupied') = Cardinality(Occupied) + 1
    BY <1>2, <2>1, FS_AddElement
  <2>3. \A n \in Occupied' : Cardinality(Occupied) < Capacity[n] /\ Capacity[n] \in Nat
    BY <2>1 DEF HasCapacity, Occupied
  <2> QED
    BY <1>2, <2>2, <2>3 DEF CapacityKept
<1> QED
  BY <1>4, <1>5

LEMMA WriteKeepsType ==
  ASSUME NEW m \in Missions, Inv, MissionWrite(m)
  PROVE  LTypeOK'
<1>1. /\ missions \in [Missions -> MissionRow]
      /\ missions' \in [Missions -> MissionRow]
      /\ attempts' \in [Attempts -> AttemptRow]
      /\ journal' \in [Promotions -> TxnRow]
  BY DEF Inv, LTypeOK, MissionWrite
<1>2. \A n \in Missions : n # m => missions'[n] = missions[n]
  BY <1>1 DEF MissionWrite
<1>3. ASSUME NEW n \in Missions, missions'[n].active # NULL
      PROVE  /\ missions'[n].active[1] = n
             /\ missions'[n].active[2] <= missions'[n].ordinals
  <2>1. missions[n].active # NULL =>
          /\ missions[n].active[1] = n
          /\ missions[n].active[2] <= missions[n].ordinals
    BY DEF Inv, LTypeOK, Made
  <2>2. missions[n].ordinals \in Nat /\ missions'[n].ordinals \in Nat
    BY <1>1 DEF MissionRow
  <2> QED
    <3>1. CASE n # m
      BY <1>2, <1>3, <2>1, <3>1
    <3>2. CASE n = m /\ missions'[m].active = missions[m].active
                     /\ missions'[m].ordinals = missions[m].ordinals
      BY <1>3, <2>1, <3>2
    <3>3. CASE n = m /\ missions'[m].active = <<m, missions'[m].ordinals>>
      BY <2>2, <3>3
    <3> QED
      BY <3>1, <3>2, <3>3 DEF MissionWrite
<1> QED
  BY <1>1, <1>3 DEF LTypeOK, Made

LEMMA WriteKeepsInv ==
  ASSUME NEW m \in Missions, Inv, MissionWrite(m)
  PROVE  Inv'
<1>1. missions \in [Missions -> MissionRow]
  BY DEF Inv, LTypeOK
<1>2. \A n \in Missions : n # m => missions'[n] = missions[n]
  BY <1>1 DEF MissionWrite
<1>3. missions[m].state # "promoted" /\ missions'[m].state # "promoted"
      /\ attempts' = attempts /\ journal' = journal
  BY DEF MissionWrite
<1>4. BusyHasAttempt'
  BY <1>2 DEF BusyHasAttempt, Inv, MissionWrite
<1>5. PromotedOnEvidence'
  <2>1. ASSUME NEW n \in Missions, missions'[n].state = "promoted"
        PROVE  missions[n].state = "promoted" /\ missions'[n].active = missions[n].active
    BY <1>2, <1>3, <2>1
  <2> QED
    BY <1>3, <2>1, KeepsEarned
<1>6. ApprovedIsPromoted'
  <2> SUFFICES ASSUME NEW a \in Attempts, attempts[a].approvals # NULL
               PROVE  missions'[a[1]].active = a /\ missions'[a[1]].state = "promoted"
    BY <1>3 DEF ApprovedIsPromoted, IsActive
  <2>1. missions[a[1]].active = a /\ missions[a[1]].state = "promoted"
    BY DEF Inv, ApprovedIsPromoted, IsActive
  <2>2. a[1] \in Missions
    BY DEF Attempts
  <2> QED
    BY <1>2, <1>3, <2>1, <2>2
<1>7. JournalShape'
  BY <1>3 DEF JournalShape, Inv
<1> QED
  BY <1>4, <1>5, <1>6, <1>7, WriteKeepsType, WriteKeepsCapacity DEF Inv

-----------------------------------------------------------------------------
(* Steps that write the evidence of one attempt. *)

EvidenceWrite ==
  /\ attempts' \in [Attempts -> AttemptRow]
  /\ \A a \in Attempts :
       /\ attempts'[a].approvals = attempts[a].approvals
       /\ attempts[a].provenance # NULL =>
            attempts'[a].provenance = attempts[a].provenance
  /\ UNCHANGED <<missions, journal>>

LEMMA EvidenceKeepsInv ==
  ASSUME Inv, EvidenceWrite
  PROVE  Inv'
<1>1. missions' = missions /\ journal' = journal
  BY DEF EvidenceWrite
<1>2. \A a \in Attempts : attempts[a].provenance = "passed" =>
        attempts'[a].provenance = "passed"
  BY DEF EvidenceWrite
<1>3. LTypeOK'
  BY <1>1 DEF Inv, LTypeOK, EvidenceWrite, Made
<1>4. CapacityKept' /\ BusyHasAttempt'
  BY <1>1 DEF Inv, CapacityKept, Occupied, BusyHasAttempt
<1>5. JournalShape'
  BY <1>1, <1>2 DEF Inv, JournalShape
<1>6. ApprovedIsPromoted'
  BY <1>1 DEF Inv, ApprovedIsPromoted, IsActive, EvidenceWrite
<1>7. PromotedOnEvidence'
  BY <1>1, <1>2, KeepsEarned DEF EvidenceWrite
<1> QED
  BY <1>3, <1>4, <1>5, <1>6, <1>7 DEF Inv

LEMMA AttemptRowWrites ==
  ASSUME NEW a \in Attempts, Inv, NEW row \in AttemptRow,
         attempts' = [attempts EXCEPT ![a] = row],
         row.approvals = attempts[a].approvals,
         attempts[a].provenance # NULL => row.provenance = attempts[a].provenance,
         UNCHANGED <<missions, journal>>
  PROVE  EvidenceWrite
<1>1. attempts \in [Attempts -> AttemptRow]
  BY DEF Inv, LTypeOK
<1>2. \A b \in Attempts : attempts'[b] = IF b = a THEN row ELSE attempts[b]
  BY <1>1
<1> QED
  BY <1>1, <1>2 DEF EvidenceWrite

LEMMA UnchangedKeepsInv ==
  ASSUME Inv, UNCHANGED lvars
  PROVE  Inv'
  BY DEF lvars, Inv, LTypeOK, Made, CapacityKept, Occupied, BusyHasAttempt, JournalShape,
     PromotedOnEvidence, ApprovedIsPromoted, IsActive

-----------------------------------------------------------------------------
(* Steps that write one journal entry. *)

LEMMA BeginKeepsInv ==
  ASSUME NEW a \in Attempts, NEW t \in Promotions, NEW r \in Actors, NEW s \in Actors,
         Inv, attempts[a].provenance = "passed", BeginPromotion(t, a, r, s)
  PROVE  Inv'
<1> DEFINE new == [state |-> "pending", attempt |-> a, reviewer |-> r, shipper |-> s]
<1>1. journal \in [Promotions -> TxnRow]
  BY DEF Inv, LTypeOK
<1>2. /\ journal' = [journal EXCEPT ![t] = new]
      /\ missions' = missions /\ attempts' = attempts
      /\ journal[t].state = "none"
  BY DEF BeginPromotion
<1>3. \A u \in Promotions : journal'[u] = IF u = t THEN new ELSE journal[u]
  BY <1>1, <1>2
<1>4. LTypeOK'
  <2>1. journal' \in [Promotions -> TxnRow]
    BY <1>1, <1>2 DEF TxnRow
  <2> QED
    BY <1>2, <2>1 DEF Inv, LTypeOK, Made
<1>5. CapacityKept' /\ BusyHasAttempt' /\ ApprovedIsPromoted'
  BY <1>2 DEF Inv, CapacityKept, Occupied, BusyHasAttempt, ApprovedIsPromoted, IsActive
<1>6. JournalShape'
  BY <1>2, <1>3 DEF Inv, JournalShape, BeginPromotion, CanBegin
<1>7. PromotedOnEvidence'
  BY <1>2, <1>3, KeepsEarned DEF BeginPromotion
<1> QED
  BY <1>4, <1>5, <1>6, <1>7 DEF Inv

LEMMA CloseFields ==
  ASSUME NEW t \in Promotions, Inv, NEW st \in {"completed", "rolled_back"}, CloseTxn(t, st)
  PROVE  /\ journal' \in [Promotions -> TxnRow]
         /\ \A u \in Promotions :
              /\ journal'[u].state = IF u = t THEN st ELSE journal[u].state
              /\ journal'[u].attempt = journal[u].attempt
              /\ journal'[u].reviewer = journal[u].reviewer
              /\ journal'[u].shipper = journal[u].shipper
<1>1. journal \in [Promotions -> TxnRow]
  BY DEF Inv, LTypeOK
<1>2. journal' = [journal EXCEPT ![t] = [journal[t] EXCEPT !.state = st]]
  BY DEF CloseTxn
<1>3. [journal[t] EXCEPT !.state = st] \in TxnRow
  BY <1>1 DEF TxnRow
<1>4. \A u \in Promotions :
        journal'[u] = IF u = t THEN [journal[t] EXCEPT !.state = st] ELSE journal[u]
  BY <1>1, <1>2
<1> QED
  BY <1>1, <1>2, <1>3, <1>4 DEF TxnRow

LEMMA RollbackKeepsInv ==
  ASSUME NEW t \in Promotions, Inv, RollbackPromotion(t)
  PROVE  Inv'
<1>1. CASE journal[t].state # "pending"
  BY <1>1, UnchangedKeepsInv DEF RollbackPromotion, lvars
<1>2. CASE journal[t].state = "pending"
  <2>1. /\ missions' = missions /\ attempts' = attempts
        /\ CloseTxn(t, "rolled_back")
    BY <1>2 DEF RollbackPromotion
  <2>2. /\ journal' \in [Promotions -> TxnRow]
        /\ \A u \in Promotions :
             /\ journal'[u].state = IF u = t THEN "rolled_back" ELSE journal[u].state
             /\ journal'[u].attempt = journal[u].attempt
             /\ journal'[u].reviewer = journal[u].reviewer
             /\ journal'[u].shipper = journal[u].shipper
    BY <2>1, CloseFields
  <2>3. LTypeOK'
    BY <2>1, <2>2 DEF Inv, LTypeOK, Made
  <2>4. CapacityKept' /\ BusyHasAttempt' /\ ApprovedIsPromoted'
    BY <2>1 DEF Inv, CapacityKept, Occupied, BusyHasAttempt, ApprovedIsPromoted, IsActive
  <2>5. JournalShape'
    BY <2>1, <2>2 DEF Inv, JournalShape
  <2>6. PromotedOnEvidence'
    BY <1>2, <2>1, <2>2, KeepsEarned
  <2> QED
    BY <2>3, <2>4, <2>5, <2>6 DEF Inv
<1> QED
  BY <1>1, <1>2

-----------------------------------------------------------------------------
(* The promotion writes one row of each table. *)

LEMMA FinalizeKeepsInv ==
  ASSUME NEW t \in Promotions, Inv, FinalizePromotion(t)
  PROVE  Inv'
<1> DEFINE a == journal[t].attempt
           m == a[1]
           names == <<journal[t].reviewer, journal[t].shipper>>
<1>1. /\ journal[t].state = "pending"
      /\ missions[m].active = a /\ missions[m].state = "passed"
  BY DEF FinalizePromotion, CanFinalize, IsActive
<1>2. /\ a \in Attempts /\ m \in Missions
      /\ Distinct(journal[t].reviewer, journal[t].shipper)
      /\ attempts[a].provenance = "passed"
  BY <1>1 DEF Inv, JournalShape, Attempts
<1>3. /\ missions \in [Missions -> MissionRow]
      /\ attempts \in [Attempts -> AttemptRow]
      /\ journal \in [Promotions -> TxnRow]
  BY DEF Inv, LTypeOK
<1>4. /\ missions' = [missions EXCEPT ![m] = [missions[m] EXCEPT !.state = "promoted"]]
      /\ attempts' = [attempts EXCEPT ![a] = [attempts[a] EXCEPT !.approvals = names]]
      /\ CloseTxn(t, "completed")
  BY DEF FinalizePromotion, SetState
<1>5. /\ journal' \in [Promotions -> TxnRow]
      /\ \A u \in Promotions :
           /\ journal'[u].state = IF u = t THEN "completed" ELSE journal[u].state
           /\ journal'[u].attempt = journal[u].attempt
           /\ journal'[u].reviewer = journal[u].reviewer
           /\ journal'[u].shipper = journal[u].shipper
  BY <1>4, CloseFields
<1>6. /\ missions' \in [Missions -> MissionRow]
      /\ \A n \in Missions :
           /\ missions'[n].state = IF n = m THEN "promoted" ELSE missions[n].state
           /\ missions'[n].active = missions[n].active
           /\ missions'[n].ordinals = missions[n].ordinals
  <2>1. [missions[m] EXCEPT !.state = "promoted"] \in MissionRow
    BY <1>2, <1>3 DEF MissionRow, States, Legal
  <2>2. \A n \in Missions : missions'[n] =
          IF n = m THEN [missions[m] EXCEPT !.state = "promoted"] ELSE missions[n]
    BY <1>3, <1>4
  <2> QED
    BY <1>2, <1>3, <1>4, <2>1, <2>2 DEF MissionRow
<1>7. /\ attempts' \in [Attempts -> AttemptRow]
      /\ \A b \in Attempts :
           /\ attempts'[b].approvals = IF b = a THEN names ELSE attempts[b].approvals
           /\ attempts'[b].provenance = attempts[b].provenance
  <2>1. names \in Actors \X Actors
    BY <1>1 DEF Inv, JournalShape
  <2> HIDE DEF names
  <2>2. [attempts[a] EXCEPT !.approvals = names] \in AttemptRow
    BY <1>2, <1>3, <2>1 DEF AttemptRow
  <2>3. \A b \in Attempts : attempts'[b] =
          IF b = a THEN [attempts[a] EXCEPT !.approvals = names] ELSE attempts[b]
    BY <1>3, <1>4
  <2> QED
    BY <1>2, <1>3, <1>4, <2>2, <2>3 DEF AttemptRow
<1> HIDE DEF a, m, names
<1>8. LTypeOK'
  BY <1>5, <1>6, <1>7 DEF Inv, LTypeOK, Made
<1>9. CapacityKept'
  <2>1. Occupied' = Occupied
    BY <1>1, <1>6 DEF Occupied, Busy
  <2> QED
    BY <2>1 DEF Inv, CapacityKept
<1>10. BusyHasAttempt'
  BY <1>1, <1>6 DEF Inv, BusyHasAttempt
<1>11. JournalShape'
  BY <1>1, <1>5, <1>7 DEF Inv, JournalShape
<1>12. ApprovedIsPromoted'
  <2> SUFFICES ASSUME NEW b \in Attempts, attempts'[b].approvals # NULL
               PROVE  missions'[b[1]].active = b /\ missions'[b[1]].state = "promoted"
    BY DEF ApprovedIsPromoted, IsActive
  <2>1. b[1] \in Missions
    BY DEF Attempts
  <2>2. CASE b = a
    BY <1>1, <1>2, <1>6, <2>1, <2>2 DEF m, a
  <2>3. CASE b # a
    <3>1. missions[b[1]].active = b /\ missions[b[1]].state = "promoted"
      BY <1>7, <2>3 DEF Inv, ApprovedIsPromoted, IsActive
    <3> QED
      BY <1>1, <1>6, <2>1, <3>1
  <2> QED
    BY <2>2, <2>3
<1>13. PromotedOnEvidence'
  <2> SUFFICES ASSUME NEW n \in Missions, missions'[n].state = "promoted"
               PROVE  LET b == missions'[n].active IN
                      /\ attempts'[b].provenance = "passed"
                      /\ \E u \in Promotions :
                           /\ journal'[u].state = "completed"
                           /\ journal'[u].attempt = b
                           /\ attempts'[b].approvals =
                                <<journal'[u].reviewer, journal'[u].shipper>>
                           /\ Distinct(journal'[u].reviewer, journal'[u].shipper)
    BY DEF PromotedOnEvidence
  <2>1. CASE n = m
    BY <1>1, <1>2, <1>5, <1>6, <1>7, <2>1 DEF names, a
  <2>2. CASE n # m
    <3> DEFINE b == missions[n].active
    <3>1. missions[n].state = "promoted" /\ missions'[n].active = b
      BY <1>6, <2>2
    <3>2. b \in Attempts /\ b[1] = n
      BY <3>1 DEF Inv, LTypeOK, MissionRow, BusyHasAttempt
    <3>3. b # a
      BY <2>2, <3>2 DEF m
    <3>4. /\ attempts'[b].approvals = attempts[b].approvals
          /\ attempts'[b].provenance = attempts[b].provenance
      BY <1>7, <3>2, <3>3
    <3>5. PICK u \in Promotions :
            /\ attempts[b].provenance = "passed"
            /\ journal[u].state = "completed"
            /\ journal[u].attempt = b
            /\ attempts[b].approvals = <<journal[u].reviewer, journal[u].shipper>>
            /\ Distinct(journal[u].reviewer, journal[u].shipper)
      BY <3>1 DEF Inv, PromotedOnEvidence
    <3>6. journal'[u].state = "completed"
      BY <1>5, <3>5
    <3> QED
      BY <1>5, <3>1, <3>4, <3>5, <3>6
  <2> QED
    BY <2>1, <2>2
<1> QED
  BY <1>8, <1>9, <1>10, <1>11, <1>12, <1>13 DEF Inv

-----------------------------------------------------------------------------
LEMMA AttemptStepKeepsInv ==
  ASSUME NEW a \in Attempts, Inv, AttemptStep(a)
  PROVE  Inv'
<1>1. attempts[a] \in AttemptRow /\ a[1] \in Missions
  BY DEF Inv, LTypeOK, Attempts
<1>2. CASE ClaimEvaluation(a)
  <2> DEFINE row == [attempts[a] EXCEPT !.evaluated = TRUE]
  <2>1. /\ attempts' = [attempts EXCEPT ![a] = row]
        /\ UNCHANGED <<missions, journal>>
    BY <1>2 DEF ClaimEvaluation
  <2>2. /\ row \in AttemptRow /\ row.approvals = attempts[a].approvals
        /\ row.provenance = attempts[a].provenance
    BY <1>1 DEF AttemptRow
  <2> HIDE DEF row
  <2> QED
    BY <2>1, <2>2, AttemptRowWrites, EvidenceKeepsInv
<1>3. CASE FailActive(a)
  <2> missions[a[1]].state \in States
    BY <1>1 DEF Inv, LTypeOK, MissionRow
  <2>1. CASE IsActive(a) /\ missions[a[1]].state \in Busy
    <3>1. SetState(a[1], "failed") /\ UNCHANGED <<attempts, journal>>
      BY <1>3, <2>1 DEF FailActive, SetState
    <3> QED
      BY <1>1, <2>1, <3>1, SetStateWrites, WriteKeepsInv DEF Busy, States, Legal
  <2>2. CASE ~(IsActive(a) /\ missions[a[1]].state \in Busy)
    BY <1>3, <2>2, UnchangedKeepsInv DEF FailActive, lvars
  <2> QED
    BY <2>1, <2>2
<1>4. ASSUME NEW w \in Workers, NEW phase \in {"train", "eval"}, RegisterProcess(a, phase, w)
      PROVE  Inv'
  <2> DEFINE row == [attempts[a] EXCEPT !.process = w]
  <2>1. /\ attempts' = [attempts EXCEPT ![a] = row]
        /\ UNCHANGED <<missions, journal>>
    BY <1>4 DEF RegisterProcess
  <2>2. /\ row \in AttemptRow /\ row.approvals = attempts[a].approvals
        /\ row.provenance = attempts[a].provenance
    BY <1>1 DEF AttemptRow
  <2> HIDE DEF row
  <2> QED
    BY <2>1, <2>2, AttemptRowWrites, EvidenceKeepsInv
<1>5. ASSUME NEW w \in Workers, ClearProcess(a, w)
      PROVE  Inv'
  <2>1. CASE attempts[a].process = w
    <3> DEFINE row == [attempts[a] EXCEPT !.process = NULL]
    <3>1. /\ attempts' = [attempts EXCEPT ![a] = row]
          /\ UNCHANGED <<missions, journal>>
      BY <1>5, <2>1 DEF ClearProcess
    <3>2. /\ row \in AttemptRow /\ row.approvals = attempts[a].approvals
          /\ row.provenance = attempts[a].provenance
      BY <1>1 DEF AttemptRow
    <3> HIDE DEF row
    <3> QED
      BY <3>1, <3>2, AttemptRowWrites, EvidenceKeepsInv
  <2>2. CASE attempts[a].process # w
    BY <1>5, <2>2, UnchangedKeepsInv DEF ClearProcess, lvars
  <2> QED
    BY <2>1, <2>2
<1>6. ASSUME NEW v \in Verdicts, AddProvenance(a, v)
      PROVE  Inv'
  <2> DEFINE row == [attempts[a] EXCEPT !.provenance = v]
  <2>1. /\ attempts' = [attempts EXCEPT ![a] = row]
        /\ attempts[a].provenance = NULL
        /\ UNCHANGED <<missions, journal>>
    BY <1>6 DEF AddProvenance, CanAddProvenance
  <2>2. row \in AttemptRow /\ row.approvals = attempts[a].approvals
    BY <1>1 DEF AttemptRow
  <2> HIDE DEF row
  <2> QED
    BY <2>1, <2>2, AttemptRowWrites, EvidenceKeepsInv
<1>7. ASSUME NEW t \in Promotions, NEW r \in Actors, NEW s \in Actors,
             attempts[a].provenance = "passed", BeginPromotion(t, a, r, s)
      PROVE  Inv'
  BY <1>7, BeginKeepsInv
<1> QED
  BY <1>2, <1>3, <1>4, <1>5, <1>6, <1>7 DEF AttemptStep

LEMMA StepInv == Inv /\ [LNext]_lvars => Inv'
<1> SUFFICES ASSUME Inv, [LNext]_lvars PROVE Inv'
  OBVIOUS
<1>1. CASE UNCHANGED lvars
  BY <1>1, UnchangedKeepsInv
<1>2. ASSUME NEW m \in Missions, MissionStep(m) PROVE Inv'
  BY <1>2, MissionStepWrites, WriteKeepsInv
<1>3. ASSUME NEW a \in Attempts, AttemptStep(a) PROVE Inv'
  BY <1>3, AttemptStepKeepsInv
<1>4. ASSUME NEW t \in Promotions, RollbackPromotion(t) PROVE Inv'
  BY <1>4, RollbackKeepsInv
<1>5. ASSUME NEW t \in Promotions, FinalizePromotion(t) PROVE Inv'
  BY <1>5, FinalizeKeepsInv
<1> QED
  BY <1>1, <1>2, <1>3, <1>4, <1>5 DEF LNext

LEMMA LedgerInvariant == LSpec => []Inv
  BY InitInv, StepInv, PTL DEF LSpec

(* Whatever the commands do and in whatever order, the tables stay well    *)
(* formed and an attempt id is used only after its row exists.             *)
THEOREM LedgerTypeCorrect == LSpec => []LTypeOK
  BY LedgerInvariant, PTL DEF Inv

(* claim() counts once, when a mission starts; the limit of every mission  *)
(* that runs holds ever after, for any number of missions and any limits.  *)
THEOREM CapacityHolds == LSpec => []CapacityKept
  BY LedgerInvariant, PTL DEF Inv

(* The promotion rules of the ledger: two distinct people, the evidence of *)
(* the active attempt, and the journal entry that announced them.          *)
THEOREM PromotionsAreEarned == LSpec => []PromotedOnEvidence
  BY LedgerInvariant, PTL DEF Inv

(* No approval is left from an entry that did not promote.                 *)
THEOREM ApprovalsArePromotions == LSpec => []ApprovedIsPromoted
  BY LedgerInvariant, PTL DEF Inv

-----------------------------------------------------------------------------
(* What no step does *)

LEMMA EvidenceStaysKept == Inv /\ [LNext]_lvars => EvidenceKept
<1> SUFFICES ASSUME Inv, [LNext]_lvars PROVE EvidenceKept
  OBVIOUS
<1>1. attempts \in [Attempts -> AttemptRow]
  BY DEF Inv, LTypeOK
<1>2. CASE attempts' = attempts
  BY <1>2 DEF EvidenceKept
<1>3. ASSUME NEW a \in Attempts, AttemptStep(a), attempts' # attempts
      PROVE  EvidenceKept
  <2>1. CASE ClaimEvaluation(a)
    BY <1>1, <2>1 DEF ClaimEvaluation, AttemptRow, EvidenceKept
  <2>2. ASSUME NEW w \in Workers, NEW phase \in {"train", "eval"}, RegisterProcess(a, phase, w)
        PROVE  EvidenceKept
    BY <1>1, <2>2 DEF RegisterProcess, AttemptRow, EvidenceKept
  <2>3. ASSUME NEW w \in Workers, ClearProcess(a, w)
        PROVE  EvidenceKept
    BY <1>1, <2>3 DEF ClearProcess, AttemptRow, EvidenceKept
  <2>4. ASSUME NEW v \in Verdicts, AddProvenance(a, v)
        PROVE  EvidenceKept
    BY <1>1, <2>4 DEF AddProvenance, CanAddProvenance, AttemptRow, EvidenceKept
  <2> QED
    BY <1>3, <2>1, <2>2, <2>3, <2>4 DEF AttemptStep, FailActive, BeginPromotion
<1>4. ASSUME NEW t \in Promotions, FinalizePromotion(t)
      PROVE  EvidenceKept
  BY <1>1, <1>4 DEF FinalizePromotion, CanFinalize, AttemptRow, EvidenceKept
<1>5. ASSUME NEW m \in Missions, MissionStep(m)
      PROVE  attempts' = attempts
  BY <1>5 DEF MissionStep, Propose, Transition, Claim, Resume, Cancel
<1> QED
  BY <1>2, <1>3, <1>4, <1>5 DEF LNext, lvars, RollbackPromotion

(* The verdict, the claim of the evaluation and the approvals of an        *)
(* attempt are written once: each method looks whether they are there.     *)
THEOREM EvidenceIsAppendOnly == LSpec => EvidenceAppendOnly
<1>1. Inv /\ [LNext]_lvars => [EvidenceKept]_lvars
  BY EvidenceStaysKept
<1> QED
  BY <1>1, LedgerInvariant, PTL DEF LSpec, EvidenceAppendOnly

(* resume() is the only way out of a failed, rejected or cancelled         *)
(* mission, and it leads to an attempt that nobody has run.                *)
THEOREM ResumesAreFresh == LSpec => ResumeIsFresh
<1> DEFINE Fresh == \A m \in Missions :
             /\ missions[m].state \in {"failed", "rejected", "cancelled"}
             /\ missions'[m].state \notin {"failed", "rejected", "cancelled"}
             => /\ missions'[m].state = "ready"
                /\ missions'[m].active # NULL /\ ~Made(missions'[m].active)
<1>1. Inv /\ [LNext]_lvars => Fresh
  <2> SUFFICES ASSUME Inv, [LNext]_lvars, NEW n \in Missions,
                      missions[n].state \in {"failed", "rejected", "cancelled"},
                      missions'[n].state \notin {"failed", "rejected", "cancelled"}
               PROVE  /\ missions'[n].state = "ready"
                      /\ missions'[n].active # NULL /\ ~Made(missions'[n].active)
    OBVIOUS
  <2>1. missions \in [Missions -> MissionRow] /\ missions' # missions
    BY DEF Inv, LTypeOK
  <2>2. ASSUME NEW m \in Missions, NEW st, st \in Legal[missions[m].state], SetState(m, st)
        PROVE  FALSE
    <3>1. missions'[n].state = IF n = m THEN st ELSE missions[n].state
      BY <2>1, <2>2 DEF SetState, MissionRow
    <3> QED BY <2>2, <3>1 DEF Legal
  <2>3. ASSUME NEW a \in Attempts, FailActive(a)
        PROVE  FALSE
    <3>1. missions'[n].state \in {"failed", missions[n].state}
      BY <2>1, <2>3 DEF FailActive, MissionRow
    <3> QED BY <3>1
  <2>4. ASSUME NEW t \in Promotions, FinalizePromotion(t)
        PROVE  FALSE
    <3>1. /\ missions[journal[t].attempt[1]].state = "passed"
          /\ SetState(journal[t].attempt[1], "promoted")
      BY <2>4 DEF FinalizePromotion, CanFinalize
    <3>2. n # journal[t].attempt[1] /\ missions'[n] = missions[n]
      BY <2>1, <3>1 DEF SetState
    <3> QED BY <3>2
  <2>5. ASSUME NEW m \in Missions, MissionStep(m), ~Resume(m)
        PROVE  FALSE
    <3>1. missions[m].state \in {"absent", "ready"} => n # m
      OBVIOUS
    <3>2. CASE Propose(m) \/ Claim(m)
      BY <2>1, <3>1, <3>2 DEF Propose, Claim, SetState
    <3> QED BY <2>2, <2>5, <3>2 DEF MissionStep, Transition, CanTransition, Cancel
  <2>6. PICK m \in Missions : Resume(m)
    BY <2>1, <2>3, <2>4, <2>5
    DEF LNext, lvars, AttemptStep, ClaimEvaluation, RegisterProcess, ClearProcess,
        AddProvenance, BeginPromotion, RollbackPromotion
  <2>7. /\ n = m
        /\ missions'[n].state = "ready"
        /\ missions'[n].active = <<n, missions[n].ordinals + 1>>
        /\ missions[n].ordinals \in 0..MaxAttempts /\ missions[n].ordinals < MaxAttempts
    BY <2>1, <2>6 DEF Resume, MissionRow
  <2>8. <<n, missions[n].ordinals + 1>> \in Attempts
    BY <2>7 DEF Attempts
  <2> QED BY <2>7, <2>8 DEF Made
<1>2. Inv /\ [LNext]_lvars => [Fresh]_lvars
  BY <1>1
<1> QED
  BY <1>2, LedgerInvariant, PTL DEF LSpec, ResumeIsFresh
=============================================================================
