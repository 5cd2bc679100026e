----------------------- MODULE ExperimentQueueProofs -----------------------
(***************************************************************************)
(* Proofs about ExperimentQueue, for any runners, names, jobs, time to     *)
(* live and waiting times: when the callers of claim() are Informed, the   *)
(* GPU is used by one job at a time.                                       *)
(*                                                                         *)
(* UserHoldsLease alone is not inductive.  A call that waits for the file  *)
(* lock judges the lease by an old clock and an older list of runners, and *)
(* a runner that came back since then is not on that list.                 *)
(* NewcomerIsYoung says why it is spared all the same: whatever the        *)
(* newcomer wrote into the lease, it wrote by a clock no older than the    *)
(* waiting call's list, and that list is less than a lease older than the  *)
(* clock it judges by.                                                     *)
(***************************************************************************)
EXTENDS ExperimentQueue, TLAPS

Ops == {"none", "look", "acquire", "heartbeat", "release", "record"}
CallType == [op : Ops, who : AllOwners \cup {NULL}, job : Jobs \cup {NULL}, lag : Nat,
             live : SUBSET AllOwners, outcome : Outcomes \cup {NULL}]

(* The variables have their types. *)
QTypeOK ==
  /\ alive \in SUBSET Procs
  /\ status \in [Procs -> [Jobs -> Statuses]]
  /\ owner \in [Procs -> [Jobs -> AllOwners \cup {NULL}]]
  /\ lease \in [owner : AllOwners \cup {NULL}, left : Int,
                for : (Procs \X Jobs) \cup {NULL}]
  /\ call \in [Procs -> CallType]

(* Nothing of a process survives it but the lease. *)
DeadIsBlank ==
  \A p \in Procs : p \notin alive =>
    /\ call[p].op = "none"
    /\ \A j \in Jobs : status[p][j] = "absent"

(* The two steps of a claim, and how old its list of runners is at most. *)
Claiming == {"look", "acquire"}
Age(c) == IF c.op = "look" THEN c.lag ELSE c.lag + (Ttl - 1)

(* No caller pauses for longer than MaxPause before it reads the clock. *)
PauseIsBounded == \A p \in Procs : call[p].op = "look" => call[p].lag <= MaxPause

(* A call is about a GPU job of its process, under a name of it. *)
CallShape ==
  \A p \in Procs :
    /\ call[p].op \in {"look", "acquire", "release", "record"} =>
         call[p].job \in Jobs /\ ResourceOf[p][call[p].job] = "gpu"
    /\ call[p].op # "none" => call[p].who \in OwnersOf[p]
    /\ call[p].op \in Claiming => OwnersOf[p] \subseteq call[p].live
    /\ call[p].op \in {"release", "record"} =>
         /\ status[p][call[p].job] \in Claimed
         /\ call[p].outcome \in Outcomes
    /\ call[p].op = "release" => owner[p][call[p].job] = call[p].who

(* A process that came to life after the call of q looked who is alive     *)
(* read the clock after that, in its calls and in the lease it uses.       *)
NewcomerIsYoung ==
  \A p, q \in Procs :
    /\ call[q].op \in Claiming
    /\ p \in alive /\ ~(OwnersOf[p] \subseteq call[q].live)
    => /\ call[p].op \in {"acquire", "heartbeat"} => call[p].lag <= Age(call[q])
       /\ \A j \in Jobs : <<p, j>> \in Using => lease.left + Age(call[q]) >= Ttl

QInv == QTypeOK /\ DeadIsBlank /\ PauseIsBounded /\ CallShape /\ UserHoldsLease /\ NewcomerIsYoung

-----------------------------------------------------------------------------
(* Lemmas about the jobs that use the GPU and about what leaves them alone *)

(* Who uses the GPU, now and after the step. *)
LEMMA UsingIs ==
  ASSUME NEW p \in Procs, NEW j \in Jobs
  PROVE  /\ <<p, j>> \in Using <=> /\ ResourceOf[p][j] = "gpu"
                                  /\ status[p][j] \in Claimed
                                  /\ ~(call[p].op = "record" /\ call[p].job = j)
         /\ <<p, j>> \in Using' <=> /\ ResourceOf[p][j] = "gpu"
                                   /\ status'[p][j] \in Claimed
                                   /\ ~(call'[p].op = "record" /\ call'[p].job = j)
  BY DEF Using, Releasing

(* A step that takes the lease from nobody and gives the GPU to nobody     *)
(* keeps every user's lease.                                               *)
LEMMA KeepsLease ==
  ASSUME UserHoldsLease, lease' = lease,
         \A p \in Procs, j \in Jobs :
           <<p, j>> \in Using' => <<p, j>> \in Using /\ owner'[p][j] = owner[p][j]
  PROVE  UserHoldsLease'
  BY DEF UserHoldsLease

(* How old the list of a claim is. *)
LEMMA AgeIs ==
  ASSUME NEW c \in CallType
  PROVE  Age(c) \in Nat /\ c.lag \in Nat
  BY BoundsAssumption DEF Age, CallType

(* A call that begins is younger than those that wait, and knows everybody *)
(* who is alive.                                                           *)
LEMMA KeepsYoung ==
  ASSUME QTypeOK, NewcomerIsYoung, alive' \subseteq alive,
         \A p \in Procs, j \in Jobs :
           <<p, j>> \in Using' => <<p, j>> \in Using /\ lease' = lease,
         \A p \in Procs :
           \/ call'[p] = call[p]
           \/ /\ call'[p].op \in {"acquire", "heartbeat"} => call'[p].lag = 0
              /\ call'[p].op \in Claiming =>
                   \A q \in alive' : OwnersOf[q] \subseteq call'[p].live
  PROVE  NewcomerIsYoung'
<1> SUFFICES ASSUME NEW p \in Procs, NEW q \in Procs,
                    call'[q].op \in Claiming,
                    p \in alive', ~(OwnersOf[p] \subseteq call'[q].live)
             PROVE  /\ call'[p].op \in {"acquire", "heartbeat"} => call'[p].lag <= Age(call'[q])
                    /\ \A j \in Jobs : <<p, j>> \in Using' => lease'.left + Age(call'[q]) >= Ttl
  BY DEF NewcomerIsYoung
<1>1. call'[q] = call[q]
  OBVIOUS
<1>2. /\ call[p].op \in {"acquire", "heartbeat"} => call[p].lag <= Age(call[q])
      /\ \A j \in Jobs : <<p, j>> \in Using => lease.left + Age(call[q]) >= Ttl
  BY <1>1 DEF NewcomerIsYoung
<1>3. Age(call[q]) >= 0
  BY AgeIs DEF QTypeOK
<1> QED BY <1>1, <1>2, <1>3

(* The calls have their type. *)
LEMMA NoCallTyped == NoCall \in CallType /\ NoCall.op = "none"
  BY DEF NoCall, CallType, Ops

LEMMA CallsTyped ==
  \A op \in Ops, o \in AllOwners, j \in Jobs \cup {NULL} :
     /\ Calls(op, o, j) \in CallType
     /\ Calls(op, o, j).op = op /\ Calls(op, o, j).who = o
     /\ Calls(op, o, j).job = j /\ Calls(op, o, j).lag = 0
  BY DEF NoCall, Calls, CallType, Ops

(* A name of a process is a name. *)
LEMMA NamesAre ==
  /\ \A p \in Procs : OwnersOf[p] \subseteq AllOwners
  /\ \A p, q \in Procs : p # q => OwnersOf[p] \cap OwnersOf[q] = {}
  /\ NULL \notin AllOwners
  BY NamesAssumption DEF AllOwners

-----------------------------------------------------------------------------
(* Each step keeps the invariant                                           *)

LEMMA InitQInv == Init => QInv
<1> SUFFICES ASSUME Init PROVE QInv
  OBVIOUS
<1>1. QTypeOK
  BY NoCallTyped DEF Init, QTypeOK, Statuses, NoLease
<1>2. DeadIsBlank /\ CallShape /\ PauseIsBounded
  BY NoCallTyped DEF Init, DeadIsBlank, CallShape, Claiming, PauseIsBounded
<1>3. \A p \in Procs, j \in Jobs : <<p, j>> \notin Using
  BY UsingIs DEF Init, Claimed
<1>4. UserHoldsLease
  BY <1>3 DEF UserHoldsLease
<1>5. NewcomerIsYoung
  BY NoCallTyped DEF Init, NewcomerIsYoung, Claiming
<1> QED BY <1>1, <1>2, <1>4, <1>5 DEF QInv

(* Steps that touch neither the lease nor the calls. *)
LEMMA LocalKeeps ==
  ASSUME QInv, NEW p \in Procs, NEW j \in Jobs,
         \/ Submit(p, j) \/ Start(p, j)
         \/ \E o \in OwnersOf[p], r \in Resources : ClaimPooled(p, o, r, j)
         \/ \E o \in OwnersOf[p], out \in Outcomes : FinishPooled(p, o, j, out)
  PROVE  QInv' /\ Using' = Using
<1> USE DEF QInv
<1>1. /\ p \in alive /\ call[p].op = "none"
      /\ UNCHANGED <<alive, lease, call>>
      /\ \E s \in Statuses : status' = [status EXCEPT ![p][j] = s]
      /\ ResourceOf[p][j] = "gpu" => (status'[p][j] \in Claimed <=> status[p][j] \in Claimed)
      /\ \/ owner' = owner
         \/ /\ \E o \in OwnersOf[p] : owner' = [owner EXCEPT ![p][j] = o]
            /\ ResourceOf[p][j] # "gpu"
  <2>1. CASE Submit(p, j)
    BY <2>1 DEF Submit, Ready, Claimed, Statuses, QTypeOK
  <2>2. CASE Start(p, j)
    BY <2>2 DEF Start, Ready, Claimed, Statuses, QTypeOK
  <2>3. CASE \E o \in OwnersOf[p], r \in Resources : ClaimPooled(p, o, r, j)
    BY <2>3 DEF ClaimPooled, Ready, Pooled, Claimed, Statuses, QTypeOK
  <2>4. CASE \E o \in OwnersOf[p], out \in Outcomes : FinishPooled(p, o, j, out)
    BY <2>4 DEF FinishPooled, MayFinish, Ready, Pooled, Claimed, Statuses, Outcomes, QTypeOK
  <2> QED BY <2>1, <2>2, <2>3, <2>4
<1>2. QTypeOK'
  <2>1. status' \in [Procs -> [Jobs -> Statuses]]
    BY <1>1 DEF QTypeOK
  <2>2. owner' \in [Procs -> [Jobs -> AllOwners \cup {NULL}]]
    <3>1. CASE owner' = owner
      BY <3>1 DEF QTypeOK
    <3>2. CASE \E o \in OwnersOf[p] : owner' = [owner EXCEPT ![p][j] = o]
      <4>1. PICK o \in OwnersOf[p] : owner' = [owner EXCEPT ![p][j] = o]
        BY <3>2
      <4>2. o \in AllOwners
        BY NamesAre
      <4> QED BY <4>1, <4>2 DEF QTypeOK
    <3> QED BY <1>1, <3>1, <3>2
  <2> QED BY <1>1, <2>1, <2>2 DEF QTypeOK
<1>3. DeadIsBlank' /\ PauseIsBounded'
  BY <1>1 DEF DeadIsBlank, PauseIsBounded, QTypeOK
<1>4. CallShape'
  BY <1>1 DEF CallShape, QTypeOK
<1>5. \A q \in Procs, i \in Jobs :
        /\ <<q, i>> \in Using' <=> <<q, i>> \in Using
        /\ <<q, i>> \in Using => owner'[q][i] = owner[q][i]
  <2> SUFFICES ASSUME NEW q \in Procs, NEW i \in Jobs
               PROVE  /\ <<q, i>> \in Using' <=> <<q, i>> \in Using
                      /\ <<q, i>> \in Using => owner'[q][i] = owner[q][i]
    OBVIOUS
  <2>1. ResourceOf[q][i] = "gpu" => (status'[q][i] \in Claimed <=> status[q][i] \in Claimed)
    BY <1>1 DEF QTypeOK
  <2>2. ResourceOf[q][i] = "gpu" => owner'[q][i] = owner[q][i]
    BY <1>1 DEF QTypeOK
  <2> QED BY <1>1, <2>1, <2>2, UsingIs
<1>6. UserHoldsLease'
  BY <1>1, <1>5, KeepsLease
<1>7. NewcomerIsYoung'
  BY <1>1, <1>5, KeepsYoung
<1>8. Using' = Using
  BY <1>5 DEF Using
<1> QED BY <1>2, <1>3, <1>4, <1>6, <1>7, <1>8

(* Steps that begin a call. *)
LEMMA CallKeeps ==
  ASSUME QInv, Informed, NEW p \in Procs,
         \/ HeartbeatGpu(p)
         \/ \E j \in Jobs, o \in OwnersOf[p], r \in Resources : ClaimGpu(p, o, r, j)
         \/ \E j \in Jobs, o \in OwnersOf[p], out \in Outcomes : FinishGpu(p, o, j, out)
  PROVE  QInv' /\ Using' = Using
<1> USE DEF QInv
<1> DEFINE c == call'[p]
<1>1. /\ p \in alive /\ call[p].op = "none"
      /\ UNCHANGED <<alive, status, owner, lease>>
  <2>1. CASE HeartbeatGpu(p)
    BY <2>1 DEF HeartbeatGpu, Ready
  <2>2. CASE \E j \in Jobs, o \in OwnersOf[p], r \in Resources : ClaimGpu(p, o, r, j)
    BY <2>2 DEF ClaimGpu, Ready
  <2>3. CASE \E j \in Jobs, o \in OwnersOf[p], out \in Outcomes : FinishGpu(p, o, j, out)
    BY <2>3 DEF FinishGpu, MayFinish, Ready
  <2> QED BY <2>1, <2>2, <2>3
<1>2. /\ call' = [call EXCEPT ![p] = c]
      /\ c \in CallType /\ c.op \in {"look", "heartbeat", "release"}
      /\ c.who \in OwnersOf[p] /\ c.lag = 0
      /\ c.op \in {"look", "release"} => c.job \in Jobs /\ ResourceOf[p][c.job] = "gpu"
      /\ c.op = "look" => \A q \in alive : OwnersOf[q] \subseteq c.live
      /\ c.op = "release" => /\ status[p][c.job] \in Claimed
                             /\ owner[p][c.job] = c.who
                             /\ c.outcome \in Outcomes
  <2>1. CASE HeartbeatGpu(p)
    BY <2>1, CallsTyped, NamesAre DEF HeartbeatGpu, Ops, QTypeOK
  <2>2. CASE \E j \in Jobs, o \in OwnersOf[p], r \in Resources : ClaimGpu(p, o, r, j)
    <3>1. PICK j \in Jobs, o \in OwnersOf[p], r \in Resources : ClaimGpu(p, o, r, j)
      BY <2>2
    <3>2. c = [Calls("look", o, j) EXCEPT !.live = LiveRunners]
      BY <3>1 DEF ClaimGpu, QTypeOK
    <3>3. LiveRunners \in SUBSET AllOwners /\ \A q \in alive : OwnersOf[q] \subseteq LiveRunners
      BY DEF LiveRunners, Informed, AllOwners, QTypeOK
    <3>4. o \in AllOwners
      BY NamesAre
    <3>5. /\ c \in CallType /\ c.op = "look" /\ c.who = o /\ c.job = j /\ c.lag = 0
          /\ c.live = LiveRunners
      <4> DEFINE d == Calls("look", o, j)
      <4>1. d \in CallType /\ d.op = "look" /\ d.who = o /\ d.job = j /\ d.lag = 0
        BY <3>4, CallsTyped DEF Ops
      <4>2. c = [d EXCEPT !.live = LiveRunners]
        BY <3>2
      <4> HIDE DEF d
      <4> QED BY <3>3, <4>1, <4>2 DEF CallType
    <3> QED BY <3>1, <3>3, <3>5 DEF ClaimGpu, QTypeOK
  <2>3. CASE \E j \in Jobs, o \in OwnersOf[p], out \in Outcomes : FinishGpu(p, o, j, out)
    <3>1. PICK j \in Jobs, o \in OwnersOf[p], out \in Outcomes : FinishGpu(p, o, j, out)
      BY <2>3
    <3>2. c = [Calls("release", o, j) EXCEPT !.outcome = out]
      BY <3>1 DEF FinishGpu, QTypeOK
    <3>3. o \in AllOwners
      BY NamesAre
    <3>4. /\ c \in CallType /\ c.op = "release" /\ c.who = o /\ c.job = j /\ c.lag = 0
          /\ c.outcome = out
      <4> DEFINE d == Calls("release", o, j)
      <4>1. d \in CallType /\ d.op = "release" /\ d.who = o /\ d.job = j /\ d.lag = 0
        BY <3>3, CallsTyped DEF Ops
      <4>2. c = [d EXCEPT !.outcome = out]
        BY <3>2
      <4> HIDE DEF d
      <4> QED BY <4>1, <4>2 DEF CallType
    <3> QED BY <3>1, <3>4 DEF FinishGpu, MayFinish, QTypeOK
  <2> QED BY <2>1, <2>2, <2>3
<1> HIDE DEF c
<1>3. /\ call'[p] = c
      /\ \A q \in Procs : q # p => call'[q] = call[q]
  BY <1>2 DEF QTypeOK
<1>4. QTypeOK'
  BY <1>1, <1>2 DEF QTypeOK
<1>5. DeadIsBlank'
  BY <1>1, <1>3 DEF DeadIsBlank
<1>6. CallShape'
  BY <1>1, <1>2, <1>3 DEF CallShape, Claiming
<1>7. \A q \in Procs, i \in Jobs :
        /\ <<q, i>> \in Using' <=> <<q, i>> \in Using
        /\ <<q, i>> \in Using => owner'[q][i] = owner[q][i]
  BY <1>1, <1>2, <1>3, UsingIs
<1>8. UserHoldsLease'
  BY <1>1, <1>7, KeepsLease
<1>9. NewcomerIsYoung'
  <2>1. \A q \in Procs :
          \/ call'[q] = call[q]
          \/ /\ call'[q].op \in {"acquire", "heartbeat"} => call'[q].lag = 0
             /\ call'[q].op \in Claiming =>
                  \A x \in alive' : OwnersOf[x] \subseteq call'[q].live
    BY <1>1, <1>2, <1>3 DEF Claiming
  <2> QED BY <2>1, <1>1, <1>7, KeepsYoung
<1>10. Using' = Using
  BY <1>7 DEF Using
<1>11. PauseIsBounded'
  BY <1>2, <1>3, BoundsAssumption DEF PauseIsBounded
<1> QED BY <1>4, <1>5, <1>6, <1>8, <1>9, <1>10, <1>11

(* A claim reads the clock before its list of runners is a lease old. *)
LEMMA ReadClockKeeps ==
  ASSUME QInv, Informed, NEW p \in Procs, ReadClock(p)
  PROVE  QInv' /\ Using' = Using
<1> USE DEF QInv
<1>1. /\ call[p] \in CallType /\ call[p].op = "look" /\ call[p].lag <= MaxPause
      /\ UNCHANGED <<alive, status, owner, lease>>
  BY DEF ReadClock, QTypeOK, PauseIsBounded
<1>2. /\ call'[p] = [call[p] EXCEPT !.op = "acquire", !.lag = 0]
      /\ \A q \in Procs : q # p => call'[q] = call[q]
      /\ call' = [call EXCEPT ![p] = call'[p]]
  BY DEF ReadClock, QTypeOK
<1>3. /\ call'[p] \in CallType /\ call'[p].op = "acquire" /\ call'[p].lag = 0
      /\ call'[p].job = call[p].job /\ call'[p].who = call[p].who
      /\ call'[p].live = call[p].live
  <2> DEFINE c == call[p]
             d == [c EXCEPT !.op = "acquire", !.lag = 0]
  <2>1. c \in CallType /\ call'[p] = d
    BY <1>1, <1>2
  <2>2. /\ d \in CallType /\ d.op = "acquire" /\ d.lag = 0
        /\ d.job = c.job /\ d.who = c.who /\ d.live = c.live
    <3> HIDE DEF c
    <3> QED BY <2>1 DEF CallType, Ops
  <2> HIDE DEF d
  <2> QED BY <2>1, <2>2
<1>4. QTypeOK' /\ DeadIsBlank' /\ PauseIsBounded'
  <2>1. QTypeOK'
    BY <1>1, <1>2, <1>3 DEF QTypeOK
  <2>2. p \in alive
    BY <1>1 DEF DeadIsBlank
  <2>3. \A q \in Procs : q # p => call'[q] = call[q]
    BY <1>2
  <2>4. DeadIsBlank' /\ PauseIsBounded'
    BY <1>1, <1>3, <2>2, <2>3 DEF DeadIsBlank, PauseIsBounded
  <2> QED BY <2>1, <2>4
<1>5. CallShape'
  <2>1. \A q \in Procs : q # p => call'[q] = call[q]
    BY <1>2
  <2> QED BY <1>1, <1>3, <2>1 DEF CallShape, Claiming
<1>6. \A q \in Procs, j \in Jobs : <<q, j>> \in Using' <=> <<q, j>> \in Using
  <2>1. \A q \in Procs :
          call'[q] # call[q] => call'[q].op # "record" /\ call[q].op # "record"
    BY <1>1, <1>2, <1>3
  <2> QED BY <1>1, <2>1, UsingIs
<1>7. Using' = Using
  BY <1>6 DEF Using
<1>8. UserHoldsLease'
  BY <1>1, <1>6, KeepsLease
<1>9. ASSUME NEW q \in Procs
      PROVE  /\ call'[q].op \in Claiming => call[q].op \in Claiming
             /\ call'[q].live = call[q].live
             /\ call[q].op \in Claiming => Age(call[q]) <= Age(call'[q])
             /\ call'[q] = call[q] \/ call'[q].lag = 0
             /\ Age(call'[q]) \in Nat /\ Age(call[q]) \in Nat
  <2>1. Age(call[q]) \in Nat /\ Age(call'[q]) \in Nat
    BY <1>4, AgeIs DEF QTypeOK
  <2>2. CASE q # p
    BY <1>2, <2>1, <2>2
  <2>3. CASE q = p
    <3>1. Age(call[p]) = call[p].lag /\ Age(call'[p]) = Ttl - 1 /\ call[p].lag \in Nat
      BY <1>1, <1>3, BoundsAssumption DEF Age, CallType
    <3>2. Age(call[p]) <= Age(call'[p])
      BY <1>1, <3>1, BoundsAssumption DEF Informed
    <3> QED BY <1>1, <1>3, <2>1, <2>3, <3>2 DEF Claiming
  <2> QED BY <2>2, <2>3
<1>10. NewcomerIsYoung'
  <2> SUFFICES ASSUME NEW q \in Procs, NEW r \in Procs, call'[r].op \in Claiming,
                      q \in alive', ~(OwnersOf[q] \subseteq call'[r].live)
               PROVE  /\ call'[q].op \in {"acquire", "heartbeat"} => call'[q].lag <= Age(call'[r])
                      /\ \A j \in Jobs : <<q, j>> \in Using' => lease'.left + Age(call'[r]) >= Ttl
    BY DEF NewcomerIsYoung
  <2>1. /\ call[q].op \in {"acquire", "heartbeat"} => call[q].lag <= Age(call[r])
        /\ \A j \in Jobs : <<q, j>> \in Using => lease.left + Age(call[r]) >= Ttl
    BY <1>1, <1>9 DEF NewcomerIsYoung
  <2>2. call[r].op \in Claiming /\ Age(call[r]) <= Age(call'[r])
    BY <1>9
  <2>3. call[q].lag \in Nat /\ lease.left \in Int /\ Ttl \in Nat
    BY AgeIs, BoundsAssumption DEF QTypeOK
  <2> QED BY <1>1, <1>6, <1>9, <2>1, <2>2, <2>3
<1> QED BY <1>4, <1>5, <1>7, <1>8, <1>10

(* The four ends of a call. *)
LEMMA AcquireKeeps ==
  ASSUME QInv, NEW p \in Procs, Acquire(p)
  PROVE  /\ QInv'
         /\ Using' = Using \/ \E u \in Procs \X Jobs : Using = {} /\ Using' = {u}
<1> USE DEF QInv
<1> DEFINE c == call[p]
<1>1. /\ c \in CallType /\ c.op = "acquire" /\ c.job \in Jobs /\ c.who \in OwnersOf[p]
      /\ c.lag \in Nat /\ ResourceOf[p][c.job] = "gpu" /\ p \in alive
  BY DEF Acquire, QTypeOK, CallShape, DeadIsBlank, CallType
<1>2. /\ call' = [call EXCEPT ![p] = NoCall] /\ alive' = alive
      /\ call'[p] = NoCall
      /\ \A q \in Procs : q # p => call'[q] = call[q]
  BY DEF Acquire, QTypeOK
<1>3. CASE ~MayAcquire(c)
  <2>1. UNCHANGED <<lease, status, owner>>
    BY <1>3 DEF Acquire
  <2>2. QTypeOK'
    BY <1>2, <2>1, NoCallTyped DEF QTypeOK
  <2>3. DeadIsBlank' /\ CallShape' /\ PauseIsBounded'
    BY <1>2, <2>1, NoCallTyped DEF DeadIsBlank, CallShape, Claiming, PauseIsBounded
  <2>4. \A q \in Procs, i \in Jobs : <<q, i>> \in Using' <=> <<q, i>> \in Using
    <3>1. \A q \in Procs :
          call'[q] # call[q] => call'[q].op # "record" /\ call[q].op # "record"
      <4>1. call'[p].op = "none" /\ call[p].op = "acquire"
        BY <1>1, <1>2, NoCallTyped
      <4>2. \A q \in Procs : q # p => call'[q] = call[q]
        BY <1>2
      <4> QED BY <4>1, <4>2
    <3> QED BY <2>1, <3>1, UsingIs
  <2>5. UserHoldsLease'
    BY <2>1, <2>4, KeepsLease
  <2>6. NewcomerIsYoung'
    BY <1>2, <2>1, <2>4, KeepsYoung, NoCallTyped DEF Claiming
  <2>7. Using' = Using
    BY <2>4 DEF Using
  <2> QED BY <2>2, <2>3, <2>5, <2>6, <2>7
<1>4. CASE MayAcquire(c)
  <2> DEFINE u == <<p, c.job>>
  <2>1. /\ lease' = [owner |-> c.who, left |-> Ttl - c.lag, for |-> u]
        /\ status' = [status EXCEPT ![p][c.job] = "leased"]
        /\ owner' = [owner EXCEPT ![p][c.job] = c.who]
    BY <1>4 DEF Acquire
  <2>2. c.who \in AllOwners /\ Ttl - c.lag \in Int
    BY <1>1, NamesAre, BoundsAssumption
  <2>3. QTypeOK'
    <3>1. lease' \in [owner : AllOwners \cup {NULL}, left : Int,
                      for : (Procs \X Jobs) \cup {NULL}]
      BY <1>1, <2>1, <2>2
    <3>2. call' \in [Procs -> CallType] /\ alive' \in SUBSET Procs
      BY <1>2, NoCallTyped DEF QTypeOK
    <3>3. status' \in [Procs -> [Jobs -> Statuses]]
      BY <2>1, <1>1 DEF QTypeOK, Statuses, Claimed
    <3>4. owner' \in [Procs -> [Jobs -> AllOwners \cup {NULL}]]
      BY <2>1, <2>2, <1>1 DEF QTypeOK
    <3> QED BY <3>1, <3>2, <3>3, <3>4 DEF QTypeOK
  <2>4. DeadIsBlank'
    BY <1>1, <1>2, <2>1, NoCallTyped DEF DeadIsBlank, QTypeOK
  <2>5. CallShape' /\ PauseIsBounded'
    BY <1>1, <1>2, <2>1, NoCallTyped DEF CallShape, Claiming, QTypeOK, PauseIsBounded
  <2>6. \A q \in Procs, j \in Jobs : <<q, j>> \notin Using
    <3> SUFFICES ASSUME NEW q \in Procs, NEW j \in Jobs, <<q, j>> \in Using
                 PROVE  FALSE
      OBVIOUS
    <3>1. lease.owner = owner[q][j] /\ lease.owner \in OwnersOf[q] /\ lease.owner # NULL
      BY NamesAre DEF UserHoldsLease
    <3>2. lease.left + c.lag <= 0 /\ lease.owner \notin c.live
      BY <1>1, <1>4, <3>1 DEF MayAcquire, LeaseLive, QTypeOK
    <3>3. q \in alive
      BY UsingIs DEF DeadIsBlank, Claimed
    <3>4. ~(OwnersOf[q] \subseteq c.live)
      BY <3>1, <3>2
    <3>5. lease.left + (c.lag + (Ttl - 1)) >= Ttl
      BY <1>1, <3>3, <3>4 DEF NewcomerIsYoung, Claiming, Age
    <3> QED BY <1>1, <3>2, <3>5, BoundsAssumption DEF QTypeOK
  <2>7. \A q \in Procs, j \in Jobs : <<q, j>> \in Using' <=> q = p /\ j = c.job
    <3> SUFFICES ASSUME NEW q \in Procs, NEW j \in Jobs
                 PROVE  <<q, j>> \in Using' <=> q = p /\ j = c.job
      OBVIOUS
    <3>1. CASE q = p /\ j = c.job
      BY <3>1, <1>1, <1>2, <2>1, UsingIs, NoCallTyped DEF QTypeOK, Claimed
    <3>2. CASE ~(q = p /\ j = c.job)
      <4>1. status'[q][j] = status[q][j]
        BY <3>2, <1>1, <2>1 DEF QTypeOK
      <4>2. call[q].op = "record" => call'[q] = call[q]
        BY <1>1, <1>2
      <4> QED BY <3>2, <2>6, <4>1, <4>2, UsingIs
    <3> QED BY <3>1, <3>2
  <2>8. UserHoldsLease'
    BY <1>1, <2>1, <2>7 DEF UserHoldsLease, QTypeOK
  <2>9. NewcomerIsYoung'
    <3> SUFFICES ASSUME NEW q \in Procs, NEW r \in Procs, call'[r].op \in Claiming,
                        q \in alive', ~(OwnersOf[q] \subseteq call'[r].live)
                 PROVE  /\ call'[q].op \in {"acquire", "heartbeat"} => call'[q].lag <= Age(call'[r])
                        /\ \A j \in Jobs : <<q, j>> \in Using' => lease'.left + Age(call'[r]) >= Ttl
      BY DEF NewcomerIsYoung
    <3>1. r # p /\ call'[r] = call[r] /\ Age(call[r]) \in Nat
      BY <1>2, NoCallTyped, AgeIs DEF QTypeOK, Claiming
    <3>2. call[q].op \in {"acquire", "heartbeat"} => call[q].lag <= Age(call[r])
      BY <1>2, <3>1 DEF NewcomerIsYoung
    <3>3. CASE q = p
      <4>1. c.lag <= Age(call[r])
        BY <1>1, <3>2, <3>3
      <4>2. lease'.left + Age(call[r]) >= Ttl
        BY <1>1, <2>1, <3>1, <4>1, BoundsAssumption
      <4> QED BY <1>2, <3>1, <3>3, <4>2, NoCallTyped
    <3>4. CASE q # p
      BY <1>2, <2>7, <3>1, <3>2, <3>4
    <3> QED BY <3>3, <3>4
  <2>10. Using = {} /\ Using' = {u} /\ u \in Procs \X Jobs
    BY <1>1, <2>6, <2>7 DEF Using
  <2> QED BY <2>3, <2>4, <2>5, <2>8, <2>9, <2>10
<1> QED BY <1>3, <1>4

LEMMA HeartbeatKeeps ==
  ASSUME QInv, NEW p \in Procs, Heartbeat(p)
  PROVE  QInv' /\ Using' = Using
<1> USE DEF QInv
<1> DEFINE c == call[p]
<1>1. /\ c \in CallType /\ c.op = "heartbeat" /\ c.who \in OwnersOf[p] /\ c.lag \in Nat
      /\ p \in alive
  BY DEF Heartbeat, QTypeOK, CallShape, DeadIsBlank, CallType
<1>2. /\ call' = [call EXCEPT ![p] = NoCall]
      /\ call'[p] = NoCall
      /\ \A q \in Procs : q # p => call'[q] = call[q]
      /\ UNCHANGED <<alive, status, owner>>
  BY DEF Heartbeat, QTypeOK
<1>3. /\ lease'.owner = lease.owner /\ lease'.for = lease.for
      /\ \/ lease' = lease
         \/ lease.owner = c.who /\ lease'.left = Ttl - c.lag
      /\ lease' \in [owner : AllOwners \cup {NULL}, left : Int,
                     for : (Procs \X Jobs) \cup {NULL}]
  <2>1. lease \in [owner : AllOwners \cup {NULL}, left : Int,
                   for : (Procs \X Jobs) \cup {NULL}]
    BY DEF QTypeOK
  <2>2. CASE lease.owner = c.who
    <3>1. lease' = [lease EXCEPT !.left = Ttl - c.lag] /\ Ttl - c.lag \in Int
      BY <1>1, <2>2, BoundsAssumption DEF Heartbeat
    <3> QED BY <2>1, <2>2, <3>1
  <2>3. CASE lease.owner # c.who
    BY <2>1, <2>3 DEF Heartbeat
  <2> QED BY <2>2, <2>3
<1>4. QTypeOK'
  BY <1>2, <1>3, NoCallTyped DEF QTypeOK
<1>5. DeadIsBlank' /\ CallShape' /\ PauseIsBounded'
  BY <1>2, NoCallTyped DEF DeadIsBlank, CallShape, Claiming, PauseIsBounded
<1>6. \A q \in Procs, i \in Jobs : <<q, i>> \in Using' <=> <<q, i>> \in Using
  <2>1. \A q \in Procs :
          call'[q] # call[q] => call'[q].op # "record" /\ call[q].op # "record"
    <3>1. call'[p].op = "none" /\ call[p].op = "heartbeat"
      BY <1>1, <1>2, NoCallTyped
    <3>2. \A q \in Procs : q # p => call'[q] = call[q]
      BY <1>2
    <3> QED BY <3>1, <3>2
  <2> QED BY <1>2, <2>1, UsingIs
<1>7. Using' = Using
  BY <1>6 DEF Using
<1>8. UserHoldsLease'
  BY <1>2, <1>3, <1>6 DEF UserHoldsLease
<1>9. NewcomerIsYoung'
  <2> SUFFICES ASSUME NEW q \in Procs, NEW r \in Procs, call'[r].op \in Claiming,
                      q \in alive', ~(OwnersOf[q] \subseteq call'[r].live)
               PROVE  /\ call'[q].op \in {"acquire", "heartbeat"} => call'[q].lag <= Age(call'[r])
                      /\ \A j \in Jobs : <<q, j>> \in Using' => lease'.left + Age(call'[r]) >= Ttl
    BY DEF NewcomerIsYoung
  <2>1. r # p /\ call'[r] = call[r] /\ Age(call[r]) \in Nat
    BY <1>2, NoCallTyped, AgeIs DEF QTypeOK, Claiming
  <2>2. /\ call[q].op \in {"acquire", "heartbeat"} => call[q].lag <= Age(call[r])
        /\ \A j \in Jobs : <<q, j>> \in Using => lease.left + Age(call[r]) >= Ttl
    BY <1>2, <2>1 DEF NewcomerIsYoung
  <2>3. ASSUME NEW j \in Jobs, <<q, j>> \in Using, lease.owner = c.who, lease'.left = Ttl - c.lag
        PROVE  lease'.left + Age(call[r]) >= Ttl
    <3>1. q = p
      BY <1>1, <2>3, NamesAre DEF UserHoldsLease
    <3> QED BY <1>1, <2>1, <2>2, <2>3, <3>1, BoundsAssumption
  <2> QED BY <1>2, <1>3, <1>6, <2>1, <2>2, <2>3, NoCallTyped
<1> QED BY <1>4, <1>5, <1>7, <1>8, <1>9

(* One job at most uses the GPU. *)
LEMMA OneUser ==
  ASSUME UserHoldsLease
  PROVE  \A u, v \in Using : u = v
<1> SUFFICES ASSUME NEW u \in Using, NEW v \in Using PROVE u = v
  OBVIOUS
<1>1. \A w \in Using : \E p \in Procs, j \in Jobs : w = <<p, j>>
  BY DEF Using
<1>2. lease.for = u /\ lease.for = v
  BY <1>1 DEF UserHoldsLease
<1> QED BY <1>2

LEMMA ReleaseKeeps ==
  ASSUME QInv, NEW p \in Procs, Release(p)
  PROVE  /\ QInv'
         /\ Using' = Using \/ \E u \in Procs \X Jobs : Using = {u} /\ Using' = {}
<1> USE DEF QInv
<1> DEFINE c == call[p]
           u == <<p, c.job>>
<1>1. /\ c \in CallType /\ c.op = "release" /\ c.job \in Jobs /\ c.who \in OwnersOf[p]
      /\ ResourceOf[p][c.job] = "gpu" /\ p \in alive
      /\ status[p][c.job] \in Claimed /\ owner[p][c.job] = c.who /\ c.outcome \in Outcomes
  BY DEF Release, QTypeOK, CallShape, DeadIsBlank
<1>2. u \in Using /\ u \in Procs \X Jobs
  BY <1>1, UsingIs
<1>3. lease.owner = c.who
  BY <1>1, <1>2 DEF UserHoldsLease
<1>4. /\ lease' = NoLease /\ UNCHANGED <<alive, status, owner>>
      /\ call' = [call EXCEPT ![p].op = "record"]
  BY <1>3 DEF Release
<1>5. /\ call'[p] = [c EXCEPT !.op = "record"]
      /\ \A q \in Procs : q # p => call'[q] = call[q]
      /\ call' = [call EXCEPT ![p] = call'[p]]
  BY <1>4 DEF QTypeOK
<1>6. /\ call'[p] \in CallType /\ call'[p].op = "record" /\ call'[p].job = c.job
      /\ call'[p].who = c.who /\ call'[p].outcome = c.outcome
  BY <1>1, <1>5 DEF CallType, Ops
<1>7. QTypeOK'
  <2>1. call' \in [Procs -> CallType]
    BY <1>5, <1>6 DEF QTypeOK
  <2> QED BY <1>4, <2>1 DEF QTypeOK, NoLease
<1>8. DeadIsBlank' /\ CallShape' /\ PauseIsBounded'
  <2>1. DeadIsBlank' /\ PauseIsBounded'
    BY <1>1, <1>4, <1>5, <1>6 DEF DeadIsBlank, PauseIsBounded
  <2>2. CallShape'
    <3>1. status'[p][call'[p].job] \in Claimed /\ call'[p].outcome \in Outcomes
      BY <1>1, <1>4, <1>6
    <3> SUFFICES ASSUME NEW q \in Procs
                 PROVE  /\ call'[q].op \in {"look", "acquire", "release", "record"} =>
                             call'[q].job \in Jobs /\ ResourceOf[q][call'[q].job] = "gpu"
                        /\ call'[q].op # "none" => call'[q].who \in OwnersOf[q]
                        /\ call'[q].op \in Claiming => OwnersOf[q] \subseteq call'[q].live
                        /\ call'[q].op \in {"release", "record"} =>
                             /\ status'[q][call'[q].job] \in Claimed
                             /\ call'[q].outcome \in Outcomes
                        /\ call'[q].op = "release" => owner'[q][call'[q].job] = call'[q].who
      BY DEF CallShape
    <3>2. CASE q = p
      BY <1>1, <1>4, <1>6, <3>1, <3>2 DEF Claiming
    <3>3. CASE q # p
      BY <1>4, <1>5, <3>3 DEF CallShape
    <3> QED BY <3>2, <3>3
  <2> QED BY <2>1, <2>2
<1>9. Using = {u} /\ Using' = {}
  <2>1. Using = {u}
    BY <1>2, OneUser
  <2>2. \A q \in Procs, j \in Jobs : <<q, j>> \notin Using'
    <3> SUFFICES ASSUME NEW q \in Procs, NEW j \in Jobs, <<q, j>> \in Using'
                 PROVE  FALSE
      OBVIOUS
    <3>1. CASE q = p /\ j = c.job
      BY <1>6, <3>1, UsingIs
    <3>2. CASE ~(q = p /\ j = c.job)
      <4>1. <<q, j>> \notin Using
        BY <2>1, <3>2
      <4>2. call[q].op = "record" => call'[q] = call[q]
        BY <1>1, <1>5
      <4> QED BY <1>4, <4>1, <4>2, UsingIs
    <3> QED BY <3>1, <3>2
  <2> QED BY <2>1, <2>2 DEF Using
<1>10. UserHoldsLease'
  BY <1>9 DEF UserHoldsLease
<1>11. NewcomerIsYoung'
  BY <1>4, <1>5, <1>6, <1>9, KeepsYoung DEF Claiming
<1> QED BY <1>2, <1>7, <1>8, <1>9, <1>10, <1>11

LEMMA RecordKeeps ==
  ASSUME QInv, NEW p \in Procs, Record(p)
  PROVE  QInv' /\ Using' = Using
<1> USE DEF QInv
<1> DEFINE c == call[p]
<1>1. /\ c \in CallType /\ c.op = "record" /\ c.job \in Jobs /\ p \in alive
      /\ c.outcome \in Outcomes
  BY DEF Record, QTypeOK, CallShape, DeadIsBlank
<1>2. /\ call' = [call EXCEPT ![p] = NoCall]
      /\ call'[p] = NoCall
      /\ \A q \in Procs : q # p => call'[q] = call[q]
      /\ status' = [status EXCEPT ![p][c.job] = c.outcome]
      /\ UNCHANGED <<alive, owner, lease>>
  BY DEF Record, QTypeOK
<1>3. QTypeOK'
  BY <1>1, <1>2, NoCallTyped DEF QTypeOK, Statuses
<1>4. DeadIsBlank' /\ CallShape' /\ PauseIsBounded'
  BY <1>1, <1>2, NoCallTyped DEF DeadIsBlank, CallShape, Claiming, QTypeOK, PauseIsBounded
<1>5. \A q \in Procs, j \in Jobs : <<q, j>> \in Using' <=> <<q, j>> \in Using
  <2> SUFFICES ASSUME NEW q \in Procs, NEW j \in Jobs
               PROVE  <<q, j>> \in Using' <=> <<q, j>> \in Using
    OBVIOUS
  <2>1. CASE q = p /\ j = c.job
    BY <1>1, <1>2, <2>1, UsingIs DEF QTypeOK, Claimed, Outcomes
  <2>2. CASE q = p /\ j # c.job
    BY <1>1, <1>2, <2>2, UsingIs, NoCallTyped DEF QTypeOK
  <2>3. CASE q # p
    BY <1>1, <1>2, <2>3, UsingIs DEF QTypeOK
  <2> QED BY <2>1, <2>2, <2>3
<1>6. Using' = Using
  BY <1>5 DEF Using
<1>7. UserHoldsLease'
  BY <1>2, <1>5, KeepsLease
<1>8. NewcomerIsYoung'
  BY <1>2, <1>5, KeepsYoung, NoCallTyped DEF Claiming
<1> QED BY <1>3, <1>4, <1>6, <1>7, <1>8

(* Time passes for the lease and for the waiting calls alike, and processes *)
(* die and come back.                                                      *)
LEMMA TickKeeps ==
  ASSUME QInv, Tick
  PROVE  QInv' /\ Using' = Using
<1> USE DEF QInv
<1>1. /\ UNCHANGED <<alive, status, owner>>
      /\ \A p \in Procs :
           /\ call'[p] = IF call[p].op \in Timed
                         THEN [call[p] EXCEPT !.lag = @ + 1] ELSE call[p]
           /\ call[p] \in CallType
      /\ call' = [p \in Procs |-> call'[p]]
  BY DEF Tick, QTypeOK
<1>2. \A p \in Procs :
        /\ call'[p] \in CallType
        /\ call'[p].op = call[p].op /\ call'[p].job = call[p].job
        /\ call'[p].who = call[p].who /\ call'[p].live = call[p].live
        /\ call'[p].outcome = call[p].outcome
        /\ call[p].lag \in Nat
        /\ call[p].op = "look" => call[p].lag < MaxPause
        /\ call'[p].lag = IF call[p].op \in Timed
                          THEN call[p].lag + 1 ELSE call[p].lag
  BY <1>1 DEF CallType, Tick, Timed
<1>3. /\ lease'.owner = lease.owner /\ lease'.for = lease.for
      /\ lease.left \in Int /\ lease'.left \in {lease.left, lease.left - 1}
      /\ lease' \in [owner : AllOwners \cup {NULL}, left : Int,
                     for : (Procs \X Jobs) \cup {NULL}]
  <2>1. lease \in [owner : AllOwners \cup {NULL}, left : Int,
                   for : (Procs \X Jobs) \cup {NULL}]
    BY DEF QTypeOK
  <2>2. lease' = lease \/ lease' = [lease EXCEPT !.left = lease.left - 1]
    BY DEF Tick, Aged
  <2> QED BY <2>1, <2>2
<1>4. QTypeOK'
  <2>1. call' \in [Procs -> CallType]
    BY <1>1, <1>2
  <2> QED BY <1>1, <1>3, <2>1 DEF QTypeOK
<1>5. DeadIsBlank' /\ CallShape' /\ PauseIsBounded'
  <2>1. DeadIsBlank' /\ CallShape'
    BY <1>1, <1>2 DEF DeadIsBlank, CallShape
  <2>2. PauseIsBounded'
    BY <1>2, BoundsAssumption DEF PauseIsBounded, Timed
  <2> QED BY <2>1, <2>2
<1>6. \A q \in Procs, j \in Jobs : <<q, j>> \in Using' <=> <<q, j>> \in Using
  BY <1>1, <1>2, UsingIs
<1>7. Using' = Using
  BY <1>6 DEF Using
<1>8. UserHoldsLease'
  BY <1>1, <1>3, <1>6 DEF UserHoldsLease
<1>9. NewcomerIsYoung'
  <2> SUFFICES ASSUME NEW q \in Procs, NEW r \in Procs, call'[r].op \in Claiming,
                      q \in alive', ~(OwnersOf[q] \subseteq call'[r].live)
               PROVE  /\ call'[q].op \in {"acquire", "heartbeat"} => call'[q].lag <= Age(call'[r])
                      /\ \A j \in Jobs : <<q, j>> \in Using' => lease'.left + Age(call'[r]) >= Ttl
    BY DEF NewcomerIsYoung
  <2>1. /\ call[q].op \in {"acquire", "heartbeat"} => call[q].lag <= Age(call[r])
        /\ \A j \in Jobs : <<q, j>> \in Using => lease.left + Age(call[r]) >= Ttl
    BY <1>1, <1>2 DEF NewcomerIsYoung
  <2>2. /\ Age(call'[r]) = Age(call[r]) + 1 /\ Age(call[r]) \in Nat
        /\ call[q].lag \in Nat /\ call'[q].lag <= call[q].lag + 1
    BY <1>1, <1>2, AgeIs, BoundsAssumption DEF Age, Claiming, Timed
  <2> QED BY <1>2, <1>3, <1>6, <2>1, <2>2, BoundsAssumption
<1> QED BY <1>4, <1>5, <1>7, <1>8, <1>9

LEMMA CrashKeeps ==
  ASSUME QInv, NEW p \in Procs, Crash(p)
  PROVE  QInv' /\ Using' \subseteq Using
<1> USE DEF QInv
<1>1. /\ alive' = alive \ {p} /\ UNCHANGED lease
      /\ call'[p] = NoCall /\ \A j \in Jobs : status'[p][j] = "absent"
      /\ \A q \in Procs : q # p => /\ call'[q] = call[q] /\ status'[q] = status[q]
                                   /\ owner'[q] = owner[q]
  BY DEF Crash, QTypeOK
<1>2. QTypeOK'
  <2>1. call' \in [Procs -> CallType] /\ alive' \in SUBSET Procs
    BY <1>1, NoCallTyped DEF QTypeOK, Crash
  <2>2. status' \in [Procs -> [Jobs -> Statuses]]
    BY DEF QTypeOK, Crash, Statuses
  <2>3. owner' \in [Procs -> [Jobs -> AllOwners \cup {NULL}]]
    BY DEF QTypeOK, Crash
  <2> QED BY <1>1, <2>1, <2>2, <2>3 DEF QTypeOK
<1>3. DeadIsBlank' /\ CallShape' /\ PauseIsBounded'
  BY <1>1, NoCallTyped DEF DeadIsBlank, CallShape, Claiming, PauseIsBounded
<1>4. \A q \in Procs, j \in Jobs :
        <<q, j>> \in Using' => <<q, j>> \in Using /\ owner'[q][j] = owner[q][j]
  <2> SUFFICES ASSUME NEW q \in Procs, NEW j \in Jobs, <<q, j>> \in Using'
               PROVE  <<q, j>> \in Using /\ owner'[q][j] = owner[q][j]
    OBVIOUS
  <2>1. q # p
    BY <1>1, UsingIs DEF Claimed
  <2> QED BY <1>1, <2>1, UsingIs
<1>5. Using' \subseteq Using
  <2>1. \A w \in Using' : \E q \in Procs, j \in Jobs : w = <<q, j>>
    BY DEF Using
  <2> QED BY <1>4, <2>1
<1>6. UserHoldsLease'
  BY <1>1, <1>4, KeepsLease
<1>7. NewcomerIsYoung'
  <2>1. \A q \in Procs : call'[q] = call[q] \/ call'[q].op = "none"
    BY <1>1, NoCallTyped
  <2> QED BY <1>1, <1>4, <2>1, KeepsYoung DEF Claiming
<1> QED BY <1>2, <1>3, <1>5, <1>6, <1>7

LEMMA RestartKeeps ==
  ASSUME QInv, NEW p \in Procs, Restart(p)
  PROVE  QInv' /\ Using' = Using
<1> USE DEF QInv
<1>1. /\ alive' = alive \cup {p} /\ p \notin alive
      /\ UNCHANGED <<status, owner, lease, call>>
  BY DEF Restart
<1>2. QTypeOK' /\ DeadIsBlank' /\ CallShape' /\ PauseIsBounded'
  BY <1>1 DEF QTypeOK, DeadIsBlank, CallShape, PauseIsBounded
<1>3. Using' = Using
  BY <1>1 DEF Using, Releasing
<1>4. UserHoldsLease'
  BY <1>1, <1>3 DEF UserHoldsLease
<1>5. NewcomerIsYoung'
  <2>1. call[p].op = "none" /\ \A j \in Jobs : <<p, j>> \notin Using
    BY <1>1, UsingIs DEF DeadIsBlank, Claimed
  <2> QED BY <1>1, <1>3, <2>1 DEF NewcomerIsYoung
<1> QED BY <1>2, <1>3, <1>4, <1>5

-----------------------------------------------------------------------------
(* Theorems                                                                *)

LEMMA NextKeeps ==
  ASSUME Informed, QInv, [Next]_vars
  PROVE  /\ QInv'
         /\ [Mutex!Next]_Using
<1>1. CASE UNCHANGED vars
  BY <1>1 DEF vars, QInv, QTypeOK, DeadIsBlank, CallShape, PauseIsBounded, UserHoldsLease,
                   NewcomerIsYoung,
                   Using, Releasing
<1>2. CASE Tick
  BY <1>2, TickKeeps
<1>3. CASE \E p \in Procs : Crash(p)
  <2>1. QInv' /\ Using' \subseteq Using
    BY <1>3, CrashKeeps
  <2>2. CASE Using' # Using
    <3>1. PICK u \in Using : u \notin Using'
      BY <2>1, <2>2
    <3>2. Using' = Using \ {u} /\ u \in Procs \X Jobs
      BY <2>1, <3>1, OneUser DEF QInv, Using
    <3> QED BY <2>1, <3>2 DEF Mutex!Next, Mutex!Leave
  <2> QED BY <2>1, <2>2
<1>4. CASE \E p \in Procs : Restart(p)
  BY <1>4, RestartKeeps
<1>5. CASE \E p \in Procs : Step(p)
  <2> SUFFICES ASSUME NEW p \in Procs, Step(p)
               PROVE  QInv' /\ [Mutex!Next]_Using
    BY <1>5
  <2>1. CASE Heartbeat(p)
    BY <2>1, HeartbeatKeeps
  <2>2. CASE Record(p)
    BY <2>2, RecordKeeps
  <2>3. CASE Acquire(p)
    BY <2>3, AcquireKeeps DEF Mutex!Next, Mutex!Take
  <2>4. CASE Release(p)
    <3>1. QInv' /\ (Using' = Using \/ \E u \in Procs \X Jobs : Using = {u} /\ Using' = {})
      BY <2>4, ReleaseKeeps
    <3>2. ASSUME NEW u \in Procs \X Jobs, Using = {u}, Using' = {}
          PROVE  Mutex!Next
      BY <3>2 DEF Mutex!Next, Mutex!Leave
    <3> QED BY <3>1, <3>2
  <2>5. CASE \/ HeartbeatGpu(p)
             \/ \E j \in Jobs, o \in OwnersOf[p], r \in Resources : ClaimGpu(p, o, r, j)
             \/ \E j \in Jobs, o \in OwnersOf[p], out \in Outcomes : FinishGpu(p, o, j, out)
    BY <2>5, CallKeeps
  <2>6. CASE \E j \in Jobs :
               \/ Submit(p, j) \/ Start(p, j)
               \/ \E o \in OwnersOf[p], r \in Resources : ClaimPooled(p, o, r, j)
               \/ \E o \in OwnersOf[p], out \in Outcomes : FinishPooled(p, o, j, out)
    BY <2>6, LocalKeeps
  <2>7. CASE ReadClock(p)
    BY <2>7, ReadClockKeeps
  <2> QED BY <2>1, <2>2, <2>3, <2>4, <2>5, <2>6, <2>7 DEF Step
<1> QED BY <1>1, <1>2, <1>3, <1>4, <1>5 DEF Next

THEOREM QInvHolds == ASSUME Informed PROVE Spec => []QInv
<1>1. Init => QInv
  BY InitQInv
<1>2. QInv /\ [Next]_vars => QInv'
  BY NextKeeps
<1> QED BY <1>1, <1>2, PTL DEF Spec

(* A job that uses the GPU holds the lease that was taken for it, for any  *)
(* runners, names, jobs and waits for the file lock, if claim() is told    *)
(* who is alive and what it is told is younger than a lease when acquire() *)
(* reads the clock.                                                        *)
THEOREM GpuUserHoldsLease == ASSUME Informed PROVE Spec => []UserHoldsLease
<1>1. QInv => UserHoldsLease
  BY DEF QInv
<1> QED BY <1>1, QInvHolds, PTL

(* Queues, lease file, crashes and expiry together implement a mutex on    *)
(* the GPU: every step is a job that takes it while nobody has it, a job   *)
(* that leaves it, or a stutter (if the callers are Informed).             *)
THEOREM QueueImplementsMutex == ASSUME Informed PROVE Spec => ImplementsMutex
<1>1. Init => Mutex!Init
  BY UsingIs DEF Init, Mutex!Init, Using, Claimed
<1>2. QInv /\ [Next]_vars => [Mutex!Next]_Using
  BY NextKeeps
<1> QED BY <1>1, <1>2, QInvHolds, PTL DEF Spec, ImplementsMutex, Mutex!Spec
=============================================================================
