--------------------------- MODULE SlackInboxProofs ---------------------------
(***************************************************************************)
(* Theorems about SlackInbox, for any drains, files, messages and bounds.  *)
(* The lock makes the memory of the one drain at work contain what the     *)
(* state file holds, without repetition; on that rest both results.        *)
(***************************************************************************)
EXTENDS SlackInbox, SequenceTheorems, FiniteSetTheorems, TLAPS

USE InboxAssumption

-----------------------------------------------------------------------------
(* Sorting.  Every finite set of numbers has an enumeration in increasing  *)
(* order, so that LoadSeen is one.                                         *)

Sorted(seen, S) ==
  /\ seen \in [1..Cardinality(S) -> S]
  /\ Range(seen) = S
  /\ \A i, j \in DOMAIN seen : i < j => seen[i] < seen[j]

LEMMA LeastExists ==
  ASSUME NEW S \in SUBSET Nat, S # {}
  PROVE  \E m \in S : \A n \in S : m <= n
<1>1. PICK m \in S : \A n \in S : <<n, m>> \notin OpToRel(<, Nat)
  BY NatLessThanWellFounded, WFMin
<1>2. ASSUME NEW n \in S PROVE m <= n
  <2>1. ~(n < m)
    BY <1>1 DEF OpToRel
  <2>2. n \in Nat /\ m \in Nat
    OBVIOUS
  <2> QED
    BY <2>1, <2>2
<1> QED
  BY <1>2

\* The least element in front of the rest in order.
LEMMA SortedAfterLeast ==
  ASSUME NEW S \in SUBSET Nat, IsFiniteSet(S), NEW m \in S, \A n \in S : m <= n,
         NEW g, Sorted(g, S \ {m})
  PROVE  \E seen : Sorted(seen, S)
<1> DEFINE k == Cardinality(S)
           seen == [i \in 1..k |-> IF i = 1 THEN m ELSE g[i-1]]
<1>1. k \in Nat /\ k >= 1 /\ Cardinality(S \ {m}) = k - 1
  BY FS_CardinalityType, FS_RemoveElement, FS_EmptySet
<1> HIDE DEF k
<1>2. DOMAIN g = 1..(k-1) /\ \A i \in 1..(k-1) : g[i] \in S \ {m}
  BY <1>1 DEF Sorted
<1>3. seen \in [1..k -> S]
  BY <1>1, <1>2
<1>4. ASSUME NEW n \in S PROVE n \in Range(seen)
  <2>1. CASE n = m
    BY <1>1, <2>1 DEF Range
  <2>2. CASE n # m
    <3>1. PICK i \in 1..(k-1) : g[i] = n
      BY <1>2, <2>2 DEF Sorted, Range
    <3>2. i+1 \in 1..k /\ seen[i+1] = n
      BY <1>1, <3>1
    <3> QED
      BY <3>2 DEF Range
  <2> QED
    BY <2>1, <2>2
<1>5. ASSUME NEW i \in 1..k, NEW j \in 1..k, i < j
      PROVE  seen[i] < seen[j]
  <2>1. j-1 \in 1..(k-1) /\ seen[j] = g[j-1] /\ g[j-1] \in S \ {m}
    BY <1>1, <1>2, <1>5
  <2>2. CASE i = 1
    <3>1. seen[i] = m /\ m \in Nat /\ g[j-1] \in Nat /\ m <= g[j-1] /\ m # g[j-1]
      BY <1>1, <2>1, <2>2
    <3> HIDE DEF seen
    <3> QED
      BY <2>1, <3>1
  <2>3. CASE i # 1
    <3>1. i-1 \in 1..(k-1) /\ seen[i] = g[i-1]
      BY <1>1, <2>3
    <3>2. i-1 < j-1
      BY <1>1, <1>5
    <3>3. g[i-1] < g[j-1]
      BY <1>2, <2>1, <3>1, <3>2 DEF Sorted
    <3> HIDE DEF seen
    <3> QED
      BY <2>1, <3>1, <3>3
  <2> QED
    BY <2>2, <2>3
<1>6. Range(seen) = S
  BY <1>3, <1>4 DEF Range
<1> QED
  BY <1>3, <1>5, <1>6 DEF Sorted, k

\* A least cardinality without such an enumeration leads to a smaller one.
LEMMA SortedExists ==
  ASSUME NEW S \in SUBSET Nat, IsFiniteSet(S)
  PROVE  \E seen : Sorted(seen, S)
<1> DEFINE Unsorted(n) == \E X \in SUBSET Nat : /\ IsFiniteSet(X) /\ Cardinality(X) = n
                                                /\ \A seen : ~Sorted(seen, X)
           U == {n \in Nat : Unsorted(n)}
<1>1. ASSUME U # {} PROVE FALSE
  <2>1. PICK n \in U : \A x \in U : n <= x
    <3>1. U \in SUBSET Nat
      OBVIOUS
    <3> HIDE DEF U
    <3> QED
      BY <1>1, <3>1, LeastExists
  <2>2. PICK X \in SUBSET Nat : /\ IsFiniteSet(X) /\ Cardinality(X) = n
                                /\ \A seen : ~Sorted(seen, X)
    BY <2>1
  <2>3. CASE X = {}
    <3>1. Sorted(<<>>, X)
      BY <2>3, FS_EmptySet DEF Sorted, Range
    <3> QED
      BY <2>2, <3>1
  <2>4. CASE X # {}
    <3>1. PICK m \in X : \A x \in X : m <= x
      BY <2>4, LeastExists
    <3>2. IsFiniteSet(X \ {m}) /\ Cardinality(X \ {m}) = n - 1 /\ n \in Nat
      BY <2>1, <2>2, <3>1, FS_RemoveElement
    <3>3. n - 1 \in Nat
      BY <3>2, FS_CardinalityType
    <3>4. \A seen : ~Sorted(seen, X \ {m})
      BY <2>2, <3>1, SortedAfterLeast
    <3>5. X \ {m} \in SUBSET Nat
      OBVIOUS
    <3>6. n - 1 \in U
      BY <3>2, <3>3, <3>4, <3>5
    <3> QED
      BY <2>1, <3>3, <3>6
  <2> QED
    BY <2>3, <2>4
<1>2. Cardinality(S) \in Nat
  BY FS_CardinalityType
<1> QED
  BY <1>1, <1>2

LEMMA LoadSeenIsSaved ==
  ASSUME saved \in SUBSET Ts, IsFiniteSet(saved)
  PROVE  /\ LoadSeen \in Seq(Ts) /\ Range(LoadSeen) = saved
         /\ \A i, j \in 1..Len(LoadSeen) : LoadSeen[i] = LoadSeen[j] => i = j
<1>1. PICK s : Sorted(s, saved)
  BY SortedExists
<1>2. Sorted(LoadSeen, saved)
  BY <1>1 DEF Sorted, LoadSeen
<1>3. Cardinality(saved) \in Nat
  BY FS_CardinalityType
<1> DEFINE n == Cardinality(saved)
           seen == LoadSeen
<1>4. n \in Nat /\ seen \in [1..n -> Ts] /\ DOMAIN seen = 1..n
  BY <1>2, <1>3 DEF Sorted
<1>5. Range(seen) = saved
  BY <1>2 DEF Sorted
<1>6. \A i, j \in 1..n : i < j => seen[i] < seen[j]
  BY <1>2, <1>4 DEF Sorted
<1> HIDE DEF n, seen
<1>7. seen \in Seq(Ts) /\ Len(seen) = n
  BY <1>4
<1>8. ASSUME NEW i \in 1..n, NEW j \in 1..n, seen[i] = seen[j]
      PROVE  i = j
  <2>1. seen[i] \in Nat /\ seen[j] \in Nat
    BY <1>4
  <2>2. ~(i < j) /\ ~(j < i)
    BY <1>6, <1>8, <2>1
  <2> QED
    BY <1>4, <2>2
<1> QED
  BY <1>5, <1>7, <1>8 DEF seen

-----------------------------------------------------------------------------
(* Sequences of timestamps without repetition. *)

Distinct(seen) == \A i, j \in 1..Len(seen) : seen[i] = seen[j] => i = j

LEMMA RangeFacts ==
  ASSUME NEW seen \in Seq(Ts)
  PROVE  /\ Range(seen) = {seen[i] : i \in 1..Len(seen)}
         /\ Range(seen) \subseteq Ts
         /\ IsFiniteSet(Range(seen))
         /\ Distinct(seen) => Cardinality(Range(seen)) = Len(seen)
<1>1. Len(seen) \in Nat /\ DOMAIN seen = 1..Len(seen) /\ seen \in [1..Len(seen) -> Ts]
  BY LenProperties
<1>2. Range(seen) = {seen[i] : i \in 1..Len(seen)} /\ Range(seen) \subseteq Ts
  BY RangeEquality, RangeOfSeq
<1> DEFINE n == Len(seen)
<1>3. IsFiniteSet(1..n) /\ Cardinality(1..n) = n
  <2>1. n \in Nat
    BY <1>1
  <2> HIDE DEF n
  <2> QED
    BY <2>1, FS_Interval
<1>4. seen \in Surjection(1..n, Range(seen))
  BY <1>1, <1>2 DEF Surjection
<1>5. Distinct(seen) => seen \in Injection(1..n, Range(seen))
  <2>1. seen \in [1..n -> Range(seen)]
    BY <1>4 DEF Surjection
  <2> QED
    BY <2>1 DEF Distinct, Injection, IsInjective
<1> QED
  BY <1>2, <1>3, <1>4, <1>5, FS_Surjection

LEMMA AppendNew ==
  ASSUME NEW seen \in Seq(Ts), Distinct(seen), NEW t \in Ts, t \notin Range(seen)
  PROVE  /\ Append(seen, t) \in Seq(Ts)
         /\ Range(Append(seen, t)) = Range(seen) \cup {t}
         /\ Distinct(Append(seen, t))
<1> DEFINE s == Append(seen, t)
           n == Len(seen)
<1>1. /\ s \in Seq(Ts) /\ n \in Nat /\ Len(s) = n + 1
      /\ s[n+1] = t /\ \A i \in 1..n : s[i] = seen[i]
  OBVIOUS
<1> HIDE DEF s
<1>2. \A i \in 1..n : seen[i] # t
  BY RangeFacts
<1>3. \A i, j \in 1..n : seen[i] = seen[j] => i = j
  BY DEF Distinct
<1> HIDE DEF n
<1>4. 1..(n+1) = 1..n \cup {n+1}
  BY <1>1
<1>5. Range(s) = {s[i] : i \in 1..(n+1)}
  BY <1>1, RangeFacts
<1>6. {s[i] : i \in 1..(n+1)} = {seen[i] : i \in 1..n} \cup {t}
  BY <1>1, <1>4
<1>7. Range(seen) = {seen[i] : i \in 1..n}
  BY RangeFacts DEF n
<1>8. Distinct(s)
  BY <1>1, <1>2, <1>3, <1>4 DEF Distinct
<1> QED
  BY <1>1, <1>5, <1>6, <1>7, <1>8 DEF s

LEMMA KeptSome ==
  ASSUME NEW seen \in Seq(Ts), Distinct(seen)
  PROVE  /\ Range(Kept(seen)) \subseteq Range(seen)
         /\ IsFiniteSet(Range(Kept(seen)))
         /\ \/ Kept(seen) = seen
            \/ /\ Cardinality(Range(seen)) > MaxSeen
               /\ Cardinality(Range(Kept(seen))) = MaxSeen
<1> DEFINE n == Len(seen)
           k == n - MaxSeen
           s == SubSeq(seen, k + 1, n)
<1>1. CASE n <= MaxSeen
  BY <1>1, RangeFacts DEF Kept
<1>2. CASE n > MaxSeen
  <2>1. n \in Nat /\ k \in Nat /\ k + MaxSeen = n /\ k + 1 <= n /\ \A i \in (k+1)..n : seen[i] \in Ts
    BY <1>2
  <2>2. /\ s \in Seq(Ts) /\ Len(s) = MaxSeen
        /\ \A i \in 1..MaxSeen : s[i] = seen[k + i]
    BY <2>1, SubSeqProperties
  <2>3. Kept(seen) = s
    BY <1>2 DEF Kept
  <2> HIDE DEF s
  <2>4. \A i \in 1..MaxSeen : k + i \in 1..n
    BY <2>1
  <2>5. Range(s) \subseteq Range(seen)
    <3>1. Range(s) = {s[i] : i \in 1..MaxSeen} /\ Range(seen) = {seen[i] : i \in 1..n}
      BY <2>2, RangeFacts
    <3> HIDE DEF n, k
    <3> QED
      BY <2>2, <2>4, <3>1
  <2>6. Distinct(s)
    <3> SUFFICES ASSUME NEW i \in 1..MaxSeen, NEW j \in 1..MaxSeen, s[i] = s[j]
                 PROVE  i = j
      BY <2>2 DEF Distinct
    <3>1. seen[k+i] = seen[k+j]
      BY <2>2
    <3>2. k + i = k + j
      BY <2>4, <3>1 DEF Distinct
    <3> QED
      BY <2>1, <3>2
  <2> QED
    BY <1>2, <2>2, <2>3, <2>5, <2>6, RangeFacts
<1>3. n \in Nat
  OBVIOUS
<1> QED
  BY <1>1, <1>2, <1>3

-----------------------------------------------------------------------------
(* The drain at work. *)

Pcs == {"rest", "read", "move"}
WorkRow == [pc : Pcs, listed : SUBSET Files, seen : Seq(Ts), file : Files \cup {NULL}]

\* The memory of a drain contains the state file it loaded.
WorkOK(w) ==
  /\ w \in WorkRow
  /\ Distinct(w.seen)
  /\ w.pc = "rest" => w.seen = <<>>
  /\ w.pc # "rest" => saved \subseteq Range(w.seen)
  /\ w.pc = "move" => w.file \in Files /\ TsOf[w.file] \in Range(w.seen)

Busy(d) == work[d].pc # "rest"

(* One drain is at work at a time.                                         *)
InboxOK ==
  /\ place \in [Files -> Places]
  /\ goals \in [Ts -> Nat]
  /\ saved \in SUBSET Ts /\ IsFiniteSet(saved)
  /\ deaths \in Nat
  /\ work = [d \in Drains |-> work[d]]
  /\ \A d \in Drains : WorkOK(work[d])
  /\ \A d, e \in Drains : Busy(d) /\ Busy(e) => d = e

LEMMA RangeEmpty == Range(<<>>) = {}
  BY DEF Range

LEMMA RestingOK ==
  /\ Resting \in WorkRow /\ Resting.pc = "rest" /\ Resting.seen = <<>>
  /\ Distinct(Resting.seen) /\ WorkOK(Resting)
<1>1. <<>> \in Seq(Ts) /\ Len(<<>>) = 0
  BY EmptySeq
<1>2. Distinct(<<>>)
  BY DEF Distinct
<1> QED
  BY <1>1, <1>2 DEF WorkOK, WorkRow, Pcs, Resting

\* A step of drain d that leaves the state file alone.
LEMMA WorkStep ==
  ASSUME InboxOK, NEW d \in Drains, NEW w, work' = [work EXCEPT ![d] = w],
         UNCHANGED saved, WorkOK(w),
         w.pc # "rest" => \A e \in Drains \ {d} : ~Busy(e),
         place' \in [Files -> Places], goals' \in [Ts -> Nat], deaths' \in Nat
  PROVE  InboxOK' /\ work'[d] = w /\ \A e \in Drains \ {d} : work'[e] = work[e]
<1>1. /\ work' = [e \in Drains |-> work'[e]]
      /\ work'[d] = w /\ \A e \in Drains \ {d} : work'[e] = work[e]
  BY DEF InboxOK
<1>2. \A e \in Drains : WorkOK(work'[e])
  BY <1>1 DEF InboxOK
<1>3. \A e \in Drains : WorkOK(work[e])'
  BY <1>2 DEF WorkOK
<1>4. \A e, f \in Drains : Busy(e)' /\ Busy(f)' => e = f
  BY <1>1 DEF InboxOK, Busy
<1> QED
  BY <1>1, <1>3, <1>4 DEF InboxOK

\* What is remembered is what the drain at work knows, or the state file.
LEMMA RememberedAtWork ==
  ASSUME InboxOK, NEW d \in Drains, Busy(d)
  PROVE  Remembered = Range(work[d].seen)
<1>1. saved \subseteq Range(work[d].seen)
  BY DEF InboxOK, WorkOK, Busy
<1>2. ASSUME NEW e \in Drains \ {d} PROVE Range(work[e].seen) = {}
  <2>1. work[e].seen = <<>>
    BY DEF InboxOK, WorkOK, Busy
  <2> QED
    BY <2>1, RangeEmpty
<1> QED
  BY <1>1, <1>2 DEF Remembered

LEMMA RememberedAtRest ==
  ASSUME InboxOK, \A d \in Drains : ~Busy(d)
  PROVE  Remembered = saved
<1>1. ASSUME NEW e \in Drains PROVE Range(work[e].seen) = {}
  <2>1. work[e].seen = <<>>
    BY DEF InboxOK, WorkOK, Busy
  <2> QED
    BY <2>1, RangeEmpty
<1> QED
  BY <1>1 DEF Remembered

RememberedIs ==
  /\ \A d \in Drains : InboxOK /\ Busy(d) => Remembered = Range(work[d].seen)
  /\ InboxOK /\ (\A d \in Drains : ~Busy(d)) => Remembered = saved

LEMMA RememberedHolds == RememberedIs
  BY RememberedAtWork, RememberedAtRest DEF RememberedIs

\* The same of the next state.
LEMMA RememberedNext ==
  /\ \A d \in Drains : InboxOK' /\ Busy(d)' => Remembered' = Range(work'[d].seen)
  /\ InboxOK' /\ (\A d \in Drains : ~Busy(d)') => Remembered' = saved'
<1>1. RememberedIs'
  BY RememberedHolds, PTL
<1> QED
  BY <1>1 DEF RememberedIs

LEMMA OthersRest ==
  ASSUME InboxOK, NEW d \in Drains, Busy(d)
  PROVE  \A e \in Drains \ {d} : ~Busy(e)
  BY DEF InboxOK

-----------------------------------------------------------------------------
(* What each step does to the memory of its drain, to what is remembered   *)
(* and to the invariant.                                                   *)

LEMMA EnterEffect ==
  ASSUME InboxOK, NEW d \in Drains, Enter(d)
  PROVE  InboxOK' /\ Remembered' = Remembered
<1> DEFINE w == [pc |-> "read", listed |-> Listing, seen |-> LoadSeen, file |-> NULL]
<1>1. /\ LoadSeen \in Seq(Ts) /\ Range(LoadSeen) = saved /\ Distinct(LoadSeen)
  BY LoadSeenIsSaved DEF InboxOK, Distinct
<1>2. Listing \subseteq Files
  BY DEF Listing
<1>3. WorkOK(w)
  BY <1>1, <1>2 DEF WorkOK, WorkRow, Pcs
<1>4. \A e \in Drains : ~Busy(e)
  BY DEF Enter, LockFree, Busy
<1>5. InboxOK' /\ work'[d] = w
  BY <1>3, <1>4, WorkStep DEF Enter, InboxOK
<1>6. Remembered = saved
  BY <1>4, RememberedAtRest
<1>7. Remembered' = Range(work'[d].seen)
  <2>1. Busy(d)'
    BY <1>5 DEF Busy
  <2> QED
    BY <1>5, <2>1, RememberedNext
<1> QED
  BY <1>1, <1>5, <1>6, <1>7

\* Steps of the drain at work that remember nothing new and forget nothing.
LEMMA SteadyEffect ==
  ASSUME InboxOK, NEW d \in Drains, Busy(d),
         NEW q \in WorkRow, q.pc = "read", q.seen = work[d].seen,
         work' = [work EXCEPT ![d] = q],
         UNCHANGED <<goals, saved, deaths>>, place' \in [Files -> Places]
  PROVE  InboxOK' /\ Remembered' = Remembered
<1>1. WorkOK(q)
  BY DEF InboxOK, WorkOK, Busy
<1>2. InboxOK' /\ work'[d] = q
  BY <1>1, WorkStep, OthersRest DEF InboxOK
<1>3. Busy(d)'
  BY <1>2 DEF Busy
<1> QED
  BY <1>2, <1>3, RememberedAtWork, RememberedNext

LEMMA PassEffect ==
  ASSUME InboxOK, NEW d \in Drains, NEW f \in Files,
         Quarantine(d, f) \/ SkipSeen(d, f) \/ Refuse(d, f)
  PROVE  InboxOK' /\ Remembered' = Remembered
<1> DEFINE q == [work[d] EXCEPT !.listed = @ \ {f}]
<1>1. work[d] \in WorkRow /\ work[d].pc = "read" /\ Busy(d)
  BY DEF Quarantine, SkipSeen, Refuse, At, InboxOK, WorkOK, Busy
<1>2. work' = [work EXCEPT ![d] = q]
  BY DEF Quarantine, SkipSeen, Refuse, Past, InboxOK
<1>3. q \in WorkRow /\ q.pc = "read" /\ q.seen = work[d].seen
  BY <1>1 DEF WorkRow
<1>4. UNCHANGED <<goals, saved, deaths>> /\ place' \in [Files -> Places]
  BY DEF Quarantine, SkipSeen, Refuse, InboxOK, Places
<1> HIDE DEF q
<1> QED
  BY <1>1, <1>2, <1>3, <1>4, SteadyEffect

LEMMA MoveEffect ==
  ASSUME InboxOK, NEW d \in Drains, Move(d)
  PROVE  InboxOK' /\ Remembered' = Remembered
<1> DEFINE q == [work[d] EXCEPT !.pc = "read", !.file = NULL]
<1>1. work[d] \in WorkRow /\ work[d].pc = "move" /\ Busy(d) /\ work[d].file \in Files
  BY DEF Move, InboxOK, WorkOK, Busy
<1>2. work' = [work EXCEPT ![d] = q]
  BY DEF Move, InboxOK
<1>3. q \in WorkRow /\ q.pc = "read" /\ q.seen = work[d].seen
  BY <1>1 DEF WorkRow, Pcs
<1>4. UNCHANGED <<goals, saved, deaths>> /\ place' \in [Files -> Places]
  BY <1>1 DEF Move, InboxOK, Places
<1> HIDE DEF q
<1> QED
  BY <1>1, <1>2, <1>3, <1>4, SteadyEffect

LEMMA OpenEffect ==
  ASSUME InboxOK, NEW d \in Drains, NEW f \in Files, OpenGoal(d, f)
  PROVE  /\ InboxOK'
         /\ TsOf[f] \in Ts /\ TsOf[f] \notin Remembered
         /\ Remembered' = Remembered \cup {TsOf[f]}
<1> DEFINE w == work[d]
           t == TsOf[f]
           p == [w EXCEPT !.listed = @ \ {f}]
           q == [p EXCEPT !.seen = Append(@, t), !.pc = "move", !.file = f]
<1>1. w \in WorkRow /\ Distinct(w.seen) /\ saved \subseteq Range(w.seen) /\ Busy(d)
  BY DEF OpenGoal, At, InboxOK, WorkOK, Busy
<1>2. t \in Ts /\ t \notin Range(w.seen)
  BY DEF OpenGoal, IsSeen
<1>3. /\ Append(w.seen, t) \in Seq(Ts) /\ Distinct(Append(w.seen, t))
      /\ Range(Append(w.seen, t)) = Range(w.seen) \cup {t}
  BY <1>1, <1>2, AppendNew DEF WorkRow
<1>4. work' = [work EXCEPT ![d] = q]
  <2>1. Past(d, f) = [work EXCEPT ![d] = p] /\ Past(d, f)[d] = p
    BY DEF Past, InboxOK
  <2> HIDE DEF p
  <2> QED
    BY <2>1 DEF OpenGoal, Recorded, InboxOK
<1>5. /\ q \in WorkRow /\ q.pc = "move" /\ q.file = f
      /\ q.seen = Append(w.seen, t)
  <2>1. p \in WorkRow /\ p.seen = w.seen
    BY <1>1 DEF WorkRow
  <2> HIDE DEF p, w
  <2> QED
    BY <1>3, <2>1 DEF WorkRow, Pcs
<1> HIDE DEF q
<1>6. WorkOK(q)
  BY <1>1, <1>3, <1>5 DEF WorkOK
<1>7. /\ UNCHANGED <<saved, deaths>> /\ place' \in [Files -> Places]
      /\ goals' \in [Ts -> Nat]
  BY <1>2 DEF OpenGoal, InboxOK
<1>8. InboxOK' /\ work'[d] = q
  BY <1>1, <1>4, <1>7, <1>6, WorkStep, OthersRest DEF InboxOK
<1>9. Busy(d)'
  BY <1>5, <1>8 DEF Busy
<1> QED
  BY <1>1, <1>2, <1>3, <1>5, <1>8, <1>9, RememberedAtWork, RememberedNext

LEMMA SaveEffect ==
  ASSUME InboxOK, NEW d \in Drains, Save(d)
  PROVE  /\ InboxOK'
         /\ work[d].seen \in Seq(Ts) /\ Distinct(work[d].seen)
         /\ Remembered = Range(work[d].seen)
         /\ Remembered' = Range(Kept(work[d].seen))
<1> DEFINE seen == work[d].seen
<1>1. Busy(d) /\ seen \in Seq(Ts) /\ Distinct(seen)
  BY DEF Save, Busy, InboxOK, WorkOK, WorkRow
<1>2. /\ saved' \in SUBSET Ts /\ IsFiniteSet(saved') /\ saved' = Range(Kept(seen))
  BY <1>1, KeptSome, RangeFacts DEF Save
<1>3. /\ work'[d] = Resting /\ \A e \in Drains \ {d} : work'[e] = work[e]
      /\ work' = [e \in Drains |-> work'[e]]
  BY DEF Save, InboxOK
<1>4. \A e \in Drains : ~Busy(e)'
  BY <1>1, <1>3, OthersRest DEF Busy, Resting
<1>5. ASSUME NEW e \in Drains PROVE WorkOK(work[e])'
  <2>1. CASE e = d
    BY <1>3, <2>1, RestingOK DEF WorkOK, Resting
  <2>2. CASE e # d
    BY <1>3, <1>4, <2>2 DEF InboxOK, WorkOK, Busy
  <2> QED
    BY <2>1, <2>2
<1>6. InboxOK'
  BY <1>2, <1>3, <1>4, <1>5 DEF Save, InboxOK
<1> QED
  BY <1>1, <1>2, <1>4, <1>6, RememberedAtWork, RememberedNext

LEMMA DieEffect ==
  ASSUME InboxOK, NEW d \in Drains, Die(d)
  PROVE  InboxOK' /\ saved \subseteq Remembered /\ Remembered' = saved
<1>1. Busy(d)
  BY DEF Die, Busy
<1>2. InboxOK' /\ work'[d] = Resting /\ \A e \in Drains \ {d} : work'[e] = work[e]
  <2>1. /\ work' = [work EXCEPT ![d] = Resting] /\ UNCHANGED saved
        /\ place' \in [Files -> Places] /\ goals' \in [Ts -> Nat] /\ deaths' \in Nat
    BY DEF Die, InboxOK
  <2> QED
    BY <2>1, RestingOK, WorkStep
<1>3. \A e \in Drains : ~Busy(e)'
  BY <1>1, <1>2, OthersRest DEF Busy, Resting
<1> QED
  BY <1>2, <1>3, RememberedNext DEF Remembered, Die

LEMMA DeliverEffect ==
  ASSUME InboxOK, NEW f \in Files, Deliver(f)
  PROVE  InboxOK' /\ Remembered' = Remembered
<1>1. place' \in [Files -> Places]
  BY DEF Deliver, InboxOK, Places
<1> QED
  BY <1>1 DEF Deliver, InboxOK, WorkOK, Busy, Remembered

-----------------------------------------------------------------------------
LEMMA InboxInit == Init => InboxOK
<1> SUFFICES ASSUME Init PROVE InboxOK
  OBVIOUS
<1>1. \A d \in Drains : WorkOK(work[d]) /\ ~Busy(d)
  BY RestingOK DEF Init, Busy, Resting
<1>2. IsFiniteSet(saved)
  BY FS_EmptySet DEF Init
<1> QED
  BY <1>1, <1>2 DEF Init, InboxOK, Places

LEMMA StillEffect ==
  ASSUME InboxOK, UNCHANGED vars
  PROVE  InboxOK' /\ Remembered' = Remembered
  BY DEF vars, InboxOK, WorkOK, Busy, Remembered

LEMMA InboxNext ==
  ASSUME InboxOK, [Next]_vars
  PROVE  InboxOK'
  BY EnterEffect, PassEffect, MoveEffect, OpenEffect, SaveEffect, DieEffect, DeliverEffect,
     StillEffect DEF Next, Drain

LEMMA InboxInvariant == Spec => []InboxOK
  BY InboxInit, InboxNext, PTL DEF Spec

-----------------------------------------------------------------------------
(* No message is lost. *)

LEMMA NothingLostInit == Init => NoMessageLost
<1> SUFFICES ASSUME Init PROVE NoMessageLost
  OBVIOUS
<1>1. Remembered = {}
  BY RangeEmpty DEF Init, Remembered, Resting
<1> QED
  BY <1>1 DEF Init, NoMessageLost

LEMMA NothingLostNext ==
  ASSUME InboxOK, NoMessageLost, [Next]_vars
  PROVE  NoMessageLost'
<1>1. ASSUME UNCHANGED goals, Remembered' \subseteq Remembered,
             \A f \in Files :
               /\ place'[f] = "done" => place[f] = "done" \/ TsOf[f] \in Remembered
               /\ place'[f] = "quarantine" => place[f] = "quarantine" \/ TsOf[f] = NULL
      PROVE  NoMessageLost'
  BY <1>1 DEF NoMessageLost
<1>2. ASSUME NEW f \in Files, Deliver(f)
      PROVE  NoMessageLost'
  BY <1>1, <1>2, DeliverEffect DEF Deliver, InboxOK
<1>3. ASSUME NEW d \in Drains, Enter(d)
      PROVE  NoMessageLost'
  BY <1>1, <1>3, EnterEffect DEF Enter
<1>4. ASSUME NEW d \in Drains, NEW f \in Files,
             Quarantine(d, f) \/ SkipSeen(d, f) \/ Refuse(d, f)
      PROVE  NoMessageLost'
  BY <1>1, <1>4, PassEffect DEF Quarantine, SkipSeen, Refuse, InboxOK
<1>5. ASSUME NEW d \in Drains, NEW f \in Files, OpenGoal(d, f)
      PROVE  NoMessageLost'
  <2>1. /\ TsOf[f] \in Ts /\ Remembered' = Remembered \cup {TsOf[f]}
        /\ goals' = [goals EXCEPT ![TsOf[f]] = @ + 1] /\ place' = place
        /\ goals \in [Ts -> Nat] /\ Remembered' \subseteq Ts
    <3>1. Remembered \subseteq Ts
      <4>1. Busy(d) /\ work[d].seen \in Seq(Ts)
        BY <1>5 DEF OpenGoal, At, Busy, InboxOK, WorkOK, WorkRow
      <4> QED
        BY <4>1, RememberedAtWork, RangeFacts
    <3> QED
      BY <1>5, <3>1, OpenEffect DEF OpenGoal, InboxOK
  <2>2. goals'[TsOf[f]] >= 1 /\ \A t \in Ts : goals[t] >= 1 => goals'[t] >= 1
    <3>1. ASSUME NEW t \in Ts PROVE goals[t] \in Nat /\ goals'[t] \in {goals[t], goals[t] + 1}
      BY <2>1
    <3>2. goals'[TsOf[f]] = goals[TsOf[f]] + 1
      BY <2>1
    <3>3. goals[TsOf[f]] \in Nat
      BY <2>1
    <3>4. goals'[TsOf[f]] >= 1
      BY <3>2, <3>3
    <3>5. ASSUME NEW t \in Ts, goals[t] >= 1 PROVE goals'[t] >= 1
      BY <3>1, <3>5
    <3> QED
      BY <3>4, <3>5
  <2>3. \A t \in Remembered' : goals'[t] >= 1
    BY <2>1, <2>2 DEF NoMessageLost
  <2>4. ASSUME NEW g \in Files, place'[g] = "done" PROVE goals'[TsOf[g]] >= 1
    <3>1. CASE TsOf[g] \in Ts
      BY <2>1, <2>2, <2>4, <3>1 DEF NoMessageLost
    <3>2. CASE TsOf[g] = NULL
      BY <2>1, <2>4, <3>2 DEF NoMessageLost
    <3> QED
      BY <3>1, <3>2
  <2> QED
    BY <2>1, <2>3, <2>4 DEF NoMessageLost
<1>6. ASSUME NEW d \in Drains, Move(d)
      PROVE  NoMessageLost'
  <2>1. Busy(d) /\ work[d].file \in Files /\ TsOf[work[d].file] \in Remembered
    <3>1. Busy(d) /\ work[d].file \in Files /\ TsOf[work[d].file] \in Range(work[d].seen)
      BY <1>6 DEF Move, Busy, InboxOK, WorkOK
    <3> QED
      BY <3>1, RememberedAtWork
  <2>2. UNCHANGED goals /\ Remembered' = Remembered
    BY <1>6, MoveEffect DEF Move
  <2>3. place' = place \/ place' = [place EXCEPT ![work[d].file] = "done"]
    BY <1>6 DEF Move
  <2> QED
    BY <1>1, <2>1, <2>2, <2>3 DEF InboxOK
<1>7. ASSUME NEW d \in Drains, Save(d)
      PROVE  NoMessageLost'
  <2>1. Remembered' \subseteq Remembered
    BY <1>7, SaveEffect, KeptSome
  <2>2. UNCHANGED <<goals, place>>
    BY <1>7 DEF Save
  <2> QED
    BY <1>1, <2>1, <2>2
<1>8. ASSUME NEW d \in Drains, Die(d)
      PROVE  NoMessageLost'
  BY <1>1, <1>8, DieEffect DEF Die
<1>9. CASE UNCHANGED vars
  BY <1>1, <1>9, StillEffect DEF vars
<1> QED
  BY <1>2, <1>3, <1>4, <1>5, <1>6, <1>7, <1>8, <1>9 DEF Next, Drain

(* Wherever drains end, the file of a message is in the inbox, or a goal   *)
(* was opened for the message, or the file cannot be read; and what is     *)
(* held for seen did open a goal.                                          *)
THEOREM MessagesAreKept == Spec => []NoMessageLost
  BY InboxInvariant, NothingLostInit, NothingLostNext, PTL DEF Spec

-----------------------------------------------------------------------------
(* The refinement of OpenOnce. *)

LEMMA OnceCounts == \A S : Once!Cardinality(S) = Cardinality(S)
  BY DEF Once!Cardinality, Cardinality, Once!IsFiniteSet, IsFiniteSet

LEMMA OnceInit == Init => Once!Init
<1> SUFFICES ASSUME Init PROVE Once!Init
  OBVIOUS
<1>1. Remembered = {}
  BY RangeEmpty DEF Init, Remembered, Resting
<1> QED
  BY <1>1 DEF Init, Once!Init

LEMMA OnceNext ==
  ASSUME InboxOK, [Next]_vars
  PROVE  [Once!Next]_Once!ovars
<1>1. CASE \E f \in Files : Deliver(f)
  BY <1>1, DeliverEffect DEF Deliver, Once!ovars
<1>2. ASSUME NEW d \in Drains, Enter(d)
      PROVE  UNCHANGED Once!ovars
  BY <1>2, EnterEffect DEF Enter, Once!ovars
<1>3. ASSUME NEW d \in Drains, NEW f \in Files,
             Quarantine(d, f) \/ SkipSeen(d, f) \/ Refuse(d, f)
      PROVE  UNCHANGED Once!ovars
  BY <1>3, PassEffect DEF Quarantine, SkipSeen, Refuse, Once!ovars
<1>4. ASSUME NEW d \in Drains, Move(d)
      PROVE  UNCHANGED Once!ovars
  BY <1>4, MoveEffect DEF Move, Once!ovars
<1>5. ASSUME NEW d \in Drains, NEW f \in Files, OpenGoal(d, f)
      PROVE  Once!Next
  <2>1. TsOf[f] \in Ts /\ Once!Open(TsOf[f])
    BY <1>5, OpenEffect DEF OpenGoal, Once!Open
  <2> QED
    BY <2>1 DEF Once!Next
<1>6. ASSUME NEW d \in Drains, Save(d)
      PROVE  Once!Next \/ UNCHANGED Once!ovars
  <2> DEFINE seen == work[d].seen
  <2>1. /\ seen \in Seq(Ts) /\ Distinct(seen) /\ UNCHANGED <<goals, deaths>>
        /\ Remembered = Range(seen) /\ Remembered' = Range(Kept(seen))
    BY <1>6, SaveEffect DEF Save
  <2>2. CASE Kept(seen) = seen
    BY <2>1, <2>2 DEF Once!ovars
  <2>3. CASE Kept(seen) # seen
    <3>1. /\ Range(Kept(seen)) \subseteq Range(seen)
          /\ Cardinality(Range(seen)) > MaxSeen
          /\ Cardinality(Range(Kept(seen))) = MaxSeen
      BY <2>1, <2>3, KeptSome
    <3>2. /\ Remembered' \subseteq Remembered /\ UNCHANGED <<goals, deaths>>
          /\ Cardinality(Remembered) > MaxSeen /\ Cardinality(Remembered') = MaxSeen
      <4> HIDE DEF seen
      <4> QED
        BY <2>1, <3>1
    <3>3. Once!Evict(Remembered') /\ Remembered' \in SUBSET Remembered
      BY <3>2, OnceCounts DEF Once!Evict
    <3> QED
      BY <3>3 DEF Once!Next
  <2> QED
    BY <2>2, <2>3
<1>7. ASSUME NEW d \in Drains, Die(d)
      PROVE  Once!Next
  <2>1. Once!Die(saved) /\ saved \in SUBSET Remembered
    BY <1>7, DieEffect DEF Die, Once!Die
  <2> QED
    BY <2>1 DEF Once!Next
<1>8. CASE UNCHANGED vars
  BY <1>8, StillEffect DEF vars, Once!ovars
<1> QED
  BY <1>1, <1>2, <1>3, <1>4, <1>5, <1>6, <1>7, <1>8 DEF Next, Drain

(* A message opens one goal for as long as it is remembered: whichever     *)
(* drains meet it, however often it is delivered and wherever they end, it *)
(* is forgotten only by a death or by the bound on what is kept.           *)
THEOREM InboxImplementsOpenOnce == Spec => ImplementsOpenOnce
  BY InboxInvariant, OnceInit, OnceNext, PTL DEF Spec, ImplementsOpenOnce, Once!Spec
=============================================================================
