----------------------------- MODULE SlackInbox -----------------------------
(***************************************************************************)
(* Draining the file inbox of Slack messages into goals                    *)
(* (jarvisd/slack_inbox.py).  Several drains may be started at once; each  *)
(* works under a file lock from loading the timestamps already seen to     *)
(* saving them.  A message may be delivered again in another file, and a   *)
(* drain may end at any step: it is killed, or a call in it raises         *)
(* (open_goal, because the database is locked; a move into quarantine).    *)
(***************************************************************************)
EXTENDS Integers, Sequences, FiniteSets, Functions

CONSTANTS
  Drains,      \* processes that drain the inbox
  Files,       \* file names, in the order sorted() puts them
  Ts,          \* timestamps that name messages, in the order of their text
  TsOf,        \* the message in a file, or NULL when it cannot be read
  MaxSeen,     \* MAX_SEEN
  MaxDeaths,   \* bound of the model: drains that end in the middle
  MaxStuck,    \* bound of the model: files that cannot be moved
  NULL

ASSUME InboxAssumption ==
  /\ Files \subseteq Nat /\ Ts \subseteq Nat
  /\ NULL \notin Ts /\ TsOf \in [Files -> Ts \cup {NULL}]
  /\ MaxSeen \in Nat \ {0} /\ MaxDeaths \in Nat /\ MaxStuck \in Nat

VARIABLES
  place,    \* where each file is
  goals,    \* how many goals were opened for each message
  saved,    \* the state file: the timestamps seen, in the order of their text
  work,     \* what each drain does
  deaths,
  stuck

vars == <<place, goals, saved, work, deaths, stuck>>

Places == {"unsent", "inbox", "done", "quarantine"}

\* A drain that is not under the lock has no memory.
Resting == [pc |-> "rest", listed |-> {}, seen |-> <<>>, file |-> NULL]

Init ==
  /\ place = [f \in Files |-> "unsent"]
  /\ goals = [t \in Ts |-> 0]
  /\ saved = {}
  /\ work = [d \in Drains |-> Resting]
  /\ deaths = 0 /\ stuck = 0

-----------------------------------------------------------------------------
\* The poller writes a file into the inbox, and may write the same message
\* again under another name.
Deliver(f) ==
  /\ place[f] = "unsent"
  /\ place' = [place EXCEPT ![f] = "inbox"]
  /\ UNCHANGED <<goals, saved, work, deaths, stuck>>

\* Mutant: the lock spans the save only.
LockFree_Unlocked == TRUE
LockFree == \A d \in Drains : work[d].pc = "rest"

\* _load_seen: the keys come back in the order json.dumps(sort_keys=True) put
\* them, not in the order they were recorded.
LoadSeen == CHOOSE seen \in [1..Cardinality(saved) -> saved] :
              /\ Range(seen) = saved
              /\ \A i, j \in DOMAIN seen : i < j => seen[i] < seen[j]
Listing  == {f \in Files : place[f] = "inbox"}

Enter(d) ==
  /\ work[d].pc = "rest" /\ LockFree
  /\ work' = [work EXCEPT ![d] = [pc |-> "read", listed |-> Listing, seen |-> LoadSeen,
                                  file |-> NULL]]
  /\ UNCHANGED <<place, goals, saved, deaths, stuck>>

\* The next file of the listing.
At(d, f) == /\ work[d].pc = "read" /\ f \in work[d].listed
            /\ \A g \in work[d].listed : f <= g

IsSeen(d, t) == t \in Range(work[d].seen)
Past(d, f)   == [work EXCEPT ![d].listed = @ \ {f}]
Recorded(d, f) == [Past(d, f) EXCEPT ![d].seen = Append(@, TsOf[f]),
                                     ![d].pc = "move", ![d].file = f]

Quarantine(d, f) ==
  /\ At(d, f) /\ TsOf[f] = NULL
  /\ place' = [place EXCEPT ![f] = "quarantine"]
  /\ work' = Past(d, f)
  /\ UNCHANGED <<goals, saved, deaths, stuck>>

\* The file of a message already seen stays where it is.
SkipSeen(d, f) ==
  /\ At(d, f) /\ TsOf[f] # NULL /\ IsSeen(d, TsOf[f])
  /\ work' = Past(d, f)
  /\ UNCHANGED <<place, goals, saved, deaths, stuck>>

\* Mutants: a message that is refused is recorded as seen, or quarantined.
Refuse_Recorded(d, f) ==
  /\ At(d, f) /\ TsOf[f] # NULL /\ ~IsSeen(d, TsOf[f])
  /\ work' = Recorded(d, f)
  /\ UNCHANGED <<place, goals, saved, deaths, stuck>>
Refuse_Quarantined(d, f) ==
  /\ At(d, f) /\ TsOf[f] # NULL /\ ~IsSeen(d, TsOf[f])
  /\ place' = [place EXCEPT ![f] = "quarantine"]
  /\ work' = Past(d, f)
  /\ UNCHANGED <<goals, saved, deaths, stuck>>

\* open_goal does not answer ok: the file stays for a later run.
Refuse(d, f) ==
  /\ At(d, f) /\ TsOf[f] # NULL /\ ~IsSeen(d, TsOf[f])
  /\ work' = Past(d, f)
  /\ UNCHANGED <<place, goals, saved, deaths, stuck>>

OpenGoal(d, f) ==
  /\ At(d, f) /\ TsOf[f] # NULL /\ ~IsSeen(d, TsOf[f])
  /\ goals' = [goals EXCEPT ![TsOf[f]] = @ + 1]
  /\ work' = Recorded(d, f)
  /\ UNCHANGED <<place, saved, deaths, stuck>>

\* The move to _done, or the OSError that is ignored.
Move(d) ==
  /\ work[d].pc = "move"
  /\ \/ /\ place' = [place EXCEPT ![work[d].file] = "done"]
        /\ UNCHANGED stuck
     \/ /\ stuck < MaxStuck /\ stuck' = stuck + 1
        /\ UNCHANGED place
  /\ work' = [work EXCEPT ![d].pc = "read", ![d].file = NULL]
  /\ UNCHANGED <<goals, saved, deaths>>

\* _save_seen drops the entries in front, and replaces the state file.
Kept(seen) == IF Len(seen) > MaxSeen
              THEN SubSeq(seen, Len(seen) - MaxSeen + 1, Len(seen)) ELSE seen

Save(d) ==
  /\ work[d].pc = "read" /\ work[d].listed = {}
  /\ saved' = Range(Kept(work[d].seen))
  /\ work' = [work EXCEPT ![d] = Resting]
  /\ UNCHANGED <<place, goals, deaths, stuck>>

\* The lock goes with the process, or with the exception; nothing is saved.
Die(d) ==
  /\ work[d].pc # "rest" /\ deaths < MaxDeaths
  /\ deaths' = deaths + 1
  /\ work' = [work EXCEPT ![d] = Resting]
  /\ UNCHANGED <<place, goals, saved, stuck>>

Drain(d) ==
  \/ Enter(d) \/ Move(d) \/ Save(d)
  \/ \E f \in Files : Quarantine(d, f) \/ SkipSeen(d, f) \/ Refuse(d, f) \/ OpenGoal(d, f)

Next ==
  \/ \E f \in Files : Deliver(f)
  \/ \E d \in Drains : Drain(d) \/ Die(d)

Spec == Init /\ [][Next]_vars

\* Drains are started again and again and each step of one returns; a goal
\* that is refused time and again is accepted in the end.
Fairness ==
  /\ WF_vars(\E d \in Drains : Drain(d))
  /\ \A f \in Files : SF_vars(\E d \in Drains : OpenGoal(d, f))

FairSpec == Spec /\ Fairness

-----------------------------------------------------------------------------
(* Properties                                                              *)

\* A redelivered message opens no second goal, whichever drain meets it and
\* wherever its first file is: each goal beyond the first is paid for by a
\* drain that ended before it saved, or by the bound on the timestamps kept.
Remembered == saved \cup UNION {Range(work[d].seen) : d \in Drains}
Once == INSTANCE OpenOnce WITH Messages <- Ts, MaxKnown <- MaxSeen,
                               opened <- goals, known <- Remembered
ImplementsOpenOnce == Once!Spec

\* No message is lost at any step a drain may end at: its file waits in the
\* inbox, or a goal was opened for it, or it is in quarantine because it
\* cannot be read; and whatever is held for seen did open a goal.
NoMessageLost ==
  /\ \A f \in Files :
       /\ place[f] = "done" => goals[TsOf[f]] >= 1
       /\ place[f] = "quarantine" => TsOf[f] = NULL
  /\ \A t \in Remembered : goals[t] >= 1

\* Every readable message that was delivered opens a goal in the end, and
\* every other one leaves the inbox.
EveryMessageHandled ==
  \A f \in Files :
    place[f] = "inbox" ~> IF TsOf[f] = NULL THEN place[f] = "quarantine"
                                            ELSE goals[TsOf[f]] >= 1
=============================================================================
