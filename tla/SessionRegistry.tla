-------------------------- MODULE SessionRegistry --------------------------
(***************************************************************************)
(* The registry of recursive-language-model sessions (dottie_rlm/          *)
(* registry.py) and the turns that run on them (rlm.py).                   *)
(*                                                                         *)
(* Callers are threads of several processes.  The sessions a process has   *)
(* loaded, and the turns in flight, are its memory, under a thread lock.   *)
(* The index is a file, read and written back as a whole under a lock file *)
(* that is created exclusively, and unlinked by a waiter who believes its  *)
(* maker dead.                                                             *)
(***************************************************************************)
EXTENDS Integers, FiniteSets

CONSTANTS
  Callers,      \* threads
  Procs, ProcOf,\* the process of each
  Sessions,
  Works,        \* Works[c]: the sessions that c creates and addresses
  Parent,       \* the session a session is created under, or NULL
  Patient,      \* TRUE when no deadline passes while the lock's maker lives
  MaxCrashes,   \* bound of the model: processes that die
  NULL

ASSUME RegistryAssumption ==
  /\ ProcOf \in [Callers -> Procs]
  /\ Parent \in [Sessions -> Sessions \cup {NULL}]
  /\ Works \in [Callers -> SUBSET Sessions]
  /\ NULL \notin Sessions \cup Callers
  /\ Patient \in BOOLEAN /\ MaxCrashes \in Nat

VARIABLES
  index,      \* registry.json: the state of each session
  lockfile,   \* the caller that created the lock file, or NULL
  loaded,     \* loaded[p]: _live of process p
  busy,       \* busy[p][s]: _busy_depth
  frame,      \* where each caller is
  dead,
  stolen      \* history: a lock file was broken whose maker was alive

vars == <<index, lockfile, loaded, busy, frame, dead, stolen>>

\* op: the call; s: its session; copy: the index it read; popped: what a
\* sweep took out of _live; mine: the session whose object the caller has.
Rest == [op |-> "none", pc |-> "rest", s |-> NULL, copy |-> NULL, popped |-> {},
         mine |-> NULL]

Init ==
  /\ index = [s \in Sessions |-> "absent"]
  /\ lockfile = NULL
  /\ loaded = [p \in Procs |-> {}]
  /\ busy = [p \in Procs |-> [s \in Sessions |-> 0]]
  /\ frame = [c \in Callers |-> Rest]
  /\ dead = {}
  /\ stolen = FALSE

Alive(c) == ProcOf[c] \notin dead
At(c, pc) == Alive(c) /\ frame[c].pc = pc
Goes(c, pc) == [frame EXCEPT ![c].pc = pc]

\* The caller forgets its call; it keeps the session object it has.
Returned(c) == [frame EXCEPT ![c] = [Rest EXCEPT !.mine = frame[c].mine]]

\* self._lock is held from before the wait for the file lock to its release.
Locking == {"wait", "break", "apply", "unlock"}
ThreadFree(c) == \A b \in Callers : ProcOf[b] = ProcOf[c] => frame[b].pc \notin Locking

-----------------------------------------------------------------------------
(* The calls, up to their first wait for the lock file                     *)

Begin(c, op, s) ==
  /\ At(c, "rest") /\ ThreadFree(c)
  /\ frame' = [frame EXCEPT ![c].op = op, ![c].pc = "wait", ![c].s = s]
  /\ UNCHANGED <<index, lockfile, loaded, busy, dead, stolen>>

\* The id of a session is a new one.
Create(c, s) ==
  /\ index[s] = "absent" /\ \A b \in Callers : ~(frame[b].s = s /\ frame[b].op \in {"admit", "add"})
  /\ Begin(c, "admit", s)
Get(c, s)    == Begin(c, "get", s)
EvictIdle(c) == Begin(c, "sweep", NULL)

\* mark_done() pops the session under the thread lock, and asks nobody.
MarkDone(c, s) ==
  /\ At(c, "rest") /\ ThreadFree(c)
  /\ loaded' = [loaded EXCEPT ![ProcOf[c]] = @ \ {s}]
  /\ frame' = [frame EXCEPT ![c].op = "done", ![c].pc = "flush", ![c].s = s]
  /\ UNCHANGED <<index, lockfile, busy, dead, stolen>>

\* Runtime.run_turn() on the session object the caller has, whatever became
\* of it in the registry.
BeginTurn(c) ==
  /\ At(c, "rest") /\ frame[c].mine # NULL /\ ThreadFree(c)
  /\ busy' = [busy EXCEPT ![ProcOf[c]][frame[c].mine] = @ + 1]
  /\ frame' = Goes(c, "turn")
  /\ UNCHANGED <<index, lockfile, loaded, dead, stolen>>

\* Mutant: the flag is cleared, whoever else is in a turn.
Unbusy_Clear(n) == 0
Unbusy(n) == n - 1

\* The turn is over, or it raised; touch() follows a turn that did not.
EndTurn(c) ==
  /\ At(c, "turn") /\ ThreadFree(c)
  /\ busy' = [busy EXCEPT ![ProcOf[c]][frame[c].mine] = Unbusy(@)]
  /\ frame' = [frame EXCEPT ![c].op = "turn", ![c].pc = "flush", ![c].s = frame[c].mine]
  /\ UNCHANGED <<index, lockfile, loaded, dead, stolen>>

-----------------------------------------------------------------------------
(* The lock file                                                           *)

\* The index is read once the file is made.
Lock(c) ==
  /\ At(c, "wait") /\ lockfile = NULL
  /\ lockfile' = c
  /\ frame' = [frame EXCEPT ![c].copy = index, ![c].pc = "apply"]
  /\ UNCHANGED <<index, loaded, busy, dead, stolen>>

\* A waiter's deadline passes, whoever has the lock by then: it is set once
\* for the whole wait, however often the lock changes hands in between.
\* Patient leaves out the deadlines that pass while the lock is a living
\* call's; that each call holds it for less than timeout_s is not enough.
MayBreak == lockfile # NULL /\ (Patient => ~Alive(lockfile))

TimeOut(c) ==
  /\ At(c, "wait") /\ MayBreak
  /\ frame' = Goes(c, "break")
  /\ UNCHANGED <<index, lockfile, loaded, busy, dead, stolen>>

\* Mutant: it is announced and nothing else.
BreakLock_Announced(c) ==
  /\ At(c, "break")
  /\ frame' = Goes(c, "wait")
  /\ UNCHANGED <<index, lockfile, loaded, busy, dead, stolen>>

\* It unlinks the lock file there is now, and tries again.
BreakLock(c) ==
  /\ At(c, "break")
  /\ lockfile' = NULL
  /\ stolen' = (stolen \/ (lockfile # NULL /\ Alive(lockfile)))
  /\ frame' = Goes(c, "wait")
  /\ UNCHANGED <<index, loaded, busy, dead>>

-----------------------------------------------------------------------------
(* Under the lock: the whole index is written back                         *)

\* An exception: nothing is written.
Raises(c) ==
  /\ frame' = Goes(c, "unlock")
  /\ UNCHANGED <<index, lockfile, loaded, busy, dead, stolen>>

\* create() looks only whether the parent is known.
Admit(c) ==
  LET f == frame[c] IN
  /\ At(c, "apply") /\ f.op = "admit"
  /\ frame' = IF Parent[f.s] = NULL \/ f.copy[Parent[f.s]] # "absent"
              THEN Goes(c, "unlock") ELSE [frame EXCEPT ![c].op = "none", ![c].pc = "unlock"]
  /\ UNCHANGED <<index, lockfile, loaded, busy, dead, stolen>>

Add(c) ==
  LET f == frame[c] IN
  /\ At(c, "apply") /\ f.op = "add"
  /\ IF f.copy[f.s] # "absent" THEN Raises(c)
     ELSE /\ index' = [f.copy EXCEPT ![f.s] = "live"]
          /\ loaded' = [loaded EXCEPT ![ProcOf[c]] = @ \cup {f.s}]
          /\ frame' = [frame EXCEPT ![c].pc = "unlock", ![c].mine = f.s]
          /\ UNCHANGED <<lockfile, busy, dead, stolen>>

\* The object in memory, or one loaded anew: the index says live.
\* Session.load() may raise.
Address(c) ==
  LET f == frame[c]
      p == ProcOf[c] IN
  /\ At(c, "apply") /\ f.op = "get"
  /\ \/ /\ f.copy[f.s] \in {"absent", "done"} \/ f.s \notin loaded[p]
        /\ Raises(c)
     \/ /\ f.copy[f.s] \notin {"absent", "done"}
        /\ index' = IF f.s \in loaded[p] THEN f.copy ELSE [f.copy EXCEPT ![f.s] = "live"]
        /\ loaded' = [loaded EXCEPT ![p] = @ \cup {f.s}]
        /\ frame' = [frame EXCEPT ![c].pc = "unlock", ![c].mine = f.s]
        /\ UNCHANGED <<lockfile, busy, dead, stolen>>

Touch(c) ==
  LET f == frame[c] IN
  /\ At(c, "apply") /\ f.op = "touch"
  /\ IF f.copy[f.s] = "absent" THEN Raises(c)
     ELSE /\ index' = f.copy
          /\ frame' = Goes(c, "unlock")
          /\ UNCHANGED <<lockfile, loaded, busy, dead, stolen>>

Finish(c) ==
  LET f == frame[c] IN
  /\ At(c, "apply") /\ f.op = "done"
  /\ IF f.copy[f.s] = "absent" THEN Raises(c)
     ELSE /\ index' = [f.copy EXCEPT ![f.s] = "done"]
          /\ frame' = Goes(c, "unlock")
          /\ UNCHANGED <<lockfile, loaded, busy, dead, stolen>>

\* evict_idle(), step 1: the sessions that are live, that have no turn in
\* flight, and that were last active before a cutoff of the caller's.
Idle(c) == {s \in Sessions : frame[c].copy[s] = "live" /\ busy[ProcOf[c]][s] = 0}

Sweep(c) ==
  /\ At(c, "apply") /\ frame[c].op = "sweep"
  /\ \E old \in SUBSET Idle(c) :
       /\ loaded' = [loaded EXCEPT ![ProcOf[c]] = @ \ old]
       /\ frame' = [frame EXCEPT ![c].popped = old, ![c].pc = "unlock"]
  /\ UNCHANGED <<index, lockfile, busy, dead, stolen>>

\* Step 3: whatever is still live becomes idle.  Mutant: whatever it is.
StillLive_Any(copy, S) == S
StillLive(copy, S) == {s \in S : copy[s] = "live"}

Flip(c) ==
  LET f == frame[c] IN
  /\ At(c, "apply") /\ f.op = "flip"
  /\ index' = [s \in Sessions |-> IF s \in StillLive(f.copy, f.popped) THEN "idle"
                                  ELSE f.copy[s]]
  /\ frame' = Goes(c, "unlock")
  /\ UNCHANGED <<lockfile, loaded, busy, dead, stolen>>

\* The release unlinks the lock file there is.
Unlock(c) ==
  LET f == frame[c] IN
  /\ At(c, "unlock")
  /\ lockfile' = NULL
  /\ frame' = IF f.op = "admit" \/ (f.op = "sweep" /\ f.popped # {})
              THEN Goes(c, "flush") ELSE Returned(c)
  /\ UNCHANGED <<index, loaded, busy, dead, stolen>>

-----------------------------------------------------------------------------
(* Outside the lock: Session.save() and drop_kernel() of what was popped,  *)
(* and the way from busy() to touch()                                      *)

After == [admit |-> "add", done |-> "done", sweep |-> "flip", turn |-> "touch"]

\* A kernel that is dropped is dropped for whoever has the object.
Flush(c) ==
  /\ At(c, "flush") /\ ThreadFree(c)
  /\ frame' = [frame EXCEPT ![c].pc = "wait", ![c].op = After[@]]
  /\ UNCHANGED <<index, lockfile, loaded, busy, dead, stolen>>

\* save() raises (the trajectory on disk is longer, or corrupt), or the turn
\* did.
FlushRaises(c) ==
  /\ At(c, "flush")
  /\ frame' = Returned(c)
  /\ UNCHANGED <<index, lockfile, loaded, busy, dead, stolen>>

-----------------------------------------------------------------------------
Crash(p) ==
  /\ p \notin dead /\ Cardinality(dead) < MaxCrashes
  /\ dead' = dead \cup {p}
  /\ loaded' = [loaded EXCEPT ![p] = {}]
  /\ busy' = [busy EXCEPT ![p] = [s \in Sessions |-> 0]]
  /\ frame' = [c \in Callers |-> IF ProcOf[c] = p THEN Rest ELSE frame[c]]
  /\ UNCHANGED <<index, lockfile, stolen>>

Step(c) ==
  \/ Lock(c) \/ TimeOut(c) \/ BreakLock(c)
  \/ Admit(c) \/ Add(c) \/ Address(c) \/ Touch(c) \/ Finish(c) \/ Sweep(c) \/ Flip(c)
  \/ Unlock(c) \/ Flush(c) \/ FlushRaises(c)

Next ==
  \/ \E c \in Callers :
       \/ Step(c) \/ BeginTurn(c) \/ EndTurn(c) \/ EvictIdle(c)
       \/ \E s \in Works[c] : Create(c, s) \/ Get(c, s) \/ MarkDone(c, s)
  \/ \E p \in Procs : Crash(p)

Spec == Init /\ [][Next]_vars

\* Some call of each process goes on; a waiter's deadline passes.
Fairness == \A p \in Procs : WF_vars(\E c \in Callers : ProcOf[c] = p /\ Step(c))
FairSpec == Spec /\ Fairness

-----------------------------------------------------------------------------
(* Properties                                                              *)

\* As long as no waiter has broken the lock of a call that is alive, the
\* reads and writes of whole indexes implement single moves of single
\* sessions: no write undoes what another process wrote in between, no
\* session is removed, a sweep retires only what is still live, although
\* processes die with the lock file in place and others break it.
Index == INSTANCE SessionIndex
IndexUntilStolen == Index!Init /\ [][~stolen => Index!Next]_index

\* "Once an id is added it is never removed from the index" (create).
NeverRemoved ==
  [][\A s \in Sessions : index[s] # "absent" => index'[s] # "absent"]_vars

\* "evict_idle must never unload" a session with a turn in flight: no sweep
\* takes one out of memory, however many turns on it have ended since that
\* one began (registry.busy).
SweepSparesTurns ==
  [][\A c, b \in Callers :
       Sweep(c) /\ At(b, "turn") /\ ProcOf[b] = ProcOf[c]
         => frame[b].mine \notin frame'[c].popped]_vars

\* A lock file left by a process that died does not keep for ever a waiter
\* out (_file_lock).
Stale == lockfile # NULL /\ ~Alive(lockfile)
StaleLockBroken == (Stale /\ \E c \in Callers : At(c, "wait")) ~> ~Stale
=============================================================================
