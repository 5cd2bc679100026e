-------------------------- MODULE ExperimentQueue --------------------------
(***************************************************************************)
(* The experiment queues of dottie-loop (experiment.py) over the one       *)
(* retraining lease on disk (LeaseFile in closed_loop.py).                 *)
(*                                                                         *)
(* Every process has an ExperimentQueue and a ResourceBroker of its own in *)
(* memory: its jobs and the cpu and disk leases die with it.  The GPU      *)
(* lease is a file all processes share; each call on it reads the clock    *)
(* first and then waits for the file lock, so it judges, and writes, with  *)
(* a time that is already past.  The caller of claim() has looked up the   *)
(* runners that are alive even before that.                                *)
(***************************************************************************)
EXTENDS Integers, FiniteSets

CONSTANTS
  Procs,        \* processes that run an experiment queue
  OwnersOf,     \* the names each of them claims under: nobody else's names
  Jobs,         \* job numbers, in the order of submission to a queue
  ResourceOf,   \* what a job of a queue needs: "gpu", "cpu" or "disk"
  ProposerOf,   \* the owner that proposed it, or NULL
  Watching,     \* TRUE when claim() is given the runners that are alive
  Ttl,          \* ticks until a lease expires
  MaxPause,     \* ticks between looking up the runners and reading the clock
  MaxLag,       \* bound of the model: ticks a call waits for the file lock
  MaxCrashes,   \* bound of the model: processes that die
  NULL

AllOwners == UNION {OwnersOf[p] : p \in Procs}
Pooled    == {"cpu", "disk"}
Outcomes  == {"succeeded", "failed"}   \* fail() records "failed" or "debug"
Claimed   == {"leased", "running"}
Statuses  == {"absent", "pending"} \cup Claimed \cup Outcomes

ASSUME JobsAssumption == Jobs \subseteq Nat /\ ResourceOf \in [Procs -> [Jobs -> Pooled \cup {"gpu"}]]
ASSUME NamesAssumption ==
  /\ \A p, q \in Procs : p # q => OwnersOf[p] \cap OwnersOf[q] = {}
  /\ NULL \notin AllOwners
ASSUME BoundsAssumption ==
  /\ Ttl \in Nat \ {0} /\ MaxPause \in Nat /\ MaxLag \in Nat /\ MaxCrashes \in Nat
  /\ Watching \in BOOLEAN

(* What the lease asks of the callers of claim(), and the code nowhere     *)
(* enforces: that they pass the runners that are alive, and that what they *)
(* pass is younger than a lease when acquire() reads the clock.            *)
Informed == Watching /\ MaxPause < Ttl

VARIABLES
  alive,        \* the processes that run
  status,       \* status[p][j]: job j of p's queue
  owner,        \* owner[p][j]: who claimed it
  held,         \* held[p]: p's cpu and disk leases
  lease,        \* the lease file: its owner, the ticks left until it expires
                \* (negative: expired), and the job it was taken for (history)
  call,         \* the call a process is in, and the ticks since it looked up
                \* the runners ("look") or read the clock
  crashes

vars == <<alive, status, owner, held, lease, call, crashes>>

NoLease == [owner |-> NULL, left |-> 0, for |-> NULL]
NoCall  == [op |-> "none", who |-> NULL, job |-> NULL, lag |-> 0, live |-> {},
            outcome |-> NULL]

\* live_runners: the names of the processes the caller can see, or the
\* default of no names.
LiveRunners == IF Watching THEN UNION {OwnersOf[p] : p \in alive} ELSE {}

Calls(op, o, j) == [NoCall EXCEPT !.op = op, !.who = o, !.job = j]
Ready(p) == p \in alive /\ call[p].op = "none"

Init ==
  /\ alive = Procs
  /\ status = [p \in Procs |-> [j \in Jobs |-> "absent"]]
  /\ owner = [p \in Procs |-> [j \in Jobs |-> NULL]]
  /\ held = [p \in Procs |-> [r \in Pooled |-> NULL]]
  /\ lease = NoLease
  /\ call = [p \in Procs |-> NoCall]
  /\ crashes = 0

-----------------------------------------------------------------------------
(* submit() and claim()                                                    *)

Submit(p, j) ==
  /\ Ready(p)
  /\ status[p][j] = "absent"
  /\ \A i \in Jobs : i < j => status[p][i] # "absent"
  /\ status' = [status EXCEPT ![p][j] = "pending"]
  /\ UNCHANGED <<alive, owner, held, lease, call, crashes>>

\* A claim looks at the first pending job it may take and at no other: r is
\* a resource, or NULL for any.
Fits(p, j, r)  == r \in {NULL, ResourceOf[p][j]}
First(p, r, j)  == /\ status[p][j] = "pending" /\ Fits(p, j, r)
                   /\ \A i \in Jobs : i < j /\ status[p][i] = "pending" => ~Fits(p, i, r)
Refused(p, o, j) == ProposerOf[p][j] = o

ClaimPooled(p, o, r, j) ==
  /\ Ready(p) /\ o \in OwnersOf[p]
  /\ First(p, r, j) /\ ~Refused(p, o, j) /\ ResourceOf[p][j] \in Pooled
  /\ held[p][ResourceOf[p][j]] = NULL
  /\ held' = [held EXCEPT ![p][ResourceOf[p][j]] = o]
  /\ status' = [status EXCEPT ![p][j] = "leased"]
  /\ owner' = [owner EXCEPT ![p][j] = o]
  /\ UNCHANGED <<alive, lease, call, crashes>>

\* The caller looks up who is alive, and claim() comes to its GPU job ...
ClaimGpu(p, o, r, j) ==
  /\ Ready(p) /\ o \in OwnersOf[p]
  /\ First(p, r, j) /\ ~Refused(p, o, j) /\ ResourceOf[p][j] = "gpu"
  /\ call' = [call EXCEPT ![p] = [Calls("look", o, j) EXCEPT !.live = LiveRunners]]
  /\ UNCHANGED <<alive, status, owner, held, lease, crashes>>

\* ... and later LeaseFile.acquire() reads the clock.
ReadClock(p) ==
  /\ call[p].op = "look"
  /\ call' = [call EXCEPT ![p].op = "acquire", ![p].lag = 0]
  /\ UNCHANGED <<alive, status, owner, held, lease, crashes>>

\* Mutants: the clock is read under the file lock, later than the runners
\* were looked up; acquire() looks at the expiry only, or not at all; a job
\* that was not started cannot end.
LeaseLive_Now(lag) == lease.owner # NULL /\ lease.left > 0
MayAcquire_Expired(c) == lease.owner = NULL \/ lease.left + c.lag <= 0
MayAcquire_Never(c) == lease.owner = NULL
MayFinish_Running(p, o, j) == Ready(p) /\ owner[p][j] = o /\ o # NULL /\ status[p][j] = "running"

\* The lease is judged by the time the call read, lag ticks ago.
LeaseLive(lag) == lease.owner # NULL /\ lease.left + lag > 0
MayAcquire(c) == lease.owner = NULL \/ (~LeaseLive(c.lag) /\ lease.owner \notin c.live)

\* acquire() under the file lock; claim() then marks its job.
Acquire(p) ==
  /\ call[p].op = "acquire"
  /\ LET c == call[p]
     IN  IF MayAcquire(c)
         THEN /\ lease' = [owner |-> c.who, left |-> Ttl - c.lag, for |-> <<p, c.job>>]
              /\ status' = [status EXCEPT ![p][c.job] = "leased"]
              /\ owner' = [owner EXCEPT ![p][c.job] = c.who]
         ELSE UNCHANGED <<lease, status, owner>>
  /\ call' = [call EXCEPT ![p] = NoCall]
  /\ UNCHANGED <<alive, held, crashes>>

-----------------------------------------------------------------------------
(* start(), heartbeat(), complete() and fail()                             *)

Start(p, j) ==
  /\ Ready(p) /\ status[p][j] = "leased"
  /\ status' = [status EXCEPT ![p][j] = "running"]
  /\ UNCHANGED <<alive, owner, held, lease, call, crashes>>

\* A heartbeat of anyone but the owner changes nothing.
HeartbeatGpu(p) ==
  /\ Ready(p) /\ lease.owner \in OwnersOf[p]
  /\ call' = [call EXCEPT ![p] = Calls("heartbeat", lease.owner, NULL)]
  /\ UNCHANGED <<alive, status, owner, held, lease, crashes>>

\* The owner revives its lease, an expired one too.
Heartbeat(p) ==
  /\ call[p].op = "heartbeat"
  /\ lease' = IF lease.owner = call[p].who
              THEN [lease EXCEPT !.left = Ttl - call[p].lag] ELSE lease
  /\ call' = [call EXCEPT ![p] = NoCall]
  /\ UNCHANGED <<alive, status, owner, held, crashes>>

\* complete() and fail(): the checks of _owned and _held.
MayFinish(p, o, j) == Ready(p) /\ owner[p][j] = o /\ o # NULL /\ status[p][j] \in Claimed

FinishPooled(p, o, j, out) ==
  /\ MayFinish(p, o, j) /\ ResourceOf[p][j] \in Pooled
  /\ held[p][ResourceOf[p][j]] = o
  /\ held' = [held EXCEPT ![p][ResourceOf[p][j]] = NULL]
  /\ status' = [status EXCEPT ![p][j] = out]
  /\ UNCHANGED <<alive, owner, lease, call, crashes>>

FinishGpu(p, o, j, out) ==
  /\ MayFinish(p, o, j) /\ ResourceOf[p][j] = "gpu"
  /\ call' = [call EXCEPT ![p] = [Calls("release", o, j) EXCEPT !.outcome = out]]
  /\ UNCHANGED <<alive, status, owner, held, lease, crashes>>

\* The lease goes first; a release that is refused ends the call.
Release(p) ==
  /\ call[p].op = "release"
  /\ IF lease.owner = call[p].who
     THEN /\ lease' = NoLease
          /\ call' = [call EXCEPT ![p].op = "record"]
     ELSE /\ call' = [call EXCEPT ![p] = NoCall]
          /\ UNCHANGED lease
  /\ UNCHANGED <<alive, status, owner, held, crashes>>

Record(p) ==
  /\ call[p].op = "record"
  /\ status' = [status EXCEPT ![p][call[p].job] = call[p].outcome]
  /\ call' = [call EXCEPT ![p] = NoCall]
  /\ UNCHANGED <<alive, owner, held, lease, crashes>>

-----------------------------------------------------------------------------
(* Time, and processes that die and come back                              *)

\* An expired lease stays expired: its age is counted no further than a call
\* can look back.
Aged(l) == IF l.owner # NULL /\ l.left > -MaxLag THEN [l EXCEPT !.left = @ - 1] ELSE l

Timed == {"look", "acquire", "heartbeat"}
Tick ==
  /\ \A p \in Procs : call[p].op \in Timed =>
       call[p].lag < IF call[p].op = "look" THEN MaxPause ELSE MaxLag
  /\ lease' = Aged(lease)
  /\ call' = [p \in Procs |-> IF call[p].op \in Timed
                              THEN [call[p] EXCEPT !.lag = @ + 1] ELSE call[p]]
  /\ UNCHANGED <<alive, status, owner, held, crashes>>

Crash(p) ==
  /\ p \in alive /\ crashes < MaxCrashes
  /\ crashes' = crashes + 1
  /\ alive' = alive \ {p}
  /\ status' = [status EXCEPT ![p] = [j \in Jobs |-> "absent"]]
  /\ owner' = [owner EXCEPT ![p] = [j \in Jobs |-> NULL]]
  /\ held' = [held EXCEPT ![p] = [r \in Pooled |-> NULL]]
  /\ call' = [call EXCEPT ![p] = NoCall]
  /\ UNCHANGED lease

Restart(p) ==
  /\ p \notin alive
  /\ alive' = alive \cup {p}
  /\ UNCHANGED <<status, owner, held, lease, call, crashes>>

-----------------------------------------------------------------------------
Resources == Pooled \cup {"gpu", NULL}

Step(p) ==
  \/ Heartbeat(p) \/ HeartbeatGpu(p) \/ ReadClock(p) \/ Acquire(p) \/ Release(p) \/ Record(p)
  \/ \E j \in Jobs :
       \/ Submit(p, j) \/ Start(p, j)
       \/ \E o \in OwnersOf[p] :
            \/ \E r \in Resources : ClaimPooled(p, o, r, j) \/ ClaimGpu(p, o, r, j)
            \/ \E out \in Outcomes : FinishPooled(p, o, j, out) \/ FinishGpu(p, o, j, out)

Next == Tick \/ \E p \in Procs : Step(p) \/ Crash(p) \/ Restart(p)

Spec == Init /\ [][Next]_vars

\* A call that has begun returns; time passes; a runner tries again for the
\* GPU while one of its jobs needs it, and reports in the end what became of
\* a job it claimed.  Nobody has to start, to heartbeat or to come back.
Fairness ==
  /\ WF_vars(Tick)
  /\ \A p \in Procs :
       /\ WF_vars(ReadClock(p)) /\ WF_vars(Acquire(p)) /\ WF_vars(Heartbeat(p))
       /\ WF_vars(Release(p)) /\ WF_vars(Record(p))
       /\ WF_vars(\E j \in Jobs, o \in OwnersOf[p], r \in Resources : ClaimGpu(p, o, r, j))
       /\ SF_vars(\E j \in Jobs, o \in OwnersOf[p], out \in Outcomes : FinishGpu(p, o, j, out))

FairSpec == Spec /\ Fairness

-----------------------------------------------------------------------------
(* Properties                                                              *)

\* The jobs that use the GPU: from the lease that claim() obtained to the
\* release in complete() or fail(), or the end of their process.
Releasing(p, j) == call[p].op = "record" /\ call[p].job = j
Using == {u \in Procs \X Jobs :
            /\ ResourceOf[u[1]][u[2]] = "gpu"
            /\ status[u[1]][u[2]] \in Claimed
            /\ ~Releasing(u[1], u[2])}

\* A job that uses the GPU holds the lease that was taken for it, in its
\* owner's name, however old the times are that other calls judge it by: a
\* runner that is alive keeps its lease when it expires (LeaseFile.acquire,
\* provided that its callers are Informed).
UserHoldsLease ==
  \A p \in Procs, j \in Jobs :
    <<p, j>> \in Using => /\ lease.for = <<p, j>>
                          /\ lease.owner = owner[p][j]
                          /\ owner[p][j] \in OwnersOf[p]

\* claim(), complete(), fail(), crashes and the expiry of the lease together
\* implement a mutex on the GPU: no job takes it before the last has left.
Mutex == INSTANCE GpuMutex WITH Uses <- Procs \X Jobs, using <- Using
ImplementsMutex == Mutex!Spec

\* A claimed GPU job reaches an outcome, unless its process dies: the release
\* that comes before the outcome is not refused for ever (if Informed).
OutcomeLands ==
  \A p \in Procs, j \in Jobs :
    <<p, j>> \in Using ~> (<<p, j>> \notin Using \/ p \notin alive)

\* A lease whose owner died is taken over by a runner that wants the GPU,
\* unless a runner of the dead one's name comes back: it is then alive, and
\* its expired lease is left to it.
WantsGpu(q) == \E j \in Jobs, o \in OwnersOf[q] : First(q, "gpu", j) /\ ~Refused(q, o, j)
DeadReclaimed ==
  \A p, q \in Procs :
    (lease.owner \in OwnersOf[p] /\ p \notin alive /\ q \in alive /\ WantsGpu(q))
      ~> (lease.owner \notin OwnersOf[p] \/ p \in alive \/ q \notin alive)
=============================================================================
