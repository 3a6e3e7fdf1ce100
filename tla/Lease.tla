-------------------------------- MODULE Lease --------------------------------
(***************************************************************************)
(* One row of the state table "leases" and the workers that compete for    *)
(* it: the change producer (lease.Service.RunWithLease), the consume       *)
(* session of a peer (Manager.runPeerLoop) and the snapshot worker of a    *)
(* table (snapshot.Service.withLease).  The three callers share the        *)
(* repository operations and the shape acquire / renew in the background / *)
(* run / release; they differ in what follows an error (StopOnError).      *)
(*                                                                         *)
(* Time is relative: instead of expires_at and NOW() the model keeps how   *)
(* many ticks of the DATABASE clock are left until expires_at (0: expired).*)
(* expires_at is computed from the pod's own clock (leaseExpiry), so a     *)
(* grant of worker w lasts TTL + Skew[w] database ticks.                   *)
(***************************************************************************)
EXTENDS Integers

CONSTANTS
  Workers,        \* callers of the acquire/run/release loop
  Owners,         \* instance ids (one uuid per process)
  NoOwner,        \* owner of the absent row
  Owner,          \* [Workers -> Owners]: the process a worker runs in
  TTL,            \* lease.ttl, in ticks
  RenewInterval,  \* lease.renew_interval, in ticks
  Skew,           \* [Workers -> Int]: pod clock minus database clock
  StopOnError,    \* TRUE for RunWithLease: it returns on an acquire error
  MaxLeaseFaults  \* bound: crashes, late renewals and failed statements

ASSUME LeaseAssumption ==
  /\ NoOwner \notin Owners
  /\ Owner \in [Workers -> Owners]
  /\ TTL \in Nat \ {0} /\ RenewInterval \in Nat \ {0}
  /\ RenewInterval < TTL
  /\ Skew \in [Workers -> Int]
  /\ StopOnError \in BOOLEAN
  /\ MaxLeaseFaults \in Nat

VARIABLES
  leaseRow,     \* the lease row: owner, generation, ticks left until expiry
  pc,           \* where each worker is in its loop
  held,         \* the models.Lease a worker got: generation, ticks left
  renewIn,      \* ticks until the worker's renew ticker fires
  leaseFaults   \* faults spent so far

leaseVars == <<leaseRow, pc, held, renewIn, leaseFaults>>

NoGrant == [generation |-> 0, left |-> 0]
NoRow == [owner |-> NoOwner, generation |-> 0, left |-> 0]

\* "canceled": the renew loop canceled the session, fn has not returned yet;
\* "ending": fn returned, the row is not released yet; "stopped": the loop
\* returned and the process shuts down.
States == {"idle", "sleeping", "running", "canceled", "ending", "stopped", "crashed"}

LeaseTypeOK ==
  /\ leaseRow \in [owner : Owners \cup {NoOwner}, generation : Nat, left : Nat]
  /\ pc \in [Workers -> States]
  /\ held \in [Workers -> [generation : Nat, left : Nat]]
  /\ renewIn \in [Workers -> 0..RenewInterval]
  /\ leaseFaults \in 0..MaxLeaseFaults

\* The row's key exists; expires_at <= NOW(); owner and generation match.
Present == leaseRow.owner # NoOwner
Expired == leaseRow.left = 0
Matches(w) == leaseRow.owner = Owner[w] /\ leaseRow.generation = held[w].generation

\* leaseExpiry: pod clock + ttl, seen from the database clock.
Fresh(w) == IF TTL + Skew[w] > 0 THEN TTL + Skew[w] ELSE 0

\* The worker still executes the function the lease protects.
Active(w) == pc[w] \in {"running", "canceled"}

CanFail == leaseFaults < MaxLeaseFaults
Fail == CanFail /\ leaseFaults' = leaseFaults + 1

LeaseInit ==
  /\ leaseRow = NoRow
  /\ pc = [w \in Workers |-> "idle"]
  /\ held = [w \in Workers |-> NoGrant]
  /\ renewIn = [w \in Workers |-> 0]
  /\ leaseFaults = 0

-----------------------------------------------------------------------------
(* TryStateAcquireLease: insert, or take the row over when it is expired or *)
(* already owned by this instance.                                          *)

\* Deliberately wrong variants of CanAcquire: the conflicting row is overwritten
\* without its WHERE clause; an expired row is not taken over.
CanAcquireUnguarded(w) == TRUE
CanAcquireOnlyOwn(w) == ~Present \/ leaseRow.owner = Owner[w]

CanAcquire(w) == ~Present \/ Expired \/ leaseRow.owner = Owner[w]

Acquired(w) ==
  [owner |-> Owner[w],
   generation |-> IF ~Present THEN 1
                  ELSE IF leaseRow.owner = Owner[w] THEN leaseRow.generation
                  ELSE leaseRow.generation + 1,
   left |-> Fresh(w)]

Acquire(w) ==
  /\ pc[w] = "idle"
  /\ CanAcquire(w)
  /\ leaseRow' = Acquired(w)
  /\ held' = [held EXCEPT ![w] = [generation |-> Acquired(w).generation,
                                  left |-> Fresh(w)]]
  /\ renewIn' = [renewIn EXCEPT ![w] = RenewInterval]
  /\ pc' = [pc EXCEPT ![w] = "running"]
  /\ UNCHANGED leaseFaults

AcquireMiss(w) ==
  /\ pc[w] = "idle"
  /\ ~CanAcquire(w)
  /\ pc' = [pc EXCEPT ![w] = "sleeping"]
  /\ UNCHANGED <<leaseRow, held, renewIn, leaseFaults>>

\* The call fails, before or after the statement took effect.
AcquireError(w) ==
  /\ pc[w] = "idle"
  /\ Fail
  /\ leaseRow' \in {leaseRow} \cup (IF CanAcquire(w) THEN {Acquired(w)} ELSE {})
  /\ pc' = [pc EXCEPT ![w] = IF StopOnError THEN "stopped" ELSE "sleeping"]
  /\ UNCHANGED <<held, renewIn>>

\* sleepWithContext returns.
Wake(w) ==
  /\ pc[w] = "sleeping"
  /\ pc' = [pc EXCEPT ![w] = "idle"]
  /\ UNCHANGED <<leaseRow, held, renewIn, leaseFaults>>

-----------------------------------------------------------------------------
(* renewLeaseLoop: on a tick of its ticker, RenewStateLease.                *)

RenewDue(w) == pc[w] = "running" /\ renewIn[w] = 0
CanRenew(w) == Matches(w) /\ ~Expired

\* Deliberately wrong variant of RenewOK: expires_at is not extended.
RenewOKNoExtend(w) ==
  /\ RenewDue(w)
  /\ CanRenew(w)
  /\ renewIn' = [renewIn EXCEPT ![w] = RenewInterval]
  /\ UNCHANGED <<leaseRow, held, pc, leaseFaults>>

RenewOK(w) ==
  /\ RenewDue(w)
  /\ CanRenew(w)
  /\ leaseRow' = [leaseRow EXCEPT !.left = Fresh(w)]
  /\ held' = [held EXCEPT ![w].left = Fresh(w)]
  /\ renewIn' = [renewIn EXCEPT ![w] = RenewInterval]
  /\ UNCHANGED <<pc, leaseFaults>>

RenewLost(w) ==
  /\ RenewDue(w)
  /\ ~CanRenew(w)
  /\ pc' = [pc EXCEPT ![w] = "canceled"]
  /\ UNCHANGED <<leaseRow, held, renewIn, leaseFaults>>

RenewError(w) ==
  /\ RenewDue(w)
  /\ Fail
  /\ leaseRow' \in {leaseRow} \cup (IF CanRenew(w) THEN {[leaseRow EXCEPT !.left = Fresh(w)]} ELSE {})
  /\ pc' = [pc EXCEPT ![w] = "canceled"]
  /\ UNCHANGED <<held, renewIn>>

-----------------------------------------------------------------------------
(* fn returns (by itself, or because its context was canceled); then the    *)
(* loop cancels, waits for the renew loop and releases.                     *)

SessionEnd(w) ==
  /\ Active(w)
  /\ pc' = [pc EXCEPT ![w] = "ending"]
  /\ renewIn' = [renewIn EXCEPT ![w] = 0]
  /\ UNCHANGED <<leaseRow, held, leaseFaults>>

\* ReleaseStateLease, then the next iteration at once (fn returned nil or was
\* canceled), after a sleep (any other error), or never (the producer's
\* ErrChangefeedCursorSourceMismatch).
AfterSession == {"idle", "sleeping"} \cup (IF StopOnError THEN {"stopped"} ELSE {})

Leave(w) ==
  /\ \E next \in AfterSession : pc' = [pc EXCEPT ![w] = next]
  /\ held' = [held EXCEPT ![w] = NoGrant]

\* Deliberately wrong variant of Release: the DELETE has no owner condition.
ReleaseUnguarded(w) ==
  /\ pc[w] = "ending"
  /\ leaseRow' = NoRow
  /\ Leave(w)
  /\ UNCHANGED <<renewIn, leaseFaults>>

Release(w) ==
  /\ pc[w] = "ending"
  /\ leaseRow' = IF Matches(w) THEN NoRow ELSE leaseRow
  /\ Leave(w)
  /\ UNCHANGED <<renewIn, leaseFaults>>

\* The error of ReleaseStateLease is ignored, whether or not the row went.
ReleaseError(w) ==
  /\ pc[w] = "ending"
  /\ Fail
  /\ leaseRow' \in {leaseRow} \cup (IF Matches(w) THEN {NoRow} ELSE {})
  /\ Leave(w)
  /\ UNCHANGED renewIn

Crash(w) ==
  /\ pc[w] \notin {"stopped", "crashed"}
  /\ Fail
  /\ pc' = [pc EXCEPT ![w] = "crashed"]
  /\ held' = [held EXCEPT ![w] = NoGrant]
  /\ renewIn' = [renewIn EXCEPT ![w] = 0]
  /\ UNCHANGED leaseRow

-----------------------------------------------------------------------------
(* CleanupExpiredStateLeases, run periodically by every process.            *)
CleanupExpired ==
  /\ Present /\ Expired
  /\ leaseRow' = NoRow
  /\ UNCHANGED <<pc, held, renewIn, leaseFaults>>

Pred(n) == IF n > 0 THEN n - 1 ELSE 0

Elapse ==
  /\ leaseRow' = [leaseRow EXCEPT !.left = Pred(leaseRow.left)]
  /\ held' = [w \in Workers |-> [held[w] EXCEPT !.left = Pred(held[w].left)]]
  /\ renewIn' = [w \in Workers |-> Pred(renewIn[w])]
  /\ UNCHANGED pc

\* A renewal or a release the loop is about to issue.
Overdue(w) == RenewDue(w) \/ pc[w] = "ending"

\* One tick of the database clock, every due renewal and release served.
Tick ==
  /\ \A w \in Workers : ~Overdue(w)
  /\ Elapse
  /\ UNCHANGED leaseFaults

\* A pause, a slow statement or a lost connection: time passes one of them.
LateTick ==
  /\ \E w \in Workers : Overdue(w)
  /\ Fail
  /\ Elapse

WorkerStep(w) ==
  \/ Acquire(w) \/ AcquireMiss(w) \/ AcquireError(w) \/ Wake(w)
  \/ RenewOK(w) \/ RenewLost(w) \/ RenewError(w)
  \/ SessionEnd(w) \/ Release(w) \/ ReleaseError(w) \/ Crash(w)

LeaseNext ==
  \/ \E w \in Workers : WorkerStep(w)
  \/ CleanupExpired
  \/ Tick
  \/ LateTick

LeaseSpec == LeaseInit /\ [][LeaseNext]_leaseVars

\* Every loop keeps running and time passes; a session may last forever, and
\* no fairness is asked of the cleanup job or of faults.
Fairness ==
  /\ WF_leaseVars(Tick)
  /\ \A w \in Workers :
       /\ WF_leaseVars(Acquire(w) \/ AcquireMiss(w) \/ Wake(w))
       /\ WF_leaseVars(RenewOK(w) \/ RenewLost(w))
       /\ WF_leaseVars(pc[w] = "canceled" /\ SessionEnd(w))
       /\ WF_leaseVars(Release(w))

FairSpec == LeaseSpec /\ Fairness

-----------------------------------------------------------------------------
(* Every worker has an instance id of its own.  True of the producer and of *)
(* the consume loop of one peer (one worker per process); not of the        *)
(* snapshot workers of two Consume streams served by the same process.      *)
OwnersDistinct == \A v, w \in Workers : Owner[v] = Owner[w] => v = w

(* A grant covers more than one renew interval: what Config.Validate's      *)
(* renew_interval < ttl gives when pod and database clocks agree.           *)
GrantsOutlastInterval == \A w \in Workers : TTL + Skew[w] > RenewInterval

\* Two workers never both execute their function under a grant that, by the
\* database clock, has not run out: whatever the pods' clock skew, crashes,
\* late renewals, lost replies and lease cleanups in between
\* (TryStateAcquireLease, RenewStateLease, ReleaseStateLease).
UnexpiredGrantExclusive ==
  \A v, w \in Workers :
    Active(v) /\ held[v].left > 0 /\ Active(w) /\ held[w].left > 0 => v = w

\* As long as every renewal is served in time and no statement fails, the
\* renew loop keeps the row with its worker: a running session is never
\* canceled and the lease never expires under it (renewLeaseLoop's interval
\* against the ttl of each grant).
TimelyHolderKeepsRow ==
  leaseFaults = 0 => \A w \in Workers : Active(w) => pc[w] = "running" /\ CanRenew(w)

LosesLiveRow ==
  /\ Present /\ ~Expired
  /\ leaseRow'.owner # leaseRow.owner \/ leaseRow'.generation # leaseRow.generation

ReleasesOwnRow ==
  \E w \in Workers : pc[w] = "ending" /\ Matches(w) /\ pc'[w] # "ending"

\* An unexpired row is removed or changes hands only through the release of
\* the very session that was granted this owner and generation: a stale
\* session's release, a competitor's acquire or the cleanup job never take it
\* (the WHERE clauses of TryStateAcquireLease and ReleaseStateLease).
LiveRowLostOnlyByItsRelease == [][LosesLiveRow => ReleasesOwnRow]_leaseVars

\* Failover: again and again some worker is in a session, unless every loop
\* stopped or crashed; the row of a dead holder does not block the others.
Failover ==
  []<>(\/ \E w \in Workers : pc[w] = "running"
       \/ \A w \in Workers : pc[w] \in {"stopped", "crashed"})
=============================================================================
