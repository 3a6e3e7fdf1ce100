---------------------------- MODULE ControlProofs ----------------------------
(***************************************************************************)
(* Proofs about the components of a region that hold no replicated rows:   *)
(* the leases that keep its processes apart, for every set of workers,     *)
(* ttl, renew interval, clock skew and number of faults; the encryption    *)
(* keys, for any sources, key ids, retries and any number of changes,      *)
(* failing loads and writes; and the migrations and the life of a process, *)
(* for any number of jobs, migrations, peers, deaths and failures, and for *)
(* any configuration.                                                      *)
(***************************************************************************)
EXTENDS Lease, Keys, Process, SequenceTheorems, TLAPS

\* Leaves without a backend of their own are the SMT solver's.
USE SMTT(300)

-----------------------------------------------------------------------------
(* Leases: arithmetic of the countdowns. *)

LEMMA FreshNat == ASSUME NEW w \in Workers PROVE Fresh(w) \in Nat
BY LeaseAssumption DEF Fresh

LEMMA PredNat == ASSUME NEW n \in Nat PROVE Pred(n) \in Nat /\ Pred(n) <= n
BY DEF Pred

LEMMA PredInterval ==
  ASSUME NEW n \in 0..RenewInterval PROVE Pred(n) \in 0..RenewInterval
BY LeaseAssumption DEF Pred

LEMMA AcquiredType ==
  ASSUME LeaseTypeOK, NEW w \in Workers
  PROVE  Acquired(w) \in [owner : Owners \cup {NoOwner}, generation : Nat, left : Nat]
BY LeaseAssumption, FreshNat DEF Acquired, LeaseTypeOK

-----------------------------------------------------------------------------
\* The type invariant: every action of the three lease loops keeps the row, the
\* grants and the timers in their domains.
THEOREM LeaseTypeCorrect == LeaseSpec => []LeaseTypeOK
<1>1. LeaseInit => LeaseTypeOK
  BY LeaseAssumption DEF LeaseInit, LeaseTypeOK, NoRow, NoGrant, States
<1>2. LeaseTypeOK /\ [LeaseNext]_leaseVars => LeaseTypeOK'
  <2> SUFFICES ASSUME LeaseTypeOK, [LeaseNext]_leaseVars PROVE LeaseTypeOK'
    OBVIOUS
  <2> USE LeaseAssumption DEF LeaseTypeOK, States
  <2>1. ASSUME NEW w \in Workers, Acquire(w) PROVE LeaseTypeOK'
    BY <2>1, FreshNat, AcquiredType DEF Acquire
  <2>2. ASSUME NEW w \in Workers, AcquireMiss(w) PROVE LeaseTypeOK'
    BY <2>2 DEF AcquireMiss
  <2>3. ASSUME NEW w \in Workers, AcquireError(w) PROVE LeaseTypeOK'
    BY <2>3, AcquiredType DEF AcquireError, Fail, CanFail
  <2>4. ASSUME NEW w \in Workers, Wake(w) PROVE LeaseTypeOK'
    BY <2>4 DEF Wake
  <2>5. ASSUME NEW w \in Workers, RenewOK(w) PROVE LeaseTypeOK'
    <3>1. Fresh(w) \in Nat /\ [held[w] EXCEPT !.left = Fresh(w)] \in [generation : Nat, left : Nat]
      BY FreshNat
    <3>2. held' \in [Workers -> [generation : Nat, left : Nat]]
      BY <2>5, <3>1 DEF RenewOK
    <3> QED
      BY SMTT(300), <2>5, <3>1, <3>2 DEF RenewOK
  <2>6. ASSUME NEW w \in Workers, RenewLost(w) PROVE LeaseTypeOK'
    BY <2>6 DEF RenewLost
  <2>7. ASSUME NEW w \in Workers, RenewError(w) PROVE LeaseTypeOK'
    BY <2>7, FreshNat DEF RenewError, Fail, CanFail
  <2>8. ASSUME NEW w \in Workers, SessionEnd(w) PROVE LeaseTypeOK'
    BY <2>8 DEF SessionEnd
  <2>9. ASSUME NEW w \in Workers, Release(w) PROVE LeaseTypeOK'
    BY <2>9 DEF Release, Leave, AfterSession, NoRow, NoGrant
  <2>10. ASSUME NEW w \in Workers, ReleaseError(w) PROVE LeaseTypeOK'
    BY <2>10 DEF ReleaseError, Leave, AfterSession, NoGrant, NoRow, Fail, CanFail
  <2>11. ASSUME NEW w \in Workers, Crash(w) PROVE LeaseTypeOK'
    BY <2>11 DEF Crash, NoGrant, Fail, CanFail
  <2>12. CASE CleanupExpired
    BY <2>12 DEF CleanupExpired, NoRow
  <2>13. ASSUME Elapse PROVE /\ leaseRow' \in [owner : Owners \cup {NoOwner}, generation : Nat, left : Nat]
                            /\ pc' \in [Workers -> States]
                            /\ held' \in [Workers -> [generation : Nat, left : Nat]]
                            /\ renewIn' \in [Workers -> 0..RenewInterval]
    BY ZenonT(300), <2>13, PredNat, PredInterval DEF Elapse
  <2>14. CASE Tick
    BY <2>14, <2>13 DEF Tick
  <2>15. CASE LateTick
    BY <2>15, <2>13 DEF LateTick, Fail, CanFail
  <2>16. CASE UNCHANGED leaseVars
    BY SMTT(300), <2>16 DEF leaseVars
  <2> QED
    BY <2>1, <2>2, <2>3, <2>4, <2>5, <2>6, <2>7, <2>8, <2>9, <2>10, <2>11,
       <2>12, <2>14, <2>15, <2>16 DEF LeaseNext, WorkerStep
<1> QED
  BY <1>1, <1>2, PTL DEF LeaseSpec

-----------------------------------------------------------------------------
(* UnexpiredGrantExclusive is not inductive: it says nothing of the row.  A *)
(* grant that has not run out is backed by the row, which outlasts it, and  *)
(* the row has one owner.                                                   *)

GrantBacked ==
  \A w \in Workers : Active(w) /\ held[w].left > 0 =>
    Matches(w) /\ leaseRow.left >= held[w].left /\ held[w].left <= Fresh(w)

LEMMA GrantBackedStep ==
  ASSUME OwnersDistinct, LeaseTypeOK, GrantBacked, [LeaseNext]_leaseVars
  PROVE  GrantBacked'
<1> USE LeaseAssumption DEF LeaseTypeOK, GrantBacked, Active, Matches, States
<1>1. ASSUME NEW w \in Workers, CanAcquire(w), NEW v \in Workers, v # w, Active(v), held[v].left > 0
      PROVE  FALSE
  BY <1>1 DEF CanAcquire, OwnersDistinct, Present, Expired
<1>2. ASSUME NEW w \in Workers, Acquire(w) PROVE GrantBacked'
  BY <1>1, <1>2, FreshNat DEF Acquire, Acquired
<1>3. ASSUME NEW w \in Workers, AcquireMiss(w) PROVE GrantBacked'
  BY <1>3 DEF AcquireMiss
<1>4. ASSUME NEW w \in Workers, AcquireError(w) PROVE GrantBacked'
  BY <1>4, <1>1 DEF AcquireError
<1>5. ASSUME NEW w \in Workers, Wake(w) PROVE GrantBacked'
  BY <1>5 DEF Wake
<1>6. ASSUME NEW w \in Workers, RenewOK(w) PROVE GrantBacked'
  <2>1. ASSUME NEW v \in Workers, v # w, Active(v), held[v].left > 0 PROVE FALSE
    BY <1>6, <2>1 DEF RenewOK, CanRenew, OwnersDistinct
  <2>2. Fresh(w) \in Nat
    BY FreshNat
  <2>3. \A v \in Workers \ {w} : held'[v] = held[v] /\ pc'[v] = pc[v]
    BY <1>6 DEF RenewOK
  <2>4. held'[w] = [held[w] EXCEPT !.left = Fresh(w)] /\ leaseRow' = [leaseRow EXCEPT !.left = Fresh(w)]
    BY <1>6 DEF RenewOK
  <2> QED
    BY <1>6, <2>1, <2>2, <2>3, <2>4 DEF RenewOK, CanRenew
<1>7. ASSUME NEW w \in Workers, RenewLost(w) PROVE GrantBacked'
  BY <1>7 DEF RenewLost, RenewDue
<1>8. ASSUME NEW w \in Workers, RenewError(w) PROVE GrantBacked'
  BY <1>8, FreshNat DEF RenewError, RenewDue, CanRenew, OwnersDistinct
<1>9. ASSUME NEW w \in Workers, SessionEnd(w) PROVE GrantBacked'
  BY <1>9 DEF SessionEnd
<1>10. ASSUME NEW w \in Workers, Release(w) PROVE GrantBacked'
  BY <1>10 DEF Release, Leave, AfterSession, OwnersDistinct
<1>11. ASSUME NEW w \in Workers, ReleaseError(w) PROVE GrantBacked'
  BY <1>11 DEF ReleaseError, Leave, AfterSession, OwnersDistinct
<1>12. ASSUME NEW w \in Workers, Crash(w) PROVE GrantBacked'
  BY <1>12 DEF Crash
<1>13. CASE CleanupExpired
  BY <1>13 DEF CleanupExpired, Expired
<1>14. ASSUME Elapse PROVE GrantBacked'
  BY <1>14, FreshNat DEF Elapse, Pred
<1>15. CASE UNCHANGED leaseVars
  BY <1>15 DEF leaseVars
<1> QED
  BY SMTT(300), <1>2, <1>3, <1>4, <1>5, <1>6, <1>7, <1>8, <1>9, <1>10, <1>11, <1>12,
     <1>13, <1>14, <1>15 DEF LeaseNext, WorkerStep, Tick, LateTick

\* Two workers with different instance ids never both execute their function
\* under a grant that has not run out, whatever the ttl, the renew interval, the
\* skew of the pods' clocks and the number of crashes, late renewals and lost
\* replies (TryStateAcquireLease, RenewStateLease, ReleaseStateLease).
THEOREM GrantExclusion ==
  ASSUME OwnersDistinct PROVE LeaseSpec => []UnexpiredGrantExclusive
<1>1. LeaseInit => GrantBacked
  BY DEF LeaseInit, GrantBacked, Active
<1>2. LeaseTypeOK /\ GrantBacked /\ [LeaseNext]_leaseVars => GrantBacked'
  BY GrantBackedStep
<1>3. GrantBacked => UnexpiredGrantExclusive
  BY DEF GrantBacked, UnexpiredGrantExclusive, Matches, OwnersDistinct
<1> QED
  BY <1>1, <1>2, <1>3, LeaseTypeCorrect, PTL DEF LeaseSpec

-----------------------------------------------------------------------------
(* While nothing failed, every session's row outlasts its next renewal.     *)

TimelyInv ==
  leaseFaults = 0 => \A w \in Workers : Active(w) =>
                  pc[w] = "running" /\ Matches(w) /\ leaseRow.left > renewIn[w]

LEMMA TimelyStep ==
  ASSUME OwnersDistinct, GrantsOutlastInterval, LeaseTypeOK, TimelyInv, [LeaseNext]_leaseVars
  PROVE  TimelyInv'
<1> SUFFICES ASSUME leaseFaults' = 0 PROVE TimelyInv'
  BY DEF TimelyInv
<1> USE LeaseAssumption DEF LeaseTypeOK, Active, Matches, States
<1>1. ASSUME Fail PROVE FALSE
  BY <1>1 DEF Fail, CanFail
<1>2. ASSUME leaseFaults = 0
      PROVE \A w \in Workers : Active(w) => pc[w] = "running" /\ Matches(w) /\ leaseRow.left > renewIn[w]
  BY <1>2 DEF TimelyInv
<1>3. \A w \in Workers : Fresh(w) > RenewInterval
  BY DEF Fresh, GrantsOutlastInterval
<1>4. ASSUME NEW w \in Workers, Acquire(w) PROVE TimelyInv'
  <2>1. ASSUME NEW v \in Workers, v # w, Active(v) PROVE FALSE
    BY <1>4, <1>2, <2>1 DEF Acquire, CanAcquire, OwnersDistinct, Present, Expired
  <2> QED
    BY <1>3, <1>4, <2>1 DEF Acquire, Acquired, TimelyInv
<1>5. ASSUME NEW w \in Workers, AcquireMiss(w) PROVE TimelyInv'
  BY <1>2, <1>5 DEF AcquireMiss, TimelyInv
<1>6. ASSUME NEW w \in Workers, Wake(w) PROVE TimelyInv'
  BY <1>2, <1>6 DEF Wake, TimelyInv
<1>7. ASSUME NEW w \in Workers, RenewOK(w) PROVE TimelyInv'
  <2>1. ASSUME NEW v \in Workers, v # w, Active(v) PROVE FALSE
    BY <1>7, <1>2, <2>1 DEF RenewOK, CanRenew, OwnersDistinct
  <2>2. held'[w] = [held[w] EXCEPT !.left = Fresh(w)] /\ leaseRow' = [leaseRow EXCEPT !.left = Fresh(w)]
    BY <1>7 DEF RenewOK
  <2> QED
    BY <1>3, <1>7, <2>1, <2>2 DEF RenewOK, CanRenew, RenewDue, TimelyInv
<1>8. ASSUME NEW w \in Workers, RenewLost(w) PROVE TimelyInv'
  BY <1>2, <1>8 DEF RenewLost, RenewDue, CanRenew, Expired
<1>9. ASSUME NEW w \in Workers, SessionEnd(w) PROVE TimelyInv'
  BY <1>2, <1>9 DEF SessionEnd, TimelyInv
<1>10. ASSUME NEW w \in Workers, Release(w) PROVE TimelyInv'
  BY <1>2, <1>10 DEF Release, Leave, AfterSession, OwnersDistinct, TimelyInv
<1>11. CASE CleanupExpired
  BY <1>2, <1>11 DEF CleanupExpired, Expired, TimelyInv
<1>12. CASE Tick
  BY <1>2, <1>12 DEF Tick, Overdue, RenewDue, Elapse, Pred, TimelyInv
<1>13. CASE UNCHANGED leaseVars
  BY <1>2, <1>13 DEF leaseVars, TimelyInv
<1> QED
  BY <1>1, <1>4, <1>5, <1>6, <1>7, <1>8, <1>9, <1>10, <1>11, <1>12, <1>13
     DEF LeaseNext, WorkerStep, AcquireError, RenewError, ReleaseError, Crash, LateTick

\* When every grant lasts longer than the renew interval (by the database
\* clock), a worker whose renewals are served in time and without error keeps its
\* row: renewLeaseLoop never cancels it (Config.Validate's renew_interval < ttl).
THEOREM TimelyHolder ==
  ASSUME OwnersDistinct, GrantsOutlastInterval PROVE LeaseSpec => []TimelyHolderKeepsRow
<1>1. LeaseInit => TimelyInv
  BY DEF LeaseInit, TimelyInv, Active
<1>2. LeaseTypeOK /\ TimelyInv /\ [LeaseNext]_leaseVars => TimelyInv'
  BY TimelyStep
<1>3. LeaseTypeOK /\ TimelyInv => TimelyHolderKeepsRow
  BY LeaseAssumption DEF LeaseTypeOK, TimelyInv, TimelyHolderKeepsRow, Active, CanRenew, Expired
<1> QED
  BY <1>1, <1>2, <1>3, LeaseTypeCorrect, PTL DEF LeaseSpec

-----------------------------------------------------------------------------
\* An unexpired row is removed or changes hands only through the release of the
\* session that was granted its owner and generation: not by a competitor's
\* TryStateAcquireLease, a stale ReleaseStateLease or CleanupExpiredStateLeases.
THEOREM RowSafety == LeaseSpec => LiveRowLostOnlyByItsRelease
<1>1. LeaseTypeOK /\ [LeaseNext]_leaseVars => [LosesLiveRow => ReleasesOwnRow]_leaseVars
  <2> SUFFICES ASSUME LeaseTypeOK, LeaseNext, LosesLiveRow PROVE ReleasesOwnRow
    OBVIOUS
  <2> USE LeaseAssumption DEF LeaseTypeOK, LosesLiveRow, ReleasesOwnRow
  <2>1. ASSUME NEW w \in Workers, CanAcquire(w), leaseRow' = Acquired(w) PROVE FALSE
    BY <2>1 DEF CanAcquire, Acquired
  <2>2. ASSUME leaseRow' = leaseRow \/ \E n \in Nat : leaseRow' = [leaseRow EXCEPT !.left = n] PROVE FALSE
    BY <2>2
  <2>3. ASSUME NEW w \in Workers, Acquire(w) \/ AcquireError(w) PROVE FALSE
    BY <2>1, <2>2, <2>3 DEF Acquire, AcquireError
  <2>4. ASSUME NEW w \in Workers, RenewOK(w) \/ RenewError(w) PROVE FALSE
    BY <2>2, <2>4, FreshNat DEF RenewOK, RenewError
  <2>5. ASSUME NEW w \in Workers, Release(w) \/ ReleaseError(w) PROVE ReleasesOwnRow
    <3>1. pc[w] = "ending" /\ Matches(w)
      BY <2>2, <2>5 DEF Release, ReleaseError
    <3>2. pc'[w] # "ending"
      BY <2>5 DEF Release, ReleaseError, Leave, AfterSession
    <3> QED
      BY <3>1, <3>2
  <2>6. ASSUME NEW w \in Workers,
               AcquireMiss(w) \/ Wake(w) \/ RenewLost(w) \/ SessionEnd(w) \/ Crash(w)
        PROVE FALSE
    BY <2>2, <2>6 DEF AcquireMiss, Wake, RenewLost, SessionEnd, Crash
  <2>7. ASSUME CleanupExpired PROVE FALSE
    BY <2>7 DEF CleanupExpired
  <2>8. ASSUME Elapse PROVE FALSE
    BY <2>2, <2>8, PredNat DEF Elapse
  <2> QED
    BY <2>3, <2>4, <2>5, <2>6, <2>7, <2>8 DEF LeaseNext, WorkerStep, Tick, LateTick
<1> QED
  BY <1>1, LeaseTypeCorrect, PTL DEF LeaseSpec, LiveRowLostOnlyByItsRelease

-----------------------------------------------------------------------------
(* Keys. *)

\* From the start on the manager holds the active key and the field's key, whatever the
\* sources hold and whenever they change (NewCachedManager, refresh).
THEOREM UsableKeys == Spec => []SnapshotIsUsable
<1>1. Init => SnapshotIsUsable
  BY ZenonT(300) DEF Init, SnapshotIsUsable
<1>2. SnapshotIsUsable /\ [Next]_vars => SnapshotIsUsable'
  <2> SUFFICES ASSUME SnapshotIsUsable, [Next]_vars PROVE SnapshotIsUsable'
    OBVIOUS
  <2>1. CASE EndLoad
    BY ZenonT(300), <2>1 DEF EndLoad, GiveUp, validateSnapshot, SnapshotIsUsable
  <2>2. CASE SourceFails
    BY ZenonT(300), <2>2 DEF SourceFails, GiveUp, SnapshotIsUsable
  <2>3. CASE UNCHANGED <<snapshot, up>>
    BY ZenonT(300), <2>3 DEF SnapshotIsUsable
  <2>4. ASSUME NEW i \in DOMAIN Sources, NEW c \in Sources[i], ChangeSource(i, c)
        PROVE  UNCHANGED <<snapshot, up>>
    BY <2>4 DEF ChangeSource
  <2> QED
    BY SMTT(300), <2>1, <2>2, <2>3, <2>4
       DEF Next, Refresh, LoadSource, WriteRow, Send, Receive, manager, vars
<1> QED
  BY <1>1, <1>2, PTL DEF Spec

\* The keys in use change only by a refresh that loaded and validated every source, which
\* also clears the error that readiness reports (refresh).
THEOREM AllOrNothing == Spec => RefreshIsAllOrNothing
<1> DEFINE A == snapshot' # snapshot => ~lastErr' /\ load.at = Len(Sources) + 1
<1>1. [Next]_vars => [A]_<<snapshot, lastErr, load>>
  <2> SUFFICES ASSUME [Next]_vars, snapshot' # snapshot PROVE ~lastErr' /\ load.at = Len(Sources) + 1
    OBVIOUS
  <2>1. \A i \in DOMAIN Sources : \A c \in Sources[i] : ~ChangeSource(i, c)
    BY SMTT(300) DEF ChangeSource
  <2>2. EndLoad
    BY SMTT(300), <2>1 DEF Next, Refresh, LoadSource, SourceFails, GiveUp, WriteRow, Send, Receive, manager, vars
  <2> QED
    BY SMTT(300), <2>2 DEF EndLoad, GiveUp
<1> QED
  BY <1>1, PTL DEF Spec, RefreshIsAllOrNothing

-----------------------------------------------------------------------------
(* CopyOpensAlike: the message on its way holds what its origin opens to, so *)
(* it does not matter which keys the manager loads before it arrives.        *)

IsField(v) == v \in Plain \/ v = Cipher(v.key, "secret")
Opened(v) == Decrypt(IF v.kind = "cipher" THEN v.key ELSE 0, v)
Openings == {Nothing, "text", "number", "secret"}

WireHoldsOrigin ==
  wire # None => wire.transit = Opened(origin) /\ Opened(origin) \in Openings

\* Whatever key opens a field, opens it to the same.
LEMMA OpensToOne ==
  ASSUME NEW v, NEW k, IsField(v), Decrypt(k, v) # Failed
  PROVE  Decrypt(k, v) = Opened(v) /\ Opened(v) \in Openings
<1>1. CASE v \in Plain
  <2>1. v.kind \in {"null", "empty", "text", "code", "number"}
    BY SMTT(300), <1>1 DEF Plain
  <2> QED
    BY SMTT(300), <2>1 DEF Opened, Decrypt, Openings, Failed
<1>2. CASE v = Cipher(v.key, "secret")
  <2>1. v.kind = "cipher" /\ v.plain = "secret"
    BY SMTT(300), <1>2 DEF Cipher
  <2> QED
    BY SMTT(300), <2>1 DEF Opened, Decrypt, Openings, Failed
<1> QED
  BY SMTT(300), <1>1, <1>2 DEF IsField

\* Decrypt is the inverse of Encrypt, and no result of Encrypt is plaintext.
LEMMA EncryptOpens ==
  ASSUME NEW t \in Openings, NEW k
  PROVE  Encrypt(k, t).kind \in {"cipher", "empty"} /\ Decrypt(k, Encrypt(k, t)) = t
<1>1. CASE t = Nothing
  <2>1. Encrypt(k, t).kind = "empty"
    BY SMTT(300), <1>1 DEF Encrypt
  <2> QED
    BY SMTT(300), <1>1, <2>1 DEF Decrypt
<1>2. CASE t # Nothing
  <2>1. Encrypt(k, t).kind = "cipher" /\ Encrypt(k, t).key = k /\ Encrypt(k, t).plain = t
    BY SMTT(300), <1>2 DEF Encrypt, Cipher
  <2> QED
    BY SMTT(300), <2>1 DEF Decrypt
<1> QED
  BY SMTT(300), <1>1, <1>2

\* What is staged are fields of rows.
StagedAreFields == \E S : pending \in Seq(S) /\ \A v \in S : IsField(v)

LEMMA NothingStaged == \E S : <<>> \in Seq(S) /\ \A v \in S : IsField(v)
<1>1. <<>> \in Seq(Plain)
  BY SMTT(300)
<1>2. \A v \in Plain : IsField(v)
  BY ZenonT(300) DEF IsField
<1> QED
  BY ZenonT(300), <1>1, <1>2

LEMMA WriteStages ==
  ASSUME StagedAreFields, WriteRow PROVE StagedAreFields'
<1>1. PICK S : pending \in Seq(S) /\ \A v \in S : IsField(v)
  BY ZenonT(300) DEF StagedAreFields
<1>2. PICK v \in Plain \cup {Cipher(k, "secret") : k \in {Current.keys[FieldKeyID]} \ {0}} :
        pending' = Append(pending, v)
  BY ZenonT(300) DEF WriteRow
<1>3. IsField(v)
  BY SMTT(300) DEF IsField, Cipher
<1>4. pending' \in Seq(S \cup {v})
  BY SMTT(300), <1>1, <1>2
<1>5. \A w \in S \cup {v} : IsField(w)
  BY ZenonT(300), <1>1, <1>3
<1> QED
  BY ZenonT(300), <1>4, <1>5 DEF StagedAreFields

LEMMA SendTakes ==
  ASSUME StagedAreFields, pending # <<>>, pending' = Tail(pending)
  PROVE  IsField(Head(pending)) /\ StagedAreFields'
<1>1. PICK S : pending \in Seq(S) /\ \A v \in S : IsField(v)
  BY ZenonT(300) DEF StagedAreFields
<1>2. Head(pending) \in S /\ Tail(pending) \in Seq(S)
  BY SMTT(300), <1>1
<1> QED
  BY ZenonT(300), <1>1, <1>2 DEF StagedAreFields

\* The peer stores no plaintext, and what it stores opens with the peer's key to what the
\* sender's row held, whatever keys either region changes meanwhile (PrepareOutboundRow,
\* PrepareInboundRow).
THEOREM CopyIsFaithful == Spec => []CopyOpensAlike
<1> DEFINE Inv == StagedAreFields /\ WireHoldsOrigin /\ CopyOpensAlike
<1>1. Init => Inv
  BY NothingStaged, SMTT(300) DEF Init, StagedAreFields, WireHoldsOrigin, CopyOpensAlike
<1>2. Inv /\ [Next]_vars => Inv'
  <2> SUFFICES ASSUME Inv, [Next]_vars PROVE Inv'
    BY SMTT(300)
  <2>1. CASE UNCHANGED data
    BY SMTT(300), <2>1 DEF data, StagedAreFields, WireHoldsOrigin, CopyOpensAlike
  <2>2. CASE WriteRow
    <3>1. StagedAreFields'
      BY <2>2, WriteStages
    <3> QED
      BY SMTT(300), <2>2, <3>1 DEF WriteRow, WireHoldsOrigin, CopyOpensAlike
  <2>3. CASE Send
    <3>1. CASE UNCHANGED <<pending, wire, origin>>
      BY SMTT(300), <2>3, <3>1 DEF Send, StagedAreFields, WireHoldsOrigin, CopyOpensAlike
    <3>2. CASE ~UNCHANGED <<pending, wire, origin>>
      <4> DEFINE v == Head(pending)
                 t == Decrypt(snapshot.keys[FieldKeyID], v)
      <4>1. /\ t # Failed /\ origin' = v /\ pending # <<>> /\ pending' = Tail(pending)
            /\ wire' = [kind |-> "message", transit |-> t]
        BY SMTT(300), <2>3, <3>2 DEF Send, PrepareOutbound
      <4>2. IsField(v) /\ StagedAreFields'
        BY <4>1, SendTakes
      <4> HIDE DEF v
      <4>3. t = Opened(v) /\ Opened(v) \in Openings
        BY SMTT(300), <4>1, <4>2, OpensToOne
      <4>4. wire'.transit = t /\ wire' # None
        <5>1. wire'.kind = "message" /\ wire'.transit = t
          BY SMTT(300), <4>1
        <5> QED
          BY SMTT(300), <5>1 DEF None
      <4> QED
        BY SMTT(300), <4>1, <4>2, <4>3, <4>4 DEF WireHoldsOrigin, CopyOpensAlike
    <3> QED
      BY SMTT(300), <3>1, <3>2
  <2>4. CASE Receive
    <3>1. wire # None /\ copy' = Encrypt(PeerKey, wire.transit) /\ wire' = None /\ UNCHANGED <<pending, origin>>
      BY <2>4 DEF Receive, PrepareInbound
    <3>2. /\ Encrypt(PeerKey, Opened(origin)).kind \in {"cipher", "empty"}
          /\ Decrypt(PeerKey, Encrypt(PeerKey, Opened(origin))) = Opened(origin)
      BY SMTT(300), <3>1, EncryptOpens DEF WireHoldsOrigin
    <3>3. copy' = Encrypt(PeerKey, Opened(origin))
      BY SMTT(300), <3>1 DEF WireHoldsOrigin
    <3> QED
      BY SMTT(300), <3>1, <3>2, <3>3 DEF StagedAreFields, WireHoldsOrigin, CopyOpensAlike, Opened
  <2>5. ASSUME NEW i \in DOMAIN Sources, NEW c \in Sources[i], ChangeSource(i, c)
        PROVE  UNCHANGED data
    BY SMTT(300), <2>5 DEF ChangeSource
  <2>6. Refresh \/ LoadSource \/ SourceFails \/ EndLoad => UNCHANGED data
    BY DEF Refresh, LoadSource, SourceFails, EndLoad
  <2> QED
    BY SMTT(300), <2>1, <2>2, <2>3, <2>4, <2>5, <2>6 DEF Next, vars, data
<1> QED
  BY <1>1, <1>2, PTL DEF Spec
-----------------------------------------------------------------------------
(* TypeOK: a load in progress holds keys of the sources, too.               *)

Typed ==
  /\ TypeOK
  /\ load = [at |-> load.at, attempt |-> load.attempt, merged |-> load.merged]
  /\ \A k \in KeyIDs : load.merged.keys[k] \in Materials(k)

LEMMA NothingIsMaterial == \A k \in KeyIDs : NoKeys.keys[k] \in Materials(k)
BY SMTT(300) DEF NoKeys, Materials

LEMMA SourceIsMaterial ==
  ASSUME NEW i \in DOMAIN Sources, NEW c \in Sources[i], NEW k \in KeyIDs
  PROVE  c.keys[k] \in Materials(k)
<1>1. c \in UNION Range(Sources)
  BY ZenonT(300) DEF Range
<1> QED
  BY ZenonT(300), <1>1 DEF Materials

LEMMA TypedInit == Init => Typed
<1> SUFFICES ASSUME Init PROVE Typed
  OBVIOUS
<1>1. load = [at |-> 1, attempt |-> 1, merged |-> NoKeys]
  BY ZenonT(300) DEF Init, NoLoad
<1>2. load.at = 1 /\ load.attempt = 1 /\ load.merged = NoKeys
  BY SMTT(300), <1>1
<1>3. DOMAIN content = DOMAIN Sources /\ \A i \in DOMAIN Sources : content[i] \in Sources[i]
  BY SMTT(300) DEF Init
<1>4. 1 \in 0..Len(Sources) + 1 /\ 1 \in 0..RetryAttempts
  BY SMTT(300), KeysAssumption
<1> QED
  BY ZenonT(300), <1>1, <1>2, <1>3, <1>4, NothingIsMaterial DEF Init, Typed, TypeOK

\* The three steps of a load; all others leave it and the keys in use alone.
LEMMA TypedLoad ==
  ASSUME Typed, LoadSource PROVE Typed'
<1> DEFINE right == content[load.at]
<1>1. /\ load.at \in DOMAIN Sources
      /\ load' = [at |-> load.at + 1, attempt |-> load.attempt, merged |-> Merge(load.merged, right)]
  BY ZenonT(300) DEF LoadSource, Typed
<1>2. load'.at = load.at + 1 /\ load'.attempt = load.attempt /\ load'.merged = Merge(load.merged, right)
  BY SMTT(300), <1>1
<1>3. \A k \in KeyIDs : load'.merged.keys[k] \in Materials(k)
  <2> TAKE k \in KeyIDs
  <2>1. right \in Sources[load.at]
    BY ZenonT(300), <1>1 DEF Typed, TypeOK
  <2>2. right.keys[k] \in Materials(k) /\ load.merged.keys[k] \in Materials(k)
    BY ZenonT(300), <1>1, <2>1, SourceIsMaterial DEF Typed
  <2>3. Merge(load.merged, right).keys[k] \in {right.keys[k], load.merged.keys[k]}
    BY SMTT(300) DEF Merge
  <2> QED
    BY ZenonT(300), <1>2, <2>2, <2>3
<1>4. load'.at \in 0..Len(Sources) + 1
  <2>1. DOMAIN Sources = 1..Len(Sources) /\ Len(Sources) \in Nat
    BY SMTT(300), KeysAssumption
  <2> QED
    BY SMTT(300), <1>1, <1>2, <2>1
<1> QED
  BY ZenonT(300), <1>1, <1>2, <1>3, <1>4 DEF LoadSource, Typed, TypeOK, Materials

LEMMA LoadFields ==
  ASSUME NEW l, NEW i, NEW a, NEW m, l = [at |-> i, attempt |-> a, merged |-> m]
  PROVE  l.at = i /\ l.attempt = a /\ l.merged = m
BY SMTT(300)

LEMMA LoadBegins ==
  ASSUME NEW a \in 1..RetryAttempts, load' = [at |-> 1, attempt |-> a, merged |-> NoKeys]
  PROVE  /\ load' = [at |-> load'.at, attempt |-> load'.attempt, merged |-> load'.merged]
         /\ load'.at \in 0..Len(Sources) + 1 /\ load'.attempt \in 0..RetryAttempts
         /\ load'.merged = NoKeys
<1>1. load'.at = 1 /\ load'.attempt = a /\ load'.merged = NoKeys
  BY ZenonT(300), LoadFields
<1>2. 1 \in 0..Len(Sources) + 1 /\ a \in 0..RetryAttempts
  BY SMTT(300), KeysAssumption
<1> QED
  BY ZenonT(300), <1>1, <1>2

LEMMA LoadEnds ==
  ASSUME load' = NoLoad
  PROVE  /\ load' = [at |-> load'.at, attempt |-> load'.attempt, merged |-> load'.merged]
         /\ load'.at \in 0..Len(Sources) + 1 /\ load'.attempt \in 0..RetryAttempts
         /\ load'.merged = NoKeys
<1>1. load' = [at |-> 0, attempt |-> 0, merged |-> NoKeys]
  BY SMTT(300) DEF NoLoad
<1>2. load'.at = 0 /\ load'.attempt = 0 /\ load'.merged = NoKeys
  BY SMTT(300), <1>1
<1>3. 0 \in 0..Len(Sources) + 1 /\ 0 \in 0..RetryAttempts
  BY SMTT(300), KeysAssumption
<1> QED
  BY ZenonT(300), <1>1, <1>2, <1>3

\* The manager's variables are of their types, in particular a load never counts more than
\* RetryAttempts attempts, and every key in use came from a source (refresh, MergeProvider).
THEOREM TypeCorrect == Spec => []TypeOK
<1>1. Init => Typed
  BY TypedInit
<1>2. Typed /\ [Next]_vars => Typed'
  <2> SUFFICES ASSUME Typed, [Next]_vars PROVE Typed'
    OBVIOUS
  <2>1. ASSUME NEW i \in DOMAIN Sources, NEW c \in Sources[i], ChangeSource(i, c) PROVE Typed'
    <3>1. DOMAIN content' = DOMAIN Sources /\ \A n \in DOMAIN Sources : content'[n] \in Sources[n]
      BY SMTT(300), <2>1 DEF ChangeSource, Typed, TypeOK
    <3> QED
      BY ZenonT(300), <2>1, <3>1 DEF ChangeSource, Typed, TypeOK, Materials
  <2>2. CASE Refresh
    <3>1. 1 \in 1..RetryAttempts
      BY SMTT(300), KeysAssumption
    <3>2. load' = [at |-> 1, attempt |-> 1, merged |-> NoKeys]
      BY ZenonT(300), <2>2 DEF Refresh, NoLoad
    <3> QED
      BY ZenonT(300), <2>2, <3>1, <3>2, LoadBegins, NothingIsMaterial DEF Refresh, Typed, TypeOK, Materials
  <2>3. CASE LoadSource
    BY ZenonT(300), <2>3, TypedLoad
  <2>4. CASE load' = NoLoad /\ UNCHANGED content /\ snapshot' \in {snapshot, load.merged}
             /\ lastErr' \in BOOLEAN /\ up' \in {"starting", "running", "failed"}
    BY ZenonT(300), <2>4, LoadEnds, NothingIsMaterial DEF Typed, TypeOK, Materials
  <2>5. CASE SourceFails
    <3>1. CASE GiveUp
      <4>1. lastErr' \in BOOLEAN /\ up' \in {"starting", "running", "failed"}
        BY ZenonT(300), <3>1 DEF GiveUp, Typed, TypeOK
      <4> QED
        BY ZenonT(300), <2>4, <2>5, <3>1, <4>1 DEF SourceFails, GiveUp
    <3>2. CASE ~GiveUp
      <4>1. /\ load.attempt # RetryAttempts
            /\ load' = [NoLoad EXCEPT !.at = 1, !.attempt = load.attempt + 1]
            /\ UNCHANGED <<content, snapshot, lastErr, up>>
        BY ZenonT(300), <2>5, <3>2 DEF SourceFails
      <4>2. load.attempt + 1 \in 1..RetryAttempts
        BY SMTT(300), <4>1, KeysAssumption DEF Typed, TypeOK
      <4>3. load' = [at |-> 1, attempt |-> load.attempt + 1, merged |-> NoKeys]
        BY ZenonT(300), <4>1 DEF NoLoad
      <4> QED
        BY ZenonT(300), <4>1, <4>2, <4>3, LoadBegins, NothingIsMaterial DEF Typed, TypeOK, Materials
    <3> QED
      BY ZenonT(300), <3>1, <3>2
  <2>6. CASE EndLoad
    <3>1. lastErr' \in BOOLEAN /\ up' \in {"starting", "running", "failed"}
      BY ZenonT(300), <2>6 DEF EndLoad, GiveUp, Typed, TypeOK
    <3> QED
      BY ZenonT(300), <2>4, <2>6, <3>1 DEF EndLoad, GiveUp
  <2>7. CASE UNCHANGED <<content, snapshot, lastErr, load, up>>
    BY ZenonT(300), <2>7 DEF Typed, TypeOK, Materials
  <2> QED
    BY ZenonT(300), <2>1, <2>2, <2>3, <2>5, <2>6, <2>7 DEF Next, WriteRow, Send, Receive, manager, vars
<1> QED
  BY <1>1, <1>2, PTL DEF Spec, Typed

-----------------------------------------------------------------------------
(* Migrations.  SchemaMatchesVersion needs to know what a job inside its      *)
(* transaction relies on: it holds the lock, so the version it read is still *)
(* the database's, and its draft is the database with the objects of one     *)
(* migration more, or one less.                                              *)

Matched(objects, version) ==
  \A v \in Versions : objects[v] = (IF v <= version THEN 1 ELSE 0)

Databases == [table : BOOLEAN, version : Int, dirty : BOOLEAN, objects : [Versions -> Int]]
JobRecords == [at : {"start", "read", "next", "execute", "version", "commit", "done", "failed"},
               from : Int, draft : Databases]
MTypes == db \in Databases /\ job \in [Jobs -> JobRecords]

\* The version that job j leaves behind.
Left(j) == IF j \in DownJobs THEN Target(j) - 1 ELSE Target(j)

JobInv(j) ==
  /\ job[j].at \in {"read", "next", "execute", "version", "commit"} => lock = j
  /\ job[j].at \in {"next", "execute", "version", "commit"} => job[j].from = db.version /\ db.table
  /\ job[j].at \in {"execute", "version", "commit"} => Target(j) \in Versions
  /\ job[j].at = "execute" => job[j].draft.objects = db.objects
  /\ job[j].at = "version" /\ job[j].draft.table => Matched(job[j].draft.objects, Left(j))
  /\ job[j].at = "commit" =>
       /\ job[j].draft.table /\ ~job[j].draft.dirty /\ job[j].draft.version = Left(j)
       /\ Matched(job[j].draft.objects, Left(j))

SchemaInv == MTypes /\ SchemaMatchesVersion /\ \A j \in Jobs : JobInv(j)

\* A job that does not hold the lock is not touched by the job that does.
LEMMA JobFrame ==
  ASSUME NEW i \in Jobs, JobInv(i), job'[i] = job[i],
         \/ lock' = lock /\ db' = db
         \/ job[i].at \in {"start", "done", "failed"}
  PROVE  JobInv(i)'
<1>1. Target(i)' = Target(i) /\ Left(i)' = Left(i)
  BY ZenonT(300) DEF Target, Left
<1>2. CASE lock' = lock /\ db' = db
  BY ZenonT(300), <1>1, <1>2 DEF JobInv
<1>3. CASE job[i].at \in {"start", "done", "failed"}
  <2>1. job'[i].at \in {"start", "done", "failed"}
    BY ZenonT(300), <1>3
  <2>2. /\ job'[i].at # "read" /\ job'[i].at # "next" /\ job'[i].at # "execute"
        /\ job'[i].at # "version" /\ job'[i].at # "commit"
    BY ZenonT(300), <2>1
  <2> QED
    BY ZenonT(300), <2>2 DEF JobInv
<1> QED
  BY ZenonT(300), <1>2, <1>3

LEMMA SchemaInit == MInit => SchemaInv
<1> SUFFICES ASSUME MInit PROVE SchemaInv
  BY ZenonT(300)
<1> USE DEF MInit
<1>1. EmptyDB \in Databases /\ Idle \in JobRecords
  BY DEF EmptyDB, Databases, Idle, JobRecords
<1>2. MTypes
  BY ZenonT(300), <1>1 DEF MTypes
<1>3. SchemaMatchesVersion
  BY MigrationsAssumption DEF SchemaMatchesVersion, EmptyDB, Versions
<1>4. \A j \in Jobs : JobInv(j)
  BY ZenonT(300) DEF JobInv, Idle
<1> QED
  BY ZenonT(300), <1>2, <1>3, <1>4 DEF SchemaInv

\* While one job has the lock, no other is past "start".
LEMMA OthersRest ==
  ASSUME SchemaInv, NEW j \in Jobs, JobStep(j) \/ Die(j), NEW i \in Jobs, i # j
  PROVE  job'[i] = job[i] /\ job[i].at \in {"start", "done", "failed"}
<1>1. job'[i] = job[i]
  BY ZenonT(300) DEF JobStep, Die, Lock, ReadVersion, Begin, Execute, SetVersion, Commit, Finish, GivesUp, At,
         SchemaInv, MTypes
<1>2. lock # i
  <2>1. lock = j \/ lock = Free
    BY ZenonT(300) DEF JobStep, Die, Lock, ReadVersion, Begin, Execute, SetVersion, Commit, Finish,
           SchemaInv, JobInv, MTypes, JobRecords
  <2> QED
    BY ZenonT(300), <2>1, MigrationsAssumption DEF Free
<1>3. job[i].at \in {"start", "done", "failed"}
  BY ZenonT(300), <1>2 DEF SchemaInv, JobInv, MTypes, JobRecords
<1> QED
  BY SMTT(300), <1>1, <1>3

LEMMA RecordStep ==
  ASSUME NEW r \in JobRecords
  PROVE  /\ \A a \in {"start", "read", "next", "execute", "version", "commit", "done", "failed"} :
              [r EXCEPT !.at = a] \in JobRecords
         /\ r.from \in Int /\ r.draft \in Databases
BY ZenonT(300) DEF JobRecords

\* One step of job j: what it makes of its own record, and of the database.
LEMMA JobStepKeeps ==
  ASSUME SchemaInv, NEW j \in Jobs, JobStep(j) \/ Die(j)
  PROVE  MTypes' /\ SchemaMatchesVersion' /\ JobInv(j)'
<1> USE DEF SchemaInv, MTypes
<1>0. job[j] \in JobRecords /\ db \in Databases
  BY ZenonT(300)
<1>1. CASE Lock(j)
  <2>1. job' = [job EXCEPT ![j] = [job[j] EXCEPT !.at = "read"]] /\ db' = db /\ lock' = j
    BY SMTT(300), <1>1 DEF Lock, At
  <2>2. [job[j] EXCEPT !.at = "read"] \in JobRecords
    BY ZenonT(300), <1>0, RecordStep
  <2>3. job'[j].at = "read"
    BY ZenonT(300), <1>0, <2>1 DEF JobRecords
  <2> QED
    BY ZenonT(300), <2>1, <2>2, <2>3 DEF SchemaMatchesVersion, JobInv
<1>2. CASE ReadVersion(j)
  <2>0. ~db.dirty
    BY ZenonT(300) DEF SchemaMatchesVersion
  <2>1. /\ job' = [job EXCEPT ![j] = [job[j] EXCEPT !.from = db.version, !.at = "next"]]
        /\ db' = [db EXCEPT !.table = TRUE] /\ lock' = lock /\ lock = j
    BY ZenonT(300), <1>2, <2>0 DEF ReadVersion, JobInv
  <2>2. [job[j] EXCEPT !.from = db.version, !.at = "next"] \in JobRecords
    BY ZenonT(300), <1>0 DEF JobRecords, Databases
  <2>3. /\ db' \in Databases /\ db'.table /\ db'.version = db.version
        /\ db'.objects = db.objects /\ db'.dirty = db.dirty
    BY ZenonT(300), <1>0, <2>1 DEF Databases
  <2>4. job'[j].at = "next" /\ job'[j].from = db.version
    BY ZenonT(300), <1>0, <2>1 DEF JobRecords
  <2> QED
    BY SMTT(300), <2>1, <2>2, <2>3, <2>4 DEF SchemaMatchesVersion, JobInv
<1>3. CASE Begin(j)
  <2> DEFINE d == [db EXCEPT !.version = Target(j), !.dirty = TRUE]
  <2>1. /\ job' = [job EXCEPT ![j] = [job[j] EXCEPT !.draft = d, !.at = "execute"]]
        /\ db' = db /\ lock' = lock /\ job[j].at = "next" /\ Target(j) \in Versions
    BY ZenonT(300), <1>3 DEF Begin
  <2>2. d \in Databases /\ d.objects = db.objects
    <3>1. Target(j) \in Int
      BY <2>1 DEF Versions
    <3> QED
      BY ZenonT(300), <1>0, <3>1 DEF Databases
  <2>3. [job[j] EXCEPT !.draft = d, !.at = "execute"] \in JobRecords
    BY ZenonT(300), <1>0, <2>2 DEF JobRecords
  <2>4. job'[j].at = "execute" /\ job'[j].from = job[j].from /\ job'[j].draft = d
    BY ZenonT(300), <1>0, <2>1 DEF JobRecords
  <2>5. Target(j)' = Target(j)
    BY ZenonT(300), <2>4 DEF Target
  <2> QED
    BY SMTT(300), <2>1, <2>2, <2>3, <2>4, <2>5 DEF SchemaMatchesVersion, JobInv
<1>4. CASE Execute(j)
  <2> DEFINE v == Target(j)
  <2> DEFINE o == [job[j].draft.objects EXCEPT ![v] = @ + (IF j \in DownJobs THEN -1 ELSE 1)]
  <2> DEFINE d == IF j \in DownJobs /\ v = 1 THEN Dropped ELSE [job[j].draft EXCEPT !.objects = o]
  <2>1. /\ job' = [job EXCEPT ![j] = [job[j] EXCEPT !.draft = d, !.at = "version"]]
        /\ db' = db /\ lock' = lock /\ job[j].at = "execute" /\ v \in Versions
    BY ZenonT(300), <1>4 DEF Execute, Scripted, JobInv
  <2>2. Dropped \in Databases /\ ~Dropped.table
    <3>1. EmptyDB \in Databases /\ ~EmptyDB.table
      BY DEF EmptyDB, Databases
    <3> QED
      BY ZenonT(300), <3>1 DEF Dropped, Databases
  <2>3. job[j].draft \in Databases /\ job[j].draft.objects = db.objects /\ db.objects \in [Versions -> Int]
    BY SMTT(300), <1>0, <2>1 DEF JobRecords, JobInv, Databases
  <2>4. o \in [Versions -> Int] /\ Matched(o, Left(j))
    <3>1. db.version \in Int /\ v \in Int /\ v = (IF j \in DownJobs THEN db.version ELSE db.version + 1)
      BY SMTT(300), <1>0, <2>1 DEF Target, JobInv, Databases
    <3>2. \A w \in Versions : db.objects[w] = (IF w <= db.version THEN 1 ELSE 0)
      BY ZenonT(300) DEF SchemaMatchesVersion
    <3>3. \A w \in Versions : w \in Int
      BY DEF Versions
    <3>4. o \in [Versions -> Int]
      BY SMTT(300), <2>1, <2>3
    <3>5. Left(j) = IF j \in DownJobs THEN v - 1 ELSE v
      BY ZenonT(300) DEF Left
    <3>6. ASSUME NEW w \in Versions PROVE o[w] = (IF w <= Left(j) THEN 1 ELSE 0)
      <4>1. CASE w = v
        BY SMTT(300), <2>1, <2>3, <3>1, <3>2, <3>3, <3>5, <4>1
      <4>2. CASE w # v
        <5>1. o[w] = db.objects[w]
          BY ZenonT(300), <2>3, <4>2
        <5>2. w <= Left(j) <=> w <= db.version
          BY SMTT(300), <3>1, <3>3, <3>5, <4>2
        <5> QED
          BY ZenonT(300), <3>2, <5>1, <5>2
      <4> QED
        BY ZenonT(300), <4>1, <4>2
    <3> QED
      BY ZenonT(300), <3>4, <3>6 DEF Matched
  <2>5. d \in Databases /\ (d.table => d.objects = o)
    BY ZenonT(300), <2>2, <2>3, <2>4 DEF Databases
  <2>6. [job[j] EXCEPT !.draft = d, !.at = "version"] \in JobRecords
    BY ZenonT(300), <1>0, <2>5 DEF JobRecords
  <2>7. job'[j].at = "version" /\ job'[j].from = job[j].from /\ job'[j].draft = d
    BY ZenonT(300), <1>0, <2>1 DEF JobRecords
  <2>8. Target(j)' = Target(j) /\ Left(j)' = Left(j)
    BY ZenonT(300), <2>7 DEF Target, Left
  <2>9. MTypes' /\ SchemaMatchesVersion'
    BY SMTT(300), <2>1, <2>6 DEF SchemaMatchesVersion
  <2>10. JobInv(j)'
    BY SMTT(300), <2>1, <2>4, <2>5, <2>7, <2>8 DEF JobInv
  <2> QED
    BY <2>9, <2>10
<1>5. CASE SetVersion(j)
  <2>1. CASE job[j].draft.table
    <3> DEFINE d == [job[j].draft EXCEPT !.version = Left(j), !.dirty = FALSE]
    <3>1. /\ job' = [job EXCEPT ![j] = [job[j] EXCEPT !.draft = d, !.at = "commit"]]
          /\ db' = db /\ lock' = lock /\ job[j].at = "version" /\ Target(j) \in Versions
      BY SMTT(300), <1>0, <1>5, <2>1 DEF SetVersion, JobInv, Left, JobRecords, Databases
    <3>2. job[j].draft \in Databases /\ Left(j) \in Int
      BY SMTT(300), <1>0, <3>1 DEF JobRecords, Left, Versions
    <3>3. /\ d \in Databases /\ d.table /\ ~d.dirty /\ d.version = Left(j)
          /\ d.objects = job[j].draft.objects
      BY ZenonT(300), <2>1, <3>2 DEF Databases
    <3>4. [job[j] EXCEPT !.draft = d, !.at = "commit"] \in JobRecords
      BY ZenonT(300), <1>0, <3>3 DEF JobRecords
    <3>5. job'[j].at = "commit" /\ job'[j].from = job[j].from /\ job'[j].draft = d
      BY ZenonT(300), <1>0, <3>1 DEF JobRecords
    <3>6. Target(j)' = Target(j) /\ Left(j)' = Left(j)
      BY ZenonT(300), <3>5 DEF Target, Left
    <3>7. MTypes' /\ SchemaMatchesVersion'
      BY ZenonT(300), <3>1, <3>4 DEF SchemaMatchesVersion
    <3>8. JobInv(j)'
      BY SMTT(300), <2>1, <3>1, <3>3, <3>5, <3>6 DEF JobInv
    <3> QED
      BY <3>7, <3>8
  <2>2. CASE ~job[j].draft.table
    <3>1. job' = [job EXCEPT ![j] = [job[j] EXCEPT !.at = "failed"]] /\ db' = db
      BY ZenonT(300), <1>5, <2>2 DEF SetVersion, GivesUp, At
    <3>2. [job[j] EXCEPT !.at = "failed"] \in JobRecords /\ job'[j].at = "failed"
      BY SMTT(300), <1>0, <3>1 DEF JobRecords
    <3> QED
      BY ZenonT(300), <3>1, <3>2 DEF SchemaMatchesVersion, JobInv
  <2> QED
    BY ZenonT(300), <2>1, <2>2
<1>6. CASE Commit(j)
  <2> DEFINE d == job[j].draft
  <2>1. /\ job' = [job EXCEPT ![j] = [job[j] EXCEPT !.from = d.version, !.at = "next"]]
        /\ db' = d /\ lock' = lock /\ job[j].at = "commit"
    BY ZenonT(300), <1>6 DEF Commit
  <2>2. d \in Databases /\ d.version \in Int
    BY ZenonT(300), <1>0 DEF JobRecords, Databases
  <2>3. [job[j] EXCEPT !.from = d.version, !.at = "next"] \in JobRecords
    BY ZenonT(300), <1>0, <2>2 DEF JobRecords
  <2>4. job'[j].at = "next" /\ job'[j].from = d.version
    BY ZenonT(300), <1>0, <2>1 DEF JobRecords
  <2>5. ~d.dirty /\ d.table /\ Matched(d.objects, d.version) /\ lock = j
    BY ZenonT(300), <2>1 DEF JobInv
  <2>6. SchemaMatchesVersion'
    BY SMTT(300), <2>1, <2>5 DEF SchemaMatchesVersion, Matched
  <2>7. JobInv(j)'
    BY SMTT(300), <2>1, <2>4, <2>5 DEF JobInv
  <2> QED
    BY ZenonT(300), <2>1, <2>2, <2>3, <2>6, <2>7
<1>7. CASE Finish(j)
  <2>1. job' = [job EXCEPT ![j] = [job[j] EXCEPT !.at = "done"]] /\ db' = db
    BY <1>7 DEF Finish, At
  <2>2. [job[j] EXCEPT !.at = "done"] \in JobRecords /\ job'[j].at = "done"
    BY ZenonT(300), <1>0, <2>1 DEF JobRecords
  <2> QED
    BY ZenonT(300), <2>1, <2>2 DEF SchemaMatchesVersion, JobInv
<1>8. CASE Die(j)
  <2>1. Idle \in JobRecords /\ Idle.at = "start"
    BY DEF Idle, JobRecords, EmptyDB, Databases
  <2>2. job' = [job EXCEPT ![j] = Idle] /\ db' = db
    BY ZenonT(300), <1>8 DEF Die
  <2> QED
    BY ZenonT(300), <2>1, <2>2 DEF SchemaMatchesVersion, JobInv
<1> QED
  BY SMTT(300), <1>1, <1>2, <1>3, <1>4, <1>5, <1>6, <1>7, <1>8 DEF JobStep

LEMMA SchemaStep == SchemaInv /\ [ProcessNext]_processVars => SchemaInv'
<1> SUFFICES ASSUME SchemaInv, [ProcessNext]_processVars PROVE SchemaInv'
  BY ZenonT(300)
<1>1. ASSUME NEW j \in Jobs, JobStep(j) \/ Die(j) PROVE SchemaInv'
  <2>1. MTypes' /\ SchemaMatchesVersion' /\ JobInv(j)'
    BY ZenonT(300), <1>1, JobStepKeeps
  <2>2. ASSUME NEW i \in Jobs, i # j PROVE JobInv(i)'
    BY ZenonT(300), <1>1, <2>2, OthersRest, JobFrame DEF SchemaInv
  <2> QED
    BY ZenonT(300), <2>1, <2>2 DEF SchemaInv
<1>2. CASE UNCHANGED mvars
  <2>1. db' = db /\ lock' = lock /\ job' = job
    BY ZenonT(300), <1>2 DEF mvars
  <2>2. \A i \in Jobs : JobInv(i)'
    BY ZenonT(300), <2>1, JobFrame DEF SchemaInv
  <2> QED
    BY SMTT(300), <2>1, <2>2 DEF SchemaInv, MTypes, SchemaMatchesVersion
<1>3. CASE MNext
  BY SMTT(300), <1>1, <1>3 DEF MNext
<1>4. ASSUME NEW r \in DOMAIN runners, RunnerFails(r) \/ RunnerStops(r) PROVE UNCHANGED mvars
  BY ZenonT(300), <1>4 DEF RunnerFails, RunnerStops
<1>5. ASSUME NEW p \in Peers, PeerOpens(p) \/ PeerLeaves(p) PROVE UNCHANGED mvars
  BY ZenonT(300), <1>5 DEF PeerOpens, PeerLeaves
<1>6. StartApp \/ Load \/ InitRepository \/ InitCrypto \/ InitReplication \/ InitTransport
      \/ InitFails \/ Stop \/ Drain \/ CloseNext \/ Exit => UNCHANGED mvars
  BY ZenonT(300) DEF StartApp, Load, InitRepository, InitCrypto, InitReplication, InitTransport, InitFails,
         Stop, Drain, CloseNext, Exit
<1>7. UNCHANGED processVars => UNCHANGED mvars
  BY ZenonT(300) DEF processVars
<1> QED
  BY SMTT(300), <1>2, <1>3, <1>4, <1>5, <1>6, <1>7 DEF ProcessNext, Own

\* Whoever migrates at the same time, up or down, and whoever dies at any point: the version
\* tells which migrations are in place, each once, and the schema is not dirty (applyUp, applyDown).
THEOREM SchemaIsConsistent == ProcessSpec => []SchemaMatchesVersion
<1>1. ProcessInit => SchemaInv
  BY ZenonT(300), SchemaInit DEF ProcessInit
<1>2. SchemaInv => SchemaMatchesVersion
  BY ZenonT(300) DEF SchemaInv
<1> QED
  BY <1>1, <1>2, SchemaStep, PTL DEF ProcessSpec

-----------------------------------------------------------------------------
(* The process.  What closeAll still has to close begins with the pool and    *)
(* then the server, whatever follows; the pool is open as long as there is   *)
(* anything to close; and once the server is closed no stream can be opened. *)

Closers == {"repo", "server", "client", "metrics"}
InOrder(c) ==
  c \in Seq(Closers) /\ \A i \in 1..Len(c) : (c[i] = "repo" <=> i = 1) /\ (c[i] = "server" <=> i = 2)
ServerClosed == Len(closers) < 2

LifeInv ==
  /\ InOrder(closers) /\ (pool = "open" <=> closers # <<>>)
  /\ phase \in {"init", "load", "repository"} => closers = <<>> /\ pool = "none" /\ runners = <<>>
  /\ phase \in {"crypto", "replication", "transport"} =>
       closers = <<"repo">> /\ "server" \notin DOMAIN runners
  /\ phase = "running" => ~ServerClosed
  /\ phase = "closing" /\ ServerClosed => draining \/ "server" \notin DOMAIN runners
  /\ phase = "exited" => closers = <<>> /\ \A r \in DOMAIN runners : runners[r] = "ended"
  /\ ServerClosed => streams = {}

\* closeAll goes from the last closer to the first.
NextCloser(c) == c[Len(c)]
Rest(c) == SubSeq(c, 1, Len(c) - 1)

LEMMA RestInOrder ==
  ASSUME NEW c, InOrder(c), c # <<>>
  PROVE  /\ InOrder(Rest(c)) /\ Len(Rest(c)) = Len(c) - 1 /\ Len(c) \in Nat \ {0}
         /\ (NextCloser(c) = "repo" <=> Len(c) = 1) /\ (NextCloser(c) = "server" <=> Len(c) = 2)
         /\ (Rest(c) = <<>> <=> Len(c) = 1)
<1> DEFINE n == Len(c) - 1
<1>1. c \in Seq(Closers) /\ Len(c) \in Nat \ {0} /\ n \in Nat
  BY EmptySeq DEF InOrder
<1>2. \A i \in 1..n : c[i] \in Closers
  BY <1>1
<1>3. Rest(c) = SubSeq(c, 1, n) /\ NextCloser(c) = c[Len(c)] /\ Len(c) \in 1..Len(c)
  BY <1>1 DEF Rest, NextCloser
<1> HIDE DEF n
<1>4. /\ SubSeq(c, 1, n) \in Seq(Closers) /\ Len(SubSeq(c, 1, n)) = IF 1 <= n THEN n - 1 + 1 ELSE 0
      /\ \A i \in 1..n - 1 + 1 : SubSeq(c, 1, n)[i] = c[1 + i - 1]
  BY SMTT(300), <1>1, <1>2, SubSeqProperties
<1>5. /\ Rest(c) \in Seq(Closers) /\ Len(Rest(c)) = n
      /\ \A i \in 1..n : Rest(c)[i] = c[i]
  BY SMTT(300), <1>1, <1>3, <1>4
<1>6. \A i \in 1..n : i \in 1..Len(c)
  BY <1>1 DEF n
<1>7. InOrder(Rest(c))
  BY ZenonT(300), <1>5, <1>6 DEF InOrder
<1>8. Rest(c) = <<>> <=> n = 0
  BY SMTT(300), <1>1, <1>5, EmptySeq
<1>9. /\ Len(Rest(c)) = Len(c) - 1 /\ (n = 0 <=> Len(c) = 1)
  BY SMTT(300), <1>1, <1>5 DEF n
<1>10. (NextCloser(c) = "repo" <=> Len(c) = 1) /\ (NextCloser(c) = "server" <=> Len(c) = 2)
  BY ZenonT(300), <1>3 DEF InOrder
<1> QED
  BY SMTT(300), <1>1, <1>7, <1>8, <1>9, <1>10

LEMMA RepoFirst == InOrder(<<"repo">>) /\ Len(<<"repo">>) = 1 /\ <<"repo">> # <<>>
<1>1. <<"repo">> \in Seq(Closers) /\ Len(<<"repo">>) = 1 /\ <<"repo">>[1] = "repo"
  BY DEF Closers
<1>2. \A i \in 1..1 : i = 1
  OBVIOUS
<1> QED
  BY SMTT(300), <1>1, <1>2 DEF InOrder

LEMMA TransportInOrder ==
  ASSUME NEW http \in {<<>>, <<"metrics">>}
  PROVE  LET c == <<"repo">> \o <<"server", "client">> \o http IN InOrder(c) /\ Len(c) >= 3 /\ c # <<>>
<1> DEFINE r == <<"repo">>
<1> DEFINE sc == <<"server", "client">>
<1>1. /\ r \in Seq(Closers) /\ Len(r) = 1 /\ r[1] = "repo"
      /\ sc \in Seq(Closers) /\ Len(sc) = 2 /\ sc[1] = "server" /\ sc[2] = "client"
  BY DEF Closers
<1>2. http \in Seq(Closers) /\ Len(http) \in {0, 1} /\ \A i \in 1..Len(http) : http[i] = "metrics"
  <2>1. CASE http = <<>>
    BY <2>1 DEF Closers
  <2>2. CASE http = <<"metrics">>
    BY <2>2 DEF Closers
  <2> QED
    BY ZenonT(300), <2>1, <2>2
<1> HIDE DEF r, sc
<1>3. /\ r \o sc \in Seq(Closers) /\ Len(r \o sc) = 3
      /\ \A i \in 1..3 : (r \o sc)[i] = IF i <= 1 THEN r[i] ELSE sc[i - 1]
  <2>1. /\ r \o sc \in Seq(Closers) /\ Len(r \o sc) = Len(r) + Len(sc)
        /\ \A i \in 1..Len(r) + Len(sc) : (r \o sc)[i] = IF i <= Len(r) THEN r[i] ELSE sc[i - Len(r)]
    BY ZenonT(300), <1>1, ConcatProperties
  <2>2. Len(r) + Len(sc) = 3
    BY SMTT(300), <1>1
  <2> QED
    BY ZenonT(300), <1>1, <2>1, <2>2
<1> DEFINE c == (r \o sc) \o http
<1>4. /\ c \in Seq(Closers) /\ Len(c) = 3 + Len(http)
      /\ \A i \in 1..3 + Len(http) : c[i] = IF i <= 3 THEN (r \o sc)[i] ELSE http[i - 3]
  <2>1. /\ c \in Seq(Closers) /\ Len(c) = Len(r \o sc) + Len(http)
        /\ \A i \in 1..Len(r \o sc) + Len(http) :
             c[i] = IF i <= Len(r \o sc) THEN (r \o sc)[i] ELSE http[i - Len(r \o sc)]
    BY SMTT(300), <1>2, <1>3, ConcatProperties
  <2> QED
    BY SMTT(300), <1>3, <2>1
<1>5. ASSUME NEW i \in 1..Len(c) PROVE (c[i] = "repo" <=> i = 1) /\ (c[i] = "server" <=> i = 2)
  <2>1. i \in {1, 2, 3} \/ (i > 3 /\ i - 3 \in 1..Len(http))
    BY SMTT(300), <1>2, <1>4
  <2>2. CASE i \in {1, 2, 3}
    <3>1. (r \o sc)[1] = "repo" /\ (r \o sc)[2] = "server" /\ (r \o sc)[3] = "client"
      BY <1>1, <1>3
    <3>2. c[i] = (r \o sc)[i]
      BY <1>4, <2>2
    <3> QED
      BY ZenonT(300), <2>2, <3>1, <3>2
  <2>3. CASE i > 3 /\ i - 3 \in 1..Len(http)
    <3>1. c[i] = http[i - 3]
      BY <1>4, <2>3
    <3> QED
      BY <1>2, <2>3, <3>1
  <2> QED
    BY ZenonT(300), <2>1, <2>2, <2>3
<1>6. InOrder(c)
  BY ZenonT(300), <1>4, <1>5 DEF InOrder
<1>7. Len(c) >= 3 /\ Len(c) # 0
  BY <1>2, <1>4
<1>8. c # <<>>
  BY <1>7
<1> QED
  BY ZenonT(300), <1>6, <1>7, <1>8 DEF r, sc

LEMMA LifeInit == ProcessInit => LifeInv
BY DEF ProcessInit, LifeInv, InOrder, ServerClosed

\* Setting up, as far as it goes.
LEMMA LifeStart ==
  ASSUME LifeInv, \/ StartApp \/ Load \/ InitRepository \/ InitCrypto \/ InitReplication
                  \/ InitTransport \/ InitFails
  PROVE  LifeInv'
<1> USE DEF LifeInv, ServerClosed
<1>1. CASE StartApp
  BY ZenonT(300), <1>1 DEF StartApp
<1>2. CASE Load
  BY SMTT(300), <1>2 DEF Load
<1>3. CASE InitRepository
  <2>1. closers' = <<"repo">> /\ pool' = "open" /\ phase' = "crypto" /\ streams' = streams
        /\ closers = <<>>
    BY ZenonT(300), <1>3 DEF InitRepository
  <2>2. "server" \notin DOMAIN runners'
    BY <1>3 DEF InitRepository, Add
  <2> QED
    BY <2>1, <2>2, RepoFirst
<1>4. CASE InitCrypto \/ InitReplication
  <2>1. /\ phase' \in {"replication", "transport"}
        /\ closers' = closers /\ pool' = pool /\ streams' = streams /\ closers = <<"repo">>
    BY ZenonT(300), <1>4 DEF InitCrypto, InitReplication
  <2>2. "server" \notin DOMAIN runners'
    BY SMTT(300), <1>4 DEF InitCrypto, InitReplication, Add, newChangefeedAdapter
  <2> QED
    BY ZenonT(300), <2>1, <2>2, RepoFirst
<1>5. CASE InitTransport
  <2>1. PICK http \in {<<>>, <<"metrics">>} : closers' = closers \o <<"server", "client">> \o http
    BY ZenonT(300), <1>5 DEF InitTransport
  <2>2. phase' = "running" /\ pool' = pool /\ closers = <<"repo">>
    BY SMTT(300), <1>5 DEF InitTransport
  <2>3. InOrder(closers') /\ Len(closers') >= 3 /\ closers' # <<>>
    BY ZenonT(300), <2>1, <2>2, TransportInOrder
  <2>4. ~(Len(closers') < 2)
    <3>1. Len(closers') \in Nat
      BY SMTT(300), <2>3 DEF InOrder
    <3> QED
      BY <2>3, <3>1
  <2> QED
    BY SMTT(300), <2>2, <2>3, <2>4, RepoFirst
<1>6. CASE InitFails
  <2>1. /\ phase' = "closing" /\ runners' = <<>>
        /\ closers' = closers /\ pool' = pool /\ streams' = streams
    BY ZenonT(300), <1>6 DEF InitFails
  <2> QED
    BY SMTT(300), <2>1
<1> QED
  BY SMTT(300), <1>1, <1>2, <1>3, <1>4, <1>5, <1>6

\* Stopping: closeAll goes backwards and waits for the server.
LEMMA LifeStop ==
  ASSUME LifeInv, Stop \/ Drain \/ CloseNext \/ Exit
  PROVE  LifeInv'
<1> USE DEF LifeInv, ServerClosed
<1>1. CASE Stop
  BY ZenonT(300), <1>1 DEF Stop
<1>2. CASE Drain
  BY ZenonT(300), <1>2 DEF Drain
<1>3. CASE CloseNext
  <2>1. /\ phase = "closing" /\ closers # <<>> /\ closers' = Rest(closers)
        /\ NextCloser(closers) = "server" => draining /\ streams = {}
        /\ pool' = IF NextCloser(closers) = "repo" THEN "closed" ELSE pool
        /\ UNCHANGED <<phase, runners, draining, streams>>
    BY ZenonT(300), <1>3 DEF CloseNext, Rest, NextCloser
  <2>2. /\ InOrder(closers') /\ Len(closers') = Len(closers) - 1 /\ Len(closers) \in Nat \ {0}
        /\ (NextCloser(closers) = "repo" <=> Len(closers) = 1)
        /\ (NextCloser(closers) = "server" <=> Len(closers) = 2)
        /\ (closers' = <<>> <=> Len(closers) = 1)
    BY ZenonT(300), <2>1, RestInOrder
  <2>3. Len(closers') < 2 => Len(closers) = 2 \/ Len(closers) < 2
    BY SMTT(300), <2>2
  <2>4. pool' = "open" <=> closers' # <<>>
    BY SMTT(300), <2>1, <2>2
  <2>5. Len(closers') < 2 => streams = {} /\ (draining \/ "server" \notin DOMAIN runners)
    BY ZenonT(300), <2>1, <2>2, <2>3
  <2> QED
    BY SMTT(300), <2>1, <2>2, <2>4, <2>5
<1>4. CASE Exit
  BY SMTT(300), <1>4 DEF Exit
<1> QED
  BY SMTT(300), <1>1, <1>2, <1>3, <1>4

LEMMA LifeStep == LifeInv /\ [ProcessNext]_processVars => LifeInv'
<1> SUFFICES ASSUME LifeInv, [ProcessNext]_processVars PROVE LifeInv'
  OBVIOUS
<1>1. CASE UNCHANGED pvars
  BY SMTT(300), <1>1 DEF pvars, LifeInv, ServerClosed
<1>2. ASSUME NEW r \in DOMAIN runners, RunnerFails(r) \/ RunnerStops(r) PROVE LifeInv'
  <2>1. /\ UNCHANGED <<phase, closers, pool, draining, streams>>
        /\ runners' = [runners EXCEPT ![r] = "ended"]
    BY ZenonT(300), <1>2 DEF RunnerFails, RunnerStops
  <2>2. /\ DOMAIN runners' = DOMAIN runners
        /\ \A q \in DOMAIN runners : runners'[q] = IF q = r THEN "ended" ELSE runners[q]
    BY ZenonT(300), <2>1
  <2>3. phase \notin {"init", "load", "repository"}
    BY SMTT(300), <1>2 DEF LifeInv
  <2> QED
    BY ZenonT(300), <2>1, <2>2, <2>3 DEF LifeInv, ServerClosed
<1>3. ASSUME NEW p \in Peers, PeerOpens(p) \/ PeerLeaves(p) PROVE LifeInv'
  <2>1. UNCHANGED <<phase, closers, pool, draining, runners>>
    BY ZenonT(300), <1>3 DEF PeerOpens, PeerLeaves
  <2>2. ServerClosed => streams' = {}
    BY ZenonT(300), <1>3 DEF PeerOpens, PeerLeaves, LifeInv
  <2> QED
    BY ZenonT(300), <2>1, <2>2 DEF LifeInv, ServerClosed
<1>4. UNCHANGED processVars => UNCHANGED pvars
  BY ZenonT(300) DEF processVars
<1> QED
  BY SMTT(300), <1>1, <1>2, <1>3, <1>4, LifeStart, LifeStop DEF ProcessNext, Own

\* A Consume handler has a database as long as it runs: the pool is closed after the last
\* stream has ended (closeAll, Close of the server).
THEOREM PoolIsClosedLast == ProcessSpec => []PoolOutlivesStreams
<1>1. LifeInv => PoolOutlivesStreams
  BY SMTT(300) DEF LifeInv, PoolOutlivesStreams, ServerClosed
<1> QED
  BY <1>1, LifeInit, LifeStep, PTL DEF ProcessSpec

\* A process that exits, also out of a start that failed half-way, has closed its pool and
\* ended its components (New's deferred function, closeAll, collectRunnerErrors).
THEOREM CleanExit == ProcessSpec => []ExitIsClean
<1>1. LifeInv => ExitIsClean
  BY ZenonT(300) DEF LifeInv, ExitIsClean
<1> QED
  BY <1>1, LifeInit, LifeStep, PTL DEF ProcessSpec

-----------------------------------------------------------------------------
(* The configuration is validated before there are components, and does not  *)
(* change afterwards.                                                        *)

ConfigInv ==
  /\ phase \in {"init", "load"} => DOMAIN runners = {}
  /\ phase \in {"repository", "crypto", "replication", "transport"} => Validate(config)
  /\ PollingTablesAreStamped

\* validateTable folds the case, newChangefeedAdapter does not: what the second takes for
\* polling, the first does too.
LEMMA PollingNeedsStamps ==
  ASSUME NEW c, Validate(c), newChangefeedAdapter(c) = "polling"
  PROVE  \A t \in c.tables : t.stamped
<1>1. c.source = "polling"
  BY ZenonT(300) DEF newChangefeedAdapter
<1>2. Folded(c.source) = "polling"
  BY ZenonT(300), <1>1 DEF Folded
<1> QED
  BY ZenonT(300), <1>2 DEF Validate, validateTable

\* Whatever the configuration, the polling adapter runs only if every table has the column
\* it orders by (Validate, newChangefeedAdapter).
THEOREM PollingIsValidated == ProcessSpec => []PollingTablesAreStamped
<1>1. ProcessInit => ConfigInv
  BY DEF ProcessInit, ConfigInv, PollingTablesAreStamped
<1>2. ConfigInv /\ [ProcessNext]_processVars => ConfigInv'
  <2> SUFFICES ASSUME ConfigInv, [ProcessNext]_processVars PROVE ConfigInv'
    OBVIOUS
  <2> USE DEF ConfigInv, PollingTablesAreStamped
  <2>1. CASE UNCHANGED <<config, phase>> /\ DOMAIN runners' = DOMAIN runners
    BY ZenonT(300), <2>1
  <2>2. CASE StartApp \/ Load
    BY ZenonT(300), <2>2 DEF StartApp, Load
  <2>3. CASE InitRepository \/ InitCrypto
    <3>1. config' = config /\ phase' \in {"crypto", "replication"} /\ Validate(config)
      BY ZenonT(300), <2>3 DEF InitRepository, InitCrypto
    <3>2. "polling" \in DOMAIN runners' => "polling" \in DOMAIN runners
      BY SMTT(300), <2>3 DEF InitRepository, InitCrypto, Add
    <3> QED
      BY ZenonT(300), <3>1, <3>2
  <2>4. CASE InitReplication
    <3>1. config' = config /\ phase' = "transport" /\ Validate(config)
      BY ZenonT(300), <2>4 DEF InitReplication
    <3>2. "polling" \in DOMAIN runners' =>
            "polling" \in DOMAIN runners \/ newChangefeedAdapter(config) = "polling"
      BY ZenonT(300), <2>4 DEF InitReplication, Add
    <3> QED
      BY ZenonT(300), <3>1, <3>2, PollingNeedsStamps
  <2>5. CASE InitTransport
    <3>1. config' = config /\ phase' = "running"
      BY ZenonT(300), <2>5 DEF InitTransport
    <3>2. PICK http \in {<<>>, <<"metrics">>} :
            DOMAIN runners' = DOMAIN runners \cup {"server", "client"} \cup Range(http)
      BY ZenonT(300), <2>5 DEF InitTransport
    <3>3. "polling" \notin Range(http)
      <4>1. \A k \in DOMAIN http : http[k] = "metrics"
        BY SMTT(300), <3>2
      <4> QED
        BY ZenonT(300), <4>1 DEF Range
    <3> QED
      BY ZenonT(300), <3>1, <3>2, <3>3
  <2>6. CASE InitFails \/ Stop \/ Drain \/ CloseNext \/ Exit
    <3>1. config' = config /\ (DOMAIN runners' = DOMAIN runners \/ DOMAIN runners' = {})
      BY SMTT(300), <2>6 DEF InitFails, Stop, Drain, CloseNext, Exit
    <3>2. phase' \in {"closing", "exited"}
      BY ZenonT(300), <2>6 DEF InitFails, Stop, Drain, CloseNext, Exit
    <3> QED
      BY ZenonT(300), <3>1, <3>2
  <2>7. ASSUME NEW r \in DOMAIN runners, RunnerFails(r) \/ RunnerStops(r)
        PROVE  UNCHANGED <<config, phase>> /\ DOMAIN runners' = DOMAIN runners
    BY ZenonT(300), <2>7 DEF RunnerFails, RunnerStops
  <2>8. ASSUME NEW p \in Peers, PeerOpens(p) \/ PeerLeaves(p)
        PROVE  UNCHANGED <<config, phase, runners>>
    BY ZenonT(300), <2>8 DEF PeerOpens, PeerLeaves
  <2>9. UNCHANGED processVars \/ UNCHANGED pvars => UNCHANGED <<config, phase, runners>>
    BY ZenonT(300) DEF processVars, pvars
  <2> QED
    BY ZenonT(300), <2>1, <2>2, <2>3, <2>4, <2>5, <2>6, <2>7, <2>8, <2>9 DEF ProcessNext, Own
<1>3. ConfigInv => PollingTablesAreStamped
  BY ZenonT(300) DEF ConfigInv
<1> QED
  BY <1>1, <1>2, <1>3, PTL DEF ProcessSpec

-----------------------------------------------------------------------------
(* ProcessTypeOK: the migrations' part rests on SchemaInv (a job commits the version *)
(* of a migration that there is), the rest is inductive by itself.           *)

MBounds == db.version \in 0..Latest /\ lock \in Jobs \cup {Free} /\ deaths \in 0..MaxDeaths

LEMMA BoundsInit == ProcessInit => MBounds
<1>1. EmptyDB.version = 0
  BY SMTT(300) DEF EmptyDB
<1>2. 0 \in 0..Latest /\ 0 \in 0..MaxDeaths
  BY SMTT(300), MigrationsAssumption
<1> QED
  BY ZenonT(300), <1>1, <1>2 DEF ProcessInit, MInit, MBounds

LEMMA BoundsStep == SchemaInv /\ MBounds /\ [ProcessNext]_processVars => MBounds'
<1> SUFFICES ASSUME SchemaInv, MBounds, [ProcessNext]_processVars PROVE MBounds'
  OBVIOUS
<1>1. ASSUME NEW j \in Jobs, JobStep(j) \/ Die(j) PROVE MBounds'
  <2>1. lock' \in Jobs \cup {Free}
    BY ZenonT(300), <1>1 DEF JobStep, Die, Lock, ReadVersion, Begin, Execute, SetVersion, Commit, Finish,
           GivesUp, MBounds
  <2>2. deaths' \in 0..MaxDeaths
    <3>1. CASE Die(j)
      BY SMTT(300), <3>1, MigrationsAssumption DEF Die, MBounds
    <3>2. CASE deaths' = deaths
      BY ZenonT(300), <3>2 DEF MBounds
    <3> QED
      BY ZenonT(300), <1>1, <3>1, <3>2 DEF JobStep, Lock, ReadVersion, Begin, Execute, SetVersion, Commit, Finish
  <2>3. db'.version \in 0..Latest
    <3>1. CASE Commit(j)
      <4>1. db'.version = Left(j) /\ Target(j) \in Versions
        BY ZenonT(300), <3>1 DEF Commit, SchemaInv, JobInv
      <4>2. Left(j) \in {Target(j), Target(j) - 1}
        BY ZenonT(300) DEF Left
      <4> HIDE DEF Left, Target
      <4> QED
        BY SMTT(300), <4>1, <4>2, MigrationsAssumption DEF Versions
    <3>2. CASE db' \in {db, [db EXCEPT !.table = TRUE]}
      <4>1. db'.version = db.version
        BY ZenonT(300), <3>2 DEF SchemaInv, MTypes, Databases
      <4> QED
        BY ZenonT(300), <4>1 DEF MBounds
    <3> QED
      BY ZenonT(300), <1>1, <3>1, <3>2 DEF JobStep, Die, Lock, ReadVersion, Begin, Execute, SetVersion, Finish
  <2> QED
    BY ZenonT(300), <2>1, <2>2, <2>3 DEF MBounds
<1>2. CASE UNCHANGED mvars
  BY ZenonT(300), <1>2 DEF mvars, MBounds
<1> QED
  BY ZenonT(300), <1>1, <1>2 DEF ProcessNext, MNext, Own, RunnerFails, RunnerStops, PeerOpens, PeerLeaves, StartApp,
         Load, InitRepository, InitCrypto, InitReplication, InitTransport, InitFails, Stop, Drain,
         CloseNext, Exit, processVars

\* ProcessTypeOK without the migrations' part.
PTypes ==
  /\ phase \in {"init", "load", "repository", "crypto", "replication", "transport", "running",
                "closing", "exited"}
  /\ Range(runners) \subseteq {"ready", "running", "ended"}
  /\ pool \in {"none", "open", "closed"} /\ cancelled \in BOOLEAN /\ draining \in BOOLEAN
  /\ streams \subseteq Peers /\ failures \in 0..MaxFailures

LEMMA PTypesInit == ProcessInit => PTypes
<1> SUFFICES ASSUME ProcessInit PROVE PTypes
  OBVIOUS
<1>1. 0 \in 0..MaxFailures
  BY SMTT(300), ProcessAssumption
<1>2. Range(runners) = {}
  BY SMTT(300) DEF ProcessInit, Range
<1> QED
  BY ZenonT(300), <1>1, <1>2 DEF ProcessInit, PTypes

\* The components of a process are ready, running or ended after every step.
LEMMA RunnersTyped ==
  ASSUME PTypes, [ProcessNext]_processVars PROVE Range(runners') \subseteq {"ready", "running", "ended"}
<1>1. ASSUME NEW S, NEW v \in {"ready", "running", "ended"}, runners' = [r \in S |-> v]
      PROVE  Range(runners') \subseteq {"ready", "running", "ended"}
  BY ZenonT(300), <1>1 DEF Range
<1>2. ASSUME NEW q \in DOMAIN runners, RunnerFails(q) \/ RunnerStops(q)
      PROVE  Range(runners') \subseteq {"ready", "running", "ended"}
  <2>1. runners' = [runners EXCEPT ![q] = "ended"]
    BY ZenonT(300), <1>2 DEF RunnerFails, RunnerStops
  <2>2. \A r \in DOMAIN runners' : r \in DOMAIN runners /\ runners'[r] \in {runners[r], "ended"}
    BY ZenonT(300), <2>1
  <2> QED
    BY ZenonT(300), <2>2 DEF Range, PTypes
<1>3. CASE runners' = runners
  BY ZenonT(300), <1>3 DEF PTypes, Range
<1>4. CASE runners' = <<>>
  BY SMTT(300), <1>4 DEF Range
<1>5. CASE InitRepository \/ InitCrypto \/ InitReplication
  BY ZenonT(300), <1>5, <1>1 DEF InitRepository, InitCrypto, InitReplication, Add
<1>6. CASE InitTransport
  BY ZenonT(300), <1>6, <1>1 DEF InitTransport
<1> QED
  BY ZenonT(300), <1>2, <1>3, <1>4, <1>5, <1>6 DEF ProcessNext, Own, PeerOpens, PeerLeaves, StartApp, Load, InitFails,
         Stop, Drain, CloseNext, Exit, processVars, pvars

LEMMA PTypesStep == PTypes /\ [ProcessNext]_processVars => PTypes'
<1> SUFFICES ASSUME PTypes, [ProcessNext]_processVars PROVE PTypes'
  OBVIOUS
<1>1. streams' \subseteq Peers
  <2>1. ASSUME NEW p \in Peers, PeerOpens(p) \/ PeerLeaves(p) PROVE streams' \subseteq Peers
    BY ZenonT(300), <2>1 DEF PeerOpens, PeerLeaves, PTypes
  <2> QED
    BY ZenonT(300), <2>1 DEF ProcessNext, Own, RunnerFails, RunnerStops, StartApp, Load, InitRepository, InitCrypto,
           InitReplication, InitTransport, InitFails, Stop, Drain, CloseNext, Exit, processVars, pvars, PTypes
<1>2. failures' \in 0..MaxFailures
  <2>1. CASE failures < MaxFailures /\ failures' = failures + 1
    BY SMTT(300), <2>1, ProcessAssumption DEF PTypes
  <2>2. CASE failures' = failures
    BY ZenonT(300), <2>2 DEF PTypes
  <2> QED
    BY ZenonT(300), <2>1, <2>2 DEF ProcessNext, Own, RunnerFails, RunnerStops, PeerOpens, PeerLeaves, StartApp, Load,
           InitRepository, InitCrypto, InitReplication, InitTransport, InitFails, Stop, Drain,
           CloseNext, Exit, processVars, pvars
<1>3. /\ phase' \in {"init", "load", "repository", "crypto", "replication", "transport", "running",
                     "closing", "exited"}
      /\ pool' \in {"none", "open", "closed"} /\ cancelled' \in BOOLEAN /\ draining' \in BOOLEAN
  BY ZenonT(300) DEF ProcessNext, Own, RunnerFails, RunnerStops, PeerOpens, PeerLeaves, StartApp, Load,
         InitRepository, InitCrypto, InitReplication, InitTransport, InitFails, Stop, Drain,
         CloseNext, Exit, processVars, pvars, PTypes
<1> QED
  BY ZenonT(300), <1>1, <1>2, <1>3, RunnersTyped DEF PTypes

\* The variables of process and init jobs are of their types; in particular the version of the
\* schema is that of a migration or 0, whoever migrates and dies (applyUp, applyDown, Run).
THEOREM ProcessTypeCorrect == ProcessSpec => []ProcessTypeOK
<1>1. ProcessInit => SchemaInv
  BY ZenonT(300), SchemaInit DEF ProcessInit
<1>2. SchemaInv /\ MBounds /\ PTypes => ProcessTypeOK
  BY ZenonT(300) DEF SchemaInv, MTypes, Databases, JobRecords, MBounds, PTypes, ProcessTypeOK, MTypeOK
<1> QED
  BY <1>1, <1>2, BoundsInit, PTypesInit, SchemaStep, BoundsStep, PTypesStep, PTL DEF ProcessSpec

=============================================================================
