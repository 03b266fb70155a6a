--------------------------- MODULE LeaderChecker ---------------------------
(***************************************************************************)
(* The leader checker (src/raftstore/read.go) shared by a peer with the    *)
(* goroutines that serve reads outside the store: the peer executor is its *)
(* only writer (NewPeer, OnRoleChanged, MaybeRenewLeaderLease, PostApply,  *)
(* MaybeDestroy in peer.go), a reader loads its atomics one at a time in   *)
(* isExpired.  Every store and every load is one step, so a reader can     *)
(* interleave with the writer between any two of them.                     *)
(*                                                                         *)
(* A remote lease is identified by the term and the region version it   *)
(* was created in (ExpireRemoteLease drops the peer's remote lease, so the *)
(* next one is a new object); its bound is abstracted to "valid" /        *)
(* "expired", time expiring it at any moment.  The region is abstracted   *)
(* to its epoch version.                                                   *)
(***************************************************************************)
EXTENDS Naturals

CONSTANTS
    MaxTerm,    \* bound on the raft term
    InitTerms,  \* possible persisted raft terms at NewPeer
    MaxVersion, \* bound on the region epoch version
    Nil         \* the nil pointer

ASSUME InitTerms \subseteq 0..MaxTerm

Terms == 0..MaxTerm
Versions == 0..MaxVersion
LeaseIds == Terms \X Versions

\* Peer executor: raft term and role, the storage's applied index term,
\* the region version of the peer's storage, the remote lease the peer's
\* Lease holds (Nil: none), the state of every remote lease created, the
\* checker store the executor still has to make ("term" or "lease" in
\* OnRoleChanged, "region" in SetRegion, or "none"), PendingRemove.
VARIABLES term, role, ait, version, remote, leases, toStore, pendingRemove
\* The checker's atomics: invalid, term, appliedIndexTerm, region (its
\* version), leaderLease.
VARIABLES ckInvalid, ckTerm, ckAit, ckVersion, ckLease
\* One reader: its position in isExpired, the epoch version its request
\* carries, the values it loaded.
VARIABLES rpc, rCtxVer, rTerm, rVer, rLease, rAit
\* Ghost: the terms in which this peer, as leader, applied an entry of the
\* same term (so every earlier entry was applied).
VARIABLE appliedOwn

peer == <<term, role, ait, version, remote, leases, toStore, pendingRemove>>
checker == <<ckInvalid, ckTerm, ckAit, ckVersion, ckLease>>
reader == <<rpc, rCtxVer, rTerm, rVer, rLease, rAit>>
vars == <<peer, checker, reader, appliedOwn>>

Leader == "leader"
Follower == "follower"

-----------------------------------------------------------------------------
(* NewPeer on a restarted region: the raft term and the applied index     *)
(* term come from disk; no remote lease exists yet.  Versions are        *)
(* counted from the region's version at NewPeer.                          *)
Init ==
  /\ term \in InitTerms /\ ait \in 0..term /\ version = 0
  /\ role = Follower /\ remote = Nil /\ leases = [l \in LeaseIds |-> "none"]
  /\ toStore = "none" /\ pendingRemove = FALSE
  /\ ckInvalid = FALSE /\ ckTerm = term /\ ckAit = ait /\ ckVersion = 0
  /\ ckLease = Nil
  /\ rpc = "idle" /\ rCtxVer = 0 /\ rTerm = 0 /\ rVer = 0 /\ rLease = Nil
  /\ rAit = 0
  /\ appliedOwn = {}

-----------------------------------------------------------------------------
(* Peer executor *)

\* Raft moves to a higher term as a follower.  The ready that follows runs
\* OnRoleChanged: Lease.Expire, which also expires and drops the remote
\* lease.  (Between the two the old lease stays valid: it is time-bounded.)
StepDown ==
  /\ term < MaxTerm /\ toStore = "none"
  /\ term' = term + 1 /\ role' = Follower
  /\ leases' = IF remote = Nil THEN leases
               ELSE [leases EXCEPT ![remote] = "expired"]
  /\ remote' = Nil
  /\ UNCHANGED <<ait, version, toStore, pendingRemove, checker, reader,
                 appliedOwn>>

\* A faulty OnRoleChanged that stores the term before publishing the new
\* remote lease (the two stores of peer.go:771-774 swapped).
ElectAndRenewTermFirst ==
  /\ role = Follower /\ term < MaxTerm /\ toStore = "none"
  /\ term' = term + 1 /\ role' = Leader
  /\ remote' = <<term + 1, version>>
  /\ leases' = [leases EXCEPT ![<<term + 1, version>>] = "valid"]
  /\ ckTerm' = IF pendingRemove THEN ckTerm ELSE term + 1
  /\ toStore' = "lease"
  /\ UNCHANGED <<ait, version, pendingRemove, ckInvalid, ckLease, ckAit,
                 ckVersion, reader, appliedOwn>>

\* The peer wins an election; OnRoleChanged calls MaybeRenewLeaderLease,
\* which renews the lease and publishes a new remote lease for the term,
\* and only then stores the term.
ElectAndRenew ==
  /\ role = Follower /\ term < MaxTerm /\ toStore = "none"
  /\ term' = term + 1 /\ role' = Leader
  /\ remote' = <<term + 1, version>>
  /\ leases' = [leases EXCEPT ![<<term + 1, version>>] = "valid"]
  /\ ckLease' = IF pendingRemove THEN ckLease ELSE <<term + 1, version>>
  /\ toStore' = "term"
  /\ UNCHANGED <<ait, version, pendingRemove, ckInvalid, ckTerm, ckAit,
                 ckVersion, reader, appliedOwn>>

\* OnRoleChanged finishes: the second of its two stores to the checker
\* (leaderChecker.term.Store(p.Term()) in the code).
PublishTerm ==
  /\ toStore \in {"term", "lease"}
  /\ ckTerm' = IF toStore = "term" /\ ~pendingRemove THEN term ELSE ckTerm
  /\ ckLease' = IF toStore = "lease" /\ ~pendingRemove THEN remote ELSE ckLease
  /\ toStore' = "none"
  /\ UNCHANGED <<term, role, ait, version, remote, leases, pendingRemove,
                 ckInvalid, ckAit, ckVersion, reader, appliedOwn>>

\* MaybeRenewLeaderLease later in the term renews the remote lease's
\* bound in place (MaybeNewRemoteLease returns nil while the peer holds
\* the remote lease of its term); after ExpireRemoteLease dropped it,
\* MaybeNewRemoteLease creates a new one, which the peer publishes.
Renew ==
  /\ role = Leader /\ toStore = "none"
  /\ LET id == IF remote = Nil THEN <<term, version>> ELSE remote
     IN  /\ leases' = [leases EXCEPT ![id] = "valid"]
         /\ remote' = id
         /\ ckLease' = IF remote = Nil /\ ~pendingRemove THEN id ELSE ckLease
  /\ UNCHANGED <<term, role, ait, version, toStore, pendingRemove,
                 ckInvalid, ckTerm, ckAit, ckVersion, reader, appliedOwn>>

\* A SetRegion that leaves the remote lease alone when the version grows.
SetRegionNoExpire ==
  /\ toStore = "none" /\ version < MaxVersion
  /\ version' = version + 1 /\ toStore' = "region"
  /\ UNCHANGED <<term, role, ait, remote, leases, pendingRemove, checker,
                 reader, appliedOwn>>

\* SetRegion with a region of a higher epoch version (a split or merge
\* applied): ExpireRemoteLease expires and drops the remote lease, then
\* the storage takes the region.  Publishing it to the checker is the
\* next step.
SetRegion ==
  /\ toStore = "none" /\ version < MaxVersion
  /\ version' = version + 1 /\ toStore' = "region"
  /\ leases' = IF remote = Nil THEN leases
               ELSE [leases EXCEPT ![remote] = "expired"]
  /\ remote' = Nil
  /\ UNCHANGED <<term, role, ait, pendingRemove, checker, reader,
                 appliedOwn>>

\* SetRegion finishes: leaderChecker.region is stored unless PendingRemove.
PublishRegion ==
  /\ toStore = "region" /\ toStore' = "none"
  /\ ckVersion' = IF pendingRemove THEN ckVersion ELSE version
  /\ UNCHANGED <<term, role, ait, version, remote, leases, pendingRemove,
                 ckInvalid, ckTerm, ckAit, ckLease, reader, appliedOwn>>

\* Time passes a remote lease's bound.
LeaseTimeout(l) ==
  /\ leases[l] = "valid"
  /\ leases' = [leases EXCEPT ![l] = "expired"]
  /\ UNCHANGED <<term, role, ait, version, remote, toStore, pendingRemove,
                 checker, reader, appliedOwn>>

PostApply(t) ==
  /\ toStore = "none" /\ t \in ait..term /\ t # ait
  /\ ait' = t
  /\ ckAit' = IF role = Leader /\ ~pendingRemove THEN t ELSE ckAit
  /\ appliedOwn' = IF role = Leader /\ t = term THEN appliedOwn \cup {t}
                   ELSE appliedOwn
  /\ UNCHANGED <<term, role, version, remote, leases, toStore,
                 pendingRemove, ckInvalid, ckTerm, ckVersion, ckLease, reader>>

\* MaybeDestroy: PendingRemove, then leaderChecker.invalid.Store(true).
MaybeDestroy ==
  /\ ~pendingRemove /\ toStore = "none"
  /\ pendingRemove' = TRUE /\ ckInvalid' = TRUE
  /\ UNCHANGED <<term, role, ait, version, remote, leases, toStore, ckTerm,
                 ckAit, ckVersion, ckLease, reader, appliedOwn>>

-----------------------------------------------------------------------------
(* Reader: IsLeader / isExpired, one load per step, in the code's order.  *)
(* The request names this peer and an unset term; its epoch version is  *)
(* whatever the client last learned, from this peer or another.           *)

LoadInvalid ==
  /\ rpc = "idle"
  /\ rpc' = IF ckInvalid THEN "notfound" ELSE "term"
  /\ rCtxVer' \in Versions
  /\ UNCHANGED <<peer, checker, rTerm, rVer, rLease, rAit, appliedOwn>>
LoadTerm ==
  /\ rpc = "term" /\ rpc' = "region" /\ rTerm' = ckTerm
  /\ UNCHANGED <<peer, checker, rCtxVer, rVer, rLease, rAit, appliedOwn>>
LoadRegion ==
  /\ rpc = "region" /\ rpc' = "lease" /\ rVer' = ckVersion
  /\ UNCHANGED <<peer, checker, rCtxVer, rTerm, rLease, rAit, appliedOwn>>
LoadLease ==
  /\ rpc = "lease" /\ rpc' = "ait" /\ rLease' = ckLease
  /\ UNCHANGED <<peer, checker, rCtxVer, rTerm, rVer, rAit, appliedOwn>>
LoadAit ==
  /\ rpc = "ait" /\ rpc' = "decide" /\ rAit' = ckAit
  /\ UNCHANGED <<peer, checker, rCtxVer, rTerm, rVer, rLease, appliedOwn>>

\* The verdict of isExpired: an epoch version other than the loaded
\* region's is EpochNotMatch ("epoch"); a term mismatch goes through read
\* index ("readindex"); otherwise the lease is inspected now ("nil" when
\* there is no lease to inspect).
Verdict ==
  IF rCtxVer # rVer THEN "epoch"
  ELSE IF rAit # rTerm THEN "readindex"
  ELSE IF rLease = Nil THEN "nil"
  ELSE IF leases[rLease] = "expired" THEN "readindex"
  ELSE "local"

Decide ==
  /\ rpc = "decide" /\ rpc' = Verdict
  /\ UNCHANGED <<peer, checker, rCtxVer, rTerm, rVer, rLease, rAit,
                 appliedOwn>>

\* The reader serves its request and takes the next one.
NextRequest ==
  /\ rpc \in {"readindex", "local", "notfound", "epoch"}
  /\ rpc' = "idle"
  /\ UNCHANGED <<peer, checker, rCtxVer, rTerm, rVer, rLease, rAit,
                 appliedOwn>>

\* A nil dereference in a reader crashes the process.
Crashed == rpc = "nil" /\ UNCHANGED vars

Next ==
  \/ Crashed
  \/ StepDown \/ ElectAndRenew \/ PublishTerm \/ Renew
  \/ SetRegion \/ PublishRegion
  \/ \E l \in LeaseIds : LeaseTimeout(l)
  \/ \E t \in Terms : PostApply(t)
  \/ MaybeDestroy
  \/ LoadInvalid \/ LoadTerm \/ LoadRegion \/ LoadLease \/ LoadAit \/ Decide \/ NextRequest

Spec == Init /\ [][Next]_vars

-----------------------------------------------------------------------------
(* Properties *)

\* isExpired never calls Inspect on a nil remote lease (read.go:120): a
\* reader that finds applied index term equal to term has a lease.
NoNilLeaseInspect == rpc # "nil"

\* A reader allows a local read only under a lease of a term in which the
\* peer had applied an entry of that term, so that every entry committed
\* by earlier leaders is in the state it reads (the reason isExpired
\* compares appliedIndexTerm with term).
LocalReadApplied ==
  rpc = "local" => rLease[1] \in appliedOwn

\* Spec section 5: a reader never sees a remote lease older than the term
\* it loaded.  OnRoleChanged publishes the new term's lease (inside
\* MaybeRenewLeaderLease) before the term, and isExpired loads the term
\* before the lease.
LeaseNotOlderThanTerm ==
  (rpc \in {"ait", "decide", "local", "readindex"} /\ rLease # Nil)
      => rLease[1] >= rTerm
ValidLeaseCurrentVersion ==
  \A l \in LeaseIds : leases[l] = "valid" => l[2] = version

\* A reader allows a local read only for a request whose epoch version
\* is the peer's region version at that moment: isExpired compares the
\* request's epoch with the region it loaded before the lease.
LocalReadCurrentEpoch ==
  [][rpc # "local" /\ rpc' = "local" => rCtxVer = version]_vars
====
