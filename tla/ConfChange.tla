---------------------------- MODULE ConfChange ----------------------------
(***************************************************************************)
(* A leader proposing membership changes (peer.go ProposeConfChange,       *)
(* checkConfChange, countHealthyNode, Quorum) while followers catch up,    *)
(* the log is truncated and raft applies committed changes.  The leader   *)
(* is `Self` and keeps its leadership; raft (the progress map, the append *)
(* of a conf-change entry, ApplyConfChange) and the raft-log GC are       *)
(* environment actions modelled from the etcd raft behaviour the code     *)
(* relies on.  The same progress map drives the leader's other gates:   *)
(* ProposeNormal and the PrepareMerge log-gap check (preProposePrepareMerge,*)
(* GetMinProgress), ProposeTransferLeader (readyToTransferLeader,         *)
(* RecentAddedPeer) and the pending-peer report of HeartbeatPd            *)
(* (CollectPendingPeers, AnyNewPeerCatchUp).                               *)
(***************************************************************************)
EXTENDS Naturals, Sequences, FiniteSets, FiniteSetsExt

CONSTANTS
    Peers,              \* peer ids
    Self,               \* the leader proposing the changes
    MaxIndex,           \* bound on the raft log's last index
    AllowRemoveLeader,  \* cfg.AllowRemoveLeader
    ChangeTypes,        \* change types the clients send
    Roles,              \* peer roles the clients put in a request
    NoPeer,             \* raft's None (peer id 0)
    LeaderTransferMaxLogLag,  \* cfg.LeaderTransferMaxLogLag
    MergeMaxLogGap            \* cfg.MergeMaxLogGap

ASSUME Self \in Peers
ASSUME ChangeTypes \subseteq {"AddNode", "RemoveNode", "AddLearnerNode"}
ASSUME Roles \subseteq {"Voter", "Learner"}
ASSUME NoPeer \notin Peers

Normal == [type |-> "normal"]
\* An admin command that changes the epoch or the log (Split, ...).
Admin == [type |-> "admin"]
PrepareMergeEntry == [type |-> "PrepareMerge"]
ConfEntry(ct, pr) == [type |-> ct, peer |-> pr]

\* The raft group: voters and learners (together, status.Progress), the
\* match index of every peer, the log, the storage's truncated and applied
\* index, raft's PendingConfIndex.
VARIABLES voters, learners, match, log, truncated, applied, pendingConf
\* Ghost: the result of the last ProposeConfChange, and the indexes that
\* ProposeConfChange returned for accepted changes.
VARIABLES lastCheck, acceptedAt
\* raft's leadTransferee; Peer.RecentAddedPeer (its ID, and whether its
\* reject window is still open); the keys of Peer.PeersStartPendingTime;
\* whether PendingMergeState is set (an applied PrepareMerge).
VARIABLES transferee, recentAdded, pendingMarked, merging
gateVars == <<transferee, recentAdded, pendingMarked, merging>>
vars == <<voters, learners, match, log, truncated, applied, pendingConf,
          lastCheck, acceptedAt, gateVars>>

Members == voters \cup learners

Init ==
  /\ voters \in {V \in SUBSET Peers : Self \in V}
  /\ learners \in SUBSET (Peers \ voters)
  /\ log = <<Normal>> /\ truncated = 1 /\ applied = 1 /\ pendingConf = 0
  /\ match = [q \in Peers |-> IF q \in voters \cup learners THEN 1 ELSE 0]
  /\ lastCheck = [result |-> "none"] /\ acceptedAt = {}
  /\ transferee = NoPeer /\ pendingMarked = {} /\ merging = FALSE
  /\ recentAdded = [id |-> NoPeer, open |-> TRUE]

-----------------------------------------------------------------------------
(* checkConfChange *)

\* Quorum(total).
Quorum(total) == total \div 2 + 1

\* countHealthyNode: members of the progress map whose match has reached
\* the truncated index.
CountHealthyNode(prog, m) == Cardinality({q \in prog : m[q] >= truncated})

\* The progress map checkConfChange builds for the change: AddNode promotes
\* a learner or puts an empty progress (match 0) for the peer; RemoveNode
\* deletes the peer.
ProgressAfter(ct, pr) ==
  IF ct = "AddNode" THEN Members \cup {pr} ELSE Members \ {pr}
MatchAfter(ct, pr) ==
  IF ct = "AddNode" /\ pr \notin learners THEN [match EXCEPT ![pr] = 0]
  ELSE match

\* A checkConfChange that lets the leader remove itself.
CheckConfChangeRemovesLeader(ct, pr, role) ==
  IF ct = "RemoveNode" /\ pr = Self THEN "ok" ELSE "invalid"

\* checkConfChange(cfg, cmd): "ok" or the error it returns.
CheckConfChange(ct, pr, role) ==
  CASE (ct = "AddNode" /\ role = "Learner")
         \/ (ct = "AddLearnerNode" /\ role # "Learner") -> "invalid"
    [] ct = "RemoveNode" /\ ~AllowRemoveLeader /\ pr = Self -> "removeLeader"
    [] Cardinality(Members) = 1                         -> "ok"
    [] ct = "RemoveNode" /\ role = "Learner"            -> "ok"
    [] ct = "RemoveNode" /\ pr \notin Members           -> "ok"
    [] ct = "AddLearnerNode"                            -> "ok"
    [] CountHealthyNode(ProgressAfter(ct, pr), MatchAfter(ct, pr))
         >= Quorum(Cardinality(ProgressAfter(ct, pr)))  -> "ok"
    [] OTHER                                            -> "unsafe"

\* The promise of checkConfChange's comment, over voters only: after a
\* change of the voter set a quorum of the new voters is healthy.  A
\* group of one voter is exempt, as the comment says.
VotersAfter(ct, pr) ==
  CASE ct = "AddNode"    -> voters \cup {pr}
    [] ct = "RemoveNode" -> voters \ {pr}
    [] OTHER             -> voters
SafeForVoters(ct, pr) ==
  LET V == VotersAfter(ct, pr)
  IN  \/ Cardinality(voters) = 1
      \/ V = voters
      \/ CountHealthyNode(V, MatchAfter(ct, pr)) >= Cardinality(V) \div 2 + 1

-----------------------------------------------------------------------------
(* ProposeConfChange *)

\* raft drops every proposal while a leader transfer is in progress.
ProposalDropped == transferee # NoPeer

\* raft.ProposeConfChange on the leader: dropped while transferring; a
\* leader with an unapplied conf change appends it as an empty normal entry.
RaftAppendConf(ct, pr) ==
  CASE ProposalDropped  -> UNCHANGED <<log, pendingConf>>
    [] pendingConf > applied ->
         /\ log' = Append(log, Normal) /\ UNCHANGED pendingConf
    [] OTHER ->
         /\ log' = Append(log, ConfEntry(ct, pr)) /\ pendingConf' = Len(log) + 1

\* A peer that never refuses for a pending conf change.
PendingConfChangeNever == FALSE

\* The peer's own check: raft.PendingConfIndex > Store().AppliedIndex().
PendingConfChange == pendingConf > applied

\* The check after the propose: nextProposalIndex() moved past idx.
Appended(idx) == Len(log') >= idx

\* ProposeConfChange(cfg, req) for a request (ct, pr, role).  A rejection
\* changes nothing; a change raft dropped is ErrNotLeader; an accepted
\* change is appended at nextProposalIndex.
ProposeConfChange(ct, pr, role) ==
  /\ LET err == CASE merging           -> "merging"
                   [] PendingConfChange -> "pending"
                   [] OTHER             -> CheckConfChange(ct, pr, role)
         idx == Len(log) + 1
     IN  IF err = "ok"
         THEN /\ Len(log) < MaxIndex
              /\ RaftAppendConf(ct, pr)
              /\ lastCheck' = [result |-> IF Appended(idx) THEN "ok"
                                          ELSE "notLeader",
                               safe |-> SafeForVoters(ct, pr)]
              /\ acceptedAt' = IF Appended(idx) THEN acceptedAt \cup {idx}
                               ELSE acceptedAt
              /\ match' = [match EXCEPT ![Self] = Len(log')]
         ELSE /\ lastCheck' = [result |-> err, safe |-> SafeForVoters(ct, pr)]
              /\ UNCHANGED <<log, pendingConf, acceptedAt, match>>
  /\ UNCHANGED <<voters, learners, truncated, applied, gateVars>>

-----------------------------------------------------------------------------
(* ProposeNormal, PrePropose, preProposePrepareMerge *)

\* GetMinProgress: the least match in status.Progress (learners included).
GetMinProgress == Min({match[q] : q \in Members})

\* preProposePrepareMerge: "ok" or the error it returns.  The gap
\* (minProgress, lastIndex] must be short, still in the log
\* (RaftLog.Entries fails with ErrCompacted below the first index), and
\* hold only normal entries: a conf change, or an admin request other than
\* TransferLeader, ComputeHash or VerifyHash, is refused.  Entry sizes are
\* not modelled: tooLarge is the size check's outcome.
PreProposePrepareMerge(tooLarge) ==
  LET minProgress == GetMinProgress
      minIndex    == minProgress + 1
  IN  CASE minProgress = 0 \/ Len(log) - minProgress > MergeMaxLogGap -> "gap"
        [] minIndex <= truncated                                 -> "compacted"
        [] \E i \in minIndex..Len(log) : log[i].type # "normal"   -> "confOrAdmin"
        [] tooLarge /\ minIndex <= Len(log)                       -> "tooLarge"
        [] OTHER                                                 -> "ok"

\* ProposeNormal(cfg, rlog) of a command e (a normal write or an admin
\* request) or of a PrepareMerge: refused in merging mode; PrePropose runs
\* preProposePrepareMerge and sets MinIndex; raft drops the proposal while
\* transferring (ErrNotLeader).  Only an appended proposal changes state.
ProposeNormal(e, tooLarge) ==
  /\ ~merging
  /\ e = PrepareMergeEntry => PreProposePrepareMerge(tooLarge) = "ok"
  /\ ~ProposalDropped
  /\ Len(log) < MaxIndex
  /\ log' = Append(log, e)
  /\ match' = [match EXCEPT ![Self] = Len(log) + 1]
  /\ UNCHANGED <<voters, learners, truncated, applied, pendingConf,
                 lastCheck, acceptedAt, transferee, recentAdded,
                 pendingMarked, merging>>

-----------------------------------------------------------------------------
(* ProposeTransferLeader, readyToTransferLeader, RecentAddedPeer *)

\* RecentAddedPeer.Contains(id): the same id, inside the reject window.
RecentAddedContains(q) == recentAdded.id = q /\ recentAdded.open

\* A peer the leader can only catch up with a snapshot is in
\* ProgressStateSnapshot.
InSnapshot(q) == match[q] < truncated

\* readyToTransferLeader(cfg, peer).
ReadyToTransferLeader(q) ==
  /\ q \in Members
  /\ \A r \in Members : ~InSnapshot(r)
  /\ ~RecentAddedContains(q)
  /\ Len(log) <= match[q] + LeaderTransferMaxLogLag

\* raft.TransferLeader(q) on the leader: a learner is ignored, a transfer
\* already to q is kept, any other is aborted; a transfer to the leader
\* itself ends there.
RaftTransferLeader(q) ==
  transferee' = CASE q \in learners -> transferee
                  [] q = Self        -> NoPeer
                  [] OTHER           -> q

\* ProposeTransferLeader(cfg, req, cb): an advice; the callback is answered
\* either way.
ProposeTransferLeader(q) ==
  /\ IF ReadyToTransferLeader(q) THEN RaftTransferLeader(q)
     ELSE UNCHANGED transferee
  /\ UNCHANGED <<voters, learners, match, log, truncated, applied,
                 pendingConf, lastCheck, acceptedAt, recentAdded,
                 pendingMarked, merging>>

-----------------------------------------------------------------------------
(* HeartbeatPd: CollectPendingPeers, AnyNewPeerCatchUp *)

\* CollectPendingPeers: the members other than the leader whose match is
\* below the truncated index (all of them are in the peer cache).
CollectPendingPeers == {q \in Members \ {Self} : match[q] < truncated}

\* HeartbeatPd: the report marks the pending peers' start time once.
HeartbeatPd ==
  /\ pendingMarked' = pendingMarked \cup CollectPendingPeers
  /\ UNCHANGED <<voters, learners, match, log, truncated, applied,
                 pendingConf, lastCheck, acceptedAt, transferee,
                 recentAdded, merging>>

\* AnyNewPeerCatchUp(q) on an append response from q: a marked peer whose
\* progress has reached the truncated index loses its mark.  The leader
\* here stays leader, so the clearing branch for a non-leader is not taken.
AnyNewPeerCatchUp(q) ==
  /\ pendingMarked # {}
  /\ q \in pendingMarked /\ q \in Members /\ match[q] >= truncated
  /\ pendingMarked' = pendingMarked \ {q}
  /\ UNCHANGED <<voters, learners, match, log, truncated, applied,
                 pendingConf, lastCheck, acceptedAt, transferee,
                 recentAdded, merging>>

-----------------------------------------------------------------------------
(* Environment: replication, apply, log GC, time *)

\* A follower or learner acknowledges the next entry (the log from its
\* match on is still there), or installs a snapshot at the applied index.
Replicate(q) ==
  /\ q \in Members \ {Self}
  /\ match[q] < Len(log)
  /\ match' = [match EXCEPT ![q] = IF match[q] >= truncated THEN match[q] + 1
                                   ELSE applied]
  /\ UNCHANGED <<voters, learners, log, truncated, applied, pendingConf,
                 lastCheck, acceptedAt, gateVars>>

\* The highest index a quorum of voters has.
Committed ==
  LET Acked(i) == Cardinality({v \in voters : match[v] >= i})
                    >= Cardinality(voters) \div 2 + 1
  IN  CHOOSE i \in 0..Len(log) : Acked(i) /\ ~Acked(i + 1)

\* raft.ApplyConfChange of a committed entry, with what the store does on
\* applying it: an added peer becomes RecentAddedPeer, removing the
\* transferee aborts the transfer, an applied PrepareMerge sets
\* PendingMergeState.
ApplyEntry(e) ==
  CASE e.type = "AddNode" ->
         /\ voters' = voters \cup {e.peer}
         /\ learners' = learners \ {e.peer}
         /\ match' = IF e.peer \in Members THEN match
                     ELSE [match EXCEPT ![e.peer] = 0]
         /\ recentAdded' = [id |-> e.peer, open |-> TRUE]
         /\ UNCHANGED <<transferee, merging>>
    [] e.type = "AddLearnerNode" ->
         /\ learners' = IF e.peer \in voters THEN learners
                        ELSE learners \cup {e.peer}
         /\ match' = IF e.peer \in Members THEN match
                     ELSE [match EXCEPT ![e.peer] = 0]
         /\ recentAdded' = [id |-> e.peer, open |-> TRUE]
         /\ UNCHANGED <<voters, transferee, merging>>
    [] e.type = "RemoveNode" ->
         /\ voters' = voters \ {e.peer} /\ learners' = learners \ {e.peer}
         /\ transferee' = IF transferee = e.peer THEN NoPeer ELSE transferee
         /\ UNCHANGED <<match, recentAdded, merging>>
    [] e.type = "PrepareMerge" ->
         /\ merging' = TRUE
         /\ UNCHANGED <<voters, learners, match, transferee, recentAdded>>
    [] OTHER -> UNCHANGED <<voters, learners, match, transferee, recentAdded,
                            merging>>

Apply ==
  /\ applied < Committed
  /\ applied' = applied + 1
  /\ ApplyEntry(log[applied + 1])
  /\ UNCHANGED <<log, truncated, pendingConf, lastCheck, acceptedAt,
                 pendingMarked>>

\* Raft-log GC compacts the log up to an applied index.
CompactLog ==
  /\ truncated < applied
  /\ \E i \in truncated + 1..applied : truncated' = i
  /\ UNCHANGED <<voters, learners, match, log, applied, pendingConf,
                 lastCheck, acceptedAt, gateVars>>

\* The election timeout passes during a transfer: raft aborts it.
AbortTransfer ==
  /\ transferee # NoPeer
  /\ transferee' = NoPeer
  /\ UNCHANGED <<voters, learners, match, log, truncated, applied,
                 pendingConf, lastCheck, acceptedAt, recentAdded,
                 pendingMarked, merging>>

\* RejectDurationAsSecs pass after the last addition.
RecentAddedExpire ==
  /\ recentAdded.open
  /\ recentAdded' = [recentAdded EXCEPT !.open = FALSE]
  /\ UNCHANGED <<voters, learners, match, log, truncated, applied,
                 pendingConf, lastCheck, acceptedAt, transferee,
                 pendingMarked, merging>>

\* The role a request carries: any for an addition (checkConfChange
\* validates it); for a removal, the peer's role in the region.
RequestRoles(ct, pr) ==
  IF ct = "RemoveNode" THEN {IF pr \in learners THEN "Learner" ELSE "Voter"}
  ELSE Roles

Next ==
  \/ \E ct \in ChangeTypes, pr \in Peers :
        \E role \in RequestRoles(ct, pr) : ProposeConfChange(ct, pr, role)
  \/ \E e \in {Normal, Admin, PrepareMergeEntry}, tooLarge \in BOOLEAN :
        ProposeNormal(e, tooLarge)
  \/ \E q \in Peers : ProposeTransferLeader(q)
  \/ HeartbeatPd
  \/ \E q \in Peers : AnyNewPeerCatchUp(q)
  \/ \E q \in Peers : Replicate(q)
  \/ Apply
  \/ CompactLog
  \/ AbortTransfer
  \/ RecentAddedExpire

Spec == Init /\ [][Next]_vars

-----------------------------------------------------------------------------
(* Properties *)

TypeOK ==
  /\ Self \in voters /\ voters \cap learners = {}
  /\ match \in [Peers -> 0..MaxIndex]
  /\ truncated <= applied /\ applied <= Len(log)

\* checkConfChange accepts a change of the voter set only when a quorum
\* of the voters after the change is healthy (the comment above
\* checkConfChange); countHealthyNode and Quorum count status.Progress,
\* which also holds learners.
ConfChangeKeepsVoterQuorum ==
  lastCheck.result = "ok" => lastCheck.safe

\* Every index ProposeConfChange returned for an accepted change holds
\* that conf change: raft never turned it into an empty entry because an
\* earlier conf change was still unapplied.
AcceptedConfChangeInLog ==
  \A i \in acceptedAt : i <= Len(log) /\ log[i].type \notin {"normal", "admin", "PrepareMerge"}
====
