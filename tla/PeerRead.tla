----------------------------- MODULE PeerRead -----------------------------
(***************************************************************************)
(* One peer of one region (src/raftstore/peer.go): the read paths (local   *)
(* read under the leader lease, read index), the proposal queue that       *)
(* renews the lease, the ready/apply cycle that pairs read states from     *)
(* raft with the read-index queue, snapshot application, and destruction.  *)
(*                                                                         *)
(* The raft library, the peer storage, the region worker and the apply    *)
(* worker are collaborators outside the sources.  They are modelled as    *)
(* environment actions that do what the spec (section 6) says they do.    *)
(* Data is abstracted away: a read command is a model value, a log entry  *)
(* is its term and its proposal context.                                  *)
(***************************************************************************)
EXTENDS Naturals, Sequences, FiniteSets, SequencesExt

CONSTANTS
    Cmds,       \* read commands sent by clients, each proposed once
    Self,       \* this peer's id
    Others,     \* ids of the other peers of the region
    None,       \* no leader / no value
    MaxTerm,    \* bound on the raft term
    MaxLog,     \* bound on the raft log length
    MaxTime,    \* bound on the clock
    MaxLease,   \* cfg.RaftStoreMaxLeaderLease in ticks
    Snapshots   \* whether the leader may send this peer snapshots

ASSUME /\ MaxTerm \in Nat /\ MaxLog \in Nat /\ MaxTime \in Nat
       /\ Snapshots \in BOOLEAN /\ Self \notin Others

L == INSTANCE Lease

Leader == "leader"
Follower == "follower"

\* ProposalContext flags (peer.go ProposalContext*).
CtxSyncLog == 1
CtxSplit == 2
CtxPrepareMerge == 4

\* Peer (peer.go Peer).
VARIABLES pendingReads, readyCnt, idAllocator, proposals, lastApplyingIdx,
          lease, lastCommittedSplitIdx, lastCommittedPrepareMergeIdx,
          pendingRemove
\* Peer storage, region worker and apply worker.
VARIABLES appliedIndex, appliedIndexTerm, snapState, applyTasks
\* Raft library: term, role, leader, soft state at the last Advance, log,
\* committed index, reads awaiting quorum, confirmed read states, the index
\* of a received but unhandled snapshot (0: none), leader transfer state.
VARIABLES term, role, lead, prevSS, log, commit, raftReads, readStates,
          pendingSnap, transferee, timeoutNowMsg
\* Clients, clock, and history: destroyed, the assertion a panic broke,
\* when the lease was last suspected in this term, and the latest send
\* time a quorum acknowledged in this term.
VARIABLES status, done, now, destroyed, panicked, suspectAt, ackAt
\* Ghosts for linearizability: the highest index whose write a client may
\* have been told is done (applied here, or committed by another leader,
\* which acknowledges on its own apply), and its value when each read
\* command was proposed.
VARIABLES acked, startAcked

peerVars == <<pendingReads, readyCnt, idAllocator, proposals, lastApplyingIdx,
              lease, lastCommittedSplitIdx, lastCommittedPrepareMergeIdx,
              pendingRemove>>
storeVars == <<appliedIndex, appliedIndexTerm, snapState, applyTasks>>
raftVars == <<term, role, lead, prevSS, log, commit, raftReads, readStates,
              pendingSnap, transferee, timeoutNowMsg>>
otherVars == <<status, done, now, destroyed, panicked, suspectAt, ackAt,
              acked, startAcked>>
vars == <<peerVars, storeVars, raftVars, otherVars>>

-----------------------------------------------------------------------------
(* Helpers *)

SoftState == [lead |-> lead, role |-> role]
LogTerm(i) == IF i = 0 THEN 0 ELSE log[i].term
Ids(rs) == [i \in DOMAIN rs |-> rs[i].id]
CmdsOf(rs) == FlattenSeq([i \in DOMAIN rs |-> rs[i].cmds])
UnreadyIds == Ids(SubSeq(pendingReads, readyCnt + 1, Len(pendingReads)))
MaxOr(S, d) == IF S = {} THEN d ELSE Max(S)

\* Callback.Done for each [c, r] of a sequence of responses.
Respond(rs) ==
    /\ status' = [c \in Cmds |->
                    LET is == {i \in DOMAIN rs : rs[i].c = c}
                    IN  IF is = {} THEN status[c] ELSE rs[Max(is)].r]
    /\ done' = [c \in Cmds |->
                    done[c] + Cardinality({i \in DOMAIN rs : rs[i].c = c})]
Tag(cs, r) == [i \in DOMAIN cs |-> [c |-> cs[i], r |-> r]]

\* ProposalContext.contains
CtxContains(ctx, flag) == (ctx \div flag) % 2 = 1

\* isSplitting / isMerging (PendingMergeState is never set by this code).
IsSplitting(splitIdx, applied) == splitIdx > applied
IsMerging(mergeIdx, applied) == mergeIdx > applied
\* A readyToHandleRead that forgets the applied index term.
ReadyToHandleReadAnyTerm(ait, splitIdx, mergeIdx, applied) ==
    /\ ~IsSplitting(splitIdx, applied)
    /\ ~IsMerging(mergeIdx, applied)
\* readyToHandleRead
ReadyToHandleRead(ait, splitIdx, mergeIdx, applied) ==
    /\ ait = term
    /\ ~IsSplitting(splitIdx, applied)
    /\ ~IsMerging(mergeIdx, applied)
\* A faulty variant that does not wait for the apply worker.
ReadyToHandlePendingSnapAlways == TRUE
\* ReadyToHandlePendingSnap
ReadyToHandlePendingSnap == lastApplyingIdx = appliedIndex
\* Store().IsApplyingSnapshot(): the snapshot state is Applying until the
\* next CheckApplyingSnap sees the region worker's job finished.
IsApplyingSnapshot == snapState # "relax"
\* The handler is skipped or the peer is gone.
ReadyBlocked ==
    \/ pendingRemove
    \/ snapState \in {"pending", "running"}
    \/ pendingSnap # 0 /\ ~ReadyToHandlePendingSnap

\* MaybeRenewLeaderLease(ts), given the split and merge indexes and the
\* applied index it sees.
MaybeRenewLeaderLease(l, ts, splitIdx, mergeIdx, applied) ==
    IF role # Leader \/ IsSplitting(splitIdx, applied)
                     \/ IsMerging(mergeIdx, applied)
    THEN l ELSE L!Renew(l, ts)

\* A faulty findProposeTime that takes the time of the first proposal it
\* pops, whatever entry that proposal was for.
FindProposeTimeAnyIndex(q, index, t) ==
    IF q = <<>> \/ Head(q).term > t THEN <<None, q>>
    ELSE <<Head(q).time, Tail(q)>>

\* ProposalQueue.PopFront(term) repeated by findProposeTime(index, term):
\* << renew time or None, the queue left >>.
RECURSIVE FindProposeTime(_, _, _)
FindProposeTime(q, index, t) ==
    IF q = <<>> \/ Head(q).term > t THEN <<None, q>>
    ELSE IF Head(q).index = index /\ Head(q).term = t
         THEN <<Head(q).time, Tail(q)>>
         ELSE FindProposeTime(Tail(q), index, t)

\* The lease loop of HandleRaftReadyApply over committed entries lo..hi:
\* << index of the first entry whose proposal is found or 0, its time,
\*    the queue left >>.
RECURSIVE RenewFromCommitted(_, _, _)
RenewFromCommitted(q, lo, hi) ==
    IF lo > hi THEN <<0, 0, q>>
    ELSE LET r == FindProposeTime(q, lo, LogTerm(lo))
         IN  IF r[1] # None THEN <<lo, r[1], r[2]>>
             ELSE RenewFromCommitted(r[2], lo + 1, hi)

\* The context HandleRaftReadyApply inspects for entry i: the code parses
\* the literal []byte{0}, not entry.Context (peer.go:1076-1077).
AppliedEntryCtx(i) == 0

-----------------------------------------------------------------------------
(* Init: NewPeer on a region with other peers (no campaign). *)

Init ==
    /\ pendingReads = <<>> /\ readyCnt = 0 /\ idAllocator = 0
    /\ proposals = <<>> /\ lastApplyingIdx = 0 /\ lease = L!ExpiredLease
    /\ lastCommittedSplitIdx = 0 /\ lastCommittedPrepareMergeIdx = 0
    /\ pendingRemove = FALSE
    /\ appliedIndex = 0 /\ appliedIndexTerm = 0 /\ snapState = "relax"
    /\ applyTasks = <<>>
    /\ term = 0 /\ role = Follower /\ lead = None
    /\ prevSS = [lead |-> None, role |-> Follower]
    /\ log = <<>> /\ commit = 0 /\ raftReads = <<>> /\ readStates = <<>>
    /\ pendingSnap = 0 /\ transferee = FALSE /\ timeoutNowMsg = FALSE
    /\ status = [c \in Cmds |-> "new"] /\ done = [c \in Cmds |-> 0]
    /\ now = 0 /\ destroyed = FALSE /\ panicked = "none"
    /\ suspectAt = None /\ ackAt = 0
    /\ acked = 0 /\ startAcked = [c \in Cmds |-> 0]

Live == ~destroyed /\ panicked = "none"
-----------------------------------------------------------------------------
(* Propose (peer.go Propose) of a read command c; readQuorum is the       *)
(* request header's ReadQuorum flag.  The store calls Propose only on a   *)
(* peer that is not pending removal.                                      *)

\* inspectLease(): raft's InLease() is "leader with CheckQuorum".
LeaseForRead == IF role # Leader THEN "Suspect" ELSE L!Inspect(lease, now)

\* Inspect(p, req) for a request whose commands are all reads.
ReadPolicy(readQuorum) ==
    IF readQuorum \/ appliedIndexTerm # term THEN "ReadIndex"
    ELSE IF LeaseForRead = "Valid" THEN "ReadLocal" ELSE "ReadIndex"

\* inspectLease() expires a lease it finds expired.
LeaseAfterInspect(readQuorum) ==
    IF /\ ~readQuorum /\ appliedIndexTerm = term /\ role = Leader
       /\ L!Inspect(lease, now) = "Expired"
    THEN L!ExpiredLease ELSE lease

\* RawNode.ReadIndex: a leader that has committed an entry of its term
\* queues the request; otherwise it is dropped silently.
RaftAcceptsRead == role = Leader /\ LogTerm(commit) = term
\* RawNode.Propose: a follower forwards (the log does not grow), a leader
\* transferring leadership drops it.
RaftAcceptsProposal == role = Leader /\ ~transferee

ProposeGuard(c) ==
    /\ Live /\ ~pendingRemove /\ status[c] = "new" /\ Len(log) < MaxLog

\* readLocal
ReadLocal(c, rq) ==
    /\ ReadPolicy(rq) = "ReadLocal"
    /\ Respond(<<[c |-> c, r |-> "local"]>>)
    /\ UNCHANGED <<peerVars, storeVars, raftVars, now, destroyed, panicked,
                   suspectAt, ackAt>>

\* preReadIndex: no read index while splitting or merging.
PreReadIndexFails ==
    \/ IsSplitting(lastCommittedSplitIdx, appliedIndex)
    \/ IsMerging(lastCommittedPrepareMergeIdx, appliedIndex)

\* The last queued read was sent less than a lease ago.
CanBatch == pendingReads # <<>> /\ Last(pendingReads).time + MaxLease > now

\* readIndex: the command joins the last queued read.
ReadIndexBatched(c, rq) ==
    /\ CanBatch
    /\ pendingReads' = [pendingReads EXCEPT ![Len(pendingReads)].cmds =
                            Append(@, c)]
    /\ status' = [status EXCEPT ![c] = "waiting"]
    /\ lease' = LeaseAfterInspect(rq)
    /\ UNCHANGED <<readyCnt, idAllocator, proposals, lastApplyingIdx,
                   lastCommittedSplitIdx, lastCommittedPrepareMergeIdx,
                   pendingRemove, storeVars, raftVars, done, now, destroyed,
                   panicked, suspectAt, ackAt>>

\* readIndex: raft dropped the request; NotifyStaleReq.
ReadIndexDropped(c, rq) ==
    /\ ~CanBatch /\ ~RaftAcceptsRead
    /\ idAllocator' = idAllocator + 1
    /\ Respond(<<[c |-> c, r |-> "stale"]>>)
    /\ lease' = LeaseAfterInspect(rq)
    /\ UNCHANGED <<pendingReads, readyCnt, proposals, lastApplyingIdx,
                   lastCommittedSplitIdx, lastCommittedPrepareMergeIdx,
                   pendingRemove, storeVars, raftVars, now, destroyed,
                   panicked, suspectAt, ackAt>>

\* readIndex: a new read is queued in raft and in pendingReads; under a
\* suspect lease an empty entry is proposed (ProposeNormal + PostPropose)
\* so that its commit renews the lease.
ReadIndexSent(c, rq) ==
    LET id == idAllocator + 1
        l == LeaseAfterInspect(rq)
        propose == L!Inspect(l, now) = "Suspect" /\ RaftAcceptsProposal
    IN
    /\ ~CanBatch /\ RaftAcceptsRead
    /\ idAllocator' = id
    /\ raftReads' = Append(raftReads, id)
    /\ pendingReads' = Append(pendingReads,
                              [id |-> id, cmds |-> <<c>>, time |-> now])
    /\ status' = [status EXCEPT ![c] = "waiting"]
    /\ lease' = l
    /\ log' = IF propose
              THEN Append(log, [term |-> term, ctx |-> 0, sent |-> now])
              ELSE log
    /\ proposals' = IF propose
                    THEN Append(proposals, [index |-> Len(log) + 1,
                                            term |-> term, time |-> now])
                    ELSE proposals
    /\ UNCHANGED <<readyCnt, lastApplyingIdx, lastCommittedSplitIdx,
                   lastCommittedPrepareMergeIdx, pendingRemove, storeVars,
                   term, role, lead, prevSS, commit, readStates, pendingSnap,
                   transferee, timeoutNowMsg, done, now, destroyed, panicked,
                   suspectAt, ackAt>>

\* readIndex: preReadIndex answers with an error (the branch is never
\* taken: the split and merge indexes are never set, see AppliedEntryCtx);
\* otherwise the command is batched, dropped by raft, or sent.
ReadIndex(c, rq) ==
    IF PreReadIndexFails
    THEN /\ Respond(<<[c |-> c, r |-> "error"]>>)
         /\ lease' = LeaseAfterInspect(rq)
         /\ UNCHANGED <<pendingReads, readyCnt, idAllocator, proposals,
                        lastApplyingIdx, lastCommittedSplitIdx,
                        lastCommittedPrepareMergeIdx, pendingRemove, storeVars,
                        raftVars, now, destroyed, panicked, suspectAt, ackAt>>
    ELSE \/ ReadIndexBatched(c, rq)
         \/ ReadIndexDropped(c, rq)
         \/ ReadIndexSent(c, rq)

ProposeRead(c, rq) ==
    /\ ProposeGuard(c)
    /\ startAcked' = [startAcked EXCEPT ![c] = acked] /\ UNCHANGED acked
    /\ \/ ReadLocal(c, rq)
       \/ ReadPolicy(rq) = "ReadIndex" /\ ReadIndex(c, rq)

\* Propose of a write (ctx 0) or of an admin Split / PrepareMerge, whose
\* ProposalContext PrePropose sets (with SyncLog).  ProposeNormal appends
\* the entry when raft accepts it, and PostPropose queues its meta.  When
\* raft drops it the proposal fails with NotLeader and nothing changes.
ProposeWrite(ctx) ==
    /\ Live /\ ~pendingRemove /\ Len(log) < MaxLog
    /\ RaftAcceptsProposal
    /\ log' = Append(log, [term |-> term, ctx |-> ctx, sent |-> now])
    /\ proposals' = Append(proposals, [index |-> Len(log) + 1,
                                       term |-> term, time |-> now])
    /\ UNCHANGED <<pendingReads, readyCnt, idAllocator, lastApplyingIdx,
                   lease, lastCommittedSplitIdx, lastCommittedPrepareMergeIdx,
                   pendingRemove, storeVars, term, role, lead, prevSS, commit,
                   raftReads, readStates, pendingSnap, transferee,
                   timeoutNowMsg, otherVars>>

\* ProposeTransferLeader when readyToTransferLeader holds: raft records
\* the transferee (and sends MsgTimeoutNow once the target is caught up).
ProposeTransferLeader ==
    /\ Live /\ ~pendingRemove /\ role = Leader /\ ~transferee
    /\ transferee' = TRUE
    /\ UNCHANGED <<peerVars, storeVars, term, role, lead, prevSS, log, commit,
                   raftReads, readStates, pendingSnap, timeoutNowMsg,
                   otherVars>>
-----------------------------------------------------------------------------
(* The ready cycle of the store worker for this peer:                      *)
(* HandleRaftReadyAppend, the write of the ready, PostRaftReadyPersistent, *)
(* HandleRaftReadyApply (with ApplyReads) and Advance, in one step.        *)

\* HasReadySince: new soft state, read states, committed entries not yet
\* sent to apply, a snapshot, or messages to send.
HasReady ==
    \/ SoftState # prevSS
    \/ readStates # <<>>
    \/ commit > lastApplyingIdx
    \/ pendingSnap # 0
    \/ timeoutNowMsg

\* OnRoleChanged: a new leader renews its lease from now, a peer that
\* becomes a follower expires it.
LeaseOnRoleChanged(ssChanged) ==
    IF ~ssChanged THEN lease
    ELSE IF role = Leader
         THEN MaybeRenewLeaderLease(lease, now, lastCommittedSplitIdx,
                                    lastCommittedPrepareMergeIdx, appliedIndex)
         ELSE L!ExpiredLease

\* A faulty Send that forgets to suspect the lease after MsgTimeoutNow.
LeaseAfterSendNoSuspect(l) == l

\* Send: sending MsgTimeoutNow suspects the lease from now.
LeaseAfterSend(l) == IF timeoutNowMsg THEN L!Suspect(now) ELSE l

\* A faulty HandleRaftReadyApply that ignores the snapshot's index.
NextLastApplyingIdxNoSnap(snap, lo, hi) ==
    IF hi >= lo THEN hi ELSE lastApplyingIdx

\* HandleRaftReadyApply: after a snapshot the truncated index (the
\* snapshot's), otherwise the last committed entry sent to apply.
NextLastApplyingIdx(snap, lo, hi) ==
    IF snap THEN pendingSnap ELSE IF hi >= lo THEN hi ELSE lastApplyingIdx

\* Faulty ClearUncommitted variants: keeping one uncommitted read, and
\* dropping one confirmed read.
ClearUncommittedKeepOne(reads, rc) == SubSeq(reads, 1, Min({rc + 1, Len(reads)}))
ClearUncommittedShort(reads, rc) == SubSeq(reads, 1, rc - 1)

\* ClearUncommitted: the reads past readyCnt are dropped ...
ClearUncommitted(reads, rc) == SubSeq(reads, 1, rc)

\* A faulty variant notifying the confirmed reads as well.
StaleCmdsAll(reads, rc) == CmdsOf(reads)

\* ... and their commands notified with StaleCommand.
StaleCmds(reads, rc) == CmdsOf(SubSeq(reads, rc + 1, Len(reads)))

\* The entries of lo..hi of the current term whose context has flag.
CommittedWith(lo, hi, flag) ==
    {i \in lo..hi : LogTerm(i) = term /\ CtxContains(AppliedEntryCtx(i), flag)}

\* ApplyReads when readyToHandleRead: the reads at the front of the queue
\* are popped and answered.  Otherwise they stay, counted by readyCnt.
\* Either way read state i must carry the id of the read it reaches.
ReadStatesAligned(ready) ==
    LET base == IF ready THEN 0 ELSE readyCnt
    IN  /\ base + Len(readStates) <= Len(pendingReads)
        /\ \A i \in 1..Len(readStates) :
              pendingReads[base + i].id = readStates[i]

HandleReady ==
  /\ Live /\ ~pendingRemove
  \* CheckApplyingSnap: skip while the region worker has the snapshot.
  /\ snapState \notin {"pending", "running"}
  /\ ~(pendingSnap # 0 /\ ~ReadyToHandlePendingSnap)
  /\ HasReady
  /\ LET ssChanged == SoftState # prevSS
         isLeader == role = Leader
         \* OnRoleChanged
         l1 == LeaseOnRoleChanged(ssChanged)
         \* Send: a leader's MsgTimeoutNow suspects its lease.
         l2 == LeaseAfterSend(l1)
         snap == pendingSnap # 0
         \* SaveReadyState / PostReadyPersistent install the snapshot.
         ai  == IF snap THEN pendingSnap ELSE appliedIndex
         ait == IF snap THEN LogTerm(pendingSnap) ELSE appliedIndexTerm
         \* HandleRaftReadyApply on committed entries lo..hi.
         lo == lastApplyingIdx + 1
         hi == IF snap THEN lastApplyingIdx ELSE commit
         found == IF isLeader THEN RenewFromCommitted(proposals, lo, hi)
                  ELSE <<0, 0, <<>>>>
         splits == IF isLeader THEN CommittedWith(lo, hi, CtxSplit) ELSE {}
         merges == IF isLeader THEN CommittedWith(lo, hi, CtxPrepareMerge)
                   ELSE {}
         split1 == IF splits # {} THEN Min(splits) ELSE lastCommittedSplitIdx
         merge1 == IF merges # {} THEN Min(merges)
                   ELSE lastCommittedPrepareMergeIdx
         \* The renewal at entry found[1] sees the splits of earlier entries;
         \* a committed prepare merge suspects the lease (before or after it).
         splitAtRenew == IF {i \in splits : i < found[1]} # {}
                         THEN Min({i \in splits : i < found[1]})
                         ELSE lastCommittedSplitIdx
         l3 == IF merges # {} THEN L!Suspect(now)
               ELSE IF found[1] # 0
                    THEN MaybeRenewLeaderLease(l2, found[2], splitAtRenew,
                                               lastCommittedPrepareMergeIdx,
                                               appliedIndex)
                    ELSE l2
         \* ApplyReads
         ready == ReadyToHandleRead(ait, split1, merge1, ai)
         n == Len(readStates)
         reads1 == IF ready THEN SubSeq(pendingReads, n + 1, Len(pendingReads))
                   ELSE pendingReads
         rc1 == IF ready THEN readyCnt ELSE readyCnt + n
         served == IF ready THEN CmdsOf(SubSeq(pendingReads, 1, n)) ELSE <<>>
         pt == IF n = 0 THEN None
               ELSE pendingReads[IF ready THEN n ELSE readyCnt + n].time
         \* ClearUncommitted, only when the ready carries a SoftState.
         reads2 == IF ssChanged THEN ClearUncommitted(reads1, rc1) ELSE reads1
         stale == IF ssChanged THEN StaleCmds(reads1, rc1)
                  ELSE <<>>
         l4 == IF pt = None \/ L!Inspect(l3, pt) = "Suspect" THEN l3
               ELSE MaybeRenewLeaderLease(l3, pt, split1, merge1, ai)
     IN
     IF ~ReadStatesAligned(ready)
     THEN \* panic: "read should exist" / "request ctx ... not equal"
          /\ panicked' = "readState"
          /\ UNCHANGED <<peerVars, storeVars, raftVars, status, done, now,
                         destroyed, suspectAt, ackAt, acked,
                 startAcked>>
     ELSE
     /\ pendingReads' = reads2
     /\ readyCnt' = rc1
     /\ proposals' = IF snap THEN proposals
                     ELSE IF isLeader THEN found[3] ELSE <<>>
     /\ lastApplyingIdx' = NextLastApplyingIdx(snap, lo, hi)
     /\ lease' = l4
     /\ lastCommittedSplitIdx' = split1
     /\ lastCommittedPrepareMergeIdx' = merge1
     /\ appliedIndex' = ai
     /\ appliedIndexTerm' = ait
     /\ snapState' = IF snap THEN "pending" ELSE "relax"
     /\ applyTasks' = IF ~snap /\ hi >= lo THEN Append(applyTasks, hi)
                      ELSE applyTasks
     /\ pendingSnap' = 0
     /\ readStates' = <<>>
     /\ prevSS' = SoftState
     /\ timeoutNowMsg' = FALSE
     /\ Respond(Tag(served, "read") \o Tag(stale, "stale"))
     /\ suspectAt' = IF timeoutNowMsg \/ merges # {} THEN now ELSE suspectAt
     \* OnRoleChanged renews at the ready's time: the votes stand for it.
     /\ ackAt' = IF ssChanged /\ isLeader THEN MaxOr({ackAt, now}, ackAt) ELSE ackAt
     /\ UNCHANGED <<idAllocator, pendingRemove, term, role, lead, log, commit,
                    raftReads, transferee, now, destroyed, panicked, acked,
                 startAcked>>

\* HandleRaftReadyAppend returning early after CheckApplyingSnap saw the
\* region worker's job finished (the snapshot state becomes Relax).
HandleReadySkipped ==
  /\ Live /\ ~pendingRemove /\ snapState = "finished"
  /\ (pendingSnap # 0 /\ ~ReadyToHandlePendingSnap) \/ ~HasReady
  /\ snapState' = "relax"
  /\ UNCHANGED <<peerVars, appliedIndex, appliedIndexTerm, applyTasks,
                 raftVars, otherVars>>

\* A faulty PostApply that checks readyToHandleRead before storing the
\* batch's applied index term.
PostApplyReadyTermStale(k) == appliedIndexTerm
\* The applied index term readyToHandleRead sees in PostApply: the one
\* just stored for the batch ending at k.
PostApplyReadyTerm(k) == LogTerm(k)

\* PostApply for the apply worker's result of the batch ending at index k.
PostApply ==
  /\ Live /\ applyTasks # <<>>
  /\ LET k == Head(applyTasks)
         ait == LogTerm(k)
         ready == readyCnt > 0 /\ ReadyToHandleRead(PostApplyReadyTerm(k),
                                                     lastCommittedSplitIdx,
                                                     lastCommittedPrepareMergeIdx, k)
     IN
     CASE IsApplyingSnapshot ->
            /\ panicked' = "postApply"
            /\ UNCHANGED <<peerVars, storeVars, raftVars, status, done, now,
                           destroyed, suspectAt, ackAt, acked,
                 startAcked>>
       [] ready /\ Len(pendingReads) < readyCnt ->
            /\ panicked' = "readNil"
            /\ UNCHANGED <<peerVars, storeVars, raftVars, status, done, now,
                           destroyed, suspectAt, ackAt, acked,
                 startAcked>>
       [] OTHER ->
            /\ appliedIndex' = k
            /\ appliedIndexTerm' = ait
            /\ applyTasks' = Tail(applyTasks)
            /\ pendingReads' = IF ready
                               THEN SubSeq(pendingReads, readyCnt + 1,
                                           Len(pendingReads))
                               ELSE pendingReads
            /\ readyCnt' = IF ready THEN 0 ELSE readyCnt
            /\ Respond(IF ready
                       THEN Tag(CmdsOf(SubSeq(pendingReads, 1, readyCnt)), "read")
                       ELSE <<>>)
            /\ UNCHANGED <<idAllocator, proposals, lastApplyingIdx, lease,
                           lastCommittedSplitIdx, lastCommittedPrepareMergeIdx,
                           pendingRemove, snapState, raftVars, now, destroyed,
                           panicked, suspectAt, ackAt>>
            /\ acked' = Max({acked, k}) /\ UNCHANGED startAcked
-----------------------------------------------------------------------------
(* Destruction *)

\* MaybeDestroy: a peer whose snapshot the region worker already runs
\* cannot cancel it and returns nil; otherwise it cancels a pending one.
MaybeDestroy ==
  /\ Live /\ ~pendingRemove
  /\ \/ snapState = "relax" /\ UNCHANGED snapState
     \/ snapState = "pending" /\ snapState' = "cancelling"
  /\ pendingRemove' = TRUE
  /\ UNCHANGED <<pendingReads, readyCnt, idAllocator, proposals,
                 lastApplyingIdx, lease, lastCommittedSplitIdx,
                 lastCommittedPrepareMergeIdx, appliedIndex, appliedIndexTerm,
                 applyTasks, raftVars, otherVars>>

\* A faulty Destroy that answers only the reads past readyCnt.
RemovedCmdsUnready(reads) == CmdsOf(SubSeq(reads, readyCnt + 1, Len(reads)))
\* Destroy answers the commands of every queued read.
RemovedCmds(reads) == CmdsOf(reads)

\* Destroy: every queued read is answered with RegionNotFound.
Destroy ==
  /\ Live /\ pendingRemove
  /\ Respond(Tag(RemovedCmds(pendingReads), "notfound"))
  /\ pendingReads' = <<>>
  /\ destroyed' = TRUE
  /\ UNCHANGED <<readyCnt, idAllocator, proposals, lastApplyingIdx, lease,
                 lastCommittedSplitIdx, lastCommittedPrepareMergeIdx,
                 pendingRemove, storeVars, raftVars, now, panicked, suspectAt,
                 ackAt, acked,
                 startAcked>>

-----------------------------------------------------------------------------
(* Environment: raft, the other peers, the region worker and the clock.    *)

\* A higher term from another peer (l, or an election not yet won).
HigherTerm(l) ==
  /\ Live /\ term < MaxTerm
  /\ term' = term + 1 /\ role' = Follower /\ lead' = l
  /\ raftReads' = <<>> /\ transferee' = FALSE /\ timeoutNowMsg' = FALSE
  /\ suspectAt' = None /\ ackAt' = 0
  /\ UNCHANGED <<peerVars, storeVars, prevSS, log, commit, readStates,
                 pendingSnap, status, done, now, destroyed, panicked, acked,
                 startAcked>>

\* This peer wins an election and appends its empty entry.  Its vote
\* requests leave only through a handled ready (HandleRaftReadyAppend
\* returns before Send while it is skipped, peer.go:824-846), and that
\* ready took the candidate's SoftState: the step-down has been handled.
Elect ==
  /\ Live /\ role = Follower /\ term < MaxTerm /\ Len(log) < MaxLog
  /\ SoftState = prevSS
  /\ term' = term + 1 /\ role' = Leader /\ lead' = Self
  /\ log' = Append(log, [term |-> term + 1, ctx |-> 0, sent |-> now])
  /\ raftReads' = <<>> /\ transferee' = FALSE /\ timeoutNowMsg' = FALSE
  /\ suspectAt' = None /\ ackAt' = 0
  /\ UNCHANGED <<peerVars, storeVars, prevSS, commit, readStates,
                 pendingSnap, status, done, now, destroyed, panicked, acked,
                 startAcked>>

\* Leader l replaces the uncommitted suffix after k by one entry of its
\* term and commits it.
Replicate(l, k) ==
  /\ Live /\ role = Follower /\ term > 0 /\ lead \in {None, l}
  /\ k \in commit..Len(log) /\ k < MaxLog
  /\ log' = SubSeq(log, 1, k) \o <<[term |-> term, ctx |-> 0, sent |-> 0]>>
  /\ commit' = k + 1 /\ lead' = l
  /\ acked' = Max({acked, k + 1})
  /\ UNCHANGED <<peerVars, storeVars, term, role, prevSS, raftReads,
                 readStates, pendingSnap, transferee, timeoutNowMsg,
                 status, done, now, destroyed, panicked,
                 suspectAt, ackAt, startAcked>>

\* Leader l sends a snapshot one entry past this peer's commit index.
ReceiveSnapshot(l) ==
  /\ Snapshots /\ Live /\ role = Follower /\ term > 0 /\ lead \in {None, l}
  /\ pendingSnap = 0 /\ commit < MaxLog
  /\ log' = SubSeq(log, 1, commit) \o <<[term |-> term, ctx |-> 0, sent |-> 0]>>
  /\ commit' = commit + 1 /\ pendingSnap' = commit + 1 /\ lead' = l
  /\ acked' = Max({acked, commit + 1})
  /\ UNCHANGED <<peerVars, storeVars, term, role, prevSS, raftReads,
                 readStates, transferee, timeoutNowMsg, status, done, now, destroyed, panicked,
                 suspectAt, ackAt, startAcked>>

\* A quorum acknowledges the leader's entries up to k.  A leader sends
\* only through a ready, so the ready of its election has been handled.
Commit(k) ==
  /\ Live /\ role = Leader /\ SoftState = prevSS /\ k \in commit + 1..Len(log) /\ log[k].term = term
  /\ commit' = k
  /\ ackAt' = MaxOr({ackAt} \cup {log[i].sent : i \in commit + 1..k}, ackAt)
  /\ UNCHANGED <<peerVars, storeVars, term, role, lead, prevSS, log,
                 raftReads, readStates, pendingSnap, transferee, timeoutNowMsg,
                 status, done, now, destroyed, panicked, suspectAt, acked,
                 startAcked>>

\* A quorum answers the heartbeat of the first n queued read requests.
ConfirmReads(n) ==
  /\ Live /\ role = Leader /\ SoftState = prevSS /\ n \in 1..Len(raftReads)
  /\ readStates' = readStates \o SubSeq(raftReads, 1, n)
  /\ raftReads' = SubSeq(raftReads, n + 1, Len(raftReads))
  /\ ackAt' = MaxOr({ackAt} \cup
                    {pendingReads[j].time : j \in {j \in DOMAIN pendingReads :
                        pendingReads[j].id \in ToSet(SubSeq(raftReads, 1, n))}},
                    ackAt)
  /\ UNCHANGED <<peerVars, storeVars, term, role, lead, prevSS, log, commit,
                 pendingSnap, transferee, timeoutNowMsg, status, done, now,
                 destroyed, panicked, suspectAt, acked,
                 startAcked>>

\* Raft sends MsgTimeoutNow to the caught-up transferee, or gives up.
SendTimeoutNow ==
  /\ Live /\ role = Leader /\ transferee /\ ~timeoutNowMsg
  /\ timeoutNowMsg' = TRUE
  /\ UNCHANGED <<peerVars, storeVars, term, role, lead, prevSS, log, commit,
                 raftReads, readStates, pendingSnap, transferee, otherVars>>
AbortTransfer ==
  /\ Live /\ role = Leader /\ transferee
  /\ transferee' = FALSE
  /\ UNCHANGED <<peerVars, storeVars, term, role, lead, prevSS, log, commit,
                 raftReads, readStates, pendingSnap, timeoutNowMsg, otherVars>>

\* The region worker applies a pending snapshot.
RegionWorkerStart ==
  /\ snapState = "pending" /\ snapState' = "running"
  /\ UNCHANGED <<peerVars, appliedIndex, appliedIndexTerm, applyTasks,
                 raftVars, otherVars>>
RegionWorkerFinish ==
  /\ snapState = "running" /\ snapState' = "finished"
  /\ UNCHANGED <<peerVars, appliedIndex, appliedIndexTerm, applyTasks,
                 raftVars, otherVars>>

Tick ==
  /\ now < MaxTime /\ now' = now + 1
  /\ UNCHANGED <<peerVars, storeVars, raftVars, status, done, destroyed,
                 panicked, suspectAt, ackAt, acked,
                 startAcked>>

\* A destroyed or crashed peer takes no further step.
Terminated == ~Live /\ UNCHANGED vars

-----------------------------------------------------------------------------
\* Proposals of writes: a plain write, or an admin Split / PrepareMerge,
\* which PrePropose marks SyncLog as well.
WriteCtxs == {0, CtxSyncLog + CtxSplit, CtxSyncLog + CtxPrepareMerge}

Next ==
  \/ \E c \in Cmds, rq \in BOOLEAN : ProposeRead(c, rq)
  \/ \E ctx \in WriteCtxs : ProposeWrite(ctx)
  \/ ProposeTransferLeader
  \/ HandleReady
  \/ HandleReadySkipped
  \/ PostApply
  \/ MaybeDestroy
  \/ Destroy
  \/ \E l \in Others \cup {None} : HigherTerm(l)
  \/ Elect
  \/ \E l \in Others, k \in 0..MaxLog : Replicate(l, k)
  \/ \E l \in Others : ReceiveSnapshot(l)
  \/ \E k \in 1..MaxLog : Commit(k)
  \/ \E n \in 1..Len(raftReads) : ConfirmReads(n)
  \/ SendTimeoutNow
  \/ AbortTransfer
  \/ RegionWorkerStart
  \/ RegionWorkerFinish
  \/ Tick
  \/ Terminated

Spec == Init /\ [][Next]_vars

\* The peer's own handlers are never starved: the store worker handles
\* every peer that has a ready (HandleRaftReadyAppend, or its early return
\* after a finished snapshot) and destroys a peer pending removal, the
\* apply worker reports every batch through PostApply, and the region
\* worker runs every snapshot job.  Raft and the clock get no fairness:
\* messages, elections and quorums may stop at any point.
PeerFairness ==
  /\ WF_vars(HandleReady) /\ WF_vars(HandleReadySkipped) /\ WF_vars(PostApply)
  /\ WF_vars(Destroy) /\ WF_vars(RegionWorkerStart)
  /\ WF_vars(RegionWorkerFinish)

FairSpec == Spec /\ PeerFairness
-----------------------------------------------------------------------------
(* Properties *)

Statuses == {"new", "waiting", "local", "read", "stale", "notfound", "error"}
Entries == [term : 0..MaxTerm, ctx : {0} \cup WriteCtxs, sent : 0..MaxTime]

TypeOK ==
  /\ pendingReads \in Seq([id : Nat, cmds : Seq(Cmds), time : 0..MaxTime])
  /\ readyCnt \in 0..Len(pendingReads) \/ ~Live
  /\ idAllocator \in Nat
  /\ proposals \in Seq([index : 1..MaxLog, term : 1..MaxTerm, time : 0..MaxTime])
  /\ lease \in L!LeaseRecords(0..MaxTime + MaxLease)
  /\ {lastApplyingIdx, lastCommittedSplitIdx, lastCommittedPrepareMergeIdx,
      appliedIndex, commit, pendingSnap} \subseteq 0..MaxLog
  /\ appliedIndexTerm \in 0..MaxTerm /\ term \in 0..MaxTerm
  /\ snapState \in {"relax", "pending", "running", "finished", "cancelling"}
  /\ applyTasks \in Seq(1..MaxLog)
  /\ role \in {Leader, Follower} /\ lead \in Others \cup {Self, None}
  /\ log \in Seq(Entries) /\ Len(log) <= MaxLog
  /\ raftReads \in Seq(Nat) /\ readStates \in Seq(Nat)
  /\ status \in [Cmds -> Statuses] /\ done \in [Cmds -> Nat]
  /\ now \in 0..MaxTime /\ suspectAt \in 0..MaxTime \cup {None}
  /\ panicked \in {"none", "readState", "postApply", "readNil"}

\* Spec invariant 4 and "after any role change from leader, the reads
\* past readyCnt are drained with stale responses": outside a ready, the
\* reads of pendingReads past readyCnt are exactly the read states raft has
\* confirmed followed by the requests raft still holds, in order.  Raft
\* forgets its requests on a step-down; the queue must lose the same reads
\* when the ready of the step-down is handled (ClearUncommitted, only for a
\* ready with a SoftState, peer.go:1160), after handlers skipped for a
\* snapshot, and with reads confirmed or counted by readyCnt meanwhile.
QueueAligned ==
  (Live /\ ~pendingRemove /\ SoftState = prevSS) =>
      UnreadyIds = readStates \o raftReads

\* ApplyReads never meets a read state that is not the read it reaches
\* (the panics "read should exist" / "request ctx not equal").
ReadStatesMatch == panicked # "readState"

\* PostApply never runs while a snapshot is being applied ("should not
\* applying snapshot"), nor finds fewer reads than readyCnt; both rely on
\* HandleRaftReadyAppend waiting for the apply worker to drain
\* (ReadyToHandlePendingSnap) before it takes a snapshot.
PostApplySafe == panicked \notin {"postApply", "readNil"}

\* Spec section 8: applied index <= last applying index <= committed index,
\* and the batches queued for the apply worker are strictly increasing and
\* lie between the two, the last one ending at the last applying index.
ApplyPipelineOrdered ==
  Live =>
    /\ appliedIndex <= lastApplyingIdx /\ lastApplyingIdx <= commit
    /\ \A i \in 1..Len(applyTasks) :
          /\ appliedIndex < applyTasks[i]
          /\ i > 1 => applyTasks[i - 1] < applyTasks[i]
    /\ applyTasks # <<>> => Last(applyTasks) = lastApplyingIdx

\* Every read command gets its callback called at most once, and a command
\* is waiting for an answer exactly while it sits in the read-index queue:
\* ClearUncommitted, ApplyReads, PostApply and Destroy neither lose nor
\* repeat a callback.
CallbacksExact ==
  \A c \in Cmds :
    /\ done[c] <= 1
    /\ (status[c] = "waiting") <=> c \in ToSet(CmdsOf(pendingReads))

\* After MsgTimeoutNow (or a committed prepare merge) suspects the lease,
\* the lease is valid again only if a quorum acknowledged something this
\* leader sent at or after the suspicion: renewals from older proposals
\* or reads must not revive it.
LeaseSuspicionRespected ==
  (Live /\ lease.kind = "valid" /\ suspectAt # None) => ackAt >= suspectAt

\* The leader's lease never reaches past MaxLease after the latest send
\* time a quorum acknowledged (a committed entry of the term, or a
\* confirmed read-index request).  HandleRaftReadyApply renews from the
\* propose time findProposeTime finds for a committed entry, and
\* findProposeTime pops every proposal of the term on its way
\* (peer.go:966-976): the time must be that of the entry looked for,
\* never of a later, still unacknowledged proposal it passes.
LeaseBackedByAck ==
  (Live /\ role = Leader /\ lease.kind = "valid") => lease.bound <= ackAt + MaxLease

\* The commands of the reads whose read state raft has delivered: those
\* in the ready's read states and those counted by readyCnt.
ConfirmedCmds ==
  ToSet(CmdsOf(SubSeq(pendingReads, 1, readyCnt)))
    \cup {c \in Cmds : \E j \in DOMAIN pendingReads :
             pendingReads[j].id \in ToSet(readStates)
             /\ c \in ToSet(pendingReads[j].cmds)}

\* A leader answers every read whose quorum it has confirmed, as long as it
\* stays leader: the read either goes out in ApplyReads or waits in the
\* readyCnt prefix until PostApply of the leader's first entry drains it
\* (peer.go:1131-1156, 1203-1215).  Needs only the peer's own fairness.
ConfirmedReadAnswered ==
  \A c \in Cmds :
    (Live /\ role = Leader /\ c \in ConfirmedCmds)
      ~> (status[c] # "waiting" \/ ~Live \/ role # Leader)

\* Spec section 6 (apply_reads): reads counted by readyCnt wait "for later
\* draining when conditions resume".  Once the applied index term equals
\* the term again, every read of the readyCnt prefix is eventually
\* answered.
ReadyReadsDrained ==
  \A c \in Cmds :
    (Live /\ c \in ToSet(CmdsOf(SubSeq(pendingReads, 1, readyCnt)))
          /\ appliedIndexTerm = term)
      ~> (status[c] # "waiting" \/ ~Live)

\* Once the leader has handed the commit of a PrepareMerge of its term to
\* apply, it answers no read locally until that entry is applied: the
\* comment at HandleRaftReadyApply ("to prevent unsafe local read, we
\* suspect its leader lease") and the merging rule of the spec
\* (last_committed_prepare_merge_idx > applied_index refuses local reads).
PrepareMergeBlocksLocalRead ==
  [][\A c \in Cmds :
       (status[c] # "local" /\ status'[c] = "local")
         => ~\E i \in appliedIndex + 1..lastApplyingIdx :
               log[i].term = term /\ CtxContains(log[i].ctx, CtxPrepareMerge)]_vars

\* Linearizable reads (spec section 4: read index answers linearizable
\* reads).  A command answered with data, by readLocal or by ApplyReads /
\* PostApply on a read state, reads the state at an applied index that
\* covers every write acknowledged before the command was proposed.
\* ApplyReads serves a read as soon as its read state arrives without
\* comparing the read index with the applied index (peer.go:1131-1140);
\* only readyToHandleRead's appliedIndexTerm = term stands for it.
ReadSeesAckedWrites ==
  [][\A c \in Cmds :
       (status[c] \notin {"read", "local"} /\ status'[c] \in {"read", "local"})
         => appliedIndex' >= startAcked[c]]_vars

\* Refinement mapping to the read-queue abstraction: a queued read is
\* confirmed once raft delivered its read state, whether the state still
\* sits in the ready or was counted by readyCnt.
AbsQueue ==
  [i \in DOMAIN pendingReads |->
     [cmds |-> pendingReads[i].cmds,
      confirmed |-> i <= readyCnt \/ pendingReads[i].id \in ToSet(readStates)]]

Abs == INSTANCE ReadQueue WITH queue <- AbsQueue, answer <- status

\* The peer's read-index queue (NextID/Append in readIndex, ApplyReads,
\* ClearUncommitted, PostApply, Destroy) implements the read queue: FIFO
\* answers, data only for confirmed reads, and a step-down dropping
\* exactly the unconfirmed ones.
ReadQueueRefined == Abs!Spec
====
