----------------------------- MODULE ReadQueue -----------------------------
(***************************************************************************)
(* What the read-index queue of a peer promises its clients (spec         *)
(* sections 4.2 and 6), with time, raft and the lease left out: reads are *)
(* answered first in, first out; a read is answered with data only after  *)
(* a quorum confirmed it; losing leadership drops exactly the reads not   *)
(* confirmed yet; destroying the peer answers every queued read.  A       *)
(* command may also be answered without entering the queue (a local read, *)
(* a read raft refused, an error).                                        *)
(***************************************************************************)
EXTENDS Naturals, Sequences, SequencesExt

CONSTANT Cmds

\* queue: the queued reads, each a sequence of commands and whether a
\* quorum has confirmed it; answer: what each command's callback got.
VARIABLES queue, answer

Answers == {"new", "waiting", "local", "read", "stale", "notfound", "error"}

Confirmed(i) == queue[i].confirmed
NumConfirmed == Cardinality({i \in DOMAIN queue : Confirmed(i)})
CmdsIn(q) == FlattenSeq([i \in DOMAIN q |-> q[i].cmds])

\* Answer every command of q with r.
AnswerAll(q, r) ==
  [c \in Cmds |-> IF c \in ToSet(CmdsIn(q)) THEN r ELSE answer[c]]

Init == queue = <<>> /\ answer = [c \in Cmds |-> "new"]

\* A new read for command c joins the end of the queue.
Enqueue(c) ==
  /\ answer[c] = "new"
  /\ queue' = Append(queue, [cmds |-> <<c>>, confirmed |-> FALSE])
  /\ answer' = [answer EXCEPT ![c] = "waiting"]

\* Command c is batched onto the last queued read.
Join(c) ==
  /\ answer[c] = "new" /\ queue # <<>>
  /\ queue' = [queue EXCEPT ![Len(queue)].cmds = Append(@, c)]
  /\ answer' = [answer EXCEPT ![c] = "waiting"]

\* Command c is answered without being queued.
AnswerDirectly(c) ==
  /\ answer[c] = "new"
  /\ \E r \in {"local", "stale", "error"} : answer' = [answer EXCEPT ![c] = r]
  /\ UNCHANGED queue

\* A quorum confirms the next n unconfirmed reads.
Confirm(n) ==
  /\ n \in 1..Len(queue) - NumConfirmed
  /\ queue' = [i \in DOMAIN queue |->
                 IF i <= NumConfirmed + n THEN [queue[i] EXCEPT !.confirmed = TRUE]
                 ELSE queue[i]]
  /\ UNCHANGED answer

\* The first n reads, all confirmed, are answered with data; then, if
\* drop, the unconfirmed reads left are answered stale.
Serve(n, drop) ==
  /\ n \in 0..NumConfirmed /\ (n > 0 \/ drop)
  /\ LET rest == SubSeq(queue, n + 1, Len(queue))
         kept == SelectSeq(rest, LAMBDA r : r.confirmed)
         dropped == SelectSeq(rest, LAMBDA r : ~r.confirmed)
     IN  /\ queue' = IF drop THEN kept ELSE rest
         /\ answer' = [c \in Cmds |->
                        IF c \in ToSet(CmdsIn(SubSeq(queue, 1, n))) THEN "read"
                        ELSE IF drop /\ c \in ToSet(CmdsIn(dropped)) THEN "stale"
                        ELSE answer[c]]

\* The peer is destroyed: every queued read is answered RegionNotFound.
Clear ==
  /\ queue' = <<>>
  /\ answer' = AnswerAll(queue, "notfound")

Next ==
  \/ \E c \in Cmds : Enqueue(c) \/ Join(c) \/ AnswerDirectly(c)
  \/ \E n \in 1..Len(queue) : Confirm(n)
  \/ \E n \in 0..Len(queue), drop \in BOOLEAN : Serve(n, drop)
  \/ Clear

Spec == Init /\ [][Next]_<<queue, answer>>

\* The confirmed reads are a prefix of the queue.
ConfirmedPrefix ==
  \A i, j \in DOMAIN queue : i < j /\ Confirmed(j) => Confirmed(i)
====
