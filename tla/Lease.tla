------------------------------- MODULE Lease -------------------------------
(***************************************************************************)
(* The leader lease of one peer (spec section 4.1).  The Go type `Lease`   *)
(* is not among the sources, so these operators follow the spec's         *)
(* description of it.  Time is a natural number of clock ticks.           *)
(*                                                                         *)
(* A lease is a record [kind, bound]:                                      *)
(*   kind "valid"   - reads are local until `bound` (exclusive);           *)
(*   kind "suspect" - a new leader may exist; `bound` is the suspicion     *)
(*                    time plus the maximum lease;                         *)
(*   kind "expired" - no lease.                                            *)
(***************************************************************************)
EXTENDS Naturals

\* cfg.RaftStoreMaxLeaderLease, in ticks.
CONSTANT MaxLease

ASSUME MaxLease \in Nat \ {0}

LeaseRecords(T) == [kind : {"valid", "suspect", "expired"}, bound : T]

\* NewLease / Expire(): no lease at all.
ExpiredLease == [kind |-> "expired", bound |-> 0]

\* Renew(ts): the lease lasts until ts + MaxLease.  A suspect lease becomes
\* valid only when ts is not earlier than the time suspicion began, so a
\* renewal from a proposal sent before the suspicion is ignored.
Renew(l, ts) ==
    LET b == ts + MaxLease
    IN  CASE l.kind = "suspect" ->
                 IF l.bound <= b THEN [kind |-> "valid", bound |-> b] ELSE l
          [] l.kind = "valid" ->
                 IF l.bound < b THEN [l EXCEPT !.bound = b] ELSE l
          [] OTHER -> [kind |-> "valid", bound |-> b]

\* Suspect(ts): a new leader may have been elected since ts.
Suspect(ts) == [kind |-> "suspect", bound |-> ts + MaxLease]

\* Inspect(ts): "Suspect" is sticky; a valid lease is valid strictly
\* before its bound.
Inspect(l, ts) ==
    CASE l.kind = "suspect"                 -> "Suspect"
      [] l.kind = "valid" /\ ts < l.bound   -> "Valid"
      [] OTHER                              -> "Expired"

=============================================================================
