--------------------------- MODULE MCLeaderChecker --------------------------
(* Model-checking instance of LeaderChecker. *)
EXTENDS LeaderChecker

\* A peer restarted in term 0 that won the election of term 1, published
\* its term and remote lease and applied an entry of term 1: the state
\* Init, ElectAndRenew, PublishTerm and PostApply(1) reach.
MCInitLeader ==
  /\ term = 1 /\ role = Leader /\ ait = 1 /\ version = 0
  /\ remote = <<1, 0>>
  /\ leases = [l \in LeaseIds |-> IF l = <<1, 0>> THEN "valid" ELSE "none"]
  /\ toStore = "none" /\ pendingRemove = FALSE
  /\ ckInvalid = FALSE /\ ckTerm = 1 /\ ckAit = 1 /\ ckVersion = 0
  /\ ckLease = <<1, 0>>
  /\ rpc = "idle" /\ rCtxVer = 0 /\ rTerm = 0 /\ rVer = 0 /\ rLease = Nil
  /\ rAit = 0
  /\ appliedOwn = {1}
====
