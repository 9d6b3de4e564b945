----------------------------- MODULE MCFrontier -----------------------------
(* Instances of Frontier for TLC. *)
EXTENDS Frontier, TLC

CONSTANTS u1, u2, u3, h1, h2, h3

TwoHosts == u1 :> h1 @@ u2 :> h1 @@ u3 :> h2
OneHost == u1 :> h1 @@ u2 :> h1
WorkerSymmetry == Permutations(Workers)
=============================================================================
