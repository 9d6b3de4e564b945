----------------------------- MODULE MCMatching -----------------------------
(* An instance of Matching for TLC. *)
EXTENDS Matching

CONSTANTS c1, c2, o1, o2
MCHandlers == 1..2
MCFits == {c1, c2} \X {o1, o2}
Workload(idx, digest, daily, weekly, emb, requests, max, f) ==
    [index |-> idx, digest |-> digest, daily |-> daily, weekly |-> weekly,
     embeds |-> emb, requests |-> requests, max |-> max, faults |-> f]
MCWorkloads ==
    {\* Fan-outs to two candidates under one cap or the other.
     Workload({c1, c2}, FALSE, 1, 0, 2, {}, 0, 1),
     Workload({c1, c2}, FALSE, 0, 1, 2, {}, 0, 1),
     \* ... with an opportunity that is embedded again, and matches that are dismissed or applied to.
     Workload({c1}, FALSE, 2, 1, 3, {"dismiss", "apply"}, 1, 1),
     \* A digest of whatever comes of the fan-outs, for a candidate who has an index or gets it.
     Workload({c1}, TRUE, 0, 0, 1, {"hide", "dismiss", "apply"}, 1, 1),
     Workload({}, TRUE, 0, 0, 1, {"embedding", "apply"}, 2, 1),
     Workload({c1}, TRUE, 0, 1, 2, {"preference"}, 1, 0),
     \* A candidate's refreshes.
     Workload({c1}, FALSE, 1, 0, 1, {"refresh"}, 3, 1),
     Workload({c1}, TRUE, 0, 0, 1, {"refresh", "dismiss"}, 2, 0)}
=============================================================================
