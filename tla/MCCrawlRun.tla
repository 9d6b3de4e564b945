----------------------------- MODULE MCCrawlRun -----------------------------
(* Instances of CrawlRun for TLC. *)
EXTENDS CrawlRun, TLC

ProcSymmetry == Permutations(Procs)
=============================================================================
