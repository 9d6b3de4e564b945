--------------------------- MODULE MCIngestQueue ---------------------------
(* Instances of IngestQueue for TLC. *)
EXTENDS IngestQueue
============================================================================
