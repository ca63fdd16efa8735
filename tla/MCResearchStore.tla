--------------------------- MODULE MCResearchStore ---------------------------
(* A small instance of ResearchStore for TLC. *)
EXTENDS ResearchStore
=============================================================================
