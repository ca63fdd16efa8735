-------------------------- MODULE MCCollectionRuns --------------------------
(* Small instances of CollectionRuns for TLC. *)
EXTENDS CollectionRuns, TLC

\* The worker has a guarded step with a dependent one after it, a request an
\* unguarded step.
MCWorkerPlan == {"news", "summary"}
MCPlans == {MCWorkerPlan, {"prices"}}

\* The smallest plans, for the liveness and the counterexample runs.
SmallPlan == {"news"}
SmallPlans == {SmallPlan}

Symmetry == Permutations(Request) \cup Permutations(Unified)

=============================================================================
