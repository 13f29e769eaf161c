-------------------------- MODULE RepositoryVerdicts --------------------------
(***************************************************************************)
(* What the repository's programs say, and whether it is so: the guards of  *)
(* its dependencies, the test runner, the sweep of its concurrency.         *)
(***************************************************************************)
EXTENDS DependencyPins, TestRun, ConcurrencySweep

(* Dependencies the guards let pass are what they are pinned to, a test     *)
(* run's verdict and a sweep's recommendation are earned (see the modules). *)
VerdictsAreEarned == PinsHold /\ TestVerdictsAreTrue /\ RecommendationIsEarned

=============================================================================
