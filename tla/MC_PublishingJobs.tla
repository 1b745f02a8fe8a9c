------------------------- MODULE MC_PublishingJobs -------------------------
(* Instances of PublishingJobs for TLC: two versions of an article that may   *)
(* be published and one, `bad', that the blog does not accept.                *)
EXTENDS PublishingJobs, TLC

CONSTANTS r1, r2, good, other, bad

RunnerSymmetry == Permutations(Runners)
=============================================================================
