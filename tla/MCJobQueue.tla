----------------------------- MODULE MCJobQueue -----------------------------
(* Instances of JobQueue for TLC. *)
EXTENDS JobQueue, TLC

TwoJobs == {1, 2}
ThreeJobs == {1, 2, 3}

\* Jobs 1 and 2 are the same logical work; job 3 has no dedupe key.
SharedKey == [j \in Jobs |-> IF j <= 2 THEN "execute" ELSE None]

\* The last job is the most urgent.
LastFirst == [j \in Jobs |-> IF j = 2 THEN 0 ELSE 1]

WorkerSymmetry == Permutations(Workers)

=============================================================================
