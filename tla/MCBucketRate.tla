---------------------------- MODULE MCBucketRate ----------------------------
(* Instances of BucketRate for TLC.  Without the liveness property the     *)
(* callers are interchangeable.                                            *)
EXTENDS BucketRate, TLC

CallerSymmetry == Permutations(Callers)

=============================================================================
