---------------------------- MODULE MCRequestReply ----------------------------
(***************************************************************************)
(* RequestReply for TLC.  The ids are model values: only their equality    *)
(* matters, so the safety runs may take them up to permutation.            *)
(***************************************************************************)
EXTENDS RequestReply, TLC

Permuted == Permutations(Id)
=============================================================================
