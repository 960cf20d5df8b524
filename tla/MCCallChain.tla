---------------------------- MODULE MCCallChain ----------------------------
(* CallChain with interchangeable calls. *)
EXTENDS CallChain, TLC

Sym == Permutations(Fn)

=============================================================================
