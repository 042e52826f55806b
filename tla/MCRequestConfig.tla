-------------------------- MODULE MCRequestConfig --------------------------
(* RequestConfig on small instances. *)
EXTENDS RequestConfig, TLC

Symmetric == Permutations(Sessions)
=============================================================================
