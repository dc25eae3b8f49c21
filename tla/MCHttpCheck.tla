---------------------------- MODULE MCHttpCheck ----------------------------
(* A web of three addresses: with one redirect to follow, enough for one too many. *)
EXTENDS HttpCheck, TLC

CONSTANTS u1, u2, u3

\* The addresses are interchangeable, and the properties are invariants.
Addresses == Permutations(Urls)
============================================================================
