-------------------------- MODULE MCConfirmGuards --------------------------
(* Instances of ConfirmGuards with two concurrent requests.                *)
EXTENDS ConfirmGuards, TLC

Requests == Permutations(Request)
=============================================================================
