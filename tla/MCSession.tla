----------------------------- MODULE MCSession ------------------------------
(* A model-checking instance of Session: no account is special.            *)
EXTENDS Session, TLC

Symmetry == Permutations(Accounts)
=============================================================================
