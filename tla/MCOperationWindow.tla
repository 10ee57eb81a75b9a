------------------------- MODULE MCOperationWindow -------------------------
(* Model checking of OperationWindow: the documents are interchangeable.   *)
EXTENDS OperationWindow, TLC

Symmetric == Permutations(Docs)
=============================================================================
