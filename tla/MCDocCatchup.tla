---------------------------- MODULE MCDocCatchup ----------------------------
(* Model checking of DocCatchup: the instances are in the configurations.  *)
EXTENDS DocCatchup
=============================================================================
