--------------------------- MODULE MCDocLifecycle ---------------------------
(* Model checking of DocLifecycle: the instances are in the configurations.*)
EXTENDS DocLifecycle
=============================================================================
