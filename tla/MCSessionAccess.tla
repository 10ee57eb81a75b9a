--------------------------- MODULE MCSessionAccess ---------------------------
(* Model checking of SessionAccess: the instance is in the configuration.    *)
EXTENDS SessionAccess
=============================================================================
