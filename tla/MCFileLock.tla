----------------------------- MODULE MCFileLock -----------------------------
(* Model checking of FileLock: the instance is in the configuration.       *)
EXTENDS FileLock
=============================================================================
