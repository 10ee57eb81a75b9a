---------------------------- MODULE MCKeyEpochs ----------------------------
(* Model checking of KeyEpochs: the instance is in the configuration.      *)
EXTENDS KeyEpochs
=============================================================================
