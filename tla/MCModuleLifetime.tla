-------------------------- MODULE MCModuleLifetime --------------------------
(* ModuleLifetime with model values for its threads: the constructor's, the  *)
(* owner's own Stop() and the Stop() calls of others.                        *)
EXTENDS ModuleLifetime

CONSTANTS init, closer, stopA, stopB

MCStoppers == {closer, stopA, stopB}
=============================================================================
