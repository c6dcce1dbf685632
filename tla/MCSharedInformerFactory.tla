----------------------- MODULE MCSharedInformerFactory -----------------------
(* The informer factory for TLC; all constants are sets of model values.   *)
EXTENDS SharedInformerFactory
==============================================================================
