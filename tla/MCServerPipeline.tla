-------------------------- MODULE MCServerPipeline --------------------------
(* ServerPipeline on small instances. *)
EXTENDS ServerPipeline, TLC

(* Files that differ in nothing but their name. *)
FileSymmetry == Permutations(Files)

TwoModes == {0, 1}
OneMode == {0}
SingleModeConfig == [mode |-> 0, stack |-> FALSE]
StackConfig == [mode |-> 0, stack |-> TRUE]
=============================================================================
