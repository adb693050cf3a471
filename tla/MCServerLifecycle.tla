------------------------- MODULE MCServerLifecycle -------------------------
(***************************************************************************)
(* The instance of ServerLifecycle for TLC.  The linker and the scheduler  *)
(* stop like the loop, and leaving them out quarters the states.           *)
(***************************************************************************)
EXTENDS ServerLifecycle

TwoComponents == <<"transcoder", "loop">>
=============================================================================
