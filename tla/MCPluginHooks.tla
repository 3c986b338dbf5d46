---------------------------- MODULE MCPluginHooks ----------------------------
(***************************************************************************)
(* Small instances of PluginHooks for TLC.                                 *)
(***************************************************************************)
EXTENDS PluginHooks, TLC

Symmetry == Permutations(Thread)

=============================================================================
