---------------------------- MODULE MCTypeBuilder ----------------------------
(***************************************************************************)
(* TypeBuilder on a type with a multi data section and the section of the  *)
(* global template, and on a new type.                                     *)
(***************************************************************************)
EXTENDS TypeBuilder, TLC

CONSTANTS a, g, s1, s2

MCBase == s1 :> [kind |-> "multi", names |-> {a}] @@ s2 :> [kind |-> "global", names |-> {g}]
=============================================================================
