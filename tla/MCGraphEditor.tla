---------------------------- MODULE MCGraphEditor ----------------------------
(***************************************************************************)
(* GraphEditor on a chain with a way back: r above a above b, and b above  *)
(* r, so that b is both a parent of r and what a expands to.               *)
(***************************************************************************)
EXTENDS GraphEditor, TLC

CONSTANTS r, a, b

MCChildren == (r :> {a} @@ a :> {b} @@ b :> {r})
MCTypeOf == (r :> "router" @@ a :> "router" @@ b :> "server")
MCFilters == {{}, {"router"}}
=============================================================================
