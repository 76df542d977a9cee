------------------------------- MODULE MCSession -------------------------------
(***************************************************************************)
(* Session with two tabs and two users. A session lasts two units, and     *)
(* time ends after four. Until the first login all tabs are alike, all     *)
(* users are and all times, so the first login is one of a fixed user, in  *)
(* a fixed tab, at time 0.                                                 *)
(***************************************************************************)
EXTENDS Session

CONSTANTS t1, u1

MCNext == Next /\ (posted = 0 => now' = now /\ (posted' = 1 => Login(t1, u1)))

MCSpec == Init /\ [][MCNext]_vars /\ \A t \in Tabs : WF_vars(Tick(t))
=============================================================================
