--------------------------- MODULE MCClientSession ---------------------------
(***************************************************************************)
(* A tab with two accounts: one with a section that the layout falls back  *)
(* to, one without.                                                        *)
(***************************************************************************)
EXTENDS ClientSession, TLC

CONSTANTS Manager, Clerk

MCUsers == {Manager, Clerk}

MCGrants == (Manager :> {"tasks"}) @@ (Clerk :> {"other"})
==============================================================================
