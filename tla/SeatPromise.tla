------------------------------ MODULE SeatPromise ------------------------------
(***************************************************************************)
(* What License Admin promises of the licences it sells: the terms of a    *)
(* licence never change, a licence withdrawn stays so and gets no code,    *)
(* and no more codes of a licence are in use than it has seats.            *)
(*                                                                         *)
(* The vendor gives a code, takes one back, or does neither; what has been *)
(* sold or withdrawn by then may come to light in the same step, since     *)
(* every save writes whatever earlier ones have failed to.                 *)
(***************************************************************************)
EXTENDS Naturals, FiniteSets

CONSTANTS Licenses, Machines, Limits, NoLimit

VARIABLES
    sold,       \* sold[l]: the seats of l, for the licences sold
    withdrawn,  \* the licences revoked
    held        \* the codes in use, as licence and machine

vars == <<sold, withdrawn, held>>

TypeOK ==
    /\ DOMAIN sold \subseteq Licenses
    /\ sold \in [DOMAIN sold -> Limits \cup {NoLimit}]
    /\ withdrawn \subseteq DOMAIN sold
    /\ held \subseteq (DOMAIN sold) \X Machines

Init ==
    /\ DOMAIN sold = {}
    /\ withdrawn = {}
    /\ held = {}

Codes(l) == {m \in Machines : <<l, m>> \in held}

-----------------------------------------------------------------------------

\* A further code for l, with the terms of l as they are from now on.
Gives(l, m) ==
    /\ l \in (DOMAIN sold') \ withdrawn'
    /\ sold'[l] # NoLimit => Cardinality(Codes(l) \cup {m}) <= sold'[l]
    /\ held' = held \cup {<<l, m>>}

TakesBack(l, m) == held' = held \ {<<l, m>>}

TermsKept ==
    /\ DOMAIN sold \subseteq DOMAIN sold'
    /\ \A l \in DOMAIN sold : sold'[l] = sold[l]

Next ==
    /\ TypeOK'
    /\ TermsKept
    /\ withdrawn \subseteq withdrawn'
    /\ \/ UNCHANGED held
       \/ \E l \in Licenses, m \in Machines : Gives(l, m) \/ TakesBack(l, m)

Spec == Init /\ [][Next]_vars
=============================================================================
