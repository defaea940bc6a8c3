---------------------------- MODULE RenewalPromise ----------------------------
(***************************************************************************)
(* What the renewal engine promises for each policy: there is one current  *)
(* task at most, decided tasks are kept, and the background never decides. *)
(*                                                                         *)
(* A user opens a task, decides it (renewed or declined), takes a decision *)
(* back.  The background opens the first task of a policy and withdraws an *)
(* open one; it may do so for all the policies in one step, together with  *)
(* one act of a user.                                                      *)
(***************************************************************************)
CONSTANTS Policies, Slots, Nobody

VARIABLES
    current,    \* current[p]: the open task of p, or Nobody
    decided     \* decided[p]: the closed tasks of p

vars == <<current, decided>>

TypeOK ==
    /\ current \in [Policies -> Slots \cup {Nobody}]
    /\ decided \in [Policies -> SUBSET Slots]
    /\ \A p \in Policies : current[p] \notin decided[p]

Init ==
    /\ current = [p \in Policies |-> Nobody]
    /\ decided = [p \in Policies |-> {}]

-----------------------------------------------------------------------------

Keeps(p) == current'[p] = current[p] /\ decided'[p] = decided[p]

Starts(p) ==
    /\ current[p] = Nobody
    /\ current'[p] \in Slots \ decided[p]
    /\ decided'[p] = decided[p]

Decides(p) ==
    /\ current[p] # Nobody
    /\ current'[p] = Nobody
    /\ decided'[p] = decided[p] \cup {current[p]}

TakesBack(p) ==
    /\ current[p] = Nobody
    /\ current'[p] \in decided[p]
    /\ decided'[p] = decided[p] \ {current'[p]}

Withdraws(p) ==
    /\ current[p] # Nobody
    /\ current'[p] = Nobody
    /\ decided'[p] = decided[p]

Background(p) ==
    \/ Keeps(p)
    \/ Starts(p) /\ decided[p] = {}
    \/ Withdraws(p)

UserAct(p) == Starts(p) \/ Decides(p) \/ TakesBack(p)

Next ==
    /\ current' \in [Policies -> Slots \cup {Nobody}]
    /\ decided' \in [Policies -> SUBSET Slots]
    /\ \/ \A p \in Policies : Background(p)
       \/ \E p \in Policies :
             UserAct(p) /\ \A q \in Policies \ {p} : Background(q)

Spec == Init /\ [][Next]_vars
=============================================================================
