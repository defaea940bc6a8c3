---------------------------- MODULE MCRenewalRaces ----------------------------
(***************************************************************************)
(* Instances of RenewalRaces.  Every policy has ended (no day passes): a   *)
(* task is due for each of them at once, which is where the requests on    *)
(* tasks meet.                                                             *)
(***************************************************************************)
EXTENDS RenewalRaces, TLC

EndedOnly == -1

WorkerSymmetry == Permutations(Workers)
=============================================================================
