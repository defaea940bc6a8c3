---------------------------- MODULE MCLicenseAdmin ----------------------------
(***************************************************************************)
(* Bounds for LicenseAdmin: one torn file at a time, and one licence that  *)
(* has seats or is revoked.  The other is there to be created, or to be    *)
(* saved while something of the first is pending, and the other way round. *)
(***************************************************************************)
EXTENDS LicenseAdmin

OneTorn == Cardinality(torn) <= 1

Untouched(row) == row.seats = {} /\ row.status # "revoked"

OneInUse ==
    \E l \in Licenses : \A k \in Licenses \ {l} :
        Untouched(ledger[k]) /\ Untouched(stateFile[k])

Bounded == OneTorn /\ OneInUse
=============================================================================
