------------------------------ MODULE Dialogs --------------------------------
(***************************************************************************)
(* What the models of the dialogs share.  A dialog of the CRM is closed by *)
(* its buttons, by the backdrop and by Escape (Modal), at any moment, also *)
(* while its request is under way; its component stays mounted, so that    *)
(* what was entered lasts until the code resets it.                        *)
(***************************************************************************)

CONSTANT None

\* An input holds nothing (or its default), something entered since the dialog
\* was opened, or something from before.
Inputs == {"blank", "now", "before"}

Aged(input) == IF input = "blank" THEN "blank" ELSE "before"
==============================================================================
