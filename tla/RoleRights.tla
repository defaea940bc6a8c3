----------------------------- MODULE RoleRights ------------------------------
(***************************************************************************)
(* The rights of the roles in the settings (RolePermissionsPanel): the     *)
(* panel loads the matrix once, shows the rights of one role as switches   *)
(* and saves them.  While it saves, only the button is disabled: another   *)
(* role may be chosen before the answer comes.                             *)
(***************************************************************************)
EXTENDS Dialogs, FiniteSets

CONSTANTS
    Roles,          \* the roles that can be configured
    FirstRole,      \* the one shown first
    Keys            \* rights

ASSUME RolesAssumption == FirstRole \in Roles
ASSUME KeysAssumption == IsFiniteSet(Keys)

VARIABLES
    stored,     \* the server: rights of each role
    matrix,     \* the panel's copy
    loaded,     \* is the matrix there, still out, or failed?
    role,       \* the role shown
    selected,   \* the switches that are on
    put,        \* the request to save: none, sent, done by the server
    putRole,    \* the role it is for
    putRights,  \* what it carries
    touched,    \* history: a switch was moved since the switches were set
    switched,   \* history: a role was chosen while the last save was out
    lost        \* history: a save was done and its answer lost

rightsVars == <<stored, matrix, loaded, role, selected, put, putRole, putRights,
                touched, switched, lost>>

RightsTypeOK ==
    /\ stored \in [Roles -> SUBSET Keys]
    /\ matrix \in [Roles -> SUBSET Keys]
    /\ loaded \in {"no", "yes", "failed"}
    /\ role \in Roles
    /\ selected \in SUBSET Keys
    /\ put \in {"none", "sent", "done"}
    /\ putRole \in Roles
    /\ putRights \in SUBSET Keys
    /\ touched \in BOOLEAN /\ switched \in BOOLEAN /\ lost \in BOOLEAN

RightsInit ==
    /\ stored \in [Roles -> SUBSET Keys]
    /\ matrix = [r \in Roles |-> {}]
    /\ loaded = "no"
    /\ role = FirstRole
    /\ selected = {}
    /\ put = "none" /\ putRole = FirstRole /\ putRights = {}
    /\ touched = FALSE /\ switched = FALSE /\ lost = FALSE

MatrixArrives ==
    /\ loaded = "no"
    /\ loaded' = "yes"
    /\ matrix' = stored
    /\ selected' = stored[FirstRole]
    /\ UNCHANGED <<stored, role, put, putRole, putRights, touched, switched, lost>>

MatrixFails ==
    /\ loaded = "no"
    /\ loaded' = "failed"
    /\ UNCHANGED <<stored, matrix, role, selected, put, putRole, putRights, touched,
                   switched, lost>>

\* Faulty: the switches of the role shown before stay.
SelectRoleOnly(r) ==
    /\ loaded = "yes"
    /\ role' = r
    /\ touched' = FALSE
    /\ switched' = (put # "none")
    /\ UNCHANGED <<stored, matrix, loaded, selected, put, putRole, putRights, lost>>

SelectRole(r) ==
    /\ loaded = "yes"
    /\ role' = r
    /\ selected' = matrix[r]
    /\ touched' = FALSE
    /\ switched' = (put # "none")
    /\ UNCHANGED <<stored, matrix, loaded, put, putRole, putRights, lost>>

Toggle(k) ==
    /\ loaded = "yes"
    /\ selected' = IF k \in selected THEN selected \ {k} ELSE selected \cup {k}
    /\ touched' = TRUE
    /\ UNCHANGED <<stored, matrix, loaded, role, put, putRole, putRights, switched, lost>>

\* The button is enabled while nothing is being saved and something differs.
SaveRights ==
    /\ loaded = "yes"
    /\ put = "none"
    /\ selected # matrix[role]
    /\ put' = "sent"
    /\ putRole' = role
    /\ putRights' = selected
    /\ UNCHANGED <<stored, matrix, loaded, role, selected, touched, switched, lost>>

ServerSaves ==
    /\ put = "sent"
    /\ put' = "done"
    /\ stored' = [stored EXCEPT ![putRole] = putRights]
    /\ UNCHANGED <<matrix, loaded, role, selected, putRole, putRights, touched, switched, lost>>

\* The switches become those of the role that was saved, whichever is shown.
RightsSaved ==
    /\ put = "done"
    /\ put' = "none"
    /\ matrix' = stored
    /\ selected' = stored[putRole]
    /\ touched' = FALSE
    /\ UNCHANGED <<stored, loaded, role, putRole, putRights, switched, lost>>

RightsNotSaved ==
    /\ put # "none"
    /\ put' = "none"
    /\ lost' = (lost \/ put = "done")
    /\ UNCHANGED <<stored, matrix, loaded, role, selected, putRole, putRights, touched, switched>>

RightsStep ==
    \/ MatrixArrives \/ MatrixFails
    \/ \E r \in Roles : SelectRole(r)
    \/ \E k \in Keys : Toggle(k)
    \/ SaveRights \/ ServerSaves \/ RightsSaved \/ RightsNotSaved

RightsSpec == RightsInit /\ [][RightsStep]_rightsVars

-----------------------------------------------------------------------------
\* While nothing is being saved and no switch was moved, the switches are the
\* rights of the role they are shown for (unless the answer to a save was lost:
\* "the matrix of rights is in the database; UI and API agree").
RightsAgree ==
    loaded = "yes" /\ put = "none" /\ ~touched /\ ~lost => selected = stored[role]

\* This is so unless a role was chosen while the last save was out.
RightsFit == ~switched => RightsAgree
==============================================================================
