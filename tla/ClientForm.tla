----------------------------- MODULE ClientForm ------------------------------
(***************************************************************************)
(* The form of a client (ClientsPage): one dialog for a new client and for *)
(* each client of the list.  It may be closed and opened for another one   *)
(* while its request is under way; the answer closes and empties it then.  *)
(***************************************************************************)
EXTENDS Dialogs, Naturals, FiniteSets

CONSTANTS
    Persons,
    MaxSaves        \* bound: requests of the form under way

ASSUME PersonsAssumption == None \notin Persons
ASSUME SavesAssumption == MaxSaves \in Nat \ {0}

VARIABLES
    shown,      \* modalOpen
    editingId,  \* the client edited; None: a new one
    person,     \* whose name and phones the fields hold; None: nobody's yet
    documents,  \* whose link to documents the field holds
    saves       \* requests under way

clientFormVars == <<shown, editingId, person, documents, saves>>

\* `of': the request's path; the others: its body
Save == [of : Persons \cup {None}, person : Persons \cup {None},
         documents : Persons \cup {None}]

ClientFormTypeOK ==
    /\ shown \in BOOLEAN
    /\ editingId \in Persons \cup {None}
    /\ person \in Persons \cup {None}
    /\ documents \in Persons \cup {None}
    /\ saves \in SUBSET Save

ClientFormInit ==
    /\ shown = FALSE
    /\ editingId = None /\ person = None /\ documents = None
    /\ saves = {}

ResetForm ==
    /\ person' = None
    /\ documents' = None
    /\ editingId' = None

OpenCreate ==
    /\ ~shown
    /\ ResetForm
    /\ shown' = TRUE
    /\ UNCHANGED saves

\* The fields take the values of the row.
OpenEdit(c) ==
    /\ ~shown
    /\ editingId' = c
    /\ person' = c
    /\ documents' = c
    /\ shown' = TRUE
    /\ UNCHANGED saves

CloseModal ==
    /\ shown' = FALSE
    /\ ResetForm

CloseClientForm == shown /\ CloseModal /\ UNCHANGED saves

\* Nothing disables the button meanwhile; equal requests are one here.
SubmitClient ==
    /\ shown
    /\ Cardinality(saves) < MaxSaves
    /\ saves' = saves \cup {[of |-> editingId, person |-> person, documents |-> documents]}
    /\ UNCHANGED <<shown, editingId, person, documents>>

\* The dialog that is open by now is closed.
ClientSaved(s) ==
    /\ saves' \in {saves, saves \ {s}}
    /\ CloseModal

\* The dialog stays as it is; no error is shown.
ClientNotSaved(s) ==
    /\ saves' \in {saves, saves \ {s}}
    /\ UNCHANGED <<shown, editingId, person, documents>>

ClientFormStep ==
    \/ OpenCreate
    \/ \E c \in Persons : OpenEdit(c)
    \/ CloseClientForm \/ SubmitClient
    \/ \E s \in saves : ClientSaved(s) \/ ClientNotSaved(s)

-----------------------------------------------------------------------------
\* What is saved for a client was taken from that client's row, and a new one
\* gets nothing of a client edited before.
ClientNothingLeft == \A s \in saves : s.person = s.of /\ s.documents = s.of
==============================================================================
