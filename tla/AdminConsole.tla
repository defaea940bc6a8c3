---------------------------- MODULE AdminConsole -----------------------------
(***************************************************************************)
(* The page of License Admin (license-admin/ui, App).  After each request  *)
(* that changes something it asks, one after the other, for the status,    *)
(* the licences and the journal (refresh).  No button is disabled while a  *)
(* request is under way, so that requests and refreshes may overlap.       *)
(*                                                                         *)
(* The server is modelled in LicenseAdmin; here it is the open vault and   *)
(* the number of changes made to the licences.                             *)
(***************************************************************************)
EXTENDS Dialogs, Naturals, FiniteSets

CONSTANTS
    MaxChanges,     \* bound: changes of the licences
    MaxRequests     \* bound: requests of the page under way, refreshes included

ASSUME ChangesAssumption == MaxChanges \in Nat
ASSUME RequestsAssumption == MaxRequests \in Nat \ {0}

VARIABLES
    vaultOpen,  \* the server: state.unlocked
    changes,    \* the server: changes made to the licences
    adrift,     \* changes sent by a page that was loaded anew, not made yet
    unlocked,   \* does the page show the console?
    licenses,   \* the number of changes the list on show includes
    section,    \* tab
    request,    \* has a request code been entered?
    issued,     \* is an activation code on show?
    keyModal,   \* is a licence key on show?
    calls,      \* requests under way
    refreshes,  \* refreshes under way
    missed,     \* history: since the last refresh was begun one has failed, or
                \* the answer to a change was lost or went to nobody
    overlapped  \* history: when the last refresh was begun, the one before had
                \* not brought its list yet

consoleVars == <<vaultOpen, changes, adrift, unlocked, licenses, section,
                 request, issued, keyModal, calls, refreshes, missed,
                 overlapped>>

Changing == {"create", "issue", "revoke", "deallocate"}

\* `keys' is sent once the vault is unlocked (ensure-keys).
Call == [id : 1..MaxRequests, what : Changing \cup {"unlock", "keys", "reveal"},
         made : BOOLEAN]

\* `open', `since': what the server would have said when the step began
Refresh == [id : 1..MaxRequests, step : {"status", "licenses", "audit"},
            open : BOOLEAN, since : 0..MaxChanges]

ConsoleTypeOK ==
    /\ vaultOpen \in BOOLEAN
    /\ changes \in 0..MaxChanges /\ adrift \in 0..MaxRequests
    /\ unlocked \in BOOLEAN
    /\ licenses \in 0..MaxChanges
    /\ section \in {"activate", "keys", "help", "audit"}
    /\ request \in BOOLEAN /\ issued \in BOOLEAN /\ keyModal \in BOOLEAN
    /\ calls \in SUBSET Call
    /\ refreshes \in SUBSET Refresh
    /\ missed \in BOOLEAN /\ overlapped \in BOOLEAN

FreeIds == {i \in 1..MaxRequests : \A c \in calls \cup refreshes : c.id # i}

Begun(i) == [id |-> i, step |-> "status", open |-> vaultOpen, since |-> changes]

ConsoleInit ==
    /\ vaultOpen \in BOOLEAN
    /\ changes = 0 /\ adrift = 0
    /\ unlocked = FALSE
    /\ licenses = 0
    /\ section = "activate"
    /\ request = FALSE /\ issued = FALSE /\ keyModal = FALSE
    /\ calls = {}
    /\ refreshes = {Begun(1)}
    /\ missed = FALSE /\ overlapped = FALSE

\* The page is loaded anew: nobody listens to its requests any more, which the
\* server may have yet to do.  (Bound: again only once it has.)
Reload ==
    /\ adrift = 0
    /\ adrift' \in 0..Cardinality({c \in calls : ~c.made /\ c.what \in Changing})
    /\ unlocked' = FALSE
    /\ licenses' = 0
    /\ section' = "activate"
    /\ request' = FALSE /\ issued' = FALSE /\ keyModal' = FALSE
    /\ calls' = {}
    /\ refreshes' = {Begun(1)}
    /\ missed' = FALSE /\ overlapped' = FALSE
    /\ UNCHANGED <<vaultOpen, changes>>

ServerDoesAdrift ==
    /\ adrift > 0
    /\ adrift' = adrift - 1
    /\ vaultOpen /\ changes < MaxChanges
    /\ changes' = changes + 1
    /\ missed' = TRUE
    /\ UNCHANGED <<vaultOpen, unlocked, licenses, section, request, issued,
                   keyModal, calls, refreshes, overlapped>>

\* License Admin is stopped and started; its licences are on disk.
Restart ==
    /\ vaultOpen
    /\ vaultOpen' = FALSE
    /\ adrift' = 0
    /\ UNCHANGED <<changes, unlocked, licenses, section, request, issued,
                   keyModal, calls, refreshes, missed, overlapped>>

-----------------------------------------------------------------------------
\* refresh
Refreshes(c) ==
    /\ refreshes' = refreshes \cup {Begun(c.id)}
    /\ overlapped' = (\E r \in refreshes : r.step # "audit")
    /\ missed' = FALSE

GoesOn(r, step) ==
    refreshes' = (refreshes \ {r}) \cup
        {[r EXCEPT !.step = step, !.open = vaultOpen, !.since = changes]}

StatusArrives(r) ==
    /\ r.step = "status"
    /\ unlocked' \in {r.open, vaultOpen}
    /\ IF unlocked' THEN GoesOn(r, "licenses") /\ UNCHANGED missed
                    ELSE refreshes' = refreshes \ {r} /\ missed' = TRUE
    /\ UNCHANGED <<vaultOpen, changes, adrift, licenses, section, request,
                   issued, keyModal, calls, overlapped>>

LicensesArrive(r) ==
    /\ r.step = "licenses"
    /\ licenses' \in r.since..changes
    /\ GoesOn(r, "audit")
    /\ UNCHANGED <<vaultOpen, changes, adrift, unlocked, section, request,
                   issued, keyModal, calls, missed, overlapped>>

AuditArrives(r) ==
    /\ r.step = "audit"
    /\ refreshes' = refreshes \ {r}
    /\ UNCHANGED <<vaultOpen, changes, adrift, unlocked, licenses, section,
                   request, issued, keyModal, calls, missed, overlapped>>

RefreshFails(r) ==
    /\ refreshes' = refreshes \ {r}
    /\ missed' = (missed \/ r.step # "audit")
    /\ UNCHANGED <<vaultOpen, changes, adrift, unlocked, licenses, section,
                   request, issued, keyModal, calls, overlapped>>

-----------------------------------------------------------------------------
SetSection(s) ==
    /\ unlocked /\ ~keyModal
    /\ s # section
    /\ section' = s
    /\ UNCHANGED <<vaultOpen, changes, adrift, unlocked, licenses, request,
                   issued, keyModal, calls, refreshes, missed, overlapped>>

EnterRequest ==
    /\ unlocked /\ ~keyModal /\ section = "activate"
    /\ request' = TRUE
    /\ UNCHANGED <<vaultOpen, changes, adrift, unlocked, licenses, section,
                   issued, keyModal, calls, refreshes, missed, overlapped>>

CloseKey ==
    /\ keyModal
    /\ keyModal' = FALSE
    /\ UNCHANGED <<vaultOpen, changes, adrift, unlocked, licenses, section,
                   request, issued, calls, refreshes, missed, overlapped>>

SendsCall(what) ==
    \E i \in FreeIds :
        /\ \A j \in FreeIds : i <= j
        /\ calls' = calls \cup {[id |-> i, what |-> what, made |-> FALSE]}

Unlock ==
    /\ ~unlocked
    /\ SendsCall("unlock")
    /\ UNCHANGED <<vaultOpen, changes, adrift, unlocked, licenses, section,
                   request, issued, keyModal, refreshes, missed, overlapped>>

\* issueCode
IssueCode ==
    /\ unlocked /\ ~keyModal /\ section = "activate"
    /\ request
    /\ issued' = FALSE
    /\ SendsCall("issue")
    /\ UNCHANGED <<vaultOpen, changes, adrift, unlocked, licenses, section,
                   request, keyModal, refreshes, missed, overlapped>>

\* createLicense, and the menu of a licence in the list
Manage(what) ==
    /\ unlocked /\ ~keyModal /\ section = "keys"
    /\ what = "create" \/ licenses > 0
    /\ SendsCall(what)
    /\ UNCHANGED <<vaultOpen, changes, adrift, unlocked, licenses, section,
                   request, issued, keyModal, refreshes, missed, overlapped>>

\* Everything but unlocking needs the open vault.
ServerDoes(c) ==
    /\ ~c.made
    /\ c.what # "unlock" => vaultOpen
    /\ c.what \in Changing => changes < MaxChanges
    /\ calls' = (calls \ {c}) \cup {[c EXCEPT !.made = TRUE]}
    /\ vaultOpen' = TRUE
    /\ changes' = IF c.what \in Changing THEN changes + 1 ELSE changes
    /\ UNCHANGED <<adrift, unlocked, licenses, section, request, issued,
                   keyModal, refreshes, missed, overlapped>>

Unlocked(c) ==
    /\ c.made /\ c.what = "unlock"
    /\ calls' = (calls \ {c}) \cup {[id |-> c.id, what |-> "keys", made |-> FALSE]}
    /\ UNCHANGED <<vaultOpen, changes, adrift, unlocked, licenses, section,
                   request, issued, keyModal, refreshes, missed, overlapped>>

\* Faulty: the list is not asked for again.
KeyCreatedUnlisted(c) ==
    /\ c.made /\ c.what = "create"
    /\ calls' = calls \ {c}
    /\ keyModal' = TRUE
    /\ UNCHANGED <<vaultOpen, changes, adrift, unlocked, licenses, section, request, issued,
                   refreshes, missed, overlapped>>

\* The key on show is that of the last answer.
KeyCreated(c) ==
    /\ c.made /\ c.what = "create"
    /\ calls' = calls \ {c}
    /\ keyModal' = TRUE
    /\ Refreshes(c)
    /\ UNCHANGED <<vaultOpen, changes, adrift, unlocked, licenses, section,
                   request, issued>>

\* The input is emptied, also of what was entered since.
Issued(c) ==
    /\ c.made /\ c.what = "issue"
    /\ calls' = calls \ {c}
    /\ issued' = TRUE
    /\ request' = FALSE
    /\ Refreshes(c)
    /\ UNCHANGED <<vaultOpen, changes, adrift, unlocked, licenses, section,
                   keyModal>>

Done(c) ==
    /\ c.made /\ c.what \in {"keys", "revoke", "deallocate"}
    /\ calls' = calls \ {c}
    /\ Refreshes(c)
    /\ UNCHANGED <<vaultOpen, changes, adrift, unlocked, licenses, section,
                   request, issued, keyModal>>

Revealed(c) ==
    /\ c.made /\ c.what = "reveal"
    /\ calls' = calls \ {c}
    /\ keyModal' = TRUE
    /\ UNCHANGED <<vaultOpen, changes, adrift, unlocked, licenses, section,
                   request, issued, refreshes, missed, overlapped>>

\* Refused, or made and the answer lost: only the error is shown.
CallFails(c) ==
    /\ calls' = calls \ {c}
    /\ missed' = (missed \/ (c.made /\ c.what \in Changing))
    /\ UNCHANGED <<vaultOpen, changes, adrift, unlocked, licenses, section,
                   request, issued, keyModal, refreshes, overlapped>>

ConsoleStep ==
    \/ Reload \/ Restart \/ ServerDoesAdrift
    \/ \E r \in refreshes :
          StatusArrives(r) \/ LicensesArrive(r) \/ AuditArrives(r) \/ RefreshFails(r)
    \/ \E s \in {"activate", "keys", "help", "audit"} : SetSection(s)
    \/ EnterRequest \/ CloseKey \/ Unlock \/ IssueCode
    \/ \E what \in {"create", "revoke", "deallocate", "reveal"} : Manage(what)
    \/ \E c \in calls :
          \/ ServerDoes(c) \/ Unlocked(c) \/ KeyCreated(c) \/ Issued(c) \/ Done(c)
          \/ Revealed(c) \/ CallFails(c)

-----------------------------------------------------------------------------
\* When nothing is under way the console lists the licences as the server has
\* them, unless a refresh failed, the answer to a change was lost, or refreshes
\* overlapped and the older list may have come last.
ListFresh ==
    unlocked /\ calls = {} /\ refreshes = {} /\ ~missed /\ ~overlapped =>
        licenses = changes
==============================================================================
