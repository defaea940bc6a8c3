-------------------------- MODULE ManualTaskDialog ---------------------------
(***************************************************************************)
(* The dialog that makes a renewal task by hand (ManualRenewalTaskModal):  *)
(* for a new policy, with the policy form, or for an existing one that is  *)
(* searched for.  Searches are answered in any order and also after the    *)
(* dialog was closed.                                                      *)
(***************************************************************************)
EXTENDS Dialogs, Naturals, FiniteSets

CONSTANTS
    Texts,          \* texts of the search field
    MaxCreates      \* bound: requests of the dialog under way

ASSUME TextsAssumption == "" \in Texts /\ None \notin Texts
ASSUME CreatesAssumption == MaxCreates \in Nat \ {0}

VARIABLES
    open,       \* is the dialog open?
    mode,       \* tab: new or existing
    search,     \* search field
    due,        \* is the timer of the search running?
    searches,   \* searches under way
    options,    \* the search that found the policies on offer
    picked,     \* the policy that is chosen
    creating,   \* busy
    creates     \* requests under way

manualVars ==
    <<open, mode, search, due, searches, options, picked, creating, creates>>

\* `way': the tab it was sent from
Create == [id : 1..MaxCreates, way : {"new", "existing"}, picked : Inputs]

ManualTypeOK ==
    /\ open \in BOOLEAN
    /\ mode \in {"new", "existing"}
    /\ search \in Texts
    /\ due \in BOOLEAN
    /\ searches \in SUBSET Texts
    /\ options \in Texts \cup {None}
    /\ picked \in Inputs
    /\ creating \in BOOLEAN
    /\ creates \in SUBSET Create

ManualInit ==
    /\ open = FALSE
    /\ mode = "new"
    /\ search = ""
    /\ due = FALSE
    /\ searches = {}
    /\ options = None
    /\ picked = "blank"
    /\ creating = FALSE
    /\ creates = {}

\* The effect of [open] resets everything, `busy' too.
OpenManual ==
    /\ ~open
    /\ open' = TRUE
    /\ mode' = "new"
    /\ search' = ""
    /\ due' = FALSE
    /\ options' = None
    /\ picked' = "blank"
    /\ creating' = FALSE
    /\ UNCHANGED <<searches, creates>>

\* Closing clears the timer; searches under way go on.
ClosesManual ==
    /\ open' = FALSE
    /\ due' = FALSE
    /\ picked' = Aged(picked)

CloseManual ==
    /\ open
    /\ ClosesManual
    /\ UNCHANGED <<mode, search, searches, options, creating, creates>>

SetMode(m) ==
    /\ open
    /\ m # mode
    /\ mode' = m
    /\ due' = (m = "existing")
    /\ UNCHANGED <<open, search, searches, options, picked, creating, creates>>

SearchPolicies(t) ==
    /\ open /\ mode = "existing"
    /\ t # search
    /\ search' = t
    /\ due' = TRUE
    /\ UNCHANGED <<open, mode, searches, options, picked, creating, creates>>

LoadPolicies ==
    /\ due
    /\ due' = FALSE
    /\ searches' = searches \cup {search}
    /\ UNCHANGED <<open, mode, search, options, picked, creating, creates>>

\* (The same text may have been searched for twice: it may be answered again.)
PoliciesFound(t) ==
    /\ options' = t
    /\ searches' \in {searches, searches \ {t}}
    /\ UNCHANGED <<open, mode, search, due, picked, creating, creates>>

PoliciesNotFound(t) ==
    /\ options' = None
    /\ searches' \in {searches, searches \ {t}}
    /\ UNCHANGED <<open, mode, search, due, picked, creating, creates>>

\* What was picked stays picked when other policies are on offer.
PickPolicy ==
    /\ open /\ mode = "existing"
    /\ options # None
    /\ picked' = "now"
    /\ UNCHANGED <<open, mode, search, due, searches, options, creating, creates>>

FreeCreate == {i \in 1..MaxCreates : \A c \in creates : c.id # i}

SendsCreate(way, p) ==
    \E i \in FreeCreate :
        /\ \A j \in FreeCreate : i <= j
        /\ creates' = creates \cup {[id |-> i, way |-> way, picked |-> p]}

SubmitExisting ==
    /\ open /\ mode = "existing"
    /\ ~creating
    /\ picked # "blank"
    /\ SendsCreate("existing", picked)
    /\ creating' = TRUE
    /\ UNCHANGED <<open, mode, search, due, searches, options, picked>>

SubmitNew ==
    /\ open /\ mode = "new"
    /\ SendsCreate("new", "blank")
    /\ UNCHANGED <<open, mode, search, due, searches, options, picked, creating>>

\* onCreated, and onClose of the dialog as it is by now
Created(c) ==
    /\ creates' = creates \ {c}
    /\ ClosesManual
    /\ creating' = (creating /\ c.way = "new")
    /\ UNCHANGED <<mode, search, searches, options>>

NotCreated(c) ==
    /\ creates' = creates \ {c}
    /\ creating' = (creating /\ c.way = "new")
    /\ UNCHANGED <<open, mode, search, due, searches, options, picked>>

ManualStep ==
    \/ OpenManual \/ CloseManual
    \/ \E m \in {"new", "existing"} : SetMode(m)
    \/ \E t \in Texts : SearchPolicies(t)
    \/ LoadPolicies \/ PickPolicy \/ SubmitExisting \/ SubmitNew
    \/ \E t \in searches : PoliciesFound(t) \/ PoliciesNotFound(t)
    \/ \E c \in creates : Created(c) \/ NotCreated(c)

-----------------------------------------------------------------------------
\* A task is made for a policy picked since the dialog was opened.
ManualNothingLeft == \A c \in creates : c.picked # "before"
==============================================================================
