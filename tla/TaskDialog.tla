----------------------------- MODULE TaskDialog ------------------------------
(***************************************************************************)
(* The dialog of a renewal task (RenewalTaskModal): it shows the row that  *)
(* was clicked and has a view for every decision, the policy form among    *)
(* them.  One `busy' flag guards the decisions; it and the answers outlive *)
(* the closing of the dialog.                                              *)
(***************************************************************************)
EXTENDS Dialogs, Naturals, FiniteSets

CONSTANTS
    Tasks,
    MaxPosts        \* bound: requests of the dialog under way

ASSUME TasksAssumption == None \notin Tasks
ASSUME PostsAssumption == MaxPosts \in Nat \ {0}

VARIABLES
    task,       \* the task of the row that is open
    renewed,    \* did that row say the task is completed?
    mayEdit,    \* may the user edit the policy of a task?
    view,
    fields,     \* inputs of the views
    busy,
    posts       \* requests under way

taskVars == <<task, renewed, mayEdit, view, fields, busy, posts>>

Fields == {"postponeSimple", "postponeFeedback", "decline", "date"}

Decisions == Fields \ {"date"}

PolicyViews == {"renew", "editRenewed"}

Views == {"main", "edit"} \cup Decisions \cup PolicyViews

\* `text' and `date': when what it carries was entered
Post == [for : Tasks, way : Decisions \cup {"policy"}, text : Inputs, date : Inputs]

TaskTypeOK ==
    /\ task \in Tasks \cup {None}
    /\ renewed \in BOOLEAN
    /\ mayEdit \in BOOLEAN
    /\ view \in Views
    /\ fields \in [Fields -> Inputs]
    /\ busy \in BOOLEAN
    /\ posts \in SUBSET Post

Blank == [f \in Fields |-> "blank"]

\* Faulty: what was entered for another task stays.
ResetNothing(f) == f

\* The effect of [open, taskId] once a row was opened
ResetFields(f) == Blank

\* The views that lead on from view v.
LeadsTo(v) ==
    CASE v = "main" -> {"edit"}
      [] v = "edit" -> {"main"} \cup Decisions
                       \cup (IF renewed THEN {} ELSE {"renew"})
                       \cup (IF mayEdit THEN {"editRenewed"} ELSE {})
      [] v \in PolicyViews -> {"edit"}
      [] OTHER -> IF busy THEN {} ELSE {"edit"}

TaskInit ==
    /\ task = None
    /\ renewed = FALSE
    /\ mayEdit \in BOOLEAN
    /\ view = "main"
    /\ fields = Blank
    /\ busy = FALSE
    /\ posts = {}

\* The row may be out of date; the dialog goes by it.
OpenTask(t) ==
    /\ task = None
    /\ task' = t
    /\ renewed' \in BOOLEAN
    /\ view' = "main"
    /\ fields' = ResetFields(fields)
    /\ UNCHANGED <<mayEdit, busy, posts>>

\* onClose, by the user or by an answer
Closes ==
    /\ task' = None
    /\ fields' = [f \in Fields |-> Aged(fields[f])]

CloseTask ==
    /\ task # None
    /\ Closes
    /\ UNCHANGED <<renewed, mayEdit, view, busy, posts>>

ShowView(v) ==
    /\ task # None
    /\ v \in LeadsTo(view)
    /\ view' = v
    /\ UNCHANGED <<task, renewed, mayEdit, fields, busy, posts>>

\* The date and time are one pair of inputs in both views that postpone.
Fill(f) ==
    /\ task # None
    /\ view = f \/ (f = "date" /\ view \in {"postponeSimple", "postponeFeedback"})
    /\ fields' = [fields EXCEPT ![f] = "now"]
    /\ UNCHANGED <<task, renewed, mayEdit, view, busy, posts>>

Sends(way, text, date) ==
    /\ Cardinality(posts) < MaxPosts
    /\ posts' = posts \cup {[for |-> task, way |-> way, text |-> text, date |-> date]}

\* submitPostpone and submitDecline: a comment is required.
SubmitPostpone(v) ==
    /\ task # None /\ view = v /\ v \in {"postponeSimple", "postponeFeedback"}
    /\ ~busy
    /\ fields[v] # "blank"
    /\ Sends(v, fields[v], fields["date"])
    /\ busy' = TRUE
    /\ UNCHANGED <<task, renewed, mayEdit, view, fields>>

SubmitDecline ==
    /\ task # None /\ view = "decline"
    /\ ~busy
    /\ fields["decline"] # "blank"
    /\ Sends("decline", fields["decline"], "blank")
    /\ busy' = TRUE
    /\ UNCHANGED <<task, renewed, mayEdit, view, fields>>

\* The policy form of the dialog is mounted with its view, and has no such flag.
SubmitPolicy ==
    /\ task # None /\ view \in PolicyViews
    /\ Sends("policy", "now", "now")
    /\ UNCHANGED <<task, renewed, mayEdit, view, fields, busy>>

\* onUpdated, and onClose of whichever task is open by now
PostSaved(p) ==
    /\ posts' = posts \ {p}
    /\ Closes
    /\ busy' = (busy /\ p.way = "policy")
    /\ UNCHANGED <<renewed, mayEdit, view>>

PostRefused(p) ==
    /\ posts' = posts \ {p}
    /\ busy' = (busy /\ p.way = "policy")
    /\ UNCHANGED <<task, renewed, mayEdit, view, fields>>

TaskStep ==
    \/ \E t \in Tasks : OpenTask(t)
    \/ CloseTask
    \/ \E v \in Views : ShowView(v) \/ SubmitPostpone(v)
    \/ \E f \in Fields : Fill(f)
    \/ SubmitDecline \/ SubmitPolicy
    \/ \E p \in posts : PostSaved(p) \/ PostRefused(p)

-----------------------------------------------------------------------------
\* A decision carries a comment and a date entered for its own task since the
\* dialog was opened, and decisions are sent one at a time: closing the dialog
\* and opening it again, for this task or another, does not lift `busy'.
TaskNothingLeft ==
    /\ \A p \in posts : p.text # "before" /\ p.date # "before"
    /\ Cardinality({p \in posts : p.way \in Decisions}) <= 1
==============================================================================
