------------------------------ MODULE ListPages ------------------------------
(***************************************************************************)
(* The tables of the CRM that are searched and turned page by page: tasks, *)
(* policies, clients, companies (TasksPage, PoliciesPage, ClientsPage,     *)
(* CompaniesPage with useDebouncedSearchQuery and ListPaginationFooter).   *)
(*                                                                         *)
(* Every change of the query sends a request; requests are answered in any *)
(* order.  A dialog over the table has it loaded again when it has saved   *)
(* something: the tasks with the query of that moment, the others with the *)
(* query of the moment the dialog sent its form (the closure it holds).    *)
(***************************************************************************)
EXTENDS Dialogs, Naturals, Sequences, SequencesExt

CONSTANTS
    Lists,      \* the lists that are opened
    Searches,   \* texts of the search field, trimmed
    Sizes,      \* rows on a page
    MaxPage,    \* bound: pages of a list
    MaxAsked    \* bound: requests under way, that of a dialog included

Start == 25

ASSUME ListsAssumption == Lists \subseteq {"tasks", "policies", "clients", "companies"}
ASSUME QueryAssumption == "" \in Searches /\ Start \in Sizes
ASSUME PagesAssumption == MaxPage \in Nat \ {0} /\ MaxAsked \in Nat \ {0}

VARIABLES
    list,       \* the list that is open
    typed,      \* search field
    query,      \* what the page shows: page, rows on it, debounced search
    rows,       \* answered query whose rows are shown
    pages,      \* number of pages, from the last answer; 0: nothing found
    failed,     \* was the last request without an answer?
    asked,      \* requests under way that are still listened to, oldest first
    saving,     \* the query held by the dialog that is saving
    crossed     \* history: when the list was last asked for, a request for
                \* another query was under way or held by the dialog

listVars == <<list, typed, query, rows, pages, failed, asked, saving, crossed>>

Query == [page : 1..MaxPage, size : Sizes, q : Searches]

\* `effect': sent for the query shown, and not by a dialog
Request == [of : Query, effect : BOOLEAN]

ASSUME NoneIsNoQuery == None \notin Query

ListTypeOK ==
    /\ list \in Lists
    /\ typed \in Searches
    /\ query \in Query
    /\ rows \in Query \cup {None}
    /\ pages \in 0..MaxPage
    /\ failed \in BOOLEAN
    /\ asked \in Seq(Request)
    /\ saving \in Query \cup {None}
    /\ crossed \in BOOLEAN

-----------------------------------------------------------------------------
\* Faulty: nobody stops listening.
HeardAll(S) == S

\* Only the tasks stop listening to a request once the query has changed.
Heard(S) == IF list = "tasks" THEN <<>> ELSE S

\* Asks for query q while requests S are under way and a dialog holds `held'.
Asks(q, effect, S, held) ==
    LET out == Append(Heard(S), [of |-> q, effect |-> effect]) IN
    /\ asked' = out
    /\ crossed' = (\/ \E i \in 1..Len(out) : out[i].of # query'
                   \/ held \notin {None, query'})

\* The query becomes q; the effect that depends on it runs if it changed.
Becomes(q, S) ==
    /\ query' = q
    /\ IF q = query THEN asked' = S /\ crossed' = crossed
                    ELSE Asks(q, TRUE, S, saving)

Room == Len(asked) + (IF saving = None THEN 0 ELSE 1) < MaxAsked

\* After a failure the tasks hide the search field and the page buttons.
TableShown == ~(list = "tasks" /\ failed)

ListInit ==
    /\ list \in Lists
    /\ typed = ""
    /\ query = [page |-> 1, size |-> Start, q |-> ""]
    /\ rows = None
    /\ pages = 0
    /\ failed = FALSE
    /\ asked = <<[of |-> query, effect |-> TRUE]>>
    /\ saving = None
    /\ crossed = FALSE

Type(s) ==
    /\ TableShown
    /\ s # typed
    /\ typed' = s
    /\ UNCHANGED <<list, query, rows, pages, failed, asked, saving, crossed>>

\* The typing has paused: the search goes back to page 1.
Search ==
    /\ typed # query.q
    /\ Room
    /\ Becomes([query EXCEPT !.q = typed, !.page = 1], asked)
    /\ UNCHANGED <<list, typed, rows, pages, failed, saving>>

\* A page button; there are as many as the last answer had pages.
TurnTo(p) ==
    /\ TableShown
    /\ p <= pages /\ p # query.page
    /\ Room
    /\ Becomes([query EXCEPT !.page = p], asked)
    /\ UNCHANGED <<list, typed, rows, pages, failed, saving>>

Resize(n) ==
    /\ TableShown
    /\ n # query.size
    /\ Room
    /\ Becomes([query EXCEPT !.size = n, !.page = 1], asked)
    /\ UNCHANGED <<list, typed, rows, pages, failed, saving>>

\* Faulty: of a list that became empty the last page is page 0.
ListAnswerToPageZero(i) ==
    \E n \in 0..MaxPage :
        LET r == asked[i] IN
        /\ rows' = r.of
        /\ pages' = n
        /\ failed' = FALSE
        /\ Becomes(IF r.effect /\ r.of.page > n THEN [query EXCEPT !.page = n] ELSE query,
                   RemoveAt(asked, i))
        /\ UNCHANGED <<list, typed, saving>>

\* The list may have grown or shrunk to n pages.  The tasks take the page from
\* the answer, which echoes it; the others leave a page that no longer exists,
\* except when a dialog asked.
ListAnswer(i) ==
    \E n \in 0..MaxPage :
        LET r == asked[i]
            last == IF n = 0 THEN 1 ELSE n
        IN  /\ rows' = r.of
            /\ pages' = n
            /\ failed' = FALSE
            /\ IF list = "tasks"
               THEN Becomes([query EXCEPT !.page = r.of.page, !.size = r.of.size],
                            RemoveAt(asked, i))
               ELSE Becomes(IF r.effect /\ r.of.page > last
                            THEN [query EXCEPT !.page = last] ELSE query,
                            RemoveAt(asked, i))
            /\ UNCHANGED <<list, typed, saving>>

\* The policies and companies show an empty table and the error, the tasks the
\* error alone; the clients show what they had and do not notice.
ListFailure(i) ==
    /\ asked' = RemoveAt(asked, i)
    /\ failed' = TRUE
    /\ rows' = IF list \in {"policies", "companies"} THEN None ELSE rows
    /\ pages' = IF list \in {"policies", "companies"} THEN 0 ELSE pages
    /\ UNCHANGED <<list, typed, query, saving, crossed>>

\* A dialog sends its form; it may be closed before the answer comes.
DialogSends ==
    /\ saving = None
    /\ Room
    /\ saving' = query
    /\ UNCHANGED <<list, typed, query, rows, pages, failed, asked, crossed>>

DialogSaved ==
    /\ saving # None
    /\ saving' = None
    /\ UNCHANGED query
    /\ IF list = "tasks" THEN Asks(query, TRUE, asked, None)
                       ELSE Asks(saving, FALSE, asked, None)
    /\ UNCHANGED <<list, typed, rows, pages, failed>>

DialogRefused ==
    /\ saving # None
    /\ saving' = None
    /\ UNCHANGED <<list, typed, query, rows, pages, failed, asked, crossed>>

ListStep ==
    \/ \E s \in Searches : Type(s)
    \/ Search
    \/ \E p \in 1..MaxPage : TurnTo(p)
    \/ \E n \in Sizes : Resize(n)
    \/ \E i \in 1..Len(asked) : ListAnswer(i) \/ ListFailure(i)
    \/ DialogSends \/ DialogSaved \/ DialogRefused

ListSpec == ListInit /\ [][ListStep]_listVars

-----------------------------------------------------------------------------
\* When nothing is under way the table shows the rows of the page, page size
\* and search that are shown beside it.  For the tasks this is unconditional;
\* the others listen to every answer, so it is lost when answers to two queries
\* may cross (also when a dialog asks for the query it was opened over).  A
\* failed request leaves no such rows.
RowsAnswerQuery ==
    asked = <<>> /\ ~failed /\ (list = "tasks" \/ ~crossed) => rows = query
==============================================================================
