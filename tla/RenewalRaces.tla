----------------------------- MODULE RenewalRaces -----------------------------
(***************************************************************************)
(* The renewal engine under overlapping requests.                          *)
(*                                                                         *)
(* FastAPI runs the handlers in a thread pool, each with its own session   *)
(* on the same SQLite file.  Until its first INSERT, UPDATE or DELETE a    *)
(* session is in no transaction: every SELECT sees the latest commit, and  *)
(* a row once loaded is never read again (the identity map).  The first    *)
(* write takes the one write lock and keeps it until the commit, so a      *)
(* request is a few separate reads and one atomic step that writes.        *)
(*                                                                         *)
(* The requests on tasks are split so.  A sync writes first (the wake      *)
(* UPDATE), so all of it is one step; the requests on policies and refs    *)
(* are taken as one step each.                                             *)
(***************************************************************************)
EXTENDS RenewalTasks

CONSTANTS
    Workers,        \* threads that serve requests on tasks
    MaxRequests     \* bound on the number of those requests

VARIABLES
    req,    \* req[w]: the request w serves
    begun   \* how many have begun

allVars == <<policy, archived, task, active, noticed, urgent, req, begun>>

\* Which request, how far it is, the task (p, k) it is about and the row of it
\* that the session has loaded; the status to postpone to; the number of the
\* policy to issue and its refs; the number for a new task.
Idle == [op |-> "none", stage |-> "none", p |-> NoPolicy, k |-> 0,
         row |-> NoTask, mode |-> "none", q |-> NoPolicy, refs |-> {}, num |-> 0]

Request ==
    [op    : {"none", "postpone", "decline", "renew", "create"},
     stage : {"none", "loaded", "checked", "ready"},
     p     : Policies \cup {NoPolicy},
     k     : Slots \cup {0},
     row   : TaskRow,
     mode  : PostponeModes \cup {"none"},
     q     : Policies \cup {NoPolicy},
     refs  : SUBSET Refs,
     num   : Nat]

RacesTypeOK == TypeOK /\ req \in [Workers -> Request] /\ begun \in Nat

RacesInit == Init /\ req = [w \in Workers |-> Idle] /\ begun = 0

-----------------------------------------------------------------------------
(* Reads                                                                   *)

Reads(w, r) ==
    /\ req' = [req EXCEPT ![w] = r]
    /\ UNCHANGED vars

Fails(w) == Reads(w, Idle)

\* An open task needs no look at the policy's other tasks.
AfterLoad(row) == IF row.status \in ClosedStatuses THEN "loaded" ELSE "ready"

\* Faulty: the mode is kept as it was asked for.
LoadToPostponeAsAsked(w, p, k, mode) ==
    /\ req[w] = Idle
    /\ task[p][k].status # AbsentStatus
    /\ Reads(w, [Idle EXCEPT !.op = "postpone", !.stage = AfterLoad(task[p][k]),
                             !.p = p, !.k = k, !.row = task[p][k], !.mode = "simple"])

LoadToPostpone(w, p, k, mode) ==
    /\ req[w] = Idle
    /\ task[p][k].status # AbsentStatus
    /\ Reads(w, [Idle EXCEPT !.op = "postpone", !.stage = AfterLoad(task[p][k]),
                             !.p = p, !.k = k, !.row = task[p][k], !.mode = mode])

LoadToDecline(w, p, k) ==
    /\ req[w] = Idle
    /\ task[p][k].status # AbsentStatus
    /\ Reads(w, [Idle EXCEPT !.op = "decline", !.stage = AfterLoad(task[p][k]),
                             !.p = p, !.k = k, !.row = task[p][k]])

LoadToRenew(w, p, k, q, refs) ==
    /\ req[w] = Idle
    /\ task[p][k].status \in OpenStatuses
    /\ Reads(w, [Idle EXCEPT !.op = "renew", !.stage = "loaded",
                             !.p = p, !.k = k, !.row = task[p][k],
                             !.q = q, !.refs = refs])

LoadToCreate(w, p) ==
    /\ req[w] = Idle
    /\ policy[p].state = "live"
    /\ RefsActive(policy[p].refs)
    /\ Reads(w, [Idle EXCEPT !.op = "create", !.stage = "loaded", !.p = p])

\* _assert_reopen_allowed looks at the tasks of now, for a status loaded before.
CheckReopen(w) ==
    /\ req[w].op \in {"postpone", "decline"}
    /\ req[w].stage = "loaded"
    /\ IF ReopenAllowed(req[w].p, req[w].k, req[w].row.status)
         THEN Reads(w, [req[w] EXCEPT !.stage = "ready"])
         ELSE Fails(w)

CheckRefs(w) ==
    /\ req[w].op = "renew"
    /\ req[w].stage = "loaded"
    /\ IF RefsActive(req[w].refs)
         THEN Reads(w, [req[w] EXCEPT !.stage = "ready"])
         ELSE Fails(w)

CheckNoOpenTask(w) ==
    /\ req[w].op = "create"
    /\ req[w].stage = "loaded"
    /\ IF OpenTasks(task, req[w].p) = {}
         THEN Reads(w, [req[w] EXCEPT !.stage = "checked"])
         ELSE Fails(w)

ReadHighestNumber(w) ==
    /\ req[w].stage = "checked"
    /\ \E base \in NumbersUsed(task) \cup {0} :
          /\ IsHighest(base, NumbersUsed(task))
          /\ Reads(w, [req[w] EXCEPT !.stage = "ready", !.num = base + 1])

-----------------------------------------------------------------------------
(* Writes                                                                  *)

\* Faulty: the whole row as the session sees it.
FlushAll(row, seen, new) == new

\* The UPDATE sets the columns whose value is not the loaded one.  A date to
\* wake at and a text for the refusal are new values.
Flush(row, seen, new) ==
    [status |-> IF new.status # seen.status THEN new.status ELSE row.status,
     snooze |-> IF new.snooze = "pending" \/ new.snooze # seen.snooze
                  THEN new.snooze ELSE row.snooze,
     reason |-> IF new.status = "CLIENT_DECLINED" \/ new.reason # seen.reason
                  THEN new.reason ELSE row.reason,
     link   |-> IF new.link # seen.link THEN new.link ELSE row.link,
     num    |-> row.num]

\* The requests about task (p, k) that had loaded a row learn at their UPDATE
\* that it is gone; a later task in the same slot is another row.
RowGone(r, rows) ==
    r.k \in Slots /\ rows[r.p][r.k].status = AbsentStatus

ForgetGone(r, rows) == IF RowGone(r, rows) THEN [r EXCEPT !.row = NoTask] ELSE r

Done(w) ==
    req' = [v \in Workers |-> IF v = w THEN Idle ELSE ForgetGone(req[v], task')]

NobodyDone == req' = [v \in Workers |-> ForgetGone(req[v], task')]

\* UPDATE and the comment's INSERT both fail on a deleted row.
WriteTask(w, new) ==
    IF req[w].row = NoTask
      THEN Fails(w)
      ELSE /\ task' = [task EXCEPT ![req[w].p][req[w].k] =
                          Flush(@, req[w].row, new)]
           /\ Done(w)
           /\ UNCHANGED <<policy, archived, active, noticed, urgent>>

WritePostpone(w) ==
    /\ req[w].op = "postpone"
    /\ req[w].stage = "ready"
    /\ WriteTask(w, Postponed(req[w].row, req[w].mode))

WriteDecline(w) ==
    /\ req[w].op = "decline"
    /\ req[w].stage = "ready"
    /\ WriteTask(w, Declined(req[w].row))

\* Faulty: no UNIQUE constraints.
KeyUnchecked(q) == TRUE
NumberUnchecked(num) == TRUE

KeyFree(q) == policy[q].state = "absent"

\* The policy is inserted (UNIQUE on company and number), the sync runs, the row of
\* the task is flushed: all or nothing.  The client, company and product that were
\* checked are no longer in the session by then (it holds loaded rows weakly, and
\* _assert_refs_active has returned): the INSERT is followed by a SELECT of the
\* policy with all three, which sees them as they are now.
WriteRenewal(w, left) ==
    LET r == req[w]
        woken == WakeExpiredSnoozes(task)[r.p][r.k]
        row == Flush(woken, r.row, Renewed(r.row, r.q))
    IN  /\ r.op = "renew"
        /\ r.stage = "ready"
        /\ IF /\ r.row # NoTask
              /\ KeyFree(r.q)
              /\ RenewalCommits(r.p, r.k, row, r.q, left, r.refs)
             THEN CommitRenewal(r.p, r.k, row, r.q, left, r.refs) /\ Done(w)
             ELSE Fails(w)

\* taskNumber is UNIQUE: the INSERT fails on a number taken meanwhile.
NumberFree(num) == num \notin NumbersUsed(task)

WriteNewTask(w) ==
    /\ req[w].op = "create"
    /\ req[w].stage = "ready"
    /\ IF NumberFree(req[w].num)
         THEN /\ Headroom
              /\ FreeSlots(task, req[w].p) # {}
              /\ task' = [task EXCEPT ![req[w].p][FirstFree(task, req[w].p)] =
                             NewTask(req[w].num)]
              /\ Done(w)
              /\ UNCHANGED <<policy, archived, active, noticed, urgent>>
         ELSE Fails(w)

-----------------------------------------------------------------------------

Loads(w) ==
    /\ begun < MaxRequests
    /\ begun' = begun + 1
    /\ \E p \in Policies :
          \/ LoadToCreate(w, p)
          \/ \E k \in Slots :
                \/ \E mode \in PostponeModes : LoadToPostpone(w, p, k, mode)
                \/ LoadToDecline(w, p, k)
                \/ \E q \in Policies, refs \in PolicyRefs :
                      LoadToRenew(w, p, k, q, refs)

Checks(w) ==
    /\ \/ CheckReopen(w)
       \/ CheckRefs(w)
       \/ CheckNoOpenTask(w)
       \/ ReadHighestNumber(w)
    /\ UNCHANGED begun

Writes(w) ==
    /\ \/ WritePostpone(w)
       \/ WriteDecline(w)
       \/ \E left \in -1..Horizon : WriteRenewal(w, left)
       \/ WriteNewTask(w)
    /\ UNCHANGED begun

\* What else commits in between.
Others ==
    /\ \/ Sync
       \/ SyncCachedAtBoot
       \/ Surroundings
       \/ \E p \in Policies :
             \/ ArchivePolicy(p)
             \/ RestorePolicy(p)
             \/ \E left \in -1..Horizon, refs \in PolicyRefs :
                   \/ CreatePolicy(p, left, refs)
                   \/ UpdatePolicy(p, left, refs)
                   \/ CreateManualTaskAndPolicy(p, left, refs)
    /\ NobodyDone
    /\ UNCHANGED begun

RacesNext ==
    \/ \E w \in Workers : Loads(w) \/ Checks(w) \/ Writes(w)
    \/ Others

RacesSpec == RacesInit /\ [][RacesNext]_allVars

-----------------------------------------------------------------------------
(* Safety                                                                  *)

\* A decision loaded before another request wrote is still never lost without
\* trace: whoever writes last, a task once renewed or declined keeps its row,
\* and a policy issued for it stays linked until another one is issued.
LinksKept ==
    [][\A p \in Policies, k \in Slots :
          /\ task[p][k].link # NoPolicy
          /\ task'[p][k].status # AbsentStatus
          => \/ task'[p][k].link = task[p][k].link
             \/ /\ task'[p][k].link # NoPolicy
                /\ policy[task'[p][k].link].state = "absent"]_allVars

=============================================================================
