----------------------------- MODULE RenewalTasks -----------------------------
(***************************************************************************)
(* The renewal engine of SelAkCRM, one request at a time.                  *)
(*                                                                         *)
(* A policy that is about to end, or has ended, needs a renewal task.      *)
(* Tasks are opened by RenewalSyncService (the hourly job, the task lists  *)
(* and every change of a policy run it) and by hand; users postpone,       *)
(* decline and renew them.  Each action is one whole request: its reads,   *)
(* its writes, the sync it ends with, and the commit of its session.       *)
(* RenewalRaces lets the requests overlap.                                 *)
(*                                                                         *)
(* Policies are the UNIQUE (companyId, number) keys, ordered as the scan   *)
(* of the Policy table visits them.  A policy's refs stand for its client, *)
(* company and product: the code asks only whether one of them is          *)
(* archived.  Dates are days left until the end of the policy.             *)
(***************************************************************************)
EXTENDS Integers, FiniteSets

CONSTANTS
    Policies,       \* a set of integers
    NoPolicy,
    Slots,          \* room for the tasks of one policy
    Refs,           \* clients, companies and products
    Users,
    WindowDays,     \* 30 in the code
    UrgentDays,     \* 3 in the code
    Horizon,        \* the largest number of days left
    PostponeModes,  \* POSTPONED ("simple"), AWAITING_FEEDBACK ("feedback")
    MaxNumber       \* bound on task numbers

ASSUME PoliciesAssumption ==
    /\ Policies \subseteq Int
    /\ IsFiniteSet(Policies)
    /\ NoPolicy \notin Policies
ASSUME SlotsAssumption == Slots # {} /\ NoPolicy \notin Slots
ASSUME ModesAssumption == PostponeModes \subseteq {"POSTPONED", "AWAITING_FEEDBACK"}
ASSUME DaysAssumption ==
    /\ WindowDays \in Nat
    /\ UrgentDays \in 0..WindowDays
    /\ Horizon \in Int /\ Horizon >= -1

VARIABLES
    policy,     \* policy[p]: the row of the Policy table
    archived,   \* the refs that are archived
    task,       \* task[p][k]: the RenewalTask rows of policy p
    active,     \* the users that are active and not deleted
    noticed,    \* <<u, p, k>>: u has the NEW_RENEWAL_TASK notice of task[p][k]
    urgent      \* <<u, p>>: u has the RENEWAL_URGENT notice of p, dated today

vars == <<policy, archived, task, active, noticed, urgent>>

-----------------------------------------------------------------------------
(* Rows.  A task's snooze says whether snoozedUntil is NULL ("none"), in   *)
(* the future ("pending") or past ("due"); reason, whether declineReason   *)
(* is set; link is renewedPolicyId.                                        *)

SnoozedStatuses == {"POSTPONED", "AWAITING_FEEDBACK"}
OpenStatuses == {"IN_PROGRESS", "AWAITING_ACTION"} \cup SnoozedStatuses
ClosedStatuses == {"RENEWED", "CLIENT_DECLINED"}
AbsentStatus == "NONE"

TaskRow == [status : OpenStatuses \cup ClosedStatuses \cup {AbsentStatus},
            snooze : {"none", "pending", "due"},
            reason : BOOLEAN,
            link   : Policies \cup {NoPolicy},
            num    : Nat]

NoTask == [status |-> AbsentStatus, snooze |-> "none", reason |-> FALSE,
           link |-> NoPolicy, num |-> 0]

NewTask(n) == [NoTask EXCEPT !.status = "IN_PROGRESS", !.num = n]

PolicyRow == [state : {"absent", "live", "archived"},
              left  : -1..Horizon,      \* -1: the policy has ended
              refs  : SUBSET Refs]

NoPolicyRow == [state |-> "absent", left |-> -1, refs |-> {}]

NewPolicy(left, refs) == [state |-> "live", left |-> left, refs |-> refs]

TypeOK ==
    /\ policy \in [Policies -> PolicyRow]
    /\ archived \subseteq Refs
    /\ task \in [Policies -> [Slots -> TaskRow]]
    /\ active \subseteq Users
    /\ noticed \subseteq Users \X Policies \X Slots
    /\ urgent \subseteq Users \X Policies

Init ==
    /\ policy = [p \in Policies |-> NoPolicyRow]
    /\ archived = {}
    /\ task = [p \in Policies |-> [k \in Slots |-> NoTask]]
    /\ active = Users
    /\ noticed = {}
    /\ urgent = {}

-----------------------------------------------------------------------------
(* RenewalSyncService                                                      *)

OpenTasks(rows, p) == {k \in Slots : rows[p][k].status \in OpenStatuses}
ClosedTasks(rows, p) == {k \in Slots : rows[p][k].status \in ClosedStatuses}
FreeSlots(rows, p) == {k \in Slots : rows[p][k].status = AbsentStatus}

\* Faulty: the date to wake at is not cleared.
WakeKeepingDate(rows) ==
    [p \in Policies |-> [k \in Slots |->
        IF rows[p][k].status \in SnoozedStatuses /\ rows[p][k].snooze = "due"
          THEN [rows[p][k] EXCEPT !.status = "AWAITING_ACTION"]
          ELSE rows[p][k]]]

WakeExpiredSnoozes(rows) ==
    [p \in Policies |-> [k \in Slots |->
        IF rows[p][k].status \in SnoozedStatuses /\ rows[p][k].snooze = "due"
          THEN [rows[p][k] EXCEPT !.status = "AWAITING_ACTION", !.snooze = "none"]
          ELSE rows[p][k]]]

InWindow(row) == row.left \in 0..WindowDays

RefsActive(refs) == refs \cap archived = {}

\* Faulty: without the branch for policies that ended unnoticed.
ScannedInWindow(pol, db) ==
    {p \in Policies :
        pol[p].state = "live" /\ (InWindow(pol[p]) \/ OpenTasks(db, p) # {})}

\* The policies the sync query returns.
Scanned(pol, db) ==
    {p \in Policies :
        /\ pol[p].state = "live"
        /\ \/ InWindow(pol[p])
           \/ OpenTasks(db, p) # {}
           \/ pol[p].left < 0 /\ ClosedTasks(db, p) = {}}

\* Those whose open tasks the loop deletes, opens a task for, and reminds of.
\* `mem' is what the session sees: the database, and the unflushed changes of
\* the request that called the sync.
Withdrawn(pol, db) == {p \in Scanned(pol, db) : ~RefsActive(pol[p].refs)}

\* Faulty: a task although one is open, or although one is decided.
OpenedAgain(pol, db, mem) ==
    {p \in Scanned(pol, db) \ Withdrawn(pol, db) :
        ClosedTasks(mem, p) = {} /\ FreeSlots(mem, p) # {}}

OpenedAfterDecision(pol, db, mem) ==
    {p \in Scanned(pol, db) \ Withdrawn(pol, db) :
        OpenTasks(mem, p) = {} /\ FreeSlots(mem, p) # {}}

Opened(pol, db, mem) ==
    {p \in Scanned(pol, db) \ Withdrawn(pol, db) :
        ClosedTasks(mem, p) = {} /\ OpenTasks(mem, p) = {}}

\* Faulty: the state of the task before the request; the last day left out.
RemindedOfStale(pol, db, mem) ==
    {p \in Scanned(pol, db) \ Withdrawn(pol, db) :
        /\ ClosedTasks(db, p) = {}
        /\ OpenTasks(db, p) # {}
        /\ pol[p].left \in 0..UrgentDays}

RemindedBeforeLastDay(pol, db, mem) ==
    {p \in Scanned(pol, db) \ Withdrawn(pol, db) :
        /\ ClosedTasks(mem, p) = {}
        /\ OpenTasks(mem, p) # {}
        /\ pol[p].left \in 1..UrgentDays}

Reminded(pol, db, mem) ==
    {p \in Scanned(pol, db) \ Withdrawn(pol, db) :
        /\ ClosedTasks(mem, p) = {}
        /\ OpenTasks(mem, p) # {}
        /\ pol[p].left \in 0..UrgentDays}

\* Faulty: the highest number among the open tasks.
NumbersOfOpen(rows, gone, new) ==
    {rows[pk[1]][pk[2]].num : pk \in
        {pk \in Policies \X Slots : rows[pk[1]][pk[2]].status \in OpenStatuses}}

\* Task numbers count on from the highest row in the table when the loop opens
\* its first task: rows of policies withdrawn before that are gone by then.
NumbersLeft(rows, gone, new) ==
    {rows[pk[1]][pk[2]].num : pk \in
        {pk \in Policies \X Slots :
            ~ /\ pk[1] \in gone
              /\ rows[pk[1]][pk[2]].status \in OpenStatuses
              /\ \A q \in new : pk[1] < q}}

IsHighest(n, numbers) == n \in numbers \cup {0} /\ \A m \in numbers : m <= n

\* The loop visits the policies in order, so their new numbers increase.
Numberings(new, base) ==
    {num \in [new -> (base + 1)..(base + Cardinality(new))] :
        \A p, q \in new : p < q => num[p] < num[q]}

FirstFree(rows, p) == CHOOSE k \in FreeSlots(rows, p) : TRUE

\* Faulty: a withdrawn policy loses its history too.
AfterLoopDroppingHistory(rows, gone, num) ==
    [p \in Policies |-> [k \in Slots |->
        CASE p \in gone -> NoTask
          [] p \in DOMAIN num /\ k = FirstFree(rows, p) -> NewTask(num[p])
          [] OTHER -> rows[p][k]]]

AfterLoop(rows, gone, num) ==
    [p \in Policies |-> [k \in Slots |->
        CASE p \in gone /\ rows[p][k].status \in OpenStatuses -> NoTask
          [] p \in DOMAIN num /\ k = FirstFree(rows, p) -> NewTask(num[p])
          [] OTHER -> rows[p][k]]]

\* The notices of tasks that no longer exist are dropped: the key of a notice
\* holds the task's id, which is never used again.
AfterNotices(rows, gone, new) ==
    {n \in noticed : ~ /\ n[2] \in gone
                       /\ rows[n[2]][n[3]].status \in OpenStatuses}
        \cup {<<u, p, FirstFree(rows, p)>> : u \in active, p \in new}

\* sync() in a session that sees the policies pol, with tasks db in the
\* database and mem in memory: it wakes expired snoozes, then runs the loop.
SyncWith(pol, db, mem) ==
    LET gone == Withdrawn(pol, db)
        new == Opened(pol, db, mem)
    IN  /\ \E base \in NumbersLeft(mem, gone, new) \cup {0} :
              /\ IsHighest(base, NumbersLeft(mem, gone, new))
              /\ \E num \in Numberings(new, base) :
                    task' = AfterLoop(mem, gone, num)
        /\ noticed' = AfterNotices(mem, gone, new)
        /\ urgent' = urgent \cup (active \X Reminded(pol, db, mem))

SyncAfter(pol, rows) ==
    SyncWith(pol, WakeExpiredSnoozes(rows), WakeExpiredSnoozes(rows))

\* The hourly job, GET /home/renewal-tasks and GET /home/tasks.
Sync ==
    /\ SyncAfter(policy, task)
    /\ UNCHANGED <<policy, archived, active>>

\* A task list asked for within 20 s of the machine's start: sync_cached takes
\* time.monotonic() < 20 for a sync that has just run, and only wakes snoozes.
SyncCachedAtBoot ==
    /\ task' = WakeExpiredSnoozes(task)
    /\ UNCHANGED <<policy, archived, active, noticed, urgent>>

-----------------------------------------------------------------------------
(* What users do with a task                                               *)

\* Faulty: no check.
ReopenUnchecked(p, k, status) == TRUE

ReopenAllowed(p, k, status) ==
    status \in ClosedStatuses => OpenTasks(task, p) \ {k} = {}

\* Faulty: the mode is stored as it was asked for, not the status it stands for.
PostponedAsAsked(row, mode) ==
    [row EXCEPT !.status = IF mode = "POSTPONED" THEN "simple" ELSE "feedback",
                !.snooze = "pending", !.reason = FALSE]

Postponed(row, mode) ==
    [row EXCEPT !.status = mode, !.snooze = "pending", !.reason = FALSE]

Declined(row) ==
    [row EXCEPT !.status = "CLIENT_DECLINED", !.reason = TRUE, !.snooze = "none"]

\* Faulty: renewedPolicyId is not set.
RenewedUnlinked(row, q) == [row EXCEPT !.status = "RENEWED", !.snooze = "none"]

Renewed(row, q) ==
    [row EXCEPT !.status = "RENEWED", !.link = q, !.snooze = "none"]

Postpone(p, k, mode) ==
    /\ task[p][k].status \in OpenStatuses \cup ClosedStatuses
    /\ ReopenAllowed(p, k, task[p][k].status)
    /\ task' = [task EXCEPT ![p][k] = Postponed(task[p][k], mode)]
    /\ UNCHANGED <<policy, archived, active, noticed, urgent>>

Decline(p, k) ==
    /\ task[p][k].status \in OpenStatuses \cup ClosedStatuses
    /\ ReopenAllowed(p, k, task[p][k].status)
    /\ task' = [task EXCEPT ![p][k] = Declined(task[p][k])]
    /\ UNCHANGED <<policy, archived, active, noticed, urgent>>

CanCreatePolicy(q, refs) == policy[q].state = "absent" /\ RefsActive(refs)

\* The renewed task is not flushed when the sync runs: the database still holds
\* it open.  If its policy is withdrawn the loop deletes the row, the UPDATE
\* of the renewal then finds no row, and the whole request is rolled back;
\* unless the loop has opened a task, and flushed, before it came to p.
RenewalSurvives(pol, db, mem, p) ==
    \/ p \notin Withdrawn(pol, db)
    \/ \E q \in Opened(pol, db, mem) : q < p

\* The session commits the policy q and, in task[p][k], the renewed row.
RenewalCommits(p, k, row, q, left, refs) ==
    LET pol == [policy EXCEPT ![q] = NewPolicy(left, refs)]
        db == WakeExpiredSnoozes(task)
    IN  RenewalSurvives(pol, db, [db EXCEPT ![p][k] = row], p)

CommitRenewal(p, k, row, q, left, refs) ==
    LET pol == [policy EXCEPT ![q] = NewPolicy(left, refs)]
        db == WakeExpiredSnoozes(task)
    IN  /\ policy' = pol
        /\ SyncWith(pol, db, [db EXCEPT ![p][k] = row])
        /\ UNCHANGED <<archived, active>>

Renew(p, k, q, left, refs) ==
    /\ task[p][k].status \in OpenStatuses
    /\ CanCreatePolicy(q, refs)
    /\ RenewalCommits(p, k, Renewed(task[p][k], q), q, left, refs)
    /\ CommitRenewal(p, k, Renewed(task[p][k], q), q, left, refs)

NumbersUsed(rows) == NumbersLeft(rows, {}, {})

\* Bounds the numbers a run can use.  Every policy without a task may still be
\* given one by a sync, so the sync itself is never held back.
Headroom ==
    \A n \in NumbersUsed(task) : n + Cardinality(Policies) <= MaxNumber

AddTask(p) ==
    /\ Headroom
    /\ FreeSlots(task, p) # {}
    /\ \E base \in NumbersUsed(task) \cup {0} :
          /\ IsHighest(base, NumbersUsed(task))
          /\ task' = [task EXCEPT ![p][FirstFree(task, p)] = NewTask(base + 1)]

\* POST /home/tasks for an existing policy.
CreateManualTask(p) ==
    /\ policy[p].state = "live"
    /\ RefsActive(policy[p].refs)
    /\ OpenTasks(task, p) = {}
    /\ AddTask(p)
    /\ UNCHANGED <<policy, archived, active, noticed, urgent>>

\* POST /home/tasks with the data of a new policy; no sync follows.
CreateManualTaskAndPolicy(q, left, refs) ==
    /\ CanCreatePolicy(q, refs)
    /\ policy' = [policy EXCEPT ![q] = NewPolicy(left, refs)]
    /\ AddTask(q)
    /\ UNCHANGED <<archived, active, noticed, urgent>>

-----------------------------------------------------------------------------
(* What users do with policies, their refs and the accounts                *)

CreatePolicy(q, left, refs) ==
    LET pol == [policy EXCEPT ![q] = NewPolicy(left, refs)]
    IN  /\ CanCreatePolicy(q, refs)
        /\ policy' = pol
        /\ SyncAfter(pol, task)
        /\ UNCHANGED <<archived, active>>

UpdatePolicy(p, left, refs) ==
    LET pol == [policy EXCEPT ![p] = NewPolicy(left, refs)]
    IN  /\ policy[p].state = "live"
        /\ RefsActive(refs)
        /\ policy' = pol
        /\ SyncAfter(pol, task)
        /\ UNCHANGED <<archived, active>>

\* deletedAt is flushed after the sync: the sync still sees the old value.
ArchivePolicy(p) ==
    /\ policy[p].state = "live"
    /\ SyncAfter(policy, task)
    /\ policy' = [policy EXCEPT ![p].state = "archived"]
    /\ UNCHANGED <<archived, active>>

RestorePolicy(p) ==
    /\ policy[p].state # "absent"
    /\ SyncAfter(policy, task)
    /\ policy' = [policy EXCEPT ![p].state = "live"]
    /\ UNCHANGED <<archived, active>>

\* Clients, companies and products are archived and restored without a sync.
ArchiveRef(r) ==
    /\ Headroom
    /\ r \notin archived
    /\ archived' = archived \cup {r}
    /\ UNCHANGED <<policy, task, active, noticed, urgent>>

RestoreRef(r) ==
    /\ r \in archived
    /\ archived' = archived \ {r}
    /\ UNCHANGED <<policy, task, active, noticed, urgent>>

\* An account is created, archived, restored, switched on or off.
SetActive(u) ==
    /\ active' = (active \ {u}) \cup ({u} \ active)
    /\ UNCHANGED <<policy, archived, task, noticed, urgent>>

-----------------------------------------------------------------------------
(* Time                                                                    *)

NewDay ==
    /\ policy' = [p \in Policies |->
                    [policy[p] EXCEPT !.left = IF @ < 0 THEN @ ELSE @ - 1]]
    /\ urgent' = {}
    /\ UNCHANGED <<archived, task, active, noticed>>

SnoozeEnds(p, k) ==
    /\ task[p][k].snooze = "pending"
    /\ task' = [task EXCEPT ![p][k].snooze = "due"]
    /\ UNCHANGED <<policy, archived, active, noticed, urgent>>

-----------------------------------------------------------------------------

PolicyRefs == (SUBSET Refs) \ {{}}

TaskAction ==
    \E p \in Policies, k \in Slots :
        \/ \E mode \in PostponeModes : Postpone(p, k, mode)
        \/ Decline(p, k)
        \/ \E q \in Policies, left \in -1..Horizon, refs \in PolicyRefs :
              Renew(p, k, q, left, refs)

PolicyAction ==
    \E p \in Policies :
        \/ CreateManualTask(p)
        \/ ArchivePolicy(p)
        \/ RestorePolicy(p)
        \/ \E left \in -1..Horizon, refs \in PolicyRefs :
              \/ CreatePolicy(p, left, refs)
              \/ UpdatePolicy(p, left, refs)
              \/ CreateManualTaskAndPolicy(p, left, refs)

Surroundings ==
    \/ \E r \in Refs : ArchiveRef(r) \/ RestoreRef(r)
    \/ \E u \in Users : SetActive(u)
    \/ NewDay
    \/ \E p \in Policies, k \in Slots : SnoozeEnds(p, k)

Next == Sync \/ SyncCachedAtBoot \/ TaskAction \/ PolicyAction \/ Surroundings

\* The hourly job runs as long as the process does.
Spec == Init /\ [][Next]_vars /\ WF_vars(Sync)

-----------------------------------------------------------------------------
(* Safety                                                                  *)

\* A policy never has two open tasks (home_routes._assert_reopen_allowed and
\* the 409 of create_manual_renewal_task keep it so).
OneOpenTask ==
    \A p \in Policies : \A j, k \in OpenTasks(task, p) : j = k

\* A date to wake at belongs to a snoozed task and a reason to a declined one,
\* whatever sequence of postponing, declining, reopening, renewing and waking
\* led there.
RowsConsistent ==
    \A p \in Policies, k \in Slots :
        /\ task[p][k].snooze # "none" <=> task[p][k].status \in SnoozedStatuses
        /\ task[p][k].reason <=> task[p][k].status = "CLIENT_DECLINED"

\* A renewed task leads to the policy that was issued, and no two tasks claim
\* the same one.
RenewalLinks ==
    \A p, q \in Policies : \A j, k \in Slots :
        /\ task[p][j].status = "RENEWED" => task[p][j].link # NoPolicy
        /\ task[p][j].link # NoPolicy =>
              /\ task[p][j].link # p
              /\ policy[task[p][j].link].state # "absent"
              /\ task[p][j].link = task[q][k].link => <<p, j>> = <<q, k>>

\* Numbers are handed out as max + 1, also while a sync deletes rows: no two
\* tasks share one.
NumbersUnique ==
    \A p, q \in Policies : \A j, k \in Slots :
        /\ task[p][j].status # AbsentStatus
        /\ task[q][k].status # AbsentStatus
        /\ task[p][j].num = task[q][k].num
        => <<p, j>> = <<q, k>>

\* The row of a renewed or declined task is never deleted, nor its number
\* changed (_remove_pending_tasks spares the history).
DecisionsKept ==
    [][\A p \in Policies, k \in Slots :
          task[p][k].status \in ClosedStatuses =>
              /\ task'[p][k].status # AbsentStatus
              /\ task'[p][k].num = task[p][k].num]_vars

\* The state a sync aims at: nobody sleeps past the date, every active policy
\* that is ending or has ended has had a task, and no task is open for a policy
\* whose client, company or product is archived.
Awake ==
    \A p \in Policies, k \in Slots :
        ~(task[p][k].status \in SnoozedStatuses /\ task[p][k].snooze = "due")

SettledFor(p) ==
    policy[p].state = "live" =>
        IF RefsActive(policy[p].refs)
          THEN policy[p].left <= WindowDays => FreeSlots(task, p) # Slots
          ELSE OpenTasks(task, p) = {}

SettledBut(exempt) == Awake /\ \A p \in Policies \ exempt : SettledFor(p)

Settled == SettledBut({})

\* A full sync reaches that state in one pass, the ones that creating, changing,
\* renewing or archiving a policy ends with included.  The one that restoring a
\* policy ends with does not see this policy (RestoreOpensTask fails); it settles
\* everything else.
SyncSettles ==
    [][/\ ~Settled' =>
             /\ ~Sync
             /\ \A p \in Policies : ~ArchivePolicy(p)
             /\ \A p \in Policies, left \in -1..Horizon, refs \in PolicyRefs :
                   /\ ~CreatePolicy(p, left, refs)
                   /\ ~UpdatePolicy(p, left, refs)
                   /\ \A q \in Policies, k \in Slots : ~Renew(q, k, p, left, refs)
       /\ \A p \in Policies : ~SettledBut({p})' => ~RestorePolicy(p)]_vars

\* A policy that ended, or came close to its end, while it was archived has a
\* task when it is back: restore_policy calls sync_after_policy_change for that.
RestoreOpensTask ==
    [][\A p \in Policies :
          /\ policy[p].state = "archived"
          /\ RestorePolicy(p)
          /\ RefsActive(policy[p].refs)
          /\ policy[p].left <= WindowDays
          => FreeSlots(task', p) # Slots]_vars

\* A sync of settled tables changes no task: repeating it is harmless.
SyncIdempotent == [][Settled /\ task' # task => ~Sync]_vars

\* Nobody is reminded of a policy whose task is decided, nor by the very request
\* that renews it.
NoReminderOnceDecided ==
    [][\A u \in Users, p \in Policies :
          <<u, p>> \in urgent' \ urgent =>
              /\ u \in active
              /\ OpenTasks(task', p) # {}
              /\ ClosedTasks(task', p) = {}]_vars

\* One task at a time, decisions kept, no decision by the background: the
\* engine implements RenewalPromise.
Nobody == NoPolicy

Promise == INSTANCE RenewalPromise WITH
    current <- [p \in Policies |->
                  IF OpenTasks(task, p) = {} THEN Nobody
                  ELSE CHOOSE k \in OpenTasks(task, p) : TRUE],
    decided <- [p \in Policies |-> ClosedTasks(task, p)]

ImplementsPromise == Promise!Spec

-----------------------------------------------------------------------------
(* Liveness                                                                *)

\* However policies, clients and days change, the tasks catch up again and
\* again: an expired snooze wakes, a needed task appears, a withdrawn one goes.
SyncKeepsUp == []<>Settled

AwaitsReminder(u, p) ==
    /\ u \in active
    /\ policy[p].state = "live"
    /\ policy[p].left \in 0..UrgentDays
    /\ RefsActive(policy[p].refs)
    /\ OpenTasks(task, p) # {}
    /\ ClosedTasks(task, p) = {}

\* Nobody waits for ever for the reminder of an undecided policy in its last
\* days: it comes, or the wait ends with the day, the task or the account.
ReminderComes ==
    \A u \in Users, p \in Policies :
        []<>(AwaitsReminder(u, p) => <<u, p>> \in urgent)

=============================================================================
