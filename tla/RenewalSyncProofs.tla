--------------------------- MODULE RenewalSyncProofs ---------------------------
(***************************************************************************)
(* Proofs about what a step of RenewalTasks may do: what a sync reaches,   *)
(* what it leaves alone, whom it reminds, and which acts of RenewalPromise *)
(* it is.  They rest on the invariant of RenewalTasksProofs.               *)
(***************************************************************************)
EXTENDS RenewalTasksProofs

USE DEF AbsentStatus

-----------------------------------------------------------------------------
(* One sync                                                                *)

\* A row that is neither open nor absent survives a sync unchanged.
LEMMA SyncKeepsClosed ==
    ASSUME NEW pol, NEW db, NEW mem \in Rows, SyncWith(pol, db, mem),
           NEW p \in Policies, NEW k \in Slots,
           mem[p][k].status \in ClosedStatuses
    PROVE  task'[p][k] = mem[p][k]
  <1>1. mem[p][k].status \notin OpenStatuses /\ mem[p][k].status # AbsentStatus
    BY Kinds
  <1>2. ~(p \in Opened(pol, db, mem))
    BY <1>1, OpenedPolicies
  <1> QED
    BY <1>1, <1>2, SyncRows

\* What Settled says, of any tables.
SettledIn(pol, rows) ==
    /\ \A p \in Policies, k \in Slots :
          ~(rows[p][k].status \in SnoozedStatuses /\ rows[p][k].snooze = "due")
    /\ \A p \in Policies :
          pol[p].state = "live" =>
              IF RefsActive(pol[p].refs)
                THEN pol[p].left <= WindowDays => FreeSlots(rows, p) # Slots
                ELSE OpenTasks(rows, p) = {}

\* A sync settles the tables it is run on, when memory differs from the
\* database by decisions only.
LEMMA OneSyncSettles ==
    ASSUME NEW pol \in PolicyTable, NEW db \in Rows, NEW mem \in Rows,
           \A p \in Policies, k \in Slots :
              \/ mem[p][k] = db[p][k]
              \/ db[p][k].status \in OpenStatuses /\ mem[p][k].status \in ClosedStatuses,
           \A p \in Policies, k \in Slots :
              ~(mem[p][k].status \in SnoozedStatuses /\ mem[p][k].snooze = "due"),
           SyncWith(pol, db, mem)
    PROVE  SettledIn(pol, task')
  <1>1. ASSUME NEW p \in Policies, NEW k \in Slots,
               task'[p][k].status \in SnoozedStatuses, task'[p][k].snooze = "due"
        PROVE  FALSE
    BY <1>1, SyncRows DEF NoTask
  <1>2. ASSUME NEW p \in Policies, pol[p].state = "live",
               RefsActive(pol[p].refs), pol[p].left <= WindowDays
        PROVE  FreeSlots(task', p) # Slots
    <2>1. p \notin Withdrawn(pol, db)
      BY <1>2 DEF Withdrawn
    <2>2. ASSUME NEW k \in Slots, mem[p][k].status # AbsentStatus
          PROVE  FreeSlots(task', p) # Slots
      <3>1. task'[p][k].status # AbsentStatus
        BY <2>1, <2>2, SyncRows
      <3> QED
        BY <3>1 DEF FreeSlots
    <2>3. CASE \A k \in Slots : mem[p][k].status = AbsentStatus
      <3>1. OpenTasks(mem, p) = {} /\ ClosedTasks(mem, p) = {}
        BY <2>3, Kinds DEF OpenTasks, ClosedTasks
      <3>2. ClosedTasks(db, p) = {}
        BY <2>3, Kinds DEF ClosedTasks
      <3>3. pol[p].left \in -1..Horizon
        BY DEF PolicyTable, PolicyRow
      <3>4. pol[p].left \in 0..WindowDays \/ pol[p].left < 0
        BY <1>2, <3>3, DaysAssumption
      <3>5. p \in Scanned(pol, db)
        BY <1>2, <3>2, <3>4 DEF Scanned, InWindow
      <3>6. p \in Opened(pol, db, mem)
        BY <2>1, <3>1, <3>5 DEF Opened
      <3>7. FreeSlots(mem, p) # {}
        BY <3>6, OpenedPolicies
      <3>8. task'[p][FirstFree(mem, p)].status = "IN_PROGRESS"
        BY <3>6, <3>7, FirstFreeSlot, OpenedPolicies, SyncRows
      <3> QED
        BY <3>7, <3>8, FirstFreeSlot DEF FreeSlots
    <2> QED
      BY <2>2, <2>3
  <1>3. ASSUME NEW p \in Policies, pol[p].state = "live", ~RefsActive(pol[p].refs)
        PROVE  OpenTasks(task', p) = {}
    <2>1. p \in Scanned(pol, db) => p \in Withdrawn(pol, db)
      BY <1>3 DEF Withdrawn
    <2>2. p \notin Opened(pol, db, mem)
      BY <2>1 DEF Opened
    <2>3. ASSUME NEW k \in Slots, task'[p][k].status \in OpenStatuses
          PROVE  FALSE
      <3>1. /\ task'[p][k] = mem[p][k]
            /\ ~(p \in Withdrawn(pol, db) /\ mem[p][k].status \in OpenStatuses)
        BY <2>2, <2>3, SyncRows, Kinds DEF NoTask
      <3>2. db[p][k].status \in OpenStatuses
        BY <2>3, <3>1
      <3>3. p \in Scanned(pol, db)
        BY <1>3, <3>2 DEF Scanned, OpenTasks
      <3> QED
        BY <2>1, <2>3, <3>1, <3>3
    <2> QED
      BY <2>3 DEF OpenTasks
  <1> QED
    BY <1>1, <1>2, <1>3 DEF SettledIn

\* A reminder goes to active users, about policies with an open task and no
\* decided one: before the sync and after it.
LEMMA SyncReminds ==
    ASSUME NEW pol, NEW db, NEW mem \in Rows, SyncWith(pol, db, mem),
           NEW u, NEW p, <<u, p>> \in urgent' \ urgent
    PROVE  u \in active /\ OpenTasks(task', p) # {} /\ ClosedTasks(task', p) = {}
  <1>1. u \in active /\ p \in Reminded(pol, db, mem)
    BY DEF SyncWith
  <1>2. /\ p \in Policies /\ p \notin Withdrawn(pol, db)
        /\ ClosedTasks(mem, p) = {}
        /\ OpenTasks(mem, p) # {}
    BY <1>1 DEF Reminded, Scanned
  <1>3. p \notin Opened(pol, db, mem)
    BY <1>2 DEF Opened
  <1>4. \A k \in Slots : task'[p][k] = mem[p][k]
    BY <1>2, <1>3, SyncRows
  <1> QED
    BY <1>1, <1>2, <1>4 DEF OpenTasks, ClosedTasks

-----------------------------------------------------------------------------
(* Requests that end with a sync                                           *)

\* Waking leaves no expired snooze, and touches no decided row.
LEMMA WakeSettles ==
    ASSUME NEW rows \in Rows, NEW p \in Policies, NEW k \in Slots
    PROVE  LET new == WakeExpiredSnoozes(rows)[p][k]
           IN  /\ ~(new.status \in SnoozedStatuses /\ new.snooze = "due")
               /\ rows[p][k].status \notin SnoozedStatuses => new = rows[p][k]
               /\ new.status \in OpenStatuses <=> rows[p][k].status \in OpenStatuses
               /\ new.status \in ClosedStatuses <=> rows[p][k].status \in ClosedStatuses
  <1>1. WakeExpiredSnoozes(rows)[p][k] =
          IF rows[p][k].status \in SnoozedStatuses /\ rows[p][k].snooze = "due"
            THEN [rows[p][k] EXCEPT !.status = "AWAITING_ACTION", !.snooze = "none"]
            ELSE rows[p][k]
    BY DEF WakeExpiredSnoozes
  <1>2. rows[p][k] \in TaskRow
    BY DEF Rows
  <1> QED
    BY <1>1, <1>2 DEF TaskRow, OpenStatuses, ClosedStatuses, SnoozedStatuses

\* What the sync at the end of a request does to the committed tables.
LEMMA SyncAfterEffect ==
    ASSUME NEW pol \in PolicyTable, task \in Rows, SyncAfter(pol, task)
    PROVE  /\ SettledIn(pol, task')
           /\ \A p \in Policies, k \in Slots :
                 task[p][k].status \in ClosedStatuses => task'[p][k] = task[p][k]
           /\ \A u, p : <<u, p>> \in urgent' \ urgent =>
                 u \in active /\ OpenTasks(task', p) # {} /\ ClosedTasks(task', p) = {}
  <1> DEFINE db == WakeExpiredSnoozes(task)
  <1>1. db \in Rows /\ SyncWith(pol, db, db)
    BY WakeRows DEF SyncAfter
  <1>2. \A p \in Policies, k \in Slots :
          /\ ~(db[p][k].status \in SnoozedStatuses /\ db[p][k].snooze = "due")
          /\ task[p][k].status \in ClosedStatuses => db[p][k] = task[p][k]
    BY WakeSettles, Kinds
  <1> HIDE DEF db
  <1>3. SettledIn(pol, task')
    BY <1>1, <1>2, OneSyncSettles
  <1>4. \A p \in Policies, k \in Slots :
          task[p][k].status \in ClosedStatuses => task'[p][k] = task[p][k]
    BY <1>1, <1>2, SyncKeepsClosed
  <1>5. \A u, p : <<u, p>> \in urgent' \ urgent =>
          u \in active /\ OpenTasks(task', p) # {} /\ ClosedTasks(task', p) = {}
    BY <1>1, SyncReminds
  <1> QED
    BY <1>3, <1>4, <1>5

\* What the commit of a renewal does: the same, and task (p, k) is renewed.
LEMMA RenewalEffect ==
    ASSUME NEW p \in Policies, NEW k \in Slots, NEW q \in Policies,
           NEW left \in -1..Horizon, NEW refs \in PolicyRefs,
           TypeOK, Renew(p, k, q, left, refs)
    PROVE  /\ SettledIn(policy', task')
           /\ \A o \in Policies, j \in Slots :
                 task[o][j].status \in ClosedStatuses => task'[o][j] = task[o][j]
           /\ task'[p][k].status = "RENEWED"
           /\ \A u, o : <<u, o>> \in urgent' \ urgent =>
                 u \in active /\ OpenTasks(task', o) # {} /\ ClosedTasks(task', o) = {}
  <1> DEFINE pol == [policy EXCEPT ![q] = NewPolicy(left, refs)]
             db == WakeExpiredSnoozes(task)
             row == Renewed(task[p][k], q)
             mem == [db EXCEPT ![p][k] = row]
  <1>1. /\ policy' = pol
        /\ SyncWith(pol, db, mem)
        /\ task[p][k].status \in OpenStatuses
    BY DEF Renew, CommitRenewal
  <1>2. pol \in PolicyTable /\ task \in Rows /\ db \in Rows
    BY PolicyPut, WakeRows DEF TypeOK, Rows
  <1>3. row \in TaskRow /\ row.status = "RENEWED"
    <2>1. task[p][k] \in TaskRow
      BY <1>2 DEF Rows
    <2> QED
      BY <2>1 DEF Renewed, TaskRow, OpenStatuses, ClosedStatuses
  <1>4. \A o \in Policies, j \in Slots :
          /\ ~(db[o][j].status \in SnoozedStatuses /\ db[o][j].snooze = "due")
          /\ task[o][j].status \in ClosedStatuses => db[o][j] = task[o][j]
          /\ db[o][j].status \in OpenStatuses <=> task[o][j].status \in OpenStatuses
    BY <1>2, WakeSettles, Kinds
  <1> HIDE DEF pol, db, row
  <1>5. mem \in Rows
    BY <1>2, <1>3 DEF Rows
  <1>6. \A o \in Policies, j \in Slots :
          mem[o][j] = IF o = p /\ j = k THEN row ELSE db[o][j]
    BY <1>2 DEF Rows
  <1> HIDE DEF mem
  <1>7. /\ row.status \in ClosedStatuses
        /\ row.status \notin SnoozedStatuses
    BY <1>3 DEF ClosedStatuses, SnoozedStatuses
  <1>8. \A o \in Policies, j \in Slots :
          /\ \/ mem[o][j] = db[o][j]
             \/ db[o][j].status \in OpenStatuses /\ mem[o][j].status \in ClosedStatuses
          /\ ~(mem[o][j].status \in SnoozedStatuses /\ mem[o][j].snooze = "due")
          /\ task[o][j].status \in ClosedStatuses => mem[o][j] = task[o][j]
    BY <1>1, <1>4, <1>6, <1>7, Kinds
  <1>9. SyncWith(pol, db, mem)
    BY <1>1 DEF mem
  <1>10. SettledIn(policy', task')
    BY <1>1, <1>2, <1>5, <1>8, <1>9, OneSyncSettles
  <1>11. \A o \in Policies, j \in Slots :
          task[o][j].status \in ClosedStatuses => task'[o][j] = task[o][j]
    BY <1>5, <1>8, <1>9, SyncKeepsClosed
  <1>12. task'[p][k].status = "RENEWED"
    BY <1>3, <1>5, <1>6, <1>7, <1>9, SyncKeepsClosed
  <1>13. \A u, o : <<u, o>> \in urgent' \ urgent =>
          u \in active /\ OpenTasks(task', o) # {} /\ ClosedTasks(task', o) = {}
    BY <1>5, <1>9, SyncReminds
  <1> QED
    BY <1>10, <1>11, <1>12, <1>13

-----------------------------------------------------------------------------
(* The theorems                                                            *)

\* SettledIn says of the tables what Settled says.
LEMMA SettledHere == SettledIn(policy, task) <=> Settled
  BY DEF SettledIn, Settled, SettledBut, SettledFor, Awake

\* A full sync leaves the tables settled, on its own or at the end of a request
\* that puts a policy in place, archives one or renews a task.  When a policy is
\* restored, everything but this policy is settled.
THEOREM EverySyncSettles == Spec => SyncSettles
  <1>1. ASSUME Inv
        PROVE  /\ ~Settled' =>
                     /\ ~Sync
                     /\ \A p \in Policies : ~ArchivePolicy(p)
                     /\ \A p \in Policies, left \in -1..Horizon, refs \in PolicyRefs :
                           /\ ~CreatePolicy(p, left, refs)
                           /\ ~UpdatePolicy(p, left, refs)
                           /\ \A q \in Policies, k \in Slots : ~Renew(q, k, p, left, refs)
               /\ \A p \in Policies : ~SettledBut({p})' => ~RestorePolicy(p)
    <2>1. TypeOK /\ task \in Rows /\ policy \in PolicyTable
      BY <1>1 DEF Inv, GoodRows, TypeOK, PolicyTable
    <2>2. ASSUME archived' = archived, SettledIn(policy', task')
          PROVE  Settled'
      BY <2>2 DEF SettledIn, Settled, SettledBut, SettledFor, Awake, RefsActive, FreeSlots,
                  OpenTasks
    <2>3. ASSUME Sync
          PROVE  Settled'
      BY <2>1, <2>2, <2>3, SyncAfterEffect DEF Sync
    <2>4. ASSUME NEW p \in Policies, NEW left \in -1..Horizon, NEW refs \in PolicyRefs,
                 CreatePolicy(p, left, refs) \/ UpdatePolicy(p, left, refs)
          PROVE  Settled'
      <3> DEFINE pol == [policy EXCEPT ![p] = NewPolicy(left, refs)]
      <3>1. policy' = pol /\ SyncAfter(pol, task) /\ archived' = archived
        BY <2>4 DEF CreatePolicy, UpdatePolicy
      <3>2. pol \in PolicyTable
        BY <2>1, PolicyPut
      <3> HIDE DEF pol
      <3> QED
        BY <2>1, <2>2, <3>1, <3>2, SyncAfterEffect
    <2>5. ASSUME NEW p \in Policies, NEW left \in -1..Horizon, NEW refs \in PolicyRefs,
                 NEW q \in Policies, NEW k \in Slots, Renew(q, k, p, left, refs)
          PROVE  Settled'
      <3>1. archived' = archived
        BY <2>5 DEF Renew, CommitRenewal
      <3> QED
        BY <2>1, <2>2, <2>5, <3>1, RenewalEffect
    <2>6. ASSUME NEW p \in Policies, ArchivePolicy(p)
          PROVE  Settled'
      <3>1. /\ SettledIn(policy, task') /\ archived' = archived
            /\ policy' = [policy EXCEPT ![p].state = "archived"]
        BY <2>1, <2>6, SyncAfterEffect DEF ArchivePolicy
      <3>2. \A q \in Policies : policy'[q].state = "live" => policy'[q] = policy[q]
        BY <2>1, <3>1 DEF PolicyTable, PolicyRow
      <3> QED
        BY <2>2, <3>1, <3>2 DEF SettledIn
    <2>7. ASSUME NEW p \in Policies, RestorePolicy(p)
          PROVE  SettledBut({p})'
      <3>1. /\ SettledIn(policy, task') /\ archived' = archived
            /\ policy' = [policy EXCEPT ![p].state = "live"]
        BY <2>1, <2>7, SyncAfterEffect DEF RestorePolicy
      <3>2. \A q \in Policies \ {p} : policy'[q] = policy[q]
        BY <2>1, <3>1 DEF PolicyTable
      <3> QED
        BY <3>1, <3>2
        DEF SettledIn, SettledBut, SettledFor, Awake, RefsActive, FreeSlots, OpenTasks
    <2> QED
      BY <2>3, <2>4, <2>5, <2>6, <2>7
  <1> QED
    BY <1>1, Invariance, PTL DEF SyncSettles

\* A sync of settled tables leaves every task as it is.
THEOREM SyncOfSettledChangesNothing == Spec => SyncIdempotent
  <1>1. ASSUME Inv
        PROVE  Settled /\ task' # task => ~Sync
    <2> SUFFICES ASSUME Settled, Sync
                 PROVE  task' = task
      OBVIOUS
    <2>1. task \in Rows
      BY <1>1 DEF Inv, GoodRows
    <2>2. WakeExpiredSnoozes(task) = task
      <3>1. \A p \in Policies, k \in Slots : WakeExpiredSnoozes(task)[p][k] = task[p][k]
        BY DEF Settled, SettledBut, Awake, WakeExpiredSnoozes
      <3>2. WakeExpiredSnoozes(task) \in Rows
        BY <2>1, WakeRows
      <3> QED
        BY <2>1, <3>1, <3>2 DEF Rows
    <2>3. SyncWith(policy, task, task)
      BY <2>2 DEF Sync, SyncAfter
    <2>4. ASSUME NEW p \in Withdrawn(policy, task), NEW k \in Slots
          PROVE  task[p][k].status \notin OpenStatuses
      BY DEF Settled, SettledBut, SettledFor, Withdrawn, Scanned, OpenTasks
    <2>5. Opened(policy, task, task) = {}
      <3> SUFFICES ASSUME NEW p \in Opened(policy, task, task)
                   PROVE  FALSE
        OBVIOUS
      <3>1. /\ p \in Policies /\ policy[p].state = "live" /\ RefsActive(policy[p].refs)
            /\ OpenTasks(task, p) = {}
            /\ InWindow(policy[p]) \/ policy[p].left < 0
        BY DEF Opened, Scanned, Withdrawn
      <3>2. FreeSlots(task, p) = Slots
        BY <2>1, OpenedPolicies DEF FreeSlots
      <3>3. policy[p].left \in Int
        BY <1>1, <3>1 DEF Inv, TypeOK, PolicyRow
      <3>4. policy[p].left <= WindowDays
        BY <3>1, <3>3, DaysAssumption DEF InWindow
      <3> QED
        BY <3>1, <3>2, <3>4 DEF Settled, SettledBut, SettledFor
    <2>6. \A p \in Policies, k \in Slots : task'[p][k] = task[p][k]
      BY <2>1, <2>3, <2>4, <2>5, SyncRows
    <2>7. task' \in Rows
      BY <1>1, NextInv DEF Next, Inv, GoodRows
    <2> QED
      BY <2>1, <2>6, <2>7 DEF Rows
  <1> QED
    BY <1>1, Invariance, PTL DEF SyncIdempotent

\* What a step does to the rows of decided tasks, and whom it reminds.
Effect ==
    /\ \A p \in Policies, k \in Slots :
          task[p][k].status \in ClosedStatuses =>
              /\ task'[p][k].status # AbsentStatus
              /\ task'[p][k].num = task[p][k].num
    /\ \A u, p : <<u, p>> \in urgent' \ urgent =>
          /\ u \in active
          /\ OpenTasks(task', p) # {}
          /\ ClosedTasks(task', p) = {}

\* Every step has that effect, action by action.
LEMMA StepEffect ==
    ASSUME Inv, [Next]_vars
    PROVE  Effect
  <1>1. TypeOK /\ task \in Rows /\ policy \in PolicyTable
    BY DEF Inv, GoodRows, TypeOK, PolicyTable
  <1>2. ASSUME NEW pol \in PolicyTable, SyncAfter(pol, task)
        PROVE  Effect
    BY <1>1, <1>2, SyncAfterEffect, Kinds DEF Effect
  <1>3. ASSUME NEW p \in Policies, NEW k \in Slots, NEW row \in TaskRow,
               task' = [task EXCEPT ![p][k] = row],
               task[p][k].status \in ClosedStatuses =>
                   row.num = task[p][k].num /\ row.status # AbsentStatus,
               urgent' = urgent
        PROVE  Effect
    BY <1>1, <1>3, Kinds DEF Effect, Rows
  <1>4. CASE Sync \/ SyncCachedAtBoot
    <2>1. CASE Sync
      BY <1>1, <1>2, <2>1 DEF Sync
    <2>2. CASE SyncCachedAtBoot
      <3>1. \A p \in Policies, k \in Slots :
              task[p][k].status \in ClosedStatuses => task'[p][k] = task[p][k]
        BY <1>1, <2>2, WakeSettles, Kinds DEF SyncCachedAtBoot
      <3>2. urgent' = urgent
        BY <2>2 DEF SyncCachedAtBoot
      <3> QED
        BY <3>1, <3>2, Kinds DEF Effect
    <2> QED
      BY <1>4, <2>1, <2>2
  <1>5. CASE TaskAction
    <2>1. ASSUME NEW p \in Policies, NEW k \in Slots, NEW mode \in PostponeModes,
                 Postpone(p, k, mode)
          PROVE  Effect
      <3> DEFINE row == Postponed(task[p][k], mode)
      <3>1. mode \in SnoozedStatuses /\ task[p][k] \in TaskRow
        BY <1>1, ModesAssumption DEF SnoozedStatuses, Rows
      <3>2. row \in TaskRow /\ row.status = mode /\ row.num = task[p][k].num
        BY <3>1 DEF Postponed, TaskRow, OpenStatuses
      <3>3. task' = [task EXCEPT ![p][k] = row] /\ urgent' = urgent
        BY <2>1 DEF Postpone
      <3> HIDE DEF row
      <3> QED
        BY <1>3, <3>1, <3>2, <3>3, Kinds
    <2>2. ASSUME NEW p \in Policies, NEW k \in Slots, Decline(p, k)
          PROVE  Effect
      <3> DEFINE row == Declined(task[p][k])
      <3>1. task[p][k] \in TaskRow
        BY <1>1 DEF Rows
      <3>2. row \in TaskRow /\ row.status = "CLIENT_DECLINED" /\ row.num = task[p][k].num
        BY <3>1 DEF Declined, TaskRow, ClosedStatuses
      <3>3. task' = [task EXCEPT ![p][k] = row] /\ urgent' = urgent
        BY <2>2 DEF Decline
      <3> HIDE DEF row
      <3> QED
        BY <1>3, <3>2, <3>3
    <2>3. ASSUME NEW p \in Policies, NEW k \in Slots, NEW q \in Policies,
                 NEW left \in -1..Horizon, NEW refs \in PolicyRefs, Renew(p, k, q, left, refs)
          PROVE  Effect
      BY <1>1, <2>3, RenewalEffect, Kinds DEF Effect
    <2> QED
      BY <1>5, <2>1, <2>2, <2>3 DEF TaskAction
  <1>6. CASE PolicyAction
    <2>1. ASSUME NEW p \in Policies, AddTask(p), urgent' = urgent
          PROVE  Effect
      <3>1. PICK n : task' = [task EXCEPT ![p][FirstFree(task, p)] = NewTask(n)]
        BY <2>1 DEF AddTask
      <3>2. task[p][FirstFree(task, p)].status = AbsentStatus
        BY <2>1, FirstFreeSlot DEF AddTask
      <3>3. \A q \in Policies, j \in Slots :
              task[q][j].status \in ClosedStatuses => task'[q][j] = task[q][j]
        BY <1>1, <3>1, <3>2, Kinds DEF Rows
      <3> QED
        BY <2>1, <3>3, Kinds DEF Effect
    <2>2. ASSUME NEW p \in Policies, CreateManualTask(p)
          PROVE  Effect
      BY <2>1, <2>2 DEF CreateManualTask
    <2>3. ASSUME NEW p \in Policies, ArchivePolicy(p) \/ RestorePolicy(p)
          PROVE  Effect
      BY <1>1, <1>2, <2>3 DEF ArchivePolicy, RestorePolicy
    <2>4. ASSUME NEW p \in Policies, NEW left \in -1..Horizon, NEW refs \in PolicyRefs,
                 CreatePolicy(p, left, refs) \/ UpdatePolicy(p, left, refs)
          PROVE  Effect
      <3> DEFINE pol == [policy EXCEPT ![p] = NewPolicy(left, refs)]
      <3>1. SyncAfter(pol, task)
        BY <2>4 DEF CreatePolicy, UpdatePolicy
      <3>2. pol \in PolicyTable
        BY <1>1, PolicyPut
      <3> HIDE DEF pol
      <3> QED
        BY <1>2, <3>1, <3>2
    <2>5. ASSUME NEW p \in Policies, NEW left \in -1..Horizon, NEW refs \in PolicyRefs,
                 CreateManualTaskAndPolicy(p, left, refs)
          PROVE  Effect
      BY <2>1, <2>5 DEF CreateManualTaskAndPolicy
    <2> QED
      BY <1>6, <2>2, <2>3, <2>4, <2>5 DEF PolicyAction
  <1>7. CASE Surroundings
    <2>1. ASSUME task' = task, urgent' \subseteq urgent
          PROVE  Effect
      BY <2>1, Kinds DEF Effect
    <2>2. ASSUME NEW p \in Policies, NEW k \in Slots, SnoozeEnds(p, k)
          PROVE  Effect
      <3> DEFINE row == [task[p][k] EXCEPT !.snooze = "due"]
      <3>1. task[p][k] \in TaskRow
        BY <1>1 DEF Rows
      <3>2. row \in TaskRow /\ row.num = task[p][k].num /\ row.status = task[p][k].status
        BY <3>1 DEF TaskRow
      <3>3. task' = [task EXCEPT ![p][k] = row] /\ urgent' = urgent
        BY <1>1, <2>2 DEF SnoozeEnds, Rows
      <3> HIDE DEF row
      <3> QED
        BY <1>3, <3>2, <3>3, Kinds
    <2>3. ASSUME NEW r \in Refs, ArchiveRef(r) \/ RestoreRef(r)
          PROVE  Effect
      BY <2>1, <2>3 DEF ArchiveRef, RestoreRef
    <2>4. ASSUME NEW u \in Users, SetActive(u)
          PROVE  Effect
      BY <2>1, <2>4 DEF SetActive
    <2>5. ASSUME NewDay
          PROVE  Effect
      BY <2>1, <2>5 DEF NewDay
    <2> QED
      BY <1>7, <2>2, <2>3, <2>4, <2>5 DEF Surroundings
  <1>8. CASE UNCHANGED vars
    BY <1>8, Kinds DEF Effect, vars
  <1> QED
    BY <1>4, <1>5, <1>6, <1>7, <1>8 DEF Next

\* A decided task is never deleted and keeps its number, in every step.
THEOREM DecisionsAreKept == Spec => DecisionsKept
  <1>1. ASSUME Inv, [Next]_vars
        PROVE  \A p \in Policies, k \in Slots :
                  task[p][k].status \in ClosedStatuses =>
                      /\ task'[p][k].status # AbsentStatus
                      /\ task'[p][k].num = task[p][k].num
    BY <1>1, StepEffect DEF Effect
  <1> QED
    BY <1>1, Invariance, PTL DEF DecisionsKept, Spec

\* No step reminds anybody of a policy whose task is decided.
THEOREM RemindersStopOnceDecided == Spec => NoReminderOnceDecided
  <1>1. ASSUME Inv, [Next]_vars
        PROVE  \A u \in Users, p \in Policies :
                  <<u, p>> \in urgent' \ urgent =>
                      /\ u \in active
                      /\ OpenTasks(task', p) # {}
                      /\ ClosedTasks(task', p) = {}
    BY <1>1, StepEffect DEF Effect
  <1> QED
    BY <1>1, Invariance, PTL DEF NoReminderOnceDecided, Spec

-----------------------------------------------------------------------------
(* RenewalTasks implements RenewalPromise: every request, with the sync it *)
(* ends with, is at most one act of a user on one policy and background    *)
(* acts on the others.                                                     *)

\* The refinement mapping, for any table of tasks.
CurrentIn(rows, p) ==
    IF OpenTasks(rows, p) = {} THEN Nobody
    ELSE CHOOSE k \in OpenTasks(rows, p) : TRUE

-----------------------------------------------------------------------------
(* The mapping                                                             *)

\* The open task of a policy, if it has one, is its current task.
LEMMA CurrentTask ==
    ASSUME NEW rows, NEW p \in Policies, OneOpenIn(rows)
    PROVE  /\ CurrentIn(rows, p) = Nobody <=> OpenTasks(rows, p) = {}
           /\ CurrentIn(rows, p) # Nobody => OpenTasks(rows, p) = {CurrentIn(rows, p)}
           /\ CurrentIn(rows, p) \in Slots \cup {Nobody}
           /\ \A k \in OpenTasks(rows, p) : CurrentIn(rows, p) = k
           /\ CurrentIn(rows, p) \notin ClosedTasks(rows, p)
  <1>1. CASE OpenTasks(rows, p) = {}
    BY <1>1, SlotsAssumption DEF CurrentIn, ClosedTasks, Nobody
  <1>2. CASE OpenTasks(rows, p) # {}
    <2> DEFINE k == CurrentIn(rows, p)
    <2>1. k \in OpenTasks(rows, p)
      BY <1>2 DEF CurrentIn
    <2> HIDE DEF k
    <2>2. k \in Slots /\ k # Nobody /\ k \notin ClosedTasks(rows, p)
      BY <2>1, SlotsAssumption, Kinds DEF OpenTasks, ClosedTasks, Nobody
    <2>3. \A j \in OpenTasks(rows, p) : j = k
      BY <2>1 DEF OneOpenIn, OpenTasks
    <2>4. OpenTasks(rows, p) = {k}
      BY <2>1, <2>3
    <2> QED
      BY <1>2, <2>2, <2>3, <2>4 DEF k
  <1> QED
    BY <1>1, <1>2

\* The acts of RenewalPromise between two tables of tasks.
SameIn(rows, new, p) ==
    /\ OpenTasks(new, p) = OpenTasks(rows, p)
    /\ ClosedTasks(new, p) = ClosedTasks(rows, p)

StartedIn(rows, new, p) ==
    /\ OpenTasks(rows, p) = {}
    /\ \E k \in Slots \ ClosedTasks(rows, p) : OpenTasks(new, p) = {k}
    /\ ClosedTasks(new, p) = ClosedTasks(rows, p)

WithdrawnIn(rows, new, p) ==
    /\ OpenTasks(new, p) = {}
    /\ ClosedTasks(new, p) = ClosedTasks(rows, p)

DecidedIn(rows, new, p) ==
    \E k \in OpenTasks(rows, p) :
        /\ OpenTasks(new, p) = {}
        /\ ClosedTasks(new, p) = ClosedTasks(rows, p) \cup {k}

TakenBackIn(rows, new, p) ==
    \E k \in ClosedTasks(rows, p) :
        /\ OpenTasks(rows, p) = {}
        /\ OpenTasks(new, p) = {k}
        /\ ClosedTasks(new, p) = ClosedTasks(rows, p) \ {k}

BackgroundIn(rows, new, p) ==
    \/ SameIn(rows, new, p)
    \/ StartedIn(rows, new, p) /\ ClosedTasks(rows, p) = {}
    \/ WithdrawnIn(rows, new, p)

UserActIn(rows, new, p) ==
    \/ StartedIn(rows, new, p)
    \/ DecidedIn(rows, new, p)
    \/ TakenBackIn(rows, new, p)

StepIn(rows, new) ==
    \/ \A p \in Policies : BackgroundIn(rows, new, p)
    \/ \E p \in Policies :
          UserActIn(rows, new, p) /\ \A q \in Policies \ {p} : BackgroundIn(rows, new, q)

\* The acts on one policy are the acts of RenewalPromise.
LEMMA MappedActs ==
    ASSUME OneOpenIn(task), OneOpenIn(task'), NEW p \in Policies
    PROVE  /\ BackgroundIn(task, task', p) => Promise!Background(p)
           /\ UserActIn(task, task', p) => Promise!UserAct(p)
  <1> DEFINE cur == CurrentIn(task, p)
             new == CurrentIn(task', p)
             dec == ClosedTasks(task, p)
             dec2 == ClosedTasks(task', p)
  <1>1. /\ Promise!Keeps(p) <=> new = cur /\ dec2 = dec
        /\ Promise!Starts(p) <=> cur = Nobody /\ new \in Slots \ dec /\ dec2 = dec
        /\ Promise!Decides(p) <=> cur # Nobody /\ new = Nobody /\ dec2 = dec \cup {cur}
        /\ Promise!TakesBack(p) <=> cur = Nobody /\ new \in dec /\ dec2 = dec \ {new}
        /\ Promise!Withdraws(p) <=> cur # Nobody /\ new = Nobody /\ dec2 = dec
    BY DEF Promise!Keeps, Promise!Starts, Promise!Decides, Promise!TakesBack,
           Promise!Withdraws, CurrentIn, ClosedTasks, OpenTasks
  <1>2. /\ cur = Nobody <=> OpenTasks(task, p) = {}
        /\ cur # Nobody => OpenTasks(task, p) = {cur}
        /\ new = Nobody <=> OpenTasks(task', p) = {}
        /\ new # Nobody => OpenTasks(task', p) = {new}
    BY CurrentTask
  <1> HIDE DEF cur, new, dec, dec2
  <1>3. SameIn(task, task', p) => Promise!Keeps(p)
    BY <1>1, <1>2 DEF SameIn, dec, dec2
  <1>4. StartedIn(task, task', p) => Promise!Starts(p)
    BY <1>1, <1>2 DEF StartedIn, dec, dec2
  <1>5. WithdrawnIn(task, task', p) => Promise!Withdraws(p) \/ Promise!Keeps(p)
    BY <1>1, <1>2 DEF WithdrawnIn, dec, dec2
  <1>6. DecidedIn(task, task', p) => Promise!Decides(p)
    BY <1>1, <1>2 DEF DecidedIn, dec, dec2
  <1>7. TakenBackIn(task, task', p) => Promise!TakesBack(p)
    BY <1>1, <1>2 DEF TakenBackIn, dec, dec2
  <1>8. BackgroundIn(task, task', p) => Promise!Background(p)
    BY <1>3, <1>4, <1>5 DEF BackgroundIn, Promise!Background, dec,
       ClosedTasks
  <1>9. UserActIn(task, task', p) => Promise!UserAct(p)
    BY <1>4, <1>6, <1>7 DEF UserActIn, Promise!UserAct
  <1> QED
    BY <1>8, <1>9

\* Such a step of the tables is a step of RenewalPromise.
LEMMA MappedStep ==
    ASSUME OneOpenIn(task), OneOpenIn(task'), StepIn(task, task')
    PROVE  Promise!Next
  <1>1. /\ [p \in Policies |-> CurrentIn(task', p)] \in [Policies -> Slots \cup {Nobody}]
        /\ [p \in Policies |-> ClosedTasks(task', p)] \in [Policies -> SUBSET Slots]
    <2>1. \A p \in Policies : CurrentIn(task', p) \in Slots \cup {Nobody}
      BY CurrentTask
    <2>2. \A p \in Policies : ClosedTasks(task', p) \subseteq Slots
      BY DEF ClosedTasks
    <2> QED
      BY <2>1, <2>2
  <1>2. \/ \A p \in Policies : Promise!Background(p)
        \/ \E p \in Policies :
              Promise!UserAct(p) /\ \A q \in Policies \ {p} : Promise!Background(q)
    BY MappedActs DEF StepIn
  <1> QED
    BY <1>1, <1>2 DEF Promise!Next, CurrentIn, ClosedTasks, OpenTasks

-----------------------------------------------------------------------------
(* The steps                                                               *)

\* A sync that starts with the table mem keeps, starts or withdraws the task of
\* each policy, and starts none where one is decided.
LEMMA SyncBackground ==
    ASSUME NEW pol, NEW db, NEW mem \in Rows, SyncWith(pol, db, mem),
           NEW p \in Policies
    PROVE  /\ BackgroundIn(mem, task', p)
           /\ OpenTasks(mem, p) = {} /\ ClosedTasks(mem, p) # {} => SameIn(mem, task', p)
  <1>1. CASE p \in Withdrawn(pol, db)
    <2>1. p \notin Opened(pol, db, mem)
      BY <1>1 DEF Opened
    <2>2. \A k \in Slots :
            IF mem[p][k].status \in OpenStatuses THEN task'[p][k] = NoTask
                                                ELSE task'[p][k] = mem[p][k]
      BY <1>1, <2>1, SyncRows
    <2>3. OpenTasks(task', p) = {}
      BY <2>2, Kinds DEF OpenTasks, NoTask
    <2>4. ClosedTasks(task', p) = ClosedTasks(mem, p)
      BY <2>2, Kinds DEF ClosedTasks, NoTask
    <2> QED
      BY <2>3, <2>4 DEF BackgroundIn, WithdrawnIn, SameIn
  <1>2. CASE p \in Opened(pol, db, mem)
    <2> DEFINE k == FirstFree(mem, p)
    <2>1. /\ \A j \in Slots : mem[p][j].status = AbsentStatus
          /\ k \in Slots
          /\ p \notin Withdrawn(pol, db)
      BY <1>2, OpenedPolicies, FirstFreeSlot
    <2>2. /\ task'[p][k].status = "IN_PROGRESS"
          /\ \A j \in Slots : j # k => task'[p][j] = mem[p][j]
      BY <1>2, <2>1, SyncRows
    <2> HIDE DEF k
    <2>3. OpenTasks(mem, p) = {} /\ ClosedTasks(mem, p) = {}
      BY <2>1, Kinds DEF OpenTasks, ClosedTasks
    <2>4. OpenTasks(task', p) = {k}
      BY <2>1, <2>2, Kinds DEF OpenTasks, OpenStatuses
    <2>5. ClosedTasks(task', p) = {}
      BY <2>1, <2>2, Kinds DEF ClosedTasks, ClosedStatuses
    <2> QED
      BY <2>1, <2>3, <2>4, <2>5 DEF BackgroundIn, StartedIn
  <1>3. CASE p \notin Withdrawn(pol, db) /\ p \notin Opened(pol, db, mem)
    <2>1. \A k \in Slots : task'[p][k] = mem[p][k]
      BY <1>3, SyncRows
    <2> QED
      BY <2>1 DEF BackgroundIn, SameIn, OpenTasks, ClosedTasks
  <1> QED
    BY <1>1, <1>2, <1>3

\* Waking changes neither set of tasks.
LEMMA WakeSame ==
    ASSUME NEW rows \in Rows, NEW p \in Policies
    PROVE  SameIn(rows, WakeExpiredSnoozes(rows), p)
  BY WakeSettles DEF SameIn, OpenTasks, ClosedTasks

\* Requests that end with a sync and touch no task themselves.
LEMMA SyncAfterStep ==
    ASSUME NEW pol, task \in Rows, SyncAfter(pol, task)
    PROVE  StepIn(task, task')
  <1> DEFINE db == WakeExpiredSnoozes(task)
  <1>1. db \in Rows /\ SyncWith(pol, db, db)
    BY WakeRows DEF SyncAfter
  <1>2. \A p \in Policies : SameIn(task, db, p)
    BY WakeSame
  <1> HIDE DEF db
  <1>3. \A p \in Policies : BackgroundIn(db, task', p)
    BY <1>1, SyncBackground
  <1> QED
    BY <1>2, <1>3 DEF StepIn, BackgroundIn, SameIn, StartedIn, WithdrawnIn

\* Writing one row is an act on its policy alone.
LEMMA WriteStep ==
    ASSUME task \in Rows, NEW p \in Policies, NEW k \in Slots, NEW row \in TaskRow,
           task' = [task EXCEPT ![p][k] = row],
           UserActIn(task, task', p) \/ SameIn(task, task', p)
    PROVE  StepIn(task, task')
  <1>1. \A q \in Policies \ {p} : SameIn(task, task', q)
    BY DEF Rows, SameIn, OpenTasks, ClosedTasks
  <1> QED
    BY <1>1 DEF StepIn, BackgroundIn

\* The sets of tasks after a row is written.
LEMMA WrittenTasks ==
    ASSUME task \in Rows, NEW p \in Policies, NEW k \in Slots, NEW row \in TaskRow,
           task' = [task EXCEPT ![p][k] = row]
    PROVE  /\ OpenTasks(task', p) = IF row.status \in OpenStatuses
                                      THEN OpenTasks(task, p) \cup {k}
                                      ELSE OpenTasks(task, p) \ {k}
           /\ ClosedTasks(task', p) = IF row.status \in ClosedStatuses
                                        THEN ClosedTasks(task, p) \cup {k}
                                        ELSE ClosedTasks(task, p) \ {k}
  <1>1. \A j \in Slots : task'[p][j] = IF j = k THEN row ELSE task[p][j]
    BY DEF Rows
  <1> QED
    BY <1>1 DEF OpenTasks, ClosedTasks

\* Postponing and declining.
LEMMA DecideStep ==
    ASSUME Inv, NEW p \in Policies, NEW k \in Slots, NEW row \in TaskRow,
           task[p][k].status \in OpenStatuses \cup ClosedStatuses,
           ReopenAllowed(p, k, task[p][k].status),
           row.status \in OpenStatuses \cup ClosedStatuses,
           task' = [task EXCEPT ![p][k] = row]
    PROVE  StepIn(task, task')
  <1>1. task \in Rows /\ OneOpenIn(task)
    BY DEF Inv, GoodRows
  <1>2. /\ OpenTasks(task', p) = IF row.status \in OpenStatuses
                                   THEN OpenTasks(task, p) \cup {k}
                                   ELSE OpenTasks(task, p) \ {k}
        /\ ClosedTasks(task', p) = IF row.status \in ClosedStatuses
                                     THEN ClosedTasks(task, p) \cup {k}
                                     ELSE ClosedTasks(task, p) \ {k}
    BY <1>1, WrittenTasks
  <1>3. CASE task[p][k].status \in OpenStatuses
    <2>1. /\ OpenTasks(task, p) = {k}
          /\ k \notin ClosedTasks(task, p)
      BY <1>1, <1>3, Kinds DEF OneOpenIn, OpenTasks, ClosedTasks
    <2>2. CASE row.status \in OpenStatuses
      <3>1. SameIn(task, task', p)
        BY <1>2, <2>1, <2>2, Kinds DEF SameIn
      <3> QED
        BY <1>1, <3>1, WriteStep
    <2>3. CASE row.status \in ClosedStatuses
      <3>1. DecidedIn(task, task', p)
        BY <1>2, <2>1, <2>3, Kinds DEF DecidedIn
      <3> QED
        BY <1>1, <3>1, WriteStep DEF UserActIn
    <2> QED
      BY <2>2, <2>3
  <1>4. CASE task[p][k].status \in ClosedStatuses
    <2>1. /\ OpenTasks(task, p) = {}
          /\ k \in ClosedTasks(task, p)
      BY <1>4, Kinds DEF ReopenAllowed, OpenTasks, ClosedTasks
    <2>2. CASE row.status \in OpenStatuses
      <3>1. TakenBackIn(task, task', p)
        BY <1>2, <2>1, <2>2, Kinds DEF TakenBackIn
      <3> QED
        BY <1>1, <3>1, WriteStep DEF UserActIn
    <2>3. CASE row.status \in ClosedStatuses
      <3>1. SameIn(task, task', p)
        BY <1>2, <2>1, <2>3, Kinds DEF SameIn
      <3> QED
        BY <1>1, <3>1, WriteStep
    <2> QED
      BY <2>2, <2>3
  <1> QED
    BY <1>3, <1>4

\* A task added by hand.
LEMMA AddTaskStep ==
    ASSUME Inv, NEW p \in Policies, AddTask(p), OpenTasks(task, p) = {}
    PROVE  StepIn(task, task')
  <1> DEFINE k == FirstFree(task, p)
  <1>1. task \in Rows
    BY DEF Inv, GoodRows
  <1>2. k \in Slots /\ task[p][k].status = AbsentStatus
    BY FirstFreeSlot DEF AddTask
  <1>3. PICK base \in NumbersUsed(task) \cup {0} :
          task' = [task EXCEPT ![p][k] = NewTask(base + 1)]
    BY DEF AddTask
  <1> HIDE DEF k
  <1>4. NewTask(base + 1) \in TaskRow /\ NewTask(base + 1).status = "IN_PROGRESS"
    <2>1. base \in Nat
      BY <1>1 DEF NumbersUsed, NumbersLeft, Rows, TaskRow
    <2> QED
      BY <2>1, NewRows
  <1>5. /\ OpenTasks(task', p) = {k}
        /\ ClosedTasks(task', p) = ClosedTasks(task, p) \ {k}
    BY <1>1, <1>2, <1>3, <1>4, WrittenTasks DEF OpenStatuses, ClosedStatuses
  <1>6. k \notin ClosedTasks(task, p)
    BY <1>2, Kinds DEF ClosedTasks
  <1>7. StartedIn(task, task', p)
    BY <1>2, <1>5, <1>6 DEF StartedIn
  <1> QED
    BY <1>1, <1>2, <1>3, <1>4, <1>7, WriteStep DEF UserActIn

\* Renewing decides one task; the sync of the same request does the rest.
LEMMA RenewStep ==
    ASSUME Inv, NEW p \in Policies, NEW k \in Slots, NEW q \in Policies,
           NEW left \in -1..Horizon, NEW refs \in PolicyRefs, Renew(p, k, q, left, refs)
    PROVE  StepIn(task, task')
  <1> DEFINE pol == [policy EXCEPT ![q] = NewPolicy(left, refs)]
             db == WakeExpiredSnoozes(task)
             row == Renewed(task[p][k], q)
             mem == [db EXCEPT ![p][k] = row]
  <1>1. task \in Rows /\ OneOpenIn(task) /\ db \in Rows
    BY WakeRows DEF Inv, GoodRows
  <1>2. SyncWith(pol, db, mem) /\ task[p][k].status \in OpenStatuses
    BY DEF Renew, CommitRenewal
  <1>3. row \in TaskRow /\ row.status = "RENEWED"
    <2>1. task[p][k] \in TaskRow
      BY <1>1 DEF Rows
    <2> QED
      BY <2>1 DEF Renewed, TaskRow, OpenStatuses, ClosedStatuses
  <1>4. \A o \in Policies : SameIn(task, db, o)
    BY <1>1, WakeSame
  <1> HIDE DEF pol, db, row
  <1>5. mem \in Rows
    BY <1>1, <1>3 DEF Rows
  <1>6. \A o \in Policies, j \in Slots :
          mem[o][j] = IF o = p /\ j = k THEN row ELSE db[o][j]
    BY <1>1 DEF Rows
  <1> HIDE DEF mem
  <1>7. row.status \notin OpenStatuses /\ row.status \in ClosedStatuses
    BY <1>3 DEF OpenStatuses, SnoozedStatuses, ClosedStatuses
  <1>8. ASSUME NEW o \in Policies \ {p}
        PROVE  BackgroundIn(task, task', o)
    <2>1. SameIn(db, mem, o)
      BY <1>6 DEF SameIn, OpenTasks, ClosedTasks
    <2>2. BackgroundIn(mem, task', o)
      BY <1>2, <1>5, SyncBackground
    <2> QED
      BY <1>4, <2>1, <2>2 DEF BackgroundIn, SameIn, StartedIn, WithdrawnIn
  <1>9. DecidedIn(task, task', p)
    <2>1. OpenTasks(task, p) = {k}
      BY <1>1, <1>2 DEF OneOpenIn, OpenTasks
    <2>2. OpenTasks(db, p) = {k} /\ ClosedTasks(db, p) = ClosedTasks(task, p)
      BY <1>4, <2>1 DEF SameIn
    <2>3. OpenTasks(mem, p) = {}
      BY <1>6, <1>7, <2>2 DEF OpenTasks
    <2>4. ClosedTasks(mem, p) = ClosedTasks(task, p) \cup {k}
      BY <1>6, <1>7, <2>2 DEF ClosedTasks
    <2>5. SameIn(mem, task', p)
      BY <1>2, <1>5, <2>3, <2>4, SyncBackground
    <2> QED
      BY <2>1, <2>3, <2>4, <2>5 DEF DecidedIn, SameIn
  <1> QED
    BY <1>8, <1>9 DEF StepIn, UserActIn

\* Steps that leave both sets of tasks of every policy alone.
LEMMA IdleStep ==
    ASSUME \A p \in Policies : SameIn(task, task', p)
    PROVE  StepIn(task, task')
  BY DEF StepIn, BackgroundIn

\* Every step of RenewalTasks is a step of RenewalPromise on the mapped tables.
LEMMA EveryStep ==
    ASSUME Inv, [Next]_vars
    PROVE  StepIn(task, task')
  <1>1. task \in Rows /\ TypeOK
    BY DEF Inv, GoodRows
  <1>2. CASE Sync
    BY <1>1, <1>2, SyncAfterStep DEF Sync
  <1>3. CASE SyncCachedAtBoot
    BY <1>1, <1>3, WakeSame, IdleStep DEF SyncCachedAtBoot
  <1>4. CASE TaskAction
    <2>1. ASSUME NEW p \in Policies, NEW k \in Slots, NEW mode \in PostponeModes,
                 Postpone(p, k, mode)
          PROVE  StepIn(task, task')
      <3> DEFINE row == Postponed(task[p][k], mode)
      <3>1. mode \in OpenStatuses /\ task[p][k] \in TaskRow
        BY <1>1, ModesAssumption DEF SnoozedStatuses, OpenStatuses, Rows
      <3>2. row \in TaskRow /\ row.status = mode
        BY <3>1 DEF Postponed, TaskRow
      <3>3. /\ task[p][k].status \in OpenStatuses \cup ClosedStatuses
            /\ ReopenAllowed(p, k, task[p][k].status)
            /\ task' = [task EXCEPT ![p][k] = row]
        BY <2>1 DEF Postpone
      <3> HIDE DEF row
      <3> QED
        BY <3>1, <3>2, <3>3, DecideStep
    <2>2. ASSUME NEW p \in Policies, NEW k \in Slots, Decline(p, k)
          PROVE  StepIn(task, task')
      <3> DEFINE row == Declined(task[p][k])
      <3>1. task[p][k] \in TaskRow
        BY <1>1 DEF Rows
      <3>2. row \in TaskRow /\ row.status \in ClosedStatuses
        BY <3>1 DEF Declined, TaskRow, ClosedStatuses
      <3>3. /\ task[p][k].status \in OpenStatuses \cup ClosedStatuses
            /\ ReopenAllowed(p, k, task[p][k].status)
            /\ task' = [task EXCEPT ![p][k] = row]
        BY <2>2 DEF Decline
      <3> HIDE DEF row
      <3> QED
        BY <3>2, <3>3, DecideStep
    <2> QED
      BY <1>4, <2>1, <2>2, RenewStep DEF TaskAction
  <1>5. CASE PolicyAction
    <2>1. ASSUME NEW p \in Policies, CreateManualTask(p)
          PROVE  StepIn(task, task')
      BY <2>1, AddTaskStep DEF CreateManualTask
    <2>2. ASSUME NEW p \in Policies, ArchivePolicy(p) \/ RestorePolicy(p)
          PROVE  StepIn(task, task')
      BY <1>1, <2>2, SyncAfterStep DEF ArchivePolicy, RestorePolicy
    <2>3. ASSUME NEW p \in Policies, NEW left \in -1..Horizon, NEW refs \in PolicyRefs,
                 CreatePolicy(p, left, refs) \/ UpdatePolicy(p, left, refs)
          PROVE  StepIn(task, task')
      BY <1>1, <2>3, SyncAfterStep DEF CreatePolicy, UpdatePolicy
    <2>4. ASSUME NEW p \in Policies, NEW left \in -1..Horizon, NEW refs \in PolicyRefs,
                 CreateManualTaskAndPolicy(p, left, refs)
          PROVE  StepIn(task, task')
      <3>1. policy[p].state = "absent" /\ AddTask(p)
        BY <2>4 DEF CreateManualTaskAndPolicy, CanCreatePolicy
      <3>2. OpenTasks(task, p) = {}
        BY <3>1, Kinds DEF Inv, GoodRows, GoodRow, SoundRow, OpenTasks
      <3> QED
        BY <3>1, <3>2, AddTaskStep
    <2> QED
      BY <1>5, <2>1, <2>2, <2>3, <2>4 DEF PolicyAction
  <1>6. CASE Surroundings
    <2>1. ASSUME task' = task
          PROVE  StepIn(task, task')
      BY <2>1, IdleStep DEF SameIn
    <2>2. ASSUME NEW p \in Policies, NEW k \in Slots, SnoozeEnds(p, k)
          PROVE  StepIn(task, task')
      <3>1. \A q \in Policies, j \in Slots : task'[q][j].status = task[q][j].status
        <4>1. \A q \in Policies, j \in Slots : task[q][j] \in TaskRow
          BY <1>1 DEF Rows
        <4>2. [task[p][k] EXCEPT !.snooze = "due"].status = task[p][k].status
          BY <4>1 DEF TaskRow
        <4>3. task' = [task EXCEPT ![p][k] = [task[p][k] EXCEPT !.snooze = "due"]]
          BY <1>1, <2>2 DEF SnoozeEnds, Rows
        <4> QED
          BY <1>1, <4>2, <4>3 DEF Rows
      <3> QED
        BY <3>1, IdleStep DEF SameIn, OpenTasks, ClosedTasks
    <2> QED
      BY <1>6, <2>1, <2>2
         DEF Surroundings, ArchiveRef, RestoreRef, SetActive, NewDay
  <1>7. CASE UNCHANGED vars
    BY <1>7, IdleStep DEF vars, SameIn
  <1> QED
    BY <1>2, <1>3, <1>4, <1>5, <1>6, <1>7 DEF Next

-----------------------------------------------------------------------------
(* The theorem                                                             *)

\* The renewal engine keeps its promise: seen as the current and the decided
\* tasks of each policy, every behaviour of it is one of RenewalPromise.
THEOREM EngineImplementsPromise == Spec => ImplementsPromise
  <1>1. Init => Promise!Init
    <2> SUFFICES ASSUME Init
                 PROVE  Promise!Init
      OBVIOUS
    <2>1. \A p \in Policies : OpenTasks(task, p) = {} /\ ClosedTasks(task, p) = {}
      BY Kinds DEF Init, OpenTasks, ClosedTasks, NoTask
    <2> QED
      BY <2>1 DEF Promise!Init
  <1>2. Inv /\ Inv' /\ [Next]_vars => [Promise!Next]_Promise!vars
    <2> SUFFICES ASSUME Inv, Inv', [Next]_vars
                 PROVE  Promise!Next
      OBVIOUS
    <2>1. OneOpenIn(task) /\ OneOpenIn(task')
      BY DEF Inv, GoodRows, OneOpenIn
    <2> QED
      BY <2>1, EveryStep, MappedStep
  <1> QED
    BY <1>1, <1>2, Invariance, PTL DEF Spec, ImplementsPromise, Promise!Spec

=============================================================================
