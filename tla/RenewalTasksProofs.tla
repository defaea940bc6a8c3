-------------------------- MODULE RenewalTasksProofs --------------------------
(***************************************************************************)
(* Proofs about RenewalTasks, for every number of policies, users, refs    *)
(* and tasks, and for every length of the window.                          *)
(*                                                                         *)
(* The invariant is stated about any table `rows' of tasks beside any      *)
(* table `pol' of policies: a request goes through tables the database     *)
(* never holds (woken, in the session's memory, after the loop), and each  *)
(* of them is shown to be good before the last one is committed.           *)
(***************************************************************************)
EXTENDS RenewalTasks, FiniteSetTheorems, TLAPS

Rows == [Policies -> [Slots -> TaskRow]]
PolicyTable == [Policies -> PolicyRow]

\* What a row of policy p has to be, beside the policies pol, whether or not
\* requests overlap.
SoundRow(pol, p, row) ==
    /\ row.status = "RENEWED" => row.link # NoPolicy
    /\ row.link # NoPolicy => row.link # p /\ pol[row.link].state # "absent"
    /\ row.status = AbsentStatus => row = NoTask
    /\ row.status # AbsentStatus => pol[p].state # "absent"

\* What it is besides when they do not.
FittingRow(row) ==
    /\ row.snooze # "none" <=> row.status \in SnoozedStatuses
    /\ row.reason <=> row.status = "CLIENT_DECLINED"

GoodRow(pol, p, row) == FittingRow(row) /\ SoundRow(pol, p, row)

OneOpenIn(rows) ==
    \A p \in Policies : \A j, k \in Slots :
        rows[p][j].status \in OpenStatuses /\ rows[p][k].status \in OpenStatuses
        => j = k

NumbersDiffer(rows) ==
    \A p, q \in Policies : \A j, k \in Slots :
        /\ rows[p][j].status # AbsentStatus
        /\ rows[q][k].status # AbsentStatus
        /\ rows[p][j].num = rows[q][k].num
        => p = q /\ j = k

LinksDiffer(rows) ==
    \A p, q \in Policies : \A j, k \in Slots :
        /\ rows[p][j].link # NoPolicy
        /\ rows[p][j].link = rows[q][k].link
        => p = q /\ j = k

SoundRows(pol, rows) ==
    /\ rows \in Rows
    /\ \A p \in Policies, k \in Slots : SoundRow(pol, p, rows[p][k])
    /\ NumbersDiffer(rows)
    /\ LinksDiffer(rows)

GoodRows(pol, rows) ==
    /\ rows \in Rows
    /\ \A p \in Policies, k \in Slots : GoodRow(pol, p, rows[p][k])
    /\ OneOpenIn(rows)
    /\ NumbersDiffer(rows)
    /\ LinksDiffer(rows)

Inv == TypeOK /\ GoodRows(policy, task)

USE DEF AbsentStatus

-----------------------------------------------------------------------------
(* Rows                                                                    *)

\* The statuses of a row fall into three kinds, and snoozed ones are open.
LEMMA Kinds ==
    /\ \A s \in OpenStatuses : s \notin ClosedStatuses /\ s # AbsentStatus
    /\ \A s \in ClosedStatuses : s # AbsentStatus
    /\ SnoozedStatuses \subseteq OpenStatuses
  BY DEF OpenStatuses, ClosedStatuses, SnoozedStatuses

\* The empty row and a new row are rows.
LEMMA NewRows ==
    /\ NoTask \in TaskRow
    /\ \A n \in Nat : /\ NewTask(n) \in TaskRow
                      /\ NewTask(n).status = "IN_PROGRESS"
                      /\ NewTask(n).snooze = "none"
                      /\ NewTask(n).reason = FALSE
                      /\ NewTask(n).link = NoPolicy
                      /\ NewTask(n).num = n
  BY DEF NoTask, NewTask, TaskRow, OpenStatuses

\* Waking touches snoozed rows only, leaves them open, and keeps their link,
\* reason and number.
LEMMA WakeRow ==
    ASSUME NEW rows \in Rows, NEW p \in Policies, NEW k \in Slots
    PROVE  LET old == rows[p][k]
               new == WakeExpiredSnoozes(rows)[p][k]
           IN  /\ new \in TaskRow
               /\ new.reason = old.reason /\ new.link = old.link /\ new.num = old.num
               /\ \/ new = old
                  \/ /\ old.status \in SnoozedStatuses
                     /\ new.status = "AWAITING_ACTION" /\ new.snooze = "none"
  <1>1. rows[p][k] \in TaskRow
    BY DEF Rows
  <1>2. WakeExpiredSnoozes(rows)[p][k] =
          IF rows[p][k].status \in SnoozedStatuses /\ rows[p][k].snooze = "due"
            THEN [rows[p][k] EXCEPT !.status = "AWAITING_ACTION", !.snooze = "none"]
            ELSE rows[p][k]
    BY DEF WakeExpiredSnoozes
  <1> QED
    BY <1>1, <1>2 DEF TaskRow, OpenStatuses

LEMMA WakeRows ==
    ASSUME NEW rows \in Rows
    PROVE  WakeExpiredSnoozes(rows) \in Rows
  BY WakeRow DEF Rows, WakeExpiredSnoozes

\* A good table is a sound one whose rows fit their status, with one open task
\* per policy at most.
LEMMA GoodIsSound ==
    ASSUME NEW pol, NEW rows
    PROVE  GoodRows(pol, rows) <=>
              /\ SoundRows(pol, rows)
              /\ \A p \in Policies, k \in Slots : FittingRow(rows[p][k])
              /\ OneOpenIn(rows)
  BY DEF GoodRows, SoundRows, GoodRow

\* Waking a sound table gives a sound table.
LEMMA WakeSound ==
    ASSUME NEW pol, NEW rows, SoundRows(pol, rows)
    PROVE  SoundRows(pol, WakeExpiredSnoozes(rows))
  <1> DEFINE new == WakeExpiredSnoozes(rows)
  <1>1. rows \in Rows
    BY DEF SoundRows
  <1>2. new \in Rows
    BY <1>1, WakeRows
  <1>3. ASSUME NEW p \in Policies, NEW k \in Slots
        PROVE  /\ SoundRow(pol, p, new[p][k])
               /\ new[p][k].status = AbsentStatus <=> rows[p][k].status = AbsentStatus
               /\ new[p][k].num = rows[p][k].num
               /\ new[p][k].link = rows[p][k].link
    <2>1. SoundRow(pol, p, rows[p][k])
      BY DEF SoundRows
    <2> QED
      BY <1>1, <2>1, WakeRow DEF SoundRow, OpenStatuses, SnoozedStatuses
  <1>4. NumbersDiffer(new)
    BY <1>3 DEF NumbersDiffer, SoundRows
  <1>5. LinksDiffer(new)
    BY <1>3 DEF LinksDiffer, SoundRows
  <1> QED
    BY <1>2, <1>3, <1>4, <1>5 DEF SoundRows

\* Waking a good table gives a good table.
LEMMA WakeGood ==
    ASSUME NEW pol, NEW rows, GoodRows(pol, rows)
    PROVE  GoodRows(pol, WakeExpiredSnoozes(rows))
  <1> DEFINE new == WakeExpiredSnoozes(rows)
  <1>1. rows \in Rows
    BY DEF GoodRows
  <1>2. ASSUME NEW p \in Policies, NEW k \in Slots
        PROVE  /\ FittingRow(new[p][k])
               /\ new[p][k].status \in OpenStatuses <=> rows[p][k].status \in OpenStatuses
    <2>1. FittingRow(rows[p][k])
      BY GoodIsSound
    <2> QED
      BY <1>1, <2>1, WakeRow DEF FittingRow, OpenStatuses, SnoozedStatuses
  <1>3. OneOpenIn(new)
    BY <1>2 DEF OneOpenIn, GoodRows
  <1>4. SoundRows(pol, new)
    BY WakeSound, GoodIsSound
  <1> QED
    BY <1>2, <1>3, <1>4, GoodIsSound

-----------------------------------------------------------------------------
(* Changes of a good table                                                 *)

\* A sound table stays sound when policies are created, changed or archived: a
\* row of the Policy table is never deleted.
LEMMA GrowSound ==
    ASSUME NEW pol, NEW pol2, NEW rows, SoundRows(pol, rows),
           \A p \in Policies : pol[p].state # "absent" => pol2[p].state # "absent"
    PROVE  SoundRows(pol2, rows)
  <1>1. ASSUME NEW p \in Policies, NEW k \in Slots
        PROVE  SoundRow(pol2, p, rows[p][k])
    <2>1. SoundRow(pol, p, rows[p][k])
      BY DEF SoundRows
    <2>2. rows[p][k].link \in Policies \cup {NoPolicy}
      BY DEF SoundRows, Rows, TaskRow
    <2> QED
      BY <2>1, <2>2 DEF SoundRow
  <1> QED
    BY <1>1 DEF SoundRows

LEMMA GrowGood ==
    ASSUME NEW pol, NEW pol2, NEW rows, GoodRows(pol, rows),
           \A p \in Policies : pol[p].state # "absent" => pol2[p].state # "absent"
    PROVE  GoodRows(pol2, rows)
  BY GrowSound, GoodIsSound

\* A sound table stays sound when one row is written: a sound row whose number
\* was the row's own or is new, and whose link likewise.
LEMMA WriteSound ==
    ASSUME NEW pol, NEW rows, SoundRows(pol, rows),
           NEW p \in Policies, NEW k \in Slots, NEW row \in TaskRow,
           SoundRow(pol, p, row),
           \/ row.num = rows[p][k].num /\ rows[p][k].status # AbsentStatus
           \/ \A q \in Policies, j \in Slots : rows[q][j].status # AbsentStatus =>
                  rows[q][j].num # row.num,
           \/ row.link = NoPolicy
           \/ row.link = rows[p][k].link
           \/ \A q \in Policies, j \in Slots : rows[q][j].link # row.link
    PROVE  SoundRows(pol, [rows EXCEPT ![p][k] = row])
  <1> DEFINE new == [rows EXCEPT ![p][k] = row]
  <1>1. rows \in Rows
    BY DEF SoundRows
  <1>2. new \in Rows
    BY <1>1 DEF Rows
  <1>3. \A q \in Policies, j \in Slots :
          new[q][j] = IF q = p /\ j = k THEN row ELSE rows[q][j]
    BY <1>1 DEF Rows
  <1> HIDE DEF new
  <1>4. \A q \in Policies, j \in Slots : SoundRow(pol, q, new[q][j])
    BY <1>3 DEF SoundRows
  <1>5. NumbersDiffer(new)
    BY <1>3 DEF NumbersDiffer, SoundRows
  <1>6. LinksDiffer(new)
    BY <1>3 DEF LinksDiffer, SoundRows
  <1> QED
    BY <1>2, <1>4, <1>5, <1>6 DEF SoundRows, new

\* A good table stays good if, besides, the row fits its status, and is the only
\* open one of its policy if it is open.
LEMMA WriteGood ==
    ASSUME NEW pol, NEW rows, GoodRows(pol, rows),
           NEW p \in Policies, NEW k \in Slots, NEW row \in TaskRow,
           GoodRow(pol, p, row),
           row.status \in OpenStatuses => OpenTasks(rows, p) \ {k} = {},
           \/ row.num = rows[p][k].num /\ rows[p][k].status # AbsentStatus
           \/ \A q \in Policies, j \in Slots : rows[q][j].status # AbsentStatus =>
                  rows[q][j].num # row.num,
           \/ row.link = NoPolicy
           \/ row.link = rows[p][k].link
           \/ \A q \in Policies, j \in Slots : rows[q][j].link # row.link
    PROVE  GoodRows(pol, [rows EXCEPT ![p][k] = row])
  <1> DEFINE new == [rows EXCEPT ![p][k] = row]
  <1>1. rows \in Rows
    BY DEF GoodRows
  <1>2. \A q \in Policies, j \in Slots :
          new[q][j] = IF q = p /\ j = k THEN row ELSE rows[q][j]
    BY <1>1 DEF Rows
  <1>3. SoundRows(pol, new)
    BY WriteSound, GoodIsSound DEF GoodRow
  <1> HIDE DEF new
  <1>4. \A q \in Policies, j \in Slots : FittingRow(new[q][j])
    BY <1>2, GoodIsSound DEF GoodRow
  <1>5. OneOpenIn(new)
    <2> SUFFICES ASSUME NEW q \in Policies, NEW i \in Slots, NEW j \in Slots,
                        new[q][i].status \in OpenStatuses,
                        new[q][j].status \in OpenStatuses
                 PROVE  i = j
      BY DEF OneOpenIn
    <2>1. CASE q = p /\ (i = k \/ j = k)
      BY <2>1, <1>2 DEF OpenTasks
    <2>2. CASE ~(q = p /\ (i = k \/ j = k))
      BY <2>2, <1>2 DEF GoodRows, OneOpenIn
    <2> QED
      BY <2>1, <2>2
  <1> QED
    BY <1>3, <1>4, <1>5, GoodIsSound DEF new

-----------------------------------------------------------------------------
(* The loop of the sync                                                    *)

\* The loop opens tasks for policies that have none, and not for those it
\* withdraws.
LEMMA OpenedPolicies ==
    ASSUME NEW pol, NEW db, NEW mem \in Rows, NEW p \in Opened(pol, db, mem)
    PROVE  /\ p \in Policies
           /\ p \notin Withdrawn(pol, db)
           /\ pol[p].state = "live"
           /\ \A k \in Slots : mem[p][k].status = AbsentStatus
           /\ FreeSlots(mem, p) # {}
  <1>1. p \in Policies /\ p \notin Withdrawn(pol, db) /\ pol[p].state = "live"
    BY DEF Opened, Scanned
  <1>2. ASSUME NEW k \in Slots
        PROVE  mem[p][k].status = AbsentStatus
    <2>1. mem[p][k].status \in OpenStatuses \cup ClosedStatuses \cup {AbsentStatus}
      BY <1>1 DEF Rows, TaskRow
    <2> QED
      BY <2>1 DEF Opened, OpenTasks, ClosedTasks
  <1> QED
    BY <1>1, <1>2, SlotsAssumption DEF FreeSlots

\* The new numbers are naturals above every number left, one for each policy.
LEMMA NewNumbers ==
    ASSUME NEW new \in SUBSET Policies, NEW left \in SUBSET Nat,
           NEW base \in left \cup {0}, IsHighest(base, left),
           NEW num \in Numberings(new, base)
    PROVE  /\ DOMAIN num = new
           /\ \A p \in new : num[p] \in Nat /\ num[p] > base
           /\ \A p \in new, n \in left : num[p] > n
           /\ \A p, q \in new : num[p] = num[q] => p = q
  <1>1. Cardinality(new) \in Nat
    BY PoliciesAssumption, FS_Subset, FS_CardinalityType
  <1>2. base \in Nat
    OBVIOUS
  <1>3. num \in [new -> (base + 1)..(base + Cardinality(new))]
    BY DEF Numberings
  <1>4. \A p \in new : num[p] \in Nat /\ num[p] > base
    BY <1>1, <1>2, <1>3
  <1>5. \A p \in new, n \in left : num[p] > n
    BY <1>2, <1>4 DEF IsHighest
  <1>6. \A p, q \in new : p < q => num[p] < num[q]
    BY DEF Numberings
  <1>7. \A p, q \in new : num[p] = num[q] => p = q
    BY <1>4, <1>6, PoliciesAssumption
  <1> QED
    BY <1>3, <1>4, <1>5, <1>7

\* What the loop leaves: a withdrawn task's slot is empty, a policy that had no
\* task has one new task, and every other row is the one it was.
LEMMA LoopRows ==
    ASSUME NEW rows \in Rows, NEW gone \in SUBSET Policies, NEW num,
           NEW p \in Policies, NEW k \in Slots,
           p \in DOMAIN num => p \notin gone
    PROVE  LET new == AfterLoop(rows, gone, num)
           IN  \/ /\ new[p][k] = NoTask
                  /\ p \in gone /\ rows[p][k].status \in OpenStatuses
               \/ /\ new[p][k] = NewTask(num[p])
                  /\ p \in DOMAIN num /\ k = FirstFree(rows, p)
               \/ /\ new[p][k] = rows[p][k]
                  /\ ~(p \in gone /\ rows[p][k].status \in OpenStatuses)
                  /\ ~(p \in DOMAIN num /\ k = FirstFree(rows, p))
  <1>1. AfterLoop(rows, gone, num)[p][k] =
          CASE p \in gone /\ rows[p][k].status \in OpenStatuses -> NoTask
            [] p \in DOMAIN num /\ k = FirstFree(rows, p) -> NewTask(num[p])
            [] OTHER -> rows[p][k]
    BY DEF AfterLoop
  <1> QED
    BY <1>1

\* The rows after a sync: the open tasks of withdrawn policies are gone, each
\* policy the sync opens a task for has it in its first free slot, and the
\* other rows are as they were in memory.
LEMMA SyncRows ==
    ASSUME NEW pol, NEW db, NEW mem \in Rows, SyncWith(pol, db, mem),
           NEW p \in Policies, NEW k \in Slots
    PROVE  \/ /\ task'[p][k] = NoTask
              /\ p \in Withdrawn(pol, db) /\ mem[p][k].status \in OpenStatuses
           \/ /\ task'[p][k].status = "IN_PROGRESS" /\ task'[p][k].snooze = "none"
              /\ FittingRow(task'[p][k]) /\ task'[p][k].link = NoPolicy
              /\ p \in Opened(pol, db, mem) /\ k = FirstFree(mem, p)
           \/ /\ task'[p][k] = mem[p][k]
              /\ ~(p \in Withdrawn(pol, db) /\ mem[p][k].status \in OpenStatuses)
              /\ ~(p \in Opened(pol, db, mem) /\ k = FirstFree(mem, p))
  <1> DEFINE gone == Withdrawn(pol, db)
             new == Opened(pol, db, mem)
             left == NumbersLeft(mem, gone, new)
  <1>1. PICK base \in left \cup {0} :
          /\ IsHighest(base, left)
          /\ \E num \in Numberings(new, base) : task' = AfterLoop(mem, gone, num)
    BY DEF SyncWith
  <1>2. PICK num \in Numberings(new, base) : task' = AfterLoop(mem, gone, num)
    BY <1>1
  <1>3. gone \in SUBSET Policies /\ new \in SUBSET Policies /\ left \in SUBSET Nat
    <2>1. gone \in SUBSET Policies /\ new \in SUBSET Policies
      BY DEF Withdrawn, Opened, Scanned
    <2>2. \A q \in Policies, j \in Slots : mem[q][j].num \in Nat
      BY DEF Rows, TaskRow
    <2>3. left \in SUBSET Nat
      BY <2>2 DEF NumbersLeft
    <2> QED BY <2>1, <2>3
  <1>4. p \in new => p \notin gone
    BY OpenedPolicies
  <1> HIDE DEF gone, new, left
  <1>5. DOMAIN num = new /\ \A q \in new : num[q] \in Nat
    BY <1>1, <1>2, <1>3, NewNumbers
  <1> USE DEF gone, new
  <1> QED
    BY <1>2, <1>3, <1>4, <1>5, LoopRows, NewRows DEF FittingRow, SnoozedStatuses

\* The whole sync, started on a sound table, leaves a sound table.
LEMMA SyncSound ==
    ASSUME NEW pol, NEW db, NEW mem, SoundRows(pol, mem), SyncWith(pol, db, mem)
    PROVE  SoundRows(pol, task')
  <1> DEFINE gone == Withdrawn(pol, db)
             new == Opened(pol, db, mem)
             left == NumbersLeft(mem, gone, new)
  <1>1. PICK base \in left \cup {0} :
          /\ IsHighest(base, left)
          /\ \E num \in Numberings(new, base) : task' = AfterLoop(mem, gone, num)
    BY DEF SyncWith
  <1>2. PICK num \in Numberings(new, base) : task' = AfterLoop(mem, gone, num)
    BY <1>1
  <1>3. mem \in Rows
    BY DEF SoundRows
  <1>4. gone \in SUBSET Policies /\ new \in SUBSET Policies
    BY DEF Withdrawn, Opened, Scanned
  <1>5. left \in SUBSET Nat
    BY <1>3 DEF NumbersLeft, Rows, TaskRow
  <1>6. /\ DOMAIN num = new
        /\ \A p \in new : num[p] \in Nat
        /\ \A p \in new, n \in left : num[p] > n
        /\ \A p, q \in new : num[p] = num[q] => p = q
    <2> HIDE DEF left, new
    <2> QED
      BY <1>1, <1>2, <1>4, <1>5, NewNumbers
  <1>7. \A p \in new : /\ p \in Policies /\ p \notin gone /\ pol[p].state = "live"
                       /\ \A k \in Slots : mem[p][k].status = AbsentStatus
    BY <1>3, OpenedPolicies
  <1>8. \A p \in Policies, k \in Slots :
          ~(p \in gone /\ mem[p][k].status \in OpenStatuses) => mem[p][k].num \in left
    <2> SUFFICES ASSUME NEW p \in Policies, NEW k \in Slots,
                        ~(p \in gone /\ mem[p][k].status \in OpenStatuses)
                 PROVE  mem[p][k].num \in left
      OBVIOUS
    <2> DEFINE pk == <<p, k>>
    <2>1. pk \in Policies \X Slots /\ pk[1] = p /\ pk[2] = k
      OBVIOUS
    <2> HIDE DEF pk
    <2> QED
      BY <2>1 DEF NumbersLeft
  <1> HIDE DEF gone, new, left
  <1> DEFINE Kept(p, k) == /\ task'[p][k] = mem[p][k]
                           /\ mem[p][k].num \in left
             Fresh(p, k) == /\ task'[p][k] = NewTask(num[p])
                            /\ p \in new
                            /\ k = FirstFree(mem, p)
             Empty(p, k) == task'[p][k] = NoTask
  <1>9. \A p \in Policies, k \in Slots : Kept(p, k) \/ Fresh(p, k) \/ Empty(p, k)
    BY <1>2, <1>3, <1>4, <1>6, <1>7, <1>8, LoopRows
  <1>10. task' \in Rows
    <2>1. \A p \in Policies, k \in Slots : task'[p][k] \in TaskRow
      BY <1>3, <1>6, <1>9, NewRows DEF Rows
    <2>2. task' = [p \in Policies |-> [k \in Slots |-> task'[p][k]]]
      BY <1>2 DEF AfterLoop
    <2> QED
      BY <2>1, <2>2 DEF Rows
  <1>11. \A p \in Policies, k \in Slots : SoundRow(pol, p, task'[p][k])
    <2> SUFFICES ASSUME NEW p \in Policies, NEW k \in Slots
                 PROVE  SoundRow(pol, p, task'[p][k])
      OBVIOUS
    <2>1. CASE Kept(p, k)
      BY <2>1 DEF SoundRows
    <2>2. CASE Fresh(p, k)
      BY <2>2, <1>6, <1>7, NewRows DEF SoundRow
    <2>3. CASE Empty(p, k)
      BY <2>3 DEF SoundRow, NoTask
    <2> QED
      BY <2>1, <2>2, <2>3, <1>9
  <1>12. NumbersDiffer(task')
    <2> SUFFICES ASSUME NEW p \in Policies, NEW q \in Policies,
                        NEW j \in Slots, NEW k \in Slots,
                        task'[p][j].status # AbsentStatus,
                        task'[q][k].status # AbsentStatus,
                        task'[p][j].num = task'[q][k].num
                 PROVE  p = q /\ j = k
      BY DEF NumbersDiffer
    <2>1. ~Empty(p, j) /\ ~Empty(q, k)
      BY DEF NoTask
    <2>2. CASE Kept(p, j) /\ Kept(q, k)
      BY <2>2 DEF SoundRows, NumbersDiffer
    <2>3. CASE Fresh(p, j) /\ Fresh(q, k)
      BY <2>3, <1>6, NewRows
    <2>4. \A a, b \in Policies, i, l \in Slots :
            Kept(a, i) /\ Fresh(b, l) => task'[a][i].num # task'[b][l].num
      BY <1>3, <1>5, <1>6, NewRows DEF Rows, TaskRow
    <2> QED
      BY <2>1, <2>2, <2>3, <2>4, <1>9
  <1>13. LinksDiffer(task')
    <2>1. \A p \in Policies, k \in Slots :
            task'[p][k].link # NoPolicy => task'[p][k] = mem[p][k]
      BY <1>6, <1>9, NewRows DEF NoTask
    <2> QED
      BY <2>1 DEF SoundRows, LinksDiffer
  <1> QED
    BY <1>10, <1>11, <1>12, <1>13 DEF SoundRows

\* The whole sync, started on a good table, leaves a good table.
LEMMA SyncGood ==
    ASSUME NEW pol, NEW db, NEW mem, GoodRows(pol, mem), SyncWith(pol, db, mem)
    PROVE  GoodRows(pol, task')
  <1> DEFINE new == Opened(pol, db, mem)
  <1>1. mem \in Rows /\ SoundRows(pol, task')
    BY SyncSound, GoodIsSound DEF GoodRows
  <1>2. \A p \in new, k \in Slots : mem[p][k].status = AbsentStatus
    BY <1>1, OpenedPolicies
  <1>3. \A p \in Policies, k \in Slots :
          \/ task'[p][k] = NoTask
          \/ FittingRow(task'[p][k]) /\ p \in new /\ k = FirstFree(mem, p)
          \/ task'[p][k] = mem[p][k]
    BY <1>1, SyncRows
  <1> HIDE DEF new
  <1>4. \A p \in Policies, k \in Slots : FittingRow(task'[p][k])
    <2>1. FittingRow(NoTask)
      BY DEF FittingRow, NoTask, SnoozedStatuses
    <2>2. \A p \in Policies, k \in Slots : FittingRow(mem[p][k])
      BY GoodIsSound
    <2> QED
      BY <1>3, <2>1, <2>2
  <1>5. OneOpenIn(task')
    <2> SUFFICES ASSUME NEW p \in Policies, NEW j \in Slots, NEW k \in Slots,
                        task'[p][j].status \in OpenStatuses,
                        task'[p][k].status \in OpenStatuses
                 PROVE  j = k
      BY DEF OneOpenIn
    <2>1. task'[p][j] # NoTask /\ task'[p][k] # NoTask
      BY Kinds DEF NoTask
    <2>2. CASE p \in new
      BY <2>1, <2>2, <1>2, <1>3, Kinds
    <2>3. CASE p \notin new
      BY <2>1, <2>3, <1>3 DEF GoodRows, OneOpenIn
    <2> QED
      BY <2>2, <2>3
  <1> QED
    BY <1>1, <1>4, <1>5, GoodIsSound

\* A free slot is a slot.
LEMMA FirstFreeSlot ==
    ASSUME NEW rows, NEW p, FreeSlots(rows, p) # {}
    PROVE  /\ FirstFree(rows, p) \in Slots
           /\ rows[p][FirstFree(rows, p)].status = AbsentStatus
  <1>1. FirstFree(rows, p) \in FreeSlots(rows, p)
    BY DEF FirstFree
  <1> QED
    BY <1>1 DEF FreeSlots

\* The notices a sync leaves are of users, policies and slots.
LEMMA SyncNotices ==
    ASSUME TypeOK, NEW pol, NEW db, NEW mem \in Rows, SyncWith(pol, db, mem)
    PROVE  /\ noticed' \subseteq Users \X Policies \X Slots
           /\ urgent' \subseteq Users \X Policies
  <1> DEFINE gone == Withdrawn(pol, db)
             new == Opened(pol, db, mem)
  <1>1. new \subseteq Policies /\ Reminded(pol, db, mem) \subseteq Policies
    BY DEF Opened, Reminded, Scanned
  <1>2. active \subseteq Users
    BY DEF TypeOK
  <1>3. \A p \in new : FirstFree(mem, p) \in Slots
    BY OpenedPolicies, FirstFreeSlot
  <1>4. noticed' = AfterNotices(mem, gone, new)
    BY DEF SyncWith
  <1> HIDE DEF gone, new
  <1>5. {<<u, p, FirstFree(mem, p)>> : u \in active, p \in new}
          \subseteq Users \X Policies \X Slots
    BY <1>1, <1>2, <1>3
  <1>6. AfterNotices(mem, gone, new) \subseteq Users \X Policies \X Slots
    BY <1>5 DEF AfterNotices, TypeOK
  <1>7. urgent' = urgent \cup (active \X Reminded(pol, db, mem))
    BY DEF SyncWith
  <1> QED
    BY <1>1, <1>2, <1>4, <1>6, <1>7 DEF TypeOK

-----------------------------------------------------------------------------
(* Requests                                                                *)

\* The sync at the end of a request that has put the policies pol in place.
LEMMA SyncAfterGood ==
    ASSUME Inv, NEW pol, SyncAfter(pol, task),
           \A p \in Policies : policy[p].state # "absent" => pol[p].state # "absent"
    PROVE  /\ GoodRows(pol, task')
           /\ noticed' \subseteq Users \X Policies \X Slots
           /\ urgent' \subseteq Users \X Policies
  <1>1. GoodRows(pol, WakeExpiredSnoozes(task))
    BY GrowGood, WakeGood DEF Inv
  <1>2. SyncWith(pol, WakeExpiredSnoozes(task), WakeExpiredSnoozes(task))
    BY DEF SyncAfter
  <1> QED
    BY <1>1, <1>2, SyncGood, SyncNotices DEF Inv, GoodRows

\* Every number of the table counts as used, and only numbers do.
LEMMA UsedNumbers ==
    ASSUME task \in Rows
    PROVE  /\ NumbersUsed(task) \subseteq Nat
           /\ \A q \in Policies, j \in Slots : task[q][j].num \in NumbersUsed(task)
  <1>1. NumbersUsed(task) \subseteq Nat
    BY DEF NumbersUsed, NumbersLeft, Rows, TaskRow
  <1>2. ASSUME NEW q \in Policies, NEW j \in Slots
        PROVE  task[q][j].num \in NumbersUsed(task)
    <2> DEFINE pk == <<q, j>>
    <2>1. pk \in Policies \X Slots /\ pk[1] = q /\ pk[2] = j
      OBVIOUS
    <2> HIDE DEF pk
    <2> QED
      BY <2>1 DEF NumbersUsed, NumbersLeft
  <1> QED
    BY <1>1, <1>2

\* A task added by hand to a policy.
LEMMA AddTaskSound ==
    ASSUME NEW pol, SoundRows(pol, task), NEW p \in Policies, AddTask(p),
           pol[p].state # "absent"
    PROVE  SoundRows(pol, task')
  <1> DEFINE k == FirstFree(task, p)
             used == NumbersUsed(task)
  <1>1. k \in Slots /\ task[p][k].status = AbsentStatus
    BY FirstFreeSlot DEF AddTask
  <1>2. PICK base \in used \cup {0} :
          /\ IsHighest(base, used)
          /\ task' = [task EXCEPT ![p][k] = NewTask(base + 1)]
    BY DEF AddTask
  <1>3. used \subseteq Nat /\ \A q \in Policies, j \in Slots : task[q][j].num \in used
    BY UsedNumbers DEF SoundRows
  <1> HIDE DEF k, used
  <1>4. base + 1 \in Nat /\ \A n \in used : n # base + 1
    BY <1>2, <1>3 DEF IsHighest
  <1>5. NewTask(base + 1) \in TaskRow /\ SoundRow(pol, p, NewTask(base + 1))
    BY <1>4, NewRows DEF SoundRow
  <1>6. \A q \in Policies, j \in Slots : task[q][j].num # NewTask(base + 1).num
    BY <1>3, <1>4, NewRows
  <1>7. NewTask(base + 1).link = NoPolicy
    BY <1>4, NewRows
  <1> QED
    BY <1>1, <1>2, <1>5, <1>6, <1>7, WriteSound

\* A task added by hand to a policy that has no open one.
LEMMA AddTaskGood ==
    ASSUME NEW pol, GoodRows(pol, task), NEW p \in Policies, AddTask(p),
           pol[p].state # "absent", OpenTasks(task, p) = {}
    PROVE  GoodRows(pol, task')
  <1> DEFINE k == FirstFree(task, p)
  <1>1. k \in Slots /\ task \in Rows
    BY FirstFreeSlot DEF AddTask, GoodRows
  <1>2. PICK n \in Nat : task' = [task EXCEPT ![p][k] = NewTask(n)]
    <2>1. NumbersUsed(task) \subseteq Nat
      BY <1>1, UsedNumbers
    <2>2. PICK base \in NumbersUsed(task) \cup {0} :
            task' = [task EXCEPT ![p][k] = NewTask(base + 1)]
      BY DEF AddTask
    <2>3. base + 1 \in Nat
      BY <2>1, <2>2
    <2> QED
      BY <2>2, <2>3
  <1>3. SoundRows(pol, task')
    BY AddTaskSound, GoodIsSound
  <1> HIDE DEF k
  <1>4. \A q \in Policies, j \in Slots :
          task'[q][j] = IF q = p /\ j = k THEN NewTask(n) ELSE task[q][j]
    BY <1>1, <1>2 DEF Rows
  <1>5. \A q \in Policies, j \in Slots : FittingRow(task'[q][j])
    BY <1>4, GoodIsSound, NewRows DEF FittingRow, SnoozedStatuses
  <1>6. OneOpenIn(task')
    BY <1>4 DEF OneOpenIn, OpenTasks, GoodRows
  <1> QED
    BY <1>3, <1>5, <1>6, GoodIsSound

\* Postponing or declining a task that may be reopened.
LEMMA DecideGood ==
    ASSUME Inv, NEW p \in Policies, NEW k \in Slots, NEW row \in TaskRow,
           task[p][k].status \in OpenStatuses \cup ClosedStatuses,
           ReopenAllowed(p, k, task[p][k].status),
           row.status \in SnoozedStatuses \cup {"CLIENT_DECLINED"},
           row.snooze # "none" <=> row.status \in SnoozedStatuses,
           row.reason <=> row.status = "CLIENT_DECLINED",
           row.link = task[p][k].link,
           row.num = task[p][k].num,
           task' = [task EXCEPT ![p][k] = row]
    PROVE  GoodRows(policy, task')
  <1>1. GoodRows(policy, task) /\ GoodRow(policy, p, task[p][k])
    BY DEF Inv, GoodRows
  <1>2. GoodRow(policy, p, row)
    BY <1>1, Kinds DEF GoodRow, FittingRow, SoundRow, SnoozedStatuses
  <1>3. OpenTasks(task, p) \ {k} = {}
    <2>1. CASE task[p][k].status \in ClosedStatuses
      BY <2>1 DEF ReopenAllowed
    <2>2. CASE task[p][k].status \in OpenStatuses
      BY <2>2, <1>1 DEF GoodRows, OneOpenIn, OpenTasks
    <2> QED
      BY <2>1, <2>2
  <1>4. task[p][k].status # AbsentStatus
    BY Kinds
  <1> QED
    BY <1>1, <1>2, <1>3, <1>4, WriteGood

\* A renewal links the task to a policy that did not exist before.
LEMMA CommitRenewalGood ==
    ASSUME Inv, NEW p \in Policies, NEW k \in Slots, NEW q \in Policies,
           NEW left, NEW refs,
           task[p][k].status \in OpenStatuses,
           policy[q].state = "absent",
           CommitRenewal(p, k, Renewed(task[p][k], q), q, left, refs)
    PROVE  /\ GoodRows(policy', task')
           /\ noticed' \subseteq Users \X Policies \X Slots
           /\ urgent' \subseteq Users \X Policies
  <1> DEFINE pol == [policy EXCEPT ![q] = NewPolicy(left, refs)]
             db == WakeExpiredSnoozes(task)
             row == Renewed(task[p][k], q)
             mem == [db EXCEPT ![p][k] = row]
  <1>1. /\ policy' = pol
        /\ SyncWith(pol, db, mem)
    BY DEF CommitRenewal
  <1>2. task \in Rows /\ task[p][k] \in TaskRow /\ policy \in PolicyTable
    BY DEF Inv, GoodRows, TypeOK, PolicyTable, Rows
  <1>3. \A o \in Policies : /\ policy[o].state # "absent" => pol[o].state # "absent"
                            /\ o # q => pol[o].state = policy[o].state
    BY <1>2 DEF PolicyTable, NewPolicy
  <1>4. pol[q].state = "live"
    BY <1>2 DEF PolicyTable, NewPolicy
  <1>5. GoodRows(pol, db)
    <2> HIDE DEF pol
    <2> QED
      BY <1>3, GrowGood, WakeGood DEF Inv
  <1>6. GoodRow(policy, p, task[p][k])
    BY DEF Inv, GoodRows
  <1>7. /\ row \in TaskRow /\ row.status = "RENEWED" /\ row.snooze = "none"
        /\ row.link = q /\ row.num = task[p][k].num /\ row.reason = task[p][k].reason
    BY <1>2 DEF Renewed, TaskRow, OpenStatuses, ClosedStatuses
  <1>8. GoodRow(pol, p, row)
    <2>1. p # q
      BY <1>6, Kinds DEF GoodRow, FittingRow, SoundRow
    <2>2. task[p][k].reason = FALSE
      BY <1>2, <1>6 DEF GoodRow, FittingRow, SoundRow, TaskRow, OpenStatuses, SnoozedStatuses
    <2>3. q # NoPolicy
      BY PoliciesAssumption
    <2>4. pol[p].state # "absent"
      BY <1>3, <1>6, Kinds DEF GoodRow, FittingRow, SoundRow
    <2> HIDE DEF pol, row
    <2> QED
      BY <1>4, <1>7, <2>1, <2>2, <2>3, <2>4 DEF GoodRow, FittingRow, SoundRow, SnoozedStatuses
  <1>9. /\ db[p][k].num = task[p][k].num
        /\ db[p][k].status # AbsentStatus
        /\ \A o \in Policies, j \in Slots : db[o][j].link = task[o][j].link
    BY <1>2, WakeRow, Kinds
  <1>10. \A o \in Policies, j \in Slots : task[o][j].link # q
    <2>1. \A o \in Policies, j \in Slots : GoodRow(policy, o, task[o][j])
      BY DEF Inv, GoodRows
    <2> QED
      BY <2>1, PoliciesAssumption DEF GoodRow, FittingRow, SoundRow
  <1> HIDE DEF pol, db, row
  <1>11. GoodRows(pol, mem)
    <2>1. row.status \notin OpenStatuses
      BY <1>7 DEF OpenStatuses, SnoozedStatuses
    <2>2. row \in TaskRow /\ row.num = db[p][k].num /\ db[p][k].status # AbsentStatus
      BY <1>7, <1>9
    <2>3. \A o \in Policies, j \in Slots : db[o][j].link # row.link
      BY <1>7, <1>9, <1>10
    <2> QED
      BY <1>5, <1>8, <2>1, <2>2, <2>3, WriteGood
  <1> QED
    BY <1>1, <1>11, SyncGood, SyncNotices DEF Inv, GoodRows

-----------------------------------------------------------------------------
(* Every action                                                            *)

\* Policies put in place by a request are rows of the Policy table.
LEMMA PolicyPut ==
    ASSUME TypeOK, NEW q \in Policies, NEW left \in -1..Horizon, NEW refs \in PolicyRefs
    PROVE  LET pol == [policy EXCEPT ![q] = NewPolicy(left, refs)]
           IN  /\ pol \in PolicyTable
               /\ pol[q].state = "live"
               /\ \A p \in Policies : policy[p].state # "absent" => pol[p].state # "absent"
  BY DEF TypeOK, PolicyTable, PolicyRow, NewPolicy, PolicyRefs

LEMMA InitInv ==
    ASSUME Init
    PROVE  Inv
  <1>1. task \in Rows /\ \A p \in Policies, k \in Slots : task[p][k] = NoTask
    BY NewRows DEF Init, Rows
  <1>2. TypeOK
    BY <1>1, DaysAssumption DEF Init, TypeOK, Rows, PolicyRow, NoPolicyRow
  <1>3. NoTask.status = AbsentStatus /\ NoTask.link = NoPolicy
    BY DEF NoTask
  <1>4. \A p \in Policies : GoodRow(policy, p, NoTask)
    BY DEF GoodRow, FittingRow, SoundRow, NoTask, SnoozedStatuses
  <1>5. OneOpenIn(task) /\ NumbersDiffer(task) /\ LinksDiffer(task)
    BY <1>1, <1>3, Kinds DEF OneOpenIn, NumbersDiffer, LinksDiffer
  <1> QED
    BY <1>1, <1>2, <1>4, <1>5 DEF Inv, GoodRows

\* The requests on tasks.
LEMMA TaskActionInv ==
    ASSUME Inv, TaskAction
    PROVE  Inv'
  <1>1. PICK p \in Policies, k \in Slots :
          \/ \E mode \in PostponeModes : Postpone(p, k, mode)
          \/ Decline(p, k)
          \/ \E q \in Policies, left \in -1..Horizon, refs \in PolicyRefs :
                Renew(p, k, q, left, refs)
    BY DEF TaskAction
  <1>2. task[p][k] \in TaskRow /\ TypeOK
    BY DEF Inv, GoodRows, Rows
  <1>3. ASSUME NEW mode \in PostponeModes, Postpone(p, k, mode)
        PROVE  Inv'
    <2> DEFINE row == Postponed(task[p][k], mode)
    <2>1. mode \in SnoozedStatuses
      BY ModesAssumption DEF SnoozedStatuses
    <2>2. /\ row \in TaskRow /\ row.status = mode /\ row.snooze = "pending"
          /\ row.reason = FALSE /\ row.link = task[p][k].link /\ row.num = task[p][k].num
      BY <1>2, <2>1 DEF Postponed, TaskRow, OpenStatuses
    <2> HIDE DEF row
    <2>3. /\ row.snooze # "none" <=> row.status \in SnoozedStatuses
          /\ row.reason <=> row.status = "CLIENT_DECLINED"
      BY <2>1, <2>2 DEF SnoozedStatuses
    <2>4. GoodRows(policy, task')
      BY <1>3, <2>1, <2>2, <2>3, DecideGood DEF Postpone, row
    <2> QED
      BY <1>2, <1>3, <2>4 DEF Inv, TypeOK, GoodRows, Rows, Postpone
  <1>4. ASSUME Decline(p, k)
        PROVE  Inv'
    <2> DEFINE row == Declined(task[p][k])
    <2>1. /\ row \in TaskRow /\ row.status = "CLIENT_DECLINED" /\ row.snooze = "none"
          /\ row.reason = TRUE /\ row.link = task[p][k].link /\ row.num = task[p][k].num
      BY <1>2 DEF Declined, TaskRow, ClosedStatuses
    <2> HIDE DEF row
    <2>2. /\ row.snooze # "none" <=> row.status \in SnoozedStatuses
          /\ row.reason <=> row.status = "CLIENT_DECLINED"
      BY <2>1 DEF SnoozedStatuses
    <2>3. GoodRows(policy, task')
      BY <1>4, <2>1, <2>2, DecideGood DEF Decline, row
    <2> QED
      BY <1>2, <1>4, <2>3 DEF Inv, TypeOK, GoodRows, Rows, Decline
  <1>5. ASSUME NEW q \in Policies, NEW left \in -1..Horizon, NEW refs \in PolicyRefs,
               Renew(p, k, q, left, refs)
        PROVE  Inv'
    <2>1. /\ task[p][k].status \in OpenStatuses
          /\ policy[q].state = "absent"
          /\ CommitRenewal(p, k, Renewed(task[p][k], q), q, left, refs)
      BY <1>5 DEF Renew, CanCreatePolicy
    <2>2. /\ GoodRows(policy', task')
          /\ noticed' \subseteq Users \X Policies \X Slots
          /\ urgent' \subseteq Users \X Policies
      BY <2>1, CommitRenewalGood
    <2>3. policy' \in PolicyTable /\ UNCHANGED <<archived, active>>
      BY <1>2, <2>1, PolicyPut DEF CommitRenewal
    <2> QED
      BY <1>2, <2>2, <2>3 DEF Inv, TypeOK, PolicyTable, GoodRows, Rows
  <1> QED
    BY <1>1, <1>3, <1>4, <1>5

\* The requests on policies.
LEMMA PolicyActionInv ==
    ASSUME Inv, PolicyAction
    PROVE  Inv'
  <1>1. PICK p \in Policies :
          \/ CreateManualTask(p)
          \/ ArchivePolicy(p)
          \/ RestorePolicy(p)
          \/ \E left \in -1..Horizon, refs \in PolicyRefs :
                \/ CreatePolicy(p, left, refs)
                \/ UpdatePolicy(p, left, refs)
                \/ CreateManualTaskAndPolicy(p, left, refs)
    BY DEF PolicyAction
  <1>2. TypeOK /\ GoodRows(policy, task)
    BY DEF Inv
  <1>3. ASSUME CreateManualTask(p)
        PROVE  Inv'
    <2>1. GoodRows(policy, task')
      BY <1>2, <1>3, AddTaskGood DEF CreateManualTask
    <2> QED
      BY <1>2, <1>3, <2>1 DEF Inv, TypeOK, GoodRows, Rows, CreateManualTask
  <1>4. ASSUME ArchivePolicy(p) \/ RestorePolicy(p)
        PROVE  Inv'
    <2>1. SyncAfter(policy, task) /\ UNCHANGED <<archived, active>>
      BY <1>4 DEF ArchivePolicy, RestorePolicy
    <2>2. PICK s \in {"live", "archived"} : policy' = [policy EXCEPT ![p].state = s]
      BY <1>4 DEF ArchivePolicy, RestorePolicy
    <2>3. /\ policy' \in PolicyTable
          /\ \A o \in Policies : policy[o].state # "absent" => policy'[o].state # "absent"
      BY <1>2, <2>2 DEF TypeOK, PolicyTable, PolicyRow
    <2>4. /\ GoodRows(policy, task')
          /\ noticed' \subseteq Users \X Policies \X Slots
          /\ urgent' \subseteq Users \X Policies
      BY <2>1, SyncAfterGood
    <2>5. GoodRows(policy', task')
      BY <2>3, <2>4, GrowGood
    <2> QED
      BY <1>2, <2>1, <2>3, <2>4, <2>5 DEF Inv, TypeOK, PolicyTable, GoodRows, Rows
  <1>5. ASSUME NEW left \in -1..Horizon, NEW refs \in PolicyRefs,
               CreatePolicy(p, left, refs) \/ UpdatePolicy(p, left, refs)
        PROVE  Inv'
    <2> DEFINE pol == [policy EXCEPT ![p] = NewPolicy(left, refs)]
    <2>1. policy' = pol /\ SyncAfter(pol, task) /\ UNCHANGED <<archived, active>>
      BY <1>5 DEF CreatePolicy, UpdatePolicy
    <2>2. /\ pol \in PolicyTable
          /\ \A o \in Policies : policy[o].state # "absent" => pol[o].state # "absent"
      BY <1>2, PolicyPut
    <2> HIDE DEF pol
    <2>3. /\ GoodRows(pol, task')
          /\ noticed' \subseteq Users \X Policies \X Slots
          /\ urgent' \subseteq Users \X Policies
      BY <2>1, <2>2, SyncAfterGood
    <2> QED
      BY <1>2, <2>1, <2>2, <2>3 DEF Inv, TypeOK, PolicyTable, GoodRows, Rows
  <1>6. ASSUME NEW left \in -1..Horizon, NEW refs \in PolicyRefs,
               CreateManualTaskAndPolicy(p, left, refs)
        PROVE  Inv'
    <2> DEFINE pol == [policy EXCEPT ![p] = NewPolicy(left, refs)]
    <2>1. /\ policy[p].state = "absent"
          /\ policy' = pol
          /\ AddTask(p)
          /\ UNCHANGED <<archived, active, noticed, urgent>>
      BY <1>6 DEF CreateManualTaskAndPolicy, CanCreatePolicy
    <2>2. /\ pol \in PolicyTable
          /\ pol[p].state = "live"
          /\ \A o \in Policies : policy[o].state # "absent" => pol[o].state # "absent"
      BY <1>2, PolicyPut
    <2> HIDE DEF pol
    <2>3. OpenTasks(task, p) = {}
      <3>1. \A k \in Slots : GoodRow(policy, p, task[p][k])
        BY <1>2 DEF GoodRows
      <3> QED
        BY <2>1, <3>1, Kinds DEF GoodRow, FittingRow, SoundRow, OpenTasks
    <2>4. GoodRows(pol, task')
      <3>1. GoodRows(pol, task)
        BY <1>2, <2>2, GrowGood
      <3> QED
        BY <2>1, <2>2, <2>3, <3>1, AddTaskGood
    <2> QED
      BY <1>2, <2>1, <2>2, <2>4 DEF Inv, TypeOK, PolicyTable, GoodRows, Rows
  <1> QED
    BY <1>1, <1>3, <1>4, <1>5, <1>6

\* A day moves no policy in or out of the table.
LEMMA DayOver ==
    ASSUME TypeOK, NewDay
    PROVE  /\ policy' \in PolicyTable
           /\ \A p \in Policies : policy'[p].state = policy[p].state
  <1> DEFINE Later(row) == [row EXCEPT !.left = IF @ < 0 THEN @ ELSE @ - 1]
  <1>1. \A row \in PolicyRow : Later(row) \in PolicyRow /\ Later(row).state = row.state
    BY DaysAssumption DEF PolicyRow
  <1>2. policy' = [p \in Policies |-> Later(policy[p])]
    BY DEF NewDay
  <1> HIDE DEF Later
  <1> QED
    BY <1>1, <1>2 DEF TypeOK, PolicyTable

\* Archived refs, accounts, days and snoozes.
LEMMA SurroundingsInv ==
    ASSUME Inv, Surroundings
    PROVE  Inv'
  <1>1. TypeOK /\ GoodRows(policy, task)
    BY DEF Inv
  <1>2. ASSUME NEW r \in Refs, ArchiveRef(r) \/ RestoreRef(r)
        PROVE  Inv'
    BY <1>1, <1>2 DEF Inv, TypeOK, ArchiveRef, RestoreRef
  <1>3. ASSUME NEW u \in Users, SetActive(u)
        PROVE  Inv'
    BY <1>1, <1>3 DEF Inv, TypeOK, SetActive
  <1>4. ASSUME NewDay
        PROVE  Inv'
    <2>1. policy' \in PolicyTable /\ \A p \in Policies : policy'[p].state = policy[p].state
      BY <1>1, <1>4, DayOver
    <2>2. GoodRows(policy', task)
      BY <1>1, <2>1, GrowGood
    <2> QED
      BY <1>1, <1>4, <2>1, <2>2 DEF Inv, TypeOK, PolicyTable, NewDay
  <1>5. ASSUME NEW p \in Policies, NEW k \in Slots, SnoozeEnds(p, k)
        PROVE  Inv'
    <2> DEFINE row == [task[p][k] EXCEPT !.snooze = "due"]
    <2>1. /\ task[p][k].snooze = "pending"
          /\ task' = [task EXCEPT ![p][k] = row]
      BY <1>1, <1>5 DEF SnoozeEnds, GoodRows, Rows
    <2>2. GoodRow(policy, p, task[p][k]) /\ task[p][k] \in TaskRow
      BY <1>1 DEF GoodRows, Rows
    <2>3. task[p][k].status \in OpenStatuses
      BY <2>1, <2>2, Kinds DEF GoodRow, FittingRow, SoundRow
    <2>4. /\ row \in TaskRow /\ row.snooze = "due" /\ row.status = task[p][k].status
          /\ row.reason = task[p][k].reason /\ row.link = task[p][k].link
          /\ row.num = task[p][k].num
      BY <2>2 DEF TaskRow
    <2> HIDE DEF row
    <2>5. GoodRow(policy, p, row)
      BY <2>1, <2>2, <2>3, <2>4, Kinds DEF GoodRow, FittingRow, SoundRow
    <2>6. OpenTasks(task, p) \ {k} = {}
      BY <1>1, <2>3 DEF GoodRows, OneOpenIn, OpenTasks
    <2>7. GoodRows(policy, task')
      BY <1>1, <2>1, <2>3, <2>4, <2>5, <2>6, Kinds, WriteGood
    <2> QED
      BY <1>1, <1>5, <2>7 DEF Inv, TypeOK, GoodRows, Rows, SnoozeEnds
  <1> QED
    BY <1>2, <1>3, <1>4, <1>5 DEF Surroundings

\* No step leaves the invariant.
LEMMA NextInv ==
    ASSUME Inv, [Next]_vars
    PROVE  Inv'
  <1>1. TypeOK /\ GoodRows(policy, task)
    BY DEF Inv
  <1>2. CASE Sync
    <2>1. /\ GoodRows(policy, task')
          /\ noticed' \subseteq Users \X Policies \X Slots
          /\ urgent' \subseteq Users \X Policies
      BY <1>2, SyncAfterGood DEF Sync
    <2> QED
      BY <1>1, <1>2, <2>1 DEF Inv, TypeOK, GoodRows, Rows, Sync
  <1>3. CASE SyncCachedAtBoot
    <2>1. GoodRows(policy, task')
      BY <1>1, <1>3, WakeGood DEF SyncCachedAtBoot
    <2> QED
      BY <1>1, <1>3, <2>1 DEF Inv, TypeOK, GoodRows, Rows, SyncCachedAtBoot
  <1>4. CASE UNCHANGED vars
    BY <1>1, <1>4 DEF Inv, TypeOK, vars
  <1> QED
    BY <1>2, <1>3, <1>4, TaskActionInv, PolicyActionInv, SurroundingsInv DEF Next

-----------------------------------------------------------------------------
(* The theorems                                                            *)

\* Whatever requests, syncs and days follow one another, the tables are good.
THEOREM Invariance == Spec => []Inv
  <1>1. Init => Inv
    BY InitInv
  <1>2. Inv /\ [Next]_vars => Inv'
    BY NextInv
  <1> QED
    BY <1>1, <1>2, PTL DEF Spec

\* The rows of every table keep their types, and days left stay in range.
THEOREM TypeCorrectness == Spec => []TypeOK
  <1>1. Inv => TypeOK
    BY DEF Inv
  <1> QED
    BY <1>1, Invariance, PTL

\* Handled one at a time, no sequence of requests and syncs gives a policy two
\* open tasks.
THEOREM NeverTwoOpenTasks == Spec => []OneOpenTask
  <1>1. Inv => OneOpenTask
    BY DEF Inv, GoodRows, OneOpenIn, OneOpenTask, OpenTasks
  <1> QED
    BY <1>1, Invariance, PTL

\* The columns of a row always fit its status.
THEOREM RowsFitTheirStatus == Spec => []RowsConsistent
  <1>1. Inv => RowsConsistent
    BY DEF Inv, GoodRows, GoodRow, FittingRow, SoundRow, RowsConsistent
  <1> QED
    BY <1>1, Invariance, PTL

\* A renewed task leads to a policy in the table, which no other task claims.
THEOREM LinksLead == Spec => []RenewalLinks
  <1>1. Inv => RenewalLinks
    <2> SUFFICES ASSUME Inv, NEW p \in Policies, NEW q \in Policies,
                        NEW j \in Slots, NEW k \in Slots
                 PROVE  /\ task[p][j].status = "RENEWED" => task[p][j].link # NoPolicy
                        /\ task[p][j].link # NoPolicy =>
                              /\ task[p][j].link # p
                              /\ policy[task[p][j].link].state # "absent"
                              /\ task[p][j].link = task[q][k].link => <<p, j>> = <<q, k>>
      BY DEF RenewalLinks
    <2> QED
      BY DEF Inv, GoodRows, GoodRow, FittingRow, SoundRow, LinksDiffer
  <1> QED
    BY <1>1, Invariance, PTL

\* max + 1 never hands out a number twice.
THEOREM NumbersNeverRepeat == Spec => []NumbersUnique
  <1>1. Inv => NumbersUnique
    BY DEF Inv, GoodRows, NumbersDiffer, NumbersUnique
  <1> QED
    BY <1>1, Invariance, PTL

=============================================================================
