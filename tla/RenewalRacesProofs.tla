-------------------------- MODULE RenewalRacesProofs --------------------------
(***************************************************************************)
(* Proofs about RenewalRaces: what is left of the engine's guarantees when *)
(* any number of requests overlap.                                         *)
(*                                                                         *)
(* A sound table (SoundRows of RenewalTasksProofs) stays sound although a  *)
(* request writes what it decided from an older row, because of what a     *)
(* request still knows of that row (SoundRequest), and because a row of    *)
(* the Policy table is never deleted (Grows).                              *)
(***************************************************************************)
EXTENDS RenewalRaces, RenewalTasksProofs

\* What stays true of the request r, and of the row it has loaded, however long
\* ago that was.
SoundRequest(pol, rows, r) ==
    /\ r.op # "none" => r.p \in Policies
    /\ r.op = "create" => pol[r.p].state # "absent"
    /\ r.op \in {"postpone", "decline", "renew"} => r.k \in Slots
    /\ r.op = "postpone" => r.mode \in PostponeModes
    /\ r.op = "renew" => r.q \in Policies
    /\ r.row # NoTask =>
          /\ r.op \in {"postpone", "decline", "renew"}
          /\ r.row.status # AbsentStatus
          /\ rows[r.p][r.k].status # AbsentStatus
          /\ r.op = "renew" => r.row.status \in OpenStatuses
          /\ r.row.link # NoPolicy => pol[r.row.link].state # "absent"

Tables == TypeOK /\ SoundRows(policy, task)

RacesInv ==
    /\ Tables
    /\ RacesTypeOK
    /\ \A w \in Workers : SoundRequest(policy, task, req[w])

\* What a step does to the row of one task: a decision keeps its row and number,
\* a link is kept or replaced by one to a policy issued in this very step.
RowKept(pol, old, new) ==
    /\ old.status \in ClosedStatuses => new.status # AbsentStatus /\ new.num = old.num
    /\ old.link # NoPolicy /\ new.status # AbsentStatus =>
          \/ new.link = old.link
          \/ new.link # NoPolicy /\ pol[new.link].state = "absent"

Grows(pol, pol2) ==
    \A p \in Policies : pol[p].state # "absent" => pol2[p].state # "absent"

TableStep ==
    /\ Tables'
    /\ Grows(policy, policy')
    /\ \A p \in Policies, k \in Slots : RowKept(policy, task[p][k], task'[p][k])

USE DEF AbsentStatus

-----------------------------------------------------------------------------
(* Steps on the tables                                                     *)

\* A sync leaves a present row as it is, or deletes it if it is open.
LEMMA SyncLeaves ==
    ASSUME NEW pol, NEW db, NEW mem \in Rows, SyncWith(pol, db, mem),
           NEW p \in Policies, NEW k \in Slots, mem[p][k].status # AbsentStatus
    PROVE  \/ task'[p][k] = mem[p][k]
           \/ mem[p][k].status \in OpenStatuses /\ task'[p][k] = NoTask
  <1>1. ~(p \in Opened(pol, db, mem) /\ k = FirstFree(mem, p))
    BY OpenedPolicies
  <1> QED
    BY <1>1, SyncRows

\* A step that leaves policies and tasks alone.
LEMMA SameTables ==
    ASSUME Tables, UNCHANGED <<policy, task>>, TypeOK'
    PROVE  TableStep
  <1>1. task \in Rows /\ \A p \in Policies, k \in Slots : task[p][k] \in TaskRow
    BY DEF Tables, SoundRows, Rows
  <1>2. \A p \in Policies, k \in Slots : RowKept(policy, task[p][k], task'[p][k])
    BY Kinds DEF RowKept
  <1> QED
    BY <1>2 DEF TableStep, Tables, Grows

\* A sync, started with the tasks as they are except for one row that has been
\* renewed in memory at most.
LEMMA SyncStep ==
    ASSUME Tables, NEW pol \in PolicyTable, Grows(policy, pol),
           NEW db, NEW mem, SoundRows(pol, mem), SyncWith(pol, db, mem),
           \A p \in Policies, k \in Slots :
              /\ task[p][k].status # AbsentStatus => mem[p][k].status # AbsentStatus
              /\ task[p][k].status \in ClosedStatuses =>
                    mem[p][k].status \in ClosedStatuses /\ mem[p][k].num = task[p][k].num
              /\ RowKept(policy, task[p][k], mem[p][k])
    PROVE  /\ SoundRows(pol, task')
           /\ noticed' \subseteq Users \X Policies \X Slots
           /\ urgent' \subseteq Users \X Policies
           /\ \A p \in Policies, k \in Slots : RowKept(policy, task[p][k], task'[p][k])
  <1>1. mem \in Rows
    BY DEF SoundRows
  <1>2. /\ SoundRows(pol, task')
        /\ noticed' \subseteq Users \X Policies \X Slots
        /\ urgent' \subseteq Users \X Policies
    BY <1>1, SyncSound, SyncNotices DEF Tables
  <1>3. ASSUME NEW p \in Policies, NEW k \in Slots
        PROVE  RowKept(policy, task[p][k], task'[p][k])
    <2>1. CASE task[p][k].status = AbsentStatus
      <3>1. task[p][k] = NoTask
        BY <2>1 DEF Tables, SoundRows, SoundRow
      <3> QED
        BY <2>1, <3>1, Kinds DEF RowKept, NoTask
    <2>2. CASE task[p][k].status # AbsentStatus
      <3>1. \/ task'[p][k] = mem[p][k]
            \/ mem[p][k].status \in OpenStatuses /\ task'[p][k] = NoTask
        BY <2>2, <1>1, SyncLeaves
      <3>2. NoTask.status = AbsentStatus
        BY DEF NoTask
      <3> QED
        BY <3>1, <3>2, Kinds DEF RowKept
    <2> QED
      BY <2>1, <2>2
  <1> QED
    BY <1>2, <1>3

\* Waking keeps every row.
LEMMA WakeKeeps ==
    ASSUME Tables, NEW p \in Policies, NEW k \in Slots
    PROVE  LET old == task[p][k]
               new == WakeExpiredSnoozes(task)[p][k]
           IN  /\ old.status # AbsentStatus => new.status # AbsentStatus
               /\ old.status \in ClosedStatuses => new.status \in ClosedStatuses
               /\ new.link = old.link /\ new.num = old.num
               /\ RowKept(policy, old, new)
  <1>1. task \in Rows
    BY DEF Tables, SoundRows
  <1> QED
    BY <1>1, WakeRow, Kinds DEF RowKept

\* The sync at the end of a request that has put the policies pol in place.
LEMMA SyncAfterStep ==
    ASSUME Tables, NEW pol \in PolicyTable, Grows(policy, pol), SyncAfter(pol, task)
    PROVE  /\ SoundRows(pol, task')
           /\ noticed' \subseteq Users \X Policies \X Slots
           /\ urgent' \subseteq Users \X Policies
           /\ \A p \in Policies, k \in Slots : RowKept(policy, task[p][k], task'[p][k])
  <1> DEFINE db == WakeExpiredSnoozes(task)
  <1>1. SoundRows(pol, db) /\ SyncWith(pol, db, db)
    BY GrowSound, WakeSound DEF Tables, Grows, SyncAfter
  <1>2. \A p \in Policies, k \in Slots :
          /\ task[p][k].status # AbsentStatus => db[p][k].status # AbsentStatus
          /\ task[p][k].status \in ClosedStatuses =>
                db[p][k].status \in ClosedStatuses /\ db[p][k].num = task[p][k].num
          /\ RowKept(policy, task[p][k], db[p][k])
    BY WakeKeeps
  <1> HIDE DEF db
  <1> QED
    BY <1>1, <1>2, SyncStep

\* One row that is present is written, and keeps its number and its link.
LEMMA WriteStep ==
    ASSUME Tables, NEW p \in Policies, NEW k \in Slots, NEW row \in TaskRow,
           task[p][k].status # AbsentStatus, row.status # AbsentStatus,
           row.status = "RENEWED" => task[p][k].status = "RENEWED",
           row.num = task[p][k].num, row.link = task[p][k].link,
           task' = [task EXCEPT ![p][k] = row],
           UNCHANGED <<policy, archived, active, noticed, urgent>>
    PROVE  TableStep
  <1>1. SoundRow(policy, p, row)
    BY DEF Tables, SoundRows, SoundRow
  <1>2. SoundRows(policy, task')
    BY <1>1, WriteSound DEF Tables
  <1>3. \A q \in Policies, j \in Slots :
          task'[q][j] = IF q = p /\ j = k THEN row ELSE task[q][j]
    BY DEF Tables, SoundRows, Rows
  <1>4. \A q \in Policies, j \in Slots : RowKept(policy, task[q][j], task'[q][j])
    BY <1>3, Kinds DEF RowKept
  <1> QED
    BY <1>2, <1>4 DEF TableStep, Tables, TypeOK, SoundRows, Rows, Grows

\* A new row with a number nobody has is added for a policy pol holds.
LEMMA AddStep ==
    ASSUME Tables, NEW pol \in PolicyTable, Grows(policy, pol), policy' = pol,
           NEW p \in Policies, NEW k \in Slots, NEW n \in Nat,
           pol[p].state # "absent",
           task[p][k].status = AbsentStatus,
           \A q \in Policies, j \in Slots : task[q][j].status # AbsentStatus =>
               task[q][j].num # n,
           task' = [task EXCEPT ![p][k] = NewTask(n)],
           UNCHANGED <<archived, active, noticed, urgent>>
    PROVE  TableStep
  <1> DEFINE row == NewTask(n)
  <1>1. /\ row \in TaskRow /\ row.status = "IN_PROGRESS"
        /\ row.link = NoPolicy /\ row.num = n
    BY NewRows
  <1>2. SoundRow(pol, p, row)
    BY <1>1 DEF SoundRow
  <1>3. SoundRows(pol, task)
    BY GrowSound DEF Tables, Grows
  <1> HIDE DEF row
  <1>4. task' = [task EXCEPT ![p][k] = row]
    BY DEF row
  <1>5. SoundRows(pol, task')
    <2>1. \A q \in Policies, j \in Slots : task[q][j].status # AbsentStatus =>
            task[q][j].num # row.num
      BY <1>1
    <2>2. SoundRows(pol, [task EXCEPT ![p][k] = row])
      BY <1>1, <1>2, <1>3, <2>1, WriteSound
    <2> QED
      BY <1>4, <2>2
  <1>6. task[p][k] = NoTask
    BY DEF Tables, SoundRows, SoundRow
  <1>7. \A q \in Policies, j \in Slots :
          (q = p /\ j = k) \/ task'[q][j] = task[q][j]
    BY <1>4 DEF Tables, SoundRows, Rows
  <1>8. \A q \in Policies, j \in Slots : RowKept(policy, task[q][j], task'[q][j])
    BY <1>6, <1>7, Kinds DEF RowKept, NoTask
  <1> QED
    BY <1>5, <1>8 DEF TableStep, Tables, TypeOK, SoundRows, Rows, PolicyTable

\* A new row at number max + 1.
LEMMA AddTaskStep ==
    ASSUME Tables, NEW pol \in PolicyTable, Grows(policy, pol), policy' = pol,
           NEW p \in Policies, pol[p].state # "absent", AddTask(p),
           UNCHANGED <<archived, active, noticed, urgent>>
    PROVE  TableStep
  <1> DEFINE k == FirstFree(task, p)
             used == NumbersUsed(task)
  <1>1. k \in Slots /\ task[p][k].status = AbsentStatus
    BY FirstFreeSlot DEF AddTask
  <1>2. PICK base \in used \cup {0} :
          /\ IsHighest(base, used)
          /\ task' = [task EXCEPT ![p][k] = NewTask(base + 1)]
    BY DEF AddTask
  <1>3. used \subseteq Nat /\ \A q \in Policies, j \in Slots : task[q][j].num \in used
    BY UsedNumbers DEF Tables, SoundRows
  <1> HIDE DEF k, used
  <1>4. base + 1 \in Nat /\ \A n \in used : n # base + 1
    BY <1>2, <1>3 DEF IsHighest
  <1>5. \A q \in Policies, j \in Slots : task[q][j].num # base + 1
    BY <1>3, <1>4
  <1> QED
    BY <1>1, <1>2, <1>4, <1>5, AddStep

\* A renewal commits a new policy and, in one present row, the link to it: the
\* rest of the row is what the request makes of the row it had loaded.
LEMMA RenewalStep ==
    ASSUME Tables, NEW p \in Policies, NEW k \in Slots, NEW q \in Policies,
           NEW left \in -1..Horizon, NEW refs \in SUBSET Refs, NEW row \in TaskRow,
           task[p][k].status # AbsentStatus, policy[q].state = "absent",
           row.status = "RENEWED", row.link = q, row.num = task[p][k].num,
           CommitRenewal(p, k, row, q, left, refs)
    PROVE  TableStep
  <1> DEFINE pol == [policy EXCEPT ![q] = NewPolicy(left, refs)]
             db == WakeExpiredSnoozes(task)
             mem == [db EXCEPT ![p][k] = row]
  <1>1. /\ policy' = pol
        /\ SyncWith(pol, db, mem)
        /\ UNCHANGED <<archived, active>>
    BY DEF CommitRenewal
  <1>2. /\ pol \in PolicyTable /\ Grows(policy, pol)
        /\ pol[q].state # "absent"
    BY DEF Tables, TypeOK, PolicyTable, PolicyRow, NewPolicy, Grows
  <1> HIDE DEF pol
  <1>3. SoundRows(pol, db)
    BY <1>2, GrowSound, WakeSound DEF Tables, Grows
  <1>4. \A o \in Policies, j \in Slots : SoundRow(policy, o, task[o][j])
    BY DEF Tables, SoundRows
  <1>5. SoundRow(pol, p, row)
    <2>1. policy[p].state # "absent"
      BY <1>4 DEF SoundRow
    <2> QED
      BY <2>1, <1>2, PoliciesAssumption DEF SoundRow, Grows
  <1>6. \A o \in Policies, j \in Slots :
          /\ task[o][j].status # AbsentStatus => db[o][j].status # AbsentStatus
          /\ task[o][j].status \in ClosedStatuses =>
                db[o][j].status \in ClosedStatuses /\ db[o][j].num = task[o][j].num
          /\ RowKept(policy, task[o][j], db[o][j])
          /\ db[o][j].link = task[o][j].link /\ db[o][j].num = task[o][j].num
    BY WakeKeeps
  <1>7. \A o \in Policies, j \in Slots : db[o][j].link # row.link
    BY <1>4, <1>6, PoliciesAssumption DEF SoundRow
  <1> HIDE DEF db, mem
  <1>8. SoundRows(pol, mem)
    BY <1>3, <1>5, <1>6, <1>7, WriteSound DEF mem
  <1>9. \A o \in Policies, j \in Slots :
          mem[o][j] = IF o = p /\ j = k THEN row ELSE db[o][j]
    BY <1>3 DEF mem, SoundRows, Rows
  <1>10. RowKept(policy, task[p][k], row) /\ row.status \in ClosedStatuses
    BY PoliciesAssumption DEF RowKept, ClosedStatuses
  <1>11. /\ SoundRows(pol, task')
         /\ noticed' \subseteq Users \X Policies \X Slots
         /\ urgent' \subseteq Users \X Policies
         /\ \A o \in Policies, j \in Slots : RowKept(policy, task[o][j], task'[o][j])
    <2>1. \A o \in Policies, j \in Slots :
            /\ task[o][j].status # AbsentStatus => mem[o][j].status # AbsentStatus
            /\ task[o][j].status \in ClosedStatuses =>
                  mem[o][j].status \in ClosedStatuses /\ mem[o][j].num = task[o][j].num
            /\ RowKept(policy, task[o][j], mem[o][j])
      BY <1>6, <1>9, <1>10, Kinds
    <2> QED
      BY <1>1, <1>2, <1>8, <2>1, SyncStep
  <1> QED
    BY <1>1, <1>2, <1>11 DEF TableStep, Tables, TypeOK, SoundRows, Rows, PolicyTable

-----------------------------------------------------------------------------
(* What else commits                                                       *)

\* Archived refs, accounts, days and snoozes; a snooze may end in a row that
\* another request has closed.
LEMMA SurroundingsStep ==
    ASSUME Tables, Surroundings
    PROVE  TableStep
  <1>1. TypeOK /\ SoundRows(policy, task)
    BY DEF Tables
  <1>2. ASSUME NEW r \in Refs, ArchiveRef(r) \/ RestoreRef(r)
        PROVE  TableStep
    BY <1>1, <1>2, SameTables DEF TypeOK, ArchiveRef, RestoreRef
  <1>3. ASSUME NEW u \in Users, SetActive(u)
        PROVE  TableStep
    BY <1>1, <1>3, SameTables DEF TypeOK, SetActive
  <1>4. ASSUME NewDay
        PROVE  TableStep
    <2>1. policy' \in PolicyTable /\ \A p \in Policies : policy'[p].state = policy[p].state
      BY <1>1, <1>4, DayOver
    <2>2. SoundRows(policy', task)
      BY <1>1, <2>1, GrowSound
    <2>3. \A p \in Policies, k \in Slots : RowKept(policy, task[p][k], task'[p][k])
      BY <1>4, Kinds DEF NewDay, RowKept
    <2> QED
      BY <1>1, <1>4, <2>1, <2>2, <2>3 DEF TableStep, Tables, TypeOK, PolicyTable, Grows, NewDay
  <1>5. ASSUME NEW p \in Policies, NEW k \in Slots, SnoozeEnds(p, k)
        PROVE  TableStep
    <2> DEFINE row == [task[p][k] EXCEPT !.snooze = "due"]
    <2>1. /\ task[p][k].snooze = "pending"
          /\ task' = [task EXCEPT ![p][k] = row]
      BY <1>1, <1>5 DEF SnoozeEnds, SoundRows, Rows
    <2>2. task[p][k] \in TaskRow /\ task[p][k].status # AbsentStatus
      BY <1>1, <2>1 DEF SoundRows, SoundRow, Rows, NoTask
    <2>3. /\ row \in TaskRow /\ row.status = task[p][k].status
          /\ row.link = task[p][k].link /\ row.num = task[p][k].num
      BY <2>2 DEF TaskRow
    <2>4. UNCHANGED <<policy, archived, active, noticed, urgent>>
      BY <1>5 DEF SnoozeEnds
    <2> HIDE DEF row
    <2> QED
      BY <2>1, <2>2, <2>3, <2>4, WriteStep
  <1> QED
    BY <1>2, <1>3, <1>4, <1>5 DEF Surroundings

\* Every step of the other requests, the hourly job and the surroundings.
LEMMA OthersStep ==
    ASSUME Tables, Others
    PROVE  TableStep
  <1>1. TypeOK /\ SoundRows(policy, task) /\ policy \in PolicyTable /\ Grows(policy, policy)
    BY DEF Tables, TypeOK, PolicyTable, Grows
  <1>2. ASSUME NEW pol \in PolicyTable, Grows(policy, pol), SyncAfter(pol, task),
               policy' \in PolicyTable, Grows(pol, policy'), UNCHANGED <<archived, active>>
        PROVE  TableStep
    <2>1. /\ SoundRows(pol, task')
          /\ noticed' \subseteq Users \X Policies \X Slots
          /\ urgent' \subseteq Users \X Policies
          /\ \A p \in Policies, k \in Slots : RowKept(policy, task[p][k], task'[p][k])
      BY <1>2, SyncAfterStep
    <2>2. SoundRows(policy', task') /\ Grows(policy, policy')
      BY <1>2, <2>1, GrowSound DEF Grows
    <2> QED
      BY <1>1, <1>2, <2>1, <2>2 DEF TableStep, Tables, TypeOK, SoundRows, Rows, PolicyTable
  <1>3. CASE Sync
    BY <1>1, <1>2, <1>3 DEF Sync
  <1>4. CASE SyncCachedAtBoot
    <2>1. SoundRows(policy, task')
      BY <1>1, <1>4, WakeSound DEF SyncCachedAtBoot
    <2>2. \A p \in Policies, k \in Slots : RowKept(policy, task[p][k], task'[p][k])
      BY <1>4, WakeKeeps DEF SyncCachedAtBoot
    <2> QED
      BY <1>1, <1>4, <2>1, <2>2
      DEF TableStep, Tables, TypeOK, SoundRows, Rows, Grows, SyncCachedAtBoot
  <1>5. ASSUME NEW p \in Policies, ArchivePolicy(p) \/ RestorePolicy(p)
        PROVE  TableStep
    <2>1. SyncAfter(policy, task) /\ UNCHANGED <<archived, active>>
      BY <1>5 DEF ArchivePolicy, RestorePolicy
    <2>2. PICK s \in {"live", "archived"} : policy' = [policy EXCEPT ![p].state = s]
      BY <1>5 DEF ArchivePolicy, RestorePolicy
    <2>3. policy' \in PolicyTable /\ Grows(policy, policy')
      BY <1>1, <2>2 DEF PolicyTable, PolicyRow, Grows
    <2> QED
      BY <1>1, <1>2, <2>1, <2>3
  <1>6. ASSUME NEW p \in Policies, NEW left \in -1..Horizon, NEW refs \in PolicyRefs,
               CreatePolicy(p, left, refs) \/ UpdatePolicy(p, left, refs)
        PROVE  TableStep
    <2> DEFINE pol == [policy EXCEPT ![p] = NewPolicy(left, refs)]
    <2>1. policy' = pol /\ SyncAfter(pol, task) /\ UNCHANGED <<archived, active>>
      BY <1>6 DEF CreatePolicy, UpdatePolicy
    <2>2. pol \in PolicyTable /\ Grows(policy, pol)
      BY <1>1, PolicyPut DEF Grows
    <2> HIDE DEF pol
    <2>3. Grows(pol, pol)
      BY DEF Grows
    <2> QED
      BY <1>2, <2>1, <2>2, <2>3
  <1>7. ASSUME NEW p \in Policies, NEW left \in -1..Horizon, NEW refs \in PolicyRefs,
               CreateManualTaskAndPolicy(p, left, refs)
        PROVE  TableStep
    <2> DEFINE pol == [policy EXCEPT ![p] = NewPolicy(left, refs)]
    <2>1. /\ policy' = pol
          /\ AddTask(p)
          /\ UNCHANGED <<archived, active, noticed, urgent>>
      BY <1>7 DEF CreateManualTaskAndPolicy
    <2>2. pol \in PolicyTable /\ Grows(policy, pol) /\ pol[p].state # "absent"
      BY <1>1, PolicyPut DEF Grows
    <2> HIDE DEF pol
    <2> QED
      BY <2>1, <2>2, AddTaskStep
  <1> QED
    BY <1>3, <1>4, <1>5, <1>6, <1>7, SurroundingsStep DEF Others

-----------------------------------------------------------------------------
(* What the requests know                                                  *)

\* An idle worker knows nothing that could go stale.
LEMMA IdleSound ==
    ASSUME NEW pol, NEW rows
    PROVE  Idle \in Request /\ SoundRequest(pol, rows, Idle)
  BY NewRows DEF Idle, Request, SoundRequest

\* What a request knows survives any step on the tables: rows are forgotten when
\* they go, and policies never go.
LEMMA StaleSound ==
    ASSUME NEW pol, NEW pol2, NEW rows, NEW rows2, NEW r \in Request,
           Grows(pol, pol2), SoundRequest(pol, rows, r)
    PROVE  /\ ForgetGone(r, rows2) \in Request
           /\ SoundRequest(pol2, rows2, ForgetGone(r, rows2))
  <1>1. CASE RowGone(r, rows2)
    <2> DEFINE s == [r EXCEPT !.row = NoTask]
    <2>1. s \in Request
      BY NewRows DEF Request
    <2>2. /\ s.op = r.op /\ s.p = r.p /\ s.k = r.k /\ s.mode = r.mode /\ s.q = r.q
          /\ s.row = NoTask
      BY DEF Request
    <2>3. ForgetGone(r, rows2) = s
      BY <1>1 DEF ForgetGone
    <2> HIDE DEF s
    <2>4. SoundRequest(pol2, rows2, s)
      BY <2>2 DEF SoundRequest, Grows
    <2> QED
      BY <2>1, <2>3, <2>4
  <1>2. CASE ~RowGone(r, rows2)
    <2>1. ForgetGone(r, rows2) = r
      BY <1>2 DEF ForgetGone
    <2>2. r.row \in TaskRow
      BY DEF Request
    <2>3. SoundRequest(pol2, rows2, r)
      BY <1>2, <2>2 DEF SoundRequest, Grows, RowGone, TaskRow
    <2> QED
      BY <2>1, <2>3
  <1> QED
    BY <1>1, <1>2

\* A request that only reads, and knows something sound afterwards.
LEMMA ReadsInv ==
    ASSUME RacesInv, NEW w \in Workers, NEW r \in Request,
           SoundRequest(policy, task, r), Reads(w, r), begun' \in Nat
    PROVE  RacesInv' /\ TableStep
  <1>1. Tables /\ TypeOK' /\ UNCHANGED <<policy, task>>
    BY DEF RacesInv, Tables, Reads, vars, TypeOK
  <1>2. TableStep
    BY <1>1, SameTables
  <1>3. \A v \in Workers : /\ req'[v] \in Request
                           /\ SoundRequest(policy', task', req'[v])
    BY <1>1 DEF RacesInv, RacesTypeOK, Reads
  <1>4. req' \in [Workers -> Request]
    BY <1>3 DEF RacesInv, RacesTypeOK, Reads
  <1> QED
    BY <1>2, <1>3, <1>4 DEF RacesInv, RacesTypeOK, TableStep, Tables

\* A request that fails.
LEMMA FailsInv ==
    ASSUME RacesInv, NEW w \in Workers, Fails(w), begun' = begun
    PROVE  RacesInv' /\ TableStep
  BY IdleSound, ReadsInv DEF Fails, RacesInv, RacesTypeOK

\* A commit: the other requests learn of the rows that are gone.
LEMMA CommitInv ==
    ASSUME RacesInv, TableStep, begun' = begun,
           NobodyDone \/ \E w \in Workers : Done(w)
    PROVE  RacesInv'
  <1>1. \A v \in Workers : req[v] \in Request /\ SoundRequest(policy, task, req[v])
    BY DEF RacesInv, RacesTypeOK
  <1>2. \A v \in Workers : /\ ForgetGone(req[v], task') \in Request
                           /\ SoundRequest(policy', task', ForgetGone(req[v], task'))
    BY <1>1, StaleSound DEF TableStep
  <1>3. Idle \in Request /\ SoundRequest(policy', task', Idle)
    BY IdleSound
  <1>4. /\ req' \in [Workers -> Request]
        /\ \A v \in Workers : SoundRequest(policy', task', req'[v])
    <2>1. CASE NobodyDone
      BY <1>2, <2>1 DEF NobodyDone
    <2>2. CASE \E w \in Workers : Done(w)
      BY <1>2, <1>3, <2>2 DEF Done
    <2> QED
      BY <2>1, <2>2
  <1> QED
    BY <1>4 DEF RacesInv, RacesTypeOK, TableStep, Tables

-----------------------------------------------------------------------------
(* Reads                                                                   *)

\* What a request has just loaded is sound.
LEMMA LoadsInv ==
    ASSUME RacesInv, NEW w \in Workers, Loads(w)
    PROVE  RacesInv' /\ TableStep
  <1>1. begun' \in Nat
    BY DEF Loads, RacesInv, RacesTypeOK
  <1>2. /\ \A p \in Policies, k \in Slots :
             /\ task[p][k] \in TaskRow
             /\ SoundRow(policy, p, task[p][k])
             /\ AfterLoad(task[p][k]) \in {"loaded", "ready"}
        /\ NoTask \in TaskRow
    BY NewRows DEF RacesInv, Tables, SoundRows, Rows, AfterLoad
  <1>3. PICK p \in Policies :
          \/ LoadToCreate(w, p)
          \/ \E k \in Slots :
                \/ \E mode \in PostponeModes : LoadToPostpone(w, p, k, mode)
                \/ LoadToDecline(w, p, k)
                \/ \E q \in Policies, refs \in PolicyRefs : LoadToRenew(w, p, k, q, refs)
    BY DEF Loads
  <1>4. CASE LoadToCreate(w, p)
    <2> DEFINE r == [Idle EXCEPT !.op = "create", !.stage = "loaded", !.p = p]
    <2>1. r \in Request
      BY <1>2 DEF Idle, Request
    <2>2. policy[p].state # "absent" /\ Reads(w, r)
      BY <1>4 DEF LoadToCreate
    <2>3. SoundRequest(policy, task, r)
      BY <2>2 DEF Idle, SoundRequest
    <2> HIDE DEF r
    <2> QED
      BY <1>1, <2>1, <2>2, <2>3, ReadsInv
  <1>5. ASSUME NEW k \in Slots, NEW mode \in PostponeModes, LoadToPostpone(w, p, k, mode)
        PROVE  RacesInv' /\ TableStep
    <2> DEFINE r == [Idle EXCEPT !.op = "postpone", !.stage = AfterLoad(task[p][k]),
                                 !.p = p, !.k = k, !.row = task[p][k], !.mode = mode]
    <2>1. r \in Request
      BY <1>2 DEF Idle, Request
    <2>2. task[p][k].status # AbsentStatus /\ Reads(w, r)
      BY <1>5 DEF LoadToPostpone
    <2>3. SoundRequest(policy, task, r)
      BY <1>2, <2>2 DEF Idle, SoundRequest, SoundRow
    <2> HIDE DEF r
    <2> QED
      BY <1>1, <2>1, <2>2, <2>3, ReadsInv
  <1>6. ASSUME NEW k \in Slots, LoadToDecline(w, p, k)
        PROVE  RacesInv' /\ TableStep
    <2> DEFINE r == [Idle EXCEPT !.op = "decline", !.stage = AfterLoad(task[p][k]),
                                 !.p = p, !.k = k, !.row = task[p][k]]
    <2>1. r \in Request
      BY <1>2 DEF Idle, Request
    <2>2. task[p][k].status # AbsentStatus /\ Reads(w, r)
      BY <1>6 DEF LoadToDecline
    <2>3. SoundRequest(policy, task, r)
      BY <1>2, <2>2 DEF Idle, SoundRequest, SoundRow
    <2> HIDE DEF r
    <2> QED
      BY <1>1, <2>1, <2>2, <2>3, ReadsInv
  <1>7. ASSUME NEW k \in Slots, NEW q \in Policies, NEW refs \in PolicyRefs,
               LoadToRenew(w, p, k, q, refs)
        PROVE  RacesInv' /\ TableStep
    <2> DEFINE r == [Idle EXCEPT !.op = "renew", !.stage = "loaded",
                                 !.p = p, !.k = k, !.row = task[p][k],
                                 !.q = q, !.refs = refs]
    <2>1. r \in Request
      BY <1>2 DEF Idle, Request, PolicyRefs
    <2>2. task[p][k].status \in OpenStatuses /\ Reads(w, r)
      BY <1>7 DEF LoadToRenew
    <2>3. SoundRequest(policy, task, r)
      BY <1>2, <2>2, Kinds DEF Idle, SoundRequest, SoundRow
    <2> HIDE DEF r
    <2> QED
      BY <1>1, <2>1, <2>2, <2>3, ReadsInv
  <1> QED
    BY <1>3, <1>4, <1>5, <1>6, <1>7

\* A check changes the stage of its request, and the number it will use.
LEMMA ChecksInv ==
    ASSUME RacesInv, NEW w \in Workers, Checks(w)
    PROVE  RacesInv' /\ TableStep
  <1> DEFINE r == req[w]
  <1>1. r \in Request /\ SoundRequest(policy, task, r) /\ begun' = begun /\ begun \in Nat
    BY DEF RacesInv, RacesTypeOK, Checks
  <1>2. \A stage \in {"checked", "ready"} :
          Reads(w, [r EXCEPT !.stage = stage]) => RacesInv' /\ TableStep
    <2> SUFFICES ASSUME NEW stage \in {"checked", "ready"},
                        Reads(w, [r EXCEPT !.stage = stage])
                 PROVE  RacesInv' /\ TableStep
      OBVIOUS
    <2> DEFINE s == [r EXCEPT !.stage = stage]
    <2>1. s \in Request /\ SoundRequest(policy, task, s)
      BY <1>1 DEF Request, SoundRequest
    <2> HIDE DEF s
    <2> QED
      BY <1>1, <2>1, ReadsInv DEF s
  <1>3. \A num \in Nat :
          Reads(w, [r EXCEPT !.stage = "ready", !.num = num]) => RacesInv' /\ TableStep
    <2> SUFFICES ASSUME NEW num \in Nat,
                        Reads(w, [r EXCEPT !.stage = "ready", !.num = num])
                 PROVE  RacesInv' /\ TableStep
      OBVIOUS
    <2> DEFINE s == [r EXCEPT !.stage = "ready", !.num = num]
    <2>1. s \in Request /\ SoundRequest(policy, task, s)
      <3>1. s \in Request
        BY <1>1 DEF Request
      <3>2. /\ s.op = r.op /\ s.p = r.p /\ s.k = r.k /\ s.row = r.row
            /\ s.mode = r.mode /\ s.q = r.q
        BY <1>1 DEF Request
      <3> HIDE DEF s
      <3>3. SoundRequest(policy, task, s)
        BY <1>1, <3>2 DEF SoundRequest
      <3> QED BY <3>1, <3>3
    <2> HIDE DEF s
    <2> QED
      BY <1>1, <2>1, ReadsInv DEF s
  <1>4. CASE Fails(w)
    BY <1>1, <1>4, FailsInv
  <1>5. CASE CheckReopen(w) \/ CheckRefs(w) \/ CheckNoOpenTask(w)
    BY <1>2, <1>4, <1>5 DEF CheckReopen, CheckRefs, CheckNoOpenTask
  <1>6. CASE ReadHighestNumber(w)
    <2>1. PICK base \in NumbersUsed(task) \cup {0} :
            Reads(w, [r EXCEPT !.stage = "ready", !.num = base + 1])
      BY <1>6 DEF ReadHighestNumber
    <2>2. base + 1 \in Nat
      BY <2>1, UsedNumbers DEF RacesInv, Tables, SoundRows
    <2> QED
      BY <1>3, <2>1, <2>2
  <1> QED
    BY <1>5, <1>6 DEF Checks

-----------------------------------------------------------------------------
(* Writes                                                                  *)

\* The UPDATE of a decision keeps the number and the link the row has now; its
\* status is the new one, or the one the row has now if the session saw no change.
LEMMA FlushDecision ==
    ASSUME NEW row \in TaskRow, NEW seen \in TaskRow, NEW new \in TaskRow,
           new.link = seen.link
    PROVE  /\ Flush(row, seen, new) \in TaskRow
           /\ Flush(row, seen, new).num = row.num
           /\ Flush(row, seen, new).link = row.link
           /\ Flush(row, seen, new).status \in {new.status, row.status}
  BY DEF Flush, TaskRow

\* The UPDATE of a renewal sets status and link, whatever the row has become.
LEMMA FlushRenewal ==
    ASSUME NEW row \in TaskRow, NEW seen \in TaskRow, NEW q \in Policies,
           seen.status # "RENEWED", seen.link # q
    PROVE  LET new == Flush(row, seen, Renewed(seen, q))
           IN  /\ new \in TaskRow
               /\ new.num = row.num /\ new.link = q /\ new.status = "RENEWED"
  <1> DEFINE made == Renewed(seen, q)
  <1>1. /\ made \in TaskRow /\ made.status = "RENEWED" /\ made.link = q
    BY DEF Renewed, TaskRow, ClosedStatuses
  <1> HIDE DEF made
  <1>2. /\ Flush(row, seen, made) \in TaskRow
        /\ Flush(row, seen, made).num = row.num
        /\ Flush(row, seen, made).link = q
        /\ Flush(row, seen, made).status = "RENEWED"
    BY <1>1 DEF Flush, TaskRow
  <1> QED
    BY <1>2 DEF made

\* Postponing and declining.
LEMMA WriteTaskInv ==
    ASSUME RacesInv, NEW w \in Workers, begun' = begun,
           req[w].op \in {"postpone", "decline"}, NEW new \in TaskRow,
           new.link = req[w].row.link, new.status \in SnoozedStatuses \cup {"CLIENT_DECLINED"},
           WriteTask(w, new)
    PROVE  RacesInv' /\ TableStep
  <1> DEFINE r == req[w]
             row == Flush(task[r.p][r.k], r.row, new)
  <1>1. r \in Request /\ SoundRequest(policy, task, r) /\ Tables
    BY DEF RacesInv, RacesTypeOK
  <1>2. CASE r.row = NoTask
    BY <1>2, FailsInv DEF WriteTask
  <1>3. CASE r.row # NoTask
    <2>1. /\ r.p \in Policies /\ r.k \in Slots /\ r.row \in TaskRow
          /\ task[r.p][r.k].status # AbsentStatus
      BY <1>1, <1>3 DEF SoundRequest, Request
    <2>2. task[r.p][r.k] \in TaskRow
      BY <1>1, <2>1 DEF Tables, SoundRows, Rows
    <2>3. /\ row \in TaskRow
          /\ row.num = task[r.p][r.k].num /\ row.link = task[r.p][r.k].link
          /\ row.status \in {new.status, task[r.p][r.k].status}
      BY <2>1, <2>2, FlushDecision
    <2>4. new.status # AbsentStatus /\ new.status # "RENEWED"
      BY DEF SnoozedStatuses
    <2>5. /\ task' = [task EXCEPT ![r.p][r.k] = row]
          /\ Done(w)
          /\ UNCHANGED <<policy, archived, active, noticed, urgent>>
      BY <1>1, <1>3, <2>1 DEF WriteTask, Tables, SoundRows, Rows
    <2> HIDE DEF r, row
    <2>6. TableStep
      BY <1>1, <2>1, <2>3, <2>4, <2>5, WriteStep
    <2> QED
      BY <2>5, <2>6, CommitInv
  <1> QED
    BY <1>2, <1>3

\* Renewing: a policy that is new is linked, also if the row was decided
\* meanwhile.
LEMMA WriteRenewalInv ==
    ASSUME RacesInv, NEW w \in Workers, begun' = begun,
           NEW left \in -1..Horizon, WriteRenewal(w, left)
    PROVE  RacesInv' /\ TableStep
  <1> DEFINE r == req[w]
             woken == WakeExpiredSnoozes(task)[r.p][r.k]
             row == Flush(woken, r.row, Renewed(r.row, r.q))
  <1>1. r \in Request /\ SoundRequest(policy, task, r) /\ Tables
    BY DEF RacesInv, RacesTypeOK
  <1>2. CASE Fails(w)
    BY <1>2, FailsInv
  <1>3. CASE ~Fails(w)
    <2>1. /\ r.op = "renew" /\ r.row # NoTask
          /\ policy[r.q].state = "absent"
          /\ CommitRenewal(r.p, r.k, row, r.q, left, r.refs)
          /\ Done(w)
      BY <1>3 DEF WriteRenewal, KeyFree
    <2>2. /\ r.p \in Policies /\ r.k \in Slots /\ r.q \in Policies
          /\ r.refs \in SUBSET Refs /\ r.row \in TaskRow
          /\ r.row.status \in OpenStatuses
          /\ task[r.p][r.k].status # AbsentStatus
          /\ r.row.link # NoPolicy => policy[r.row.link].state # "absent"
      BY <1>1, <2>1 DEF SoundRequest, Request
    <2>3. r.row.status # "RENEWED" /\ r.row.link # r.q
      BY <2>1, <2>2, PoliciesAssumption DEF OpenStatuses, SnoozedStatuses
    <2>4. woken \in TaskRow /\ woken.num = task[r.p][r.k].num
      BY <1>1, <2>2, WakeRow DEF Tables, SoundRows
    <2>5. /\ row \in TaskRow
          /\ row.num = task[r.p][r.k].num /\ row.link = r.q /\ row.status = "RENEWED"
      BY <2>2, <2>3, <2>4, FlushRenewal
    <2> HIDE DEF r, row
    <2>6. TableStep
      BY <1>1, <2>1, <2>2, <2>5, RenewalStep
    <2> QED
      BY <2>1, <2>6, CommitInv
  <1> QED
    BY <1>2, <1>3

\* A task added by hand takes the number read before, if it is still free.
LEMMA WriteNewTaskInv ==
    ASSUME RacesInv, NEW w \in Workers, begun' = begun, WriteNewTask(w)
    PROVE  RacesInv' /\ TableStep
  <1> DEFINE r == req[w]
             k == FirstFree(task, r.p)
  <1>1. r \in Request /\ SoundRequest(policy, task, r) /\ Tables
    BY DEF RacesInv, RacesTypeOK
  <1>2. CASE Fails(w)
    BY <1>2, FailsInv
  <1>3. CASE ~Fails(w)
    <2>1. /\ r.op = "create" /\ NumberFree(r.num)
          /\ FreeSlots(task, r.p) # {}
          /\ task' = [task EXCEPT ![r.p][k] = NewTask(r.num)]
          /\ Done(w)
          /\ UNCHANGED <<policy, archived, active, noticed, urgent>>
      BY <1>3 DEF WriteNewTask
    <2>2. r.p \in Policies /\ policy[r.p].state # "absent" /\ r.num \in Nat
      BY <1>1, <2>1 DEF SoundRequest, Request
    <2>3. k \in Slots /\ task[r.p][k].status = AbsentStatus
      BY <2>1, FirstFreeSlot
    <2>4. \A q \in Policies, j \in Slots : task[q][j].num # r.num
      BY <1>1, <2>1, UsedNumbers DEF NumberFree, Tables, SoundRows
    <2>5. policy \in PolicyTable /\ Grows(policy, policy)
      BY <1>1 DEF Tables, TypeOK, PolicyTable, Grows
    <2>6. policy' = policy /\ UNCHANGED <<archived, active, noticed, urgent>>
      BY <2>1
    <2> HIDE DEF r, k
    <2>7. TableStep
      BY <1>1, <2>1, <2>2, <2>3, <2>4, <2>5, <2>6, AddStep
    <2> QED
      BY <2>1, <2>7, CommitInv
  <1> QED
    BY <1>2, <1>3

\* Any write of any request.
LEMMA WritesInv ==
    ASSUME RacesInv, NEW w \in Workers, Writes(w)
    PROVE  RacesInv' /\ TableStep
  <1> DEFINE r == req[w]
  <1>1. begun' = begun /\ r \in Request /\ SoundRequest(policy, task, r)
    BY DEF Writes, RacesInv, RacesTypeOK
  <1>2. r.row \in TaskRow
    BY <1>1 DEF Request
  <1>3. CASE WritePostpone(w)
    <2> DEFINE new == Postponed(r.row, r.mode)
    <2>1. r.op = "postpone" /\ WriteTask(w, new) /\ r.mode \in PostponeModes
      BY <1>1, <1>3 DEF WritePostpone, SoundRequest
    <2>2. r.mode \in SnoozedStatuses
      BY <2>1, ModesAssumption DEF SnoozedStatuses
    <2>3. new \in TaskRow /\ new.link = r.row.link /\ new.status = r.mode
      BY <1>2, <2>2 DEF Postponed, TaskRow, OpenStatuses
    <2> HIDE DEF new
    <2> QED
      BY <1>1, <2>1, <2>2, <2>3, WriteTaskInv
  <1>4. CASE WriteDecline(w)
    <2> DEFINE new == Declined(r.row)
    <2>1. r.op = "decline" /\ WriteTask(w, new)
      BY <1>4 DEF WriteDecline
    <2>2. new \in TaskRow /\ new.link = r.row.link /\ new.status = "CLIENT_DECLINED"
      BY <1>2 DEF Declined, TaskRow, ClosedStatuses
    <2> HIDE DEF new
    <2> QED
      BY <1>1, <2>1, <2>2, WriteTaskInv
  <1> QED
    BY <1>1, <1>3, <1>4, WriteRenewalInv, WriteNewTaskInv DEF Writes

-----------------------------------------------------------------------------
(* The theorems                                                            *)

\* Before the first request nothing is loaded and nothing is in the tables.
LEMMA RacesInitInv ==
    ASSUME RacesInit
    PROVE  RacesInv
  <1>1. Inv
    BY InitInv DEF RacesInit
  <1>2. Tables
    BY <1>1, GoodIsSound DEF Inv, Tables
  <1>3. \A w \in Workers : req[w] \in Request /\ SoundRequest(policy, task, req[w])
    BY IdleSound DEF RacesInit
  <1> QED
    BY <1>2, <1>3 DEF RacesInv, RacesTypeOK, RacesInit, Tables

\* Every step, of whichever requests, keeps the invariant and every decision.
LEMMA RacesStep ==
    ASSUME RacesInv, [RacesNext]_allVars
    PROVE  RacesInv' /\ TableStep
  <1>1. CASE RacesNext
    <2>1. CASE Others
      <3>1. TableStep /\ NobodyDone /\ begun' = begun
        BY <2>1, OthersStep DEF RacesInv, Others
      <3> QED
        BY <3>1, CommitInv
    <2> QED
      BY <1>1, <2>1, LoadsInv, ChecksInv, WritesInv DEF RacesNext
  <1>2. CASE UNCHANGED allVars
    <2>1. /\ Tables /\ TypeOK' /\ UNCHANGED <<policy, task, req, begun>>
      BY <1>2 DEF RacesInv, Tables, TypeOK, allVars
    <2>2. TableStep
      BY <2>1, SameTables
    <2> QED
      BY <2>1, <2>2 DEF RacesInv, RacesTypeOK, TableStep, Tables
  <1> QED
    BY <1>1, <1>2

\* However requests overlap, the tables stay sound, and so does what each
\* request believes of them.
THEOREM RacesInvariance == RacesSpec => []RacesInv
  <1>1. RacesInv /\ [RacesNext]_allVars => RacesInv'
    BY RacesStep
  <1> QED
    BY <1>1, RacesInitInv, PTL DEF RacesSpec

\* Tables and requests keep their types.
THEOREM RacesTypes == RacesSpec => []RacesTypeOK
  <1>1. RacesInv => RacesTypeOK
    BY DEF RacesInv
  <1> QED
    BY <1>1, RacesInvariance, PTL

\* The UNIQUE number is read in one step and used in another: still no two
\* tasks share one.
THEOREM RacesNumbersNeverRepeat == RacesSpec => []NumbersUnique
  <1>1. RacesInv => NumbersUnique
    BY DEF RacesInv, Tables, SoundRows, NumbersDiffer, NumbersUnique
  <1> QED
    BY <1>1, RacesInvariance, PTL

\* A renewed task leads to its own policy, whatever was loaded before whatever
\* was written.
THEOREM RacesLinksLead == RacesSpec => []RenewalLinks
  <1>1. RacesInv => RenewalLinks
    <2> SUFFICES ASSUME RacesInv, NEW p \in Policies, NEW q \in Policies,
                        NEW j \in Slots, NEW k \in Slots
                 PROVE  /\ task[p][j].status = "RENEWED" => task[p][j].link # NoPolicy
                        /\ task[p][j].link # NoPolicy =>
                              /\ task[p][j].link # p
                              /\ policy[task[p][j].link].state # "absent"
                              /\ task[p][j].link = task[q][k].link => <<p, j>> = <<q, k>>
      BY DEF RenewalLinks
    <2> QED
      BY DEF RacesInv, Tables, SoundRows, SoundRow, LinksDiffer
  <1> QED
    BY <1>1, RacesInvariance, PTL

\* No request and no sync deletes the row of a decided task, however old the
\* picture it acts on.
THEOREM RacesKeepDecisions == RacesSpec => DecisionsKept
  <1>1. RacesInv /\ [RacesNext]_allVars =>
          [\A p \in Policies, k \in Slots :
              task[p][k].status \in ClosedStatuses =>
                  /\ task'[p][k].status # AbsentStatus
                  /\ task'[p][k].num = task[p][k].num]_vars
    BY RacesStep DEF TableStep, RowKept
  <1> QED
    BY <1>1, RacesInvariance, PTL DEF RacesSpec, DecisionsKept

\* Whoever writes last, the policy issued for a task stays linked until another
\* one is issued for it.
THEOREM RacesKeepLinks == RacesSpec => LinksKept
  <1>1. RacesInv /\ [RacesNext]_allVars =>
          [\A p \in Policies, k \in Slots :
              /\ task[p][k].link # NoPolicy
              /\ task'[p][k].status # AbsentStatus
              => \/ task'[p][k].link = task[p][k].link
                 \/ /\ task'[p][k].link # NoPolicy
                    /\ policy[task'[p][k].link].state = "absent"]_allVars
    BY RacesStep DEF TableStep, RowKept
  <1> QED
    BY <1>1, RacesInvariance, PTL DEF RacesSpec, LinksKept

=============================================================================
