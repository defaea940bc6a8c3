# SelAkCRM: TLA+ models, checks and proofs

SelAkCRM is a CRM for an insurance agency: a FastAPI/SQLAlchemy service on one
SQLite file, a React client, a desktop shell around both, an offline licence
scheme, and a separate vendor tool (License Admin) that issues activation codes.
This directory models the parts of it that decide something, checks them with
TLC on small instances and proves the main results with TLAPS for all instances.

Paths below are relative to `src/`; `selakcrm/` stands for `backend/selakcrm/`,
files of the client are named by their last part.

## 1. Inventory

| Component | State | Operations | Hard behaviour | What makes it correct |
|---|---|---|---|---|
| Renewal engine (`services/renewal_sync.py`, `services/manual_renewal_task.py`, `routes/home_routes.py`) | `RenewalTask` rows, `HomeNotification` rows | hourly sync, sync on reading a task list, postpone, decline, renew, open by hand | the sync runs at the end of most requests, on a session with unflushed changes; requests overlap in a thread pool | one open task per policy, decided tasks kept, links and numbers unique, the sync settles and is repeatable, reminders come and stop |
| Policies (`routes/policies_routes.py`) | `Policy` rows, UNIQUE (company, number) | create, update, archive, restore, create from home | each ends with a sync, before or after its own write is flushed | a policy that needs a task gets one |
| Clients, companies, products | `deletedAt` of each | create, update, archive, restore | archived without a sync, while policies point at them | tasks of their policies are withdrawn by the next sync |
| Users, login, setup | `User` rows, failed attempts in memory | create, update, archive, restore, login, first setup | limit counted and enforced in two steps; audit of failures rolled back | at most 10 active users, one administrator at least, one setup |
| Role permissions (`RolePermissionsPanel.tsx` over one row per role) | the stored matrix, the panel's copy, the switches | load, choose a role, switch, save | a role chosen while another is saved | the rights shown are those of the role they are shown for |
| Licence guard (`licensing/`) | trial marker, licence cache (two files), clock, hardware id | state on every request, activate, redeem, deactivate | read-modify-write of files from three kinds of threads, crash in a write, clock set back, hardware replaced | an activated installation stays activated, the demo is not restarted, a code fits its key |
| License Admin (`license-admin/`) | ledger of seats, vault, audit (three files), all in memory | unlock, create key, issue code, deallocate, revoke | no lock, several files per operation | seats never exceed the limit, a reissue takes none, a restart loses nothing that was answered unless a file was cut short |
| Audit, analytics | audit rows | log, list, purge, reports | none | reports of committed rows |
| Domain helpers | none | income, dates, order of tasks, search tokens | rounding, boundaries | agree with their definition |
| Frontend: session and licence (`AuthProvider`, `useLicenseStatus`, `LicenseGate`, `LicenseActivation`, `LoginPage`, `SetupPage`) | token in session storage, user, address, the licence as last answered, the activation screen | sign-in and -out, set-up, theme, navigation, status requests and their timers, activation, reload | answers out of order, a provider that is unmounted with requests out, a gate that closes under the user | the user shown is the owner of the token; no licence, no work; a code opens the CRM |
| Frontend: tables (`TasksPage`, `PoliciesPage`, `ClientsPage`, `CompaniesPage`) | query, rows, number of pages | search with delay, turn pages, resize, reload after a dialog | a request per change of the query | the rows are those of the query shown |
| Frontend: home page (`HomePage`, `NotificationToasts`) | toasts, timers | load, show, acknowledge, leave | loads overlap, answers after the page was left | one toast per notice, and it goes |
| Frontend: dialogs (`RenewalTaskModal`, `ManualRenewalTaskModal`, `PolicyForm`, `ClientDetailsModal`, `PolicyDetailsModal`, forms of clients, companies and accounts) | what was entered, what was loaded, a busy flag | open, fill, send, close at any moment | a dialog is closed and opened for another row while its request is out | nothing is sent for one row that belongs to another |
| License Admin UI (`license-admin/ui`, `App.tsx`) | list, journal, code on show | unlock, create, issue, revoke, deallocate, refresh | refreshes of three requests that overlap, a server that restarts | the list shows every change that was answered |
| Desktop runtime, migrations, demo data | files | start-up | none | not modelled |

Interaction: a request goes through the licence gate (a middleware), then login
and permissions, then a handler with a database session of its own
(`database.get_db`), which commits when the handler returns and rolls back on any
exception. Handlers that change policies call the sync directly. The scheduler
runs the same sync every hour in its own thread. The client sends requests with
the token of the moment and shows what comes back; a refusal for want of a
licence makes its gate ask for the licence again. License Admin and the CRM meet
in codes that people carry from one to the other.

`PROJECT.json` lists the hazards of this code one by one, each at its line, with
the properties that cover it or the reason why none does.

## 2. Plan

1. `RenewalTasks`, `RenewalPromise`, `RenewalRaces` with their proofs (done).
2. `LicenseGuard`: trial, key, code, clock and hardware with whole requests, its
   properties proved. `LicenseCache`: the licence file under overlapping
   requests (done).
3. `LicenseAdmin`: ledger, vault, key pair and state file with failed writes,
   stops and files cut short, its properties proved; `LicenseAdminRaces` for the
   limit of seats when requests overlap (done).
4. `LicenseScreen` and `ClientSession`: one tab of the client, the second
   composed of the first and the session; its invariants proved (done).
5. A module per page or dialog of the client and for License Admin's page,
   composed in `Screens`; all their invariants proved (done).

6. `SeatPromise`, what the vendor's tool promises, and that `LicenseAdmin`
   implements it; proofs of what survives overlapping requests, in `RenewalRaces`
   and in `LicenseAdminRaces` (done).

To come: a composition of 2 and 3 (a code issued for a request is accepted by the
machine it was issued for, and by no other); an abstract specification of what
the licence guard promises; the notices that `RenewalTasks` writes composed with
`HomeToasts`, which shows them; `ensure_keys` and the writes of the vault as steps
of their own in `LicenseAdminRaces`.

Considered and left out, for the reasons in section 6: accounts and their limit,
login attempts and set-up as the server has them, and the pure functions (income,
order of the task list) against a reference definition.

## 3. Modules

### RenewalTasks - the engine, one request at a time

| TLA+ | Code |
|---|---|
| `policy[p]` (`state`, `left`, `refs`) | `Policy` row: absent / live / archived (`deletedAt`), days until `endDate` (-1: ended), client, company and product |
| `archived` | clients, companies and products with `deletedAt` |
| `task[p][k]` (`status`, `snooze`, `reason`, `link`, `num`) | `RenewalTask` rows of the policy: status, `snoozedUntil` (none / pending / due), whether `declineReason` is set, `renewedPolicyId`, `taskNumber` |
| `active` | users with `isActive` and no `deletedAt` |
| `noticed`, `urgent` | `HomeNotification` rows by their dedupe keys: of a task, of a policy and today |
| `WakeExpiredSnoozes`, `Scanned`, `Withdrawn`, `Opened`, `Reminded`, `NumbersLeft`, `AfterLoop`, `AfterNotices`, `SyncWith` | `RenewalSyncService.wake_expired_snoozes` and `_sync_core`: the query, and what its loop does with each policy |
| `Sync`, `SyncCachedAtBoot` | the hourly job and the task lists |
| `Postpone`, `Decline`, `Renew`, `CreateManualTask`, `CreateManualTaskAndPolicy` | the handlers of `/home/renewal-tasks/...` and `/home/tasks` |
| `CreatePolicy`, `UpdatePolicy`, `ArchivePolicy`, `RestorePolicy` | the handlers of `/policies` (and `/home/policies`) |
| `ArchiveRef`, `RestoreRef`, `SetActive` | archiving of clients, companies, products; changes of accounts |
| `NewDay`, `SnoozeEnds` | the passing of time |

Three details of the code shape the model:

- *The session does not autoflush.* A sync that ends a request sees in the
  database what the request has flushed, and in memory the rows it has changed.
  `SyncWith(pol, db, mem)` takes both. `ArchivePolicy` and `RestorePolicy` sync
  with the policy as it was before; `UpdatePolicy` flushes first and syncs with
  the new one; `Renew` has flushed the new policy but not the renewed task.
- *A row deleted under an unflushed change.* If the sync that ends a renewal
  withdraws the old policy, the bulk DELETE removes the task row whose UPDATE is
  still pending; that UPDATE then matches no row and the whole request rolls
  back, unless the loop has flushed before. `RenewalSurvives` says when.
- *The throttle of `sync_cached` never throttles*, since it assigns to the
  instance what it reads from the class; only within the first 20 seconds of the
  machine's monotonic clock does it skip the sync (`SyncCachedAtBoot`).

A policy is its UNIQUE key (company, number); a request that changes the number of a
policy is not modelled, as no task looks at it. `FirstFree` picks the
slot of a new row; a row's slot has no meaning beyond its identity. The loop
visits policies in the order of the model's integers, standing for the order of
the query.

### RenewalPromise - the abstract specification

For each policy one current task or none and a set of decided ones. A user
opens, decides or takes back; the background opens a first task or withdraws an
open one, and never touches what is decided. `RenewalTasks` refines it with the
open task as `current` and the closed ones as `decided`.

### RenewalRaces - overlapping requests

FastAPI runs the handlers in a thread pool. A pysqlite session is in no
transaction until its first write, so its SELECTs each see the latest commit,
and the identity map keeps a row as first loaded. A request on a task is thus a
load, a check or two, and one atomic write (SQLite has one writer, which holds the lock until it
commits). `Flush` is the ORM's UPDATE: only the columns that differ
from the loaded row. A row deleted meanwhile fails the request. Requests on
policies and references, and the sync, which starts with an UPDATE, stay single
steps.

### LicenseGuard - the licence, one request at a time

| TLA+ | Code |
|---|---|
| `cache` (`key`, `code`, `used`) | `license_cache.json`: the key (by its id), the activation code, `commercial_used` |
| `marker` (`hwid`, `started`, `seen`, `length`) | `TrialMarker`; `length` is `trial_days`, 0 once a licence was removed |
| `clock`, `machine` | `utcnow()`, `compute_hwid()` |
| `worked`, `licensed` | histories: FULL was answered; the key whose activation was confirmed and not withdrawn |
| `cut`, `CutShort` | `license_cache.json` was cut short, and nothing was confirmed since; a stop inside `_write` |
| `Answer`, `CommercialAnswer`, `TrialAnswer` | what `LicenseGuard.state` returns |
| `CacheAfter`, `MarkerAfter` | what `state` writes while it answers |
| `Ask` | the gate of every request, the hourly jobs, `GET /license/status` |
| `Activate`, `Redeem`, `Deactivate` | the handlers of `/license/...`, with `set_full_key`, `redeem_activation_code`, `clear_commercial_key` |
| `ClockMoves`, `MachineReplaced` | the surroundings |

The answer of the code's `state()` and its writes are two operators, since asking
is a part of every request: `/license/activate` and `/license/deactivate` ask,
change the files, and ask again for the status they return (`AskThenStore`).
A process may stop between two writes; `AskThenStop` is a request that gets as
far as some write and no further. It may also stop in a write of the licence file:
`write_text` empties the file first, and `_read` takes what it cannot parse for
`{}` (`CutShort`). Then key, code and `commercial_used` are gone, whoever asked, and
nothing can be said of them until the next activation (`cut`). A code is the pair of key and machine it was
signed for; a code that does not verify, a malformed key (refused with 400
before anything is stored) and a request without the right to make it change
nothing beyond `Ask`. One marker stands for the copies that
`licensing_bootstrap.py` keeps on Windows; one of them cut short leaves the others,
so that the marker as a whole is never torn.

### LicenseCache - overlapping requests on the licence file

The same requests, taken apart into accesses to the file. `todo[t]` is what
thread `t` still has to do: look at a field and decide (`Looks`), and, to save a
field, read the whole file (`ReadsAll`), empty it (`Truncates`: `write_text` opens
for writing) and fill it (`Fills`). A file that cannot be parsed (`Torn`) reads as
`{}`, as in `_read`. The demo's marker is another file and left out.

### LicenseAdmin - the vendor's tool, one request at a time

| TLA+ | Code |
|---|---|
| `running`, `unlocked`, `ledger`, `vault` | the process: `state.unlocked`, `state.licenses`, `state.vault` |
| `ledger[l]` (`status`, `max`, `seats`) | a `License`: status (or absent), `max_seats`, the hardware ids of its activations |
| `saltFile`, `vaultMade`, `vaultFile`, `stateFile` | `vault.salt`, `vault.bin` and the keys in it, `state.json` |
| `pair` | which generation of the key pair is in `private.pem`, `public.pem` and the CRM's copy |
| `torn` | the files whose last write was cut short |
| `created`, `held`, `withdrawn`, `signed` | histories of what was answered |
| `Start`, `Stop`, `MakeVault`, `Unlock` | the process, `unlock` |
| `EnsureKeys`, `EnsureKeysPartly` | `ensure_keys` as a whole, or up to one of its writes |
| `CreateLicense`, `Revoke`, `Deallocate`, `IssueActivationCode` | the handlers of the same names |

A request changes memory, then saves. `Saves` is the answered case. In `Unanswered`
either the write fails and memory stays changed, or the process stops before it
can answer. A write that does not succeed leaves the old file if it could not be
opened, and a torn one (`torn`) if it stopped half-way, since files are overwritten
in place. The tool does not start on a torn `state.json` (`json.loads` raises) and
does not unlock on a torn vault; until it stops it has everything in memory, and
the next save makes the file whole again. That is what `AnswersSurvive` says: only
a file that is torn when the process stops loses what was answered. `stateFile` and
`vaultFile` are what was last written whole.

A licence stands for its id, its key and its key id. A request code with
a wrong key, an unknown licence, and a wrong password are refused and change
nothing. Each request that changes the ledger is written with the list it has read
as a parameter (`StoresLicense`, `RevokeFrom`, `DeallocateFrom`, `IssueFrom`): here
the ledger itself, in `LicenseAdminRaces` the ledger as it was when the thread read
it.

### SeatPromise - the abstract specification

Licences sold with their seats, licences withdrawn, codes in use. The vendor gives
a code while a seat is free and the licence not withdrawn, or takes one back; terms
never change and a withdrawal is final. There is no memory and no file:
`LicenseAdmin` implements it with what `state.json` holds as sold and withdrawn
(`ImplementsSeats`), so that a restart is a stutter. A change whose save has failed
is written by the next save of anything; hence what is sold or withdrawn may come
to light in the same step as a code.

### LicenseAdminRaces - overlapping requests

FastAPI serves the handlers in threads. A request that creates, revokes, frees or
issues builds its own list of the ledger (`ReadLedger`), and later decides on that
list and stores all of it (`StoreLedger`); what others have stored in between is
overwritten. `SeatsWithinLimit` fails here; `LedgersWithinLimit` says what is left
of it. From the store on a request is one step, and so are `ensure_keys` and
`unlock`; since two of them at once could write two key pairs across each other
(`service.py:165`) or drop a key from the vault, nothing is claimed here of the key
pair and the vault.

### LicenseScreen and ClientSession - one tab of the client

| TLA+ | Code |
|---|---|
| `license`, `installed` | the server: what the guard answers, is there a first administrator |
| `gate` (`status`, `loading`, `error`, `timer`) | the state of `useLicenseStatus` in `LicenseGate`; the timer that asks again while in demo |
| `polls` (`id`, `seen`) | status requests under way, with the states the licence has been in since they were sent |
| `screen`, `post` | `LicenseActivation`: its own status, is a key being replaced; the request of its form |
| `token` | session storage |
| `me`, `loading` | `AuthProvider` |
| `path`, `asked` | the address; has the set-up page been told that a set-up is needed |
| `calls` (`kind`, `as`, `live`, ...) | requests under way: the token they carry, is the component that sent them still mounted |
| `StatusArrives`, `StatusFails`, `TimerFires`, `AskedAgain` | `refetch` and the effects of `useLicenseStatus`, the event that a refused request fires |
| `SubmitKey`, `KeyAnswered`, `SubmitCode`, `CodeAnswered`, `ReplaceKey`, `CancelReplacing` | `LicenseKeyForm`, `ActivationCodeForm`, `LicenseActivation` |
| `ProviderMounts`, `ProviderUnmounts` | what follows when the gate opens or closes |
| `MeArrives`, `MeFails`, `ThemeSaved`, `LoginArrives`, `LoginPageTold`, `SetupPageTold`, `SetupCompleted` | what follows the answers: `refresh`, `setSession`, the pages' effects and submits |
| `Go`, `Landed` | `navigate`, and where `App` and `AppLayout` send a visitor |
| `Logout`, `Navigate`, `Work`, `Reload` | the user |

The gate renders the whole application, so that losing the licence unmounts the
`AuthProvider` and finding it again mounts a new one, which takes the token from
session storage. What the unmounted provider had sent goes on: its `setState`
calls do nothing, its writes to session storage and its navigation still do.
That is what `live` is for. `refresh` does not look at whether the token is still
the one it asked with. `crossed` remembers that, at the last sign-in, sign-out or
mount, a request was out that might still write one of token and user alone; it is
the exception in `IdentityMatches`, which would be violated without it.

### Screens - the pages and dialogs

| Module | Code | State worth naming |
|---|---|---|
| `Dialogs` | `Modal` | what an input holds: nothing, something entered since the opening, something from `before` |
| `ListPages` | the four tables, `useDebouncedSearchQuery`, `ListPaginationFooter` | `query`, the answered query whose rows are shown (`rows`), requests listened to (`asked`), the query a saving dialog holds in its closure |
| `HomeToasts` | `HomePage`, `NotificationToasts` | `toasts`, `scheduled` and `timers`; `ghosts` are timers of a page that was left |
| `TaskDialog` | `RenewalTaskModal` | `view`, `fields`, `busy`, `posts` |
| `ManualTaskDialog` | `ManualRenewalTaskModal` | tab, search with its timer, what is on offer and what is picked |
| `PolicyDialog` | `PolicyForm`, `ClientCreateModal` | company chosen; whose products are asked for, on offer, chosen |
| `ClientCard` | `ClientDetailsModal`, `PolicyDetailsModal`, the edit form over them | answers with the key (`requestKey`, with its nonce) they were asked with and the version of the policies they show |
| `ClientForm` | the form of `ClientsPage` | whose data each group of fields holds |
| `CompanyDialogs` | `CompaniesPage`, `ConfirmModal` | the company shown, whose products are loaded or asked for |
| `UserForms` | the accounts of `SettingsPage` | the account edited, for whom role and password are |
| `RoleRights` | `RolePermissionsPanel` | `stored`, `matrix`, the role shown, the switches, the save under way |
| `AdminConsole` | `App.tsx` of License Admin | the list, as the number of changes it includes; requests, and refreshes with the step they have got to |

A page is mounted anew when it is opened, and the screens share nothing in the
browser. `Screens` is therefore the choice of one screen at the start, with all
others at rest; it makes one specification of them, with one run and one theorem
per promise instead of eleven. Two screens that would share a server's row meet
only in answers, which each module leaves open.

Common to all: a dialog may be closed and opened again with its request out (closing
cancels no request that saves; `Modal` closes by Escape and backdrop whatever the
state);
the answer then does what its handler does, to whatever is open by then. A set
of requests holds one of each kind; where the order of answers matters
(`ListPages`) it is a sequence. What an input holds is modelled by when it was
entered, or whose it is, since the hazard is always that it is another's.

Some promises have an exception in the code: a tab that hears every answer shows
whichever comes last. Each exception is a history variable that says exactly when
it may occur (`crossed` in `ListPages`, `mixed`, `overtaken`, `overlapped`,
`switched`), or that an answer was lost for good (`missed`, `lost`); the property
is stated outside it, and does not cover the hazard of that exception:
`PROJECT.json` says so at each one. The tasks' table cancels and needs none.

## 4. Runs

| Run | Model | Shows |
|---|---|---|
| `renewal_tasks` | `RenewalTasks`, `MCRenewalTasks.cfg` | the type invariant; `OneOpenTask`, `RowsConsistent`, `RenewalLinks`, `NumbersUnique`; `DecisionsKept`, `SyncSettles`, `SyncIdempotent`; refinement of `RenewalPromise` |
| `renewal_reminders` | `RenewalTasks`, `MCRenewalReminders.cfg` | `NoReminderOnceDecided`, and under fairness `SyncKeepsUp` and `ReminderComes` |
| `renewal_races` | `MCRenewalRaces`, `MCRenewalRaces.cfg` | what survives overlapping requests: `NumbersUnique`, `RenewalLinks`, `DecisionsKept`, `LinksKept` |
| `reopen_race` | `MCRenewalRaces`, `MCReopenRace.cfg` | `OneOpenTask` does not: two open tasks for one policy (a disagreement, below) |
| `restore_sync` | `RenewalTasks`, `MCRestoreSync.cfg` | a restored policy gets no task from the sync it calls (a disagreement, below) |
| `license_guard` | `LicenseGuard`, `MCLicenseGuard.cfg` | the type invariant; `CodeFitsKey`, `NoDemoAfterFull`, `ActivationKept`; `TrialKeepsItsTerm` |
| `license_cache` | `LicenseCache`, `MCLicenseCache.cfg` | `ActivationKept` does not survive overlapping requests (a disagreement, below) |
| `license_admin` | `MCLicenseAdmin`, `MCLicenseAdmin.cfg` | the type invariant; `SeatsWithinLimit`, `AnswersSurvive`, `CodesVerify`; refinement of `SeatPromise` (`ImplementsSeats`) |
| `license_admin_races` | `LicenseAdminRaces`, `MCLicenseAdminRaces.cfg` | `SeatsWithinLimit` does not survive overlapping requests (a disagreement, below) |
| `client_session` | `MCClientSession`, `MCClientSession.cfg` | the type invariant; `IdentityMatches`; under fairness `WorkStops`, `CodeOpensGate` |
| `screens` | `Screens`, `MCScreens.cfg` | the type invariant; `RowsAnswerQuery`, `OneToastEach`, `NothingLeftOver`, `ProductsFit`, `CardFits`, `RightsFit`, `ListFresh`; under fairness `ToastsGo` |
| `role_rights` | `RoleRights`, `MCRoleRights.cfg` | `RightsAgree` fails when a role is chosen while another is saved (a disagreement, below) |

Bounds. Two policies: one to renew and the one issued for it, one that is
withdrawn while the other gets a task, and the order of the loop between them.
Two task slots: a decided task and another one, which is the smallest history in
which reopening can clash; one slot where only the sync and reminders
matter. One reference: the code asks only whether one of them is archived.
`WindowDays` and `UrgentDays` are 30 and 3 in the code and 0 in the passing runs, with
`Horizon` 1: days outside, on the edge of and after both windows, as the code
compares and never computes with them. (Both windows at one day and a horizon of
two, checked once, give the same results but take too long to be a run.) `MaxNumber` bounds task numbers; it holds back only requests
that add a task by hand and archiving (`Headroom`), never a sync. Users are
needed only where reminders are checked. In `RenewalRaces`, two workers and three requests in all: each pair of
requests overlaps in every order, with a third before or after; every policy
there has ended, so that a task is due at once.

For the licence: two keys and two machines, so that a code can be of the wrong
key or the wrong machine; a demo of two hours, a tolerance of one and a clock up to
four: started, touched, expired, set back within the tolerance and beyond it.
`MaxClock` bounds nothing but the clock. In `LicenseCache` one key is enough, as
the loss needs no second one; two threads and four requests: enter, redeem, and
two others in their way. When all four requests are over, nothing can happen:
that run does not check deadlock.

For License Admin: two licences, so that saving one writes what is pending of the
other; a limit of one seat, or none, and two machines; two generations of the key
pair, for a pair that is generated again because its first generation stopped
half-way. `MaxPairs` bounds only that. `MCLicenseAdmin` bounds the states that are
followed: one torn file at a time, and one licence with seats or a revocation; the
other may be created, pending or saved around it. A tool that has stopped with a torn
`state.json` does not start again, so deadlock is not checked there, nor in
`LicenseAdminRaces`.

For the client: two accounts, one of them with a section the layout can fall back
to and one without; two status requests and two others, which is what it takes for
an old answer to arrive after a new one. `MaxRequests` holds back only requests
that no other one has led to (`Idle`), so that no answer is ever blocked by it;
`MaxSeen` bounds how often the licence changes during one request. For the
screens: two of everything a dialog can be opened for, so that it can be opened
for the other one; two pages, two sizes and one search text; two requests of a table; one
notice with two loads; two edits and two changes by the vendor; three requests of
the accounts, since a save makes the list be asked for; two roles and one right.
The table of companies is the code of the other two and left out of the instance,
not of the module. The counters of edits and changes only grow: when they have
run out a screen may stop, and deadlock is not checked there.

Fairness. `WF_vars(Sync)`: the hourly job is scheduled when the application
starts, and run once then (`main.py:79-80`). It is an action that is always
enabled, so weak fairness says that it runs again and again: true while the
process runs, the licence is active (`_guard_active`) and the job does not fail
every time. Nothing is assumed of users or of requests. `SyncKeepsUp` and
`ReminderComes` rest on that alone.

In `ClientSession`: requests end (`WF` of `CallEnds`; a fetch is answered or fails);
a status request is answered some time, not always refused or lost (`SF`, as a
failure and an answer are both possible each time); a user who keeps coming to a
section works there (`SF` of `Work`): `WorkStops` is about a user who does
something, since nothing else but the demo's timer makes the page ask. The licence
itself may change at any time. In `HomeToasts`: timers end, and an acknowledgement
is answered or given up (`WF`); nothing is assumed of loads.

Disagreements between the code and what it says of itself:

- `reopen_race`: `home_routes.py:48` and the 409 of `manual_renewal_task.py:72`
  say that a policy with an active task gets no second one. The check and the
  write are separate statements and no unique index backs them, so a
  request that has passed the check still writes after a sync opened a task.
- `restore_sync`: `restore_policy` calls `sync_after_policy_change`, meant to
  bring back the tasks of policies that ended meanwhile (`renewal_sync.py:76`),
  while its own `deletedAt = None` is still unflushed: the query skips the
  policy. The task appears with the next hourly job or list instead.
- `license_cache`: `docs/licensing.md:10` says that a redeemed code opens access
  for good. The first gated request after a redeem rewrites the licence file
  (`mark_commercial_used`), and so does the redeem itself; one reads the file
  the other has just emptied, takes it for `{}` and writes back its own field
  only. Key and code are gone after the client was told that it is activated.
  The same property holds in `LicenseGuard`, one request at a time, and is proved
  there, but for a stop inside a write of the file: with the process running, only
  the missing lock breaks it.
- `license_admin_races`: `docs/licensing.md:26` says that the limit cannot be
  exceeded. Two requests that overlap both find the last seat free in their copy
  of the ledger, and both are answered with a code.
- `role_rights`: `docs/acceptance-matrix.md:14` says of the matrix of rights that
  UI and API agree. While the panel saves only its button is disabled
  (`RolePermissionsPanel.tsx:175`); the answer sets the switches to the rights of
  the role that was saved (line 104), whichever is shown by then, and a second
  save writes them to that one. `RightsFit` is the same promise for a user who
  waits; it holds and is proved.

## 5. Proofs

The assumptions are those of `RenewalTasks`: policies are a finite set of
integers, slots are not empty, modes are the two of the code, the window contains
the urgent days. No bound of the runs is used: the sets of policies, slots,
references and users are arbitrary.

- `RenewalTasksProofs` proves `Spec => []Inv`. `Inv` is `TypeOK` and, per
  row, `GoodRow` (an absent row is exactly `NoTask`; a present row belongs to a
  policy that exists; snooze and reason fit the status; a renewed row has a link
  to another, existing policy), with, across rows, one open task per policy and
  different numbers and links. None of the four invariants is inductive alone:
  that a new link is unused needs links to lead to policies that exist, since a
  renewal issues a key that did not; that the numbers of one sync differ from
  those that are left needs the types and the order of the loop. The step lemma
  has a case per action; all syncs share the lemmas on waking and on the loop.
  The part of `GoodRows` that does not depend on when a row was read is
  `SoundRows` (a present row's policy exists, a link leads to another issued
  policy and no second row has it, numbers differ). Each lemma about a write is
  there for both, and `RenewalRacesProofs` uses the second.
- `RenewalSyncProofs` proves the action properties from `Inv`: one sync settles
  (`EverySyncSettles`; the sync that ends a restore settles all but the restored
  policy, which it does not see), a sync of settled tables changes no task, decided rows
  are kept, and reminders stop once decided.
  It also proves the refinement of `RenewalPromise`: initial states map to initial
  states, and each action maps to a step or a stutter. The sync maps to the
  background of every policy at once; a renewal maps to a user's decision for
  one policy with the background for the others.
- `RenewalRacesProofs` proves what survives overlapping requests, for any workers:
  `RacesTypeOK`, `NumbersUnique`, `RenewalLinks`, `DecisionsKept`, `LinksKept`.
  `RacesInv` is the types, `SoundRows`, and for each request under way
  `SoundRequest`: what it has read still fits the tables, however old it is. The
  row it has loaded is still in the table, or forgotten; the link it was loaded
  with leads to a policy that was issued; a renewal has loaded an open row. Nothing
  is claimed of the highest number it has read, since the key is checked at the
  write (`NumberFree`). That this stays true while others write is `Grows`
  (policies are issued and never unissued) and `RowKept` (a closed row keeps its
  place and number, a link stays or gives way to one to a policy issued in that
  step). Every action is a `TableStep` between sound tables, and both action
  properties follow from `RowKept`. `OneOpenTask` fails here (run `reopen_race`);
  `RowsConsistent` is no part of the invariant, since a column-wise UPDATE may pair
  a status with a date or a reason of another request.

The licence guard assumes that the demo has a positive length, that tolerance and
clock bound are naturals, and that the markers of absence are no keys, codes or
markers. `LicenseGuardProofs` proves `Spec => []Inv`, with `Inv`: the types; a
code on file is of the key on file; `worked` implies `cache.used`, unless the file
was cut short; and `ActivationKept`. `NoDemoAfterFull` is not inductive by itself: what keeps the demo
closed is that every FULL answer has been remembered before it is given, which
`FullOnFile` says. `CutShort` empties the file and raises `cut`, which exempts both; it
is lowered only where an activation is confirmed, and key, code and `used` are
then on file. `CodeFitsKey` follows from the second conjunct and
the shape of a code. `TrialKeepsItsTerm` is an action property: all its steps
rest on `AskingKeepsMarker`, and in `Deactivate` on the fact that a marker is
replaced only if `used` is on file, and then stays on file.

`LicenseAdminProofs` proves `Spec => []Inv` for any sets of licences, machines (a
finite set) and limits (positive numbers, or none). What holds of the ledger in memory
and of the one last written whole is one predicate, `Keeps`: no row has more seats than were
sold, everything answered is in it, and no licence precedes a complete key pair.
A lemma per change (new row, revoked, freed, seated) shows that the changed
ledger keeps it; `OutcomesKeepInv` then covers the saved, the failed, the torn and
the stopped request at once, since a file that was not written whole counts as it
was. A torn `state.json` stops the tool from starting, so that no ledger is ever
loaded that does not keep it. The vault
needs `vaultFile \subseteq vault` while unlocked: a vault in memory that lacked a key
of the file would drop it at the next write. `SeatsWithinLimit` follows by counting
(`CountSeats`).

That the tool implements `SeatPromise` (`AdminImplementsSeats`) needs one invariant
more, `MemoryAhead`: the ledger in memory has every licence of the file, on the same
terms, and revokes what the file revokes. Otherwise a save could set the file
back, and a revocation that was pending in a failed save, or on file before a
restart, could be undone. `Ahead` is an order, each change puts the ledger
ahead (`AheadChanges`), and so every save advances the file (`StepAdvances`). A
code given is of a licence active on file by then (`StepOfCodes`), with its seat
counted there. `RevokedGetNoCode` says the same of confirmed revocations.

For `LicenseAdminRaces` all that is left of `Keeps` is `Sound`, no more computers on
record than seats, and `RacesInv` says so of memory, file and every ledger that a
request under way has read. An old one may lack licences, seats and revocations,
and storing it loses them; but each request changes one row of the list it has
read, by the rule that keeps that list sound, so that what it stores is sound
(`RacesLedgersWithinLimit`). `SeatsWithinLimit`, `AnswersSurvive` and
`ImplementsSeats` do not hold there, and nothing is said of `CodesVerify`.

`ClientSessionProofs` proves `TypeOK` and `IdentityMatches` for any accounts and
grants. Its invariant `TabInv` adds to them that, behind an open gate and outside
the exception, no request is under way that would set the user or the token
alone (`NoneCrosses`): a `refresh` of a mounted provider carries the token that is
stored, and an unmounted one has nothing out. Without it a failing `refresh`
of an earlier token could remove the present one. `Go` may send requests of its
own when it lands on a page; `GoType` says that these never cross.

`DialogProofs` has, for each dialog, its inductive invariant, that it holds at the
start, that each step keeps it, and that it gives the promise. They add what was
entered to what was sent: an open dialog holds only what belongs to it
(`TaskInv`, `ManualInv`, `ClientFormInv`, `UsersInv`), `busy` is on while a
decision is out, and an answer labelled with the nonce of now is at least as new as
the last edit reported (`CardInv`), since every reported edit changes the nonce.
`ScreensProofs` does the same for the table, the home page and License Admin, and puts
all of them together (`EachScreenSteps`: each step of `Screens` is one of one
screen and a stutter of the others). `ListInv` needs that outside the exception
everything under way is for the query shown, and for the tasks that the one request
listened to is; `HomeInv` that timers and acknowledgements belong to
scheduled notices; `ConsoleInv` that a change not yet listed has an answer to
come, whose refresh will list it, or a refresh that has still to ask.

Only model-checked: the liveness properties (`SyncKeepsUp`, `ReminderComes`,
`WorkStops`, `CodeOpensGate`, `ToastsGo`), as fairness and ENABLED are outside the
prover's reach. The five runs that expect a violation are counterexamples and prove
nothing in general; of `LicenseCache` only that is stated. `LedgersWithinLimit` and
`NoCodeOnceRevoked` are proved and no run lists them.

## 6. Not modelled

Of renewals and policies: the text of comments and reasons, audit rows,
permissions of each handler, failures of the disk or of SQLite itself ("database is
locked" rolls a request back, which is the request not having run). The notices
shown by `HomeToasts` come from nowhere in particular; that they are those
`RenewalTasks` writes is not stated.

Of accounts: the limit of active users (counted in one statement, enforced in
another), the last administrator, who may be archived, the throttling of
sign-ins, the audit row of a failed one, which is rolled back, and the two
statements of the first set-up. Each is a matter of one handler's check and one
write, and meets the modelled parts only in who is signed in or notified, which
`ClientSession` and `RenewalTasks` leave open.
The check of a right on every request is a look-up and not modelled.

Of the licence: the three mirrored copies of the demo's marker on Windows and how
they are reconciled (elsewhere there is one copy, and a demo's marker cut short
starts the demo anew: not modelled), cryptography, the rate limit of
`/license/...`. Of License Admin: notes, labels, the audit list, the
older format of `state.json`, a password forgotten, files lost or restored; two
requests that generate key pairs or write the vault at once. A stop
between salt and vault leaves a vault that never opens; the model reaches that
state, and nothing is claimed of it.

`ClientCard` takes an edit as committed before it is answered. `get_db`
(`database.py:29-38`) commits after its `yield`; that this comes before the answer
is up to FastAPI, of which `pyproject.toml` asks for 0.115 or later. A release that
runs what follows the `yield` after the answer is outside the model.

Of the client: the second `useLicenseStatus` of `AppLayout` (it only labels the
menu), the audit journal and the licence section of the settings, the analytics
page, the validation of inputs, keyboard and focus, formatting. Inside the form of
a policy the form of a new client submits both, as the event reaches the outer
form too (`SubmitNewClient`); the model does so, no document says what is meant,
and nothing is claimed. A set-up page whose question failed stays blank until it
is loaded again; likewise.

Income, dates for display, the order of the task list and search tokens are pure
functions of one row, better covered by the repository's unit tests. Reports,
serializers, desktop start-up, migrations and demo data keep no state that a step
could break. The components marked `not_modelled` in `PROJECT.json` say why.
