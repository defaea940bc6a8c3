--------------------------- MODULE LicenseAdminRaces ---------------------------
(***************************************************************************)
(* License Admin with overlapping requests.  FastAPI runs the handlers in  *)
(* a thread pool on one LicenseAdminService, without a lock.  A request    *)
(* that changes the ledger builds its own list of it, decides on that      *)
(* list, and stores the whole of it: what other requests stored in between *)
(* is overwritten.                                                         *)
(*                                                                         *)
(* From the store on a request is one step, with its writes, and so are    *)
(* ensure_keys and unlock.  Of the key pair and the vault, which these     *)
(* write, nothing is claimed here.                                         *)
(***************************************************************************)
EXTENDS LicenseAdmin

CONSTANTS
    Threads,
    Idle

VARIABLE work   \* work[t]: the request of the thread, with the ledger it has
                \* read, or Idle

racesVars == <<vars, work>>

Requests ==
    [kind : {"create"}, license : Licenses, max : Limits \cup {NoLimit}] \cup
    [kind : {"revoke"}, license : Licenses] \cup
    [kind : {"deallocate", "issue"}, license : Licenses, machine : Machines]

RacesInit == Init /\ work = [t \in Threads |-> Idle]

\* A new licence has an id of its own.
NewId(l) ==
    /\ ledger[l].status = "absent" /\ l \notin vault
    /\ \A t \in Threads : work[t] # Idle => work[t].request.license # l

\* The request reads the ledger; to create a licence it ensures the keys before.
ReadLedger(t, r) ==
    /\ running /\ unlocked
    /\ work[t] = Idle
    /\ work' = [work EXCEPT ![t] = [request |-> r, book |-> ledger]]
    /\ IF r.kind = "create" THEN NewId(r.license) /\ EnsureKeys
                            ELSE UNCHANGED vars

CreateFrom(book, l, max) ==
    /\ running /\ unlocked
    /\ UNCHANGED <<saltFile, vaultMade, pair>>
    /\ StoresLicense(book, l, max, stateFile, torn)

StoresFrom(book, r) ==
    \/ r.kind = "create" /\ CreateFrom(book, r.license, r.max)
    \/ r.kind = "revoke" /\ RevokeFrom(book, r.license)
    \/ r.kind = "deallocate" /\ DeallocateFrom(book, r.license, r.machine)
    \/ r.kind = "issue" /\ IssueFrom(book, r.license, r.machine)

\* The list it has read has no such licence, or no seat for the machine.
Refused(book, r) ==
    /\ \/ r.kind \in {"revoke", "deallocate"} /\ book[r.license].status = "absent"
       \/ r.kind = "issue" /\ ~MayIssue(book, r.license, r.machine)
    /\ UNCHANGED vars

\* The process ends with all its threads.
StoreLedger(t) ==
    /\ work[t] # Idle
    /\ \/ StoresFrom(work[t].book, work[t].request)
       \/ Refused(work[t].book, work[t].request)
    /\ work' = IF running' THEN [work EXCEPT ![t] = Idle] ELSE [s \in Threads |-> Idle]

\* The process, the vault and the pair, or one whole request.
Alone ==
    /\ Next
    /\ work' = IF running' THEN work ELSE [t \in Threads |-> Idle]

RacesNext ==
    \/ Alone
    \/ \E t \in Threads :
          \/ \E r \in Requests : ReadLedger(t, r)
          \/ StoreLedger(t)

RacesSpec == RacesInit /\ [][RacesNext]_racesVars

-----------------------------------------------------------------------------
(* Safety                                                                  *)

\* However the requests overlap, no ledger shows more computers than seats: the
\* code too many that they may give is in no record, so that nothing on file tells
\* of it.
LedgersWithinLimit ==
    \A l \in Licenses :
        /\ stateFile[l].max # NoLimit =>
              Cardinality(stateFile[l].seats) <= stateFile[l].max
        /\ running /\ ledger[l].max # NoLimit =>
              Cardinality(ledger[l].seats) <= ledger[l].max

=============================================================================
