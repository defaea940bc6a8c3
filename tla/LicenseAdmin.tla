----------------------------- MODULE LicenseAdmin -----------------------------
(***************************************************************************)
(* License Admin, the vendor's tool: it creates licence keys, and signs an *)
(* activation code for a computer if the licence has a seat for it.        *)
(*                                                                         *)
(* The ledger of seats lives in memory and is written to state.json after  *)
(* each change; the keys live in an encrypted vault, the pair of signing   *)
(* keys in two files, with a copy of the public one for the build of the   *)
(* CRM.  Requests are one at a time here; the process may stop between two *)
(* writes, and a write may fail (the file cannot be opened), which leaves  *)
(* memory ahead of the files.  Files are overwritten in place: a write     *)
(* that is cut short, by a stop or by a full disk, leaves a torn file.     *)
(* private.pem and vault.salt are written once, each with a second file    *)
(* after it; torn, they count as that second file missing.                 *)
(***************************************************************************)
EXTENDS Naturals, FiniteSets

CONSTANTS
    Licenses,
    Machines,       \* hardware ids
    Limits,         \* values of max_seats
    NoLimit,        \* max_seats = None
    MaxPairs        \* bound on the number of key pairs generated

ASSUME LimitAssumption ==
    Limits \subseteq Nat \ {0} /\ NoLimit \notin Limits /\ MaxPairs \in Nat
ASSUME MachinesFinite == IsFiniteSet(Machines)

VARIABLES
    running,    \* the process runs
    unlocked,   \* the vault's password is known to it
    ledger,     \* state.licenses, in memory
    vault,      \* state.vault, in memory: the licences whose key it holds
    saltFile,   \* vault.salt exists
    vaultMade,  \* vault.bin has been written whole
    vaultFile,  \* vault.bin, as last written whole: the licences whose key it holds
    stateFile,  \* state.json, as last written whole: the ledger
    pair,       \* the generations of private.pem, public.pem and the CRM's copy
    torn,       \* the files whose last write was cut short
    created,    \* history: licences whose key was handed out
    held,       \* history: codes that were handed out, as licence and machine,
                \* and whose seat nobody has asked to free since
    withdrawn,  \* history: licences whose revocation was confirmed
    signed      \* history: the generations of private.pem codes were signed with

memory == <<running, unlocked, ledger, vault>>
files == <<saltFile, vaultMade, vaultFile, stateFile, pair, torn>>
answers == <<created, held, withdrawn, signed>>
vars == <<memory, files, answers>>

Row == [status : {"absent", "active", "revoked"}, max : Limits \cup {NoLimit},
        seats : SUBSET Machines]

Ledger == [Licenses -> Row]

NoRow == [status |-> "absent", max |-> NoLimit, seats |-> {}]
NoLedger == [l \in Licenses |-> NoRow]

Pair == [private : 0..MaxPairs, public : 0..MaxPairs, crm : 0..MaxPairs]

KeyFiles == <<"private", "public", "crm">>

FileNames == {"state", "vault", "private", "public", "crm"}

TypeOK ==
    /\ running \in BOOLEAN /\ unlocked \in BOOLEAN
    /\ ledger \in Ledger /\ vault \in SUBSET Licenses
    /\ saltFile \in BOOLEAN /\ vaultMade \in BOOLEAN /\ vaultFile \in SUBSET Licenses
    /\ stateFile \in Ledger /\ pair \in Pair
    /\ torn \in SUBSET FileNames
    /\ created \in SUBSET Licenses /\ withdrawn \in SUBSET Licenses
    /\ held \in SUBSET (Licenses \X Machines)
    /\ signed \in SUBSET (0..MaxPairs)

Init ==
    /\ running = FALSE /\ unlocked = FALSE /\ ledger = NoLedger /\ vault = {}
    /\ saltFile = FALSE /\ vaultMade = FALSE /\ vaultFile = {} /\ stateFile = NoLedger
    /\ pair = [private |-> 0, public |-> 0, crm |-> 0] /\ torn = {}
    /\ created = {} /\ held = {} /\ withdrawn = {} /\ signed = {}

-----------------------------------------------------------------------------
(* The process                                                             *)

MemoryLost == running' = FALSE /\ unlocked' = FALSE /\ ledger' = NoLedger /\ vault' = {}

\* Faulty: every licence is read as an active one.
LoadedActive(file) ==
    [l \in Licenses |-> IF file[l].status = "revoked"
                          THEN [file[l] EXCEPT !.status = "active"] ELSE file[l]]

Loaded(file) == file

\* Faulty: a torn state.json is read as an empty ledger.
StartsEmpty ==
    /\ ~running
    /\ running' = TRUE
    /\ ledger' = IF "state" \in torn THEN NoLedger ELSE Loaded(stateFile)
    /\ UNCHANGED <<unlocked, vault, files, answers>>

\* With a torn state.json the tool does not start: it is no JSON.
Start ==
    /\ ~running /\ "state" \notin torn
    /\ running' = TRUE
    /\ ledger' = Loaded(stateFile)
    /\ UNCHANGED <<unlocked, vault, files, answers>>

Stop ==
    /\ running
    /\ MemoryLost
    /\ UNCHANGED <<files, answers>>

-----------------------------------------------------------------------------
(* Outcomes of a request that ends with _save_state                        *)

\* What the request has changed in memory by then.
Holds(new, keys) == ledger' = new /\ vault' = keys /\ UNCHANGED <<running, unlocked>>

\* The file becomes `new', whole; t are the files torn so far.
Written(new, t) == stateFile' = new /\ torn' = t \ {"state"}

\* The file cannot be opened, or its write is cut short.
NotWritten(old, t) == stateFile' = old /\ torn' \in {t, t \cup {"state"}}

Saves(new, keys, t) == Holds(new, keys) /\ Written(new, t)

\* The request fails, and what it has changed in memory remains; or the process
\* stops before it can answer.
Unanswered(new, keys, old, t) ==
    \/ Holds(new, keys) /\ NotWritten(old, t)
    \/ MemoryLost /\ (Written(new, t) \/ NotWritten(old, t))

-----------------------------------------------------------------------------
(* The vault and the pair of keys                                          *)

\* The first password makes the vault; one that is not written whole is never
\* opened.
MakeVault ==
    /\ running /\ ~saltFile
    /\ saltFile' = TRUE
    /\ \/ /\ vaultMade' = TRUE
          /\ unlocked' = TRUE
          /\ UNCHANGED <<running, ledger, vault>>
       \/ UNCHANGED <<vaultMade, memory>>
       \/ vaultMade' \in BOOLEAN /\ MemoryLost
    /\ UNCHANGED <<vaultFile, stateFile, pair, torn, answers>>

\* Faulty: a vault that exists is opened but not read.
OpenedEmpty(file) == {}

Opened(file) == file

\* A wrong password is refused and changes nothing; so is any password if the
\* vault is torn.
Unlock ==
    /\ running /\ saltFile /\ vaultMade /\ "vault" \notin torn
    /\ vault' = Opened(vaultFile)
    /\ unlocked' = TRUE
    /\ UNCHANGED <<running, ledger, files, answers>>

\* Faulty: a pair is generated for each licence.
PairAlways(p) == TRUE

PairMissing(p) == p.private = 0 \/ p.public = 0

\* The pair as its files are written one by one; the last one is complete.
PairWrites(p) ==
    LET n == IF PairMissing(p) THEN p.private + 1 ELSE p.private
        public == IF PairMissing(p) THEN n ELSE p.public
    IN  <<[private |-> n, public |-> p.public, crm |-> p.crm],
          [private |-> n, public |-> public, crm |-> p.crm],
          [private |-> n, public |-> public, crm |-> public]>>

EnsuredPair == PairWrites(pair)[3]

PairAllowed == PairMissing(pair) => pair.private < MaxPairs

\* A complete pair is only copied to the CRM.
KeyWrites == IF PairMissing(pair) THEN 1..3 ELSE {3}

\* What is still torn after the first i writes.
TornAfter(i) == torn \ {KeyFiles[j] : j \in KeyWrites \cap 1..i}

EnsureKeys ==
    /\ running /\ unlocked /\ PairAllowed
    /\ UNCHANGED <<saltFile, vaultMade, vaultFile, answers>>
    /\ Saves(ledger, vault, TornAfter(3))
    /\ pair' = EnsuredPair

\* A write of ensure_keys fails or is cut short, or the process stops after one.
EnsureKeysPartly ==
    /\ running /\ unlocked /\ PairAllowed
    /\ UNCHANGED <<saltFile, vaultMade, vaultFile, answers>>
    /\ \/ /\ \E i \in KeyWrites :
                /\ pair' = PairWrites(pair)[i]
                /\ torn' \in {TornAfter(i), TornAfter(i) \cup {KeyFiles[i]}}
          /\ UNCHANGED stateFile
          /\ UNCHANGED memory \/ MemoryLost
       \/ /\ pair' = EnsuredPair
          /\ Unanswered(ledger, vault, stateFile, TornAfter(3))

-----------------------------------------------------------------------------
(* Licences                                                                *)

WithStatus(row, status) == [status |-> status, max |-> row.max, seats |-> row.seats]
WithSeats(row, seats) == [status |-> row.status, max |-> row.max, seats |-> seats]

\* Faulty: None is stored as zero.
NewRowNoneAsZero(max) ==
    [status |-> "active", max |-> IF max = NoLimit THEN 0 ELSE max, seats |-> {}]

NewRow(max) == [status |-> "active", max |-> max, seats |-> {}]

\* A row is added to `book', the list that was read; the key goes to the vault,
\* and then the list to `old', what state.json holds by then.
StoresLicense(book, l, max, old, t) ==
    LET new == [book EXCEPT ![l] = NewRow(max)]
        keys == vault \cup {l}
    IN  \/ /\ stateFile' = old
           /\ vaultFile' = vaultFile /\ torn' \in {t, t \cup {"vault"}}
           /\ Holds(new, keys) \/ MemoryLost
           /\ UNCHANGED answers
        \/ /\ vaultFile' = keys
           /\ \/ /\ Saves(new, keys, t \ {"vault"})
                 /\ created' = created \cup {l}
                 /\ UNCHANGED <<held, withdrawn, signed>>
              \/ /\ Unanswered(new, keys, old, t \ {"vault"})
                 /\ UNCHANGED answers

\* Ids are drawn at random; a partial ensure_keys is EnsureKeysPartly.
CreateLicense(l, max) ==
    /\ running /\ unlocked /\ PairAllowed
    /\ ledger[l].status = "absent" /\ l \notin vault
    /\ pair' = EnsuredPair
    /\ UNCHANGED <<saltFile, vaultMade>>
    /\ StoresLicense(ledger, l, max, ledger, TornAfter(3) \ {"state"})

RevokeFrom(book, l) ==
    LET new == [book EXCEPT ![l] = WithStatus(@, "revoked")]
    IN  /\ running /\ unlocked /\ book[l].status # "absent"
        /\ UNCHANGED <<saltFile, vaultMade, vaultFile, pair, created, held, signed>>
        /\ \/ Saves(new, vault, torn) /\ withdrawn' = withdrawn \cup {l}
           \/ Unanswered(new, vault, stateFile, torn) /\ UNCHANGED withdrawn

Revoke(l) == RevokeFrom(ledger, l)

\* The vendor's request alone counts as freeing the seat.
DeallocateFrom(book, l, m) ==
    LET new == [book EXCEPT ![l] = WithSeats(@, @.seats \ {m})]
    IN  /\ running /\ unlocked /\ book[l].status # "absent"
        /\ UNCHANGED <<saltFile, vaultMade, vaultFile, pair, created, withdrawn, signed>>
        /\ held' = held \ {<<l, m>>}
        /\ Saves(new, vault, torn) \/ Unanswered(new, vault, stateFile, torn)

Deallocate(l, m) == DeallocateFrom(ledger, l, m)

\* Faulty: one seat more than was sold.
OneSeatMore(row) == row.max # NoLimit => Cardinality(row.seats) <= row.max

HasFreeSeat(row) == row.max # NoLimit => Cardinality(row.seats) < row.max

\* A client's request names its licence and its machine; the key in the vault
\* proves that it is genuine.  A reissue takes no seat.
Seated(book, l, m) == [book EXCEPT ![l] = WithSeats(@, @.seats \cup {m})]

MayIssue(book, l, m) ==
    /\ book[l].status = "active" /\ l \in vault
    /\ m \in book[l].seats \/ HasFreeSeat(book[l])

IssueFrom(book, l, m) ==
    LET new == IF m \in book[l].seats THEN ledger ELSE Seated(book, l, m)
    IN  /\ running /\ unlocked /\ MayIssue(book, l, m) /\ pair.private # 0
        /\ UNCHANGED <<saltFile, vaultMade, vaultFile, pair, created, withdrawn>>
        /\ \/ /\ Saves(new, vault, torn)
              /\ held' = held \cup {<<l, m>>}
              /\ signed' = signed \cup {pair.private}
           \/ /\ Unanswered(new, vault, stateFile, torn)
              /\ UNCHANGED <<held, signed>>

IssueActivationCode(l, m) == IssueFrom(ledger, l, m)

-----------------------------------------------------------------------------

Next ==
    \/ Start
    \/ Stop
    \/ MakeVault
    \/ Unlock
    \/ EnsureKeys
    \/ EnsureKeysPartly
    \/ \E l \in Licenses :
          \/ \E max \in Limits \cup {NoLimit} : CreateLicense(l, max)
          \/ Revoke(l)
          \/ \E m \in Machines : Deallocate(l, m) \/ IssueActivationCode(l, m)

Spec == Init /\ [][Next]_vars

-----------------------------------------------------------------------------
(* Safety                                                                  *)

HeldBy(l) == {m \in Machines : <<l, m>> \in held}

\* No more codes of a licence are in use than it has seats, through failed
\* saves and restarts.
SeatsWithinLimit ==
    \A l \in Licenses :
        HeldBy(l) # {} /\ stateFile[l].max # NoLimit =>
            Cardinality(HeldBy(l)) <= stateFile[l].max

\* A ledger has the licences, seats and revocations that were answered.
Tells(book) ==
    /\ \A l \in created : book[l].status # "absent"
    /\ \A l \in Licenses : HeldBy(l) \subseteq book[l].seats
    /\ \A l \in withdrawn : book[l].status = "revoked"

\* What was answered is known to the process while it runs, and to each file whose
\* last write was not cut short: a licence with its key, a code with its seat, a
\* revocation.  So only a file that is torn when the process stops loses any, and
\* then the tool does not start, or does not unlock.
AnswersSurvive ==
    /\ running => Tells(ledger)
    /\ "state" \notin torn => Tells(stateFile)
    /\ unlocked => created \subseteq vault
    /\ "vault" \notin torn => created \subseteq vaultFile
    /\ created # {} => vaultMade

\* Every code can be verified by a CRM that is built now: the pair that signed
\* it is never replaced, and its public key is the one that was copied; unless
\* one of its two files was cut short.  (public.pem is then never made again.)
CodesVerify ==
    torn \cap {"public", "crm"} = {} => \A n \in signed : n = pair.crm

\* A licence that was revoked gets no code again, whether the process was
\* restarted since or a save has failed.
NoCodeOnceRevoked ==
    [][\A l \in withdrawn : HeldBy(l)' \subseteq HeldBy(l)]_vars

\* Terms are kept, a revocation on file is final, and a code is given only within
\* the limit of a licence on file: the tool implements SeatPromise, although
\* saves fail, the process stops, and a later save writes what is pending.  A
\* torn file stops the tool; it never makes it forget and go on.
Seats == INSTANCE SeatPromise WITH
    sold <- [l \in {l \in Licenses : stateFile[l].status # "absent"} |->
                stateFile[l].max],
    withdrawn <- {l \in Licenses : stateFile[l].status = "revoked"}

ImplementsSeats == Seats!Spec

=============================================================================
