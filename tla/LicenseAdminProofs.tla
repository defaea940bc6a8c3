-------------------------- MODULE LicenseAdminProofs --------------------------
(***************************************************************************)
(* Proofs about License Admin, for any licences, machines and limits:      *)
(* requests one at a time, that they implement SeatPromise, and what of it *)
(* survives overlapping requests.                                          *)
(* What is said of a ledger is said of the one in memory and the one on    *)
(* file (Keeps), since a request saves the first into the second; in the   *)
(* last part also of those that requests under way have read (Sound).      *)
(***************************************************************************)
EXTENDS LicenseAdminRaces, FiniteSetTheorems, TLAPS

PairComplete(p) == p.private # 0 /\ p.public = p.private /\ p.crm = p.private

\* A ledger has no seats of absent licences and no more than were sold.
Sound(book) ==
    /\ book \in Ledger
    /\ \A l \in Licenses :
          /\ book[l].status = "absent" => book[l].seats = {}
          /\ book[l].max # NoLimit => Cardinality(book[l].seats) <= book[l].max

\* A ledger has all that was answered.
Remembers(book, given, codes, closed) ==
    /\ \A l \in given : book[l].status # "absent"
    /\ \A l \in Licenses, m \in Machines : <<l, m>> \in codes => m \in book[l].seats
    /\ \A l \in closed : book[l].status = "revoked"

\* Licences are created after the pair of keys.
Founded(book, p) == \A l \in Licenses : book[l].status # "absent" => PairComplete(p)

Keeps(book, given, codes, closed, p) ==
    /\ Sound(book)
    /\ Remembers(book, given, codes, closed)
    /\ Founded(book, p)

VaultInv ==
    /\ unlocked => running /\ vaultMade /\ vaultFile \subseteq vault
    /\ vaultMade => saltFile
    /\ ~vaultMade => vaultFile = {}
    /\ created # {} => vaultMade
    /\ created \subseteq vaultFile

PairInv ==
    /\ pair.public \in {0, pair.private}
    /\ signed # {} => PairComplete(pair)
    /\ signed \subseteq {pair.private}

Inv ==
    /\ TypeOK
    /\ Keeps(stateFile, created, held, withdrawn, pair)
    /\ running => Keeps(ledger, created, held, withdrawn, pair)
    /\ VaultInv
    /\ PairInv

USE LimitAssumption, MachinesFinite

-----------------------------------------------------------------------------
(* Rows, ledgers and pairs                                                 *)

\* Replacing the row of a licence.
LEMMA Replacing ==
  ASSUME NEW book \in Ledger, NEW l \in Licenses, NEW row \in Row
  PROVE  /\ [book EXCEPT ![l] = row] \in Ledger
         /\ [book EXCEPT ![l] = row][l] = row
         /\ \A k \in Licenses : k # l => [book EXCEPT ![l] = row][k] = book[k]
BY DEF Ledger

\* The rows that with_status and with_activations make.
LEMMA RowTypes ==
  ASSUME NEW row \in Row
  PROVE  /\ WithStatus(row, "revoked") \in Row
         /\ \A s \in SUBSET Machines : WithSeats(row, s) \in Row
BY DEF Row, WithStatus, WithSeats

\* Fewer seats are fewer, one more is at most one more.
LEMMA CountSeats ==
  ASSUME NEW s \in SUBSET Machines
  PROVE  /\ Cardinality(s) \in Nat
         /\ \A r \in SUBSET s : Cardinality(r) <= Cardinality(s)
         /\ \A m \in Machines : m \notin s => Cardinality(s \cup {m}) = Cardinality(s) + 1
<1>1. IsFiniteSet(s)
  BY FS_Subset
<1>2. Cardinality(s) \in Nat
  BY <1>1, FS_CardinalityType
<1>3. \A r \in SUBSET s : Cardinality(r) <= Cardinality(s)
  BY <1>1, FS_Subset
<1>4. \A m \in Machines : m \notin s => Cardinality(s \cup {m}) = Cardinality(s) + 1
  BY <1>1, FS_AddElement
<1> QED BY <1>2, <1>3, <1>4

\* ensure_keys completes the pair, and leaves a complete one as it is.
LEMMA Pairs ==
  ASSUME TypeOK, PairInv, PairAllowed
  PROVE  /\ \A i \in 1..3 :
              /\ PairWrites(pair)[i] \in Pair
              /\ PairWrites(pair)[i].public \in {0, PairWrites(pair)[i].private}
              /\ PairComplete(pair) => PairWrites(pair)[i] = pair
         /\ EnsuredPair \in Pair /\ PairComplete(EnsuredPair)
         /\ PairComplete(pair) => EnsuredPair = pair
<1>1. /\ pair \in Pair /\ pair.private \in 0..MaxPairs /\ pair.public \in 0..MaxPairs
      /\ pair.crm \in 0..MaxPairs
      /\ pair = [private |-> pair.private, public |-> pair.public, crm |-> pair.crm]
  BY DEF TypeOK, Pair
<1> DEFINE n == IF PairMissing(pair) THEN pair.private + 1 ELSE pair.private
           public == IF PairMissing(pair) THEN n ELSE pair.public
<1>2. n \in 1..MaxPairs /\ public = n
  BY <1>1 DEF PairMissing, PairAllowed, PairInv
<1>3. /\ PairWrites(pair)[1] = [private |-> n, public |-> pair.public, crm |-> pair.crm]
      /\ PairWrites(pair)[2] = [private |-> n, public |-> public, crm |-> pair.crm]
      /\ PairWrites(pair)[3] = [private |-> n, public |-> public, crm |-> public]
  BY DEF PairWrites
<1>4. pair.public \in {0, n}
  BY <1>1 DEF PairMissing, PairInv
<1>5. PairComplete(pair) => n = pair.private
  BY DEF PairMissing, PairComplete
<1> HIDE DEF n, public
<1>6. ASSUME NEW i \in 1..3
      PROVE  /\ PairWrites(pair)[i] \in Pair
             /\ PairWrites(pair)[i].public \in {0, PairWrites(pair)[i].private}
             /\ PairComplete(pair) => PairWrites(pair)[i] = pair
  <2>1. CASE i = 1
    BY <1>1, <1>2, <1>3, <1>4, <1>5, <2>1 DEF Pair, PairComplete
  <2>2. CASE i = 2
    BY <1>1, <1>2, <1>3, <1>5, <2>2 DEF Pair, PairComplete
  <2>3. CASE i = 3
    BY <1>1, <1>2, <1>3, <1>5, <2>3 DEF Pair, PairComplete
  <2> QED BY <2>1, <2>2, <2>3
<1>7. EnsuredPair = PairWrites(pair)[3]
  BY DEF EnsuredPair
<1>8. PairComplete(EnsuredPair)
  BY <1>2, <1>3, <1>7 DEF PairComplete
<1> QED BY <1>6, <1>7, <1>8

\* The files that may be torn have names.
LEMMA TornTypes ==
  ASSUME TypeOK
  PROVE  /\ torn \subseteq FileNames /\ "state" \in FileNames /\ "vault" \in FileNames
         /\ \A i \in 1..3 : TornAfter(i) \subseteq FileNames /\ KeyFiles[i] \in FileNames
<1>1. \A i \in 1..3 : KeyFiles[i] \in FileNames
  <2>1. KeyFiles[1] = "private" /\ KeyFiles[2] = "public" /\ KeyFiles[3] = "crm"
    BY DEF KeyFiles
  <2> QED BY <2>1 DEF FileNames
<1>2. torn \subseteq FileNames /\ \A i \in 1..3 : TornAfter(i) \subseteq torn
  BY DEF TypeOK, TornAfter
<1> QED BY <1>1, <1>2 DEF FileNames

\* How a request that saves the ledger may end.
LEMMA Outcomes ==
  ASSUME TypeOK, NEW new, NEW keys, NEW old, NEW t \in SUBSET FileNames,
         Saves(new, keys, t) \/ Unanswered(new, keys, old, t)
  PROVE  /\ torn' \in SUBSET FileNames
         /\ stateFile' \in {old, new}
         /\ \/ /\ ledger' = new /\ vault' = keys
               /\ running' = running /\ unlocked' = unlocked
            \/ /\ running' = FALSE /\ unlocked' = FALSE
               /\ ledger' = NoLedger /\ vault' = {}
<1>1. Written(new, t) \/ NotWritten(old, t)
  BY DEF Saves, Unanswered
<1>2. torn' \in SUBSET FileNames /\ stateFile' \in {old, new}
  BY <1>1, TornTypes DEF Written, NotWritten
<1>3. Holds(new, keys) \/ MemoryLost
  BY DEF Saves, Unanswered
<1> QED BY <1>2, <1>3 DEF Holds, MemoryLost

-----------------------------------------------------------------------------
(* What a ledger keeps through a change                                    *)

\* A ledger that has all answers has any of them.
LEMMA KeepsLess ==
  ASSUME NEW b, NEW c, NEW h, NEW w, NEW p, Keeps(b, c, h, w, p),
         NEW d \in SUBSET c, NEW g \in SUBSET h, NEW v \in SUBSET w
  PROVE  Keeps(b, d, g, v, p)
BY DEF Keeps, Remembers

\* ensure_keys does not touch the pair a ledger is founded on.
LEMMA KeepsPair ==
  ASSUME NEW b, NEW c, NEW h, NEW w, NEW p, Keeps(b, c, h, w, p),
         NEW q, PairComplete(p) => q = p
  PROVE  Keeps(b, c, h, w, q)
BY DEF Keeps, Founded

\* Adding a licence.
LEMMA KeepsNew ==
  ASSUME NEW b, NEW c \in SUBSET Licenses, NEW h, NEW w \in SUBSET Licenses, NEW p,
         Keeps(b, c, h, w, p),
         NEW l \in Licenses, b[l].status = "absent",
         NEW max \in Limits \cup {NoLimit}, PairComplete(p)
  PROVE  Keeps([b EXCEPT ![l] = NewRow(max)], c \cup {l}, h, w, p)
<1> DEFINE row == NewRow(max)
           new == [b EXCEPT ![l] = row]
<1>1. /\ row \in Row /\ row.status = "active" /\ row.max = max /\ row.seats = {}
  BY DEF NewRow, Row
<1>2. b \in Ledger /\ b[l].seats = {}
  BY DEF Keeps, Sound
<1> HIDE DEF row
<1>3. new \in Ledger /\ new[l] = row /\ \A k \in Licenses : k # l => new[k] = b[k]
  BY <1>1, <1>2, Replacing
<1> HIDE DEF new
<1>4. row.max # NoLimit => Cardinality(row.seats) <= row.max
  BY <1>1, FS_EmptySet
<1>5. Sound(new)
  BY <1>1, <1>3, <1>4 DEF Keeps, Sound
<1>6. Remembers(new, c \cup {l}, h, w)
  BY <1>1, <1>2, <1>3 DEF Keeps, Remembers
<1>7. Founded(new, p)
  BY DEF Founded
<1> QED BY <1>5, <1>6, <1>7 DEF Keeps, new, row

\* Revoking a licence.
LEMMA KeepsRevoked ==
  ASSUME NEW b, NEW c \in SUBSET Licenses, NEW h, NEW w \in SUBSET Licenses, NEW p,
         Keeps(b, c, h, w, p),
         NEW l \in Licenses, b[l].status # "absent"
  PROVE  Keeps([b EXCEPT ![l] = WithStatus(@, "revoked")], c, h, w \cup {l}, p)
<1> DEFINE row == WithStatus(b[l], "revoked")
           new == [b EXCEPT ![l] = row]
<1>1. b \in Ledger /\ b[l] \in Row
  BY DEF Keeps, Sound, Ledger
<1>2. /\ row \in Row /\ row.status = "revoked" /\ row.max = b[l].max
      /\ row.seats = b[l].seats
  BY <1>1, RowTypes DEF WithStatus
<1> HIDE DEF row
<1>3. new \in Ledger /\ new[l] = row /\ \A k \in Licenses : k # l => new[k] = b[k]
  BY <1>1, <1>2, Replacing
<1>4. [b EXCEPT ![l] = WithStatus(@, "revoked")] = new
  BY DEF row
<1> HIDE DEF new
<1>5. Sound(new)
  BY <1>2, <1>3 DEF Keeps, Sound
<1>6. Remembers(new, c, h, w \cup {l})
  BY <1>2, <1>3 DEF Keeps, Remembers
<1>7. Founded(new, p)
  BY <1>3 DEF Keeps, Founded
<1> QED BY <1>4, <1>5, <1>6, <1>7 DEF Keeps

\* Freeing a seat.
LEMMA KeepsFreed ==
  ASSUME NEW b, NEW c \in SUBSET Licenses, NEW h, NEW w \in SUBSET Licenses, NEW p,
         Keeps(b, c, h, w, p),
         NEW l \in Licenses, NEW m \in Machines
  PROVE  Keeps([b EXCEPT ![l] = WithSeats(@, @.seats \ {m})], c, h \ {<<l, m>>}, w, p)
<1> DEFINE row == WithSeats(b[l], b[l].seats \ {m})
           new == [b EXCEPT ![l] = row]
<1>1. b \in Ledger /\ b[l] \in Row /\ b[l].seats \in SUBSET Machines
  BY DEF Keeps, Sound, Ledger, Row
<1>2. /\ row \in Row /\ row.status = b[l].status /\ row.max = b[l].max
      /\ row.seats = b[l].seats \ {m}
  BY <1>1, RowTypes DEF WithSeats
<1> HIDE DEF row
<1>3. new \in Ledger /\ new[l] = row /\ \A k \in Licenses : k # l => new[k] = b[k]
  BY <1>1, <1>2, Replacing
<1>4. [b EXCEPT ![l] = WithSeats(@, @.seats \ {m})] = new
  BY DEF row
<1> HIDE DEF new
<1>5. row.max # NoLimit => Cardinality(row.seats) <= row.max
  <2>1. /\ Cardinality(row.seats) \in Nat /\ Cardinality(b[l].seats) \in Nat
        /\ Cardinality(row.seats) <= Cardinality(b[l].seats)
    BY <1>1, <1>2, CountSeats
  <2>2. row.max # NoLimit => row.max \in Nat /\ Cardinality(b[l].seats) <= row.max
    BY <1>1, <1>2 DEF Keeps, Sound, Row
  <2> QED BY <2>1, <2>2
<1>6. Sound(new)
  BY <1>2, <1>3, <1>5 DEF Keeps, Sound
<1>7. Remembers(new, c, h \ {<<l, m>>}, w)
  BY <1>2, <1>3 DEF Keeps, Remembers
<1>8. Founded(new, p)
  BY <1>2, <1>3 DEF Keeps, Founded
<1> QED BY <1>4, <1>6, <1>7, <1>8 DEF Keeps

\* Issuing a code: a seat that is there, or one that is free.
LEMMA KeepsSeated ==
  ASSUME NEW b, NEW c \in SUBSET Licenses, NEW h, NEW w \in SUBSET Licenses, NEW p,
         Keeps(b, c, h, w, p),
         NEW l \in Licenses, NEW m \in Machines, MayIssue(b, l, m)
  PROVE  Keeps(IF m \in b[l].seats THEN b ELSE Seated(b, l, m), c, h \cup {<<l, m>>}, w, p)
<1> DEFINE row == WithSeats(b[l], b[l].seats \cup {m})
           new == [b EXCEPT ![l] = row]
<1>1. b \in Ledger /\ b[l] \in Row /\ b[l].seats \in SUBSET Machines
  BY DEF Keeps, Sound, Ledger, Row
<1>2. b[l].status = "active" /\ (m \in b[l].seats \/ HasFreeSeat(b[l]))
  BY DEF MayIssue
<1>3. CASE m \in b[l].seats
  <2>1. Remembers(b, c, h \cup {<<l, m>>}, w)
    BY <1>3 DEF Keeps, Remembers
  <2> QED BY <1>3, <2>1 DEF Keeps
<1>4. CASE m \notin b[l].seats
  <2>1. /\ row \in Row /\ row.status = b[l].status /\ row.max = b[l].max
        /\ row.seats = b[l].seats \cup {m}
    BY <1>1, RowTypes DEF WithSeats
  <2> HIDE DEF row
  <2>2. new \in Ledger /\ new[l] = row /\ \A k \in Licenses : k # l => new[k] = b[k]
    BY <1>1, <2>1, Replacing
  <2>3. Seated(b, l, m) = new
    BY DEF Seated, row
  <2> HIDE DEF new
  <2>4. row.max # NoLimit => Cardinality(row.seats) <= row.max
    <3>1. /\ Cardinality(b[l].seats) \in Nat
          /\ Cardinality(row.seats) = Cardinality(b[l].seats) + 1
      BY <1>1, <1>4, <2>1, CountSeats
    <3>2. row.max # NoLimit => row.max \in Nat /\ Cardinality(b[l].seats) < row.max
      BY <1>1, <1>2, <1>4, <2>1 DEF HasFreeSeat, Row
    <3> QED BY <3>1, <3>2
  <2>5. Sound(new)
    BY <1>2, <2>1, <2>2, <2>4 DEF Keeps, Sound
  <2>6. Remembers(new, c, h \cup {<<l, m>>}, w)
    BY <1>2, <2>1, <2>2 DEF Keeps, Remembers
  <2>7. Founded(new, p)
    BY <1>2, <2>1, <2>2 DEF Keeps, Founded
  <2> QED BY <1>4, <2>3, <2>5, <2>6, <2>7 DEF Keeps
<1> QED BY <1>3, <1>4

-----------------------------------------------------------------------------
(* The invariant, action by action                                         *)

\* An empty ledger is a ledger.
LEMMA NoLedgerType == NoLedger \in Ledger
BY DEF NoLedger, NoRow, Ledger, Row

\* The process starts with the ledger on file, and may stop at any time.
LEMMA ProcessKeepsInv == Inv /\ (Start \/ Stop) => Inv'
<1> SUFFICES ASSUME Inv, Start \/ Stop PROVE Inv'
  OBVIOUS
<1>1. CASE Start
  <2>1. /\ running' = TRUE /\ ledger' = stateFile /\ ~running
        /\ UNCHANGED <<unlocked, vault, files, answers>>
    BY <1>1 DEF Start, Loaded
  <2>2. TypeOK'
    BY <2>1 DEF Inv, TypeOK, files, answers
  <2> QED BY <2>1, <2>2 DEF Inv, VaultInv, PairInv, files, answers
<1>2. CASE Stop
  <2>1. /\ running' = FALSE /\ unlocked' = FALSE /\ ledger' = NoLedger /\ vault' = {}
        /\ UNCHANGED <<files, answers>>
    BY <1>2 DEF Stop, MemoryLost
  <2>2. TypeOK'
    BY <2>1, NoLedgerType DEF Inv, TypeOK, files, answers
  <2> QED BY <2>1, <2>2 DEF Inv, VaultInv, PairInv, files, answers
<1> QED BY <1>1, <1>2

\* The vault is made, or opened.
LEMMA VaultKeepsInv == Inv /\ (MakeVault \/ Unlock) => Inv'
<1> SUFFICES ASSUME Inv, MakeVault \/ Unlock PROVE Inv'
  OBVIOUS
<1>1. CASE MakeVault
  <2>1. /\ running /\ ~saltFile /\ saltFile' = TRUE
        /\ UNCHANGED <<vaultFile, stateFile, pair, torn, answers>>
    BY <1>1 DEF MakeVault
  <2>2. ~vaultMade /\ ~unlocked /\ created = {} /\ vaultMade' \in BOOLEAN
    BY <1>1, <2>1 DEF Inv, VaultInv, TypeOK, MakeVault
  <2>3. \/ vaultMade' = TRUE /\ unlocked' = TRUE /\ UNCHANGED <<running, ledger, vault>>
        \/ UNCHANGED <<vaultMade, running, unlocked, ledger, vault>>
        \/ MemoryLost
    BY <1>1 DEF MakeVault, memory
  <2>4. CASE MemoryLost
    <3>1. TypeOK'
      BY <2>1, <2>2, <2>4, NoLedgerType DEF MemoryLost, Inv, TypeOK, answers
    <3> QED BY <2>1, <2>2, <2>4, <3>1 DEF MemoryLost, Inv, VaultInv, PairInv, answers
  <2>5. CASE vaultMade' = TRUE /\ unlocked' = TRUE /\ UNCHANGED <<running, ledger, vault>>
    <3>1. TypeOK'
      BY <2>1, <2>5 DEF Inv, TypeOK, answers
    <3>2. VaultInv'
      BY <2>1, <2>2, <2>5 DEF Inv, VaultInv, answers
    <3> QED BY <2>1, <2>5, <3>1, <3>2 DEF Inv, PairInv, answers
  <2>6. CASE UNCHANGED <<vaultMade, running, unlocked, ledger, vault>>
    <3>1. TypeOK'
      BY <2>1, <2>6 DEF Inv, TypeOK, answers
    <3> QED BY <2>1, <2>2, <2>6, <3>1 DEF Inv, VaultInv, PairInv, answers
  <2> QED BY <2>3, <2>4, <2>5, <2>6
<1>2. CASE Unlock
  <2>1. /\ running /\ saltFile /\ vaultMade /\ vault' = vaultFile /\ unlocked' = TRUE
        /\ UNCHANGED <<running, ledger, files, answers>>
    BY <1>2 DEF Unlock, Opened
  <2>2. TypeOK'
    BY <2>1 DEF Inv, TypeOK, files, answers
  <2> QED BY <2>1, <2>2 DEF Inv, VaultInv, PairInv, files, answers
<1> QED BY <1>1, <1>2

\* What ensure_keys leaves, in whole or in part.
LEMMA EnsureOutcomes ==
  ASSUME TypeOK, EnsureKeys \/ EnsureKeysPartly
  PROVE  /\ running /\ unlocked /\ PairAllowed
         /\ UNCHANGED <<saltFile, vaultMade, vaultFile, answers>>
         /\ pair' = EnsuredPair \/ \E i \in 1..3 : pair' = PairWrites(pair)[i]
         /\ torn' \in SUBSET FileNames
         /\ stateFile' \in {stateFile, ledger}
         /\ \/ ledger' = ledger /\ UNCHANGED <<running, unlocked, vault>>
            \/ /\ running' = FALSE /\ unlocked' = FALSE
               /\ ledger' = NoLedger /\ vault' = {}
<1>1. /\ running /\ unlocked /\ PairAllowed
      /\ UNCHANGED <<saltFile, vaultMade, vaultFile, answers>>
  BY DEF EnsureKeys, EnsureKeysPartly
<1>2. TornAfter(3) \in SUBSET FileNames
  BY TornTypes
<1>3. CASE /\ pair' = EnsuredPair
           /\ \/ Saves(ledger, vault, TornAfter(3))
              \/ Unanswered(ledger, vault, stateFile, TornAfter(3))
  BY <1>1, <1>2, <1>3, Outcomes
<1>4. CASE /\ \E i \in KeyWrites :
                 /\ pair' = PairWrites(pair)[i]
                 /\ torn' \in {TornAfter(i), TornAfter(i) \cup {KeyFiles[i]}}
           /\ UNCHANGED stateFile
           /\ UNCHANGED memory \/ MemoryLost
  <2>1. KeyWrites \subseteq 1..3
    BY DEF KeyWrites
  <2>2. PICK i \in 1..3 : /\ pair' = PairWrites(pair)[i]
                          /\ torn' \in {TornAfter(i), TornAfter(i) \cup {KeyFiles[i]}}
    BY <1>4, <2>1
  <2>3. torn' \in SUBSET FileNames
    BY <2>2, TornTypes
  <2> QED BY <1>1, <1>4, <2>2, <2>3 DEF memory, MemoryLost
<1> QED BY <1>3, <1>4 DEF EnsureKeys, EnsureKeysPartly

\* The pair of keys, in whole or in part.
LEMMA EnsureKeepsInv == Inv /\ (EnsureKeys \/ EnsureKeysPartly) => Inv'
<1> SUFFICES ASSUME Inv, EnsureKeys \/ EnsureKeysPartly PROVE Inv'
  OBVIOUS
<1>1. TypeOK /\ PairInv /\ VaultInv /\ ledger \in Ledger /\ stateFile \in Ledger
  BY DEF Inv, TypeOK
<1>2. /\ running /\ unlocked /\ PairAllowed
      /\ UNCHANGED <<saltFile, vaultMade, vaultFile, answers>>
      /\ pair' = EnsuredPair \/ \E i \in 1..3 : pair' = PairWrites(pair)[i]
      /\ torn' \in SUBSET FileNames
      /\ stateFile' \in {stateFile, ledger}
      /\ \/ ledger' = ledger /\ UNCHANGED <<running, unlocked, vault>>
         \/ /\ running' = FALSE /\ unlocked' = FALSE
            /\ ledger' = NoLedger /\ vault' = {}
  BY <1>1, EnsureOutcomes
<1>3. /\ pair' \in Pair /\ pair'.public \in {0, pair'.private}
      /\ PairComplete(pair) => pair' = pair
  BY <1>1, <1>2, Pairs DEF EnsuredPair
<1>4. PairInv'
  BY <1>1, <1>2, <1>3 DEF PairInv, answers
<1>5. /\ Keeps(ledger, created, held, withdrawn, pair')
      /\ Keeps(stateFile, created, held, withdrawn, pair')
  BY <1>2, <1>3, KeepsPair DEF Inv
<1>6. TypeOK'
  BY <1>1, <1>2, <1>3, NoLedgerType DEF TypeOK, answers
<1>7. VaultInv'
  BY <1>1, <1>2 DEF VaultInv, answers
<1> QED BY <1>2, <1>4, <1>5, <1>6, <1>7 DEF Inv, answers

\* What a request that adds a row leaves: an answer is given last.
LEMMA StoresOutcomes ==
  ASSUME TypeOK, NEW book, NEW l \in Licenses, NEW max, NEW old, NEW t \in SUBSET FileNames,
         StoresLicense(book, l, max, old, t)
  PROVE  LET new == [book EXCEPT ![l] = NewRow(max)]
         IN  /\ torn' \in SUBSET FileNames
             /\ stateFile' \in {old, new}
             /\ vaultFile' \in {vaultFile, vault \cup {l}}
             /\ UNCHANGED <<held, withdrawn, signed>>
             /\ \/ created' = created
                \/ /\ created' = created \cup {l}
                   /\ stateFile' = new /\ vaultFile' = vault \cup {l}
             /\ \/ ledger' = new /\ vault' = vault \cup {l} /\ UNCHANGED <<running, unlocked>>
                \/ /\ running' = FALSE /\ unlocked' = FALSE
                   /\ ledger' = NoLedger /\ vault' = {}
<1> DEFINE new == [book EXCEPT ![l] = NewRow(max)]
           keys == vault \cup {l}
<1>1. \/ /\ stateFile' = old
         /\ vaultFile' = vaultFile /\ torn' \in {t, t \cup {"vault"}}
         /\ Holds(new, keys) \/ MemoryLost
         /\ UNCHANGED answers
      \/ /\ vaultFile' = keys
         /\ \/ /\ Saves(new, keys, t \ {"vault"})
               /\ created' = created \cup {l}
               /\ UNCHANGED <<held, withdrawn, signed>>
            \/ /\ Unanswered(new, keys, old, t \ {"vault"})
               /\ UNCHANGED answers
  BY DEF StoresLicense
<1> HIDE DEF new, keys
<1>2. CASE /\ stateFile' = old
           /\ vaultFile' = vaultFile /\ torn' \in {t, t \cup {"vault"}}
           /\ Holds(new, keys) \/ MemoryLost
           /\ UNCHANGED answers
  <2>1. torn' \in SUBSET FileNames
    BY <1>2, TornTypes
  <2> QED BY <1>2, <2>1 DEF new, keys, Holds, MemoryLost, answers
<1>3. CASE /\ vaultFile' = keys
           /\ \/ /\ Saves(new, keys, t \ {"vault"})
                 /\ created' = created \cup {l}
                 /\ UNCHANGED <<held, withdrawn, signed>>
              \/ /\ Unanswered(new, keys, old, t \ {"vault"})
                 /\ UNCHANGED answers
  <2>1. t \ {"vault"} \in SUBSET FileNames
    OBVIOUS
  <2>2. /\ torn' \in SUBSET FileNames
        /\ stateFile' \in {old, new}
        /\ \/ /\ ledger' = new /\ vault' = keys
              /\ running' = running /\ unlocked' = unlocked
           \/ /\ running' = FALSE /\ unlocked' = FALSE
              /\ ledger' = NoLedger /\ vault' = {}
    BY <1>3, <2>1, Outcomes
  <2>3. \/ created' = created
        \/ created' = created \cup {l} /\ stateFile' = new
    BY <1>3 DEF Saves, Written, answers
  <2>4. UNCHANGED <<held, withdrawn, signed>>
    BY <1>3 DEF answers
  <2> QED BY <1>3, <2>2, <2>3, <2>4 DEF new, keys
<1> QED BY <1>1, <1>2, <1>3

\* The same of create_license, which has saved the ledger once before.
LEMMA CreateOutcomes ==
  ASSUME TypeOK, NEW l \in Licenses, NEW max, CreateLicense(l, max)
  PROVE  LET new == [ledger EXCEPT ![l] = NewRow(max)]
         IN  /\ torn' \in SUBSET FileNames
             /\ stateFile' \in {ledger, new}
             /\ vaultFile' \in {vaultFile, vault \cup {l}}
             /\ UNCHANGED <<held, withdrawn, signed>>
             /\ \/ created' = created
                \/ /\ created' = created \cup {l}
                   /\ stateFile' = new /\ vaultFile' = vault \cup {l}
             /\ \/ ledger' = new /\ vault' = vault \cup {l} /\ UNCHANGED <<running, unlocked>>
                \/ /\ running' = FALSE /\ unlocked' = FALSE
                   /\ ledger' = NoLedger /\ vault' = {}
<1>1. StoresLicense(ledger, l, max, ledger, TornAfter(3) \ {"state"})
  BY DEF CreateLicense
<1>2. TornAfter(3) \ {"state"} \in SUBSET FileNames
  BY TornTypes
<1> QED BY <1>1, <1>2, StoresOutcomes

\* A licence is created: its key first, then its row.
LEMMA CreateKeepsInv ==
  \A l \in Licenses, max \in Limits \cup {NoLimit} : Inv /\ CreateLicense(l, max) => Inv'
<1> SUFFICES ASSUME NEW l \in Licenses, NEW max \in Limits \cup {NoLimit},
                    Inv, CreateLicense(l, max)
             PROVE  Inv'
  OBVIOUS
<1> DEFINE new == [ledger EXCEPT ![l] = NewRow(max)]
<1>1. /\ running /\ unlocked /\ PairAllowed /\ ledger[l].status = "absent"
      /\ pair' = EnsuredPair /\ UNCHANGED <<saltFile, vaultMade>>
  BY DEF CreateLicense
<1>2. /\ TypeOK /\ PairInv /\ VaultInv /\ created \in SUBSET Licenses
      /\ withdrawn \in SUBSET Licenses
  BY DEF Inv, TypeOK
<1>3. /\ pair' \in Pair /\ PairComplete(pair') /\ (PairComplete(pair) => pair' = pair)
  BY <1>1, <1>2, Pairs
<1>4. Keeps(ledger, created, held, withdrawn, pair')
  BY <1>1, <1>3, KeepsPair DEF Inv
<1>5. Keeps(new, created \cup {l}, held, withdrawn, pair')
  BY <1>1, <1>2, <1>3, <1>4, KeepsNew
<1>6. /\ torn' \in SUBSET FileNames
      /\ stateFile' \in {ledger, new}
      /\ vaultFile' \in {vaultFile, vault \cup {l}}
      /\ UNCHANGED <<held, withdrawn, signed>>
      /\ \/ created' = created
         \/ /\ created' = created \cup {l}
            /\ stateFile' = new /\ vaultFile' = vault \cup {l}
      /\ \/ ledger' = new /\ vault' = vault \cup {l} /\ UNCHANGED <<running, unlocked>>
         \/ /\ running' = FALSE /\ unlocked' = FALSE
            /\ ledger' = NoLedger /\ vault' = {}
  BY <1>2, CreateOutcomes
<1> HIDE DEF new
<1>7. Keeps(new, created, held, withdrawn, pair')
  BY <1>5, KeepsLess
<1>8. new \in Ledger /\ ledger \in Ledger
  BY <1>2, <1>5 DEF Keeps, Sound, TypeOK
<1>9. vaultFile \subseteq vault /\ vaultMade /\ saltFile /\ created \subseteq vaultFile
  BY <1>1, <1>2 DEF VaultInv
<1>10. PairInv'
  BY <1>2, <1>3, <1>6 DEF PairInv, PairComplete
<1>11. TypeOK'
  BY <1>1, <1>2, <1>3, <1>6, <1>8, NoLedgerType DEF TypeOK
<1>12. VaultInv'
  BY <1>1, <1>2, <1>6, <1>9 DEF VaultInv
<1>13. /\ Keeps(stateFile, created, held, withdrawn, pair)'
       /\ running' => Keeps(ledger, created, held, withdrawn, pair)'
  BY <1>4, <1>5, <1>6, <1>7
<1> QED BY <1>10, <1>11, <1>12, <1>13 DEF Inv

\* A request that changes the ledger and saves it, fails to, or stops.
LEMMA OutcomesKeepInv ==
  ASSUME Inv, running, unlocked, NEW new,
         UNCHANGED <<saltFile, vaultMade, vaultFile, pair, created>>,
         Keeps(new, created, held', withdrawn', pair),
         held' \in SUBSET (Licenses \X Machines), withdrawn' \in SUBSET Licenses,
         signed' \subseteq signed \cup {pair.private},
         signed' # {} => PairComplete(pair),
         Saves(new, vault, torn) \/ Unanswered(new, vault, stateFile, torn),
         Saves(new, vault, torn) \/ Keeps(stateFile, created, held', withdrawn', pair)
  PROVE  Inv'
<1>1. TypeOK /\ VaultInv /\ PairInv /\ new \in Ledger
  BY DEF Inv, Keeps, Sound
<1>2. PairInv' /\ signed' \in SUBSET (0..MaxPairs)
  <2>1. pair.private \in 0..MaxPairs /\ signed \in SUBSET (0..MaxPairs)
    BY <1>1 DEF TypeOK, Pair
  <2> QED BY <1>1, <2>1 DEF PairInv
<1>3. /\ torn' \in SUBSET FileNames
      /\ stateFile' \in {stateFile, new}
      /\ \/ /\ ledger' = new /\ vault' = vault
            /\ running' = running /\ unlocked' = unlocked
         \/ /\ running' = FALSE /\ unlocked' = FALSE
            /\ ledger' = NoLedger /\ vault' = {}
  BY <1>1, TornTypes, Outcomes
<1>4. stateFile' = new \/ (stateFile' = stateFile /\ Keeps(stateFile, created, held', withdrawn', pair))
  BY <1>3 DEF Saves, Written
<1>5. TypeOK'
  BY <1>1, <1>2, <1>3, NoLedgerType DEF TypeOK
<1>6. VaultInv'
  BY <1>1, <1>3 DEF VaultInv
<1> QED BY <1>2, <1>3, <1>4, <1>5, <1>6 DEF Inv

\* A licence is revoked.
LEMMA RevokeKeepsInv == \A l \in Licenses : Inv /\ Revoke(l) => Inv'
<1> SUFFICES ASSUME NEW l \in Licenses, Inv, Revoke(l) PROVE Inv'
  OBVIOUS
<1> DEFINE new == [ledger EXCEPT ![l] = WithStatus(@, "revoked")]
<1>1. /\ running /\ unlocked /\ ledger[l].status # "absent"
      /\ UNCHANGED <<saltFile, vaultMade, vaultFile, pair, created, held, signed>>
      /\ \/ Saves(new, vault, torn) /\ withdrawn' = withdrawn \cup {l}
         \/ Unanswered(new, vault, stateFile, torn) /\ UNCHANGED withdrawn
  BY DEF Revoke, RevokeFrom
<1>2. /\ Keeps(ledger, created, held, withdrawn, pair) /\ PairInv
      /\ Keeps(stateFile, created, held, withdrawn, pair)
      /\ created \in SUBSET Licenses /\ withdrawn \in SUBSET Licenses
      /\ held \in SUBSET (Licenses \X Machines)
  BY <1>1 DEF Inv, TypeOK
<1>3. Keeps(new, created, held, withdrawn \cup {l}, pair)
  BY <1>1, <1>2, KeepsRevoked
<1> HIDE DEF new
<1>4. Keeps(new, created, held, withdrawn, pair)
  BY <1>3, KeepsLess
<1>5. Keeps(new, created, held', withdrawn', pair)
  BY <1>1, <1>3, <1>4
<1>6. signed' \subseteq signed \cup {pair.private} /\ (signed' # {} => PairComplete(pair))
  BY <1>1, <1>2 DEF PairInv
<1>7. Saves(new, vault, torn) \/ Keeps(stateFile, created, held', withdrawn', pair)
  BY <1>1, <1>2
<1>8. held' \in SUBSET (Licenses \X Machines) /\ withdrawn' \in SUBSET Licenses
  BY <1>1, <1>2
<1> QED BY <1>1, <1>5, <1>6, <1>7, <1>8, OutcomesKeepInv

\* A seat is freed.
LEMMA DeallocateKeepsInv ==
  \A l \in Licenses, m \in Machines : Inv /\ Deallocate(l, m) => Inv'
<1> SUFFICES ASSUME NEW l \in Licenses, NEW m \in Machines, Inv, Deallocate(l, m)
             PROVE  Inv'
  OBVIOUS
<1> DEFINE new == [ledger EXCEPT ![l] = WithSeats(@, @.seats \ {m})]
<1>1. /\ running /\ unlocked
      /\ UNCHANGED <<saltFile, vaultMade, vaultFile, pair, created, withdrawn, signed>>
      /\ held' = held \ {<<l, m>>}
      /\ Saves(new, vault, torn) \/ Unanswered(new, vault, stateFile, torn)
  BY DEF Deallocate, DeallocateFrom
<1>2. /\ Keeps(ledger, created, held, withdrawn, pair) /\ PairInv
      /\ Keeps(stateFile, created, held, withdrawn, pair)
      /\ created \in SUBSET Licenses /\ withdrawn \in SUBSET Licenses
      /\ held \in SUBSET (Licenses \X Machines)
  BY <1>1 DEF Inv, TypeOK
<1>3. Keeps(new, created, held \ {<<l, m>>}, withdrawn, pair)
  BY <1>2, KeepsFreed
<1> HIDE DEF new
<1>4. Keeps(stateFile, created, held \ {<<l, m>>}, withdrawn, pair)
  BY <1>2, KeepsLess
<1>5. signed' \subseteq signed \cup {pair.private} /\ (signed' # {} => PairComplete(pair))
  BY <1>1, <1>2 DEF PairInv
<1>6. held' \in SUBSET (Licenses \X Machines) /\ withdrawn' \in SUBSET Licenses
  BY <1>1, <1>2
<1>7. /\ Keeps(new, created, held', withdrawn', pair)
      /\ Keeps(stateFile, created, held', withdrawn', pair)
  BY <1>1, <1>3, <1>4
<1> QED BY <1>1, <1>5, <1>6, <1>7, OutcomesKeepInv

\* A code is issued.
LEMMA IssueKeepsInv ==
  \A l \in Licenses, m \in Machines : Inv /\ IssueActivationCode(l, m) => Inv'
<1> SUFFICES ASSUME NEW l \in Licenses, NEW m \in Machines, Inv, IssueActivationCode(l, m)
             PROVE  Inv'
  OBVIOUS
<1> DEFINE new == IF m \in ledger[l].seats THEN ledger ELSE Seated(ledger, l, m)
<1>1. /\ running /\ unlocked /\ MayIssue(ledger, l, m)
      /\ UNCHANGED <<saltFile, vaultMade, vaultFile, pair, created, withdrawn>>
      /\ \/ /\ Saves(new, vault, torn)
            /\ held' = held \cup {<<l, m>>}
            /\ signed' = signed \cup {pair.private}
         \/ /\ Unanswered(new, vault, stateFile, torn)
            /\ UNCHANGED <<held, signed>>
  BY DEF IssueActivationCode, IssueFrom
<1>2. /\ Keeps(ledger, created, held, withdrawn, pair) /\ PairInv
      /\ Keeps(stateFile, created, held, withdrawn, pair)
      /\ created \in SUBSET Licenses /\ withdrawn \in SUBSET Licenses
      /\ held \in SUBSET (Licenses \X Machines)
  BY <1>1 DEF Inv, TypeOK
<1>3. Keeps(new, created, held \cup {<<l, m>>}, withdrawn, pair)
  BY <1>1, <1>2, KeepsSeated
<1> HIDE DEF new
<1>4. Keeps(new, created, held, withdrawn, pair)
  BY <1>3, KeepsLess
<1>5. PairComplete(pair)
  BY <1>1, <1>2 DEF MayIssue, Keeps, Founded
<1>6. /\ held' \in {held, held \cup {<<l, m>>}}
      /\ signed' \subseteq signed \cup {pair.private}
  BY <1>1
<1>7. Keeps(new, created, held', withdrawn', pair)
  BY <1>1, <1>3, <1>4, <1>6
<1>8. Saves(new, vault, torn) \/ Keeps(stateFile, created, held', withdrawn', pair)
  BY <1>1, <1>2
<1>9. held' \in SUBSET (Licenses \X Machines) /\ withdrawn' \in SUBSET Licenses
  BY <1>1, <1>2, <1>6
<1> QED BY <1>1, <1>5, <1>6, <1>7, <1>8, <1>9, OutcomesKeepInv

\* It holds of an installation that has nothing yet.
LEMMA AdminStarts == Init => Inv
<1> SUFFICES ASSUME Init PROVE Inv
  OBVIOUS
<1>1. TypeOK
  <2>1. 0 \in 0..MaxPairs
    OBVIOUS
  <2>2. pair \in Pair
    BY <2>1 DEF Init, Pair
  <2>3. /\ ledger \in Ledger /\ stateFile \in Ledger
        /\ running = FALSE /\ unlocked = FALSE /\ saltFile = FALSE /\ vaultMade = FALSE
    BY NoLedgerType DEF Init
  <2> QED BY <2>2, <2>3 DEF Init, TypeOK
<1>2. Sound(NoLedger)
  BY NoLedgerType DEF Sound, NoLedger, NoRow
<1>3. Keeps(stateFile, created, held, withdrawn, pair)
  BY <1>2 DEF Init, Keeps, Remembers, Founded, NoLedger, NoRow
<1>4. VaultInv /\ PairInv /\ ~running
  BY DEF Init, VaultInv, PairInv
<1> QED BY <1>1, <1>3, <1>4 DEF Inv

\* The inductive invariant of the service (LicenseAdminService).
THEOREM AdminInvariance == Spec => []Inv
<1>1. Init => Inv
  BY AdminStarts
<1>2. Inv /\ [Next]_vars => Inv'
  <2> SUFFICES ASSUME Inv, [Next]_vars PROVE Inv'
    OBVIOUS
  <2>1. CASE Start \/ Stop
    BY <2>1, ProcessKeepsInv
  <2>2. CASE MakeVault \/ Unlock
    BY <2>2, VaultKeepsInv
  <2>3. CASE EnsureKeys \/ EnsureKeysPartly
    BY <2>3, EnsureKeepsInv
  <2>4. ASSUME NEW l \in Licenses, NEW max \in Limits \cup {NoLimit}, CreateLicense(l, max)
        PROVE  Inv'
    BY <2>4, CreateKeepsInv
  <2>5. ASSUME NEW l \in Licenses, Revoke(l) PROVE Inv'
    BY <2>5, RevokeKeepsInv
  <2>6. ASSUME NEW l \in Licenses, NEW m \in Machines, Deallocate(l, m) PROVE Inv'
    BY <2>6, DeallocateKeepsInv
  <2>7. ASSUME NEW l \in Licenses, NEW m \in Machines, IssueActivationCode(l, m) PROVE Inv'
    BY <2>7, IssueKeepsInv
  <2>8. CASE UNCHANGED vars
    BY <2>8 DEF vars, memory, files, answers, Inv, TypeOK, VaultInv, PairInv
  <2> QED BY <2>1, <2>2, <2>3, <2>4, <2>5, <2>6, <2>7, <2>8 DEF Next
<1> QED BY <1>1, <1>2, PTL DEF Spec

-----------------------------------------------------------------------------
(* The properties                                                          *)

\* Memory, files and answers stay in their types.
THEOREM AdminTypes == Spec => []TypeOK
<1>1. Inv => TypeOK
  BY DEF Inv
<1> QED BY <1>1, AdminInvariance, PTL

\* issue_activation_code never has more codes in use than max_seats.
THEOREM NeverTooManyCodes == Spec => []SeatsWithinLimit
<1>1. Inv => SeatsWithinLimit
  <2> SUFFICES ASSUME Inv, NEW l \in Licenses, stateFile[l].max # NoLimit
               PROVE  Cardinality(HeldBy(l)) <= stateFile[l].max
    BY DEF SeatsWithinLimit
  <2>1. /\ stateFile[l] \in Row /\ Cardinality(stateFile[l].seats) <= stateFile[l].max
        /\ HeldBy(l) \subseteq stateFile[l].seats
    BY DEF Inv, Keeps, Sound, Remembers, HeldBy, Ledger
  <2>2. stateFile[l].seats \in SUBSET Machines /\ stateFile[l].max \in Nat
    BY <2>1 DEF Row
  <2>3. /\ Cardinality(HeldBy(l)) <= Cardinality(stateFile[l].seats)
        /\ Cardinality(HeldBy(l)) \in Nat /\ Cardinality(stateFile[l].seats) \in Nat
    BY <2>1, <2>2, CountSeats
  <2> QED BY <2>1, <2>2, <2>3
<1> QED BY <1>1, AdminInvariance, PTL

\* What the service has answered, it knows while it runs, and vault.bin and
\* state.json tell it unless their last write was cut short.
THEOREM AnswersAreKept == Spec => []AnswersSurvive
<1>1. ASSUME NEW book, Keeps(book, created, held, withdrawn, pair)
      PROVE  Tells(book)
  BY <1>1 DEF Keeps, Remembers, Tells, HeldBy
<1>2. Inv => AnswersSurvive
  BY <1>1 DEF Inv, VaultInv, AnswersSurvive
<1> QED BY <1>2, AdminInvariance, PTL

\* Every code was signed with the pair whose public key the CRM is built with,
\* unless public.pem or the copy was cut short.
THEOREM CodesAlwaysVerify == Spec => []CodesVerify
<1>1. Inv => CodesVerify
  BY DEF Inv, PairInv, PairComplete, CodesVerify
<1> QED BY <1>1, AdminInvariance, PTL

\* issue_activation_code refuses a revoked licence, after restarts too.
THEOREM RevokedGetNoCode == Spec => NoCodeOnceRevoked
<1>1. Inv /\ [Next]_vars => [\A l \in withdrawn : HeldBy(l)' \subseteq HeldBy(l)]_vars
  <2> SUFFICES ASSUME Inv, Next, NEW l \in withdrawn PROVE HeldBy(l)' \subseteq HeldBy(l)
    OBVIOUS
  <2>1. ASSUME NEW k \in Licenses, NEW m \in Machines, IssueActivationCode(k, m)
        PROVE  held' \subseteq held \/ (held' = held \cup {<<k, m>>} /\ k # l)
    <3>1. running /\ ledger[k].status = "active"
      BY <2>1 DEF IssueActivationCode, IssueFrom, MayIssue
    <3>2. ledger[l].status = "revoked"
      BY <3>1 DEF Inv, Keeps, Remembers
    <3>3. held' \in {held, held \cup {<<k, m>>}}
      BY <2>1 DEF IssueActivationCode, IssueFrom
    <3> QED BY <3>1, <3>2, <3>3
  <2>2. ASSUME NEW k \in Licenses, NEW m \in Machines, Deallocate(k, m)
        PROVE  held' \subseteq held
    BY <2>2 DEF Deallocate, DeallocateFrom
  <2>3. ASSUME NEW k \in Licenses, Revoke(k) PROVE held' \subseteq held
    BY <2>3 DEF Revoke, RevokeFrom
  <2>4. ASSUME NEW k \in Licenses, NEW max \in Limits \cup {NoLimit}, CreateLicense(k, max)
        PROVE  held' \subseteq held
    BY <2>4 DEF CreateLicense, StoresLicense, answers
  <2>5. CASE \/ Start \/ Stop \/ MakeVault \/ Unlock \/ EnsureKeys \/ EnsureKeysPartly
    <3>1. held' = held
      BY <2>5 DEF Start, Stop, MakeVault, Unlock, EnsureKeys, EnsureKeysPartly, answers
    <3> QED BY <3>1 DEF HeldBy
  <2>6. held' \subseteq held => HeldBy(l)' \subseteq HeldBy(l)
    BY DEF HeldBy
  <2>7. ASSUME NEW k \in Licenses, NEW m \in Machines, held' = held \cup {<<k, m>>}, k # l
        PROVE  HeldBy(l)' \subseteq HeldBy(l)
    BY <2>7 DEF HeldBy
  <2> QED BY <2>1, <2>2, <2>3, <2>4, <2>5, <2>6, <2>7 DEF Next
<1> QED BY <1>1, AdminInvariance, PTL DEF Spec, NoCodeOnceRevoked

-----------------------------------------------------------------------------
(* LicenseAdmin implements SeatPromise                                     *)

\* A ledger is ahead of a file it is going to replace: it has what the file has,
\* on the same terms, and revokes what the file revokes.
Ahead(book, file) ==
    \A l \in Licenses :
        /\ file[l].status # "absent" =>
              book[l].status # "absent" /\ book[l].max = file[l].max
        /\ file[l].status = "revoked" => book[l].status = "revoked"

MemoryAhead == running => Ahead(ledger, stateFile)

\* Being ahead is an order.
LEMMA AheadOrder ==
  ASSUME NEW a, NEW b, NEW c
  PROVE  /\ Ahead(a, a)
         /\ Ahead(a, b) /\ Ahead(b, c) => Ahead(a, c)
BY DEF Ahead

\* One row replaced by one on the same terms, revoked if it was.
LEMMA AheadRow ==
  ASSUME NEW book \in Ledger, NEW l \in Licenses, NEW row \in Row,
         book[l].status # "absent" => row.status # "absent" /\ row.max = book[l].max,
         book[l].status = "revoked" => row.status = "revoked"
  PROVE  Ahead([book EXCEPT ![l] = row], book)
BY Replacing DEF Ahead

\* Each change a request makes to the ledger puts it ahead.
LEMMA AheadChanges ==
  ASSUME NEW book \in Ledger, NEW l \in Licenses
  PROVE  /\ book[l].status = "absent" =>
              \A max \in Limits \cup {NoLimit} :
                 Ahead([book EXCEPT ![l] = NewRow(max)], book)
         /\ book[l].status # "absent" =>
              Ahead([book EXCEPT ![l] = WithStatus(@, "revoked")], book)
         /\ \A m \in Machines : Ahead([book EXCEPT ![l] = WithSeats(@, @.seats \ {m})], book)
         /\ \A m \in Machines : Ahead(Seated(book, l, m), book)
<1>1. book[l] \in Row /\ book[l].seats \in SUBSET Machines
  BY DEF Ledger, Row
<1>2. ASSUME NEW max \in Limits \cup {NoLimit}, book[l].status = "absent"
      PROVE  Ahead([book EXCEPT ![l] = NewRow(max)], book)
  <2>1. NewRow(max) \in Row
    BY DEF NewRow, Row
  <2> QED BY <1>2, <2>1, AheadRow
<1>3. ASSUME book[l].status # "absent"
      PROVE  Ahead([book EXCEPT ![l] = WithStatus(@, "revoked")], book)
  <2> DEFINE row == WithStatus(book[l], "revoked")
  <2>1. row \in Row /\ row.status = "revoked" /\ row.max = book[l].max
    BY <1>1, RowTypes DEF WithStatus
  <2>2. [book EXCEPT ![l] = WithStatus(@, "revoked")] = [book EXCEPT ![l] = row]
    OBVIOUS
  <2> HIDE DEF row
  <2> QED BY <2>1, <2>2, AheadRow
<1>4. ASSUME NEW seats \in SUBSET Machines
      PROVE  Ahead([book EXCEPT ![l] = WithSeats(book[l], seats)], book)
  <2> DEFINE row == WithSeats(book[l], seats)
  <2>1. row \in Row /\ row.status = book[l].status /\ row.max = book[l].max
    BY <1>1, RowTypes DEF WithSeats
  <2> HIDE DEF row
  <2>2. Ahead([book EXCEPT ![l] = row], book)
    BY <2>1, AheadRow
  <2> QED BY <2>2 DEF row
<1>5. \A m \in Machines : Ahead([book EXCEPT ![l] = WithSeats(@, @.seats \ {m})], book)
  BY <1>1, <1>4
<1>6. \A m \in Machines : Ahead(Seated(book, l, m), book)
  BY <1>1, <1>4 DEF Seated
<1> QED BY <1>2, <1>3, <1>5, <1>6

\* The step that keeps memory ahead of the file and never sets the file back.
FileAdvances == MemoryAhead' /\ Ahead(stateFile', stateFile)

\* The outcomes of a request that changes the ledger to a later one.
LEMMA OutcomesAdvance ==
  ASSUME Inv, MemoryAhead, running, NEW new, Ahead(new, ledger),
         \/ ledger' = new /\ stateFile' \in {stateFile, ledger, new}
         \/ running' = FALSE /\ stateFile' \in {stateFile, ledger, new}
  PROVE  FileAdvances
<1>1. Ahead(ledger, stateFile) /\ Ahead(new, stateFile) /\ Ahead(stateFile, stateFile)
  BY AheadOrder DEF MemoryAhead
<1>2. Ahead(stateFile', stateFile) /\ (ledger' = new => Ahead(ledger', stateFile'))
  BY <1>1, AheadOrder
<1> QED BY <1>2 DEF FileAdvances, MemoryAhead

\* Every step keeps memory ahead of the file, and the file of what it was.
LEMMA StepAdvances == Inv /\ MemoryAhead /\ [Next]_vars => FileAdvances
<1> SUFFICES ASSUME Inv, MemoryAhead, [Next]_vars PROVE FileAdvances
  OBVIOUS
<1>0. TypeOK
  BY DEF Inv
<1>1. running => ledger \in Ledger
  BY DEF Inv, Keeps, Sound
<1>2. CASE UNCHANGED <<running, ledger, stateFile>>
  BY <1>2, AheadOrder DEF FileAdvances, MemoryAhead
<1>3. CASE Start
  BY <1>3, AheadOrder DEF Start, Loaded, files, FileAdvances, MemoryAhead
<1>4. CASE Stop
  BY <1>4, AheadOrder DEF Stop, MemoryLost, files, FileAdvances, MemoryAhead
<1>5. CASE MakeVault
  <2>1. /\ UNCHANGED stateFile
        /\ UNCHANGED <<running, ledger>> \/ running' = FALSE
    BY <1>5 DEF MakeVault, memory, MemoryLost
  <2> QED BY <2>1, AheadOrder DEF FileAdvances, MemoryAhead
<1>6. CASE Unlock
  BY <1>2, <1>6 DEF Unlock, files
<1>7. CASE EnsureKeys \/ EnsureKeysPartly
  <2>1. /\ running /\ Ahead(ledger, ledger)
        /\ \/ ledger' = ledger /\ stateFile' \in {stateFile, ledger}
           \/ running' = FALSE /\ stateFile' \in {stateFile, ledger}
    BY <1>0, <1>7, AheadOrder, EnsureOutcomes
  <2> QED BY <2>1, OutcomesAdvance
<1>8. ASSUME NEW l \in Licenses, NEW max \in Limits \cup {NoLimit}, CreateLicense(l, max)
      PROVE  FileAdvances
  <2> DEFINE new == [ledger EXCEPT ![l] = NewRow(max)]
  <2>1. running /\ Ahead(new, ledger)
    BY <1>1, <1>8, AheadChanges DEF CreateLicense
  <2>2. \/ ledger' = new /\ stateFile' \in {stateFile, ledger, new}
        \/ running' = FALSE /\ stateFile' \in {stateFile, ledger, new}
    BY <1>0, <1>8, CreateOutcomes
  <2> HIDE DEF new
  <2> QED BY <2>1, <2>2, OutcomesAdvance
<1>9. ASSUME NEW l \in Licenses, Revoke(l)
      PROVE  FileAdvances
  <2> DEFINE new == [ledger EXCEPT ![l] = WithStatus(@, "revoked")]
  <2>1. running /\ Ahead(new, ledger)
    BY <1>1, <1>9, AheadChanges DEF Revoke, RevokeFrom
  <2>2. \/ ledger' = new /\ stateFile' \in {stateFile, ledger, new}
        \/ running' = FALSE /\ stateFile' \in {stateFile, ledger, new}
    <3>1. Saves(new, vault, torn) \/ Unanswered(new, vault, stateFile, torn)
      BY <1>9 DEF Revoke, RevokeFrom
    <3> HIDE DEF new
    <3> QED BY <1>0, <3>1, Outcomes, TornTypes
  <2> HIDE DEF new
  <2> QED BY <2>1, <2>2, OutcomesAdvance
<1>10. ASSUME NEW l \in Licenses, NEW m \in Machines, Deallocate(l, m)
       PROVE  FileAdvances
  <2> DEFINE new == [ledger EXCEPT ![l] = WithSeats(@, @.seats \ {m})]
  <2>1. running /\ Ahead(new, ledger)
    BY <1>1, <1>10, AheadChanges DEF Deallocate, DeallocateFrom
  <2>2. \/ ledger' = new /\ stateFile' \in {stateFile, ledger, new}
        \/ running' = FALSE /\ stateFile' \in {stateFile, ledger, new}
    <3>1. Saves(new, vault, torn) \/ Unanswered(new, vault, stateFile, torn)
      BY <1>10 DEF Deallocate, DeallocateFrom
    <3> HIDE DEF new
    <3> QED BY <1>0, <3>1, Outcomes, TornTypes
  <2> HIDE DEF new
  <2> QED BY <2>1, <2>2, OutcomesAdvance
<1>11. ASSUME NEW l \in Licenses, NEW m \in Machines, IssueActivationCode(l, m)
       PROVE  FileAdvances
  <2> DEFINE new == IF m \in ledger[l].seats THEN ledger ELSE Seated(ledger, l, m)
  <2>1. running /\ Ahead(new, ledger)
    BY <1>1, <1>11, AheadChanges, AheadOrder DEF IssueActivationCode, IssueFrom
  <2>2. \/ ledger' = new /\ stateFile' \in {stateFile, ledger, new}
        \/ running' = FALSE /\ stateFile' \in {stateFile, ledger, new}
    <3>1. Saves(new, vault, torn) \/ Unanswered(new, vault, stateFile, torn)
      BY <1>11 DEF IssueActivationCode, IssueFrom
    <3> HIDE DEF new
    <3> QED BY <1>0, <3>1, Outcomes, TornTypes
  <2> HIDE DEF new
  <2> QED BY <2>1, <2>2, OutcomesAdvance
<1> QED
  BY <1>2, <1>3, <1>4, <1>5, <1>6, <1>7, <1>8, <1>9, <1>10, <1>11
  DEF Next, vars, memory, files

\* Codes in use change by one at a time, and one that is new is of a licence that
\* is active on file by then.
LEMMA StepOfCodes ==
  ASSUME Inv, [Next]_vars
  PROVE  \/ UNCHANGED held
         \/ \E l \in Licenses, m \in Machines :
              \/ held' = held \ {<<l, m>>}
              \/ held' = held \cup {<<l, m>>} /\ stateFile'[l].status = "active"
<1>1. ASSUME NEW l \in Licenses, NEW m \in Machines, IssueActivationCode(l, m)
      PROVE  \/ UNCHANGED held
             \/ held' = held \cup {<<l, m>>} /\ stateFile'[l].status = "active"
  <2> DEFINE new == IF m \in ledger[l].seats THEN ledger ELSE Seated(ledger, l, m)
  <2>1. running /\ ledger[l].status = "active" /\ ledger \in Ledger
    BY <1>1 DEF IssueActivationCode, IssueFrom, MayIssue, Inv, Keeps, Sound
  <2>2. new[l].status = "active"
    BY <2>1 DEF Seated, WithSeats, Ledger
  <2>3. \/ UNCHANGED held
        \/ held' = held \cup {<<l, m>>} /\ stateFile' = new
    BY <1>1 DEF IssueActivationCode, IssueFrom, Saves, Written
  <2> QED BY <2>2, <2>3
<1>2. ASSUME NEW l \in Licenses, NEW m \in Machines, Deallocate(l, m)
      PROVE  held' = held \ {<<l, m>>}
  BY <1>2 DEF Deallocate, DeallocateFrom
<1>3. ASSUME NEW l \in Licenses, Revoke(l) PROVE UNCHANGED held
  BY <1>3 DEF Revoke, RevokeFrom
<1>4. ASSUME NEW l \in Licenses, NEW max \in Limits \cup {NoLimit}, CreateLicense(l, max)
      PROVE  UNCHANGED held
  BY <1>4 DEF CreateLicense, StoresLicense, answers
<1>5. CASE \/ Start \/ Stop \/ MakeVault \/ Unlock \/ EnsureKeys \/ EnsureKeysPartly
           \/ UNCHANGED vars
  BY <1>5 DEF Start, Stop, MakeVault, Unlock, EnsureKeys, EnsureKeysPartly, answers, vars
<1> QED BY <1>1, <1>2, <1>3, <1>4, <1>5 DEF Next

\* What a file says of the licences sold: which, on which terms, which revoked.
SoldIn(file) == {l \in Licenses : file[l].status # "absent"}
TermsIn(file) == [l \in SoldIn(file) |-> file[l].max]
RevokedIn(file) == {l \in Licenses : file[l].status = "revoked"}

\* SeatPromise counts as this module does.
LEMMA SameCount ==
  ASSUME NEW s
  PROVE  Seats!Cardinality(s) = Cardinality(s)
BY DEF Seats!Cardinality, Cardinality

\* Each step between tables that keep the invariant is one of SeatPromise.
LEMMA MappedStep ==
  ASSUME Inv, Inv', MemoryAhead, [Next]_vars
  PROVE  Seats!Next
<1>1. Ahead(stateFile', stateFile)
  BY StepAdvances DEF FileAdvances
<1>2. /\ stateFile' \in Ledger /\ held' \in SUBSET (Licenses \X Machines)
      /\ \A l \in Licenses :
            /\ stateFile'[l] \in Row
            /\ stateFile'[l].status = "absent" => stateFile'[l].seats = {}
            /\ stateFile'[l].max # NoLimit =>
                  Cardinality(stateFile'[l].seats) <= stateFile'[l].max
            /\ \A m \in Machines : <<l, m>> \in held' => m \in stateFile'[l].seats
  BY DEF Inv, TypeOK, Keeps, Sound, Remembers, Ledger
<1>3. held \in SUBSET (Licenses \X Machines)
  BY DEF Inv, TypeOK
<1>4. Seats!TypeOK'
  <2>1. /\ SoldIn(stateFile') \subseteq Licenses
        /\ RevokedIn(stateFile') \subseteq SoldIn(stateFile')
        /\ held' \subseteq SoldIn(stateFile') \X Machines
    BY <1>2 DEF SoldIn, RevokedIn
  <2>2. \A l \in SoldIn(stateFile') : stateFile'[l].max \in Limits \cup {NoLimit}
    BY <1>2 DEF SoldIn, Row
  <2>3. /\ DOMAIN TermsIn(stateFile') = SoldIn(stateFile')
        /\ TermsIn(stateFile') \in [SoldIn(stateFile') -> Limits \cup {NoLimit}]
    BY <2>2 DEF TermsIn
  <2> QED BY <2>1, <2>3 DEF Seats!TypeOK, TermsIn, SoldIn, RevokedIn
<1>5. Seats!TermsKept
  BY <1>1 DEF Seats!TermsKept, Ahead
<1>6. RevokedIn(stateFile) \subseteq RevokedIn(stateFile')
  BY <1>1 DEF Ahead, RevokedIn
<1>7. ASSUME NEW l \in Licenses, NEW m \in Machines, held' = held \cup {<<l, m>>},
             stateFile'[l].status = "active"
      PROVE  Seats!Gives(l, m)
  <2>1. l \in SoldIn(stateFile') \ RevokedIn(stateFile')
    BY <1>7 DEF SoldIn, RevokedIn
  <2>2. Seats!Codes(l) \cup {m} \subseteq stateFile'[l].seats
    BY <1>2, <1>7 DEF Seats!Codes
  <2>3. stateFile'[l].seats \in SUBSET Machines
    BY <1>2 DEF Row
  <2>4. stateFile'[l].max # NoLimit =>
          Cardinality(Seats!Codes(l) \cup {m}) <= stateFile'[l].max
    <3>1. /\ Cardinality(stateFile'[l].seats) \in Nat
          /\ Cardinality(Seats!Codes(l) \cup {m}) <= Cardinality(stateFile'[l].seats)
      BY <2>2, <2>3, CountSeats
    <3>2. Seats!Codes(l) \cup {m} \in SUBSET Machines
      BY <2>2, <2>3
    <3>3. Cardinality(Seats!Codes(l) \cup {m}) \in Nat
      BY <3>2, CountSeats
    <3>4. stateFile'[l].max # NoLimit =>
            stateFile'[l].max \in Nat
            /\ Cardinality(stateFile'[l].seats) <= stateFile'[l].max
      BY <1>2 DEF Row
    <3> QED BY <3>1, <3>3, <3>4
  <2>5. DOMAIN TermsIn(stateFile') = SoldIn(stateFile')
        /\ TermsIn(stateFile')[l] = stateFile'[l].max
    BY <2>1 DEF TermsIn
  <2>6. stateFile'[l].max # NoLimit =>
          Seats!Cardinality(Seats!Codes(l) \cup {m}) <= stateFile'[l].max
    BY <2>4, SameCount
  <2> QED BY <1>7, <2>1, <2>5, <2>6 DEF Seats!Gives, TermsIn, SoldIn, RevokedIn
<1>8. \/ UNCHANGED held
      \/ \E l \in Licenses, m \in Machines : Seats!Gives(l, m) \/ Seats!TakesBack(l, m)
  BY <1>7, StepOfCodes DEF Seats!TakesBack
<1> QED BY <1>4, <1>5, <1>6, <1>8 DEF Seats!Next, RevokedIn

\* Failed saves, stops and late writes included, the tool keeps its promise about
\* terms, revocations and seats: every behaviour of it is one of SeatPromise.
THEOREM AdminImplementsSeats == Spec => ImplementsSeats
<1>1. Init => Seats!Init /\ MemoryAhead
  BY DEF Init, Seats!Init, MemoryAhead, NoLedger, NoRow
<1>2. Inv /\ MemoryAhead /\ [Next]_vars => MemoryAhead'
  BY StepAdvances DEF FileAdvances
<1>3. Inv /\ Inv' /\ MemoryAhead /\ [Next]_vars => [Seats!Next]_Seats!vars
  BY MappedStep
<1> QED BY <1>1, <1>2, <1>3, AdminInvariance, PTL DEF Spec, ImplementsSeats, Seats!Spec

-----------------------------------------------------------------------------
(* Overlapping requests                                                    *)

Job == [request : Requests, book : Ledger]

\* However old the ledger a request has read, it has no more computers than seats.
\* Nothing is said of the vault, the keys and the answers.
RacesInv ==
    /\ Sound(stateFile)
    /\ Sound(ledger)
    /\ work \in [Threads -> {Idle} \cup Job]
    /\ \A t \in Threads : work[t] # Idle => Sound(work[t].book)

\* A ledger stays sound when a licence is added, revoked or freed of a computer, or
\* a code issued from it: Keeps without answers to keep, for a complete pair.
LEMMA SoundChanges ==
  ASSUME NEW book, Sound(book), NEW l \in Licenses
  PROVE  /\ \A max \in Limits \cup {NoLimit} : Sound([book EXCEPT ![l] = NewRow(max)])
         /\ book[l].status # "absent" => Sound([book EXCEPT ![l] = WithStatus(@, "revoked")])
         /\ \A m \in Machines : Sound([book EXCEPT ![l] = WithSeats(@, @.seats \ {m})])
         /\ \A m \in Machines :
              MayIssue(book, l, m) /\ m \notin book[l].seats => Sound(Seated(book, l, m))
<1> DEFINE p == [private |-> 1, public |-> 1, crm |-> 1]
<1>1. PairComplete(p)
  BY DEF PairComplete
<1> HIDE DEF p
<1>2. Keeps(book, {}, {}, {}, p)
  BY <1>1 DEF Keeps, Remembers, Founded
<1>3. ASSUME NEW max \in Limits \cup {NoLimit}
      PROVE  Sound([book EXCEPT ![l] = NewRow(max)])
  <2>1. /\ NewRow(max) \in Row /\ NewRow(max).seats = {} /\ NewRow(max).status = "active"
        /\ NewRow(max).max = max
    BY DEF NewRow, Row
  <2>2. NewRow(max).max # NoLimit => Cardinality(NewRow(max).seats) <= NewRow(max).max
    BY <2>1, FS_EmptySet
  <2>3. book \in Ledger
    BY DEF Sound
  <2> DEFINE row == NewRow(max)
             new == [book EXCEPT ![l] = row]
  <2>4. /\ row \in Row /\ row.seats = {} /\ row.status = "active"
        /\ row.max # NoLimit => Cardinality(row.seats) <= row.max
    BY <2>1, <2>2
  <2> HIDE DEF row
  <2>5. new \in Ledger /\ new[l] = row /\ \A k \in Licenses : k # l => new[k] = book[k]
    BY <2>3, <2>4, Replacing
  <2> HIDE DEF new
  <2>6. Sound(new)
    BY <2>4, <2>5 DEF Sound
  <2> QED BY <2>6 DEF new, row
<1>4. ASSUME book[l].status # "absent"
      PROVE  Sound([book EXCEPT ![l] = WithStatus(@, "revoked")])
  BY <1>2, <1>4, KeepsRevoked DEF Keeps
<1>5. ASSUME NEW m \in Machines
      PROVE  Sound([book EXCEPT ![l] = WithSeats(@, @.seats \ {m})])
  BY <1>2, KeepsFreed DEF Keeps
<1>6. ASSUME NEW m \in Machines, MayIssue(book, l, m), m \notin book[l].seats
      PROVE  Sound(Seated(book, l, m))
  <2>1. Keeps(IF m \in book[l].seats THEN book ELSE Seated(book, l, m),
              {}, {} \cup {<<l, m>>}, {}, p)
    BY <1>2, <1>6, KeepsSeated
  <2> QED BY <1>6, <2>1 DEF Keeps
<1> QED BY <1>3, <1>4, <1>5, <1>6

\* An empty ledger is sound.
LEMMA NoLedgerSound == Sound(NoLedger)
<1>1. NoLedger \in Ledger
  BY NoLedgerType
<1>2. \A l \in Licenses : NoLedger[l].seats = {} /\ NoLedger[l].max = NoLimit
  BY DEF NoLedger, NoRow
<1> QED BY <1>1, <1>2 DEF Sound

LedgersSound == Sound(stateFile) /\ Sound(ledger)

\* A request leaves sound ledgers if the one it makes is sound.
LEMMA OutcomesSound ==
  ASSUME LedgersSound, NEW new, Sound(new), NEW keys, NEW t,
         Saves(new, keys, t) \/ Unanswered(new, keys, stateFile, t)
  PROVE  LedgersSound'
<1>1. stateFile' \in {stateFile, new} /\ ledger' \in {new, NoLedger}
  BY DEF Saves, Unanswered, Written, NotWritten, Holds, MemoryLost
<1> QED BY <1>1, NoLedgerSound DEF LedgersSound

\* The process, the vault and the pair of keys.
LEMMA UpkeepSound ==
  ASSUME LedgersSound,
         Start \/ Stop \/ MakeVault \/ Unlock \/ EnsureKeys \/ EnsureKeysPartly
  PROVE  LedgersSound'
<1>1. CASE Start \/ Stop \/ MakeVault \/ Unlock
  <2>1. stateFile' = stateFile /\ ledger' \in {ledger, stateFile, NoLedger}
    BY <1>1 DEF Start, Stop, MakeVault, Unlock, Loaded, MemoryLost, memory, files
  <2> QED BY <2>1, NoLedgerSound DEF LedgersSound
<1>2. CASE EnsureKeys \/ EnsureKeysPartly
  <2>1. \/ Saves(ledger, vault, TornAfter(3))
        \/ Unanswered(ledger, vault, stateFile, TornAfter(3))
        \/ UNCHANGED stateFile /\ (UNCHANGED memory \/ MemoryLost)
    BY <1>2 DEF EnsureKeys, EnsureKeysPartly
  <2>2. CASE UNCHANGED stateFile /\ (UNCHANGED memory \/ MemoryLost)
    BY <2>2, NoLedgerSound DEF LedgersSound, memory, MemoryLost
  <2> QED BY <2>1, <2>2, OutcomesSound DEF LedgersSound
<1> QED BY <1>1, <1>2

\* A licence is added to a sound list, however old that is.
LEMMA StoresSound ==
  ASSUME LedgersSound, NEW book, Sound(book), NEW l \in Licenses,
         NEW max \in Limits \cup {NoLimit}, NEW old, Sound(old), NEW t,
         StoresLicense(book, l, max, old, t)
  PROVE  LedgersSound'
<1> DEFINE new == [book EXCEPT ![l] = NewRow(max)]
<1>1. Sound(new)
  BY SoundChanges
<1>2. stateFile' \in {old, new} /\ ledger' \in {new, NoLedger}
  BY DEF StoresLicense, Saves, Unanswered, Written, NotWritten, Holds, MemoryLost
<1> HIDE DEF new
<1> QED BY <1>1, <1>2, NoLedgerSound DEF LedgersSound

\* So is one revoked, freed of a computer, or given one.
LEMMA EditsSound ==
  ASSUME LedgersSound, NEW book, Sound(book), NEW l \in Licenses,
         RevokeFrom(book, l)
         \/ \E m \in Machines : DeallocateFrom(book, l, m) \/ IssueFrom(book, l, m)
  PROVE  LedgersSound'
<1>1. ASSUME RevokeFrom(book, l) PROVE LedgersSound'
  <2> DEFINE new == [book EXCEPT ![l] = WithStatus(@, "revoked")]
  <2>1. Saves(new, vault, torn) \/ Unanswered(new, vault, stateFile, torn)
    BY <1>1 DEF RevokeFrom
  <2>2. Sound(new)
    BY <1>1, SoundChanges DEF RevokeFrom
  <2> HIDE DEF new
  <2> QED BY <2>1, <2>2, OutcomesSound
<1>2. ASSUME NEW m \in Machines, DeallocateFrom(book, l, m) PROVE LedgersSound'
  <2> DEFINE new == [book EXCEPT ![l] = WithSeats(@, @.seats \ {m})]
  <2>1. Saves(new, vault, torn) \/ Unanswered(new, vault, stateFile, torn)
    BY <1>2 DEF DeallocateFrom
  <2>2. Sound(new)
    BY SoundChanges
  <2> HIDE DEF new
  <2> QED BY <2>1, <2>2, OutcomesSound
<1>3. ASSUME NEW m \in Machines, IssueFrom(book, l, m) PROVE LedgersSound'
  <2> DEFINE new == IF m \in book[l].seats THEN ledger ELSE Seated(book, l, m)
  <2>1. Saves(new, vault, torn) \/ Unanswered(new, vault, stateFile, torn)
    BY <1>3 DEF IssueFrom
  <2>2. Sound(new)
    BY <1>3, SoundChanges DEF IssueFrom, LedgersSound
  <2> HIDE DEF new
  <2> QED BY <2>1, <2>2, OutcomesSound
<1> QED BY <1>1, <1>2, <1>3

\* A whole request keeps the ledgers sound, on the ledger of now.
LEMMA NextSound == LedgersSound /\ Next => LedgersSound'
<1> SUFFICES ASSUME LedgersSound, Next PROVE LedgersSound'
  OBVIOUS
<1>1. Sound(ledger)
  BY DEF LedgersSound
<1>2. ASSUME NEW l \in Licenses, NEW max \in Limits \cup {NoLimit}, CreateLicense(l, max)
      PROVE  LedgersSound'
  BY <1>1, <1>2, StoresSound DEF CreateLicense
<1>3. ASSUME NEW l \in Licenses,
             Revoke(l) \/ \E m \in Machines : Deallocate(l, m) \/ IssueActivationCode(l, m)
      PROVE  LedgersSound'
  BY <1>1, <1>3, EditsSound DEF Revoke, Deallocate, IssueActivationCode
<1> QED BY <1>2, <1>3, UpkeepSound DEF Next

\* The store of a request that has read its ledger before.
LEMMA StoreSound ==
  ASSUME LedgersSound, NEW job \in Job, Sound(job.book),
         StoresFrom(job.book, job.request) \/ Refused(job.book, job.request)
  PROVE  LedgersSound'
<1> DEFINE r == job.request
<1>1. r \in Requests
  BY DEF Job
<1>2. CASE Refused(job.book, r)
  BY <1>2 DEF Refused, LedgersSound, vars, memory, files
<1>3. CASE r.kind = "create" /\ CreateFrom(job.book, r.license, r.max)
  <2>1. r.license \in Licenses /\ r.max \in Limits \cup {NoLimit}
    BY <1>1, <1>3 DEF Requests
  <2> QED BY <1>3, <2>1, StoresSound DEF CreateFrom, LedgersSound
<1>4. CASE r.kind = "revoke" /\ RevokeFrom(job.book, r.license)
  <2>1. r.license \in Licenses
    BY <1>1 DEF Requests
  <2> QED BY <1>4, <2>1, EditsSound
<1>5. CASE r.kind = "deallocate" /\ DeallocateFrom(job.book, r.license, r.machine)
  <2>1. r.license \in Licenses /\ r.machine \in Machines
    BY <1>1, <1>5 DEF Requests
  <2> QED BY <1>5, <2>1, EditsSound
<1>6. CASE r.kind = "issue" /\ IssueFrom(job.book, r.license, r.machine)
  <2>1. r.license \in Licenses /\ r.machine \in Machines
    BY <1>1, <1>6 DEF Requests
  <2> QED BY <1>6, <2>1, EditsSound
<1> QED BY <1>2, <1>3, <1>4, <1>5, <1>6 DEF StoresFrom

\* The invariant of overlapping requests.
THEOREM AdminRacesInvariance == RacesSpec => []RacesInv
<1>1. RacesInit => RacesInv
  <2> SUFFICES ASSUME RacesInit PROVE RacesInv
    OBVIOUS
  <2>1. stateFile = NoLedger /\ ledger = NoLedger
    BY DEF RacesInit, Init
  <2> QED BY <2>1, NoLedgerSound DEF RacesInit, RacesInv
<1>2. RacesInv /\ [RacesNext]_racesVars => RacesInv'
  <2> SUFFICES ASSUME RacesInv, [RacesNext]_racesVars PROVE RacesInv'
    OBVIOUS
  <2>1. LedgersSound /\ work \in [Threads -> {Idle} \cup Job]
    BY DEF RacesInv, LedgersSound
  <2>2. ASSUME LedgersSound', NEW t,
               work' \in {work, [work EXCEPT ![t] = Idle], [s \in Threads |-> Idle]}
        PROVE  RacesInv'
    <3>1. \A s \in Threads : work'[s] # Idle => work'[s] = work[s]
      BY <2>1, <2>2
    <3>2. work' \in [Threads -> {Idle} \cup Job]
      BY <2>1, <2>2
    <3> QED BY <2>2, <3>1, <3>2 DEF RacesInv, LedgersSound
  <2>3. CASE Alone
    BY <2>1, <2>2, <2>3, NextSound DEF Alone
  <2>4. ASSUME NEW t \in Threads, NEW r \in Requests, ReadLedger(t, r)
        PROVE  RacesInv'
    <3> DEFINE job == [request |-> r, book |-> ledger]
    <3>1. /\ work' = [work EXCEPT ![t] = job]
          /\ EnsureKeys \/ UNCHANGED vars
      BY <2>4 DEF ReadLedger
    <3>2. LedgersSound'
      BY <2>1, <3>1, UpkeepSound DEF LedgersSound, vars, memory, files
    <3>3. job \in Job /\ Sound(job.book)
      BY <2>1 DEF LedgersSound, Sound, Job
    <3> HIDE DEF job
    <3>4. work' \in [Threads -> {Idle} \cup Job]
      BY <2>1, <3>1, <3>3
    <3>5. \A s \in Threads : work'[s] # Idle => Sound(work'[s].book)
      BY <2>1, <3>1, <3>3 DEF RacesInv
    <3> QED BY <3>2, <3>4, <3>5 DEF RacesInv, LedgersSound
  <2>5. ASSUME NEW t \in Threads, StoreLedger(t)
        PROVE  RacesInv'
    <3>1. /\ work[t] # Idle
          /\ work' \in {[work EXCEPT ![t] = Idle], [s \in Threads |-> Idle]}
          /\ \/ StoresFrom(work[t].book, work[t].request)
             \/ Refused(work[t].book, work[t].request)
      BY <2>5 DEF StoreLedger
    <3>2. work[t] \in Job /\ Sound(work[t].book)
      BY <2>1, <3>1 DEF RacesInv
    <3>3. LedgersSound'
      BY <2>1, <3>1, <3>2, StoreSound
    <3> QED BY <2>2, <3>1, <3>3
  <2>6. CASE UNCHANGED racesVars
    BY <2>6 DEF racesVars, vars, memory, files, RacesInv
  <2> QED BY <2>3, <2>4, <2>5, <2>6 DEF RacesNext
<1> QED BY <1>1, <1>2, PTL DEF RacesSpec

\* No request stores a ledger with more computers than seats, however old the
\* list it decided on, so that nothing on file tells of a code too many.
THEOREM RacesLedgersWithinLimit == RacesSpec => []LedgersWithinLimit
<1>1. RacesInv => LedgersWithinLimit
  BY DEF RacesInv, Sound, LedgersWithinLimit
<1> QED BY <1>1, AdminRacesInvariance, PTL

=============================================================================
