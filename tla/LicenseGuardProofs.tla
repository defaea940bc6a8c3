-------------------------- MODULE LicenseGuardProofs --------------------------
(***************************************************************************)
(* Proofs about the licence guard, for any keys, machines, length of the   *)
(* demo and tolerance.  Each step stores a cache and a marker that were    *)
(* made from the ones on file by a few operations; the lemmas say what     *)
(* those keep, the step lemmas go through the actions.                     *)
(***************************************************************************)
EXTENDS LicenseGuard, TLAPS

\* The code on file fits the key on file as far as the key goes.
CodeOfKey(c) == c.key # NoKey /\ c.code # NoCode => c.code[1] = c.key

\* A marker keeps its term.
SameTerm(m, n) == n # NoMarker /\ n.started = m.started /\ n.length = m.length

\* That a licence has worked is on file, unless the file was cut short.
FullOnFile == worked /\ ~cut => cache.used

Inv ==
    /\ TypeOK
    /\ CodeOfKey(cache)
    /\ FullOnFile
    /\ ActivationKept

USE TimeAssumption, NoneAssumption, MarkerAssumption

-----------------------------------------------------------------------------
(* What asking stores                                                      *)

\* A new marker is a marker, of the demo or of no length at all.
LEMMA NewMarkerType ==
  ASSUME TypeOK, NEW length \in {0, TrialLength}
  PROVE  NewMarker(length) \in Marker
BY DEF NewMarker, Marker, TypeOK

\* Touching a marker gives a marker with the same term.
LEMMA TouchedType ==
  ASSUME TypeOK, NEW m \in Marker
  PROVE  Touched(m) \in Marker /\ SameTerm(m, Touched(m))
<1>1. Touched(m) \in Marker
  BY DEF Touched, Marker, TypeOK
<1>2. Touched(m).started = m.started /\ Touched(m).length = m.length
  BY DEF Touched
<1> QED BY <1>1, <1>2 DEF SameTerm

\* Asking keeps a marker's type, and its term once there is one.
LEMMA AskingKeepsMarker ==
  ASSUME TypeOK, NEW c, NEW m \in Marker \cup {NoMarker}
  PROVE  /\ MarkerAfter(c, m) \in Marker \cup {NoMarker}
         /\ m # NoMarker => SameTerm(m, MarkerAfter(c, m))
<1>1. CASE m = NoMarker
  <2>1. MarkerAfter(c, m) = m \/ MarkerAfter(c, m) = NewMarker(TrialLength)
    BY <1>1 DEF MarkerAfter
  <2> QED BY <1>1, <2>1, NewMarkerType
<1>2. CASE m \in Marker
  <2>1. MarkerAfter(c, m) = m \/ MarkerAfter(c, m) = Touched(m)
    BY <1>2 DEF MarkerAfter
  <2>2. SameTerm(m, m)
    BY <1>2 DEF SameTerm
  <2> QED BY <1>2, <2>1, <2>2, TouchedType
<1> QED BY <1>1, <1>2

\* Asking changes nothing in the cache but `used', which it never takes back.
LEMMA AskingKeepsCache ==
  ASSUME NEW c \in Cache, NEW m
  PROVE  /\ CacheAfter(c, m) \in Cache
         /\ CacheAfter(c, m).key = c.key
         /\ CacheAfter(c, m).code = c.code
         /\ c.used => CacheAfter(c, m).used
         /\ Answer(c, m) = "full" => CacheAfter(c, m).used
<1> DEFINE full == Answer(c, m) = "full"
<1>1. CacheAfter(c, m) = [c EXCEPT !.used = c.used \/ full]
  BY DEF CacheAfter
<1>2. full \in BOOLEAN
  OBVIOUS
<1> HIDE DEF full
<1>3. (c.used \/ full) \in BOOLEAN /\ c = [key |-> c.key, code |-> c.code, used |-> c.used]
  BY <1>2 DEF Cache
<1>4. CacheAfter(c, m) = [key |-> c.key, code |-> c.code, used |-> c.used \/ full]
  BY <1>1, <1>3
<1>5. c.key \in Keys \cup {NoKey} /\ c.code \in Codes \cup {NoCode}
  BY DEF Cache
<1>6. CacheAfter(c, m) \in Cache
  BY <1>3, <1>4, <1>5 DEF Cache
<1>7. /\ CacheAfter(c, m).key = c.key /\ CacheAfter(c, m).code = c.code
      /\ CacheAfter(c, m).used = (c.used \/ full)
  BY <1>4
<1> QED BY <1>6, <1>7 DEF full

-----------------------------------------------------------------------------
(* What a request leaves behind                                            *)

\* A stored pair of files keeps what holds of the cache it stores.
LEMMA Stores ==
  ASSUME TypeOK, NEW c \in Cache, NEW m \in Marker \cup {NoMarker}, CodeOfKey(c),
         ~cut /\ (worked \/ Answer(cache, marker) = "full") =>
            c.used \/ Answer(c, m) = "full",
         AskThenStore(c, m), licensed' \in Keys \cup {NoKey}
  PROVE  /\ TypeOK' /\ CodeOfKey(cache)' /\ FullOnFile' /\ cut' = cut
         /\ cache'.key = c.key /\ cache'.code = c.code /\ (c.used => cache'.used)
<1>1. /\ cache' = CacheAfter(c, m) /\ marker' = MarkerAfter(c, m)
      /\ worked' = (worked \/ Answer(cache, marker) = "full" \/ Answer(c, m) = "full")
      /\ clock' = clock /\ machine' = machine /\ cut' = cut
  BY DEF AskThenStore
<1>2. TypeOK'
  BY <1>1, AskingKeepsCache, AskingKeepsMarker DEF TypeOK
<1>3. cache'.key = c.key /\ cache'.code = c.code /\ (c.used => cache'.used)
  BY <1>1, AskingKeepsCache
<1>4. CodeOfKey(cache)'
  BY <1>3 DEF CodeOfKey
<1>5. FullOnFile'
  BY <1>1, AskingKeepsCache DEF FullOnFile
<1> QED BY <1>1, <1>2, <1>3, <1>4, <1>5

\* The same of a request that stops.
LEMMA Stops ==
  ASSUME TypeOK, NEW c \in Cache, NEW m \in Marker \cup {NoMarker}, CodeOfKey(c),
         ~cut /\ (worked \/ Answer(cache, marker) = "full") => c.used,
         AskThenStop(c, m), licensed' \in Keys \cup {NoKey}
  PROVE  /\ TypeOK' /\ CodeOfKey(cache)' /\ FullOnFile' /\ cut' = cut
         /\ cache' = c
<1>1. /\ cache' = c /\ marker' = m
      /\ worked' = (worked \/ Answer(cache, marker) = "full")
      /\ clock' = clock /\ machine' = machine /\ cut' = cut
  BY DEF AskThenStop
<1>2. TypeOK'
  BY <1>1 DEF TypeOK
<1> QED BY <1>1, <1>2 DEF CodeOfKey, FullOnFile

\* A file cut short has no code, and nothing is claimed of what it had.
LEMMA CutShortKeepsInv ==
  ASSUME TypeOK, NEW m \in Marker \cup {NoMarker}, CutShort(m),
         licensed' \in Keys \cup {NoKey}
  PROVE  Inv'
<1>1. /\ cache' = NoCache /\ marker' = m /\ cut' = TRUE
      /\ UNCHANGED <<clock, machine, worked>>
  BY DEF CutShort
<1>2. NoCache \in Cache /\ NoCache.key = NoKey
  BY DEF NoCache, Cache
<1>3. TypeOK'
  BY <1>1, <1>2 DEF TypeOK
<1> QED BY <1>1, <1>2, <1>3 DEF Inv, CodeOfKey, FullOnFile, ActivationKept

\* What the files hold once a request has asked.
LEMMA AskedKeepsInv ==
  ASSUME Inv
  PROVE  /\ Asked \in Cache
         /\ MarkerAsked \in Marker \cup {NoMarker}
         /\ CodeOfKey(Asked)
         /\ Asked.key = cache.key /\ Asked.code = cache.code
         /\ cache.used => Asked.used
         /\ ~cut /\ (worked \/ Answer(cache, marker) = "full") => Asked.used
<1>1. cache \in Cache /\ marker \in Marker \cup {NoMarker} /\ TypeOK
  BY DEF Inv, TypeOK
<1>2. /\ Asked \in Cache /\ Asked.key = cache.key /\ Asked.code = cache.code
      /\ cache.used => Asked.used
      /\ Answer(cache, marker) = "full" => Asked.used
  BY <1>1, AskingKeepsCache DEF Asked
<1>3. MarkerAsked \in Marker \cup {NoMarker}
  BY <1>1, AskingKeepsMarker DEF MarkerAsked
<1> QED BY <1>2, <1>3 DEF Inv, CodeOfKey, FullOnFile

-----------------------------------------------------------------------------
(* The invariant, action by action                                         *)

\* A request that only asks.
LEMMA AskKeepsInv == Inv /\ Ask => Inv'
<1> SUFFICES ASSUME Inv, Ask PROVE Inv'
  OBVIOUS
<1>1. /\ TypeOK /\ cache \in Cache /\ marker \in Marker \cup {NoMarker}
      /\ CodeOfKey(cache) /\ (worked /\ ~cut => cache.used) /\ ActivationKept
      /\ licensed \in Keys \cup {NoKey}
  BY DEF Inv, TypeOK, FullOnFile
<1>2. licensed' = licensed /\ (AskThenStore(cache, marker) \/ CutShort(marker))
  BY DEF Ask
<1>3. CASE AskThenStore(cache, marker)
  <2>1. /\ TypeOK' /\ CodeOfKey(cache)' /\ FullOnFile' /\ cut' = cut
        /\ cache'.key = cache.key /\ cache'.code = cache.code /\ (cache.used => cache'.used)
    BY <1>1, <1>2, <1>3, Stores
  <2>2. ActivationKept'
    BY <1>1, <1>2, <2>1 DEF ActivationKept
  <2> QED BY <2>1, <2>2 DEF Inv
<1>4. CASE CutShort(marker)
  BY <1>1, <1>2, <1>4, CutShortKeepsInv
<1> QED BY <1>2, <1>3, <1>4

\* A key is entered: the code of another key goes first.
LEMMA ActivateKeepsInv == \A k \in Keys : Inv /\ Activate(k) => Inv'
<1> SUFFICES ASSUME NEW k \in Keys, Inv, Activate(k) PROVE Inv'
  OBVIOUS
<1> DEFINE c == WithoutOldCode(Asked, k)
           d == [c EXCEPT !.key = k]
<1>1. /\ TypeOK /\ ActivationKept /\ licensed \in Keys \cup {NoKey}
  BY DEF Inv, TypeOK
<1>2. licensed' = (IF k = licensed THEN k ELSE NoKey) /\ licensed' \in Keys \cup {NoKey}
  BY DEF Activate
<1>3. /\ c \in Cache /\ c.key = cache.key /\ c.used = Asked.used
      /\ c.code = IF cache.key = k THEN cache.code ELSE NoCode
  BY AskedKeepsInv DEF WithoutOldCode, Cache
<1>4. CodeOfKey(c)
  BY <1>3, AskedKeepsInv DEF CodeOfKey
<1>5. /\ d \in Cache /\ d.key = k /\ d.code = c.code /\ d.used = Asked.used
  BY <1>3 DEF Cache
<1>6. CodeOfKey(d)
  BY <1>3, <1>4, <1>5 DEF CodeOfKey
<1>7. \/ AskThenStop(c, MarkerAsked) \/ AskThenStore(d, MarkerAsked)
      \/ CutShort(MarkerAsked)
  BY DEF Activate
<1> HIDE DEF c, d
<1>8. CASE AskThenStop(c, MarkerAsked)
  <2>1. TypeOK' /\ CodeOfKey(cache)' /\ FullOnFile' /\ cut' = cut /\ cache' = c
    BY <1>1, <1>2, <1>3, <1>4, <1>8, AskedKeepsInv, Stops
  <2>2. ActivationKept'
    BY <1>1, <1>2, <1>3, <2>1, AskedKeepsInv DEF ActivationKept
  <2> QED BY <2>1, <2>2 DEF Inv
<1>9. CASE AskThenStore(d, MarkerAsked)
  <2>1. /\ TypeOK' /\ CodeOfKey(cache)' /\ FullOnFile' /\ cut' = cut
        /\ cache'.key = d.key /\ cache'.code = d.code /\ (d.used => cache'.used)
    BY <1>1, <1>2, <1>5, <1>6, <1>9, AskedKeepsInv, Stores
  <2>2. ActivationKept'
    BY <1>1, <1>2, <1>3, <1>5, <2>1, AskedKeepsInv DEF ActivationKept
  <2> QED BY <2>1, <2>2 DEF Inv
<1>10. CASE CutShort(MarkerAsked)
  BY <1>1, <1>2, <1>10, AskedKeepsInv, CutShortKeepsInv
<1> QED BY <1>7, <1>8, <1>9, <1>10

\* A code of this key and this machine is stored, and then remembered.
LEMMA RedeemKeepsInv == Inv /\ Redeem => Inv'
<1> SUFFICES ASSUME Inv, Redeem PROVE Inv'
  OBVIOUS
<1> DEFINE c == [cache EXCEPT !.code = <<cache.key, machine>>]
           d == [c EXCEPT !.used = TRUE]
<1>1. /\ cache \in Cache /\ marker \in Marker \cup {NoMarker} /\ clock \in 0..MaxClock
      /\ machine \in Machines /\ worked \in BOOLEAN /\ licensed \in Keys \cup {NoKey}
      /\ (worked /\ ~cut => cache.used) /\ ActivationKept /\ TypeOK /\ cut \in BOOLEAN
  BY DEF Inv, TypeOK, FullOnFile
<1>2. cache.key # NoKey /\ cache.key \in Keys
  BY <1>1 DEF Redeem, Cache
<1>3. <<cache.key, machine>> \in Codes /\ <<cache.key, machine>> # NoCode
  BY <1>1, <1>2 DEF Codes
<1>4. c \in Cache /\ c.key = cache.key /\ c.code = <<cache.key, machine>> /\ c.used = cache.used
  BY <1>1, <1>3 DEF Cache
<1>5. d \in Cache /\ d.key = cache.key /\ d.code = <<cache.key, machine>> /\ d.used = TRUE
  BY <1>4 DEF Cache
<1>6. \/ /\ cache' = c
         /\ UNCHANGED <<marker, clock, machine, worked, licensed, cut>>
      \/ /\ cache' = d /\ worked' = TRUE /\ licensed' = cache.key /\ cut' = FALSE
         /\ UNCHANGED <<marker, clock, machine>>
      \/ CutShort(marker) /\ licensed' = licensed
  BY DEF Redeem
<1> HIDE DEF c, d
<1>7. CASE CutShort(marker) /\ licensed' = licensed
  BY <1>1, <1>7, CutShortKeepsInv
<1>8. CASE \/ /\ cache' = c
              /\ UNCHANGED <<marker, clock, machine, worked, licensed, cut>>
           \/ /\ cache' = d /\ worked' = TRUE /\ licensed' = cache.key /\ cut' = FALSE
              /\ UNCHANGED <<marker, clock, machine>>
  <2>1. TypeOK'
    BY <1>1, <1>2, <1>4, <1>5, <1>8 DEF TypeOK
  <2>2. CodeOfKey(cache)'
    BY <1>4, <1>5, <1>8 DEF CodeOfKey
  <2>3. FullOnFile'
    BY <1>1, <1>4, <1>5, <1>8 DEF FullOnFile
  <2>4. ActivationKept'
    BY <1>1, <1>2, <1>3, <1>4, <1>5, <1>8 DEF ActivationKept
  <2> QED BY <2>1, <2>2, <2>3, <2>4 DEF Inv
<1> QED BY <1>6, <1>7, <1>8

\* The key is removed, then its code.
LEMMA DeactivateKeepsInv == Inv /\ Deactivate => Inv'
<1> SUFFICES ASSUME Inv, Deactivate PROVE Inv'
  OBVIOUS
<1> DEFINE keyless == [Asked EXCEPT !.key = NoKey]
           cleared == [keyless EXCEPT !.code = NoCode]
           m == Burnt(Asked, MarkerAsked)
<1>1. TypeOK
  BY DEF Inv
<1>2. licensed' = NoKey /\ ActivationKept'
  BY DEF Deactivate, ActivationKept
<1>3. keyless \in Cache /\ keyless.key = NoKey /\ keyless.used = Asked.used
  BY AskedKeepsInv DEF Cache
<1>4. cleared \in Cache /\ cleared.key = NoKey /\ cleared.used = Asked.used
  BY <1>3 DEF Cache
<1>5. CodeOfKey(keyless) /\ CodeOfKey(cleared)
  BY <1>3, <1>4 DEF CodeOfKey
<1>6. m \in Marker \cup {NoMarker}
  BY <1>1, NewMarkerType, AskedKeepsInv DEF Burnt
<1>7. \/ AskThenStop(keyless, MarkerAsked)
      \/ AskThenStop(cleared, MarkerAsked)
      \/ AskThenStore(cleared, m)
      \/ CutShort(MarkerAsked)
  BY DEF Deactivate
<1> HIDE DEF keyless, cleared, m
<1>8. TypeOK' /\ CodeOfKey(cache)' /\ FullOnFile'
  <2>1. CASE AskThenStop(keyless, MarkerAsked)
    BY <1>1, <1>2, <1>3, <1>5, <2>1, AskedKeepsInv, Stops
  <2>2. CASE AskThenStop(cleared, MarkerAsked)
    BY <1>1, <1>2, <1>4, <1>5, <2>2, AskedKeepsInv, Stops
  <2>3. CASE AskThenStore(cleared, m)
    BY <1>1, <1>2, <1>4, <1>5, <1>6, <2>3, AskedKeepsInv, Stores
  <2>4. CASE CutShort(MarkerAsked)
    <3>1. Inv'
      BY <1>1, <1>2, <2>4, AskedKeepsInv, CutShortKeepsInv
    <3> QED BY <3>1 DEF Inv
  <2> QED BY <1>7, <2>1, <2>2, <2>3, <2>4
<1> QED BY <1>2, <1>8 DEF Inv

\* Time and hardware.
LEMMA SurroundingsKeepInv == Inv /\ (ClockMoves \/ MachineReplaced) => Inv'
BY DEF Inv, TypeOK, CodeOfKey, FullOnFile, ActivationKept, ClockMoves, MachineReplaced

\* The inductive invariant of the guard (LicenseGuard.state, license_routes.py).
THEOREM GuardInvariance == Spec => []Inv
<1>1. Init => Inv
  <2> SUFFICES ASSUME Init PROVE Inv
    OBVIOUS
  <2>1. cache \in Cache /\ cache.key = NoKey
    BY DEF Init, NoCache, Cache
  <2>2. TypeOK
    BY <2>1 DEF Init, TypeOK
  <2>3. CodeOfKey(cache) /\ FullOnFile /\ ActivationKept
    BY <2>1 DEF Init, CodeOfKey, FullOnFile, ActivationKept
  <2> QED BY <2>2, <2>3 DEF Inv
<1>2. Inv /\ [Next]_vars => Inv'
  <2> SUFFICES ASSUME Inv, [Next]_vars PROVE Inv'
    OBVIOUS
  <2>1. CASE Ask
    BY <2>1, AskKeepsInv
  <2>2. ASSUME NEW k \in Keys, Activate(k) PROVE Inv'
    BY <2>2, ActivateKeepsInv
  <2>3. CASE Redeem
    BY <2>3, RedeemKeepsInv
  <2>4. CASE Deactivate
    BY <2>4, DeactivateKeepsInv
  <2>5. CASE ClockMoves \/ MachineReplaced
    BY <2>5, SurroundingsKeepInv
  <2>6. CASE UNCHANGED vars
    BY <2>6 DEF vars, Inv, TypeOK, CodeOfKey, FullOnFile, ActivationKept
  <2> QED BY <2>1, <2>2, <2>3, <2>4, <2>5, <2>6 DEF Next
<1> QED BY <1>1, <1>2, PTL DEF Spec

-----------------------------------------------------------------------------
(* The guard's properties                                                  *)

\* Both files, the clock and the machine stay in their types.
THEOREM GuardTypes == Spec => []TypeOK
<1>1. Inv => TypeOK
  BY DEF Inv
<1> QED BY <1>1, GuardInvariance, PTL

\* set_full_key and clear_commercial_key never leave a code of another key, so
\* CODE_MISMATCH always means another machine.
THEOREM CodesFitKeys == Spec => []CodeFitsKey
<1>1. Inv => CodeFitsKey
  <2> SUFFICES ASSUME Inv PROVE CodeFitsKey
    OBVIOUS
  <2>1. cache \in Cache /\ CodeOfKey(cache)
    BY DEF Inv, TypeOK
  <2>2. ASSUME Answer(cache, marker) = "mismatch" PROVE cache.code[2] # machine
    <3>1. cache.key # NoKey /\ cache.code # NoCode /\ cache.code # <<cache.key, machine>>
      BY <2>2 DEF Answer, CommercialAnswer, TrialAnswer, CodeFits
    <3>2. cache.code \in Keys \X Machines /\ cache.code[1] = cache.key
      BY <2>1, <3>1 DEF Cache, Codes, CodeOfKey
    <3>3. cache.code = <<cache.code[1], cache.code[2]>>
      BY <3>2
    <3> QED BY <3>1, <3>2, <3>3
  <2> QED BY <2>1, <2>2 DEF CodeFitsKey, CodeOfKey
<1> QED BY <1>1, GuardInvariance, PTL

\* An installation that has worked under a licence never answers DEMO again,
\* unless license_cache.json was cut short.
THEOREM DemoEndsWithLicence == Spec => []NoDemoAfterFull
<1>1. Inv => NoDemoAfterFull
  BY DEF Inv, FullOnFile, NoDemoAfterFull, Answer, CommercialAnswer
<1> QED BY <1>1, GuardInvariance, PTL

\* A confirmed activation stays on file until it is removed or replaced, or a
\* write of license_cache.json is cut short.
THEOREM ActivationsAreKept == Spec => []ActivationKept
<1>1. Inv => ActivationKept
  BY DEF Inv
<1> QED BY <1>1, GuardInvariance, PTL

\* Every step without a licence keeps the demo's start and length.
LEMMA StepsKeepTerm ==
  ASSUME Inv, [Next]_vars, marker # NoMarker, ~cache'.used
  PROVE  SameTerm(marker, marker')
<1>1. TypeOK /\ cache \in Cache /\ marker \in Marker
  BY DEF Inv, TypeOK
<1>2. SameTerm(marker, marker)
  BY <1>1 DEF SameTerm
<1>3. MarkerAsked \in Marker /\ SameTerm(marker, MarkerAsked)
  BY <1>1, AskingKeepsMarker DEF MarkerAsked, SameTerm
<1>4. ASSUME NEW c, AskThenStore(c, MarkerAsked) PROVE SameTerm(marker, marker')
  <2>1. marker' = MarkerAfter(c, MarkerAsked)
    BY <1>4 DEF AskThenStore
  <2>2. SameTerm(MarkerAsked, marker')
    BY <1>1, <1>3, <2>1, AskingKeepsMarker
  <2> QED BY <1>3, <2>2 DEF SameTerm
<1>5. ASSUME NEW c, AskThenStop(c, MarkerAsked) PROVE SameTerm(marker, marker')
  BY <1>3, <1>5 DEF AskThenStop
<1>6. CASE Ask
  BY <1>1, <1>2, <1>6, AskingKeepsMarker DEF Ask, AskThenStore, CutShort
<1>7. ASSUME NEW k \in Keys, Activate(k) PROVE SameTerm(marker, marker')
  BY <1>3, <1>4, <1>5, <1>7 DEF Activate, CutShort
<1>8. CASE Deactivate
  <2> DEFINE keyless == [Asked EXCEPT !.key = NoKey]
             cleared == [keyless EXCEPT !.code = NoCode]
             m == Burnt(Asked, MarkerAsked)
  <2>1. cleared \in Cache /\ cleared.used = Asked.used
    BY AskedKeepsInv DEF Cache
  <2>2. \/ AskThenStop(keyless, MarkerAsked)
        \/ AskThenStop(cleared, MarkerAsked)
        \/ AskThenStore(cleared, m)
        \/ CutShort(MarkerAsked)
    BY <1>8 DEF Deactivate
  <2> HIDE DEF keyless, cleared
  <2>3. CASE AskThenStore(cleared, m)
    <3>1. cache' = CacheAfter(cleared, m)
      BY <2>3 DEF AskThenStore
    <3>2. ~Asked.used
      BY <2>1, <3>1, AskingKeepsCache
    <3>3. m = MarkerAsked
      BY <3>2 DEF Burnt
    <3> QED BY <1>4, <2>3, <3>3
  <2>4. CASE CutShort(MarkerAsked)
    BY <1>3, <2>4 DEF CutShort
  <2> QED BY <1>5, <2>2, <2>3, <2>4
<1>9. CASE Redeem \/ ClockMoves \/ MachineReplaced \/ UNCHANGED vars
  BY <1>2, <1>9 DEF Redeem, CutShort, ClockMoves, MachineReplaced, vars
<1> QED BY <1>6, <1>7, <1>8, <1>9 DEF Next

\* new_trial_marker and touch never restart, extend or end a demo early.
THEOREM DemosKeepTheirTerm == Spec => TrialKeepsItsTerm
<1>1. Inv /\ [Next]_vars =>
        [marker # NoMarker /\ ~cache'.used =>
            /\ marker' # NoMarker
            /\ marker'.started = marker.started
            /\ marker'.length = marker.length]_vars
  BY StepsKeepTerm DEF SameTerm
<1> QED BY <1>1, GuardInvariance, PTL DEF Spec, TrialKeepsItsTerm

=============================================================================
