----------------------------- MODULE LicenseGuard -----------------------------
(***************************************************************************)
(* The licence guard of an installation: a demo period, a key, and the     *)
(* activation code that the vendor signs for that key and this machine.    *)
(*                                                                         *)
(* Every request asks the guard for its state, and the asking itself       *)
(* writes: it starts and touches the demo's marker, it remembers that a    *)
(* licence has worked.  Requests are one at a time here, but the process   *)
(* may stop between two writes, or in one: write_text empties the file     *)
(* before it fills it, and license_cache.json cut short reads as {}.  (A   *)
(* full disk does the same.)  The marker stands for the three copies kept  *)
(* on Windows: one cut short leaves the others.  LicenseCache lets         *)
(* requests overlap.                                                       *)
(*                                                                         *)
(* Time is counted in units of one hour.  Signatures are ideal: a code is  *)
(* the pair of key and machine it was signed for.                          *)
(***************************************************************************)
EXTENDS Integers

CONSTANTS
    Keys,           \* key ids
    NoKey,
    Machines,       \* hardware ids
    NoCode,
    NoMarker,
    TrialLength,    \* LICENSE_TRIAL_DAYS
    Tolerance,      \* CLOCK_ROLLBACK_TOLERANCE
    MaxClock        \* bound on the clock

ASSUME TimeAssumption ==
    TrialLength \in Nat \ {0} /\ Tolerance \in Nat /\ MaxClock \in Nat
ASSUME NoneAssumption ==
    NoKey \notin Keys /\ NoCode \notin Keys \X Machines

VARIABLES
    cache,      \* license_cache.json: full_key, activation_code, commercial_used
    marker,     \* trial_marker.json
    clock,
    machine,    \* the hardware id of this computer
    worked,     \* history: the guard has answered FULL
    licensed,   \* history: the key whose activation was confirmed, if nobody has
                \* asked since to remove it or to enter another one
    cut         \* history: license_cache.json was cut short, and no activation
                \* has been confirmed since

vars == <<cache, marker, clock, machine, worked, licensed, cut>>

Codes == Keys \X Machines

Cache == [key : Keys \cup {NoKey}, code : Codes \cup {NoCode}, used : BOOLEAN]

\* No file, or what is left of one cut short.
NoCache == [key |-> NoKey, code |-> NoCode, used |-> FALSE]

Marker == [hwid : Machines, started : 0..MaxClock, seen : 0..MaxClock,
           length : {0, TrialLength}]

ASSUME MarkerAssumption == NoMarker \notin Marker

TypeOK ==
    /\ cache \in Cache
    /\ marker \in Marker \cup {NoMarker}
    /\ clock \in 0..MaxClock
    /\ machine \in Machines
    /\ worked \in BOOLEAN
    /\ licensed \in Keys \cup {NoKey}
    /\ cut \in BOOLEAN

Init ==
    /\ cache = NoCache
    /\ marker = NoMarker
    /\ clock \in 0..MaxClock
    /\ machine \in Machines
    /\ worked = FALSE
    /\ licensed = NoKey
    /\ cut = FALSE

-----------------------------------------------------------------------------
(* The demo's marker                                                       *)

NewMarker(length) ==
    [hwid |-> machine, started |-> clock, seen |-> clock, length |-> length]

RolledBack(m) == clock < m.seen - Tolerance

Expired(m) == clock >= m.started + m.length

\* Faulty: another machine starts a demo of its own.
TouchedAfresh(m) ==
    IF m.hwid # machine THEN NewMarker(TrialLength) ELSE [m EXCEPT !.seen = clock]

\* Faulty: the marker goes back as far as the tolerance allows.
TouchedEarly(m) ==
    [hwid |-> machine, started |-> m.started, seen |-> clock - Tolerance, length |-> m.length]

\* Another machine does not start the demo anew: the marker is bound to it.
Touched(m) ==
    [hwid |-> machine, started |-> m.started, seen |-> clock, length |-> m.length]

-----------------------------------------------------------------------------
(* LicenseGuard.state(): the answer, and what asking leaves behind         *)

CodeFits(c) == c.code = <<c.key, machine>>

CommercialAnswer(c) ==
    IF c.code = NoCode THEN "pending"
    ELSE IF CodeFits(c) THEN "full" ELSE "mismatch"

TrialAnswer(m) ==
    IF m = NoMarker THEN "demo"
    ELSE IF RolledBack(m) THEN "rolled_back"
    ELSE IF Expired(m) THEN "expired" ELSE "demo"

Answer(c, m) ==
    IF c.key # NoKey THEN CommercialAnswer(c)
    ELSE IF c.used THEN "expired" ELSE TrialAnswer(m)

\* Faulty: a working licence is not remembered.
CacheUnmarked(c, m) == c

CacheAfter(c, m) == [c EXCEPT !.used = @ \/ Answer(c, m) = "full"]

MarkerAfter(c, m) ==
    IF c.key # NoKey \/ c.used THEN m
    ELSE IF m = NoMarker THEN NewMarker(TrialLength)
    ELSE IF RolledBack(m) THEN m ELSE Touched(m)

\* A request asks, changes the two files to c and m, and asks again.
AskThenStore(c, m) ==
    /\ cache' = CacheAfter(c, m)
    /\ marker' = MarkerAfter(c, m)
    /\ worked' = (worked \/ Answer(cache, marker) = "full" \/ Answer(c, m) = "full")
    /\ UNCHANGED <<clock, machine, cut>>

\* The process stops after the files have become c and m.
AskThenStop(c, m) ==
    /\ cache' = c
    /\ marker' = m
    /\ worked' = (worked \/ Answer(cache, marker) = "full")
    /\ UNCHANGED <<clock, machine, cut>>

\* The process stops while it writes the cache; the marker has become m.
CutShort(m) ==
    /\ cache' = NoCache
    /\ marker' = m
    /\ cut' = TRUE
    /\ UNCHANGED <<clock, machine, worked>>

Asked == CacheAfter(cache, marker)
MarkerAsked == MarkerAfter(cache, marker)

-----------------------------------------------------------------------------
(* Requests                                                                *)

\* The gate of every request, the hourly jobs, GET /license/status.
Ask ==
    /\ \/ AskThenStore(cache, marker)
       \/ Answer(cache, marker) = "full" /\ CutShort(marker)
    /\ UNCHANGED licensed

\* Faulty: the code is kept when no key was set before; a code is dropped even
\* when its key is entered again.
CodeKeptUnset(c, k) ==
    IF c.key \in {k, NoKey} THEN c ELSE [c EXCEPT !.code = NoCode]

CodeAlwaysDropped(c, k) == [c EXCEPT !.code = NoCode]

\* A code was issued for the previous key.
WithoutOldCode(c, k) == IF c.key = k THEN c ELSE [c EXCEPT !.code = NoCode]

Activate(k) ==
    /\ \/ AskThenStop(WithoutOldCode(Asked, k), MarkerAsked)
       \/ AskThenStore([WithoutOldCode(Asked, k) EXCEPT !.key = k], MarkerAsked)
       \/ CutShort(MarkerAsked)
    /\ licensed' = IF k = licensed THEN k ELSE NoKey

\* The vendor has signed a code for this key and this machine; any other is
\* refused and changes nothing.
Redeem ==
    LET accepted == [cache EXCEPT !.code = <<cache.key, machine>>]
    IN  /\ cache.key # NoKey
        /\ \/ /\ cache' = accepted
              /\ UNCHANGED <<marker, clock, machine, worked, licensed, cut>>
           \/ /\ cache' = [accepted EXCEPT !.used = TRUE]
              /\ worked' = TRUE
              /\ licensed' = cache.key
              /\ cut' = FALSE
              /\ UNCHANGED <<marker, clock, machine>>
           \/ CutShort(marker) /\ UNCHANGED licensed

\* Faulty: the demo is used up by a key that was never activated.
MarkerAlwaysBurnt(c, m) == NewMarker(0)

\* The demo does not come back after a licence that has worked.
Burnt(c, m) == IF c.used THEN NewMarker(0) ELSE m

Deactivate ==
    LET keyless == [Asked EXCEPT !.key = NoKey]
        cleared == [keyless EXCEPT !.code = NoCode]
    IN  /\ cache.key # NoKey
        /\ \/ AskThenStop(keyless, MarkerAsked)
           \/ AskThenStop(cleared, MarkerAsked)
           \/ AskThenStore(cleared, Burnt(Asked, MarkerAsked))
           \/ CutShort(MarkerAsked)
        /\ licensed' = NoKey

-----------------------------------------------------------------------------
(* Surroundings: the clock runs, or is set; the files move to new hardware *)

ClockMoves ==
    /\ clock' \in 0..MaxClock
    /\ UNCHANGED <<cache, marker, machine, worked, licensed, cut>>

MachineReplaced ==
    /\ machine' \in Machines
    /\ UNCHANGED <<cache, marker, clock, worked, licensed, cut>>

Next ==
    \/ Ask
    \/ \E k \in Keys : Activate(k)
    \/ Redeem
    \/ Deactivate
    \/ ClockMoves
    \/ MachineReplaced

Spec == Init /\ [][Next]_vars

-----------------------------------------------------------------------------
(* Safety                                                                  *)

\* The code on file was issued for the key on file, whatever keys were entered,
\* removed and entered again, and wherever the process stopped, between two
\* writes or in one: a mismatch always means another machine.
CodeFitsKey ==
    /\ cache.key # NoKey /\ cache.code # NoCode => cache.code[1] = cache.key
    /\ Answer(cache, marker) = "mismatch" => cache.code[2] # machine

\* An installation that has worked under a licence never falls back to the
\* demo, also when the key is removed and the clock is set back; unless the file
\* that says so was cut short and no code has been redeemed since.
NoDemoAfterFull == worked /\ ~cut => Answer(cache, marker) # "demo"

\* The demo of an installation without a licence is never restarted, extended
\* or used up: not by other hardware, nor by a key entered and removed again
\* before it was activated, nor by a stop in any write of the cache.
TrialKeepsItsTerm ==
    [][marker # NoMarker /\ ~cache'.used =>
          /\ marker' # NoMarker
          /\ marker'.started = marker.started
          /\ marker'.length = marker.length]_vars

\* An activation that was confirmed stays on file until somebody asks to remove
\* the key or enters another one: not the same key again, nor new hardware, nor
\* a stop between the writes of a request undoes it.  A stop in a write does, as
\* every FULL answer rewrites the file; the exception is that and no more, and
\* ends with the next code redeemed.
ActivationKept ==
    licensed # NoKey /\ ~cut =>
        /\ cache.key = licensed
        /\ cache.code # NoCode
        /\ cache.code[1] = licensed
        /\ cache.used

=============================================================================
