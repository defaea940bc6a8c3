---------------------------- MODULE LicenseScreen ----------------------------
(***************************************************************************)
(* The licence as the browser sees it: the hook that asks the server for   *)
(* the licence's state (useLicenseStatus), the gate that shows the CRM or  *)
(* the activation screen (LicenseGate), and that screen with its two forms *)
(* (LicenseActivation, LicenseKeyForm, ActivationCodeForm).                *)
(*                                                                         *)
(* Several status requests may be under way; they are answered in any      *)
(* order, each with a state the server was in while the request was out.   *)
(***************************************************************************)
EXTENDS Naturals, FiniteSets

CONSTANTS
    None,
    MaxPolls,       \* bound: status requests under way
    MaxSeen         \* bound: states the licence may be in during one request

ASSUME LicenceBounds == MaxPolls \in Nat \ {0} /\ MaxSeen \in Nat \ {0}

VARIABLES
    license,    \* the server: the guard's state
    gate,       \* the gate's copy of it: status, loading, error; is a timer set?
    polls,      \* status requests under way
    screen,     \* activation screen: override, replacingKey, has it sent post?
    post        \* the request of a form and how far it is

licenceVars == <<license, gate, polls, screen, post>>

Statuses == {"demo", "full", "blocked", "pending_activation"}

ASSUME NoneIsNoStatus == None \notin Statuses

Licensed(s) == s \in {"demo", "full"}

\* `seen': the states the server has been in since the request was sent
Poll == [id : 1..MaxPolls, seen : SUBSET Statuses]

Gate == [status : Statuses \cup {None}, loading : BOOLEAN, error : BOOLEAN,
         timer : BOOLEAN]

Screen == [override : Statuses \cup {None}, replacing : BOOLEAN, sent : BOOLEAN]

LicenceTypeOK ==
    /\ license \in Statuses
    /\ gate \in Gate
    /\ polls \in SUBSET Poll
    /\ screen \in Screen
    /\ post \in {"none", "key", "key taken", "code", "code taken"}

-----------------------------------------------------------------------------
(* The hook                                                                *)

Free(S, n) == \A p \in S : p.id # n

Room(S) == \E n \in 1..MaxPolls : Free(S, n)

FreeId(S) == CHOOSE n \in 1..MaxPolls : Free(S, n) \/ ~Room(S)

\* refetch: one more request; what it is answered with is open.
Refetch(S) == S \cup {[id |-> FreeId(S), seen |-> {license}]}

\* The timer runs only for a demo, and is set anew with every answer.
StatusShown(s) == [status |-> s, loading |-> FALSE, error |-> FALSE,
                   timer |-> s = "demo"]

\* Whether children or the activation screen are rendered
GateOpen == Licensed(gate.status)

GateLoading == gate.loading /\ gate.status = None

-----------------------------------------------------------------------------
(* The activation screen                                                   *)

FreshScreen == [override |-> None, replacing |-> FALSE, sent |-> FALSE]

\* The override stands until the status reported by the gate equals it.
Settled(sc, s) == IF sc.override = s THEN [sc EXCEPT !.override = None] ELSE sc

\* The screen is mounted while the gate is closed and has been answered once.
ScreenWith(sc, s) == IF Licensed(s) THEN FreshScreen ELSE Settled(sc, s)

EffectiveStatus == IF screen.override # None THEN screen.override ELSE gate.status

Pending == EffectiveStatus = "pending_activation"

ScreenShown == ~GateOpen /\ ~GateLoading

KeyFormShown == ScreenShown /\ (~Pending \/ screen.replacing)

CodeFormShown == ScreenShown /\ Pending /\ ~screen.replacing

LicenceInit ==
    /\ license \in Statuses
    /\ gate = [status |-> None, loading |-> TRUE, error |-> FALSE, timer |-> FALSE]
    /\ polls = {[id |-> 1, seen |-> {license}]}
    /\ screen = FreshScreen
    /\ post = "none"

-----------------------------------------------------------------------------
(* Steps of the hook                                                       *)

\* Faulty: no answer is shown while the activation screen has a status of its own.
StatusUnheard(p) ==
    \E s \in p.seen :
        /\ IF screen.override = None
           THEN gate' = StatusShown(s) /\ screen' = ScreenWith(screen, s)
           ELSE UNCHANGED <<gate, screen>>
        /\ polls' = polls \ {p}
        /\ UNCHANGED <<license, post>>

\* An answer is shown when it comes, whatever was asked or answered since.
StatusArrives(p) ==
    \E s \in p.seen :
        /\ gate' = StatusShown(s)
        /\ screen' = ScreenWith(screen, s)
        /\ polls' = polls \ {p}
        /\ UNCHANGED <<license, post>>

\* No answer: the error is shown beside what was known, if that is the
\* activation screen, and no timer is set.
StatusFails(p) ==
    /\ gate' = [gate EXCEPT !.loading = FALSE, !.error = ~GateOpen]
    /\ polls' = polls \ {p}
    /\ UNCHANGED <<license, screen, post>>

TimerFires ==
    /\ gate.timer
    /\ Room(polls)
    /\ gate' = [gate EXCEPT !.timer = FALSE]
    /\ polls' = Refetch(polls)
    /\ UNCHANGED <<license, screen, post>>

\* The window becomes visible, or a request was refused for the licence.
AskedAgain ==
    /\ Room(polls)
    /\ polls' = Refetch(polls)
    /\ UNCHANGED <<license, gate, screen, post>>

-----------------------------------------------------------------------------
(* Steps of the server                                                     *)

\* The licence takes state s; requests under way may be answered with it.
Becomes(s) ==
    /\ license' = s
    /\ \A p \in polls : Cardinality(p.seen \cup {s}) <= MaxSeen
    /\ polls' = {[p EXCEPT !.seen = @ \cup {s}] : p \in polls}

\* The demo ends, the clock is set back or right, the hardware changes.
LicenceChanges(s) ==
    /\ s # license
    /\ Becomes(s)
    /\ UNCHANGED <<gate, screen, post>>

\* A key is taken while no licence is active (an administrator may replace an
\* active one; that is left to LicenceChanges); it then awaits its code.
KeyTaken ==
    /\ post = "key"
    /\ license # "full"
    /\ Becomes("pending_activation")
    /\ post' = "key taken"
    /\ UNCHANGED <<gate, screen>>

\* A code is taken if a key awaits one.
CodeTaken ==
    /\ post = "code"
    /\ license = "pending_activation"
    /\ Becomes("full")
    /\ post' = "code taken"
    /\ UNCHANGED <<gate, screen>>

-----------------------------------------------------------------------------
(* Steps of the forms                                                      *)

\* `busy' disables the button of the form that has sent a request.  (Bound: no
\* form of a screen shown later sends one before that is answered.)
SubmitKey ==
    /\ KeyFormShown
    /\ post = "none"
    /\ post' = "key"
    /\ screen' = [screen EXCEPT !.sent = TRUE]
    /\ UNCHANGED <<license, gate, polls>>

SubmitCode ==
    /\ CodeFormShown
    /\ post = "none"
    /\ post' = "code"
    /\ screen' = [screen EXCEPT !.sent = TRUE]
    /\ UNCHANGED <<license, gate, polls>>

\* The screen takes the answer as its own status and asks the gate to refetch;
\* if the screen that sent the form is gone, only the second is left of this.
Activated(s, replacing) ==
    /\ Room(polls)
    /\ polls' = Refetch(polls)
    /\ screen' = IF screen.sent
                 THEN Settled([override |-> s, replacing |-> replacing, sent |-> FALSE],
                              gate.status)
                 ELSE screen
    /\ post' = "none"
    /\ UNCHANGED <<license, gate>>

\* Faulty: the word for the request is taken for a status.
KeyAnsweredRaw == post = "key taken" /\ Activated(post, FALSE)

KeyAnswered == post = "key taken" /\ Activated("pending_activation", FALSE)

CodeAnswered == post = "code taken" /\ Activated("full", screen.replacing)

\* Refused, or no answer: the form shows the error and may be sent again.
PostFails ==
    /\ post # "none"
    /\ post' = "none"
    /\ screen' = [screen EXCEPT !.sent = FALSE]
    /\ UNCHANGED <<license, gate, polls>>

ReplaceKey ==
    /\ CodeFormShown
    /\ screen' = [screen EXCEPT !.replacing = TRUE]
    /\ UNCHANGED <<license, gate, polls, post>>

CancelReplacing ==
    /\ KeyFormShown /\ screen.replacing
    /\ screen' = [screen EXCEPT !.replacing = FALSE]
    /\ UNCHANGED <<license, gate, polls, post>>

LicenceStep ==
    \/ \E p \in polls : StatusArrives(p) \/ StatusFails(p)
    \/ TimerFires
    \/ AskedAgain
    \/ \E s \in Statuses : LicenceChanges(s)
    \/ KeyTaken \/ CodeTaken
    \/ SubmitKey \/ SubmitCode \/ KeyAnswered \/ CodeAnswered \/ PostFails
    \/ ReplaceKey \/ CancelReplacing
==============================================================================
