---------------------------- MODULE ClientSession ----------------------------
(***************************************************************************)
(* One browser tab of the CRM: who is signed in (AuthProvider), the page   *)
(* that is open (App, AppLayout, LoginPage, SetupPage) and the licence     *)
(* (LicenseScreen), with the requests that connect them to the server.     *)
(*                                                                         *)
(* The token lies in the tab's session storage and outlives everything     *)
(* else: a reload, and the AuthProvider that the licence gate unmounts.    *)
(* A request carries the token of the moment it is sent, and what follows  *)
(* its answer is done whoever is signed in by then.                        *)
(***************************************************************************)
EXTENDS LicenseScreen

CONSTANTS
    Users,          \* accounts, each with one token
    Grants,         \* the sections each may open
    MaxCalls,       \* bound: requests under way, besides those of the licence
    MaxRequests     \* bound: requests under way when one more is made unprompted

Sections == {"home", "tasks", "other"}

Paths == Sections \cup {"login", "setup"}

ASSUME UsersAssumption == None \notin Users
ASSUME GrantsAssumption == Grants \in [Users -> SUBSET Sections]
ASSUME CallsAssumption == MaxCalls \in Nat \ {0, 1} /\ MaxRequests \in Nat \ {0}

VARIABLES
    installed,  \* the server: the first administrator exists
    token,      \* session storage
    me,         \* AuthProvider: who is shown as signed in
    loading,    \* AuthProvider: is that still open?
    path,       \* the page's address
    asked,      \* SetupPage: has it been told whether a set-up is needed?
    calls,      \* requests under way
    crossed     \* history: when token and me were last set together, a request
                \* was under way that might still change one of them alone

authVars == <<installed, token, me, loading, path, asked, calls, crossed>>
vars == <<licenceVars, authVars>>

Kinds == {"me", "theme", "login", "login asks", "setup asks", "complete"}

\* `live': the component that sent it is still mounted; `needs': was a set-up
\* needed when it was sent?
Call == [id : 1..MaxCalls, kind : Kinds, as : Users \cup {None},
         live : BOOLEAN, needs : BOOLEAN]

AuthTypeOK ==
    /\ installed \in BOOLEAN
    /\ token \in Users \cup {None}
    /\ me \in Users \cup {None}
    /\ loading \in BOOLEAN
    /\ path \in Paths
    /\ asked \in BOOLEAN
    /\ calls \in SUBSET Call
    /\ crossed \in BOOLEAN

TypeOK == LicenceTypeOK /\ AuthTypeOK

-----------------------------------------------------------------------------
(* Requests and pages                                                      *)

\* Numbers tell requests of the same kind and user apart.
FreeCall(S, kind, as) ==
    LET used == {c.id : c \in {d \in S : d.kind = kind /\ d.as = as}}
    IN  CHOOSE n \in 1..MaxCalls : n \notin used \/ 1..MaxCalls \subseteq used

Send(S, kind, as, live) ==
    S \cup {[id |-> FreeCall(S, kind, as), kind |-> kind, as |-> as, live |-> live,
             needs |-> ~installed /\ kind \in {"login asks", "setup asks"}]}

UnderWay == Cardinality(calls) + Cardinality(polls) + IF post = "none" THEN 0 ELSE 1

\* Only then is a request made that no other one has led to.
Idle == UnderWay < MaxRequests

CallsFit == Cardinality(calls') <= MaxCalls

\* The page shown for an address: the sections send a visitor to the sign-in,
\* and a user away from a section that is not granted.
Landed(p, user, busy) ==
    CASE p \in {"login", "setup"} \/ busy -> p
      [] ~busy /\ p \in Sections /\ user = None -> "login"
      [] OTHER -> IF p \in Grants[user] THEN p
                  ELSE IF "home" \in Grants[user] THEN "home"
                  ELSE IF "tasks" \in Grants[user] THEN "tasks"
                  ELSE "login"

\* Both pages outside the layout ask whether a set-up is needed.
Mounted(S, p) ==
    CASE p = "login" -> Send(S, "login asks", None, TRUE)
      [] p = "setup" -> Send(S, "setup asks", None, TRUE)
      [] OTHER -> S

\* The set-up page that asked is gone.
Left(S) == {[c EXCEPT !.live = c.live /\ c.kind # "setup asks"] : c \in S}

\* The tab goes to address p, as this user, with these requests under way.
Go(p, user, busy, S) ==
    LET q == IF GateOpen THEN Landed(p, user, busy) ELSE p IN
    /\ path' = q
    /\ IF q = path \/ ~GateOpen
       THEN calls' = S /\ asked' = asked
       ELSE calls' = Mounted(Left(S), q) /\ asked' = FALSE

\* One of these may still change the user but not the token, or the token but
\* not the user, when the token is t.
Crossing(S, t) ==
    \E c \in S :
        \/ c.kind = "me" /\ (c.as # t \/ ~c.live)
        \/ c.kind \in {"theme", "login"} /\ ~c.live

\* The token becomes t, with the user if the provider is mounted, while
\* requests S are under way.
TokenBecomes(t, live, S) ==
    /\ token' = t
    /\ crossed' = (Crossing(S, t) \/ (crossed /\ ~live))

-----------------------------------------------------------------------------
(* The licence gate mounts and unmounts everything else                    *)

\* With a token the AuthProvider loads the user, without it nobody is signed in.
ProviderMounts ==
    LET busy == token # None
        p == Landed(path, None, busy)
    IN  /\ me' = None
        /\ loading' = busy
        /\ path' = p
        /\ asked' = FALSE
        /\ calls' = Mounted(IF busy THEN Send(calls, "me", token, TRUE) ELSE calls, p)
        /\ crossed' = Crossing(calls, token)

\* Requests go on, and what follows them still reaches session storage and
\* address.
ProviderUnmounts ==
    /\ me' = None
    /\ loading' = FALSE
    /\ asked' = FALSE
    /\ calls' = {[c EXCEPT !.live = FALSE] : c \in calls}
    /\ UNCHANGED <<path, crossed>>

ProviderFollows ==
    /\ CASE ~GateOpen /\ GateOpen' -> ProviderMounts
         [] GateOpen /\ ~GateOpen' -> ProviderUnmounts
         [] OTHER -> UNCHANGED <<me, loading, path, asked, calls, crossed>>
    /\ UNCHANGED <<installed, token>>

Licence ==
    /\ LicenceStep
    /\ ProviderFollows
    /\ CallsFit
    /\ polls \subseteq polls' /\ polls # polls' /\ post = post' => Idle
    /\ post = "none" /\ post' # "none" => Idle /\ calls = {}

Init ==
    /\ LicenceInit
    /\ installed \in BOOLEAN
    /\ token \in IF installed THEN Users \cup {None} ELSE {None}
    /\ me = None
    /\ loading = FALSE
    /\ path \in Paths
    /\ asked = FALSE
    /\ calls = {}
    /\ crossed = FALSE

\* F5: only the token, the address and the server stay.
Reload ==
    /\ gate' = [status |-> None, loading |-> TRUE, error |-> FALSE, timer |-> FALSE]
    /\ polls' = Refetch({})
    /\ screen' = FreshScreen
    /\ post' = "none"
    /\ me' = None
    /\ loading' = FALSE
    /\ asked' = FALSE
    /\ calls' = {}
    /\ crossed' = FALSE
    /\ UNCHANGED <<license, installed, token, path>>

-----------------------------------------------------------------------------
(* Requests that end, handled by the server in the step that answers them. *)
(* Any of them may fail; when the licence is not active the server refuses *)
(* them all, and the gate asks for the licence's state.                    *)

\* refresh of a provider (mounted or not), when requests S are under way
Refresh(live, S) ==
    CASE token # None -> /\ calls' = Send(S, "me", token, live)
                         /\ UNCHANGED <<me, loading, path, asked>>
      [] token = None /\ live -> /\ me' = None
                                 /\ loading' = FALSE
                                 /\ Go(path, None, FALSE, S)
      [] OTHER -> calls' = S /\ UNCHANGED <<me, loading, path, asked>>

MeArrives(c) ==
    /\ c.kind = "me"
    /\ me' = IF c.live THEN c.as ELSE me
    /\ loading' = (loading /\ ~c.live)
    /\ IF c.live THEN Go(path, c.as, FALSE, calls \ {c})
                 ELSE calls' = calls \ {c} /\ UNCHANGED <<path, asked>>
    /\ UNCHANGED <<installed, token, crossed>>

\* Whatever made it fail, the token is removed.
MeFails(c) ==
    /\ c.kind = "me"
    /\ TokenBecomes(None, c.live, calls \ {c})
    /\ me' = IF c.live THEN None ELSE me
    /\ loading' = (loading /\ ~c.live)
    /\ IF c.live THEN Go(path, None, FALSE, calls \ {c})
                 ELSE calls' = calls \ {c} /\ UNCHANGED <<path, asked>>
    /\ UNCHANGED installed

ThemeSaved(c) ==
    /\ c.kind = "theme"
    /\ Refresh(c.live, calls \ {c})
    /\ UNCHANGED <<installed, token, crossed>>

\* setSession, then on to the home page
LoginArrives(c) ==
    /\ c.kind = "login"
    /\ installed
    /\ TokenBecomes(c.as, c.live, calls \ {c})
    /\ me' = IF c.live THEN c.as ELSE me
    /\ Go("home", me', loading, calls \ {c})
    /\ UNCHANGED <<installed, loading>>

\* The answer may be from before or after a set-up that was completed since.
LoginPageTold(c) ==
    /\ c.kind = "login asks"
    /\ \E needs \in {c.needs, ~installed} :
          Go(IF needs THEN "setup" ELSE path, me, loading, calls \ {c})
    /\ UNCHANGED <<installed, token, me, loading, crossed>>

SetupPageTold(c) ==
    /\ c.kind = "setup asks"
    /\ \E needs \in {c.needs, ~installed} :
          IF needs
          THEN /\ asked' = (asked \/ c.live)
               /\ calls' = calls \ {c}
               /\ UNCHANGED path
          ELSE Go("login", me, loading, calls \ {c})
    /\ UNCHANGED <<installed, token, me, loading, crossed>>

SetupCompleted(c) ==
    /\ c.kind = "complete"
    /\ ~installed
    /\ installed' = TRUE
    /\ Go("login", me, loading, calls \ {c})
    /\ UNCHANGED <<token, me, loading, crossed>>

\* The other requests only show an error; a set-up page stays blank.
OthersFail(c) ==
    /\ c.kind # "me"
    /\ calls' = calls \ {c}
    /\ UNCHANGED <<installed, token, me, loading, path, asked, crossed>>

Succeeds(c) ==
    \/ MeArrives(c) \/ ThemeSaved(c) \/ LoginArrives(c)
    \/ LoginPageTold(c) \/ SetupPageTold(c) \/ SetupCompleted(c)

Fails(c) == MeFails(c) \/ OthersFail(c)

CallEnds ==
    \E c \in calls :
        /\ \/ Succeeds(c) /\ Licensed(license) /\ UNCHANGED licenceVars
           \/ Fails(c) /\ UNCHANGED licenceVars
           \/ Fails(c) /\ ~Licensed(license) /\ AskedAgain
        /\ CallsFit

-----------------------------------------------------------------------------
(* What the user does                                                      *)

LayoutShown == GateOpen /\ ~loading /\ me # None /\ path \in Sections

Sends(kind, as) ==
    /\ Idle
    /\ calls' = Send(calls, kind, as, TRUE)
    /\ CallsFit
    /\ UNCHANGED <<licenceVars, installed, token, me, loading, path, asked, crossed>>

SubmitLogin == GateOpen /\ path = "login" /\ \E u \in Users : Sends("login", u)

SubmitSetup == GateOpen /\ path = "setup" /\ asked /\ Sends("complete", None)

SetTheme == LayoutShown /\ Sends("theme", None)

\* Faulty: only the token goes.
LogoutOfToken ==
    /\ LayoutShown
    /\ Idle
    /\ TokenBecomes(None, TRUE, calls)
    /\ UNCHANGED <<licenceVars, installed, me, loading, path, asked, calls>>

Logout ==
    /\ LayoutShown
    /\ Idle
    /\ TokenBecomes(None, TRUE, calls)
    /\ me' = None
    /\ Go(path, None, FALSE, calls)
    /\ CallsFit
    /\ UNCHANGED <<licenceVars, installed, loading>>

\* The links of the menu, and the browser's Back
Navigate(p) ==
    /\ GateOpen
    /\ p # path
    /\ Idle
    /\ Go(p, me, loading, calls)
    /\ CallsFit
    /\ UNCHANGED <<licenceVars, installed, token, me, loading, crossed>>

\* Faulty: the refusal is shown by the page alone.
WorkRefused ==
    /\ LayoutShown
    /\ ~Licensed(license)
    /\ Idle
    /\ UNCHANGED vars

\* A page asks the server for something and is refused for the licence.
Work ==
    /\ LayoutShown
    /\ ~Licensed(license)
    /\ Idle
    /\ AskedAgain
    /\ UNCHANGED authVars

Next ==
    \/ Licence
    \/ CallEnds
    \/ SubmitLogin \/ SubmitSetup \/ SetTheme \/ Logout \/ Work
    \/ \E p \in Paths : Navigate(p)
    \/ Reload

\* Every request is answered some time, the server handles what it was sent,
\* and a user who keeps coming to a section works there.
Fairness ==
    /\ SF_vars((\E p \in polls : StatusArrives(p)) /\ ProviderFollows /\ CallsFit)
    /\ WF_vars(CallEnds)
    /\ SF_vars(Work)

Spec == Init /\ [][Next]_vars /\ Fairness

-----------------------------------------------------------------------------
(* Properties                                                              *)

\* Who is shown as signed in is the owner of the token that the requests
\* carry, and nobody is shown only while that user is being loaded: through
\* sign-ins, sign-outs, failed refreshes and a gate that closes and opens.  The
\* one exception is that an answer which writes one of them was still out at
\* the last sign-in, sign-out or mount; refresh does not notice that.
IdentityMatches ==
    GateOpen /\ ~crossed => me = token \/ (me = None /\ loading)

\* Once the licence is gone for good nobody goes on working: the refusal of any
\* request makes the gate ask and close, also after the demo's timer stopped
\* (its request failed) and after an older answer was shown last.
WorkStops == <>[]~Licensed(license) => <>[]~LayoutShown

\* A licence activated by a code opens the CRM without a reload: the screen
\* asks the gate to ask again.  (Unless a status request older than the code is
\* still out, whose answer may come last, or the new one is lost.)
CodeOpensGate ==
    (/\ screen.override = "full"
     /\ polls # {}
     /\ \A p \in polls : p.seen = {"full"})
    ~> (GateOpen \/ ~Licensed(license) \/ gate.error)
==============================================================================
