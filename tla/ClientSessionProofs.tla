-------------------------- MODULE ClientSessionProofs --------------------------
(***************************************************************************)
(* Proofs about a browser tab: the types of ClientSession's variables, and *)
(* that the user who is shown is the owner of the token.                   *)
(***************************************************************************)
EXTENDS ClientSession, TLAPS

-----------------------------------------------------------------------------
(* The licence: types                                                      *)

\* A number for a status request exists.
LEMMA PollNumber == \A S : FreeId(S) \in 1..MaxPolls
<1> SUFFICES ASSUME NEW S PROVE FreeId(S) \in 1..MaxPolls
  OBVIOUS
<1>1. 1 \in 1..MaxPolls
  BY LicenceBounds
<1>2. \E n \in 1..MaxPolls : Free(S, n) \/ ~Room(S)
  BY <1>1 DEF Room
<1> QED BY <1>2 DEF FreeId

\* A status request that is sent is one.
LEMMA RefetchType ==
    ASSUME NEW S \in SUBSET Poll, license \in Statuses
    PROVE  Refetch(S) \in SUBSET Poll
<1>1. FreeId(S) \in 1..MaxPolls
  BY PollNumber
<1>2. [id |-> FreeId(S), seen |-> {license}] \in Poll
  BY <1>1 DEF Poll
<1> QED BY <1>2 DEF Refetch

\* The screen's own status is forgotten or kept.
LEMMA SettledType ==
    ASSUME NEW sc \in Screen, NEW s PROVE Settled(sc, s) \in Screen
BY DEF Settled, Screen

LEMMA FreshType == FreshScreen \in Screen
BY DEF FreshScreen, Screen

\* An answer has its type.
LEMMA ShownType == \A s \in Statuses : StatusShown(s) \in Gate
BY DEF StatusShown, Gate

\* The licence's state changes for the requests under way, too.
LEMMA BecomesType ==
    ASSUME LicenceTypeOK, NEW s \in Statuses, Becomes(s)
    PROVE  license' \in Statuses /\ polls' \in SUBSET Poll
<1>1. \A p \in polls : [p EXCEPT !.seen = @ \cup {s}] \in Poll
  BY DEF LicenceTypeOK, Poll
<1> QED BY <1>1 DEF Becomes

\* Every step of the licence keeps the types.
LEMMA LicenceTyped == ASSUME LicenceTypeOK, LicenceStep PROVE LicenceTypeOK'
<1>0. /\ license \in Statuses /\ gate \in Gate /\ polls \in SUBSET Poll /\ screen \in Screen
      /\ post \in {"none", "key", "key taken", "code", "code taken"}
  BY DEF LicenceTypeOK
<1>1. ASSUME NEW p \in polls, StatusArrives(p) PROVE LicenceTypeOK'
  <2>1. PICK s \in p.seen : /\ gate' = StatusShown(s) /\ screen' = ScreenWith(screen, s)
                            /\ polls' = polls \ {p} /\ UNCHANGED <<license, post>>
    BY <1>1 DEF StatusArrives
  <2>2. s \in Statuses
    BY <1>0 DEF Poll
  <2>3. ScreenWith(screen, s) \in Screen
    BY <1>0, SettledType, FreshType DEF ScreenWith
  <2>4. StatusShown(s) \in Gate
    BY <2>2, ShownType
  <2> QED BY <1>0, <2>1, <2>3, <2>4 DEF LicenceTypeOK
<1>2. ASSUME NEW p \in polls, StatusFails(p) PROVE LicenceTypeOK'
  <2>1. /\ gate' = [gate EXCEPT !.loading = FALSE, !.error = ~GateOpen]
        /\ polls' = polls \ {p} /\ UNCHANGED <<license, screen, post>>
    BY <1>2 DEF StatusFails
  <2>2. GateOpen \in BOOLEAN
    BY DEF GateOpen, Licensed
  <2> HIDE DEF GateOpen
  <2>3. gate' \in Gate
    BY <1>0, <2>1, <2>2 DEF Gate
  <2> QED BY <1>0, <2>1, <2>3 DEF LicenceTypeOK
<1>3. CASE TimerFires
  <2>1. [gate EXCEPT !.timer = FALSE] \in Gate
    BY <1>0 DEF Gate
  <2> QED BY <1>0, <1>3, <2>1, RefetchType DEF TimerFires, LicenceTypeOK
<1>4. CASE AskedAgain
  BY <1>0, <1>4, RefetchType DEF AskedAgain, LicenceTypeOK
<1>5. ASSUME NEW s \in Statuses, LicenceChanges(s) PROVE LicenceTypeOK'
  BY <1>0, <1>5, BecomesType DEF LicenceChanges, LicenceTypeOK
<1>6. CASE KeyTaken \/ CodeTaken
  <2>1. license' \in Statuses /\ polls' \in SUBSET Poll
    BY <1>6, BecomesType DEF KeyTaken, CodeTaken, Statuses
  <2> QED BY <1>0, <1>6, <2>1 DEF KeyTaken, CodeTaken, LicenceTypeOK
<1>7. CASE SubmitKey \/ SubmitCode \/ PostFails
  <2>1. \A b \in BOOLEAN : [screen EXCEPT !.sent = b] \in Screen
    BY <1>0 DEF Screen
  <2> QED BY <1>0, <1>7, <2>1 DEF SubmitKey, SubmitCode, PostFails, LicenceTypeOK
<1>8. CASE ReplaceKey \/ CancelReplacing
  <2>1. \A b \in BOOLEAN : [screen EXCEPT !.replacing = b] \in Screen
    BY <1>0 DEF Screen
  <2> QED BY <1>0, <1>8, <2>1 DEF ReplaceKey, CancelReplacing, LicenceTypeOK
<1>9. ASSUME NEW s \in Statuses, NEW replacing \in BOOLEAN, Activated(s, replacing)
      PROVE  LicenceTypeOK'
  <2>1. [override |-> s, replacing |-> replacing, sent |-> FALSE] \in Screen
    BY DEF Screen
  <2>2. screen' \in Screen
    BY <1>0, <1>9, <2>1, SettledType DEF Activated
  <2> QED BY <1>0, <1>9, <2>2, RefetchType DEF Activated, LicenceTypeOK
<1>10. CASE KeyAnswered \/ CodeAnswered
  <2>1. screen.replacing \in BOOLEAN
    BY <1>0 DEF Screen
  <2> QED BY <1>9, <1>10, <2>1 DEF KeyAnswered, CodeAnswered, Statuses
<1> QED
  BY <1>1, <1>2, <1>3, <1>4, <1>5, <1>6, <1>7, <1>8, <1>10 DEF LicenceStep

-----------------------------------------------------------------------------
(* Requests and pages: types                                               *)

\* A number for a request exists.
LEMMA CallNumber == \A S, kind, as : FreeCall(S, kind, as) \in 1..MaxCalls
<1> SUFFICES ASSUME NEW S, NEW kind, NEW as PROVE FreeCall(S, kind, as) \in 1..MaxCalls
  OBVIOUS
<1> DEFINE used == {c.id : c \in {d \in S : d.kind = kind /\ d.as = as}}
<1>1. 1 \in 1..MaxCalls
  BY CallsAssumption
<1> HIDE DEF used
<1>2. \E n \in 1..MaxCalls : n \notin used \/ 1..MaxCalls \subseteq used
  BY <1>1
<1> QED BY <1>2 DEF FreeCall, used

\* A request that is sent is one, and the others stay as they are.
LEMMA SendType ==
    ASSUME NEW S \in SUBSET Call, NEW kind \in Kinds, NEW as \in Users \cup {None},
           NEW live \in BOOLEAN
    PROVE  /\ Send(S, kind, as, live) \in SUBSET Call
           /\ \A c \in Send(S, kind, as, live) :
                 c \in S \/ (c.kind = kind /\ c.as = as /\ (live => c.live))
<1> DEFINE n == [id |-> FreeCall(S, kind, as), kind |-> kind, as |-> as, live |-> live,
                 needs |-> ~installed /\ kind \in {"login asks", "setup asks"}]
<1>1. FreeCall(S, kind, as) \in 1..MaxCalls
  BY CallNumber
<1>2. (~installed /\ kind \in {"login asks", "setup asks"}) \in BOOLEAN
  OBVIOUS
<1>3. n \in Call
  BY <1>1, <1>2 DEF Call
<1>4. n.kind = kind /\ n.as = as /\ (live => n.live)
  OBVIOUS
<1>5. Send(S, kind, as, live) = S \cup {n}
  BY DEF Send
<1> HIDE DEF n
<1> QED BY <1>3, <1>4, <1>5

\* The page or the user sends with a component that is mounted.
LEMMA SendLive ==
    ASSUME NEW S \in SUBSET Call, NEW kind \in Kinds, NEW as \in Users \cup {None}
    PROVE  /\ Send(S, kind, as, TRUE) \in SUBSET Call
           /\ \A c \in Send(S, kind, as, TRUE) :
                 c \in S \/ (c.kind = kind /\ c.as = as /\ c.live)
<1> DEFINE n == [id |-> FreeCall(S, kind, as), kind |-> kind, as |-> as, live |-> TRUE,
                 needs |-> ~installed /\ kind \in {"login asks", "setup asks"}]
<1>1. FreeCall(S, kind, as) \in 1..MaxCalls
  BY CallNumber
<1>2. (~installed /\ kind \in {"login asks", "setup asks"}) \in BOOLEAN
  OBVIOUS
<1>3. n \in Call
  BY <1>1, <1>2 DEF Call
<1>4. n.kind = kind /\ n.as = as /\ n.live
  OBVIOUS
<1>5. Send(S, kind, as, TRUE) = S \cup {n}
  BY DEF Send
<1> HIDE DEF n
<1> QED BY <1>3, <1>4, <1>5

\* A page outside the layout asks whether a set-up is needed; that is no request
\* that changes the user or the token.
LEMMA MountedType ==
    ASSUME NEW S \in SUBSET Call, NEW p
    PROVE  /\ Mounted(S, p) \in SUBSET Call
           /\ \A c \in Mounted(S, p) : c \in S \/ c.kind \in {"login asks", "setup asks"}
<1>1. "login asks" \in Kinds /\ "setup asks" \in Kinds /\ None \in Users \cup {None}
  BY DEF Kinds
<1>2. CASE p = "login"
  <2>1. Mounted(S, p) = Send(S, "login asks", None, TRUE)
    BY <1>2 DEF Mounted
  <2>2. /\ Send(S, "login asks", None, TRUE) \in SUBSET Call
        /\ \A c \in Send(S, "login asks", None, TRUE) : c \in S \/ c.kind = "login asks"
    BY <1>1, SendLive
  <2> QED BY <2>1, <2>2
<1>3. CASE p = "setup"
  <2>1. Mounted(S, p) = Send(S, "setup asks", None, TRUE)
    BY <1>3 DEF Mounted
  <2>2. /\ Send(S, "setup asks", None, TRUE) \in SUBSET Call
        /\ \A c \in Send(S, "setup asks", None, TRUE) : c \in S \/ c.kind = "setup asks"
    BY <1>1, SendLive
  <2> QED BY <2>1, <2>2
<1>4. CASE p \notin {"login", "setup"}
  BY <1>4 DEF Mounted
<1> QED BY <1>2, <1>3, <1>4

\* Leaving the set-up page concerns its own request alone.
LEMMA LeftType ==
    ASSUME NEW S \in SUBSET Call
    PROVE  /\ Left(S) \in SUBSET Call
           /\ \A c \in Left(S) : c \in S \/ c.kind = "setup asks"
<1> SUFFICES ASSUME NEW c \in S
             PROVE  LET d == [c EXCEPT !.live = c.live /\ c.kind # "setup asks"]
                    IN  d \in Call /\ (d \in S \/ d.kind = "setup asks")
  BY DEF Left
<1> DEFINE d == [c EXCEPT !.live = c.live /\ c.kind # "setup asks"]
<1>1. d \in Call /\ d.kind = c.kind
  BY DEF Call
<1>2. CASE c.kind = "setup asks"
  BY <1>1, <1>2
<1>3. CASE c.kind # "setup asks"
  <2>1. d = c
    BY <1>3 DEF Call
  <2> QED BY <1>1, <2>1
<1> QED BY <1>2, <1>3

\* An address leads to a page.
LEMMA LandedType ==
    ASSUME NEW p \in Paths, NEW user \in Users \cup {None}, NEW busy
    PROVE  Landed(p, user, busy) \in Paths
BY DEF Landed, Paths, Sections

\* Going to an address touches no request that changes the user or the token.
LEMMA GoType ==
    ASSUME NEW p \in Paths, NEW user \in Users \cup {None}, NEW busy,
           NEW S \in SUBSET Call, asked \in BOOLEAN, Go(p, user, busy, S)
    PROVE  /\ path' \in Paths /\ asked' \in BOOLEAN /\ calls' \in SUBSET Call
           /\ \A c \in calls' : c \in S \/ c.kind \in {"login asks", "setup asks", "complete"}
<1> DEFINE q == IF GateOpen THEN Landed(p, user, busy) ELSE p
<1>1. q \in Paths
  BY LandedType
<1>2. /\ path' = q
      /\ IF q = path \/ ~GateOpen THEN calls' = S /\ asked' = asked
                                  ELSE calls' = Mounted(Left(S), q) /\ asked' = FALSE
  BY DEF Go
<1> HIDE DEF q
<1>3. Left(S) \in SUBSET Call /\ \A c \in Left(S) : c \in S \/ c.kind = "setup asks"
  BY LeftType
<1>4. /\ Mounted(Left(S), q) \in SUBSET Call
      /\ \A c \in Mounted(Left(S), q) : c \in Left(S) \/ c.kind \in {"login asks", "setup asks"}
  BY <1>3, MountedType
<1> QED BY <1>1, <1>2, <1>3, <1>4

-----------------------------------------------------------------------------
(* The invariant                                                           *)

\* No request is under way that would set the user or the token alone.
NoneCrosses == ~Crossing(calls, token)

\* Behind an open gate, unless answers may have crossed, the user who is shown is
\* the owner of the token, and what is under way keeps it so.
TabInv ==
    /\ TypeOK
    /\ IdentityMatches
    /\ GateOpen /\ ~crossed => NoneCrosses

\* The requests of two sets agree on what may change the user or the token.
LEMMA SameCrossing ==
    ASSUME NEW S, NEW t, NEW R,
           \A c \in R : c \in S \/ c.kind \in {"login asks", "setup asks", "complete"}
    PROVE  ~Crossing(S, t) => ~Crossing(R, t)
BY DEF Crossing

\* A tab starts without anything.
LEMMA TabStarts == Init => TabInv
<1> SUFFICES ASSUME Init PROVE TabInv
  OBVIOUS
<1>1. /\ license \in Statuses
      /\ gate = [status |-> None, loading |-> TRUE, error |-> FALSE, timer |-> FALSE]
      /\ polls = {[id |-> 1, seen |-> {license}]} /\ screen = FreshScreen /\ post = "none"
  BY DEF Init, LicenceInit
<1>2. gate \in Gate
  BY <1>1 DEF Gate
<1>3. [id |-> 1, seen |-> {license}] \in Poll
  BY <1>1, LicenceBounds DEF Poll
<1>4. LicenceTypeOK
  BY <1>1, <1>2, <1>3, FreshType DEF LicenceTypeOK
<1>5. AuthTypeOK
  BY DEF Init, AuthTypeOK
<1>6. ~GateOpen
  BY <1>1, NoneIsNoStatus DEF GateOpen, Licensed, Statuses
<1> QED BY <1>4, <1>5, <1>6 DEF TabInv, TypeOK, IdentityMatches

\* While the gate stays as it is, and the tab's own variables too, so does the
\* invariant.
LEMMA TabRests ==
    ASSUME TabInv, LicenceTypeOK', GateOpen' = GateOpen, UNCHANGED authVars
    PROVE  TabInv'
BY DEF TabInv, TypeOK, AuthTypeOK, authVars, IdentityMatches, NoneCrosses, Crossing

\* The provider is mounted and unmounted with the gate.
LEMMA ProviderKeeps ==
    ASSUME TabInv, LicenceTypeOK', ProviderFollows PROVE TabInv'
<1>0. /\ installed \in BOOLEAN /\ token \in Users \cup {None} /\ me \in Users \cup {None}
      /\ loading \in BOOLEAN /\ path \in Paths /\ asked \in BOOLEAN
      /\ calls \in SUBSET Call /\ crossed \in BOOLEAN
  BY DEF TabInv, TypeOK, AuthTypeOK
<1>1. installed' = installed /\ token' = token
  BY DEF ProviderFollows
<1>2. GateOpen \in BOOLEAN /\ GateOpen' \in BOOLEAN
  BY DEF GateOpen, Licensed
<1>3. CASE ~GateOpen /\ GateOpen'
  <2> DEFINE busy == token # None
             p == Landed(path, None, busy)
             S == IF busy THEN Send(calls, "me", token, TRUE) ELSE calls
  <2>1. ProviderMounts
    BY <1>3 DEF ProviderFollows
  <2>2. /\ me' = None /\ loading' = busy /\ path' = p /\ asked' = FALSE
        /\ calls' = Mounted(S, p) /\ crossed' = Crossing(calls, token)
    BY <2>1 DEF ProviderMounts
  <2>3. p \in Paths
    BY <1>0, LandedType
  <2>4. /\ S \in SUBSET Call
        /\ \A c \in S : c \in calls \/ (c.kind = "me" /\ c.as = token /\ c.live)
    <3>1. CASE ~busy
      BY <1>0, <3>1
    <3>2. CASE busy
      <4>1. S = Send(calls, "me", token, TRUE) /\ "me" \in Kinds
        BY <3>2 DEF Kinds
      <4> HIDE DEF S
      <4> QED BY <1>0, <4>1, SendLive
    <3> QED BY <3>1, <3>2
  <2> HIDE DEF S, p
  <2>5. /\ calls' \in SUBSET Call
        /\ \A c \in calls' : c \in S \/ c.kind \in {"login asks", "setup asks"}
    BY <2>2, <2>4, MountedType
  <2>6. AuthTypeOK'
    <3>1. crossed' \in BOOLEAN
      BY <2>2 DEF Crossing
    <3> QED BY <1>0, <1>1, <2>2, <2>3, <2>5, <3>1 DEF AuthTypeOK
  <2>7. ~crossed' => NoneCrosses'
    BY <1>1, <2>2, <2>4, <2>5 DEF NoneCrosses, Crossing
  <2>8. IdentityMatches'
    BY <1>1, <2>2 DEF IdentityMatches
  <2> QED BY <2>6, <2>7, <2>8 DEF TabInv, TypeOK
<1>4. CASE GateOpen /\ ~GateOpen'
  <2>1. ProviderUnmounts
    BY <1>4 DEF ProviderFollows
  <2>2. /\ me' = None /\ loading' = FALSE /\ asked' = FALSE
        /\ calls' = {[c EXCEPT !.live = FALSE] : c \in calls}
        /\ UNCHANGED <<path, crossed>>
    BY <2>1 DEF ProviderUnmounts
  <2>3. \A c \in calls : [c EXCEPT !.live = FALSE] \in Call
    BY <1>0 DEF Call
  <2>4. AuthTypeOK'
    BY <1>0, <1>1, <2>2, <2>3 DEF AuthTypeOK
  <2> QED BY <1>4, <2>4 DEF TabInv, TypeOK, IdentityMatches
<1>5. CASE GateOpen' = GateOpen
  <2>1. UNCHANGED <<me, loading, path, asked, calls, crossed>>
    BY <1>2, <1>5 DEF ProviderFollows
  <2> QED BY <1>1, <1>5, <2>1, TabRests DEF authVars
<1> QED BY <1>2, <1>3, <1>4, <1>5

\* What a step behind the same gate has to show, if S is left of the requests
\* and besides them only a page asks something.
LEMMA TabFollows ==
    ASSUME TabInv, LicenceTypeOK', gate' = gate,
           installed' \in BOOLEAN, token' \in Users \cup {None}, me' \in Users \cup {None},
           loading' \in BOOLEAN, path' \in Paths, asked' \in BOOLEAN, crossed' \in BOOLEAN,
           NEW S \in SUBSET Call, calls' \in SUBSET Call,
           \A c \in calls' : c \in S \/ c.kind \in {"login asks", "setup asks", "complete"},
           GateOpen /\ ~crossed' => /\ ~Crossing(S, token')
                                    /\ me' = token' \/ (me' = None /\ loading')
    PROVE  TabInv'
<1>1. GateOpen' = GateOpen
  BY DEF GateOpen
<1>2. ~Crossing(S, token') => ~Crossing(calls', token')
  BY SameCrossing
<1>3. AuthTypeOK'
  BY DEF AuthTypeOK
<1>4. IdentityMatches'
  BY <1>1 DEF IdentityMatches
<1>5. GateOpen' /\ ~crossed' => NoneCrosses'
  <2>1. GateOpen /\ ~crossed' => ~Crossing(S, token')
    OBVIOUS
  <2>2. GateOpen /\ ~crossed' => ~Crossing(calls', token')
    BY <1>2, <2>1, Zenon
  <2>3. ~Crossing(calls', token') => NoneCrosses'
    BY DEF NoneCrosses, Crossing
  <2> QED BY <1>1, <2>2, <2>3, Zenon
<1> QED BY <1>3, <1>4, <1>5 DEF TabInv, TypeOK

\* An answer, or its failure, keeps the invariant.
LEMMA AnswerKeeps ==
    ASSUME TabInv, LicenceTypeOK', gate' = gate, NEW c \in calls, Succeeds(c) \/ Fails(c)
    PROVE  TabInv'
<1> DEFINE S == calls \ {c}
<1>0. /\ installed \in BOOLEAN /\ token \in Users \cup {None} /\ me \in Users \cup {None}
      /\ loading \in BOOLEAN /\ path \in Paths /\ asked \in BOOLEAN
      /\ calls \in SUBSET Call /\ crossed \in BOOLEAN /\ S \in SUBSET Call
  BY DEF TabInv, TypeOK, AuthTypeOK
<1>1. c.as \in Users \cup {None} /\ c.live \in BOOLEAN /\ None \in Users \cup {None}
  BY <1>0 DEF Call
<1>2. \A t, T : Crossing(T, t) \in BOOLEAN
  BY DEF Crossing
<1>3. ASSUME GateOpen, ~crossed
      PROVE  /\ c.kind = "me" => c.as = token /\ c.live
             /\ c.kind \in {"theme", "login"} => c.live
             /\ ~Crossing(S, token)
             /\ me = token \/ (me = None /\ loading)
  BY <1>3 DEF TabInv, NoneCrosses, Crossing, IdentityMatches
<1> HIDE DEF S
<1>4. CASE MeArrives(c)
  <2>1. /\ c.kind = "me" /\ me' = (IF c.live THEN c.as ELSE me)
        /\ loading' = (loading /\ ~c.live)
        /\ IF c.live THEN Go(path, c.as, FALSE, S)
                     ELSE calls' = S /\ UNCHANGED <<path, asked>>
        /\ UNCHANGED <<installed, token, crossed>>
    BY <1>4 DEF MeArrives, S
  <2>2. /\ path' \in Paths /\ asked' \in BOOLEAN /\ calls' \in SUBSET Call
        /\ \A d \in calls' : d \in S \/ d.kind \in {"login asks", "setup asks", "complete"}
    <3>1. CASE c.live
      <4>1. Go(path, c.as, FALSE, S)
        BY <2>1, <3>1
      <4> QED BY <1>0, <1>1, <4>1, GoType
    <3>2. CASE ~c.live
      BY <1>0, <2>1, <3>2
    <3> QED BY <3>1, <3>2
  <2>3. GateOpen /\ ~crossed' => ~Crossing(S, token') /\ me' = token'
    BY <1>3, <2>1
  <2>4. loading' \in BOOLEAN /\ me' \in Users \cup {None}
    BY <1>0, <1>1, <2>1
  <2> QED BY <1>0, <2>1, <2>2, <2>3, <2>4, TabFollows
<1>5. CASE MeFails(c)
  <2>1. /\ c.kind = "me" /\ token' = None
        /\ crossed' = (Crossing(S, None) \/ (crossed /\ ~c.live))
        /\ me' = (IF c.live THEN None ELSE me) /\ loading' = (loading /\ ~c.live)
        /\ IF c.live THEN Go(path, None, FALSE, S)
                     ELSE calls' = S /\ UNCHANGED <<path, asked>>
        /\ UNCHANGED installed
    BY <1>5 DEF MeFails, TokenBecomes, S
  <2>2. /\ path' \in Paths /\ asked' \in BOOLEAN /\ calls' \in SUBSET Call
        /\ \A d \in calls' : d \in S \/ d.kind \in {"login asks", "setup asks", "complete"}
    <3>1. CASE c.live
      <4>1. Go(path, None, FALSE, S)
        BY <2>1, <3>1
      <4> QED BY <1>0, <1>1, <4>1, GoType
    <3>2. CASE ~c.live
      BY <1>0, <2>1, <3>2
    <3> QED BY <3>1, <3>2
  <2>3. GateOpen /\ ~crossed' => ~Crossing(S, token') /\ me' = token'
    BY <1>3, <2>1
  <2>4. /\ loading' \in BOOLEAN /\ me' \in Users \cup {None}
        /\ token' \in Users \cup {None} /\ crossed' \in BOOLEAN
    BY <1>0, <1>1, <1>2, <2>1
  <2> QED BY <1>0, <2>1, <2>2, <2>3, <2>4, TabFollows
<1>6. CASE ThemeSaved(c)
  <2>1. /\ c.kind = "theme" /\ UNCHANGED <<installed, token, crossed>>
        /\ Refresh(c.live, S)
    BY <1>6 DEF ThemeSaved, S
  <2>2. CASE token # None
    <3>1. calls' = Send(S, "me", token, c.live) /\ UNCHANGED <<me, loading, path, asked>>
      BY <2>1, <2>2 DEF Refresh
    <3>2. "me" \in Kinds
      BY DEF Kinds
    <3>3. calls' \in SUBSET Call
      BY <1>0, <1>1, <3>1, <3>2, SendType
    <3>4. GateOpen /\ ~crossed => ~Crossing(calls', token)
      <4> SUFFICES ASSUME GateOpen, ~crossed PROVE ~Crossing(calls', token)
        OBVIOUS
      <4>1. c.live = TRUE /\ ~Crossing(S, token)
        BY <1>1, <1>3, <2>1
      <4>2. \A d \in Send(S, "me", token, TRUE) :
              d \in S \/ (d.kind = "me" /\ d.as = token /\ d.live)
        BY <1>0, <3>2, SendLive
      <4>3. calls' = Send(S, "me", token, TRUE)
        BY <3>1, <4>1
      <4> QED BY <4>1, <4>2, <4>3 DEF Crossing
    <3>5. \A d \in calls' : d \in calls' \/ d.kind \in {"login asks", "setup asks", "complete"}
      OBVIOUS
    <3>6. GateOpen /\ ~crossed' => /\ ~Crossing(calls', token')
                                   /\ me' = token' \/ (me' = None /\ loading')
      BY <1>3, <2>1, <3>1, <3>4
    <3> QED BY <1>0, <2>1, <3>1, <3>3, <3>5, <3>6, TabFollows
  <2>3. CASE token = None /\ c.live
    <3>1. me' = None /\ loading' = FALSE /\ Go(path, None, FALSE, S)
      BY <2>1, <2>3 DEF Refresh
    <3>2. /\ path' \in Paths /\ asked' \in BOOLEAN /\ calls' \in SUBSET Call
          /\ \A d \in calls' : d \in S \/ d.kind \in {"login asks", "setup asks", "complete"}
      BY <1>0, <1>1, <3>1, GoType
    <3>3. GateOpen /\ ~crossed' => /\ ~Crossing(S, token')
                                   /\ me' = token' \/ (me' = None /\ loading')
      BY <1>3, <2>1, <2>3, <3>1
    <3> QED BY <1>0, <1>1, <2>1, <3>1, <3>2, <3>3, TabFollows
  <2>4. CASE token = None /\ ~c.live
    <3>1. calls' = S /\ UNCHANGED <<me, loading, path, asked>>
      BY <2>1, <2>4 DEF Refresh
    <3>2. \A d \in calls' : d \in S \/ d.kind \in {"login asks", "setup asks", "complete"}
      BY <3>1
    <3>3. GateOpen /\ ~crossed' => /\ ~Crossing(S, token')
                                   /\ me' = token' \/ (me' = None /\ loading')
      BY <1>3, <2>1, <3>1
    <3> QED BY <1>0, <2>1, <3>1, <3>2, <3>3, TabFollows
  <2> QED BY <1>1, <2>2, <2>3, <2>4
<1>7. CASE LoginArrives(c)
  <2>1. /\ c.kind = "login" /\ token' = c.as
        /\ crossed' = (Crossing(S, c.as) \/ (crossed /\ ~c.live))
        /\ me' = (IF c.live THEN c.as ELSE me)
        /\ Go("home", me', loading, S) /\ UNCHANGED <<installed, loading>>
    BY <1>7 DEF LoginArrives, TokenBecomes, S
  <2>2. me' \in Users \cup {None} /\ "home" \in Paths
    BY <1>0, <1>1, <2>1 DEF Paths, Sections
  <2>3. /\ path' \in Paths /\ asked' \in BOOLEAN /\ calls' \in SUBSET Call
        /\ \A d \in calls' : d \in S \/ d.kind \in {"login asks", "setup asks", "complete"}
    <3>1. PICK user \in Users \cup {None} : user = me'
      BY <2>2
    <3>2. Go("home", user, loading, S)
      BY <2>1, <3>1
    <3>3. ASSUME NEW p \in Paths, Go(p, user, loading, S)
          PROVE  /\ path' \in Paths /\ asked' \in BOOLEAN /\ calls' \in SUBSET Call
                 /\ \A d \in calls' :
                       d \in S \/ d.kind \in {"login asks", "setup asks", "complete"}
      <4>1. /\ user \in Users \cup {None} /\ loading \in BOOLEAN /\ S \in SUBSET Call
            /\ asked \in BOOLEAN
        BY <1>0, <3>1
      <4> QED BY <3>3, <4>1, GoType
    <3> QED BY <2>2, <3>2, <3>3
  <2>4. GateOpen /\ ~crossed' => ~Crossing(S, token') /\ me' = token'
    BY <1>3, <2>1
  <2>5. token' \in Users \cup {None} /\ crossed' \in BOOLEAN
    BY <1>0, <1>1, <1>2, <2>1
  <2> QED BY <1>0, <2>1, <2>2, <2>3, <2>4, <2>5, TabFollows
<1>8. ASSUME UNCHANGED <<token, me, loading, crossed>>, installed' \in BOOLEAN,
             path' \in Paths, asked' \in BOOLEAN, calls' \in SUBSET Call,
             \A d \in calls' : d \in S \/ d.kind \in {"login asks", "setup asks", "complete"}
      PROVE  TabInv'
  <2>1. GateOpen /\ ~crossed' => /\ ~Crossing(S, token')
                                 /\ me' = token' \/ (me' = None /\ loading')
    BY <1>3, <1>8
  <2> QED BY <1>0, <1>8, <2>1, TabFollows
<1>9. ASSUME NEW p \in Paths, Go(p, me, loading, S), installed' \in BOOLEAN,
             UNCHANGED <<token, me, loading, crossed>>
      PROVE  TabInv'
  <2>1. /\ path' \in Paths /\ asked' \in BOOLEAN /\ calls' \in SUBSET Call
        /\ \A d \in calls' : d \in S \/ d.kind \in {"login asks", "setup asks", "complete"}
    <3>1. /\ me \in Users \cup {None} /\ loading \in BOOLEAN /\ S \in SUBSET Call
          /\ asked \in BOOLEAN /\ Go(p, me, loading, S)
      BY <1>0, <1>9
    <3> QED BY <3>1, GoType
  <2> QED BY <1>8, <1>9, <2>1
<1>10. CASE LoginPageTold(c)
  <2>1. PICK needs \in {c.needs, ~installed} :
            Go(IF needs THEN "setup" ELSE path, me, loading, S)
    BY <1>10 DEF LoginPageTold, S
  <2>2. (IF needs THEN "setup" ELSE path) \in Paths
    BY <1>0 DEF Paths
  <2>3. UNCHANGED <<installed, token, me, loading, crossed>>
    BY <1>10 DEF LoginPageTold
  <2> QED BY <1>0, <1>9, <2>1, <2>2, <2>3
<1>11. CASE SetupPageTold(c)
  <2>1. UNCHANGED <<installed, token, me, loading, crossed>>
    BY <1>11 DEF SetupPageTold
  <2>2. CASE Go("login", me, loading, S)
    BY <1>0, <1>9, <2>1, <2>2 DEF Paths
  <2>3. CASE asked' = (asked \/ c.live) /\ calls' = S /\ path' = path
    BY <1>0, <1>1, <1>8, <2>1, <2>3
  <2> QED BY <1>11, <2>2, <2>3 DEF SetupPageTold, S
<1>12. CASE SetupCompleted(c)
  <2>1. /\ installed' = TRUE /\ Go("login", me, loading, S)
        /\ UNCHANGED <<token, me, loading, crossed>>
    BY <1>12 DEF SetupCompleted, S
  <2> QED BY <1>9, <2>1 DEF Paths
<1>13. CASE OthersFail(c)
  <2>1. calls' = S /\ UNCHANGED <<installed, token, me, loading, path, asked, crossed>>
    BY <1>13 DEF OthersFail, S
  <2> QED BY <1>0, <1>8, <2>1
<1> QED
  BY <1>4, <1>5, <1>6, <1>7, <1>10, <1>11, <1>12, <1>13 DEF Succeeds, Fails

\* What the user sends is sent by a component that is mounted.
LEMMA SendKeeps ==
    ASSUME TabInv, NEW kind \in {"login", "theme", "complete"},
           NEW as \in Users \cup {None}, Sends(kind, as)
    PROVE  TabInv'
<1>0. /\ installed \in BOOLEAN /\ token \in Users \cup {None} /\ me \in Users \cup {None}
      /\ loading \in BOOLEAN /\ path \in Paths /\ asked \in BOOLEAN
      /\ calls \in SUBSET Call /\ crossed \in BOOLEAN /\ LicenceTypeOK
  BY DEF TabInv, TypeOK, AuthTypeOK
<1>1. /\ calls' = Send(calls, kind, as, TRUE)
      /\ UNCHANGED <<licenceVars, installed, token, me, loading, path, asked, crossed>>
  BY DEF Sends
<1>2. kind \in Kinds
  BY DEF Kinds
<1>3. /\ Send(calls, kind, as, TRUE) \in SUBSET Call
      /\ \A c \in Send(calls, kind, as, TRUE) :
            c \in calls \/ (c.kind = kind /\ c.as = as /\ c.live)
  BY <1>0, <1>2, SendLive
<1>4. LicenceTypeOK' /\ gate' = gate
  BY <1>0, <1>1 DEF licenceVars, LicenceTypeOK
<1>5. GateOpen /\ ~crossed => /\ ~Crossing(calls', token)
                              /\ me = token \/ (me = None /\ loading)
  BY <1>1, <1>3 DEF TabInv, NoneCrosses, Crossing, IdentityMatches
<1>6. \A c \in calls' : c \in calls' \/ c.kind \in {"login asks", "setup asks", "complete"}
  OBVIOUS
<1>7. calls' \in SUBSET Call
  BY <1>1, <1>3
<1> QED BY <1>0, <1>1, <1>4, <1>5, <1>6, <1>7, TabFollows

\* Every step of the tab keeps the invariant.
LEMMA TabKeeps == TabInv /\ [Next]_vars => TabInv'
<1> SUFFICES ASSUME TabInv, [Next]_vars PROVE TabInv'
  OBVIOUS
<1>0. /\ installed \in BOOLEAN /\ token \in Users \cup {None} /\ me \in Users \cup {None}
      /\ loading \in BOOLEAN /\ path \in Paths /\ asked \in BOOLEAN
      /\ calls \in SUBSET Call /\ crossed \in BOOLEAN /\ LicenceTypeOK
  BY DEF TabInv, TypeOK, AuthTypeOK
<1>1. UNCHANGED licenceVars => LicenceTypeOK' /\ gate' = gate /\ GateOpen' = GateOpen
  BY <1>0 DEF licenceVars, LicenceTypeOK, GateOpen
<1>2. AskedAgain => LicenceTypeOK' /\ gate' = gate /\ GateOpen' = GateOpen
  <2>1. AskedAgain => LicenceStep
    BY DEF LicenceStep
  <2> QED BY <1>0, <2>1, LicenceTyped DEF AskedAgain, GateOpen
<1>3. CASE UNCHANGED vars
  BY <1>1, <1>3, TabRests DEF vars
<1>4. CASE Licence
  BY <1>0, <1>4, LicenceTyped, ProviderKeeps DEF Licence
<1>5. CASE CallEnds
  BY <1>1, <1>2, <1>5, AnswerKeeps DEF CallEnds
<1>6. CASE SubmitLogin \/ SubmitSetup \/ SetTheme
  <2>1. \A kind \in {"login", "theme", "complete"}, as \in Users \cup {None} :
            Sends(kind, as) => TabInv'
    BY SendKeeps
  <2> QED BY <1>6, <2>1 DEF SubmitLogin, SubmitSetup, SetTheme
<1>7. CASE Logout
  <2>1. /\ token' = None /\ me' = None
        /\ crossed' = (Crossing(calls, None) \/ (crossed /\ ~TRUE))
        /\ Go(path, None, FALSE, calls) /\ UNCHANGED <<licenceVars, installed, loading>>
    BY <1>7 DEF Logout, TokenBecomes
  <2>2. None \in Users \cup {None} /\ crossed' \in BOOLEAN
    BY <2>1 DEF Crossing
  <2>3. /\ path' \in Paths /\ asked' \in BOOLEAN /\ calls' \in SUBSET Call
        /\ \A c \in calls' : c \in calls \/ c.kind \in {"login asks", "setup asks", "complete"}
    BY <1>0, <2>1, <2>2, GoType
  <2>4. GateOpen /\ ~crossed' => ~Crossing(calls, token') /\ me' = token'
    BY <2>1
  <2> QED BY <1>0, <1>1, <2>1, <2>2, <2>3, <2>4, TabFollows
<1>8. ASSUME NEW p \in Paths, Navigate(p) PROVE TabInv'
  <2>1. /\ Go(p, me, loading, calls)
        /\ UNCHANGED <<licenceVars, installed, token, me, loading, crossed>>
    BY <1>8 DEF Navigate
  <2>2. /\ path' \in Paths /\ asked' \in BOOLEAN /\ calls' \in SUBSET Call
        /\ \A c \in calls' : c \in calls \/ c.kind \in {"login asks", "setup asks", "complete"}
    <3>1. /\ me \in Users \cup {None} /\ loading \in BOOLEAN /\ calls \in SUBSET Call
          /\ asked \in BOOLEAN /\ Go(p, me, loading, calls)
      BY <1>0, <2>1
    <3> QED BY <3>1, GoType
  <2>3. GateOpen /\ ~crossed' => /\ ~Crossing(calls, token')
                                 /\ me' = token' \/ (me' = None /\ loading')
    BY <2>1 DEF TabInv, NoneCrosses, IdentityMatches
  <2> QED BY <1>0, <1>1, <2>1, <2>2, <2>3, TabFollows
<1>9. CASE Work
  BY <1>2, <1>9, TabRests DEF Work
<1>10. CASE Reload
  <2>1. /\ gate' = [status |-> None, loading |-> TRUE, error |-> FALSE, timer |-> FALSE]
        /\ polls' = Refetch({}) /\ screen' = FreshScreen /\ post' = "none"
        /\ me' = None /\ loading' = FALSE /\ asked' = FALSE /\ calls' = {}
        /\ crossed' = FALSE /\ UNCHANGED <<license, installed, token, path>>
    BY <1>10 DEF Reload
  <2>2. gate' \in Gate
    BY <2>1 DEF Gate
  <2>3. polls' \in SUBSET Poll
    <3>1. {} \in SUBSET Poll /\ license \in Statuses
      BY <1>0 DEF LicenceTypeOK
    <3> QED BY <2>1, <3>1, RefetchType
  <2>4. LicenceTypeOK'
    BY <1>0, <2>1, <2>2, <2>3, FreshType DEF LicenceTypeOK
  <2>5. AuthTypeOK'
    BY <1>0, <2>1 DEF AuthTypeOK
  <2>6. ~GateOpen'
    <3>1. gate'.status = None
      BY <2>1
    <3> QED BY <3>1, NoneIsNoStatus DEF GateOpen, Licensed, Statuses
  <2> QED BY <2>4, <2>5, <2>6 DEF TabInv, TypeOK, IdentityMatches
<1> QED BY <1>3, <1>4, <1>5, <1>6, <1>7, <1>8, <1>9, <1>10 DEF Next

-----------------------------------------------------------------------------
(* Theorems                                                                *)

\* The invariant holds at all times.
THEOREM TabStrong == Spec => []TabInv
BY TabStarts, TabKeeps, PTL DEF Spec

\* Every variable has its type: numbers are found for requests, and every
\* address leads to a page.
THEOREM TabTypes == Spec => []TypeOK
<1>1. TabInv => TypeOK
  BY DEF TabInv
<1> QED BY <1>1, TabStrong, PTL

\* Behind an open gate the user who is shown is the owner of the token, or is
\* being loaded, unless answers may have crossed when token and user were last
\* set; for any number of users, grants and requests under way.
THEOREM IdentityHolds == Spec => []IdentityMatches
<1>1. TabInv => IdentityMatches
  BY DEF TabInv
<1> QED BY <1>1, TabStrong, PTL
==============================================================================
