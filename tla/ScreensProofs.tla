----------------------------- MODULE ScreensProofs -----------------------------
(***************************************************************************)
(* Proofs of the invariants of Screens: those of the tables, of the home   *)
(* page and of License Admin's page here, those of the dialogs and forms   *)
(* in DialogProofs, and all of them together for ScreensSpec.              *)
(***************************************************************************)
EXTENDS Screens, DialogProofs, SequenceTheorems

-----------------------------------------------------------------------------
(* The home page                                                           *)

\* Timers and acknowledgements of this page are of notices it has scheduled.
HomeInv ==
    /\ HomeTypeOK
    /\ OneToastEach
    /\ timers \subseteq scheduled
    /\ \A a \in acks : a.from = "timer" => a.of \in scheduled

\* The page starts with nothing on show.
LEMMA HomeStarts == HomeInit => HomeInv
<1> SUFFICES ASSUME HomeInit PROVE HomeInv
  OBVIOUS
<1>1. HomeTypeOK
  BY DEF HomeInit, HomeTypeOK
<1>2. OneToastEach
  BY DEF HomeInit, OneToastEach
<1> QED BY <1>1, <1>2 DEF HomeInit, HomeInv

\* A load that begins joins the others.
LEMMA LoadJoins ==
    ASSUME HomeTypeOK, NEW first \in BOOLEAN, StartsLoad(first)
    PROVE  loads' \in SUBSET Load
<1>1. PICK i \in FreeLoad :
          loads' = loads \cup {[id |-> i, first |-> first, live |-> TRUE,
                                answered |-> FALSE, got |-> {}, spared |-> {}]}
  BY DEF StartsLoad
<1>2. [id |-> i, first |-> first, live |-> TRUE, answered |-> FALSE, got |-> {},
       spared |-> {}] \in Load
  BY <1>1 DEF Load, FreeLoad
<1> QED BY <1>1, <1>2 DEF HomeTypeOK

\* Every step of the page keeps its invariant.
LEMMA HomeKeeps == ASSUME HomeInv, [HomeStep]_homeVars PROVE HomeInv'
<1> USE DEF HomeInv, HomeTypeOK, OneToastEach
<1>1. CASE UNCHANGED homeVars
  BY <1>1 DEF homeVars
<1>2. ASSUME NEW n \in Notices, NoticeComes(n) PROVE HomeInv'
  BY <1>2 DEF NoticeComes
<1>3. ASSUME NEW n \in Notices, TimerEnds(n) PROVE HomeInv'
  <2>1. /\ n \in timers /\ timers' = timers \ {n}
        /\ acks' = acks \cup {[of |-> n, from |-> "timer"]}
        /\ UNCHANGED <<unread, home, loads, toasts, scheduled, ghosts>>
    BY <1>3 DEF TimerEnds
  <2>2. acks' \in SUBSET Ack
    BY <2>1 DEF Ack
  <2>3. \A m \in Notices : m # n =>
            ([of |-> m, from |-> "timer"] \in acks' <=> [of |-> m, from |-> "timer"] \in acks)
    BY <2>1
  <2>4. [of |-> n, from |-> "timer"] \in acks'
    BY <2>1
  <2> QED BY <2>1, <2>2, <2>3, <2>4
<1>4. ASSUME NEW n \in Notices, GhostEnds(n) PROVE HomeInv'
  <2>1. /\ ghosts' = ghosts \ {n}
        /\ acks' = acks \cup {[of |-> n, from |-> "ghost"]}
        /\ UNCHANGED <<unread, home, loads, toasts, scheduled, timers>>
    BY <1>4 DEF GhostEnds
  <2>2. acks' \in SUBSET Ack
    BY <2>1 DEF Ack
  <2>3. \A m \in Notices :
            [of |-> m, from |-> "timer"] \in acks' <=> [of |-> m, from |-> "timer"] \in acks
    BY <2>1
  <2> QED BY <2>1, <2>2, <2>3
<1>5. CASE OpenHome
  BY <1>5, LoadJoins DEF OpenHome
<1>6. CASE ReloadHome
  BY <1>6, LoadJoins DEF ReloadHome
<1>7. CASE LeaveHome
  <2>1. /\ loads' = {[l EXCEPT !.live = FALSE,
                               !.spared = IF l.live THEN timers ELSE @] : l \in loads}
        /\ toasts' = [n \in Notices |-> 0]
        /\ scheduled' = {} /\ timers' = {}
        /\ acks' = {IF a.from = "timer" THEN [a EXCEPT !.from = "ghost"] ELSE a : a \in acks}
                   \cup {[of |-> n, from |-> "leaving"] : n \in OnShow}
        /\ home' = FALSE /\ UNCHANGED <<unread, ghosts>>
    BY <1>7 DEF LeaveHome
  <2>2. \A l \in Load : [l EXCEPT !.live = FALSE,
                                  !.spared = IF l.live THEN timers ELSE @] \in Load
    BY DEF Load
  <2>3. \A a \in Ack : /\ [a EXCEPT !.from = "ghost"] \in Ack
                       /\ [a EXCEPT !.from = "ghost"].from # "timer"
    BY DEF Ack
  <2>4. \A n \in OnShow : [of |-> n, from |-> "leaving"] \in Ack
    BY DEF Ack, OnShow
  <2>5. ASSUME NEW b \in acks' PROVE b \in Ack /\ b.from # "timer"
    <3>1. CASE \E a \in acks : b = IF a.from = "timer" THEN [a EXCEPT !.from = "ghost"] ELSE a
      <4>1. PICK a \in acks : b = IF a.from = "timer" THEN [a EXCEPT !.from = "ghost"] ELSE a
        BY <3>1
      <4>2. CASE a.from = "timer"
        BY <2>3, <4>1, <4>2
      <4>3. CASE a.from # "timer"
        BY <4>1, <4>3
      <4> QED BY <4>2, <4>3
    <3>2. CASE \E n \in OnShow : b = [of |-> n, from |-> "leaving"]
      BY <2>4, <3>2
    <3> QED BY <2>1, <3>1, <3>2
  <2>6. loads' \in SUBSET Load
    BY <2>1, <2>2
  <2> QED BY <2>1, <2>5, <2>6
<1>8. ASSUME NEW l \in loads, ServerAnswers(l) PROVE HomeInv'
  <2>1. [l EXCEPT !.answered = TRUE, !.got = unread] \in Load
    BY DEF Load
  <2> QED BY <1>8, <2>1 DEF ServerAnswers
<1>9. ASSUME NEW l \in loads, LoadArrives(l) PROVE HomeInv'
  <2>1. l.got \in SUBSET Notices
    BY DEF Load
  <2>2. loads' = loads \ {l} /\ UNCHANGED <<unread, home, acks>>
    BY <1>9 DEF LoadArrives
  <2>3. ASSUME NEW new \in SUBSET Notices, new \cap scheduled = {}, Schedules(new)
        PROVE  HomeInv'
    <3>1. \A n \in new : n \notin timers /\ [of |-> n, from |-> "timer"] \notin acks
      BY <2>3
    <3> QED BY <2>2, <2>3, <3>1 DEF Schedules
  <2>4. ASSUME NEW new \in SUBSET Notices, SchedulesUnseen(new)
        PROVE  HomeInv'
    BY <2>2, <2>4 DEF SchedulesUnseen
  <2>5. CASE l.live /\ Schedules(l.got \ scheduled)
    BY <2>1, <2>3, <2>5
  <2>6. CASE Schedules({})
    BY <2>3, <2>6
  <2>7. CASE \E new \in SUBSET Notices : SchedulesUnseen(new)
    BY <2>4, <2>7
  <2> QED BY <1>9, <2>1, <2>5, <2>6, <2>7 DEF LoadArrives
<1>10. ASSUME NEW l \in loads, LoadFails(l) PROVE HomeInv'
  BY <1>10 DEF LoadFails
<1>11. ASSUME NEW a \in acks, AckEnds(a) PROVE HomeInv'
  <2>1. /\ a.of \in Notices /\ a = [of |-> a.of, from |-> a.from]
        /\ acks' = acks \ {a} /\ unread' \in SUBSET Notices
        /\ UNCHANGED <<home, loads, timers, ghosts>>
    BY <1>11 DEF AckEnds, Ack
  <2>2. CASE a.from = "timer"
    <3>1. /\ scheduled' = scheduled \ {a.of}
          /\ toasts' = [toasts EXCEPT ![a.of] = 0]
      BY <1>11, <2>2 DEF AckEnds
    <3>2. a.of \in scheduled /\ a.of \notin timers
      BY <2>1, <2>2
    <3>3. \A m \in Notices : m # a.of =>
              ([of |-> m, from |-> "timer"] \in acks' <=> [of |-> m, from |-> "timer"] \in acks)
      BY <2>1
    <3>4. \A b \in acks' : b.from = "timer" => b.of \in scheduled'
      <4> SUFFICES ASSUME NEW b \in acks', b.from = "timer" PROVE b.of # a.of
        BY <2>1, <3>1
      <4>1. b = [of |-> b.of, from |-> "timer"]
        BY <2>1 DEF Ack
      <4> QED BY <2>1, <2>2, <4>1
    <3>5. HomeTypeOK'
      BY <2>1, <3>1
    <3>6. OneToastEach'
      <4> SUFFICES ASSUME NEW m \in Notices
                   PROVE  /\ toasts'[m] = IF m \in scheduled' THEN 1 ELSE 0
                          /\ m \in scheduled' =>
                                (m \in timers') # ([of |-> m, from |-> "timer"] \in acks')
        OBVIOUS
      <4>1. CASE m = a.of
        BY <2>1, <3>1, <4>1
      <4>2. CASE m # a.of
        BY <2>1, <3>1, <3>3, <4>2
      <4> QED BY <4>1, <4>2
    <3> QED BY <2>1, <3>1, <3>2, <3>4, <3>5, <3>6
  <2>3. CASE a.from # "timer"
    <3>1. scheduled' = scheduled /\ toasts' = toasts
      BY <1>11, <2>3 DEF AckEnds
    <3>2. \A m \in Notices :
              [of |-> m, from |-> "timer"] \in acks' <=> [of |-> m, from |-> "timer"] \in acks
      <4> SUFFICES ASSUME NEW m \in Notices
                   PROVE  a # [of |-> m, from |-> "timer"]
        BY <2>1
      <4>1. [of |-> m, from |-> "timer"].from = "timer"
        OBVIOUS
      <4> QED BY <2>3, <4>1
    <3>3. HomeTypeOK'
      BY <2>1, <3>1
    <3>4. OneToastEach'
      <4> SUFFICES ASSUME NEW m \in Notices
                   PROVE  /\ toasts'[m] = IF m \in scheduled' THEN 1 ELSE 0
                          /\ m \in scheduled' =>
                                (m \in timers') # ([of |-> m, from |-> "timer"] \in acks')
        OBVIOUS
      <4> QED BY <2>1, <3>1, <3>2
    <3>5. \A b \in acks' : b.from = "timer" => b.of \in scheduled'
      BY <2>1, <3>1
    <3> QED BY <2>1, <3>1, <3>3, <3>4, <3>5
  <2> QED BY <2>2, <2>3
<1> QED
  BY <1>1, <1>2, <1>3, <1>4, <1>5, <1>6, <1>7, <1>8, <1>9, <1>10, <1>11 DEF HomeStep
-----------------------------------------------------------------------------
(* The tables                                                              *)

\* The tasks listen to the request for their query alone; the others, as long
\* as answers cannot cross, have no request under way for another query.
ListInv ==
    /\ ListTypeOK
    /\ list = "tasks" => Len(asked) <= 1
    /\ list = "tasks" \/ ~crossed => \A i \in 1..Len(asked) : asked[i].of = query
    /\ list # "tasks" /\ ~crossed => saving \in {None, query}
    /\ RowsAnswerQuery

\* A list has a first page, and may be empty.
LEMMA FirstPage == 1 \in 1..MaxPage /\ 0 \in 0..MaxPage
BY PagesAssumption

\* What is left of a sequence without one of its elements.
LEMMA RemoveAtLeaves ==
    ASSUME NEW s \in Seq(Request), NEW i \in 1..Len(s)
    PROVE  /\ RemoveAt(s, i) \in Seq(Request)
           /\ Len(RemoveAt(s, i)) = Len(s) - 1
           /\ \A j \in 1..Len(RemoveAt(s, i)) :
                 \E k \in 1..Len(s) : RemoveAt(s, i)[j] = s[k]
<1> DEFINE a == SubSeq(s, 1, i - 1)
           b == SubSeq(s, i + 1, Len(s))
<1>1. a \in Seq(Request) /\ Len(a) = i - 1 /\ \A j \in 1..(i - 1) : a[j] = s[j]
  OBVIOUS
<1>2. /\ b \in Seq(Request) /\ Len(b) = Len(s) - i
      /\ \A j \in 1..(Len(s) - i) : b[j] = s[i + j]
  OBVIOUS
<1>3. RemoveAt(s, i) = a \o b
  BY DEF RemoveAt
<1> HIDE DEF a, b
<1>4. /\ a \o b \in Seq(Request)
      /\ Len(a \o b) = Len(a) + Len(b)
      /\ \A j \in 1..(Len(a) + Len(b)) :
            (a \o b)[j] = IF j <= Len(a) THEN a[j] ELSE b[j - Len(a)]
  BY <1>1, <1>2, ConcatProperties
<1>5. Len(s) \in Nat /\ Len(a) + Len(b) = Len(s) - 1
  BY <1>1, <1>2
<1>6. ASSUME NEW j \in 1..(Len(s) - 1)
      PROVE  \E k \in 1..Len(s) : (a \o b)[j] = s[k]
  <2>1. CASE j <= i - 1
    <3>1. (a \o b)[j] = a[j] /\ j \in 1..(i - 1) /\ j \in 1..Len(s)
      BY <1>1, <1>4, <1>5, <2>1
    <3> QED BY <1>1, <3>1
  <2>2. CASE j > i - 1
    <3>1. (a \o b)[j] = b[j - (i - 1)] /\ j - (i - 1) \in 1..(Len(s) - i)
      BY <1>1, <1>4, <1>5, <2>2
    <3>2. b[j - (i - 1)] = s[i + (j - (i - 1))]
      BY <1>2, <3>1
    <3>3. i + (j - (i - 1)) \in 1..Len(s)
      BY <1>5, <3>1
    <3> QED BY <3>1, <3>2, <3>3
  <2> QED BY <1>5, <2>1, <2>2
<1>7. Len(a \o b) = Len(s) - 1
  BY <1>4, <1>5
<1>8. \A j \in 1..Len(a \o b) : \E k \in 1..Len(s) : (a \o b)[j] = s[k]
  BY <1>6, <1>7
<1>9. a \o b \in Seq(Request)
  BY <1>4
<1> QED BY <1>3, <1>7, <1>8, <1>9, Zenon

\* What the list knows once it has asked for a query.
LEMMA AsksForQuery ==
    ASSUME NEW q \in Query, NEW effect \in BOOLEAN, NEW S \in Seq(Request), NEW held,
           query' = q, list' = list, Asks(q, effect, S, held)
    PROVE  /\ asked' \in Seq(Request) /\ asked' # <<>>
           /\ crossed' \in BOOLEAN
           /\ list' = "tasks" => Len(asked') <= 1
           /\ list' = "tasks" \/ ~crossed' =>
                 \A i \in 1..Len(asked') : asked'[i].of = query'
           /\ ~crossed' => held \in {None, query'}
<1> DEFINE r == [of |-> q, effect |-> effect]
           out == Append(Heard(S), r)
<1>1. r \in Request /\ r.of = q
  BY DEF Request
<1>2. Heard(S) \in Seq(Request) /\ (list = "tasks" => Heard(S) = <<>>)
  BY DEF Heard
<1> HIDE DEF r
<1>3. out \in Seq(Request) /\ out # <<>> /\ (list = "tasks" => Len(out) = 1 /\ out[1] = r)
  BY <1>1, <1>2
<1>4. /\ asked' = out
      /\ crossed' = (\/ \E i \in 1..Len(out) : out[i].of # query'
                     \/ held \notin {None, query'})
  BY DEF Asks, r
<1> HIDE DEF out
<1> QED BY <1>1, <1>3, <1>4

\* The list is asked for when its page is mounted.
LEMMA ListStarts == ListInit => ListInv
<1> SUFFICES ASSUME ListInit PROVE ListInv
  OBVIOUS
<1>1. Start \in Sizes /\ "" \in Searches
  BY QueryAssumption
<1>2. query \in Query
  BY <1>1, FirstPage DEF ListInit, Query
<1>3. [of |-> query, effect |-> TRUE] \in Request
  BY <1>2 DEF Request
<1>4. asked = <<[of |-> query, effect |-> TRUE]>>
  BY DEF ListInit
<1>5. asked \in Seq(Request) /\ Len(asked) = 1 /\ asked[1].of = query
  BY <1>3, <1>4
<1>6. ListTypeOK
  <2>1. list \in Lists /\ saving = None /\ crossed = FALSE
    BY DEF ListInit
  <2>2. typed = "" /\ rows = None /\ pages = 0 /\ failed = FALSE
    BY DEF ListInit
  <2>3. asked \in Seq(Request)
    BY <1>5
  <2> QED BY <1>1, <1>2, <2>1, <2>2, <2>3, FirstPage DEF ListTypeOK
<1>7. asked # <<>> /\ saving = None
  BY <1>5 DEF ListInit
<1>8. \A i \in 1..Len(asked) : asked[i].of = query
  BY <1>5
<1> QED BY <1>5, <1>6, <1>7, <1>8 DEF ListInv, RowsAnswerQuery

\* A change of the query is asked for, whatever changed it.
LEMMA ChangeIsAsked ==
    ASSUME ListInv, NEW q \in Query, q # query, NEW S \in Seq(Request), Becomes(q, S),
           UNCHANGED <<list, saving>>,
           typed' \in Searches, rows' \in Query \cup {None}, pages' \in 0..MaxPage,
           failed' \in BOOLEAN
    PROVE  ListInv'
<1>1. query' = q /\ Asks(q, TRUE, S, saving)
  BY DEF Becomes
<1>2. /\ asked' \in Seq(Request) /\ asked' # <<>>
      /\ crossed' \in BOOLEAN
      /\ list' = "tasks" => Len(asked') <= 1
      /\ list' = "tasks" \/ ~crossed' =>
            \A i \in 1..Len(asked') : asked'[i].of = query'
      /\ ~crossed' => saving \in {None, query'}
  BY <1>1, AsksForQuery
<1> QED BY <1>1, <1>2 DEF ListInv, ListTypeOK, RowsAnswerQuery

\* Every step of a table keeps its invariant.
LEMMA ListKeeps == ASSUME ListInv, [ListStep]_listVars PROVE ListInv'
<1>0. /\ list \in Lists /\ typed \in Searches /\ query \in Query
      /\ rows \in Query \cup {None} /\ pages \in 0..MaxPage
      /\ failed \in BOOLEAN /\ asked \in Seq(Request)
      /\ saving \in Query \cup {None} /\ crossed \in BOOLEAN
  BY DEF ListInv, ListTypeOK
<1>1. CASE UNCHANGED listVars
  BY <1>1 DEF listVars, ListInv, ListTypeOK, RowsAnswerQuery
<1>2. ASSUME NEW s \in Searches, Type(s) PROVE ListInv'
  BY <1>2 DEF Type, ListInv, ListTypeOK, RowsAnswerQuery
<1>3. CASE Search
  <2> DEFINE q == [query EXCEPT !.q = typed, !.page = 1]
  <2>1. q \in Query /\ q # query
    BY <1>0, <1>3, FirstPage DEF Search, Query
  <2>2. Becomes(q, asked) /\ UNCHANGED <<list, typed, rows, pages, failed, saving>>
    BY <1>3 DEF Search
  <2> HIDE DEF q
  <2> QED BY <1>0, <2>1, <2>2, ChangeIsAsked
<1>4. ASSUME NEW p \in 1..MaxPage, TurnTo(p) PROVE ListInv'
  <2> DEFINE q == [query EXCEPT !.page = p]
  <2>1. q \in Query /\ q # query
    BY <1>0, <1>4 DEF TurnTo, Query
  <2>2. Becomes(q, asked) /\ UNCHANGED <<list, typed, rows, pages, failed, saving>>
    BY <1>4 DEF TurnTo
  <2> HIDE DEF q
  <2> QED BY <1>0, <2>1, <2>2, ChangeIsAsked
<1>5. ASSUME NEW n \in Sizes, Resize(n) PROVE ListInv'
  <2> DEFINE q == [query EXCEPT !.size = n, !.page = 1]
  <2>1. q \in Query /\ q # query
    BY <1>0, <1>5, FirstPage DEF Resize, Query
  <2>2. Becomes(q, asked) /\ UNCHANGED <<list, typed, rows, pages, failed, saving>>
    BY <1>5 DEF Resize
  <2> HIDE DEF q
  <2> QED BY <1>0, <2>1, <2>2, ChangeIsAsked
<1>6. ASSUME NEW i \in 1..Len(asked), ListAnswer(i) PROVE ListInv'
  <2>1. PICK n \in 0..MaxPage :
            /\ rows' = asked[i].of /\ pages' = n /\ failed' = FALSE
            /\ IF list = "tasks"
               THEN Becomes([query EXCEPT !.page = asked[i].of.page,
                                          !.size = asked[i].of.size], RemoveAt(asked, i))
               ELSE Becomes(IF asked[i].effect /\ asked[i].of.page > (IF n = 0 THEN 1 ELSE n)
                            THEN [query EXCEPT !.page = IF n = 0 THEN 1 ELSE n] ELSE query,
                            RemoveAt(asked, i))
            /\ UNCHANGED <<list, typed, saving>>
    BY <1>6 DEF ListAnswer
  <2>2. asked[i] \in Request /\ asked[i].of \in Query
    <3>1. asked[i] \in Request
      BY <1>0
    <3> QED BY <3>1 DEF Request
  <2>3. /\ RemoveAt(asked, i) \in Seq(Request)
        /\ Len(RemoveAt(asked, i)) = Len(asked) - 1
        /\ \A j \in 1..Len(RemoveAt(asked, i)) :
              \E k \in 1..Len(asked) : RemoveAt(asked, i)[j] = asked[k]
    BY <1>0, RemoveAtLeaves
  <2>4. ASSUME query' = query, asked' = RemoveAt(asked, i), crossed' = crossed
        PROVE  ListInv'
    <3>1. ListTypeOK'
      BY <1>0, <2>1, <2>2, <2>3, <2>4 DEF ListTypeOK
    <3>2. list' = "tasks" => Len(asked') <= 1
      BY <2>1, <2>3, <2>4, <1>0 DEF ListInv
    <3>3. list' = "tasks" \/ ~crossed' => /\ rows' = query'
                                          /\ \A j \in 1..Len(asked') : asked'[j].of = query'
      BY <2>1, <2>3, <2>4 DEF ListInv
    <3>4. list' # "tasks" /\ ~crossed' => saving' \in {None, query'}
      BY <2>1, <2>4 DEF ListInv
    <3> QED BY <3>1, <3>2, <3>3, <3>4 DEF ListInv, RowsAnswerQuery
  <2>5. CASE list = "tasks"
    <3>1. [query EXCEPT !.page = asked[i].of.page, !.size = asked[i].of.size] = query
      <4>1. asked[i].of = query
        BY <2>5 DEF ListInv
      <4> QED BY <1>0, <4>1 DEF Query
    <3> QED BY <2>1, <2>4, <2>5, <3>1 DEF Becomes
  <2>6. CASE list # "tasks"
    <3> DEFINE last == IF n = 0 THEN 1 ELSE n
               q == IF asked[i].effect /\ asked[i].of.page > last
                    THEN [query EXCEPT !.page = last] ELSE query
    <3>1. last \in 1..MaxPage
      BY PagesAssumption
    <3>2. q \in Query
      BY <1>0, <3>1 DEF Query
    <3>3. Becomes(q, RemoveAt(asked, i))
      BY <2>1, <2>6
    <3> HIDE DEF q
    <3>4. CASE q = query
      BY <2>4, <3>3, <3>4 DEF Becomes
    <3>5. CASE q # query
      BY <1>0, <2>1, <2>2, <2>3, <3>2, <3>3, <3>5, ChangeIsAsked
    <3> QED BY <3>4, <3>5
  <2> QED BY <2>5, <2>6
<1>7. ASSUME NEW i \in 1..Len(asked), ListFailure(i) PROVE ListInv'
  <2>1. /\ RemoveAt(asked, i) \in Seq(Request)
        /\ Len(RemoveAt(asked, i)) = Len(asked) - 1
        /\ \A j \in 1..Len(RemoveAt(asked, i)) :
              \E k \in 1..Len(asked) : RemoveAt(asked, i)[j] = asked[k]
    BY <1>0, RemoveAtLeaves
  <2>2. /\ asked' = RemoveAt(asked, i) /\ failed' = TRUE
        /\ rows' \in Query \cup {None} /\ pages' \in 0..MaxPage
        /\ UNCHANGED <<list, typed, query, saving, crossed>>
    BY <1>0, <1>7, FirstPage DEF ListFailure
  <2>3. ListTypeOK'
    BY <1>0, <2>1, <2>2 DEF ListTypeOK
  <2>4. list' = "tasks" => Len(asked') <= 1
    BY <1>0, <2>1, <2>2 DEF ListInv
  <2>5. list' = "tasks" \/ ~crossed' => \A j \in 1..Len(asked') : asked'[j].of = query'
    BY <2>1, <2>2 DEF ListInv
  <2> QED BY <2>2, <2>3, <2>4, <2>5 DEF ListInv, RowsAnswerQuery
<1>8. CASE DialogSends
  BY <1>8 DEF DialogSends, ListInv, ListTypeOK, RowsAnswerQuery
<1>9. CASE DialogSaved
  <2>1. /\ saving' = None /\ saving \in Query /\ query' = query /\ query' \in Query
        /\ UNCHANGED <<list, typed, rows, pages, failed>>
    BY <1>0, <1>9 DEF DialogSaved
  <2>2. /\ asked' \in Seq(Request) /\ asked' # <<>>
        /\ crossed' \in BOOLEAN
        /\ list' = "tasks" => Len(asked') <= 1
        /\ list' = "tasks" \/ ~crossed' =>
              \A i \in 1..Len(asked') : asked'[i].of = query'
    <3>1. CASE list = "tasks"
      <4>1. Asks(query, TRUE, asked, None)
        BY <1>9, <3>1 DEF DialogSaved
      <4> QED BY <1>0, <2>1, <4>1, AsksForQuery
    <3>2. CASE list # "tasks"
      <4>1. Asks(saving, FALSE, asked, None)
        BY <1>9, <3>2 DEF DialogSaved
      <4>2. asked' = Append(asked, [of |-> saving, effect |-> FALSE])
        BY <3>2, <4>1 DEF Asks, Heard
      <4>3. crossed' = (\/ \E i \in 1..Len(asked') : asked'[i].of # query'
                        \/ None \notin {None, query'})
        BY <3>2, <4>1 DEF Asks, Heard
      <4>4. [of |-> saving, effect |-> FALSE] \in Request
        BY <2>1 DEF Request
      <4>5. asked' \in Seq(Request) /\ asked' # <<>>
        BY <1>0, <4>2, <4>4
      <4> QED BY <2>1, <3>2, <4>3, <4>5
    <3> QED BY <3>1, <3>2
  <2> QED BY <1>0, <2>1, <2>2 DEF ListInv, ListTypeOK, RowsAnswerQuery
<1>10. CASE DialogRefused
  BY <1>10 DEF DialogRefused, ListInv, ListTypeOK, RowsAnswerQuery
<1> QED
  BY <1>1, <1>2, <1>3, <1>4, <1>5, <1>6, <1>7, <1>8, <1>9, <1>10 DEF ListStep
-----------------------------------------------------------------------------
(* The page of License Admin                                               *)

\* A change that the server has made and whose answer is still to come.
ChangePending == \E c \in calls : c.made /\ c.what \in Changing

\* One refresh at a time asks for the licences, and what is not listed yet will
\* be asked for: a change is pending, or a refresh has still to ask.
ConsoleInv ==
    /\ ConsoleTypeOK
    /\ \A c, d \in calls : c.id = d.id => c = d
    /\ licenses <= changes /\ \A r \in refreshes : r.since <= changes
    /\ ~overlapped => \A r, q \in refreshes :
                         r.step # "audit" /\ q.step # "audit" => r = q
    /\ ~missed /\ ~overlapped =>
          /\ licenses = changes \/ ChangePending \/ \E r \in refreshes : r.step # "audit"
          /\ \A r \in refreshes : r.step = "licenses" => r.since = changes \/ ChangePending

\* The page starts with a refresh.
LEMMA BegunIsRefresh ==
    ASSUME ConsoleTypeOK, NEW i \in 1..MaxRequests
    PROVE  /\ Begun(i) \in Refresh
           /\ Begun(i).step = "status" /\ Begun(i).since = changes
BY DEF ConsoleTypeOK, Begun, Refresh

LEMMA ConsoleStarts == ConsoleInit => ConsoleInv
<1> SUFFICES ASSUME ConsoleInit PROVE ConsoleInv
  OBVIOUS
<1>1. 0 \in 0..MaxChanges /\ 0 \in 0..MaxRequests /\ 1 \in 1..MaxRequests
  BY ChangesAssumption, RequestsAssumption
<1>2. refreshes = {Begun(1)} /\ calls = {} /\ changes = 0 /\ licenses = 0
  BY DEF ConsoleInit
<1>3. /\ Begun(1) \in Refresh
      /\ Begun(1).step = "status" /\ Begun(1).since = 0
  BY <1>1, <1>2 DEF ConsoleInit, Begun, Refresh
<1>4. ConsoleTypeOK
  BY <1>1, <1>2, <1>3 DEF ConsoleInit, ConsoleTypeOK
<1> QED BY <1>2, <1>3, <1>4 DEF ConsoleInv

\* A page has no more requests under way than it has numbers for them.
LEMMA CallsFewer ==
    ASSUME ConsoleInv, NEW S \in SUBSET calls
    PROVE  Cardinality(S) \in 0..MaxRequests
<1> DEFINE f == [c \in S |-> c.id]
<1>1. f \in Injection(S, 1..MaxRequests)
  <2>1. \A c \in S : c.id \in 1..MaxRequests
    BY DEF ConsoleInv, ConsoleTypeOK, Call
  <2>2. \A c, d \in S : f[c] = f[d] => c = d
    BY DEF ConsoleInv
  <2> QED BY <2>1, <2>2 DEF Injection, IsInjective
<1>2. /\ IsFiniteSet(1..MaxRequests)
      /\ Cardinality(1..MaxRequests) = MaxRequests
  BY RequestsAssumption, FS_Interval
<1>3. IsFiniteSet(S) /\ Cardinality(S) <= MaxRequests
  BY <1>1, <1>2, FS_Injection
<1> QED BY <1>3, RequestsAssumption, FS_CardinalityType

\* A request that is sent takes a number of its own.
LEMMA SendJoins ==
    ASSUME ConsoleInv, NEW what \in Changing \cup {"unlock", "keys", "reveal"},
           SendsCall(what)
    PROVE  /\ calls' \in SUBSET Call
           /\ \A c, d \in calls' : c.id = d.id => c = d
           /\ ChangePending' <=> ChangePending
<1>1. PICK i \in FreeIds : calls' = calls \cup {[id |-> i, what |-> what, made |-> FALSE]}
  BY DEF SendsCall
<1> DEFINE n == [id |-> i, what |-> what, made |-> FALSE]
<1>2. n \in Call /\ n.id = i /\ n.made = FALSE
  BY DEF FreeIds, Call
<1> HIDE DEF n
<1>3. calls' = calls \cup {n}
  BY <1>1 DEF n
<1>4. \A c \in calls : c.id # i
  BY DEF FreeIds
<1> QED BY <1>2, <1>3, <1>4 DEF ConsoleInv, ConsoleTypeOK, ChangePending

\* A request that was answered is followed by a refresh.
LEMMA AnswerRefreshes ==
    ASSUME ConsoleInv, NEW c \in calls, calls' = calls \ {c}, Refreshes(c),
           UNCHANGED <<vaultOpen, changes, adrift, unlocked, licenses, section>>,
           request' \in BOOLEAN, issued' \in BOOLEAN, keyModal' \in BOOLEAN
    PROVE  ConsoleInv'
<1>1. c.id \in 1..MaxRequests
  BY DEF ConsoleInv, ConsoleTypeOK, Call
<1> DEFINE b == Begun(c.id)
<1>2. b \in Refresh /\ b.step = "status" /\ b.since = changes
  BY <1>1, BegunIsRefresh DEF ConsoleInv
<1> HIDE DEF b
<1>3. /\ refreshes' = refreshes \cup {b} /\ missed' = FALSE
      /\ overlapped' = (\E r \in refreshes : r.step # "audit")
  BY DEF Refreshes, b
<1>4. ConsoleTypeOK'
  BY <1>2, <1>3 DEF ConsoleInv, ConsoleTypeOK
<1>5. changes \in Nat
  BY DEF ConsoleInv, ConsoleTypeOK
<1>6. \A r \in refreshes' : r.since <= changes'
  BY <1>2, <1>3, <1>5 DEF ConsoleInv
<1>7. ~overlapped' => \A r \in refreshes' : r.step # "audit" => r = b
  BY <1>3
<1>8. b \in refreshes' /\ b.step # "audit" /\ b.step # "licenses"
  BY <1>2, <1>3
<1>9. (\A x, y \in calls' : x.id = y.id => x = y) /\ licenses' <= changes'
  BY DEF ConsoleInv
<1> QED BY <1>4, <1>6, <1>7, <1>8, <1>9 DEF ConsoleInv

\* So is a step that leaves requests, refreshes and licences alone.
LEMMA ConsoleRests ==
    ASSUME ConsoleInv, vaultOpen' \in BOOLEAN, adrift' \in 0..MaxRequests,
           section' \in {"activate", "keys", "help", "audit"},
           request' \in BOOLEAN, issued' \in BOOLEAN, keyModal' \in BOOLEAN,
           unlocked' = unlocked,
           UNCHANGED <<changes, licenses, calls, refreshes, missed, overlapped>>
    PROVE  ConsoleInv'
BY DEF ConsoleInv, ConsoleTypeOK, ChangePending

\* And one that sends a request.
LEMMA ConsoleSends ==
    ASSUME ConsoleInv, NEW what \in Changing \cup {"unlock", "keys", "reveal"},
           SendsCall(what), issued' \in BOOLEAN,
           UNCHANGED <<vaultOpen, changes, adrift, unlocked, licenses, section, request,
                       keyModal, refreshes, missed, overlapped>>
    PROVE  ConsoleInv'
<1>1. /\ calls' \in SUBSET Call
      /\ \A c, d \in calls' : c.id = d.id => c = d
      /\ ChangePending' <=> ChangePending
  BY SendJoins
<1> QED BY <1>1 DEF ConsoleInv, ConsoleTypeOK

\* A step of refresh r to the next request.
LEMMA GoesOnTo ==
    ASSUME ConsoleInv, NEW r \in refreshes, NEW step \in {"licenses", "audit"},
           GoesOn(r, step)
    PROVE  \E n \in Refresh :
              /\ n.step = step /\ n.since = changes
              /\ refreshes' = (refreshes \ {r}) \cup {n}
<1> DEFINE n == [r EXCEPT !.step = step, !.open = vaultOpen, !.since = changes]
<1>1. n \in Refresh /\ n.step = step /\ n.since = changes
  BY DEF ConsoleInv, ConsoleTypeOK, Refresh
<1>2. refreshes' = (refreshes \ {r}) \cup {n}
  BY DEF GoesOn
<1> HIDE DEF n
<1> QED BY <1>1, <1>2

\* Every step of the page keeps its invariant.
LEMMA ConsoleKeeps == ASSUME ConsoleInv, [ConsoleStep]_consoleVars PROVE ConsoleInv'
<1>0. /\ changes \in 0..MaxChanges /\ MaxChanges \in Nat
      /\ licenses \in 0..MaxChanges /\ adrift \in 0..MaxRequests /\ MaxRequests \in Nat
      /\ vaultOpen \in BOOLEAN /\ request \in BOOLEAN /\ issued \in BOOLEAN
      /\ keyModal \in BOOLEAN /\ unlocked \in BOOLEAN
      /\ section \in {"activate", "keys", "help", "audit"}
  BY ChangesAssumption, RequestsAssumption DEF ConsoleInv, ConsoleTypeOK
<1>1. CASE UNCHANGED consoleVars
  BY <1>0, <1>1, ConsoleRests DEF consoleVars
<1>2. CASE Reload
  <2>1. adrift' \in 0..MaxRequests
    <3>1. {c \in calls : ~c.made /\ c.what \in Changing} \in SUBSET calls
      OBVIOUS
    <3>2. Cardinality({c \in calls : ~c.made /\ c.what \in Changing}) \in 0..MaxRequests
      BY <3>1, CallsFewer
    <3> QED BY <1>0, <1>2, <3>2 DEF Reload
  <2>2. 1 \in 1..MaxRequests
    BY RequestsAssumption
  <2>3. Begun(1) \in Refresh /\ Begun(1).step = "status" /\ Begun(1).since = changes
    BY <2>2, BegunIsRefresh DEF ConsoleInv
  <2>4. /\ refreshes' = {Begun(1)} /\ calls' = {} /\ licenses' = 0
        /\ unlocked' = FALSE /\ section' = "activate"
        /\ request' = FALSE /\ issued' = FALSE /\ keyModal' = FALSE
        /\ missed' = FALSE /\ overlapped' = FALSE /\ UNCHANGED <<vaultOpen, changes>>
    BY <1>2 DEF Reload
  <2>5. ConsoleTypeOK'
    <3>1. 0 \in 0..MaxChanges
      BY <1>0
    <3>2. refreshes' \in SUBSET Refresh
      BY <2>3, <2>4
    <3>3. vaultOpen' = vaultOpen /\ changes' = changes
      BY <2>4
    <3> QED BY <1>0, <2>1, <2>4, <3>1, <3>2, <3>3 DEF ConsoleTypeOK
  <2>6. licenses' <= changes' /\ changes' <= changes'
    BY <1>0, <2>4
  <2>7. /\ \A q \in refreshes' : q.step = "status" /\ q.since = changes'
        /\ \A p, q \in refreshes' : p = q
        /\ \E q \in refreshes' : q.step # "audit"
    BY <2>3, <2>4
  <2> QED BY <2>4, <2>5, <2>6, <2>7 DEF ConsoleInv
<1>3. CASE Restart
  <2>1. /\ vaultOpen' = FALSE /\ adrift' = 0
        /\ UNCHANGED <<changes, unlocked, licenses, section, request, issued, keyModal,
                       calls, refreshes, missed, overlapped>>
    BY <1>3 DEF Restart
  <2>2. adrift' \in 0..MaxRequests
    BY <1>0, <2>1
  <2> QED BY <1>0, <2>1, <2>2, ConsoleRests
<1>4. CASE ServerDoesAdrift
  <2>1. /\ changes < MaxChanges /\ changes' = changes + 1 /\ missed' = TRUE
        /\ adrift > 0 /\ adrift' = adrift - 1
        /\ UNCHANGED <<vaultOpen, unlocked, licenses, section, request, issued,
                       keyModal, calls, refreshes, overlapped>>
    BY <1>4 DEF ServerDoesAdrift
  <2>2. ConsoleTypeOK'
    BY <1>0, <2>1 DEF ConsoleInv, ConsoleTypeOK
  <2>3. \A r \in refreshes : r.since \in Nat
    BY DEF ConsoleInv, ConsoleTypeOK, Refresh
  <2>4. licenses' <= changes' /\ \A r \in refreshes' : r.since <= changes'
    BY <1>0, <2>1, <2>3 DEF ConsoleInv
  <2> QED BY <2>1, <2>2, <2>4 DEF ConsoleInv
<1>5. ASSUME NEW r \in refreshes, StatusArrives(r) PROVE ConsoleInv'
  <2>1. /\ r.step = "status" /\ unlocked' \in BOOLEAN
        /\ UNCHANGED <<vaultOpen, changes, adrift, licenses, section, request, issued,
                       keyModal, calls, overlapped>>
    BY <1>0, <1>5 DEF StatusArrives, ConsoleInv, ConsoleTypeOK, Refresh
  <2>2. CASE unlocked'
    <3>1. GoesOn(r, "licenses") /\ missed' = missed
      BY <1>5, <2>2 DEF StatusArrives
    <3>2. PICK n \in Refresh : /\ n.step = "licenses" /\ n.since = changes
                               /\ refreshes' = (refreshes \ {r}) \cup {n}
      BY <3>1, GoesOnTo
    <3>3. ConsoleTypeOK'
      BY <2>1, <3>1, <3>2 DEF ConsoleInv, ConsoleTypeOK
    <3>4. \A q \in refreshes' : q.since <= changes'
      BY <1>0, <2>1, <3>2 DEF ConsoleInv
    <3>5. ~overlapped' => \A q \in refreshes' : q.step # "audit" => q = n
      BY <2>1, <3>2 DEF ConsoleInv
    <3>6. n \in refreshes' /\ n.step # "audit"
      BY <3>2
    <3> QED BY <2>1, <3>1, <3>2, <3>3, <3>4, <3>5, <3>6 DEF ConsoleInv
  <2>3. CASE ~unlocked'
    <3>1. refreshes' = refreshes \ {r} /\ missed' = TRUE
      BY <1>5, <2>3 DEF StatusArrives
    <3> QED BY <2>1, <3>1 DEF ConsoleInv, ConsoleTypeOK
  <2> QED BY <2>2, <2>3
<1>6. ASSUME NEW r \in refreshes, LicensesArrive(r) PROVE ConsoleInv'
  <2>1. /\ r.step = "licenses" /\ licenses' \in r.since..changes
        /\ UNCHANGED <<vaultOpen, changes, adrift, unlocked, section, request, issued,
                       keyModal, calls, missed, overlapped>>
    BY <1>6 DEF LicensesArrive
  <2>2. PICK n \in Refresh : /\ n.step = "audit" /\ n.since = changes
                             /\ refreshes' = (refreshes \ {r}) \cup {n}
    BY <1>6, GoesOnTo DEF LicensesArrive
  <2>3. r.since \in Nat
    BY DEF ConsoleInv, ConsoleTypeOK, Refresh
  <2>4. licenses' \in 0..MaxChanges /\ licenses' <= changes
    BY <1>0, <2>1, <2>3
  <2>5. ConsoleTypeOK'
    BY <2>1, <2>2, <2>4 DEF ConsoleInv, ConsoleTypeOK
  <2>6. \A q \in refreshes' : q.since <= changes'
    BY <1>0, <2>1, <2>2 DEF ConsoleInv
  <2>7. ASSUME ~missed, ~overlapped
        PROVE  /\ licenses' = changes' \/ ChangePending'
               /\ \A q \in refreshes' : q.step # "licenses"
    <3>1. r.since = changes \/ ChangePending
      BY <2>1, <2>7 DEF ConsoleInv
    <3>2. r.since = changes => licenses' = changes'
      BY <1>0, <2>1, <2>4
    <3>3. ChangePending' <=> ChangePending
      BY <2>1 DEF ChangePending
    <3>4. \A q \in refreshes : q.step = "licenses" => q = r
      BY <2>1, <2>7 DEF ConsoleInv
    <3> QED BY <2>2, <3>1, <3>2, <3>3, <3>4
  <2>8. ~overlapped' => \A p, q \in refreshes' :
                          p.step # "audit" /\ q.step # "audit" => p = q
    BY <2>1, <2>2 DEF ConsoleInv
  <2> QED BY <2>1, <2>4, <2>5, <2>6, <2>7, <2>8 DEF ConsoleInv
<1>7. ASSUME NEW r \in refreshes, AuditArrives(r) PROVE ConsoleInv'
  BY <1>7 DEF AuditArrives, ConsoleInv, ConsoleTypeOK, ChangePending
<1>8. ASSUME NEW r \in refreshes, RefreshFails(r) PROVE ConsoleInv'
  <2>1. /\ refreshes' = refreshes \ {r}
        /\ missed' = (missed \/ r.step # "audit")
        /\ UNCHANGED <<vaultOpen, changes, adrift, unlocked, licenses, section, request,
                       issued, keyModal, calls, overlapped>>
    BY <1>8 DEF RefreshFails
  <2>2. ConsoleTypeOK'
    BY <2>1 DEF ConsoleInv, ConsoleTypeOK
  <2>3. ChangePending' <=> ChangePending
    BY <2>1 DEF ChangePending
  <2> QED BY <2>1, <2>2, <2>3 DEF ConsoleInv
<1>9. CASE \/ EnterRequest \/ CloseKey
           \/ \E s \in {"activate", "keys", "help", "audit"} : SetSection(s)
  BY <1>0, <1>9, ConsoleRests DEF EnterRequest, CloseKey, SetSection
<1>10. CASE Unlock
  <2>1. /\ SendsCall("unlock") /\ issued' \in BOOLEAN
        /\ UNCHANGED <<vaultOpen, changes, adrift, unlocked, licenses, section, request,
                       keyModal, refreshes, missed, overlapped>>
    BY <1>0, <1>10 DEF Unlock
  <2> QED BY <2>1, ConsoleSends
<1>11. CASE IssueCode
  BY <1>11, ConsoleSends DEF IssueCode, Changing
<1>12. ASSUME NEW what \in {"create", "revoke", "deallocate", "reveal"}, Manage(what)
       PROVE  ConsoleInv'
  <2>1. /\ SendsCall(what) /\ issued' \in BOOLEAN
        /\ what \in Changing \cup {"unlock", "keys", "reveal"}
        /\ UNCHANGED <<vaultOpen, changes, adrift, unlocked, licenses, section, request,
                       keyModal, refreshes, missed, overlapped>>
    BY <1>0, <1>12 DEF Manage, Changing
  <2> QED BY <2>1, ConsoleSends
<1>13. ASSUME NEW c \in calls, ServerDoes(c) PROVE ConsoleInv'
  <2> DEFINE d == [c EXCEPT !.made = TRUE]
  <2>1. d \in Call /\ d.id = c.id /\ d.made /\ d.what = c.what
    BY DEF ConsoleInv, ConsoleTypeOK, Call
  <2>2. calls' = (calls \ {c}) \cup {d}
    BY <1>13 DEF ServerDoes
  <2> HIDE DEF d
  <2>3. /\ ~c.made /\ vaultOpen' = TRUE
        /\ UNCHANGED <<adrift, unlocked, licenses, section, request, issued, keyModal,
                       refreshes, missed, overlapped>>
    BY <1>13 DEF ServerDoes
  <2>4. changes' \in 0..MaxChanges /\ changes <= changes'
    BY <1>0, <1>13 DEF ServerDoes
  <2>5. c.what \notin Changing => changes' = changes
    BY <1>13 DEF ServerDoes
  <2>6. (c.what \in Changing => ChangePending') /\ (ChangePending => ChangePending')
    BY <2>1, <2>2, <2>3 DEF ChangePending
  <2>7. ConsoleTypeOK'
    BY <2>1, <2>2, <2>3, <2>4 DEF ConsoleInv, ConsoleTypeOK
  <2>8. \A x, y \in calls' : x.id = y.id => x = y
    BY <2>1, <2>2 DEF ConsoleInv
  <2>9. \A r \in refreshes : r.since \in Nat
    BY DEF ConsoleInv, ConsoleTypeOK, Refresh
  <2>10. licenses' <= changes' /\ \A r \in refreshes' : r.since <= changes'
    BY <1>0, <2>3, <2>4, <2>9 DEF ConsoleInv
  <2> QED BY <2>3, <2>5, <2>6, <2>7, <2>8, <2>10 DEF ConsoleInv
<1>14. ASSUME NEW c \in calls, Unlocked(c) PROVE ConsoleInv'
  <2> DEFINE d == [id |-> c.id, what |-> "keys", made |-> FALSE]
  <2>1. d \in Call /\ d.id = c.id /\ ~d.made
    BY DEF ConsoleInv, ConsoleTypeOK, Call
  <2>2. calls' = (calls \ {c}) \cup {d}
    BY <1>14 DEF Unlocked
  <2> HIDE DEF d
  <2>3. /\ c.what \notin Changing
        /\ UNCHANGED <<vaultOpen, changes, adrift, unlocked, licenses, section, request,
                       issued, keyModal, refreshes, missed, overlapped>>
    BY <1>14 DEF Unlocked, Changing
  <2>4. ChangePending' <=> ChangePending
    BY <2>1, <2>2, <2>3 DEF ChangePending
  <2>5. ConsoleTypeOK'
    BY <2>1, <2>2, <2>3 DEF ConsoleInv, ConsoleTypeOK
  <2>6. \A x, y \in calls' : x.id = y.id => x = y
    BY <2>1, <2>2 DEF ConsoleInv
  <2> QED BY <2>3, <2>4, <2>5, <2>6 DEF ConsoleInv
<1>15. ASSUME NEW c \in calls, KeyCreated(c) \/ Issued(c) \/ Done(c) PROVE ConsoleInv'
  <2>1. calls' = calls \ {c} /\ Refreshes(c)
    BY <1>15 DEF KeyCreated, Issued, Done
  <2>2. /\ UNCHANGED <<vaultOpen, changes, adrift, unlocked, licenses, section>>
        /\ request' \in BOOLEAN /\ issued' \in BOOLEAN /\ keyModal' \in BOOLEAN
    BY <1>0, <1>15 DEF KeyCreated, Issued, Done
  <2> QED BY <2>1, <2>2, AnswerRefreshes
<1>16. ASSUME NEW c \in calls, Revealed(c) PROVE ConsoleInv'
  <2>1. /\ calls' = calls \ {c} /\ keyModal' = TRUE /\ c.what \notin Changing
        /\ UNCHANGED <<vaultOpen, changes, adrift, unlocked, licenses, section, request,
                       issued, refreshes, missed, overlapped>>
    BY <1>16 DEF Revealed, Changing
  <2>2. ChangePending' <=> ChangePending
    BY <2>1 DEF ChangePending
  <2>3. ConsoleTypeOK'
    BY <2>1 DEF ConsoleInv, ConsoleTypeOK
  <2> QED BY <2>1, <2>2, <2>3 DEF ConsoleInv
<1>17. ASSUME NEW c \in calls, CallFails(c) PROVE ConsoleInv'
  <2>1. /\ calls' = calls \ {c}
        /\ missed' = (missed \/ (c.made /\ c.what \in Changing))
        /\ UNCHANGED <<vaultOpen, changes, adrift, unlocked, licenses, section, request,
                       issued, keyModal, refreshes, overlapped>>
    BY <1>17 DEF CallFails
  <2>2. ~missed' => (ChangePending' <=> ChangePending)
    BY <2>1 DEF ChangePending
  <2>3. ConsoleTypeOK'
    BY <2>1 DEF ConsoleInv, ConsoleTypeOK
  <2> QED BY <2>1, <2>2, <2>3 DEF ConsoleInv
<1>18. CASE ConsoleStep
  BY <1>2, <1>3, <1>4, <1>5, <1>6, <1>7, <1>8, <1>9, <1>10, <1>11, <1>12, <1>13, <1>14,
     <1>15, <1>16, <1>17, <1>18 DEF ConsoleStep
<1> QED BY <1>1, <1>18

\* What the invariant says of the list on show.
LEMMA ConsolePromise == ConsoleInv => ListFresh
BY DEF ConsoleInv, ListFresh, ChangePending

-----------------------------------------------------------------------------
(* All screens together                                                    *)

\* The invariants of the screens.
ScreensInv ==
    /\ screen \in Screen
    /\ ListInv /\ HomeInv /\ TaskInv /\ ManualInv /\ PolicyInv /\ CardInv
    /\ ClientFormInv /\ CompanyInv /\ UsersInv /\ RightsInv /\ ConsoleInv

\* The screen that was opened makes one of its steps, the others none.
LEMMA EachScreenSteps ==
    ASSUME [ScreensNext]_screensVars
    PROVE  /\ screen' = screen
           /\ [ListStep]_listVars /\ [HomeStep]_homeVars /\ [TaskStep]_taskVars
           /\ [ManualStep]_manualVars /\ [PolicyStep]_policyVars /\ [CardStep]_cardVars
           /\ [ClientFormStep]_clientFormVars /\ [CompanyStep]_companyVars
           /\ [UsersStep]_userVars /\ [RightsStep]_rightsVars /\ [ConsoleStep]_consoleVars
<1>1. CASE UNCHANGED screensVars
  BY <1>1 DEF screensVars
<1>2. CASE ScreensNext
  BY <1>2 DEF ScreensNext, OthersRest, Rests
<1> QED BY <1>1, <1>2

\* The invariants hold at the start and in every step.
THEOREM ScreensStrong == ScreensSpec => []ScreensInv
<1>1. ScreensInit => ScreensInv
  BY ListStarts, HomeStarts, TaskStarts, ManualStarts, PolicyStarts, CardStarts,
     ClientFormStarts, CompanyStarts, UsersStart, RightsStart, ConsoleStarts
     DEF ScreensInit, ScreensInv
<1>2. ScreensInv /\ [ScreensNext]_screensVars => ScreensInv'
  <2> SUFFICES ASSUME ScreensInv, [ScreensNext]_screensVars PROVE ScreensInv'
    OBVIOUS
  <2>1. ListInv' /\ HomeInv' /\ TaskInv' /\ ManualInv'
    BY EachScreenSteps, ListKeeps, HomeKeeps, TaskKeeps, ManualKeeps DEF ScreensInv
  <2>2. PolicyInv' /\ CardInv' /\ ClientFormInv' /\ CompanyInv'
    BY EachScreenSteps, PolicyKeeps, CardKeeps, ClientFormKeeps, CompanyKeeps DEF ScreensInv
  <2>3. UsersInv' /\ RightsInv' /\ ConsoleInv'
    BY EachScreenSteps, UsersKeep, RightsKeep, ConsoleKeeps DEF ScreensInv
  <2>4. screen' \in Screen
    BY EachScreenSteps DEF ScreensInv
  <2> QED BY <2>1, <2>2, <2>3, <2>4 DEF ScreensInv
<1> QED BY <1>1, <1>2, PTL DEF ScreensSpec

\* Every variable of every screen has its type; for one, the pages a table turns
\* to exist, and a page of License Admin leaves behind no more changes than it
\* could send.
THEOREM ScreensTypes == ScreensSpec => []TypeOK
<1>1. ScreensInv => TypeOK
  BY DEF ScreensInv, TypeOK, ListInv, HomeInv, TaskInv, ManualInv, PolicyInv, CardInv,
         ClientFormInv, CompanyInv, UsersInv, RightsInv, ConsoleInv
<1> QED BY <1>1, ScreensStrong, PTL

\* A table at rest shows the rows of the query beside it (the tasks always, the
\* other lists unless answers to two queries may have crossed).
THEOREM TablesAnswer == ScreensSpec => []RowsAnswerQuery
<1>1. ScreensInv => RowsAnswerQuery
  BY DEF ScreensInv, ListInv
<1> QED BY <1>1, ScreensStrong, PTL

\* A notice has one toast, and either its timer or its acknowledgement takes it
\* away, however loads overlap and the page is left.
THEOREM ToastsAreSingle == ScreensSpec => []OneToastEach
<1>1. ScreensInv => OneToastEach
  BY DEF ScreensInv, HomeInv
<1> QED BY <1>1, ScreensStrong, PTL

\* No dialog sends what was entered or loaded for something else.
THEOREM DialogsForget == ScreensSpec => []NothingLeftOver
<1>1. ScreensInv => NothingLeftOver
  BY TaskPromise DEF ScreensInv, NothingLeftOver, ManualInv, ManualNothingLeft,
                     ClientFormInv, UsersInv
<1> QED BY <1>1, ScreensStrong, PTL

\* The products on offer are those of the company that is shown, unless an
\* answer for another one may still come.
THEOREM OffersMatch == ScreensSpec => []ProductsFit
<1>1. ScreensInv => ProductsFit
  BY PolicyPromise, CompanyPromise DEF ScreensInv, ProductsFit
<1> QED BY <1>1, ScreensStrong, PTL

\* Policies on show were read after every edit that was reported as saved.
THEOREM CardMatches == ScreensSpec => []CardFits
<1>1. ScreensInv => CardFits
  BY CardPromise DEF ScreensInv
<1> QED BY <1>1, ScreensStrong, PTL

\* The switches at rest are the rights of the role they are shown for, unless a
\* role was chosen while the last save was out.
THEOREM RightsMatch == ScreensSpec => []RightsFit
<1>1. ScreensInv => RightsFit
  BY RightsPromise DEF ScreensInv
<1> QED BY <1>1, ScreensStrong, PTL

\* The console at rest lists the licences as the server has them, unless a
\* refresh failed, the answer to a change was lost, or refreshes overlapped.
THEOREM ConsoleIsFresh == ScreensSpec => []ListFresh
<1>1. ScreensInv => ListFresh
  BY ConsolePromise DEF ScreensInv
<1> QED BY <1>1, ScreensStrong, PTL
==============================================================================
