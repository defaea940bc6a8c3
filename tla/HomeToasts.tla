----------------------------- MODULE HomeToasts ------------------------------
(***************************************************************************)
(* The home page and its notices (HomePage): the page loads the unread     *)
(* notices, shows each as a toast for some seconds and then acknowledges   *)
(* it.  Leaving the page acknowledges the toasts on show at once.          *)
(*                                                                         *)
(* A load may be answered after the page was left: the first one is then   *)
(* ignored, one that a dialog asked for is not, and starts the timers of   *)
(* toasts that nobody sees.                                                *)
(***************************************************************************)
EXTENDS Dialogs, Naturals, FiniteSets

CONSTANTS
    Notices,
    MaxLoads        \* bound: loads under way

ASSUME NoticesAssumption == IsFiniteSet(Notices)
ASSUME LoadsAssumption == MaxLoads \in Nat \ {0}

VARIABLES
    unread,     \* the server: notices that exist and are not acknowledged
    home,       \* is the page open?
    loads,      \* loads under way
    toasts,     \* per notice, how many toasts are on show
    scheduled,  \* the page's set of notices taken care of
    timers,     \* notices with a timer running, of this page
    ghosts,     \* the same of pages that were left
    acks        \* acknowledgements under way

homeVars == <<unread, home, loads, toasts, scheduled, timers, ghosts, acks>>

\* `got': the notices the server answered with; `spared': those that a page
\* that was left will not schedule again.
Load == [id : 1..MaxLoads, first : BOOLEAN, live : BOOLEAN,
         answered : BOOLEAN, got : SUBSET Notices, spared : SUBSET Notices]

\* `from': sent by a timer of this page, of one that was left, or on leaving
Ack == [of : Notices, from : {"timer", "ghost", "leaving"}]

HomeTypeOK ==
    /\ unread \in SUBSET Notices
    /\ home \in BOOLEAN
    /\ loads \in SUBSET Load
    /\ toasts \in [Notices -> Nat]
    /\ scheduled \in SUBSET Notices
    /\ timers \in SUBSET Notices
    /\ ghosts \in SUBSET Notices
    /\ acks \in SUBSET Ack

OnShow == {n \in Notices : toasts[n] > 0}

FreeLoad == {i \in 1..MaxLoads : \A l \in loads : l.id # i}

StartsLoad(first) ==
    \E i \in FreeLoad :
        /\ \A j \in FreeLoad : i <= j
        /\ loads' = loads \cup {[id |-> i, first |-> first, live |-> TRUE,
                                 answered |-> FALSE, got |-> {}, spared |-> {}]}

HomeInit ==
    /\ unread \in SUBSET Notices
    /\ home = FALSE
    /\ loads = {}
    /\ toasts = [n \in Notices |-> 0]
    /\ scheduled = {} /\ timers = {} /\ ghosts = {}
    /\ acks = {}

-----------------------------------------------------------------------------
\* (Bound: a notice is used anew once nothing is left of it.)
NoticeComes(n) ==
    /\ n \notin unread
    /\ \A l \in loads : n \notin l.got \cup l.spared
    /\ toasts[n] = 0 /\ n \notin ghosts /\ \A a \in acks : a.of # n
    /\ unread' = unread \cup {n}
    /\ UNCHANGED <<home, loads, toasts, scheduled, timers, ghosts, acks>>

OpenHome ==
    /\ ~home
    /\ home' = TRUE
    /\ StartsLoad(TRUE)
    /\ UNCHANGED <<unread, toasts, scheduled, timers, ghosts, acks>>

\* A task or a policy was saved in a dialog of the page.
ReloadHome ==
    /\ home
    /\ StartsLoad(FALSE)
    /\ UNCHANGED <<unread, home, toasts, scheduled, timers, ghosts, acks>>

\* The page stops the timers and acknowledges all it shows; it forgets what
\* was scheduled, but the loads it leaves behind do not.
LeaveHome ==
    /\ home
    /\ home' = FALSE
    /\ loads' = {[l EXCEPT !.live = FALSE,
                           !.spared = IF l.live THEN timers ELSE @] : l \in loads}
    /\ toasts' = [n \in Notices |-> 0]
    /\ scheduled' = {} /\ timers' = {}
    /\ acks' = {IF a.from = "timer" THEN [a EXCEPT !.from = "ghost"] ELSE a : a \in acks}
               \cup {[of |-> n, from |-> "leaving"] : n \in OnShow}
    /\ UNCHANGED <<unread, ghosts>>

ServerAnswers(l) ==
    /\ ~l.answered
    /\ loads' = (loads \ {l}) \cup {[l EXCEPT !.answered = TRUE, !.got = unread]}
    /\ UNCHANGED <<unread, home, toasts, scheduled, timers, ghosts, acks>>

\* scheduleNotificationToasts on the page that is open
Schedules(new) ==
    /\ scheduled' = scheduled \cup new
    /\ timers' = timers \cup new
    /\ toasts' = [n \in Notices |-> toasts[n] + IF n \in new THEN 1 ELSE 0]
    /\ UNCHANGED ghosts

\* The same on a page that was left: only the timers are real.
SchedulesUnseen(new) ==
    /\ ghosts' = ghosts \cup new
    /\ UNCHANGED <<scheduled, timers, toasts>>

\* Faulty: a notice that is on show already is scheduled again.
LoadArrivesAgain(l) ==
    /\ l.answered
    /\ loads' = loads \ {l}
    /\ IF l.live THEN Schedules(l.got) ELSE Schedules({})
    /\ UNCHANGED <<unread, home, acks>>

LoadArrives(l) ==
    /\ l.answered
    /\ loads' = loads \ {l}
    /\ \/ l.live /\ Schedules(l.got \ scheduled)
       \/ ~l.live /\ l.first /\ Schedules({})
       \/ ~l.live /\ ~l.first
          /\ SchedulesUnseen(l.got \ (l.spared \cup
                                      {a.of : a \in {b \in acks : b.from = "ghost"}}))
    /\ UNCHANGED <<unread, home, acks>>

LoadFails(l) ==
    /\ loads' = loads \ {l}
    /\ UNCHANGED <<unread, home, toasts, scheduled, timers, ghosts, acks>>

\* The time of a toast is over.
TimerEnds(n) ==
    /\ n \in timers
    /\ timers' = timers \ {n}
    /\ acks' = acks \cup {[of |-> n, from |-> "timer"]}
    /\ UNCHANGED <<unread, home, loads, toasts, scheduled, ghosts>>

GhostEnds(n) ==
    /\ n \in ghosts
    /\ ghosts' = ghosts \ {n}
    /\ acks' = acks \cup {[of |-> n, from |-> "ghost"]}
    /\ UNCHANGED <<unread, home, loads, toasts, scheduled, timers>>

\* Faulty: a notice that could not be acknowledged stays on show.
AckEndsIfTaken(a) ==
    /\ acks' = acks \ {a}
    /\ unread' \in {unread, unread \ {a.of}}
    /\ IF a.from = "timer" /\ a.of \notin unread'
       THEN /\ scheduled' = scheduled \ {a.of}
            /\ toasts' = [toasts EXCEPT ![a.of] = 0]
       ELSE UNCHANGED <<scheduled, toasts>>
    /\ UNCHANGED <<home, loads, timers, ghosts>>

\* Acknowledged or not, the toast goes; if not, a later load shows it again.
AckEnds(a) ==
    /\ acks' = acks \ {a}
    /\ unread' \in {unread, unread \ {a.of}}
    /\ IF a.from = "timer"
       THEN /\ scheduled' = scheduled \ {a.of}
            /\ toasts' = [toasts EXCEPT ![a.of] = 0]
       ELSE UNCHANGED <<scheduled, toasts>>
    /\ UNCHANGED <<home, loads, timers, ghosts>>

HomeStep ==
    \/ \E n \in Notices : NoticeComes(n) \/ TimerEnds(n) \/ GhostEnds(n)
    \/ OpenHome \/ ReloadHome \/ LeaveHome
    \/ \E l \in loads : ServerAnswers(l) \/ LoadArrives(l) \/ LoadFails(l)
    \/ \E a \in acks : AckEnds(a)

\* Timers end, and requests are answered or given up.
HomeFairness ==
    /\ \A n \in Notices : WF_homeVars(TimerEnds(n)) /\ WF_homeVars(GhostEnds(n))
    /\ \A n \in Notices : WF_homeVars(\E a \in acks : a.of = n /\ AckEnds(a))

HomeSpec == HomeInit /\ [][HomeStep]_homeVars /\ HomeFairness

-----------------------------------------------------------------------------
\* A notice has one toast at a time, and it is on show exactly while the page
\* knows it as scheduled: a toast cannot stay for good because its timer or its
\* acknowledgement belongs to another.  (Loads overlap, toasts go and come back,
\* and the page may be left at any moment.)
OneToastEach ==
    \A n \in Notices :
        /\ toasts[n] = IF n \in scheduled THEN 1 ELSE 0
        /\ n \in scheduled =>
              (n \in timers) # ([of |-> n, from |-> "timer"] \in acks)

\* Every toast goes.
ToastsGo == \A n \in Notices : n \in OnShow ~> n \notin OnShow
==============================================================================
