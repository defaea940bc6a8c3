----------------------------- MODULE LicenseCache -----------------------------
(***************************************************************************)
(* The licence file under concurrent requests.                             *)
(*                                                                         *)
(* The gate runs on the event loop, /license/... in the thread pool and    *)
(* the hourly jobs in the scheduler's thread, all on one LicenseGuard and  *)
(* one license_cache.json, without a lock.  A field is saved by reading    *)
(* the whole file, changing it and writing it back; write_text empties the *)
(* file and then fills it, and what cannot be parsed is read as {}.        *)
(*                                                                         *)
(* A thread works through a list of steps, each one access to the file.    *)
(* There is one computer; codes fit the key they were issued for.          *)
(***************************************************************************)
EXTENDS Naturals, Sequences, FiniteSets

CONSTANTS
    Keys,
    None,
    Torn,           \* a file that cannot be parsed
    Threads,
    MaxRequests     \* bound on the number of requests

VARIABLES
    file,       \* the content of license_cache.json, or Torn
    todo,       \* todo[t]: the steps that thread t still has to take
    data,       \* data[t]: the content thread t is about to write
    begun,      \* how many requests have begun
    licensed    \* history: the key whose activation was answered, if nobody has
                \* asked since to remove it or to enter another one

vars == <<file, todo, data, begun, licensed>>

\* The fields that are not None are those the JSON object has.
Empty == [key |-> None, code |-> None, used |-> None]
Content == [key : Keys \cup {None}, code : Keys \cup {None}, used : {None, "yes"}]

Init ==
    /\ file = Empty
    /\ todo = [t \in Threads |-> << >>]
    /\ data = [t \in Threads |-> Empty]
    /\ begun = 0
    /\ licensed = None

-----------------------------------------------------------------------------
(* Steps                                                                   *)

Step(op, field, value) == [op |-> op, field |-> field, value |-> value]

Save(field, value) ==
    <<Step("read", field, value), Step("truncate", field, value), Step("fill", field, value)>>

AskSteps == <<Step("ask_key", None, None)>>

Parsed == IF file = Torn THEN Empty ELSE file

Fields(c) == {f \in DOMAIN c : c[f] # None}

\* The steps a thread takes next once it has read the file.  Without a key the
\* demo's own file decides; a code that fits is remembered in this one.
Following(s) ==
    CASE s.op = "ask_key" /\ Parsed.key # None ->
            <<Step("ask_code", None, Parsed.key)>>
      [] s.op = "ask_code" /\ Parsed.code = s.value ->
            Save("used", "yes")
      [] s.op = "set_key" ->
            (IF Parsed.key # s.value THEN Save("code", None) ELSE << >>)
                \o Save("key", s.value)
      [] s.op = "redeem" /\ Parsed.key = s.value ->
            Save("code", s.value) \o Save("used", "yes")
                \o <<Step("answer", None, s.value)>> \o AskSteps
      [] s.op = "clear" ->
            Save("key", None) \o Save("code", None)
      [] OTHER -> << >>

Now(t) == Head(todo[t])

Looks(t) ==
    /\ Now(t).op \in {"ask_key", "ask_code", "set_key", "redeem", "clear"}
    /\ todo' = [todo EXCEPT ![t] = Following(Now(t)) \o Tail(@)]
    /\ UNCHANGED <<file, data, licensed>>

ReadsAll(t) ==
    /\ Now(t).op = "read"
    /\ data' = [data EXCEPT ![t] = [Parsed EXCEPT ![Now(t).field] = Now(t).value]]
    /\ todo' = [todo EXCEPT ![t] = Tail(@)]
    /\ UNCHANGED <<file, licensed>>

Truncates(t) ==
    /\ Now(t).op = "truncate"
    /\ file' = Torn
    /\ todo' = [todo EXCEPT ![t] = Tail(@)]
    /\ UNCHANGED <<data, licensed>>

\* What another thread has filled in since remains behind a shorter content.
Fills(t) ==
    /\ Now(t).op = "fill"
    /\ file' = IF file # Torn /\ ~(Fields(file) \subseteq Fields(data[t]))
                 THEN Torn ELSE data[t]
    /\ todo' = [todo EXCEPT ![t] = Tail(@)]
    /\ UNCHANGED <<data, licensed>>

\* The client is told that the computer is activated.
Answers(t) ==
    /\ Now(t).op = "answer"
    /\ licensed' = Now(t).value
    /\ todo' = [todo EXCEPT ![t] = Tail(@)]
    /\ UNCHANGED <<file, data>>

-----------------------------------------------------------------------------
(* Requests                                                                *)

Begin(t, steps) ==
    /\ todo[t] = << >>
    /\ begun < MaxRequests
    /\ begun' = begun + 1
    /\ todo' = [todo EXCEPT ![t] = steps]
    /\ UNCHANGED <<file, data>>

Ask(t) ==
    /\ Begin(t, AskSteps)
    /\ UNCHANGED licensed

Activate(t, k) ==
    /\ Begin(t, AskSteps \o <<Step("set_key", None, k)>> \o AskSteps)
    /\ licensed' = IF licensed = k THEN k ELSE None

Redeem(t, k) ==
    /\ Begin(t, <<Step("redeem", None, k)>>)
    /\ UNCHANGED licensed

Deactivate(t) ==
    /\ Parsed.key # None
    /\ Begin(t, AskSteps \o <<Step("clear", None, None)>> \o AskSteps)
    /\ licensed' = None

Works(t) ==
    /\ todo[t] # << >>
    /\ Looks(t) \/ ReadsAll(t) \/ Truncates(t) \/ Fills(t) \/ Answers(t)
    /\ UNCHANGED begun

Next ==
    \E t \in Threads :
        \/ Ask(t)
        \/ \E k \in Keys : Activate(t, k) \/ Redeem(t, k)
        \/ Deactivate(t)
        \/ Works(t)

Spec == Init /\ [][Next]_vars

-----------------------------------------------------------------------------
(* Safety                                                                  *)

\* A computer that was activated is still activated when no request is under
\* way, unless a user has asked to remove the key or entered another one.
ActivationKept ==
    licensed # None /\ (\A t \in Threads : todo[t] = << >>) =>
        /\ file # Torn
        /\ file.key = licensed
        /\ file.code = licensed

=============================================================================
