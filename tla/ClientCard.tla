----------------------------- MODULE ClientCard ------------------------------
(***************************************************************************)
(* The dialogs over the list of clients that show a client's policies      *)
(* (ClientDetailsModal), one policy (PolicyDetailsModal) and the form that *)
(* edits it (ClientsPage).  Both dialogs label what they have loaded with  *)
(* the key it was asked for, show it only under that key, and no longer    *)
(* listen to a request once the key has changed.                           *)
(*                                                                         *)
(* An edit is reported after it is committed.  This is an assumption about *)
(* FastAPI: get_db commits when the dependency is left, which must be      *)
(* before the answer is sent.  Where it is after it, a card that is loaded *)
(* again at once may still read the policies from before the edit.         *)
(***************************************************************************)
EXTENDS Dialogs, Naturals

CONSTANTS
    Cards,          \* clients with a card
    CardPages,      \* pages of a client's policies
    Policies,
    MaxEdits        \* bound: edits of a policy

ASSUME CardAssumption == None \notin Cards \cup Policies
ASSUME CardPagesAssumption == CardPages \in Nat \ {0} /\ MaxEdits \in Nat

VARIABLES
    version,    \* the server: edits of policies so far
    saved,      \* history: edits whose success was reported
    nonce,      \* policyReloadNonce
    card,       \* client whose card is open
    cardPage,   \* page of its policies
    cardShown,  \* what was loaded last, with its key
    cardAsk,    \* the request still listened to
    details,    \* policy whose details are open
    detailsShown,
    detailsAsk,
    editing,    \* policy in the edit form
    patches     \* edits under way: not yet and already made by the server

cardVars == <<version, saved, nonce, card, cardPage, cardShown, cardAsk, details,
              detailsShown, detailsAsk, editing, patches>>

CardKey == [of : Cards, nonce : 0..MaxEdits, page : 1..CardPages]

PolicyKey == [of : Policies, nonce : 0..MaxEdits]

\* A key and the state of the policies it came with, or was asked in
Versioned(K) == [key : K, version : 0..MaxEdits]

ASSUME NoneIsNoAnswer == None \notin Versioned(CardKey) \cup Versioned(PolicyKey)

CardTypeOK ==
    /\ version \in 0..MaxEdits /\ saved \in 0..MaxEdits /\ nonce \in 0..MaxEdits
    /\ card \in Cards \cup {None}
    /\ cardPage \in 1..CardPages
    /\ cardShown \in Versioned(CardKey) \cup {None}
    /\ cardAsk \in Versioned(CardKey) \cup {None}
    /\ details \in Policies \cup {None}
    /\ detailsShown \in Versioned(PolicyKey) \cup {None}
    /\ detailsAsk \in Versioned(PolicyKey) \cup {None}
    /\ editing \in Policies \cup {None}
    /\ patches \in [sent : 0..MaxEdits, made : 0..MaxEdits]

\* requestKey of each dialog, while it is open
KeyOfCard(c, n, p) == [of |-> c, nonce |-> n, page |-> p]

KeyOfPolicy(d, n) == [of |-> d, nonce |-> n]

\* The effect of a new key; the one before it is cancelled.
AskFor(key) == [key |-> key, version |-> version]

CardInit ==
    /\ version = 0 /\ saved = 0 /\ nonce = 0
    /\ card = None /\ cardPage = 1 /\ cardShown = None /\ cardAsk = None
    /\ details = None /\ detailsShown = None /\ detailsAsk = None
    /\ editing = None
    /\ patches = [sent |-> 0, made |-> 0]

\* Each client has a card of its own (its key): it is mounted anew.
OpenCard(c) ==
    /\ card = None
    /\ card' = c
    /\ cardPage' = 1
    /\ cardShown' = None
    /\ cardAsk' = AskFor(KeyOfCard(c, nonce, 1))
    /\ UNCHANGED <<version, saved, nonce, details, detailsShown, detailsAsk, editing, patches>>

\* Escape would close the dialogs above it too; each has its own step here.
CloseCard ==
    /\ card # None
    /\ card' = None
    /\ cardAsk' = None
    /\ UNCHANGED <<version, saved, nonce, cardPage, cardShown, details, detailsShown,
                   detailsAsk, editing, patches>>

TurnCard(p) ==
    /\ card # None
    /\ p # cardPage
    /\ cardPage' = p
    /\ cardAsk' = AskFor(KeyOfCard(card, nonce, p))
    /\ UNCHANGED <<version, saved, nonce, card, cardShown, details, detailsShown,
                   detailsAsk, editing, patches>>

\* The server read the policies at some moment since the request was sent.
CardArrives ==
    /\ cardAsk # None
    /\ \E v \in cardAsk.version..version :
          cardShown' = [key |-> cardAsk.key, version |-> v]
    /\ cardAsk' = None
    /\ UNCHANGED <<version, saved, nonce, card, cardPage, details, detailsShown,
                   detailsAsk, editing, patches>>

\* An error is shown under the key, and no policies.
CardFails ==
    /\ cardAsk # None
    /\ cardShown' = None
    /\ cardAsk' = None
    /\ UNCHANGED <<version, saved, nonce, card, cardPage, details, detailsShown,
                   detailsAsk, editing, patches>>

\* The policies that can be clicked in the card
CardVisible == card # None /\ cardShown # None
               /\ cardShown.key = KeyOfCard(card, nonce, cardPage)

OpenDetails(d) ==
    /\ CardVisible
    /\ details = None
    /\ details' = d
    /\ detailsAsk' = AskFor(KeyOfPolicy(d, nonce))
    /\ UNCHANGED <<version, saved, nonce, card, cardPage, cardShown, cardAsk,
                   detailsShown, editing, patches>>

CloseDetails ==
    /\ details # None
    /\ details' = None
    /\ detailsAsk' = None
    /\ UNCHANGED <<version, saved, nonce, card, cardPage, cardShown, cardAsk,
                   detailsShown, editing, patches>>

DetailsArrive ==
    /\ detailsAsk # None
    /\ \E v \in detailsAsk.version..version :
          detailsShown' = [key |-> detailsAsk.key, version |-> v]
    /\ detailsAsk' = None
    /\ UNCHANGED <<version, saved, nonce, card, cardPage, cardShown, cardAsk, details,
                   editing, patches>>

DetailsFail ==
    /\ detailsAsk # None
    /\ detailsShown' = None
    /\ detailsAsk' = None
    /\ UNCHANGED <<version, saved, nonce, card, cardPage, cardShown, cardAsk, details,
                   editing, patches>>

DetailsVisible == details # None /\ detailsShown # None
                  /\ detailsShown.key = KeyOfPolicy(details, nonce)

\* The details give way to the form.
EditPolicy ==
    /\ DetailsVisible
    /\ details' = None
    /\ detailsAsk' = None
    /\ editing' = details
    /\ UNCHANGED <<version, saved, nonce, card, cardPage, cardShown, cardAsk,
                   detailsShown, patches>>

CloseEdit ==
    /\ editing # None
    /\ editing' = None
    /\ UNCHANGED <<version, saved, nonce, card, cardPage, cardShown, cardAsk, details,
                   detailsShown, detailsAsk, patches>>

SendPatch ==
    /\ editing # None
    /\ version + patches.sent < MaxEdits
    /\ patches' = [patches EXCEPT !.sent = @ + 1]
    /\ UNCHANGED <<version, saved, nonce, card, cardPage, cardShown, cardAsk, details,
                   detailsShown, detailsAsk, editing>>

ServerEdits ==
    /\ patches.sent > 0
    /\ patches' = [sent |-> patches.sent - 1, made |-> patches.made + 1]
    /\ version' = version + 1
    /\ UNCHANGED <<saved, nonce, card, cardPage, cardShown, cardAsk, details,
                   detailsShown, detailsAsk, editing>>

\* Faulty: nothing is loaded again.
PatchUnnoticed ==
    /\ patches.made > 0
    /\ patches' = [patches EXCEPT !.made = @ - 1]
    /\ saved' = saved + 1
    /\ editing' = None
    /\ UNCHANGED <<version, nonce, card, cardPage, cardShown, cardAsk, details,
                   detailsShown, detailsAsk>>

\* The form closes, whichever policy it is for, and the new nonce has both
\* dialogs load again.
PatchReported ==
    /\ patches.made > 0
    /\ patches' = [patches EXCEPT !.made = @ - 1]
    /\ saved' = saved + 1
    /\ nonce' = nonce + 1
    /\ editing' = None
    /\ cardAsk' = IF card = None THEN None ELSE AskFor(KeyOfCard(card, nonce', cardPage))
    /\ detailsAsk' = IF details = None THEN None ELSE AskFor(KeyOfPolicy(details, nonce'))
    /\ UNCHANGED <<version, card, cardPage, cardShown, details, detailsShown>>

\* The edit was refused, or it was made and the answer is lost.
PatchFails ==
    /\ \/ patches.sent > 0 /\ patches' = [patches EXCEPT !.sent = @ - 1]
       \/ patches.made > 0 /\ patches' = [patches EXCEPT !.made = @ - 1]
    /\ UNCHANGED <<version, saved, nonce, card, cardPage, cardShown, cardAsk, details,
                   detailsShown, detailsAsk, editing>>

CardStep ==
    \/ \E c \in Cards : OpenCard(c)
    \/ \E p \in 1..CardPages : TurnCard(p)
    \/ \E d \in Policies : OpenDetails(d)
    \/ CloseCard \/ CardArrives \/ CardFails
    \/ CloseDetails \/ DetailsArrive \/ DetailsFail
    \/ EditPolicy \/ CloseEdit \/ SendPatch \/ ServerEdits \/ PatchReported \/ PatchFails

-----------------------------------------------------------------------------
\* Policies that are on show were read after every edit reported as saved: in
\* the card and in the details, whatever was closed, opened again or answered
\* in between.
CardFits ==
    /\ CardVisible => cardShown.version >= saved
    /\ DetailsVisible => detailsShown.version >= saved
==============================================================================
