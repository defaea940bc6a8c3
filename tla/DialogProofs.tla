----------------------------- MODULE DialogProofs ------------------------------
(***************************************************************************)
(* What each dialog and form promises, as an inductive invariant of its    *)
(* own: it holds at the start, and every step of the component, or of      *)
(* another one, keeps it.  ScreensProofs puts them together.               *)
(***************************************************************************)
EXTENDS TaskDialog, ManualTaskDialog, PolicyDialog, ClientCard, ClientForm,
        CompanyDialogs, UserForms, RoleRights, FiniteSetTheorems, TLAPS

-----------------------------------------------------------------------------
(* The dialog of a renewal task                                            *)

\* While a task is open its inputs are of this opening; a decision that is under
\* way is the only one and holds `busy'.
TaskInv ==
    /\ TaskTypeOK
    /\ task # None => \A f \in Fields : fields[f] # "before"
    /\ \A p \in posts : p.text # "before" /\ p.date # "before"
    /\ \A p \in posts : p.way \in Decisions => busy
    /\ \A p, q \in posts : p.way \in Decisions /\ q.way \in Decisions => p = q

\* The dialog starts with nothing entered and nothing sent.
LEMMA TaskStarts == TaskInit => TaskInv
BY DEF TaskInit, TaskInv, TaskTypeOK, Blank, Inputs, Views, Decisions

\* Ageing an input leaves an input.
LEMMA AgedIsInput == \A i \in Inputs : Aged(i) \in Inputs
BY DEF Aged, Inputs

\* Every step of the dialog keeps its invariant: answers close whichever task
\* is open, and only the answer to the decision lifts `busy'.
LEMMA TaskKeeps == ASSUME TaskInv, [TaskStep]_taskVars PROVE TaskInv'
<1> USE DEF TaskInv, TaskTypeOK
<1>1. CASE UNCHANGED taskVars
  BY <1>1 DEF taskVars
<1>2. ASSUME NEW t \in Tasks, OpenTask(t) PROVE TaskInv'
  BY <1>2, TasksAssumption DEF OpenTask, ResetFields, Blank, Inputs, Views
<1>3. CASE CloseTask
  BY <1>3, AgedIsInput DEF CloseTask, Closes
<1>4. ASSUME NEW v \in Views, ShowView(v) PROVE TaskInv'
  BY <1>4 DEF ShowView
<1>5. ASSUME NEW f \in Fields, Fill(f) PROVE TaskInv'
  BY <1>5 DEF Fill, Inputs
<1>6. ASSUME NEW v \in Views, SubmitPostpone(v) PROVE TaskInv'
  <2> DEFINE p == [for |-> task, way |-> v, text |-> fields[v], date |-> fields["date"]]
  <2>1. /\ task # None /\ ~busy /\ v \in Decisions /\ v \in Fields
        /\ posts' = posts \cup {p} /\ busy' = TRUE
        /\ UNCHANGED <<task, renewed, mayEdit, view, fields>>
    BY <1>6 DEF SubmitPostpone, Sends, Decisions, Fields
  <2>2. p \in Post
    BY <2>1 DEF Post, Fields
  <2>3. p.text # "before" /\ p.date # "before"
    BY <2>1 DEF Fields
  <2> HIDE DEF p
  <2>4. \A q \in posts : q.way \notin Decisions
    BY <2>1
  <2> QED BY <2>1, <2>2, <2>3, <2>4
<1>7. CASE SubmitDecline
  <2> DEFINE p == [for |-> task, way |-> "decline", text |-> fields["decline"], date |-> "blank"]
  <2>1. /\ task # None /\ ~busy
        /\ posts' = posts \cup {p} /\ busy' = TRUE
        /\ UNCHANGED <<task, renewed, mayEdit, view, fields>>
    BY <1>7 DEF SubmitDecline, Sends
  <2>2. p \in Post
    BY <2>1 DEF Post, Fields, Decisions, Inputs
  <2>3. p.text # "before" /\ p.date # "before"
    BY <2>1 DEF Fields
  <2> HIDE DEF p
  <2>4. \A q \in posts : q.way \notin Decisions
    BY <2>1
  <2> QED BY <2>1, <2>2, <2>3, <2>4
<1>8. CASE SubmitPolicy
  <2> DEFINE p == [for |-> task, way |-> "policy", text |-> "now", date |-> "now"]
  <2>1. /\ task # None
        /\ posts' = posts \cup {p}
        /\ UNCHANGED <<task, renewed, mayEdit, view, fields, busy>>
    BY <1>8 DEF SubmitPolicy, Sends
  <2>2. p \in Post /\ p.way \notin Decisions /\ p.text # "before" /\ p.date # "before"
    BY <2>1 DEF Post, Fields, Decisions, Inputs
  <2> HIDE DEF p
  <2> QED BY <2>1, <2>2
<1>9. ASSUME NEW p \in posts, PostSaved(p) PROVE TaskInv'
  <2>1. posts' = posts \ {p} /\ busy' = (busy /\ p.way = "policy")
    BY <1>9 DEF PostSaved
  <2>2. \A q \in posts' : q.way \in Decisions => busy'
    BY <2>1 DEF Post
  <2>3. /\ task' = None /\ fields' = [f \in Fields |-> Aged(fields[f])]
        /\ UNCHANGED <<renewed, mayEdit, view>>
    BY <1>9 DEF PostSaved, Closes
  <2> QED BY <2>1, <2>2, <2>3, AgedIsInput
<1>10. ASSUME NEW p \in posts, PostRefused(p) PROVE TaskInv'
  <2>1. /\ posts' = posts \ {p} /\ busy' = (busy /\ p.way = "policy")
        /\ UNCHANGED <<task, renewed, mayEdit, view, fields>>
    BY <1>10 DEF PostRefused
  <2>2. \A q \in posts' : q.way \in Decisions => busy'
    BY <2>1 DEF Post
  <2> QED BY <2>1, <2>2
<1> QED
  BY <1>1, <1>2, <1>3, <1>4, <1>5, <1>6, <1>7, <1>8, <1>9, <1>10 DEF TaskStep

\* The invariant says what is promised of the dialog.
LEMMA TaskPromise == TaskInv => TaskNothingLeft
<1> SUFFICES ASSUME TaskInv PROVE TaskNothingLeft
  OBVIOUS
<1> DEFINE D == {p \in posts : p.way \in Decisions}
<1>1. Cardinality(D) <= 1
  <2>1. CASE D = {}
    BY <2>1, FS_EmptySet
  <2>2. CASE D # {}
    <3>1. PICK p \in D : TRUE
      BY <2>2
    <3>2. D = {p}
      BY <3>1 DEF TaskInv
    <3>3. Cardinality({p}) = 1
      BY FS_Singleton
    <3> QED BY <3>2, <3>3
  <2> QED BY <2>1, <2>2
<1> QED BY <1>1 DEF TaskInv, TaskNothingLeft

-----------------------------------------------------------------------------
(* The dialog that makes a task by hand                                    *)

\* While the dialog is open what is picked was picked in this opening, and so
\* was what any request carries.
ManualInv ==
    /\ ManualTypeOK
    /\ open => picked # "before"
    /\ \A c \in creates : c.picked # "before"

\* The dialog starts closed, with nothing picked.
LEMMA ManualStarts == ManualInit => ManualInv
BY TextsAssumption DEF ManualInit, ManualInv, ManualTypeOK, Inputs

\* A request that is sent joins the others with what it carries.
LEMMA CreateJoins ==
    ASSUME NEW way \in {"new", "existing"}, NEW p \in Inputs, SendsCreate(way, p),
           ManualTypeOK
    PROVE  \E c \in Create : c.picked = p /\ creates' = creates \cup {c}
<1>1. PICK i \in FreeCreate :
          creates' = creates \cup {[id |-> i, way |-> way, picked |-> p]}
  BY DEF SendsCreate
<1>2. [id |-> i, way |-> way, picked |-> p] \in Create
  BY <1>1 DEF Create, FreeCreate
<1> QED BY <1>1, <1>2

\* Every step of the dialog keeps its invariant.
LEMMA ManualKeeps == ASSUME ManualInv, [ManualStep]_manualVars PROVE ManualInv'
<1> USE DEF ManualInv, ManualTypeOK
<1>1. CASE UNCHANGED manualVars
  BY <1>1 DEF manualVars
<1>2. CASE OpenManual
  BY <1>2, TextsAssumption DEF OpenManual, Inputs
<1>3. CASE CloseManual
  BY <1>3, AgedIsInput DEF CloseManual, ClosesManual
<1>4. ASSUME NEW m \in {"new", "existing"}, SetMode(m) PROVE ManualInv'
  BY <1>4 DEF SetMode
<1>5. ASSUME NEW t \in Texts, SearchPolicies(t) PROVE ManualInv'
  BY <1>5 DEF SearchPolicies
<1>6. CASE LoadPolicies
  BY <1>6 DEF LoadPolicies
<1>7. CASE PickPolicy
  BY <1>7 DEF PickPolicy, Inputs
<1>8. CASE SubmitExisting
  <2>1. /\ picked # "before" /\ SendsCreate("existing", picked)
        /\ creating' = TRUE
        /\ UNCHANGED <<open, mode, search, due, searches, options, picked>>
    BY <1>8 DEF SubmitExisting
  <2>2. PICK c \in Create : c.picked = picked /\ creates' = creates \cup {c}
    BY <2>1, CreateJoins
  <2> QED BY <2>1, <2>2
<1>9. CASE SubmitNew
  <2>1. /\ SendsCreate("new", "blank")
        /\ UNCHANGED <<open, mode, search, due, searches, options, picked, creating>>
    BY <1>9 DEF SubmitNew
  <2>2. PICK c \in Create : c.picked = "blank" /\ creates' = creates \cup {c}
    BY <2>1, CreateJoins DEF Inputs
  <2> QED BY <2>1, <2>2
<1>10. ASSUME NEW t \in searches, PoliciesFound(t) \/ PoliciesNotFound(t) PROVE ManualInv'
  BY <1>10 DEF PoliciesFound, PoliciesNotFound
<1>11. ASSUME NEW c \in creates, Created(c) PROVE ManualInv'
  BY <1>11, AgedIsInput DEF Created, ClosesManual, Create
<1>12. ASSUME NEW c \in creates, NotCreated(c) PROVE ManualInv'
  BY <1>12 DEF NotCreated, Create
<1> QED
  BY <1>1, <1>2, <1>3, <1>4, <1>5, <1>6, <1>7, <1>8, <1>9, <1>10, <1>11, <1>12 DEF ManualStep

-----------------------------------------------------------------------------
(* The form of a policy                                                    *)

\* Unless two companies were mixed, all that is asked for, on offer or chosen
\* is of the company chosen.
PolicyInv ==
    /\ PolicyTypeOK
    /\ company # None /\ ~mixed =>
          /\ productAsks \subseteq {company}
          /\ {product, products} \subseteq {company, None}

\* No form is there at the start.
LEMMA PolicyStarts == PolicyInit => PolicyInv
BY DEF PolicyInit, PolicyInv, PolicyTypeOK

\* A policy that is sent joins the others.
LEMMA PolicyPostJoins ==
    ASSUME PolicyTypeOK, SendsPolicy
    PROVE  policyPosts' \in SUBSET PolicyPost
<1>1. CASE UNCHANGED policyPosts
  BY <1>1 DEF PolicyTypeOK
<1>2. ASSUME NEW i \in FreePost,
             policyPosts' = policyPosts \cup
                 {[id |-> i, new |-> form = "new", client |-> client,
                   company |-> company, product |-> product]}
      PROVE  policyPosts' \in SUBSET PolicyPost
  <2>1. [id |-> i, new |-> form = "new", client |-> client,
         company |-> company, product |-> product] \in PolicyPost
    BY DEF PolicyPost, FreePost, PolicyTypeOK
  <2> QED BY <1>2, <2>1 DEF PolicyTypeOK
<1> QED BY <1>1, <1>2 DEF SendsPolicy

\* Every step of the form keeps its invariant.
LEMMA PolicyKeeps == ASSUME PolicyInv, [PolicyStep]_policyVars PROVE PolicyInv'
<1> USE DEF PolicyInv, PolicyTypeOK
<1>1. CASE UNCHANGED policyVars
  BY <1>1 DEF policyVars
<1>2. ASSUME NEW c \in Clients \cup {None}, NEW f \in {"new", "edit"}, OpenPolicyForm(f, c)
      PROVE  PolicyInv'
  BY <1>2 DEF OpenPolicyForm
<1>3. CASE ClosePolicyForm
  BY <1>3 DEF ClosePolicyForm, ClosesForm, Unmounted
<1>4. CASE PolicyLoaded
  <2>1. PICK cl \in Clients, co \in Companies :
            /\ client' = cl /\ company' = co /\ product' = co
            /\ AsksProducts(co, products)
    BY <1>4 DEF PolicyLoaded
  <2>2. /\ loadingPolicy' = FALSE
        /\ UNCHANGED <<form, products, newClient, policyPosts>>
    BY <1>4 DEF PolicyLoaded
  <2>3. co # None
    BY PolicyAssumption
  <2>4. CASE co = company
    BY <2>1, <2>2, <2>3, <2>4 DEF AsksProducts
  <2>5. CASE co # company
    BY <2>1, <2>2, <2>3, <2>5 DEF AsksProducts
  <2> QED BY <2>4, <2>5
<1>5. CASE PolicyNotLoaded
  BY <1>5 DEF PolicyNotLoaded
<1>6. ASSUME NEW c \in Clients \cup {None}, ChooseClient(c) PROVE PolicyInv'
  BY <1>6 DEF ChooseClient
<1>7. ASSUME NEW c \in Companies \cup {None}, ChooseCompany(c) PROVE PolicyInv'
  BY <1>7 DEF ChooseCompany, AsksProducts
<1>8. CASE ChooseProduct
  BY <1>8 DEF ChooseProduct
<1>9. ASSUME NEW c \in productAsks, ProductsArrive(c) \/ ProductsFail(c) PROVE PolicyInv'
  BY <1>9 DEF ProductsArrive, ProductsFail
<1>10. CASE SubmitPolicyForm
  BY <1>10, PolicyPostJoins DEF SubmitPolicyForm
<1>11. CASE OpenNewClient
  BY <1>11 DEF OpenNewClient
<1>12. CASE CloseNewClient
  BY <1>12 DEF CloseNewClient
<1>13. CASE SubmitNewClient
  BY <1>13, PolicyPostJoins DEF SubmitNewClient
<1>14. ASSUME NEW p \in policyPosts, PolicySaved(p) PROVE PolicyInv'
  <2>1. CASE form = (IF p.new THEN "new" ELSE "edit")
    BY <1>14, <2>1 DEF PolicySaved, ClosesForm, Unmounted
  <2>2. CASE form # (IF p.new THEN "new" ELSE "edit")
    BY <1>14, <2>2 DEF PolicySaved
  <2> QED BY <2>1, <2>2
<1>15. ASSUME NEW p \in policyPosts, PolicyRefused(p) PROVE PolicyInv'
  BY <1>15 DEF PolicyRefused
<1>16. ASSUME NEW c \in Clients, NewClientCreated(c) PROVE PolicyInv'
  BY <1>16 DEF NewClientCreated
<1>17. CASE NewClientRefused
  BY <1>17 DEF NewClientRefused
<1> QED
  BY <1>1, <1>2, <1>3, <1>4, <1>5, <1>6, <1>7, <1>8, <1>9, <1>10, <1>11, <1>12, <1>13,
     <1>14, <1>15, <1>16, <1>17 DEF PolicyStep

\* The invariant says what is promised of the form.
LEMMA PolicyPromise == PolicyInv => FormProductsFit
BY DEF PolicyInv, FormProductsFit

-----------------------------------------------------------------------------
(* The card of a client and the details of a policy                        *)

\* An answer or a request labelled with the nonce of now is as new as the last
\* edit that was reported.
AsNew(a) ==
    /\ a.key.nonce <= nonce
    /\ a.version <= version
    /\ a.key.nonce = nonce => a.version >= saved

\* Edits are reported after they were made, and each one changes the nonce.
CardInv ==
    /\ CardTypeOK
    /\ nonce = saved
    /\ saved + patches.made <= version
    /\ version + patches.sent <= MaxEdits
    /\ \A a \in {cardShown, cardAsk, detailsShown, detailsAsk} \ {None} : AsNew(a)

\* Nothing is loaded at the start.
LEMMA CardStarts == CardInit => CardInv
BY CardPagesAssumption DEF CardInit, CardInv, CardTypeOK

\* What is asked for now is as new as can be.
LEMMA CardAsked ==
    ASSUME CardInv, NEW c \in Cards, NEW p \in 1..CardPages
    PROVE  /\ AskFor(KeyOfCard(c, nonce, p)) \in Versioned(CardKey)
           /\ AskFor(KeyOfCard(c, nonce, p)) # None
           /\ AsNew(AskFor(KeyOfCard(c, nonce, p)))
BY NoneIsNoAnswer, CardPagesAssumption
   DEF CardInv, CardTypeOK, AskFor, KeyOfCard, Versioned, CardKey, AsNew

\* The same of the details.
LEMMA DetailsAsked ==
    ASSUME CardInv, NEW d \in Policies
    PROVE  /\ AskFor(KeyOfPolicy(d, nonce)) \in Versioned(PolicyKey)
           /\ AskFor(KeyOfPolicy(d, nonce)) # None
           /\ AsNew(AskFor(KeyOfPolicy(d, nonce)))
BY NoneIsNoAnswer, CardPagesAssumption
   DEF CardInv, CardTypeOK, AskFor, KeyOfPolicy, Versioned, PolicyKey, AsNew

\* An answer is no older than its request.
LEMMA CardAnswered ==
    ASSUME CardInv, NEW K, NEW a \in Versioned(K), AsNew(a), NEW v \in a.version..version
    PROVE  /\ [key |-> a.key, version |-> v] \in Versioned(K)
           /\ AsNew([key |-> a.key, version |-> v])
BY CardPagesAssumption DEF CardInv, CardTypeOK, Versioned, AsNew

\* Every step of the dialogs keeps their invariant.
LEMMA CardKeeps == ASSUME CardInv, [CardStep]_cardVars PROVE CardInv'
<1> USE CardAssumption, CardPagesAssumption DEF CardInv, CardTypeOK
<1>1. CASE UNCHANGED cardVars
  BY <1>1 DEF cardVars, AsNew
<1>2. ASSUME NEW c \in Cards, OpenCard(c) PROVE CardInv'
  <2>1. 1 \in 1..CardPages
    OBVIOUS
  <2> QED BY <1>2, <2>1, CardAsked DEF OpenCard, AsNew
<1>3. ASSUME NEW p \in 1..CardPages, TurnCard(p) PROVE CardInv'
  <2>1. card \in Cards
    BY <1>3 DEF TurnCard
  <2> QED BY <1>3, <2>1, CardAsked DEF TurnCard, AsNew
<1>4. ASSUME NEW d \in Policies, OpenDetails(d) PROVE CardInv'
  BY <1>4, DetailsAsked DEF OpenDetails, AsNew
<1>5. CASE CloseCard
  BY <1>5 DEF CloseCard, AsNew
<1>6. CASE CardArrives
  <2>1. PICK v \in cardAsk.version..version :
            cardShown' = [key |-> cardAsk.key, version |-> v]
    BY <1>6 DEF CardArrives
  <2>2. cardAsk \in Versioned(CardKey) /\ AsNew(cardAsk)
    BY <1>6 DEF CardArrives
  <2>3. cardShown' \in Versioned(CardKey) /\ AsNew(cardShown')
    BY <2>1, <2>2, CardAnswered
  <2> QED BY <1>6, <2>3 DEF CardArrives, AsNew
<1>7. CASE CardFails
  BY <1>7 DEF CardFails, AsNew
<1>8. CASE CloseDetails
  BY <1>8 DEF CloseDetails, AsNew
<1>9. CASE DetailsArrive
  <2>1. PICK v \in detailsAsk.version..version :
            detailsShown' = [key |-> detailsAsk.key, version |-> v]
    BY <1>9 DEF DetailsArrive
  <2>2. detailsAsk \in Versioned(PolicyKey) /\ AsNew(detailsAsk)
    BY <1>9 DEF DetailsArrive
  <2>3. detailsShown' \in Versioned(PolicyKey) /\ AsNew(detailsShown')
    BY <2>1, <2>2, CardAnswered
  <2> QED BY <1>9, <2>3 DEF DetailsArrive, AsNew
<1>10. CASE DetailsFail
  BY <1>10 DEF DetailsFail, AsNew
<1>11. CASE EditPolicy
  BY <1>11 DEF EditPolicy, DetailsVisible, AsNew
<1>12. CASE CloseEdit
  BY <1>12 DEF CloseEdit, AsNew
<1>13. CASE SendPatch
  BY <1>13 DEF SendPatch, AsNew
<1>14. CASE ServerEdits
  <2>1. version' = version + 1 /\ version' \in 0..MaxEdits
    BY <1>14 DEF ServerEdits
  <2>2. \A a : AsNew(a) /\ a.version \in Int => AsNew(a)'
    BY <1>14, <2>1 DEF ServerEdits, AsNew
  <2>3. \A a \in {cardShown, cardAsk, detailsShown, detailsAsk} \ {None} : a.version \in Int
    BY DEF Versioned
  <2> QED BY <1>14, <2>1, <2>2, <2>3 DEF ServerEdits
<1>15. CASE PatchReported
  <2>1. /\ saved' = saved + 1 /\ nonce' = nonce + 1 /\ nonce' \in 0..MaxEdits
        /\ saved' <= version
        /\ patches' = [patches EXCEPT !.made = @ - 1]
        /\ editing' = None
        /\ UNCHANGED <<version, card, cardPage, cardShown, details, detailsShown>>
    BY <1>15 DEF PatchReported
  <2>2. \A a : AsNew(a) /\ a.key.nonce \in Int => AsNew(a)'
    BY <2>1 DEF AsNew
  <2>3. \A a \in {cardShown, detailsShown} \ {None} : a.key.nonce \in Int
    BY DEF Versioned, CardKey, PolicyKey
  <2>4. /\ cardAsk' \in Versioned(CardKey) \cup {None}
        /\ cardAsk' # None => AsNew(cardAsk)'
    <3>1. CASE card = None
      BY <1>15, <3>1 DEF PatchReported
    <3>2. CASE card # None
      <4>1. cardAsk' = AskFor(KeyOfCard(card, nonce', cardPage)) /\ card \in Cards
        BY <1>15, <3>2 DEF PatchReported
      <4>2. cardAsk' = [key |-> [of |-> card, nonce |-> nonce', page |-> cardPage],
                        version |-> version]
        BY <4>1 DEF AskFor, KeyOfCard
      <4>3. cardAsk' \in Versioned(CardKey)
        BY <2>1, <4>1, <4>2 DEF Versioned, CardKey
      <4>4. AsNew(cardAsk)'
        BY <2>1, <4>2 DEF AsNew
      <4> QED BY <4>3, <4>4
    <3> QED BY <3>1, <3>2
  <2>5. /\ detailsAsk' \in Versioned(PolicyKey) \cup {None}
        /\ detailsAsk' # None => AsNew(detailsAsk)'
    <3>1. CASE details = None
      BY <1>15, <3>1 DEF PatchReported
    <3>2. CASE details # None
      <4>1. detailsAsk' = AskFor(KeyOfPolicy(details, nonce')) /\ details \in Policies
        BY <1>15, <3>2 DEF PatchReported
      <4>2. detailsAsk' = [key |-> [of |-> details, nonce |-> nonce'], version |-> version]
        BY <4>1 DEF AskFor, KeyOfPolicy
      <4>3. detailsAsk' \in Versioned(PolicyKey)
        BY <2>1, <4>1, <4>2 DEF Versioned, PolicyKey
      <4>4. AsNew(detailsAsk)'
        BY <2>1, <4>2 DEF AsNew
      <4> QED BY <4>3, <4>4
    <3> QED BY <3>1, <3>2
  <2>6. CardTypeOK' /\ nonce' = saved' /\ (saved + patches.made <= version)'
        /\ (version + patches.sent <= MaxEdits)'
    BY <1>15, <2>1, <2>4, <2>5 DEF PatchReported
  <2>7. \A a \in {cardShown', detailsShown'} \ {None} : AsNew(a)'
    BY <2>1, <2>2, <2>3
  <2> QED BY <2>4, <2>5, <2>6, <2>7
<1>16. CASE PatchFails
  BY <1>16 DEF PatchFails, AsNew
<1> QED
  BY <1>1, <1>2, <1>3, <1>4, <1>5, <1>6, <1>7, <1>8, <1>9, <1>10, <1>11, <1>12, <1>13,
     <1>14, <1>15, <1>16 DEF CardStep

\* The invariant says what is promised of the dialogs.
LEMMA CardPromise == CardInv => CardFits
BY DEF CardInv, CardFits, CardVisible, DetailsVisible, KeyOfCard, KeyOfPolicy, AsNew

-----------------------------------------------------------------------------
(* The form of a client                                                    *)

\* The fields are those of the client edited, or empty for a new one.
ClientFormInv ==
    /\ ClientFormTypeOK
    /\ person = editingId /\ documents = editingId
    /\ ClientNothingLeft

\* The form starts empty.
LEMMA ClientFormStarts == ClientFormInit => ClientFormInv
BY DEF ClientFormInit, ClientFormInv, ClientFormTypeOK, ClientNothingLeft

\* Every step of the form keeps its invariant.
LEMMA ClientFormKeeps ==
    ASSUME ClientFormInv, [ClientFormStep]_clientFormVars PROVE ClientFormInv'
<1> USE DEF ClientFormInv, ClientFormTypeOK, ClientNothingLeft
<1>1. CASE UNCHANGED clientFormVars
  BY <1>1 DEF clientFormVars
<1>2. CASE OpenCreate
  BY <1>2 DEF OpenCreate, ResetForm
<1>3. ASSUME NEW c \in Persons, OpenEdit(c) PROVE ClientFormInv'
  BY <1>3 DEF OpenEdit
<1>4. CASE CloseClientForm
  BY <1>4 DEF CloseClientForm, CloseModal, ResetForm
<1>5. CASE SubmitClient
  <2> DEFINE s == [of |-> editingId, person |-> person, documents |-> documents]
  <2>1. s \in Save /\ s.person = s.of /\ s.documents = s.of
    BY DEF Save
  <2>2. saves' = saves \cup {s} /\ UNCHANGED <<shown, editingId, person, documents>>
    BY <1>5 DEF SubmitClient
  <2> HIDE DEF s
  <2> QED BY <2>1, <2>2
<1>6. ASSUME NEW s \in saves, ClientSaved(s) PROVE ClientFormInv'
  BY <1>6 DEF ClientSaved, CloseModal, ResetForm
<1>7. ASSUME NEW s \in saves, ClientNotSaved(s) PROVE ClientFormInv'
  BY <1>7 DEF ClientNotSaved
<1> QED BY <1>1, <1>2, <1>3, <1>4, <1>5, <1>6, <1>7 DEF ClientFormStep

-----------------------------------------------------------------------------
(* The dialogs of the companies                                            *)

\* Unless answers about two companies may cross, the dialog asks for products of
\* its own company only, and has them, none, or is about to get them.
CompanyInv ==
    /\ CompanyTypeOK
    /\ insurer # None /\ ~overtaken =>
          /\ \A a \in catalogAsks : a.of = insurer
          /\ \/ catalog \in {insurer, None}
             \/ [of |-> insurer, refresh |-> FALSE] \in catalogAsks

\* No dialog is open at the start.
LEMMA CompanyStarts == CompanyInit => CompanyInv
BY DEF CompanyInit, CompanyInv, CompanyTypeOK

\* An ask for products joins the others.
LEMMA AskJoins ==
    ASSUME CompanyTypeOK, NEW c \in Insurers, NEW in, NEW refresh \in BOOLEAN,
           AsksCatalog(c, in, refresh)
    PROVE  /\ catalogAsks' \in SUBSET CatalogAsk
           /\ [of |-> c, refresh |-> refresh] \in catalogAsks'
           /\ catalogAsks \subseteq catalogAsks'
           /\ overtaken' \in BOOLEAN
           /\ ~overtaken' => \A a \in catalogAsks' : a.of = in
           /\ refresh /\ ~overtaken' => ~overtaken
BY DEF AsksCatalog, CatalogAsk, CompanyTypeOK

\* Every step of the dialogs keeps their invariant.
LEMMA CompanyKeeps == ASSUME CompanyInv, [CompanyStep]_companyVars PROVE CompanyInv'
<1> USE InsurersAssumption DEF CompanyInv, CompanyTypeOK
<1>1. CASE UNCHANGED companyVars
  BY <1>1 DEF companyVars
<1>2. ASSUME NEW c \in Insurers, OpenCompany(c) PROVE CompanyInv'
  BY <1>2, AskJoins DEF OpenCompany
<1>3. ASSUME NEW c \in Insurers, AskArchive(c) PROVE CompanyInv'
  BY <1>3 DEF AskArchive
<1>4. CASE CloseCompany
  BY <1>4 DEF CloseCompany
<1>5. CASE StartEditProduct
  BY <1>5 DEF StartEditProduct
<1>6. CASE ResetProductForm
  BY <1>6 DEF ResetProductForm
<1>7. CASE SubmitProduct
  BY <1>7 DEF SubmitProduct
<1>8. ASSUME NEW a \in catalogAsks, CatalogArrives(a) PROVE CompanyInv'
  <2>1. a.of \in Insurers
    BY DEF CatalogAsk
  <2> QED BY <1>8, <2>1 DEF CatalogArrives
<1>9. ASSUME NEW a \in catalogAsks, CatalogFails(a) PROVE CompanyInv'
  <2>1. a.refresh \in BOOLEAN /\ a = [of |-> a.of, refresh |-> a.refresh]
    BY DEF CatalogAsk
  <2>2. CASE a.refresh
    <3>1. a # [of |-> insurer, refresh |-> FALSE]
      BY <2>2
    <3> QED BY <1>9, <2>2, <3>1 DEF CatalogFails
  <2>3. CASE ~a.refresh
    BY <1>9, <2>3 DEF CatalogFails
  <2> QED BY <2>1, <2>2, <2>3
<1>10. ASSUME NEW c \in productPosts, ProductSaved(c) PROVE CompanyInv'
  <2>1. AsksCatalog(c, insurer, TRUE)
    BY <1>10 DEF ProductSaved
  <2>2. /\ catalogAsks' \in SUBSET CatalogAsk /\ catalogAsks \subseteq catalogAsks'
        /\ overtaken' \in BOOLEAN
        /\ ~overtaken' => ~overtaken /\ \A a \in catalogAsks' : a.of = insurer
    BY <2>1, AskJoins
  <2> QED BY <1>10, <2>2 DEF ProductSaved
<1>11. ASSUME NEW c \in productPosts, ProductRefused(c) PROVE CompanyInv'
  BY <1>11 DEF ProductRefused
<1>12. CASE SaveCompanyName
  BY <1>12 DEF SaveCompanyName
<1>13. CASE NameSaved
  <2>1. CASE insurer = naming
    <3>1. AsksCatalog(insurer, insurer, FALSE) /\ insurer \in Insurers
      BY <1>13, <2>1 DEF NameSaved
    <3> QED BY <1>13, <3>1, AskJoins DEF NameSaved
  <2>2. CASE insurer # naming
    BY <1>13, <2>2 DEF NameSaved
  <2> QED BY <2>1, <2>2
<1>14. CASE NameRefused
  BY <1>14 DEF NameRefused
<1>15. CASE OpenCreation \/ CloseCreation \/ CreateCompany \/ CompanyCreated
  BY <1>15 DEF OpenCreation, CloseCreation, CreateCompany, CompanyCreated
<1>16. CASE CloseArchive
  BY <1>16 DEF CloseArchive
<1>17. CASE ConfirmArchive
  BY <1>17 DEF ConfirmArchive
<1>18. ASSUME NEW c \in archives, Archived(c) PROVE CompanyInv'
  BY <1>18 DEF Archived
<1> QED
  BY <1>1, <1>2, <1>3, <1>4, <1>5, <1>6, <1>7, <1>8, <1>9, <1>10, <1>11, <1>12, <1>13,
     <1>14, <1>15, <1>16, <1>17, <1>18 DEF CompanyStep

\* The invariant says what is promised of the dialog.
LEMMA CompanyPromise == CompanyInv => CatalogFits
BY DEF CompanyInv, CatalogFits

-----------------------------------------------------------------------------
(* The accounts                                                            *)

\* Requests and loads of the list stay within their bound.
UsersBound ==
    /\ IsFiniteSet(userPosts)
    /\ Cardinality(userPosts) + listing <= MaxUserPosts

\* An open dialog holds what was typed into it, for the account it is for; and
\* so does every request.
UsersInv ==
    /\ UsersTypeOK /\ UsersBound
    /\ userModal => newLogin # "before"
    /\ password # "before"
    /\ editUser # None => editFor = editUser
    /\ UsersNothingLeft

\* The dialogs start closed and empty.
LEMMA UsersStart == UsersInit => UsersInv
<1> SUFFICES ASSUME UsersInit PROVE UsersInv
  OBVIOUS
<1>1. userPosts = {} /\ listing = 1
  BY DEF UsersInit
<1>2. UsersBound
  BY <1>1, UserPostsAssumption, FS_EmptySet DEF UsersBound
<1>3. listing \in 0..(MaxUserPosts + 1)
  BY <1>1, UserPostsAssumption
<1> QED
  BY <1>1, <1>2, <1>3
     DEF UsersInit, UsersInv, UsersTypeOK, UsersNothingLeft, Inputs

\* Every step of the dialogs stays within the bound: a change that was saved
\* gives its place to the list that is asked for.
LEMMA UsersFit ==
    ASSUME UsersTypeOK, UsersBound, [UsersStep]_userVars PROVE UsersBound'
<1> USE UserPostsAssumption DEF UsersTypeOK, UsersBound
<1>0. Cardinality(userPosts) \in Nat /\ listing \in Nat
  BY FS_CardinalityType
<1>1. CASE userPosts' = userPosts /\ listing' \in {listing, listing - 1}
  BY <1>0, <1>1
<1>2. ASSUME NEW p, SendsUser(p), listing' = listing PROVE UsersBound'
  <2>1. /\ IsFiniteSet(userPosts \cup {p})
        /\ Cardinality(userPosts \cup {p}) <= Cardinality(userPosts) + 1
    BY <1>0, FS_AddElement
  <2>2. Cardinality(userPosts \cup {p}) \in Nat
    BY <2>1, FS_CardinalityType
  <2> QED BY <1>0, <1>2, <2>1, <2>2 DEF SendsUser
<1>3. ASSUME NEW p \in userPosts, userPosts' = userPosts \ {p},
             listing' \in {listing, listing + 1}
      PROVE  UsersBound'
  <2>1. /\ IsFiniteSet(userPosts \ {p})
        /\ Cardinality(userPosts \ {p}) = Cardinality(userPosts) - 1
    BY FS_RemoveElement
  <2> QED BY <1>0, <1>3, <2>1
<1>4. CASE AddUser \/ SaveEditUser
  BY <1>2, <1>4 DEF AddUser, SaveEditUser
<1>5. CASE \E p \in userPosts : UserAdded(p) \/ UserChanged(p) \/ UserRefused(p)
  BY <1>3, <1>5 DEF UserAdded, UserChanged, UserRefused
<1>6. CASE UsersArrive \/ UsersFail
  BY <1>1, <1>6 DEF UsersArrive, UsersFail
<1>7. CASE OpenNewUser \/ CloseNewUser \/ FillNewUser \/ CloseEditUser \/ FillPassword
  BY <1>1, <1>7 DEF OpenNewUser, CloseNewUser, FillNewUser, CloseEditUser, FillPassword
<1>8. CASE (\E t \in {"users", "roles"} : SetTab(t)) \/ (\E u \in Accounts : OpenEditUser(u))
  BY <1>1, <1>8 DEF SetTab, OpenEditUser
<1>9. CASE UNCHANGED userVars
  BY <1>1, <1>9 DEF userVars
<1> QED BY <1>4, <1>5, <1>6, <1>7, <1>8, <1>9 DEF UsersStep

\* Every step of the dialogs keeps their invariant.
LEMMA UsersKeep == ASSUME UsersInv, [UsersStep]_userVars PROVE UsersInv'
<1> USE UserPostsAssumption, AccountsAssumption DEF UsersInv, UsersTypeOK, UsersNothingLeft
<1>0. UsersBound'
  BY UsersFit
<1>a. ASSUME listing' = listing + 1 PROVE listing' \in 0..(MaxUserPosts + 1)
  <2>1. Cardinality(userPosts') \in Nat /\ Cardinality(userPosts') + listing' <= MaxUserPosts
    BY <1>0, FS_CardinalityType DEF UsersBound
  <2> QED BY <1>a, <2>1
<1>1. CASE UNCHANGED userVars
  BY <1>0, <1>1 DEF userVars
<1>2. ASSUME NEW t \in {"users", "roles"}, SetTab(t) PROVE UsersInv'
  BY <1>0, <1>2 DEF SetTab
<1>3. CASE UsersArrive \/ UsersFail
  <2>1. /\ listing > 0 /\ listing' = listing - 1
        /\ listed' \in BOOLEAN
        /\ UNCHANGED <<tab, userModal, newLogin, editUser, editFor, password, userPosts>>
    BY <1>3 DEF UsersArrive, UsersFail
  <2>2. listing' \in 0..(MaxUserPosts + 1)
    BY <2>1
  <2> QED BY <1>0, <2>1, <2>2
<1>4. CASE OpenNewUser
  BY <1>0, <1>4 DEF OpenNewUser, Inputs
<1>5. CASE CloseNewUser
  BY <1>0, <1>5, AgedIsInput DEF CloseNewUser
<1>6. CASE FillNewUser
  BY <1>0, <1>6 DEF FillNewUser, Inputs
<1>7. CASE AddUser
  <2> DEFINE p == [of |-> None, role |-> None, password |-> newLogin]
  <2>1. p \in UserPost /\ p.role = p.of /\ p.password # "before"
    BY <1>7 DEF UserPost, AddUser
  <2>2. /\ userPosts' = userPosts \cup {p}
        /\ UNCHANGED <<listed, listing, tab, userModal, newLogin, editUser, editFor, password>>
    BY <1>7 DEF AddUser, SendsUser
  <2> HIDE DEF p
  <2> QED BY <1>0, <2>1, <2>2
<1>8. ASSUME NEW u \in Accounts, OpenEditUser(u) PROVE UsersInv'
  BY <1>0, <1>8 DEF OpenEditUser, Inputs
<1>9. CASE CloseEditUser
  BY <1>0, <1>9 DEF CloseEditUser, Inputs
<1>10. CASE FillPassword
  BY <1>0, <1>10 DEF FillPassword, Inputs
<1>11. CASE SaveEditUser
  <2> DEFINE p == [of |-> editUser, role |-> editFor, password |-> password]
  <2>1. p \in UserPost /\ p.role = p.of /\ p.password # "before"
    BY <1>11 DEF UserPost, SaveEditUser
  <2>2. /\ userPosts' = userPosts \cup {p}
        /\ UNCHANGED <<listed, listing, tab, userModal, newLogin, editUser, editFor, password>>
    BY <1>11 DEF SaveEditUser, SendsUser
  <2> HIDE DEF p
  <2> QED BY <1>0, <2>1, <2>2
<1>12. ASSUME NEW p \in userPosts, UserAdded(p) PROVE UsersInv'
  BY <1>0, <1>a, <1>12 DEF UserAdded, Inputs
<1>13. ASSUME NEW p \in userPosts, UserChanged(p) PROVE UsersInv'
  BY <1>0, <1>a, <1>13 DEF UserChanged, Inputs
<1>14. ASSUME NEW p \in userPosts, UserRefused(p) PROVE UsersInv'
  BY <1>0, <1>14 DEF UserRefused
<1> QED
  BY <1>0, <1>1, <1>2, <1>3, <1>4, <1>5, <1>6, <1>7, <1>8, <1>9, <1>10, <1>11, <1>12,
     <1>13, <1>14 DEF UsersStep

-----------------------------------------------------------------------------
(* The rights of the roles                                                 *)

\* The panel's copy is the server's while no save is done and unreported; a
\* save that is out is of the role shown and of moved switches, unless a role was
\* chosen meanwhile.
RightsInv ==
    /\ RightsTypeOK
    /\ loaded # "yes" => put = "none" /\ role = FirstRole
    /\ loaded = "yes" /\ put # "done" /\ ~lost => matrix = stored
    /\ put # "none" /\ ~switched => role = putRole
    /\ put # "none" /\ ~switched /\ ~lost => touched
    /\ RightsFit

\* Nothing is shown before the matrix is there.
LEMMA RightsStart == RightsInit => RightsInv
BY RolesAssumption DEF RightsInit, RightsInv, RightsTypeOK, RightsFit, RightsAgree

\* Every step of the panel keeps its invariant.
LEMMA RightsKeep == ASSUME RightsInv, [RightsStep]_rightsVars PROVE RightsInv'
<1> USE RolesAssumption DEF RightsInv, RightsTypeOK, RightsFit, RightsAgree
<1>1. CASE UNCHANGED rightsVars
  BY <1>1 DEF rightsVars
<1>2. CASE MatrixArrives
  BY <1>2 DEF MatrixArrives
<1>3. CASE MatrixFails
  BY <1>3 DEF MatrixFails
<1>4. ASSUME NEW r \in Roles, SelectRole(r) PROVE RightsInv'
  BY <1>4 DEF SelectRole
<1>5. ASSUME NEW k \in Keys, Toggle(k) PROVE RightsInv'
  BY <1>5 DEF Toggle
<1>6. CASE SaveRights
  BY <1>6 DEF SaveRights
<1>7. CASE ServerSaves
  BY <1>7 DEF ServerSaves
<1>8. CASE RightsSaved
  BY <1>8 DEF RightsSaved
<1>9. CASE RightsNotSaved
  BY <1>9 DEF RightsNotSaved
<1> QED
  BY <1>1, <1>2, <1>3, <1>4, <1>5, <1>6, <1>7, <1>8, <1>9 DEF RightsStep

\* The invariant says what is promised of the panel.
LEMMA RightsPromise == RightsInv => RightsFit
BY DEF RightsInv
==============================================================================
