---------------------------- MODULE PolicyDialog -----------------------------
(***************************************************************************)
(* The form of a policy (PolicyForm), new or edited, and the dialog in it  *)
(* that creates a client (ClientCreateModal).                              *)
(*                                                                         *)
(* Choosing a company asks for its products; such requests are answered in *)
(* any order and all are listened to.  The client's dialog is a child of   *)
(* the form, so its submit event reaches the form's handler too.  Answers  *)
(* to what was sent arrive whether or not the form is still there.         *)
(***************************************************************************)
EXTENDS Dialogs, Naturals, FiniteSets

CONSTANTS
    Clients,
    Companies,
    MaxPolicyPosts      \* bound: requests to save a policy under way

ASSUME PolicyAssumption == None \notin Clients \cup Companies
ASSUME PolicyPostsAssumption == MaxPolicyPosts \in Nat \ {0}

VARIABLES
    form,           \* is the form there: for a new policy or an edited one?
    loadingPolicy,  \* is the edited policy still being loaded?
    client,         \* chosen client
    company,        \* chosen company
    product,        \* chosen product, as the company it belongs to
    products,       \* products on offer, as the company they belong to
    productAsks,    \* companies whose products are asked for
    mixed,          \* history: when products were last asked for, those of
                    \* another company were under way or on offer
    newClient,      \* the client's dialog: closed, open, sent, sent and closed
    policyPosts     \* requests to save the policy under way

policyVars == <<form, loadingPolicy, client, company, product, products,
                productAsks, mixed, newClient, policyPosts>>

\* `new': not an edit of a policy that exists
PolicyPost == [id : 1..MaxPolicyPosts, new : BOOLEAN, client : Clients \cup {None},
               company : Companies \cup {None}, product : Companies \cup {None}]

PolicyTypeOK ==
    /\ form \in {"none", "new", "edit"}
    /\ loadingPolicy \in BOOLEAN
    /\ client \in Clients \cup {None}
    /\ company \in Companies \cup {None}
    /\ product \in Companies \cup {None}
    /\ products \in Companies \cup {None}
    /\ productAsks \in SUBSET Companies
    /\ mixed \in BOOLEAN
    /\ newClient \in {"closed", "open", "sent", "left"}
    /\ policyPosts \in SUBSET PolicyPost

\* The fields of a form that has just been mounted, or of none
Unmounted ==
    /\ client' = None /\ company' = None /\ product' = None
    /\ products' = None /\ productAsks' = {} /\ mixed' = FALSE
    /\ newClient' = "closed"

PolicyInit ==
    /\ form = "none"
    /\ loadingPolicy = FALSE
    /\ client = None /\ company = None /\ product = None
    /\ products = None /\ productAsks = {} /\ mixed = FALSE
    /\ newClient = "closed"
    /\ policyPosts = {}

\* A new policy may be for the client of a renewal task.
OpenPolicyForm(f, c) ==
    /\ form = "none"
    /\ form' = f
    /\ loadingPolicy' = (f = "edit")
    /\ client' = IF f = "edit" THEN None ELSE c
    /\ UNCHANGED <<company, product, products, productAsks, mixed, newClient, policyPosts>>

\* onCancel, Escape, or an onSuccess
ClosesForm ==
    /\ form' = "none"
    /\ loadingPolicy' = FALSE
    /\ Unmounted

ClosePolicyForm ==
    /\ form # "none"
    /\ ClosesForm
    /\ UNCHANGED policyPosts

\* The effect of [companyId], while these products are on offer
AsksProducts(c, offered) ==
    IF c = None \/ c = company
    THEN UNCHANGED <<productAsks, mixed>>
    ELSE /\ productAsks' = productAsks \cup {c}
         /\ mixed' = (productAsks \ {c} # {} \/ offered \notin {None, c})

PolicyLoaded ==
    /\ loadingPolicy
    /\ loadingPolicy' = FALSE
    /\ \E cl \in Clients, co \in Companies :
          /\ client' = cl
          /\ company' = co
          /\ product' = co
          /\ AsksProducts(co, products)
    /\ UNCHANGED <<form, products, newClient, policyPosts>>

PolicyNotLoaded ==
    /\ loadingPolicy
    /\ loadingPolicy' = FALSE
    /\ UNCHANGED <<form, client, company, product, products, productAsks, mixed,
                   newClient, policyPosts>>

ChooseClient(c) ==
    /\ form # "none" /\ newClient \in {"closed", "left"}
    /\ client' = c
    /\ UNCHANGED <<form, loadingPolicy, company, product, products, productAsks, mixed,
                   newClient, policyPosts>>

\* Faulty: the product chosen for another company stays.
ChooseCompanyKeepingProduct(c) ==
    /\ form # "none" /\ newClient \in {"closed", "left"}
    /\ company' = c
    /\ products' = None
    /\ AsksProducts(c, None)
    /\ UNCHANGED <<form, loadingPolicy, client, product, newClient, policyPosts>>

\* onCompanyChange; None when the choice is cleared
ChooseCompany(c) ==
    /\ form # "none" /\ newClient \in {"closed", "left"}
    /\ company' = c
    /\ product' = None
    /\ products' = None
    /\ AsksProducts(c, None)
    /\ UNCHANGED <<form, loadingPolicy, client, newClient, policyPosts>>

\* onProductChange
ChooseProduct ==
    /\ form # "none" /\ newClient \in {"closed", "left"}
    /\ products # None
    /\ product' = products
    /\ UNCHANGED <<form, loadingPolicy, client, company, products, productAsks, mixed,
                   newClient, policyPosts>>

\* (The same company may have been asked twice: it may be answered again.)
ProductsArrive(c) ==
    /\ products' = c
    /\ productAsks' \in {productAsks, productAsks \ {c}}
    /\ UNCHANGED <<form, loadingPolicy, client, company, product, mixed, newClient,
                   policyPosts>>

\* Also the product chosen meanwhile goes.
ProductsFail(c) ==
    /\ products' = None
    /\ product' = None
    /\ productAsks' \in {productAsks, productAsks \ {c}}
    /\ UNCHANGED <<form, loadingPolicy, client, company, mixed, newClient, policyPosts>>

-----------------------------------------------------------------------------
FreePost == {i \in 1..MaxPolicyPosts : \A p \in policyPosts : p.id # i}

\* onSubmit: a new policy needs client, company and product.
Complete == form = "edit" \/ None \notin {client, company, product}

SendsPolicy ==
    IF ~Complete THEN UNCHANGED policyPosts
    ELSE \E i \in FreePost :
            /\ \A j \in FreePost : i <= j
            /\ policyPosts' = policyPosts \cup
                   {[id |-> i, new |-> form = "new", client |-> client,
                     company |-> company, product |-> product]}

\* Nothing disables the button while a request is under way.
SubmitPolicyForm ==
    /\ form # "none" /\ newClient \in {"closed", "left"}
    /\ Complete
    /\ SendsPolicy
    /\ UNCHANGED <<form, loadingPolicy, client, company, product, products, productAsks,
                   mixed, newClient>>

\* The server takes only a product of the company; then onSuccess closes the form
\* of its kind, if one is there: it may have been opened since for another policy.
PolicySaved(p) ==
    /\ None \notin {p.client, p.company, p.product}
    /\ p.product = p.company
    /\ policyPosts' = policyPosts \ {p}
    /\ IF form = (IF p.new THEN "new" ELSE "edit")
         THEN ClosesForm
         ELSE UNCHANGED <<form, loadingPolicy, client, company, product, products,
                          productAsks, mixed, newClient>>

PolicyRefused(p) ==
    /\ policyPosts' = policyPosts \ {p}
    /\ UNCHANGED <<form, loadingPolicy, client, company, product, products, productAsks,
                   mixed, newClient>>

OpenNewClient ==
    /\ form # "none" /\ newClient = "closed"
    /\ newClient' = "open"
    /\ UNCHANGED <<form, loadingPolicy, client, company, product, products, productAsks,
                   mixed, policyPosts>>

\* Its buttons and its backdrop (Escape closes the form with it)
CloseNewClient ==
    /\ newClient \in {"open", "sent"}
    /\ newClient' = IF newClient = "open" THEN "closed" ELSE "left"
    /\ UNCHANGED <<form, loadingPolicy, client, company, product, products, productAsks,
                   mixed, policyPosts>>

\* The event goes on to the form around: onSubmit runs, with the client chosen
\* before.
SubmitNewClient ==
    /\ newClient = "open"
    /\ newClient' = "sent"
    /\ SendsPolicy
    /\ UNCHANGED <<form, loadingPolicy, client, company, product, products, productAsks,
                   mixed>>

\* appendClient chooses the new client, though another was chosen since.
NewClientCreated(c) ==
    /\ newClient \in {"sent", "left"}
    /\ client' = c
    /\ newClient' = "closed"
    /\ UNCHANGED <<form, loadingPolicy, company, product, products, productAsks, mixed,
                   policyPosts>>

NewClientRefused ==
    /\ newClient \in {"sent", "left"}
    /\ newClient' = IF newClient = "sent" THEN "open" ELSE "closed"
    /\ UNCHANGED <<form, loadingPolicy, client, company, product, products, productAsks,
                   mixed, policyPosts>>

PolicyStep ==
    \/ \E c \in Clients \cup {None} : OpenPolicyForm("new", c) \/ ChooseClient(c)
    \/ OpenPolicyForm("edit", None)
    \/ ClosePolicyForm \/ PolicyLoaded \/ PolicyNotLoaded
    \/ \E c \in Companies \cup {None} : ChooseCompany(c)
    \/ ChooseProduct
    \/ \E c \in productAsks : ProductsArrive(c) \/ ProductsFail(c)
    \/ SubmitPolicyForm \/ OpenNewClient \/ CloseNewClient \/ SubmitNewClient
    \/ \E p \in policyPosts : PolicySaved(p) \/ PolicyRefused(p)
    \/ \E c \in Clients : NewClientCreated(c)
    \/ NewClientRefused

-----------------------------------------------------------------------------
\* Once no products are asked for, those on offer and the one chosen belong to
\* the company chosen; unless those of two companies were asked for at once, or
\* a company was chosen before the edited policy was there, which the form does
\* not sort out (only the server does, in PolicySaved).
FormProductsFit ==
    company # None /\ productAsks = {} /\ ~mixed =>
        {product, products} \subseteq {company, None}
==============================================================================
