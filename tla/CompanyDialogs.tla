--------------------------- MODULE CompanyDialogs ----------------------------
(***************************************************************************)
(* The dialogs over the list of companies (CompaniesPage): a new company,  *)
(* the confirmation before one goes to the archive (ConfirmModal), and the *)
(* company itself with its name and its products.  For a user who may      *)
(* change them (others only open and close the last one).                  *)
(*                                                                         *)
(* The company's dialog asks for the products when it opens, when the name *)
(* was saved and, for the company it was then, when a product was saved.   *)
(* All such requests are listened to, also after the dialog was closed.    *)
(***************************************************************************)
EXTENDS Dialogs, Naturals

CONSTANT Insurers

ASSUME InsurersAssumption == None \notin Insurers

VARIABLES
    insurer,        \* selectedCompany
    catalog,        \* companyProducts, as the company they belong to
    editingOf,      \* editingProductId, likewise; None: a new product
    catalogAsks,    \* requests for products under way
    productPosts,   \* companies for which a product is being saved
    naming,         \* companySaving: the company whose name is being saved
    creation,       \* modalOpen: the dialog for a new company
    creations,      \* is a new company being saved?
    archive,        \* archiveCompanyId
    archiving,      \* busy of the confirmation
    archives,       \* companies being archived
    overtaken       \* history: products of another company were being asked
                    \* for when the dialog last asked for its own, or since

companyVars == <<insurer, catalog, editingOf, catalogAsks, productPosts,
                 naming, creation, creations, archive, archiving, archives,
                 overtaken>>

\* `refresh': after a product was saved; nobody handles its failure
CatalogAsk == [of : Insurers, refresh : BOOLEAN]

CompanyTypeOK ==
    /\ insurer \in Insurers \cup {None}
    /\ catalog \in Insurers \cup {None}
    /\ editingOf \in Insurers \cup {None}
    /\ catalogAsks \in SUBSET CatalogAsk
    /\ productPosts \in SUBSET Insurers
    /\ naming \in Insurers \cup {None}
    /\ creation \in BOOLEAN /\ creations \in BOOLEAN
    /\ archive \in Insurers \cup {None}
    /\ archiving \in BOOLEAN
    /\ archives \in SUBSET Insurers
    /\ overtaken \in BOOLEAN

NoDialog == insurer = None /\ ~creation /\ archive = None

CompanyInit ==
    /\ insurer = None /\ catalog = None /\ editingOf = None
    /\ catalogAsks = {} /\ productPosts = {} /\ naming = None
    /\ creation = FALSE /\ creations = FALSE
    /\ archive = None /\ archiving = FALSE /\ archives = {}
    /\ overtaken = FALSE

\* Asks for the products of company c while company `in' is in the dialog.
AsksCatalog(c, in, refresh) ==
    /\ catalogAsks' = catalogAsks \cup {[of |-> c, refresh |-> refresh]}
    /\ overtaken' = (\/ refresh /\ overtaken
                     \/ \E a \in catalogAsks' : a.of # in)

\* A click on a row; the effect of [selectedCompany]
OpenCompany(c) ==
    /\ NoDialog
    /\ insurer' = c
    /\ AsksCatalog(c, c, FALSE)
    /\ UNCHANGED <<catalog, editingOf, productPosts, naming, creation,
                   creations, archive, archiving, archives>>

\* closeProductsModal, and the effect again
CloseCompany ==
    /\ insurer # None
    /\ insurer' = None
    /\ catalog' = None
    /\ editingOf' = None
    /\ UNCHANGED <<catalogAsks, productPosts, naming, creation, creations,
                   archive, archiving, archives, overtaken>>

\* (Equal requests are one here: it may be answered again.)
CatalogArrives(a) ==
    /\ catalog' = a.of
    /\ catalogAsks' \in {catalogAsks, catalogAsks \ {a}}
    /\ UNCHANGED <<insurer, editingOf, productPosts, naming, creation,
                   creations, archive, archiving, archives, overtaken>>

CatalogFails(a) ==
    /\ catalog' = IF a.refresh THEN catalog ELSE None
    /\ catalogAsks' \in {catalogAsks, catalogAsks \ {a}}
    /\ UNCHANGED <<insurer, editingOf, productPosts, naming, creation,
                   creations, archive, archiving, archives, overtaken>>

\* The inputs take the values of a product on show.
StartEditProduct ==
    /\ insurer # None /\ catalog # None
    /\ editingOf' = catalog
    /\ UNCHANGED <<insurer, catalog, catalogAsks, productPosts, naming,
                   creation, creations, archive, archiving, archives,
                   overtaken>>

ResetProductForm ==
    /\ editingOf # None
    /\ editingOf' = None
    /\ UNCHANGED <<insurer, catalog, catalogAsks, productPosts, naming,
                   creation, creations, archive, archiving, archives,
                   overtaken>>

\* Nothing disables the button meanwhile.
SubmitProduct ==
    /\ insurer # None
    /\ productPosts' = productPosts \cup {insurer}
    /\ UNCHANGED <<insurer, catalog, editingOf, catalogAsks, naming, creation,
                   creations, archive, archiving, archives, overtaken>>

\* The form is emptied, whatever is being edited by now.
ProductSaved(c) ==
    /\ productPosts' \in {productPosts, productPosts \ {c}}
    /\ editingOf' = None
    /\ AsksCatalog(c, insurer, TRUE)
    /\ UNCHANGED <<insurer, catalog, naming, creation, creations, archive,
                   archiving, archives>>

ProductRefused(c) ==
    /\ productPosts' \in {productPosts, productPosts \ {c}}
    /\ UNCHANGED <<insurer, catalog, editingOf, catalogAsks, naming, creation,
                   creations, archive, archiving, archives, overtaken>>

-----------------------------------------------------------------------------
\* companySaving outlives the dialog: it disables the button of every company.
SaveCompanyName ==
    /\ insurer # None
    /\ naming = None
    /\ naming' = insurer
    /\ UNCHANGED <<insurer, catalog, editingOf, catalogAsks, productPosts,
                   creation, creations, archive, archiving, archives,
                   overtaken>>

\* The company in the dialog, if it still is the one, becomes a new object: the
\* effect asks for its products again.
NameSaved ==
    /\ naming # None
    /\ naming' = None
    /\ IF insurer = naming THEN AsksCatalog(insurer, insurer, FALSE)
                           ELSE UNCHANGED <<catalogAsks, overtaken>>
    /\ UNCHANGED <<insurer, catalog, editingOf, productPosts, creation,
                   creations, archive, archiving, archives>>

NameRefused ==
    /\ naming # None
    /\ naming' = None
    /\ UNCHANGED <<insurer, catalog, editingOf, catalogAsks, productPosts,
                   creation, creations, archive, archiving, archives,
                   overtaken>>

OpenCreation ==
    /\ NoDialog
    /\ creation' = TRUE
    /\ UNCHANGED <<insurer, catalog, editingOf, catalogAsks, productPosts,
                   naming, creations, archive, archiving, archives, overtaken>>

CloseCreation ==
    /\ creation
    /\ creation' = FALSE
    /\ UNCHANGED <<insurer, catalog, editingOf, catalogAsks, productPosts,
                   naming, creations, archive, archiving, archives, overtaken>>

\* onCreate; it may be sent several times.
CreateCompany ==
    /\ creation
    /\ creations' = TRUE
    /\ UNCHANGED <<insurer, catalog, editingOf, catalogAsks, productPosts,
                   naming, creation, archive, archiving, archives, overtaken>>

CompanyCreated ==
    /\ creations
    /\ creations' \in BOOLEAN
    /\ creation' \in {creation, FALSE}
    /\ UNCHANGED <<insurer, catalog, editingOf, catalogAsks, productPosts,
                   naming, archive, archiving, archives, overtaken>>

-----------------------------------------------------------------------------
AskArchive(c) ==
    /\ NoDialog
    /\ archive' = c
    /\ UNCHANGED <<insurer, catalog, editingOf, catalogAsks, productPosts,
                   naming, creation, creations, archiving, archives,
                   overtaken>>

\* Escape closes it also while it is busy, and the effect of [open] lifts that.
CloseArchive ==
    /\ archive # None
    /\ archive' = None
    /\ archiving' = FALSE
    /\ UNCHANGED <<insurer, catalog, editingOf, catalogAsks, productPosts,
                   naming, creation, creations, archives, overtaken>>

ConfirmArchive ==
    /\ archive # None
    /\ ~archiving
    /\ archiving' = TRUE
    /\ archives' = archives \cup {archive}
    /\ UNCHANGED <<insurer, catalog, editingOf, catalogAsks, productPosts,
                   naming, creation, creations, archive, overtaken>>

\* The confirmation of whichever company is up by now is closed.  Refused: it
\* stays, and the error is not shown there.
Archived(c) ==
    /\ archives' = archives \ {c}
    /\ archiving' = FALSE
    /\ archive' \in {archive, None}
    /\ UNCHANGED <<insurer, catalog, editingOf, catalogAsks, productPosts,
                   naming, creation, creations, overtaken>>

CompanyStep ==
    \/ \E c \in Insurers : OpenCompany(c) \/ AskArchive(c)
    \/ CloseCompany \/ StartEditProduct \/ ResetProductForm \/ SubmitProduct
    \/ \E a \in catalogAsks : CatalogArrives(a) \/ CatalogFails(a)
    \/ \E c \in productPosts : ProductSaved(c) \/ ProductRefused(c)
    \/ SaveCompanyName \/ NameSaved \/ NameRefused
    \/ OpenCreation \/ CloseCreation \/ CreateCompany \/ CompanyCreated
    \/ CloseArchive \/ ConfirmArchive
    \/ \E c \in archives : Archived(c)

-----------------------------------------------------------------------------
\* Once nothing is asked for, the products in a company's dialog are its own,
\* though those of a company closed before may have arrived after the closing;
\* unless answers about two companies could cross, which the page does not sort
\* out.
CatalogFits ==
    insurer # None /\ catalogAsks = {} /\ ~overtaken => catalog \in {insurer, None}
==============================================================================
