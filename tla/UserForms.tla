------------------------------ MODULE UserForms ------------------------------
(***************************************************************************)
(* The accounts in the settings (SettingsPage): the list, the dialog for a *)
(* new account and the one that changes an account, its password included. *)
(* The list is asked for on mount and after every change that was saved.   *)
(***************************************************************************)
EXTENDS Dialogs, Naturals, FiniteSets

CONSTANTS
    Accounts,
    MaxUserPosts    \* bound: requests of the dialogs under way

ASSUME AccountsAssumption == None \notin Accounts
ASSUME UserPostsAssumption == MaxUserPosts \in Nat \ {0}

VARIABLES
    listed,     \* has the list been loaded?
    listing,    \* requests for the list under way
    tab,        \* adminTab
    userModal,  \* is the dialog for a new account open?
    newLogin,   \* its inputs: login and password
    editUser,   \* the account that is changed
    editFor,    \* the account whose role and access the inputs hold
    password,   \* input: the new password
    userPosts   \* changes under way

userVars == <<listed, listing, tab, userModal, newLogin, editUser, editFor,
              password, userPosts>>

\* None: a new account
UserPost == [of : Accounts \cup {None}, role : Accounts \cup {None}, password : Inputs]

UsersTypeOK ==
    /\ listed \in BOOLEAN
    /\ listing \in 0..(MaxUserPosts + 1)
    /\ tab \in {"users", "roles"}
    /\ userModal \in BOOLEAN
    /\ newLogin \in Inputs
    /\ editUser \in Accounts \cup {None}
    /\ editFor \in Accounts \cup {None}
    /\ password \in Inputs
    /\ userPosts \in SUBSET UserPost

UsersInit ==
    /\ listed = FALSE
    /\ listing = 1
    /\ tab = "users"
    /\ userModal = FALSE
    /\ newLogin = "blank"
    /\ editUser = None /\ editFor = None
    /\ password = "blank"
    /\ userPosts = {}

\* Shown only to those who may also change the rights of roles
SetTab(t) ==
    /\ t # tab
    /\ tab' = t
    /\ UNCHANGED <<listed, listing, userModal, newLogin, editUser, editFor, password, userPosts>>

UsersArrive ==
    /\ listing > 0
    /\ listed' = TRUE
    /\ listing' = listing - 1
    /\ UNCHANGED <<tab, userModal, newLogin, editUser, editFor, password, userPosts>>

UsersFail ==
    /\ listing > 0
    /\ listing' = listing - 1
    /\ UNCHANGED <<listed, tab, userModal, newLogin, editUser, editFor, password, userPosts>>

OpenNewUser ==
    /\ tab = "users" /\ ~userModal /\ editUser = None
    /\ userModal' = TRUE
    /\ newLogin' = "blank"
    /\ UNCHANGED <<listed, listing, tab, editUser, editFor, password, userPosts>>

CloseNewUser ==
    /\ userModal
    /\ userModal' = FALSE
    /\ newLogin' = Aged(newLogin)
    /\ UNCHANGED <<listed, listing, tab, editUser, editFor, password, userPosts>>

FillNewUser ==
    /\ userModal
    /\ newLogin' = "now"
    /\ UNCHANGED <<listed, listing, tab, userModal, editUser, editFor, password, userPosts>>

SendsUser(post) ==
    /\ Cardinality(userPosts) + listing < MaxUserPosts
    /\ userPosts' = userPosts \cup {post}

\* addUser
AddUser ==
    /\ userModal
    /\ newLogin # "blank"
    /\ SendsUser([of |-> None, role |-> None, password |-> newLogin])
    /\ UNCHANGED <<listed, listing, tab, userModal, newLogin, editUser, editFor, password>>

UserAdded(p) ==
    /\ p.of = None
    /\ userPosts' = userPosts \ {p}
    /\ newLogin' = "blank"
    /\ userModal' = FALSE
    /\ listing' = listing + 1
    /\ UNCHANGED <<listed, tab, editUser, editFor, password>>

\* openEditUser
OpenEditUser(u) ==
    /\ tab = "users" /\ listed
    /\ ~userModal /\ editUser = None
    /\ editUser' = u
    /\ editFor' = u
    /\ password' = "blank"
    /\ UNCHANGED <<listed, listing, tab, userModal, newLogin, userPosts>>

CloseEditUser ==
    /\ editUser # None
    /\ editUser' = None
    /\ password' = "blank"
    /\ UNCHANGED <<listed, listing, tab, userModal, newLogin, editFor, userPosts>>

FillPassword ==
    /\ editUser # None
    /\ password' = "now"
    /\ UNCHANGED <<listed, listing, tab, userModal, newLogin, editUser, editFor, userPosts>>

\* saveEditUser
SaveEditUser ==
    /\ editUser # None
    /\ SendsUser([of |-> editUser, role |-> editFor, password |-> password])
    /\ UNCHANGED <<listed, listing, tab, userModal, newLogin, editUser, editFor, password>>

\* The dialog that is open by now is closed.
UserChanged(p) ==
    /\ p.of # None
    /\ userPosts' = userPosts \ {p}
    /\ editUser' = None
    /\ password' = "blank"
    /\ listing' = listing + 1
    /\ UNCHANGED <<listed, tab, userModal, newLogin, editFor>>

\* Refused: the dialog stays, without a word.
UserRefused(p) ==
    /\ userPosts' = userPosts \ {p}
    /\ UNCHANGED <<listed, listing, tab, userModal, newLogin, editUser, editFor, password>>

UsersStep ==
    \/ \E t \in {"users", "roles"} : SetTab(t)
    \/ UsersArrive \/ UsersFail
    \/ OpenNewUser \/ CloseNewUser \/ FillNewUser \/ AddUser
    \/ \E u \in Accounts : OpenEditUser(u)
    \/ CloseEditUser \/ FillPassword \/ SaveEditUser
    \/ \E p \in userPosts : UserAdded(p) \/ UserChanged(p) \/ UserRefused(p)

-----------------------------------------------------------------------------
\* A password is set for the account it was typed for, in this opening of the
\* dialog, and so is the role; a new account gets what was typed for it.
UsersNothingLeft ==
    \A p \in userPosts : p.password # "before" /\ p.role = p.of
==============================================================================
