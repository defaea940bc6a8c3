------------------------------- MODULE Screens -------------------------------
(***************************************************************************)
(* The screens of the CRM's frontend and of License Admin, each modelled   *)
(* in a module of its own, as one specification.  The screens share no     *)
(* state in the browser: a page is mounted anew when it is opened.  A      *)
(* behaviour is therefore that of one screen, chosen at the start.         *)
(***************************************************************************)
EXTENDS ListPages, HomeToasts, TaskDialog, ManualTaskDialog, PolicyDialog,
        ClientCard, ClientForm, CompanyDialogs, UserForms, RoleRights,
        AdminConsole

VARIABLE screen

screensVars ==
    <<screen, listVars, homeVars, taskVars, manualVars, policyVars, cardVars,
      clientFormVars, companyVars, userVars, rightsVars, consoleVars>>

Screen == {"list", "home", "task", "manual", "policy", "card", "client",
           "company", "users", "rights", "console"}

TypeOK ==
    /\ screen \in Screen
    /\ ListTypeOK /\ HomeTypeOK /\ TaskTypeOK /\ ManualTypeOK /\ PolicyTypeOK
    /\ CardTypeOK /\ ClientFormTypeOK /\ CompanyTypeOK /\ UsersTypeOK
    /\ RightsTypeOK /\ ConsoleTypeOK

Some(S) == CHOOSE x \in S : TRUE

\* A screen that is not opened starts in one state.
NotOpened ==
    /\ screen # "list" => list = Some(Lists)
    /\ screen # "home" => unread = {}
    /\ screen # "task" => ~mayEdit
    /\ screen # "rights" => stored = Some([Roles -> SUBSET Keys])
    /\ screen # "console" => ~vaultOpen

ScreensInit ==
    /\ screen \in Screen
    /\ ListInit /\ HomeInit /\ TaskInit /\ ManualInit /\ PolicyInit /\ CardInit
    /\ ClientFormInit /\ CompanyInit /\ UsersInit /\ RightsInit /\ ConsoleInit
    /\ NotOpened

Rests(name, var) == IF screen = name THEN TRUE ELSE UNCHANGED var

\* Every screen but the one that was opened
OthersRest ==
    /\ UNCHANGED screen
    /\ Rests("list", listVars) /\ Rests("home", homeVars)
    /\ Rests("task", taskVars) /\ Rests("manual", manualVars)
    /\ Rests("policy", policyVars) /\ Rests("card", cardVars)
    /\ Rests("client", clientFormVars) /\ Rests("company", companyVars)
    /\ Rests("users", userVars) /\ Rests("rights", rightsVars)
    /\ Rests("console", consoleVars)

ScreensNext ==
    \/ screen = "list" /\ ListStep /\ OthersRest
    \/ screen = "home" /\ HomeStep /\ OthersRest
    \/ screen = "task" /\ TaskStep /\ OthersRest
    \/ screen = "manual" /\ ManualStep /\ OthersRest
    \/ screen = "policy" /\ PolicyStep /\ OthersRest
    \/ screen = "card" /\ CardStep /\ OthersRest
    \/ screen = "client" /\ ClientFormStep /\ OthersRest
    \/ screen = "company" /\ CompanyStep /\ OthersRest
    \/ screen = "users" /\ UsersStep /\ OthersRest
    \/ screen = "rights" /\ RightsStep /\ OthersRest
    \/ screen = "console" /\ ConsoleStep /\ OthersRest

ScreensSpec ==
    ScreensInit /\ [][ScreensNext]_screensVars /\ HomeFairness

-----------------------------------------------------------------------------
\* No dialog sends what was entered or loaded for something else: a decision
\* about a task, a task made by hand, a client, an account or its password.
NothingLeftOver ==
    /\ TaskNothingLeft
    /\ ManualNothingLeft
    /\ ClientNothingLeft
    /\ UsersNothingLeft

\* The products that are on offer are those of the company shown: in the form of
\* a policy and in the dialog of a company.
ProductsFit == FormProductsFit /\ CatalogFits
==============================================================================
