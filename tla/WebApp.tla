------------------------------- MODULE WebApp -------------------------------
(***************************************************************************)
(* The page in the browser (App.tsx): the login form without a token, the  *)
(* chat page with one, and below them the store, to which histories and    *)
(* timeouts of a chat page that is gone still write.                       *)
(***************************************************************************)
EXTENDS ChatPage

VARIABLES mode, filled, loading, error

F == INSTANCE LoginForm

form == <<mode, filled, loading, error>>
appVars == <<vars, form>>

AppTypeOK == TypeOK /\ F!FormTypeOK

AppInit == Init /\ F!FormInit

LoggingIn == F!Succeeded /\ LogIn
FormStep == ~loggedIn /\ F!FormSteps /\ UNCHANGED vars
Reloading == Reload /\ F!FormReset
ChatStep == Steps /\ UNCHANGED form

AppNext == LoggingIn \/ FormStep \/ Reloading \/ ChatStep

AppSpec == AppInit /\ [][AppNext]_appVars

-----------------------------------------------------------------------------
(* A form that was submitted ends logged in, or with the reason it is not, *)
(* though its tabs and its fields change meanwhile (LoginForm.tsx:14-32).  *)
SubmitIsAnswered ==
    [][loading /\ ~loading' => loggedIn' \/ error' = "failed" \/ Reloading]_appVars
=============================================================================
