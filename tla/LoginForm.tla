----------------------------- MODULE LoginForm ------------------------------
(***************************************************************************)
(* The form a page shows while it has no token (LoginForm.tsx): two tabs,  *)
(* two fields of which it matters only whether one of them is blank, the   *)
(* request, and what is shown of it.  How the request is repeated and what *)
(* the server makes of it is in Accounts.                                  *)
(***************************************************************************)
VARIABLES mode, filled, loading, error

form == <<mode, filled, loading, error>>

FormTypeOK ==
    /\ mode \in {"login", "register"}
    /\ filled \in BOOLEAN /\ loading \in BOOLEAN
    /\ error \in {"none", "required", "failed"}

(* The state of a form that is mounted.                                    *)
Fresh(m, f, l, e) == m = "login" /\ f = FALSE /\ l = FALSE /\ e = "none"

FormInit == Fresh(mode, filled, loading, error)
FormReset == Fresh(mode', filled', loading', error')

(* Mutant of SwitchTab: the other tab starts anew.                         *)
SwitchTabAnew(m) ==
    /\ mode' = m /\ error' = "none" /\ loading' = FALSE
    /\ UNCHANGED filled

(* The tabs can be changed while a request is under way, ...               *)
SwitchTab(m) ==
    /\ mode' = m /\ error' = "none"
    /\ UNCHANGED <<filled, loading>>

(* ... and so can the fields.                                              *)
Edit ==
    /\ filled' = ~filled
    /\ UNCHANGED <<mode, loading, error>>

(* handleSubmit.  The button, and with it the return key, is disabled      *)
(* while a request is under way.                                           *)
SubmitBlank ==
    /\ ~loading /\ ~filled
    /\ error' = "required"
    /\ UNCHANGED <<mode, filled, loading>>

Submit ==
    /\ ~loading /\ filled
    /\ loading' = TRUE /\ error' = "none"
    /\ UNCHANGED <<mode, filled>>

(* The request has failed for good, whichever tab is shown by now.         *)
Failed ==
    /\ loading
    /\ loading' = FALSE /\ error' = "failed"
    /\ UNCHANGED <<mode, filled>>

(* setAuth: App shows the chat page instead.                               *)
Succeeded == loading /\ FormReset

FormSteps == (\E m \in {"login", "register"} : SwitchTab(m)) \/ Edit \/ SubmitBlank \/ Submit \/ Failed
=============================================================================
