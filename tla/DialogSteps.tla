---------------------------- MODULE DialogSteps -----------------------------
(***************************************************************************)
(* An InviteDialog as its Call sees it: the steps of its status, each with *)
(* the callback of InviteDialogListener that goes with it.  UserAgent takes *)
(* them for its environment; MCInviteDialog checks that the dialogs of     *)
(* InviteDialog, with their transactions and network, make no other step.  *)
(***************************************************************************)

\* The statuses in which the SipProvider finds the dialog by its complete
\* identifier.
InSession ==
  {"ACCEPTED", "CALL", "BYEING", "ReINVITING", "ReINVITED", "ReREFUSED",
   "ReACCEPTED"}

\* A step that has no callback in Call bears the name of the handler in which
\* the dialog makes it.
Steps ==
  [onDlgInvite                  |-> {<<"WAITING", "INVITED">>},
   onDlgReInvite                |-> InSession \X {"ReINVITED"},
   onDlgInviteSuccessResponse   |-> {<<"INVITING", "CALL">>},
   onDlgInviteFailureResponse   |-> {<<"INVITING", "CLOSE">>},
   onDlgInviteRedirectResponse  |-> {<<"INVITING", "CLOSE">>},
   onDlgReInviteSuccessResponse |-> {<<"ReINVITING", "CALL">>},
   onDlgReInviteFailureResponse |-> {<<"ReINVITING", "CALL">>},
   onDlgTimeout                 |-> {"INVITING", "ReINVITING"} \X {"CLOSE"},
   onDlgAck                     |-> {"ACCEPTED", "ReACCEPTED"} \X {"CALL"},
   onDlgCancel                  |-> {<<"INVITED", "REFUSED">>,
                                     <<"ReINVITED", "ReREFUSED">>},
   onDlgBye                     |-> {"CALL", "BYEING"} \X {"CLOSE"},
   onDlgByeSuccessResponse      |-> {<<"BYEING", "CLOSE">>},
   onDlgByeFailureResponse      |-> {<<"BYEING", "CALL">>},
   onTransTimeout               |-> {<<"BYEING", "CLOSE">>},
   onTransAckTimeout            |-> {"ACCEPTED", "ReACCEPTED", "ReREFUSED"}
                                      \X {"CLOSE"},
   onTransFailureAck            |-> {<<"REFUSED", "CLOSE">>,
                                     <<"ReREFUSED", "CALL">>}]

\* What the Call asks of its dialog: accept(); refuse(), cancel() and bye()
\* one after the other; reInvite().  A CANCEL leaves the status as it is.
Accepted(st) ==
  CASE st = "INVITED"   -> "ACCEPTED"
    [] st = "ReINVITED" -> "ReACCEPTED"
    [] OTHER -> st

HungUp(st) ==
  CASE st = "INVITED"   -> "REFUSED"
    [] st = "ReINVITED" -> "ReREFUSED"
    [] st = "CALL"      -> "BYEING"
    [] OTHER -> st

Modified(st) == IF st = "CALL" THEN "ReINVITING" ELSE st

=============================================================================
