------------------------- MODULE DialogSteps_proofs -------------------------
(***************************************************************************)
(* The interface between the dialogs and the user agent: InviteDialog, with *)
(* its transactions and its network, takes no dialog from one status to    *)
(* another but by the steps of DialogSteps.  UserAgent takes them for its  *)
(* environment, and its theorems assume no more of a dialog.               *)
(***************************************************************************)
EXTENDS MCInviteDialog, InviteDialog_proofs

-----------------------------------------------------------------------------
(* Steps of a status.                                                      *)

\* What FollowsSteps allows.
StatusStep(st, next) ==
  \/ next \in {st, Accepted(st), HungUp(st), Modified(st)}
  \/ st = "INIT" /\ next \in {"WAITING", "INVITING"}
  \/ \E event \in DOMAIN Steps : <<st, next>> \in Steps[event]

\* The steps that handlers of messages and of time-outs make, each with a
\* callback that has it.
LEMMA CallbackSteps ==
  /\ StatusStep("WAITING", "INVITED")
  /\ \A st \in InSession : StatusStep(st, "ReINVITED")
  /\ \A st \in {"INVITING", "ReINVITING", "ACCEPTED", "ReACCEPTED", "BYEING",
                "ReREFUSED"} :
       StatusStep(st, "CALL")
  /\ \A st \in {"INVITING", "ReINVITING", "CALL", "BYEING", "REFUSED", "ACCEPTED",
                "ReACCEPTED", "ReREFUSED"} :
       StatusStep(st, "CLOSE")
<1>1. DOMAIN Steps =
        {"onDlgInvite", "onDlgReInvite", "onDlgInviteSuccessResponse",
         "onDlgInviteFailureResponse", "onDlgInviteRedirectResponse",
         "onDlgReInviteSuccessResponse", "onDlgReInviteFailureResponse",
         "onDlgTimeout", "onDlgAck", "onDlgCancel", "onDlgBye",
         "onDlgByeSuccessResponse", "onDlgByeFailureResponse", "onTransTimeout",
         "onTransAckTimeout", "onTransFailureAck"}
  BY DEF Steps
<1>2. /\ Steps["onDlgInvite"] = {<<"WAITING", "INVITED">>}
      /\ Steps["onDlgReInvite"] = InSession \X {"ReINVITED"}
      /\ Steps["onDlgInviteSuccessResponse"] = {<<"INVITING", "CALL">>}
      /\ Steps["onDlgReInviteSuccessResponse"] = {<<"ReINVITING", "CALL">>}
      /\ Steps["onDlgAck"] = {"ACCEPTED", "ReACCEPTED"} \X {"CALL"}
      /\ Steps["onDlgByeFailureResponse"] = {<<"BYEING", "CALL">>}
      /\ Steps["onTransFailureAck"] = {<<"REFUSED", "CLOSE">>, <<"ReREFUSED", "CALL">>}
      /\ Steps["onDlgTimeout"] = {"INVITING", "ReINVITING"} \X {"CLOSE"}
      /\ Steps["onDlgBye"] = {"CALL", "BYEING"} \X {"CLOSE"}
      /\ Steps["onTransAckTimeout"] = {"ACCEPTED", "ReACCEPTED", "ReREFUSED"} \X {"CLOSE"}
  BY DEF Steps
<1>3. ASSUME NEW event \in DOMAIN Steps, NEW st, NEW next,
             <<st, next>> \in Steps[event]
      PROVE  StatusStep(st, next)
  BY <1>3 DEF StatusStep
<1>4. StatusStep("WAITING", "INVITED")
  BY <1>1, <1>2, <1>3
<1>5. ASSUME NEW st \in InSession
      PROVE  StatusStep(st, "ReINVITED")
  BY <1>1, <1>2, <1>3
<1>6. ASSUME NEW st \in {"INVITING", "ReINVITING", "ACCEPTED", "ReACCEPTED", "BYEING",
                         "ReREFUSED"}
      PROVE  StatusStep(st, "CALL")
  <2>1. /\ <<"INVITING", "CALL">> \in Steps["onDlgInviteSuccessResponse"]
        /\ <<"ReINVITING", "CALL">> \in Steps["onDlgReInviteSuccessResponse"]
        /\ <<"ACCEPTED", "CALL">> \in Steps["onDlgAck"]
        /\ <<"ReACCEPTED", "CALL">> \in Steps["onDlgAck"]
        /\ <<"BYEING", "CALL">> \in Steps["onDlgByeFailureResponse"]
        /\ <<"ReREFUSED", "CALL">> \in Steps["onTransFailureAck"]
    BY <1>2
  <2> QED
    BY <1>1, <1>3, <2>1
<1>7. ASSUME NEW st \in {"INVITING", "ReINVITING", "CALL", "BYEING", "REFUSED",
                         "ACCEPTED", "ReACCEPTED", "ReREFUSED"}
      PROVE  StatusStep(st, "CLOSE")
  <2>1. /\ \A x \in {"INVITING", "ReINVITING"} : <<x, "CLOSE">> \in Steps["onDlgTimeout"]
        /\ \A x \in {"CALL", "BYEING"} : <<x, "CLOSE">> \in Steps["onDlgBye"]
        /\ <<"REFUSED", "CLOSE">> \in Steps["onTransFailureAck"]
        /\ \A x \in {"ACCEPTED", "ReACCEPTED", "ReREFUSED"} :
             <<x, "CLOSE">> \in Steps["onTransAckTimeout"]
    BY <1>2
  <2> QED
    BY <1>1, <1>3, <2>1
<1> QED
  BY <1>4, <1>5, <1>6, <1>7

\* The steps that the Call asks for.
LEMMA UserSteps ==
  /\ \A st : StatusStep(st, st)
  /\ StatusStep("INIT", "WAITING") /\ StatusStep("INIT", "INVITING")
  /\ StatusStep("INVITED", "ACCEPTED") /\ StatusStep("ReINVITED", "ReACCEPTED")
  /\ StatusStep("INVITED", "REFUSED") /\ StatusStep("ReINVITED", "ReREFUSED")
  /\ StatusStep("CALL", "BYEING") /\ StatusStep("CALL", "ReINVITING")
BY DEF StatusStep, Accepted, HungUp, Modified

-----------------------------------------------------------------------------
(* Every handler makes a step of the status.                               *)

\* What the application asks of a dialog.
LEMMA UserHandlersStep ==
  ASSUME NEW d \in Dialog, NEW c \in CSeq
  PROVE  /\ d.status = "INIT" => StatusStep(d.status, Inviting(d).status)
         /\ d.status = "INIT" =>
              StatusStep(d.status, [d EXCEPT !.status = "WAITING", !.listening = TRUE].status)
         /\ d.status = "CALL" => StatusStep(d.status, ReInviting(d, c).status)
         /\ d.status = "CALL" => StatusStep(d.status, Byeing(d, c).status)
         /\ IsInvited(d) => StatusStep(d.status, Accepting(d).status)
         /\ IsInvited(d) => StatusStep(d.status, Refusing(d).status)
         /\ StatusStep(d.status, Cancelling(d).status)
<1>1. /\ Inviting(d).status = "INVITING"
      /\ [d EXCEPT !.status = "WAITING", !.listening = TRUE].status = "WAITING"
      /\ ReInviting(d, c).status = "ReINVITING"
      /\ Byeing(d, c).status = "BYEING"
  BY DEF Inviting, ReInviting, Byeing, Send, Dialog
<1>2. /\ Accepting(d).status = IF d.status = "INVITED" THEN "ACCEPTED" ELSE "ReACCEPTED"
      /\ Refusing(d).status = IF d.status = "INVITED" THEN "REFUSED" ELSE "ReREFUSED"
  BY DEF Accepting, Refusing, Send, Dialog
<1>3. Cancelling(d).status = d.status
  BY DEF Cancelling, Send, Dialog
<1> QED
  BY <1>1, <1>2, <1>3, UserSteps DEF IsInvited

\* The reception of a message.
LEMMA MessageHandlersStep ==
  ASSUME NEW d \in Dialog, NEW c \in CSeq
  PROVE  /\ d.status = "WAITING" => StatusStep(d.status, Invited(d, c).status)
         /\ d.status \in InSession => StatusStep(d.status, ReInvited(d, c).status)
         /\ StatusStep(d.status, Confirming(d).status)
         /\ StatusStep(d.status, RefusalAcknowledged(d, c).status)
         /\ d.status \in {"CALL", "BYEING"} =>
              StatusStep(d.status, ByeReceived(d, c).status)
         /\ StatusStep(d.status, InviteProceeding(d, c).status)
         /\ StatusStep(d.status, InviteSucceeded(d, c).status)
         /\ StatusStep(d.status, InviteFailed(d, c).status)
         /\ StatusStep(d.status, ByeSucceeded(d, c).status)
         /\ StatusStep(d.status, ByeFailed(d, c).status)
<1>1. Invited(d, c).status = "INVITED" /\ ReInvited(d, c).status = "ReINVITED"
  BY DEF Invited, ReInvited, ServingInvite, Send, Dialog
<1>2. Confirming(d).status =
        IF d.status \in {"ACCEPTED", "ReACCEPTED"} THEN "CALL" ELSE d.status
  BY DEF Confirming, Dialog
<1>3. RefusalAcknowledged(d, c).status =
        CASE d.status = "REFUSED" -> "CLOSE"
          [] d.status = "ReREFUSED" -> "CALL"
          [] OTHER -> d.status
  BY DEF RefusalAcknowledged, Close, Dialog
<1>4. ByeReceived(d, c).status = "CLOSE"
  BY DEF ByeReceived, Close, Send, Dialog
<1>5. InviteProceeding(d, c).status = d.status
  BY DEF InviteProceeding, Dialog
<1>6. InviteSucceeded(d, c).status =
        IF d.status \in {"INVITING", "ReINVITING"} THEN "CALL" ELSE d.status
  BY DEF InviteSucceeded, Send, Dialog
<1>7. InviteFailed(d, c).status =
        CASE d.status = "INVITING" -> "CLOSE"
          [] d.status = "ReINVITING" -> "CALL"
          [] OTHER -> d.status
  BY DEF InviteFailed, Close, Send, Dialog
<1>8. ByeSucceeded(d, c).status = IF d.status = "BYEING" THEN "CLOSE" ELSE d.status
  BY DEF ByeSucceeded, Close, Dialog
<1>9. ByeFailed(d, c).status = IF d.status = "BYEING" THEN "CALL" ELSE d.status
  BY DEF ByeFailed, Dialog
<1> QED
  BY <1>1, <1>2, <1>3, <1>4, <1>5, <1>6, <1>7, <1>8, <1>9, CallbackSteps, UserSteps

\* The expiry of a timer.
LEMMA TimerHandlersStep ==
  ASSUME NEW d \in Dialog, NEW c \in CSeq
  PROVE  /\ StatusStep(d.status, InviteTimedOut(d, c).status)
         /\ StatusStep(d.status, ByeTimedOut(d, c).status)
         /\ StatusStep(d.status, AckTimedOut(d, c).status)
         /\ StatusStep(d.status, [d EXCEPT !.invite_ts[c] = "TERMINATED"].status)
<1>1. InviteTimedOut(d, c).status =
        IF d.status \in {"INVITING", "ReINVITING"} THEN "CLOSE" ELSE d.status
  BY DEF InviteTimedOut, Cancelling, Close, Send, Dialog
<1>2. ByeTimedOut(d, c).status = IF d.status = "BYEING" THEN "CLOSE" ELSE d.status
  BY DEF ByeTimedOut, Close, Dialog
<1>3. AckTimedOut(d, c).status =
        IF d.status \in {"ACCEPTED", "ReACCEPTED", "REFUSED", "ReREFUSED"}
        THEN "CLOSE" ELSE d.status
  BY DEF AckTimedOut, Close, Dialog
<1>4. [d EXCEPT !.invite_ts[c] = "TERMINATED"].status = d.status
  BY DEF Dialog
<1> QED
  BY <1>1, <1>2, <1>3, <1>4, CallbackSteps, UserSteps

-----------------------------------------------------------------------------
(* Every step of the two dialogs is a handler of one of them.              *)

\* p's dialog makes a step, the other none.
Stepped(p) == \E e : Becomes(p, e) /\ StatusStep(dlg[p].status, e.status)

LEMMA ApplicationSteps ==
  ASSUME IInv, Application
  PROVE  \E p \in Peer : Stepped(p)
<1>1. \A p \in Peer : DialogInv(p, dlg[p]) /\ dlg[p] \in Dialog
  BY DEF IInv, DialogInv
<1>2. CASE Listen("callee")
  BY <1>1, <1>2, UserHandlersStep, CSeqRanges DEF Listen, Stepped, Peer
<1>3. CASE Invite("caller")
  BY <1>1, <1>3, UserHandlersStep, CSeqRanges DEF Invite, Stepped, Peer
<1>4. ASSUME NEW p \in Peer, ReInvite(p) \/ Bye(p)
      PROVE  Stepped(p)
  <2>1. dlg[p].status = "CALL" /\ dlg[p].local_cseq < LastCSeq[p]
    BY <1>4 DEF ReInvite, Bye
  <2>2. dlg[p].local_cseq \in CSeqOrNull
    BY <1>1, <2>1 DEF DialogInv, CSeqInv
  <2>3. dlg[p].local_cseq + 1 \in CSeq
    BY <2>1, <2>2, NextCSeq
  <2> QED
    BY <1>1, <1>4, <2>1, <2>3, UserHandlersStep DEF ReInvite, Bye, Stepped
<1>5. ASSUME NEW p \in Peer, Accept(p) \/ Refuse(p) \/ Cancel(p)
      PROVE  Stepped(p)
  BY <1>1, <1>5, UserHandlersStep, CSeqRanges DEF Accept, Refuse, Cancel, Stepped
<1> QED
  BY <1>2, <1>3, <1>4, <1>5 DEF Application, Peer

LEMMA ReceiveSteps ==
  ASSUME IInv, NEW p \in Peer, NEW m \in dlg[Other(p)].sent, Receive(p, m)
  PROVE  Stepped(p)
<1> DEFINE d == dlg[p]
           c == m.cseq
<1>1. DialogInv(p, d) /\ d \in Dialog
  BY DEF IInv, DialogInv
<1>2. m \in Msg /\ c \in CSeq
  BY DEF IInv, TypeOK, Other, Peer, Dialog, Msg
<1>3. CASE OnInitialInvite(p, m)
  BY <1>1, <1>2, <1>3, MessageHandlersStep DEF OnInitialInvite, Stepped
<1>4. CASE OnReInvite(p, m)
  \* A dialog in its setup has seen the only INVITE that could reach it.
  <2>1. d.key = "full"
    BY <1>1, <1>4
       DEF OnReInvite, KeyOf, Initial, Other, Peer, DialogInv, KeyInv, CSeqInv,
           RoleInv
  <2>2. d.status \in InSession
    BY <1>1, <2>1 DEF DialogInv, KeyInv, InSession, Dialog, DialogStatus
  <2> QED
    BY <1>1, <1>2, <1>4, <2>2, MessageHandlersStep DEF OnReInvite, Stepped
<1>5. CASE OnAck(p, m) \/ OnLateRefusalAck(p, m)
  BY <1>1, <1>2, <1>5, MessageHandlersStep DEF OnAck, OnLateRefusalAck, Stepped
<1>6. CASE OnRefusalAck(p, m)
  BY <1>1, <1>2, <1>6, MessageHandlersStep DEF OnRefusalAck, Stepped
<1>7. CASE OnBye(p, m)
  BY <1>1, <1>2, <1>7, MessageHandlersStep DEF OnBye, Stepped
<1>8. CASE OnCancel(p, m)
  BY <1>1, <1>2, <1>8, UserHandlersStep DEF OnCancel, Stepped
<1>9. CASE OnInviteResponse(p, m)
  BY <1>1, <1>2, <1>9, MessageHandlersStep DEF OnInviteResponse, Stepped
<1>10. CASE OnByeResponse(p, m)
  BY <1>1, <1>2, <1>10, MessageHandlersStep DEF OnByeResponse, Stepped
<1> QED
  BY <1>3, <1>4, <1>5, <1>6, <1>7, <1>8, <1>9, <1>10 DEF Receive

LEMMA TimersStep ==
  ASSUME IInv, Timers
  PROVE  \E p \in Peer : Stepped(p)
<1>1. PICK p \in Peer, c \in CSeq :
        InviteTimeout(p, c) \/ ByeTimeout(p, c) \/ AckTimeout(p, c)
          \/ InviteServerEnd(p, c)
  BY DEF Timers
<1>2. dlg[p] \in Dialog
  BY DEF IInv, TypeOK
<1> QED
  BY <1>1, <1>2, TimerHandlersStep
     DEF InviteTimeout, ByeTimeout, AckTimeout, InviteServerEnd, Stepped

LEMMA NextSteps ==
  ASSUME IInv, Next
  PROVE  \E p \in Peer : Stepped(p)
<1>1. CASE Network
  <2>1. ASSUME NEW p \in Peer, NEW c \in CSeq, ProxyFailsBye(p, c)
        PROVE  Stepped(p)
    <3>1. dlg[p] \in Dialog
      BY DEF IInv, TypeOK
    <3> QED
      BY <2>1, <3>1, MessageHandlersStep DEF ProxyFailsBye, Stepped
  <2> QED
    BY <1>1, <2>1, ReceiveSteps DEF Network
<1> QED
  BY <1>1, ApplicationSteps, TimersStep DEF Next

\* The status of a dialog changes by the steps of DialogSteps only, for every
\* number of requests, whatever is lost, repeated or late (InviteDialog, all
\* handlers): the user agent may rely on them.
THEOREM DialogsFollowSteps == Spec => FollowsSteps
<1>1. IInv /\ [Next]_dlg =>
        [\A p \in Peer :
           LET st == dlg[p].status
               next == dlg'[p].status
           IN \/ next \in {st, Accepted(st), HungUp(st), Modified(st)}
              \/ st = "INIT" /\ next \in {"WAITING", "INVITING"}
              \/ \E event \in DOMAIN Steps : <<st, next>> \in Steps[event]]_dlg
  <2> SUFFICES ASSUME IInv, Next, NEW q \in Peer
               PROVE  StatusStep(dlg[q].status, dlg'[q].status)
    BY DEF StatusStep
  <2>1. PICK p \in Peer : Stepped(p)
    BY NextSteps
  <2>2. PICK e : Becomes(p, e) /\ StatusStep(dlg[p].status, e.status)
    BY <2>1 DEF Stepped
  <2>3. dlg'[q] = IF q = p THEN e ELSE dlg[q]
    BY <2>2 DEF Becomes, IInv, TypeOK
  <2> QED
    BY <2>2, <2>3, UserSteps
<1> QED
  BY <1>1, Invariance, PTL DEF Spec, FollowsSteps

=============================================================================
