---------------------------- MODULE InviteDialog ----------------------------
(***************************************************************************)
(* One SIP session: the InviteDialog objects of a caller and of a callee   *)
(* (org.zoolu.sip.dialog), the transactions each of them owns, and the     *)
(* datagrams between them.                                                 *)
(*                                                                         *)
(* A handler of the code -- a call of the application, the reception of a  *)
(* message, the expiry of a timer -- is one action; it is a function from  *)
(* the dialog's state to its next state, so that a handler which calls     *)
(* another one is the composition of the two functions.                    *)
(*                                                                         *)
(* The network is UDP.  A dialog keeps the set of all messages it has      *)
(* sent; its peer may take any of them, at any time, any number of times,  *)
(* in any order, or never.  That is loss, duplication, delay and           *)
(* reordering at once, and it makes a retransmission a step that changes   *)
(* nothing.  Only two classes of message are left out because no handler   *)
(* of either side changes anything on them: the responses to a CANCEL      *)
(* (its client transaction has no listener) and the 405 to other methods.  *)
(***************************************************************************)
EXTENDS Integers, Transactions

CONSTANTS
  MaxCSeq,     \* bound: the highest CSeq of the session
  LastCSeq     \* bound: LastCSeq[p], the CSeq of the last request p makes

VARIABLE dlg   \* dlg[p] is the InviteDialog of p

-----------------------------------------------------------------------------
Peer == {"caller", "callee"}

ASSUME CSeqAssumption ==
  /\ MaxCSeq \in Nat \ {0}
  /\ LastCSeq \in [Peer -> 0 .. MaxCSeq]

Other(p) == IF p = "caller" THEN "callee" ELSE "caller"

CSeq == 1 .. MaxCSeq
CSeqOrNull == 0 .. MaxCSeq         \* 0 stands for a null message or object
CSeqOrUnset == -1 .. MaxCSeq       \* -1 is the code's mark of an unset CSeq

\* "ACK" acknowledges a 2xx and belongs to the dialog; "NACK" stands for the
\* ACK of a 300-699, which carries the INVITE's branch and so belongs to the
\* INVITE's transaction.  A request has the code "req".
Msg == [method : {"INVITE", "ACK", "NACK", "BYE", "CANCEL"},
        cseq   : CSeq,
        code   : Code \cup {"req"}]

Request(method, c) == [method |-> method, cseq |-> c, code |-> "req"]
Response(method, c, code) == [method |-> method, cseq |-> c, code |-> code]

\* D_ReWAITING is declared by the code and never entered.
DialogStatus ==
  {"INIT", "WAITING", "INVITING", "INVITED", "REFUSED", "ACCEPTED", "CALL",
   "BYEING", "CLOSE", "ReINVITING", "ReINVITED", "ReREFUSED", "ReACCEPTED"}

\* What the SipProvider holds for the dialog: no listener, one under an
\* identifier in which the callee's tag is still missing, or one under the
\* complete identifier.
ListenerKey == {"none", "half", "full"}

Dialog ==
  [status      : DialogStatus,
   local_cseq  : CSeqOrUnset,
   remote_cseq : CSeqOrUnset,
   invite_req  : CSeqOrNull,              \* CSeq of the request invite_req
   listening   : BOOLEAN,                 \* invite_ts listens for INVITEs
   key         : ListenerKey,
   invite_tc   : [CSeq -> TransStatus],   \* by CSeq of the own INVITE
   invite_ts   : [CSeq -> TransStatus],   \* by CSeq of the peer's INVITE
   ack_tss     : [CSeq -> TransStatus],   \* AckTransactionServers, likewise
   ack_ts      : CSeqOrNull,              \* the one the field ack_ts holds
   bye_tc      : [CSeq -> TransStatus],   \* by CSeq of the own BYE
   sent        : SUBSET Msg]

TypeOK == dlg \in [Peer -> Dialog]

NoTransaction == [c \in CSeq |-> "IDLE"]

NewDialog ==
  [status |-> "INIT", local_cseq |-> -1, remote_cseq |-> -1, invite_req |-> 0,
   listening |-> FALSE, key |-> "none", invite_tc |-> NoTransaction,
   invite_ts |-> NoTransaction, ack_tss |-> NoTransaction, ack_ts |-> 0,
   bye_tc |-> NoTransaction, sent |-> {}]

Init == dlg = [p \in Peer |-> NewDialog]

-----------------------------------------------------------------------------
(* Parts of handlers.                                                      *)

Send(d, m) == [d EXCEPT !.sent = @ \cup {m}]

\* (Seeded fault.)  changeStatus forgets the listener.
CloseKeepsListener(d) == [d EXCEPT !.status = "CLOSE"]

\* changeStatus removes the dialog's listener when it reaches D_CLOSE.
Close(d) == [d EXCEPT !.status = "CLOSE", !.key = "none"]

\* (Seeded fault.)  invite_req stays the INVITE received before.
ServingOldInvite(d, c) ==
  [Send(d, Response("INVITE", c, "1xx")) EXCEPT
     !.remote_cseq = c,
     !.invite_ts[c] = "PROCEEDING"]

\* A new InviteTransactionServer answers the INVITE with a 100 at once.
ServingInvite(d, c) ==
  [Send(d, Response("INVITE", c, "1xx")) EXCEPT
     !.invite_req = c,
     !.remote_cseq = c,
     !.invite_ts[c] = "PROCEEDING"]

\* Whether a request of p was built outside any dialog, with no To tag.
Initial(p, c) == p = "caller" /\ c = 1

\* The listener key under which the SipProvider finds the dialog for the
\* request c of p.
KeyOf(p, c) == IF Initial(p, c) THEN "half" ELSE "full"

\* The handler that takes p's dialog to d.
Becomes(p, d) == dlg' = [dlg EXCEPT ![p] = d]

-----------------------------------------------------------------------------
(* What the application asks of the dialog.                                *)

\* InviteDialog.listen()
Listen(p) ==
  /\ dlg[p].status = "INIT"
  /\ Becomes(p, [dlg[p] EXCEPT !.status = "WAITING", !.listening = TRUE])

\* InviteDialog.invite(): pickInitialCSeq() is 1.
Inviting(d) ==
  [Send(d, Request("INVITE", 1)) EXCEPT
     !.status = "INVITING",
     !.invite_req = 1,
     !.local_cseq = 1,
     !.key = "half",
     !.invite_tc[1] = "TRYING"]

Invite(p) ==
  /\ dlg[p].status = "INIT"
  /\ Becomes(p, Inviting(dlg[p]))

\* InviteDialog.reInvite(), with c the next local CSeq
ReInviting(d, c) ==
  [Send(d, Request("INVITE", c)) EXCEPT
     !.status = "ReINVITING",
     !.invite_req = c,
     !.local_cseq = c,
     !.invite_tc[c] = "TRYING"]

ReInvite(p) ==
  /\ dlg[p].status = "CALL"
  /\ dlg[p].local_cseq < LastCSeq[p]
  /\ Becomes(p, ReInviting(dlg[p], dlg[p].local_cseq + 1))

\* Whether respond() has an INVITE to answer.
IsInvited(d) == d.status \in {"INVITED", "ReINVITED"}

\* (Seeded fault.)  ack_ts is set but its respond() is not called.
AcceptingUnwatched(d) ==
  LET c == d.invite_req
  IN [Send(d, Response("INVITE", c, "2xx")) EXCEPT
        !.remote_cseq = c,
        !.key = "full",
        !.status = IF d.status = "INVITED" THEN "ACCEPTED" ELSE "ReACCEPTED",
        !.invite_ts[c] = "TERMINATED",
        !.ack_ts = c]

\* respond with a 2xx: the INVITE's server transaction is terminated and an
\* AckTransactionServer takes over, the dialog's identifier is complete.
Accepting(d) ==
  LET c == d.invite_req
  IN [Send(d, Response("INVITE", c, "2xx")) EXCEPT
        !.remote_cseq = c,
        !.key = "full",
        !.status = IF d.status = "INVITED" THEN "ACCEPTED" ELSE "ReACCEPTED",
        !.invite_ts[c] = "TERMINATED",
        !.ack_ts = c,
        !.ack_tss[c] = "PROCEEDING"]

\* InviteDialog.accept().  A 1xx, ring(), is sent like the first 100 and
\* leaves no other trace.
Accept(p) ==
  /\ IsInvited(dlg[p])
  /\ Becomes(p, Accepting(dlg[p]))

\* respond with a 300-699.
Refusing(d) ==
  LET c == d.invite_req
  IN [Send(d, Response("INVITE", c, "fail")) EXCEPT
        !.remote_cseq = c,
        !.status = IF d.status = "INVITED" THEN "REFUSED" ELSE "ReREFUSED",
        !.invite_ts[c] = InviteServerOnRefusal(d.invite_ts[c])]

\* InviteDialog.refuse(), busy(), redirect()
Refuse(p) ==
  /\ IsInvited(dlg[p])
  /\ Becomes(p, Refusing(dlg[p]))

\* The CANCEL has the CSeq of invite_req, and the status does not change.
Cancelling(d) ==
  IF d.status = "WAITING"
  THEN [d EXCEPT !.listening = FALSE]
  ELSE Send(d, Request("CANCEL", d.invite_req))

\* InviteDialog.cancel()
Cancel(p) ==
  /\ dlg[p].status \in {"INVITING", "ReINVITING", "WAITING"}
  /\ Becomes(p, Cancelling(dlg[p]))

\* InviteDialog.bye(), with c the next local CSeq
Byeing(d, c) ==
  [Send(d, Request("BYE", c)) EXCEPT
     !.status = "BYEING",
     !.local_cseq = c,
     !.bye_tc[c] = "TRYING"]

Bye(p) ==
  /\ dlg[p].status = "CALL"
  /\ dlg[p].local_cseq < LastCSeq[p]
  /\ Becomes(p, Byeing(dlg[p], dlg[p].local_cseq + 1))

-----------------------------------------------------------------------------
(* The reception of m, which the other side sent.                          *)

\* The INVITE that opens the session reaches the InviteTransactionServer
\* that listens for the method, and onTransRequest.
Invited(d, c) ==
  [ServingInvite(d, c) EXCEPT
     !.status = "INVITED",
     !.listening = FALSE,
     !.local_cseq = 0,                    \* pickInitialCSeq() - 1
     !.key = "half"]

OnInitialInvite(p, m) ==
  /\ m.method = "INVITE" /\ m.code = "req" /\ Initial(Other(p), m.cseq)
  /\ dlg[p].status = "WAITING" /\ dlg[p].listening
  /\ Becomes(p, Invited(dlg[p], m.cseq))

\* A later INVITE reaches the dialog, unless its own transaction takes it.
\* The status is verified (and logged) but any status goes to D_ReINVITED.
ReInvited(d, c) == [ServingInvite(d, c) EXCEPT !.status = "ReINVITED"]

\* (Seeded fault.)  The filter on the CSeq is missing.
OnReInviteUnfiltered(p, m) ==
  /\ m.method = "INVITE" /\ m.code = "req"
  /\ dlg[p].key = KeyOf(Other(p), m.cseq)
  /\ ~Registered(dlg[p].invite_ts[m.cseq])
  /\ Becomes(p, ReInvited(dlg[p], m.cseq))

OnReInvite(p, m) ==
  /\ m.method = "INVITE" /\ m.code = "req"
  /\ dlg[p].key = KeyOf(Other(p), m.cseq)
  /\ ~Registered(dlg[p].invite_ts[m.cseq])
  /\ m.cseq > dlg[p].remote_cseq
  /\ Becomes(p, ReInvited(dlg[p], m.cseq))

\* (Seeded fault.)  The status is not verified.
ConfirmingAlways(d) == [d EXCEPT !.status = "CALL"]

\* An ACK that reaches the dialog: nothing relates it to the INVITE that was
\* accepted last.
Confirming(d) ==
  IF d.status \in {"ACCEPTED", "ReACCEPTED"}
  THEN [d EXCEPT !.status = "CALL", !.ack_tss[d.ack_ts] = "TERMINATED"]
  ELSE d

OnAck(p, m) ==
  /\ m.method = "ACK"
  /\ dlg[p].key = "full"
  /\ Becomes(p, Confirming(dlg[p]))

\* The ACK of a 300-699 for the server transaction c, and onTransFailureAck,
\* which does not ask whether c is the INVITE refused last.
RefusalAcknowledged(d, c) ==
  LET e == [d EXCEPT !.invite_ts[c] = InviteServerOnAck(d.invite_ts[c])]
  IN CASE d.status = "REFUSED"   -> Close(e)
       [] d.status = "ReREFUSED" -> [e EXCEPT !.status = "CALL"]
       [] OTHER -> e

OnRefusalAck(p, m) ==
  /\ m.method = "NACK"
  /\ dlg[p].invite_ts[m.cseq] = "COMPLETED"
  /\ Becomes(p, RefusalAcknowledged(dlg[p], m.cseq))

\* The ACK of a 300-699 whose server transaction is over reaches the dialog,
\* which takes it for the ACK of a 2xx.
OnLateRefusalAck(p, m) ==
  /\ m.method = "NACK"
  /\ ~Registered(dlg[p].invite_ts[m.cseq])
  /\ dlg[p].key = KeyOf(Other(p), m.cseq)
  /\ Becomes(p, Confirming(dlg[p]))

\* (Seeded fault.)  The dialog stays in D_BYED.
ByeReceivedOnly(d, c) ==
  [Send(d, Response("BYE", c, "2xx")) EXCEPT !.status = "BYED"]

\* The 200 is automatic, D_BYED is left within the handler.  remote_cseq
\* stays what it was.
ByeReceived(d, c) == Close(Send(d, Response("BYE", c, "2xx")))

OnBye(p, m) ==
  /\ m.method = "BYE" /\ m.code = "req"
  /\ dlg[p].key = "full"
  /\ m.cseq > dlg[p].remote_cseq
  /\ dlg[p].status \in {"CALL", "BYEING"}
  /\ Becomes(p, ByeReceived(dlg[p], m.cseq))

\* The CSeq of a CANCEL is not compared with anything.
OnCancel(p, m) ==
  /\ m.method = "CANCEL"
  /\ dlg[p].key = KeyOf(Other(p), m.cseq)
  /\ IsInvited(dlg[p])
  /\ Becomes(p, Refusing(dlg[p]))

\* A response for the InviteTransactionClient c, and onTransSuccessResponse,
\* onTransFailureResponse.  Neither asks whether c is invite_req.
InviteProceeding(d, c) ==
  [d EXCEPT !.invite_tc[c] = InviteClientOnResponse("1xx")]

InviteSucceeded(d, c) ==
  LET e == [d EXCEPT !.invite_tc[c] = InviteClientOnResponse("2xx")]
  IN IF d.status \in {"INVITING", "ReINVITING"}
     THEN [Send(e, Request("ACK", c)) EXCEPT
             !.status = "CALL", !.local_cseq = c, !.key = "full"]
     ELSE e

InviteFailed(d, c) ==
  LET e == [Send(d, Request("NACK", c)) EXCEPT
              !.invite_tc[c] = InviteClientOnResponse("fail")]
  IN CASE d.status = "INVITING"   -> Close(e)
       [] d.status = "ReINVITING" -> [e EXCEPT !.status = "CALL"]
       [] OTHER -> e

\* A response that finds the transaction over only makes the dialog send its
\* last ACK again.
OnInviteResponse(p, m) ==
  /\ m.method = "INVITE"
  /\ Pending(dlg[p].invite_tc[m.cseq])
  /\ \/ m.code = "1xx"  /\ Becomes(p, InviteProceeding(dlg[p], m.cseq))
     \/ m.code = "2xx"  /\ Becomes(p, InviteSucceeded(dlg[p], m.cseq))
     \/ m.code = "fail" /\ Becomes(p, InviteFailed(dlg[p], m.cseq))

\* The final response for the TransactionClient of the BYE c: a 300-699 takes
\* the dialog back to D_CALL.
ByeSucceeded(d, c) ==
  LET e == [d EXCEPT !.bye_tc[c] = ClientOnResponse("2xx")]
  IN IF d.status = "BYEING" THEN Close(e) ELSE e

ByeFailed(d, c) ==
  LET e == [d EXCEPT !.bye_tc[c] = ClientOnResponse("fail")]
  IN IF d.status = "BYEING" THEN [e EXCEPT !.status = "CALL"] ELSE e

OnByeResponse(p, m) ==
  /\ m.method = "BYE" /\ m.code = "2xx"
  /\ Pending(dlg[p].bye_tc[m.cseq])
  /\ Becomes(p, ByeSucceeded(dlg[p], m.cseq))

Receive(p, m) ==
  \/ OnInitialInvite(p, m)
  \/ OnReInvite(p, m)
  \/ OnAck(p, m)
  \/ OnRefusalAck(p, m)
  \/ OnLateRefusalAck(p, m)
  \/ OnBye(p, m)
  \/ OnCancel(p, m)
  \/ OnInviteResponse(p, m)
  \/ OnByeResponse(p, m)

\* A proxy on the path answers the BYE with a failure (408, 481, 503).
ProxyFailsBye(p, c) ==
  /\ Pending(dlg[p].bye_tc[c])
  /\ Becomes(p, ByeFailed(dlg[p], c))

-----------------------------------------------------------------------------
(* Timers.                                                                 *)

\* onTransTimeout cancels, then closes, whatever INVITE timed out.
InviteTimedOut(d, c) ==
  LET e == [d EXCEPT !.invite_tc[c] = "TERMINATED"]
  IN IF d.status \in {"INVITING", "ReINVITING"} THEN Close(Cancelling(e)) ELSE e

InviteTimeout(p, c) ==
  /\ InviteClientMayTimeOut(dlg[p].invite_tc[c])
  /\ Becomes(p, InviteTimedOut(dlg[p], c))

\* (Seeded fault.)  onTransTimeout forgets the BYE.
ByeTimedOutSilently(d, c) == [d EXCEPT !.bye_tc[c] = "TERMINATED"]

ByeTimedOut(d, c) ==
  LET e == [d EXCEPT !.bye_tc[c] = "TERMINATED"]
  IN IF d.status = "BYEING" THEN Close(e) ELSE e

ByeTimeout(p, c) ==
  /\ ClientMayTimeOut(dlg[p].bye_tc[c])
  /\ Becomes(p, ByeTimedOut(dlg[p], c))

\* (Seeded fault.)  onTransAckTimeout forgets the re-INVITE.
AckTimedOutInSetup(d, c) ==
  LET e == [d EXCEPT !.ack_tss[c] = "TERMINATED"]
  IN IF d.status \in {"ACCEPTED", "REFUSED"} THEN Close(e) ELSE e

\* onTransAckTimeout, also when ts is not ack_ts any more.
AckTimedOut(d, c) ==
  LET e == [d EXCEPT !.ack_tss[c] = "TERMINATED"]
  IN IF d.status \in {"ACCEPTED", "ReACCEPTED", "REFUSED", "ReREFUSED"}
     THEN Close(e)
     ELSE e

AckTimeout(p, c) ==
  /\ AckServerMayTimeOut(dlg[p].ack_tss[c])
  /\ Becomes(p, AckTimedOut(dlg[p], c))

\* The end of a refused INVITE's server transaction tells the dialog nothing.
InviteServerEnd(p, c) ==
  /\ InviteServerMayEnd(dlg[p].invite_ts[c])
  /\ Becomes(p, [dlg[p] EXCEPT !.invite_ts[c] = "TERMINATED"])

-----------------------------------------------------------------------------
Application ==
  \/ Listen("callee")
  \/ Invite("caller")
  \/ \E p \in Peer :
       ReInvite(p) \/ Accept(p) \/ Refuse(p) \/ Cancel(p) \/ Bye(p)

Network ==
  \E p \in Peer :
    \/ \E m \in dlg[Other(p)].sent : Receive(p, m)
    \/ \E c \in CSeq : ProxyFailsBye(p, c)

Timers ==
  \E p \in Peer, c \in CSeq :
    \/ InviteTimeout(p, c)
    \/ ByeTimeout(p, c)
    \/ AckTimeout(p, c)
    \/ InviteServerEnd(p, c)

Next == Application \/ Network \/ Timers

Spec == Init /\ [][Next]_dlg

\* The java.util.Timer thread runs every timer that is not halted.
FairSpec ==
  /\ Spec
  /\ \A p \in Peer, c \in CSeq :
       /\ WF_dlg(InviteTimeout(p, c))
       /\ WF_dlg(ByeTimeout(p, c))
       /\ WF_dlg(AckTimeout(p, c))
       /\ WF_dlg(InviteServerEnd(p, c))

-----------------------------------------------------------------------------
(* Safety.                                                                 *)

\* An INVITE never gets both a 2xx and a refusal, whatever the user does and
\* however CANCELs, duplicates and late re-INVITEs interleave: the caller
\* acts on the first one it sees (respond, lines 377-437).
OneAnswer ==
  \A p \in Peer, c \in CSeq :
    ~ /\ Response("INVITE", c, "2xx") \in dlg[p].sent
      /\ Response("INVITE", c, "fail") \in dlg[p].sent

\* A dialog that waits for its peer has a live transaction that will report
\* to it: the INVITE's or BYE's client transaction, or the AckTransactionServer
\* the field ack_ts holds.  Stale transactions of older requests also report,
\* and must not take the place of the current one.
WaitingIsWatched ==
  \A p \in Peer :
    /\ dlg[p].status \in {"INVITING", "ReINVITING"} =>
         Pending(dlg[p].invite_tc[dlg[p].invite_req])
    /\ dlg[p].status \in {"ACCEPTED", "ReACCEPTED"} =>
         dlg[p].ack_tss[dlg[p].ack_ts] = "PROCEEDING"
    /\ dlg[p].status = "BYEING" =>
         Pending(dlg[p].bye_tc[dlg[p].local_cseq])

\* An invited dialog will answer the INVITE it received last, on a server
\* transaction that can still send the answer, although a re-INVITE replaces
\* invite_req and invite_ts in whatever state it finds the dialog.
AnswersLastInvite ==
  \A p \in Peer : IsInvited(dlg[p]) =>
    /\ dlg[p].invite_req = dlg[p].remote_cseq
    /\ Pending(dlg[p].invite_ts[dlg[p].invite_req])

\* The SipProvider can reach the dialog exactly from its first message to its
\* end, and under the complete identifier from the answer on: no dialog is
\* deaf, no closed dialog stays in the table of listeners.
ListenerFollowsStatus ==
  \A p \in Peer :
    dlg[p].key =
      CASE dlg[p].status \in {"INIT", "WAITING", "CLOSE"} -> "none"
        [] dlg[p].status \in {"INVITING", "INVITED", "REFUSED"} -> "half"
        [] OTHER -> "full"

\* The filter against late requests never loosens: remote_cseq never
\* decreases, although a final response sets it as well as a request.
RemoteCSeqGrows ==
  [][\A p \in Peer : dlg[p].remote_cseq <= dlg'[p].remote_cseq]_dlg

\* What a session promises its two users; see module Session.
Phase(d) ==
  CASE d.status \in {"INIT", "WAITING", "INVITING", "INVITED"} -> "setup"
    [] d.status \in {"REFUSED", "CLOSE"} -> "over"
    [] OTHER -> "call"

Answered == Response("INVITE", 1, "2xx") \in dlg["callee"].sent

Promise == INSTANCE Session
             WITH phase <- [p \in Peer |-> Phase(dlg[p])],
                  answered <- Answered

\* The dialogs implement Session: the caller is in the call only after the
\* callee accepted, and neither side comes back once its session is over.
KeepsPromise == Promise!Spec

-----------------------------------------------------------------------------
(* Liveness, under FairSpec.                                               *)

\* A 2xx that is never acknowledged does not keep the dialog waiting for
\* ever: its AckTransactionServer expires (onTransAckTimeout).
AckAwaitedEnds ==
  \A p \in Peer :
    dlg[p].status \in {"ACCEPTED", "ReACCEPTED"} ~>
      dlg[p].status \notin {"ACCEPTED", "ReACCEPTED"}

\* A hang-up ends even when no answer comes, in whatever way it ends.
ByeEnds ==
  \A p \in Peer : dlg[p].status = "BYEING" ~> dlg[p].status # "BYEING"

-----------------------------------------------------------------------------
(* What the comments of the code say and the code does not do.             *)

\* "increment the CSeq, if method is not ACK nor CANCEL" (createRequest): no
\* BYE has the CSeq of an INVITE of its own side.
OwnCSeq ==
  \A p \in Peer, c \in CSeq :
    ~ /\ Request("INVITE", c) \in dlg[p].sent
      /\ Request("BYE", c) \in dlg[p].sent

=============================================================================
