---------------------------- MODULE Transactions ----------------------------
(***************************************************************************)
(* The state machines of org.zoolu.sip.transaction as functions of a       *)
(* transaction's status: what a message that reaches the transaction, or   *)
(* one of its timers, does to it.  A dialog owns several of each kind; the *)
(* threads that may enter one object at the same time are the subject of   *)
(* ClientTransaction.                                                      *)
(*                                                                         *)
(* Only the class of a response's code matters to a transaction.           *)
(***************************************************************************)

TransStatus ==
  {"IDLE", "WAITING", "TRYING", "PROCEEDING", "COMPLETED", "CONFIRMED",
   "TERMINATED"}

\* 100-199, 200-299 and 300-699.
Code == {"1xx", "2xx", "fail"}

\* A client transaction still waits for its final response; a server
\* transaction still has to send one.
Pending(st) == st \in {"TRYING", "PROCEEDING"}

\* The SipProvider holds a listener under the transaction's identifier, so
\* that a message of the transaction goes to it and not to the dialog.
Registered(st) == st \in {"TRYING", "PROCEEDING", "COMPLETED", "CONFIRMED"}

\* InviteTransactionClient: a 2xx ends the transaction, since its ACK is the
\* dialog's business; another final response is acknowledged by the
\* transaction itself, which then waits to acknowledge it again.
InviteClientOnResponse(code) ==
  CASE code = "1xx"  -> "PROCEEDING"
    [] code = "2xx"  -> "TERMINATED"
    [] code = "fail" -> "COMPLETED"

\* InviteTransactionClient's transaction_to.  A provisional response halts
\* it, so an INVITE answered with a 1xx has no timeout any more.
InviteClientMayTimeOut(st) == st = "TRYING"

\* TransactionClient: a provisional response does not halt transaction_to.
ClientOnResponse(code) == IF code = "1xx" THEN "PROCEEDING" ELSE "COMPLETED"

ClientMayTimeOut(st) == Pending(st)

\* InviteTransactionServer.respondWith for 300-699: the response is
\* retransmitted until its ACK comes.
InviteServerOnRefusal(st) == IF Pending(st) THEN "COMPLETED" ELSE st

\* InviteTransactionServer.onReceivedMessage for the ACK of a 300-699.
InviteServerOnAck(st) == IF st = "COMPLETED" THEN "CONFIRMED" ELSE st

\* InviteTransactionServer's end_to (no ACK came) and clearing_to (it did).
InviteServerMayEnd(st) == st \in {"COMPLETED", "CONFIRMED"}

\* AckTransactionServer: retransmits a 2xx until the dialog terminates it or
\* its transaction_to expires.
AckServerMayTimeOut(st) == st = "PROCEEDING"

=============================================================================
