------------------------- MODULE InviteDialog_proofs ------------------------
(***************************************************************************)
(* Theorems about InviteDialog, for every bound on the CSeqs of the two    *)
(* sides.                                                                  *)
(*                                                                         *)
(* The inductive invariant says of each dialog, on its own, how its status *)
(* is tied to its listener key, its CSeqs, its transactions and what it    *)
(* has sent.  Nothing relates the two dialogs: all that one side knows of  *)
(* the other is in the messages it takes from the other's set.             *)
(***************************************************************************)
EXTENDS InviteDialog, TLAPS

USE CSeqAssumption

-----------------------------------------------------------------------------
(* The inductive invariant.                                                *)

\* Each side enters only the statuses of its role.
RoleInv(p, d) ==
  /\ p = "caller" => d.status \notin {"WAITING", "INVITED", "REFUSED", "ACCEPTED"}
  /\ p = "callee" => d.status # "INVITING"

\* The part of ListenerFollowsStatus about one dialog.
KeyInv(d) ==
  d.key = CASE d.status \in {"INIT", "WAITING", "CLOSE"} -> "none"
            [] d.status \in {"INVITING", "INVITED", "REFUSED"} -> "half"
            [] OTHER -> "full"

\* The CSeqs and the request at hand, status by status.
CSeqInv(d) ==
  /\ d.status \in {"INIT", "WAITING"} => d.remote_cseq = -1
  /\ d.status \notin {"INIT", "WAITING"} => d.local_cseq \in CSeqOrNull
  /\ d.status \in {"INVITING", "INVITED", "ReINVITING", "ReINVITED"} =>
       d.invite_req \in CSeq
  /\ d.status \in {"INVITED", "ReINVITED"} => d.remote_cseq = d.invite_req
  /\ d.status \in {"INVITED", "REFUSED"} => d.remote_cseq = 1
  /\ d.status \in {"INVITING", "INVITED"} => d.invite_req = 1

\* The live transactions, status by status.
TransInv(d) ==
  /\ d.status = "INIT" => d.invite_tc = NoTransaction
  /\ d.status = "INVITING" => \A c \in CSeq \ {1} : d.invite_tc[c] = "IDLE"
  /\ d.status \in {"INVITING", "ReINVITING"} => Pending(d.invite_tc[d.invite_req])
  /\ d.status \in {"INVITED", "ReINVITED"} => Pending(d.invite_ts[d.invite_req])
  /\ d.status \in {"ACCEPTED", "ReACCEPTED"} =>
       d.ack_ts \in CSeq /\ d.ack_tss[d.ack_ts] = "PROCEEDING"
  /\ d.status = "BYEING" =>
       d.local_cseq \in CSeq /\ Pending(d.bye_tc[d.local_cseq])

\* The INVITEs that have their final answer are those up to remote_cseq,
\* without the one the dialog is invited by; none has two answers.
AnswerInv(d) ==
  \A c \in CSeq :
    /\ \/ Response("INVITE", c, "2xx") \in d.sent
       \/ Response("INVITE", c, "fail") \in d.sent
       => /\ c <= d.remote_cseq
          /\ d.status \in {"INVITED", "ReINVITED"} => c # d.invite_req
    /\ ~ /\ Response("INVITE", c, "2xx") \in d.sent
         /\ Response("INVITE", c, "fail") \in d.sent

\* A callee that is past its setup and not refused has accepted.
AcceptedInv(p, d) ==
  p = "callee" =>
    /\ Phase(d) = "call" => Response("INVITE", 1, "2xx") \in d.sent
    /\ Phase(d) = "setup" => Response("INVITE", 1, "2xx") \notin d.sent

DialogInv(p, d) ==
  /\ d \in Dialog
  /\ RoleInv(p, d)
  /\ KeyInv(d)
  /\ CSeqInv(d)
  /\ TransInv(d)
  /\ AnswerInv(d)
  /\ AcceptedInv(p, d)

IInv ==
  /\ TypeOK
  /\ \A p \in Peer : DialogInv(p, dlg[p])

-----------------------------------------------------------------------------
(* Numbers and messages.                                                   *)

\* The three ranges of CSeqs are made of integers, and contain each other.
LEMMA CSeqRanges ==
  /\ \A c \in CSeq : c \in CSeqOrNull /\ c \in CSeqOrUnset /\ c \in Int
  /\ \A c \in CSeqOrNull : c \in CSeqOrUnset /\ c \in Int
  /\ \A c \in CSeqOrUnset : c \in Int
  /\ 1 \in CSeq /\ 0 \in CSeqOrNull /\ 0 \in CSeqOrUnset
BY DEF CSeq, CSeqOrNull, CSeqOrUnset

\* A request that p may still make has a CSeq in range.
LEMMA NextCSeq ==
  ASSUME NEW p \in Peer, NEW c \in CSeqOrNull, c < LastCSeq[p]
  PROVE  c + 1 \in CSeq
BY DEF CSeq, CSeqOrNull

\* The fields of a request and of a response.
LEMMA MsgFields ==
  \A method, c, code :
    /\ Request(method, c).method = method
    /\ Request(method, c).cseq = c
    /\ Request(method, c).code = "req"
    /\ Response(method, c, code).method = method
    /\ Response(method, c, code).cseq = c
    /\ Response(method, c, code).code = code
BY DEF Request, Response

\* Requests and responses are messages.
LEMMA MsgType ==
  \A c \in CSeq :
    /\ \A method \in {"INVITE", "ACK", "NACK", "BYE", "CANCEL"} :
         Request(method, c) \in Msg
    /\ \A method \in {"INVITE", "BYE"}, code \in {"1xx", "2xx", "fail"} :
         Response(method, c, code) \in Msg
BY DEF Request, Response, Msg, Code

-----------------------------------------------------------------------------
(* Every function a handler is made of keeps the invariant of a dialog.    *)

\* s is d after it sent m.
Sent(s, d, m) ==
  /\ s \in Dialog
  /\ s.sent = d.sent \cup {m}
  /\ s.status = d.status
  /\ s.key = d.key
  /\ s.local_cseq = d.local_cseq
  /\ s.remote_cseq = d.remote_cseq
  /\ s.invite_req = d.invite_req
  /\ s.listening = d.listening
  /\ s.invite_tc = d.invite_tc
  /\ s.invite_ts = d.invite_ts
  /\ s.ack_tss = d.ack_tss
  /\ s.ack_ts = d.ack_ts
  /\ s.bye_tc = d.bye_tc

\* Sending a message changes nothing else of the dialog.
LEMMA SendFields ==
  ASSUME NEW d \in Dialog, NEW m \in Msg
  PROVE  Sent(Send(d, m), d, m)
BY DEF Sent, Send, Dialog

\* changeStatus(D_CLOSE) preserves the invariant of a dialog, from any status.
LEMMA CloseInv ==
  ASSUME NEW p \in Peer, NEW d, DialogInv(p, d),
         d.status \notin {"INIT", "WAITING"}
  PROVE  DialogInv(p, Close(d))
<1> DEFINE e == Close(d)
<1>1. d \in Dialog
  BY DEF DialogInv
<1>2. e \in Dialog
  BY <1>1, CSeqRanges
     DEF Close, Dialog, DialogStatus, ListenerKey, TransStatus
<1>3. /\ e.status = "CLOSE"
      /\ e.key = "none"
      /\ e.local_cseq = d.local_cseq
      /\ e.remote_cseq = d.remote_cseq
      /\ e.invite_req = d.invite_req
      /\ e.sent = d.sent
      /\ e.invite_tc = d.invite_tc
      /\ e.invite_ts = d.invite_ts
      /\ e.ack_tss = d.ack_tss
      /\ e.ack_ts = d.ack_ts
      /\ e.bye_tc = d.bye_tc
      /\ e.listening = d.listening
  BY <1>1, CSeqRanges DEF Close, Dialog
<1> HIDE DEF e
<1>4. RoleInv(p, e)
  BY <1>2, <1>3, CSeqRanges DEF DialogInv, RoleInv
<1>5. KeyInv(e)
  BY <1>2, <1>3, CSeqRanges DEF DialogInv, KeyInv
<1>6. CSeqInv(e)
  BY <1>2, <1>3, CSeqRanges DEF DialogInv, CSeqInv
<1>7. TransInv(e)
  BY <1>2, <1>3, CSeqRanges DEF DialogInv, TransInv, CSeqInv, Pending, NoTransaction, Dialog
<1>8. AnswerInv(e)
  BY <1>2, <1>3, CSeqRanges, MsgFields DEF DialogInv, AnswerInv, CSeqInv, Dialog
<1>9. AcceptedInv(p, e)
  BY <1>2, <1>3, CSeqRanges, MsgFields DEF DialogInv, AcceptedInv, Phase, CSeqInv, RoleInv
<1>10. QED
  BY <1>2, <1>4, <1>5, <1>6, <1>7, <1>8, <1>9 DEF DialogInv, e

\* A message that does not answer an INVITE.
LEMMA SendInv ==
  ASSUME NEW p \in Peer, NEW d, DialogInv(p, d),
         NEW m \in Msg, m.method = "INVITE" => m.code \in {"req", "1xx"}
  PROVE  DialogInv(p, Send(d, m))
<1> DEFINE e == Send(d, m)
<1>1. d \in Dialog
  BY DEF DialogInv
<1>2. e \in Dialog
  BY <1>1, CSeqRanges
     DEF Send, Dialog, DialogStatus, ListenerKey, TransStatus
<1>3. /\ e.status = d.status
      /\ e.key = d.key
      /\ e.local_cseq = d.local_cseq
      /\ e.remote_cseq = d.remote_cseq
      /\ e.invite_req = d.invite_req
      /\ e.sent = d.sent \cup {m}
      /\ e.invite_tc = d.invite_tc
      /\ e.invite_ts = d.invite_ts
      /\ e.ack_tss = d.ack_tss
      /\ e.ack_ts = d.ack_ts
      /\ e.bye_tc = d.bye_tc
      /\ e.listening = d.listening
  BY <1>1, CSeqRanges DEF Send, Dialog
<1> HIDE DEF e
<1>4. RoleInv(p, e)
  BY <1>2, <1>3, CSeqRanges DEF DialogInv, RoleInv
<1>5. KeyInv(e)
  BY <1>2, <1>3, CSeqRanges DEF DialogInv, KeyInv
<1>6. CSeqInv(e)
  BY <1>2, <1>3, CSeqRanges DEF DialogInv, CSeqInv
<1>7. TransInv(e)
  BY <1>2, <1>3, CSeqRanges DEF DialogInv, TransInv, CSeqInv, Pending, NoTransaction, Dialog
<1>8. AnswerInv(e)
  BY <1>2, <1>3, CSeqRanges, MsgFields DEF DialogInv, AnswerInv, CSeqInv, Dialog
<1>9. AcceptedInv(p, e)
  BY <1>2, <1>3, CSeqRanges, MsgFields DEF DialogInv, AcceptedInv, Phase, CSeqInv, RoleInv
<1>10. QED
  BY <1>2, <1>4, <1>5, <1>6, <1>7, <1>8, <1>9 DEF DialogInv, e

\* invite() preserves the invariant.
LEMMA InvitingInv ==
  ASSUME NEW p \in Peer, NEW d, DialogInv(p, d),
         p = "caller", d.status = "INIT"
  PROVE  DialogInv(p, Inviting(d))
<1> DEFINE e == Inviting(d)
<1>1. d \in Dialog
  BY DEF DialogInv
<1>s. Sent(Send(d, Request("INVITE", 1)), d, Request("INVITE", 1))
  BY <1>1, CSeqRanges, MsgType, SendFields
<1>2. e \in Dialog
  BY <1>1, CSeqRanges, <1>s
     DEF Sent, Inviting, Dialog, DialogStatus, ListenerKey, TransStatus
<1>3. /\ e.status = "INVITING"
      /\ e.key = "half"
      /\ e.local_cseq = 1
      /\ e.remote_cseq = d.remote_cseq
      /\ e.invite_req = 1
      /\ e.sent = d.sent \cup {Request("INVITE", 1)}
      /\ e.invite_tc = [d.invite_tc EXCEPT ![1] = "TRYING"]
      /\ e.invite_ts = d.invite_ts
      /\ e.ack_tss = d.ack_tss
      /\ e.ack_ts = d.ack_ts
      /\ e.bye_tc = d.bye_tc
      /\ e.listening = d.listening
  BY <1>1, CSeqRanges, <1>s DEF Sent, Inviting, Dialog
<1> HIDE DEF e
<1>4. RoleInv(p, e)
  BY <1>2, <1>3, CSeqRanges DEF DialogInv, RoleInv
<1>5. KeyInv(e)
  BY <1>2, <1>3, CSeqRanges DEF DialogInv, KeyInv
<1>6. CSeqInv(e)
  BY <1>2, <1>3, CSeqRanges DEF DialogInv, CSeqInv
<1>7. TransInv(e)
  BY <1>2, <1>3, CSeqRanges DEF DialogInv, TransInv, CSeqInv, Pending, NoTransaction, Dialog
<1>8. AnswerInv(e)
  BY <1>2, <1>3, CSeqRanges, MsgFields DEF DialogInv, AnswerInv, CSeqInv, Dialog
<1>9. AcceptedInv(p, e)
  BY <1>2, <1>3, CSeqRanges, MsgFields DEF DialogInv, AcceptedInv, Phase, CSeqInv, RoleInv
<1>10. QED
  BY <1>2, <1>4, <1>5, <1>6, <1>7, <1>8, <1>9 DEF DialogInv, e

\* listen() preserves the invariant.
LEMMA ListenInv ==
  ASSUME NEW p \in Peer, NEW d, DialogInv(p, d),
         p = "callee", d.status = "INIT"
  PROVE  DialogInv(p, [d EXCEPT !.status = "WAITING", !.listening = TRUE])
<1> DEFINE e == [d EXCEPT !.status = "WAITING", !.listening = TRUE]
<1>1. d \in Dialog
  BY DEF DialogInv
<1>2. e \in Dialog
  BY <1>1, CSeqRanges
     DEF Peer, Dialog, DialogStatus, ListenerKey, TransStatus
<1>3. /\ e.status = "WAITING"
      /\ e.key = d.key
      /\ e.local_cseq = d.local_cseq
      /\ e.remote_cseq = d.remote_cseq
      /\ e.invite_req = d.invite_req
      /\ e.sent = d.sent
      /\ e.invite_tc = d.invite_tc
      /\ e.invite_ts = d.invite_ts
      /\ e.ack_tss = d.ack_tss
      /\ e.ack_ts = d.ack_ts
      /\ e.bye_tc = d.bye_tc
      /\ e.listening = TRUE
  BY <1>1, CSeqRanges DEF Peer, Dialog
<1> HIDE DEF e
<1>4. RoleInv(p, e)
  BY <1>2, <1>3, CSeqRanges DEF DialogInv, RoleInv
<1>5. KeyInv(e)
  BY <1>2, <1>3, CSeqRanges DEF DialogInv, KeyInv
<1>6. CSeqInv(e)
  BY <1>2, <1>3, CSeqRanges DEF DialogInv, CSeqInv
<1>7. TransInv(e)
  BY <1>2, <1>3, CSeqRanges DEF DialogInv, TransInv, CSeqInv, Pending, NoTransaction, Dialog
<1>8. AnswerInv(e)
  BY <1>2, <1>3, CSeqRanges, MsgFields DEF DialogInv, AnswerInv, CSeqInv, Dialog
<1>9. AcceptedInv(p, e)
  BY <1>2, <1>3, CSeqRanges, MsgFields DEF DialogInv, AcceptedInv, Phase, CSeqInv, RoleInv
<1>10. QED
  BY <1>2, <1>4, <1>5, <1>6, <1>7, <1>8, <1>9 DEF DialogInv, e

\* reInvite() preserves the invariant.
LEMMA ReInvitingInv ==
  ASSUME NEW p \in Peer, NEW d, DialogInv(p, d), NEW c \in CSeq,
         d.status = "CALL"
  PROVE  DialogInv(p, ReInviting(d, c))
<1> DEFINE e == ReInviting(d, c)
<1>1. d \in Dialog
  BY DEF DialogInv
<1>s. Sent(Send(d, Request("INVITE", c)), d, Request("INVITE", c))
  BY <1>1, CSeqRanges, MsgType, SendFields
<1>2. e \in Dialog
  BY <1>1, CSeqRanges, <1>s
     DEF Sent, ReInviting, Dialog, DialogStatus, ListenerKey, TransStatus
<1>3. /\ e.status = "ReINVITING"
      /\ e.key = d.key
      /\ e.local_cseq = c
      /\ e.remote_cseq = d.remote_cseq
      /\ e.invite_req = c
      /\ e.sent = d.sent \cup {Request("INVITE", c)}
      /\ e.invite_tc = [d.invite_tc EXCEPT ![c] = "TRYING"]
      /\ e.invite_ts = d.invite_ts
      /\ e.ack_tss = d.ack_tss
      /\ e.ack_ts = d.ack_ts
      /\ e.bye_tc = d.bye_tc
      /\ e.listening = d.listening
  BY <1>1, CSeqRanges, <1>s DEF Sent, ReInviting, Dialog
<1> HIDE DEF e
<1>4. RoleInv(p, e)
  BY <1>2, <1>3, CSeqRanges DEF DialogInv, RoleInv
<1>5. KeyInv(e)
  BY <1>2, <1>3, CSeqRanges DEF DialogInv, KeyInv
<1>6. CSeqInv(e)
  BY <1>2, <1>3, CSeqRanges DEF DialogInv, CSeqInv
<1>7. TransInv(e)
  BY <1>2, <1>3, CSeqRanges DEF DialogInv, TransInv, CSeqInv, Pending, NoTransaction, Dialog
<1>8. AnswerInv(e)
  BY <1>2, <1>3, CSeqRanges, MsgFields DEF DialogInv, AnswerInv, CSeqInv, Dialog
<1>9. AcceptedInv(p, e)
  BY <1>2, <1>3, CSeqRanges, MsgFields DEF DialogInv, AcceptedInv, Phase, CSeqInv, RoleInv
<1>10. QED
  BY <1>2, <1>4, <1>5, <1>6, <1>7, <1>8, <1>9 DEF DialogInv, e

\* bye() preserves the invariant.
LEMMA ByeingInv ==
  ASSUME NEW p \in Peer, NEW d, DialogInv(p, d), NEW c \in CSeq,
         d.status = "CALL"
  PROVE  DialogInv(p, Byeing(d, c))
<1> DEFINE e == Byeing(d, c)
<1>1. d \in Dialog
  BY DEF DialogInv
<1>s. Sent(Send(d, Request("BYE", c)), d, Request("BYE", c))
  BY <1>1, CSeqRanges, MsgType, SendFields
<1>2. e \in Dialog
  BY <1>1, CSeqRanges, <1>s
     DEF Sent, Byeing, Dialog, DialogStatus, ListenerKey, TransStatus
<1>3. /\ e.status = "BYEING"
      /\ e.key = d.key
      /\ e.local_cseq = c
      /\ e.remote_cseq = d.remote_cseq
      /\ e.invite_req = d.invite_req
      /\ e.sent = d.sent \cup {Request("BYE", c)}
      /\ e.invite_tc = d.invite_tc
      /\ e.invite_ts = d.invite_ts
      /\ e.ack_tss = d.ack_tss
      /\ e.ack_ts = d.ack_ts
      /\ e.bye_tc = [d.bye_tc EXCEPT ![c] = "TRYING"]
      /\ e.listening = d.listening
  BY <1>1, CSeqRanges, <1>s DEF Sent, Byeing, Dialog
<1> HIDE DEF e
<1>4. RoleInv(p, e)
  BY <1>2, <1>3, CSeqRanges DEF DialogInv, RoleInv
<1>5. KeyInv(e)
  BY <1>2, <1>3, CSeqRanges DEF DialogInv, KeyInv
<1>6. CSeqInv(e)
  BY <1>2, <1>3, CSeqRanges DEF DialogInv, CSeqInv
<1>7. TransInv(e)
  BY <1>2, <1>3, CSeqRanges DEF DialogInv, TransInv, CSeqInv, Pending, NoTransaction, Dialog
<1>8. AnswerInv(e)
  BY <1>2, <1>3, CSeqRanges, MsgFields DEF DialogInv, AnswerInv, CSeqInv, Dialog
<1>9. AcceptedInv(p, e)
  BY <1>2, <1>3, CSeqRanges, MsgFields DEF DialogInv, AcceptedInv, Phase, CSeqInv, RoleInv
<1>10. QED
  BY <1>2, <1>4, <1>5, <1>6, <1>7, <1>8, <1>9 DEF DialogInv, e

\* The INVITE has no answer yet, so that the 2xx is its only one.
LEMMA AcceptingInv ==
  ASSUME NEW p \in Peer, NEW d, DialogInv(p, d),
         IsInvited(d)
  PROVE  DialogInv(p, Accepting(d))
<1> DEFINE e == Accepting(d)
<1>1. d \in Dialog
  BY DEF DialogInv
<1>r. d.invite_req \in CSeq
  BY DEF DialogInv, CSeqInv, IsInvited
<1>s. Sent(Send(d, Response("INVITE", d.invite_req, "2xx")), d, Response("INVITE", d.invite_req, "2xx"))
  BY <1>1, CSeqRanges, MsgType, SendFields, <1>r
<1>2. e \in Dialog
  <2> DEFINE s == Send(d, Response("INVITE", d.invite_req, "2xx"))
             st == IF d.status = "INVITED" THEN "ACCEPTED" ELSE "ReACCEPTED"
  <2>1. s \in Dialog
    BY <1>s DEF Sent
  <2>2. e = [s EXCEPT !.remote_cseq = d.invite_req, !.key = "full",
                      !.status = st,
                      !.invite_ts[d.invite_req] = "TERMINATED",
                      !.ack_ts = d.invite_req,
                      !.ack_tss[d.invite_req] = "PROCEEDING"]
    BY DEF Accepting
  <2>3. /\ st \in DialogStatus
        /\ "full" \in ListenerKey
        /\ {"TERMINATED", "PROCEEDING"} \subseteq TransStatus
    BY DEF DialogStatus, ListenerKey, TransStatus
  <2> HIDE DEF e, s, st
  <2>4. QED
    BY <1>r, <2>1, <2>2, <2>3, CSeqRanges DEF Dialog
<1>3. /\ e.status = IF d.status = "INVITED" THEN "ACCEPTED" ELSE "ReACCEPTED"
      /\ e.key = "full"
      /\ e.local_cseq = d.local_cseq
      /\ e.remote_cseq = d.invite_req
      /\ e.invite_req = d.invite_req
      /\ e.sent = d.sent \cup {Response("INVITE", d.invite_req, "2xx")}
      /\ e.invite_tc = d.invite_tc
      /\ e.invite_ts = [d.invite_ts EXCEPT ![d.invite_req] = "TERMINATED"]
      /\ e.ack_tss = [d.ack_tss EXCEPT ![d.invite_req] = "PROCEEDING"]
      /\ e.ack_ts = d.invite_req
      /\ e.bye_tc = d.bye_tc
      /\ e.listening = d.listening
  BY <1>1, CSeqRanges, <1>r, <1>s DEF Sent, IsInvited, Accepting, Dialog
<1> HIDE DEF e
<1>4. RoleInv(p, e)
  BY <1>2, <1>3, CSeqRanges DEF DialogInv, RoleInv, IsInvited
<1>5. KeyInv(e)
  BY <1>2, <1>3, CSeqRanges DEF DialogInv, KeyInv, IsInvited
<1>6. CSeqInv(e)
  BY <1>2, <1>3, CSeqRanges DEF DialogInv, CSeqInv, IsInvited
<1>7. TransInv(e)
  BY <1>2, <1>3, CSeqRanges DEF DialogInv, TransInv, CSeqInv, Pending, NoTransaction, Dialog, IsInvited
<1>8. AnswerInv(e)
  BY <1>2, <1>3, CSeqRanges, MsgFields DEF DialogInv, AnswerInv, CSeqInv, Dialog, IsInvited
<1>9. AcceptedInv(p, e)
  BY <1>2, <1>3, CSeqRanges, MsgFields DEF DialogInv, AcceptedInv, Phase, CSeqInv, RoleInv, IsInvited
<1>10. QED
  BY <1>2, <1>4, <1>5, <1>6, <1>7, <1>8, <1>9 DEF DialogInv, e

\* Likewise for a refusal, whether the user or a CANCEL asks for it.
LEMMA RefusingInv ==
  ASSUME NEW p \in Peer, NEW d, DialogInv(p, d),
         IsInvited(d)
  PROVE  DialogInv(p, Refusing(d))
<1> DEFINE e == Refusing(d)
<1>1. d \in Dialog
  BY DEF DialogInv
<1>r. d.invite_req \in CSeq /\ Pending(d.invite_ts[d.invite_req])
  BY DEF DialogInv, CSeqInv, TransInv, IsInvited
<1>s. Sent(Send(d, Response("INVITE", d.invite_req, "fail")), d, Response("INVITE", d.invite_req, "fail"))
  BY <1>1, CSeqRanges, MsgType, SendFields, <1>r
<1>2. e \in Dialog
  BY <1>1, CSeqRanges, <1>r, <1>s
     DEF Sent, InviteServerOnRefusal, Pending, Refusing, Dialog, DialogStatus, ListenerKey, TransStatus
<1>3. /\ e.status = IF d.status = "INVITED" THEN "REFUSED" ELSE "ReREFUSED"
      /\ e.key = d.key
      /\ e.local_cseq = d.local_cseq
      /\ e.remote_cseq = d.invite_req
      /\ e.invite_req = d.invite_req
      /\ e.sent = d.sent \cup {Response("INVITE", d.invite_req, "fail")}
      /\ e.invite_tc = d.invite_tc
      /\ e.invite_ts = [d.invite_ts EXCEPT ![d.invite_req] = "COMPLETED"]
      /\ e.ack_tss = d.ack_tss
      /\ e.ack_ts = d.ack_ts
      /\ e.bye_tc = d.bye_tc
      /\ e.listening = d.listening
  BY <1>1, CSeqRanges, <1>r, <1>s DEF Sent, InviteServerOnRefusal, Pending, Refusing, Dialog
<1> HIDE DEF e
<1>4. RoleInv(p, e)
  BY <1>2, <1>3, CSeqRanges DEF DialogInv, RoleInv, IsInvited
<1>5. KeyInv(e)
  BY <1>2, <1>3, CSeqRanges DEF DialogInv, KeyInv, IsInvited
<1>6. CSeqInv(e)
  BY <1>2, <1>3, CSeqRanges DEF DialogInv, CSeqInv, IsInvited
<1>7. TransInv(e)
  BY <1>2, <1>3, CSeqRanges DEF DialogInv, TransInv, CSeqInv, Pending, NoTransaction, Dialog, IsInvited
<1>8. AnswerInv(e)
  BY <1>2, <1>3, CSeqRanges, MsgFields DEF DialogInv, AnswerInv, CSeqInv, Dialog, IsInvited
<1>9. AcceptedInv(p, e)
  BY <1>2, <1>3, CSeqRanges, MsgFields DEF DialogInv, AcceptedInv, Phase, CSeqInv, RoleInv, IsInvited
<1>10. QED
  BY <1>2, <1>4, <1>5, <1>6, <1>7, <1>8, <1>9 DEF DialogInv, e

\* What a new server transaction leaves in the dialog.
LEMMA ServingFields ==
  ASSUME NEW d \in Dialog, NEW c \in CSeq
  PROVE  LET f == ServingInvite(d, c)
         IN /\ f \in Dialog
            /\ f.remote_cseq = c
            /\ f.invite_req = c
            /\ f.sent = d.sent \cup {Response("INVITE", c, "1xx")}
            /\ f.invite_tc = d.invite_tc
            /\ f.invite_ts = [d.invite_ts EXCEPT ![c] = "PROCEEDING"]
            /\ f.ack_tss = d.ack_tss
            /\ f.ack_ts = d.ack_ts
            /\ f.bye_tc = d.bye_tc
<1> DEFINE m == Response("INVITE", c, "1xx")
           s == Send(d, m)
           f == ServingInvite(d, c)
<1>1. Sent(s, d, m)
  BY CSeqRanges, MsgType, SendFields
<1>2. f = [s EXCEPT !.invite_req = c, !.remote_cseq = c,
                    !.invite_ts[c] = "PROCEEDING"]
  BY DEF ServingInvite
<1>3. "PROCEEDING" \in TransStatus
  BY DEF TransStatus
<1> HIDE DEF f, s
<1>4. f \in Dialog /\ f.invite_ts = [s.invite_ts EXCEPT ![c] = "PROCEEDING"]
  BY <1>1, <1>2, <1>3, CSeqRanges DEF Sent, Dialog
<1>5. /\ f.remote_cseq = c
      /\ f.invite_req = c
      /\ f.sent = s.sent
      /\ f.invite_tc = s.invite_tc
      /\ f.ack_tss = s.ack_tss
      /\ f.ack_ts = s.ack_ts
      /\ f.bye_tc = s.bye_tc
  BY <1>1, <1>2 DEF Sent, Dialog
<1> HIDE DEF m
<1>6. QED
  BY <1>1, <1>4, <1>5 DEF Sent, f, m

\* The first INVITE.
LEMMA InvitedInv ==
  ASSUME NEW p \in Peer, NEW d, DialogInv(p, d), NEW c \in CSeq,
         p = "callee", d.status = "WAITING", c = 1
  PROVE  DialogInv(p, Invited(d, c))
<1> DEFINE e == Invited(d, c)
<1>1. d \in Dialog
  BY DEF DialogInv
<1>2. e \in Dialog
  <2>1. ServingInvite(d, c) \in Dialog
    BY <1>1, ServingFields
  <2>2. QED
    BY <2>1, CSeqRanges DEF Invited, Dialog, DialogStatus, ListenerKey
<1>3. /\ e.status = "INVITED"
      /\ e.key = "half"
      /\ e.local_cseq = 0
      /\ e.remote_cseq = c
      /\ e.invite_req = c
      /\ e.sent = d.sent \cup {Response("INVITE", c, "1xx")}
      /\ e.invite_tc = d.invite_tc
      /\ e.invite_ts = [d.invite_ts EXCEPT ![c] = "PROCEEDING"]
      /\ e.ack_tss = d.ack_tss
      /\ e.ack_ts = d.ack_ts
      /\ e.bye_tc = d.bye_tc
      /\ e.listening = FALSE
  <2> DEFINE f == ServingInvite(d, c)
  <2>1. /\ f \in Dialog
        /\ f.remote_cseq = c
        /\ f.invite_req = c
        /\ f.sent = d.sent \cup {Response("INVITE", c, "1xx")}
        /\ f.invite_tc = d.invite_tc
        /\ f.invite_ts = [d.invite_ts EXCEPT ![c] = "PROCEEDING"]
        /\ f.ack_tss = d.ack_tss
        /\ f.ack_ts = d.ack_ts
        /\ f.bye_tc = d.bye_tc
    BY <1>1, ServingFields
  <2> HIDE DEF f
  <2>2. e = [f EXCEPT !.status = "INVITED", !.listening = FALSE,
                      !.local_cseq = 0, !.key = "half"]
    BY DEF Invited, f
  <2>3. QED
    BY <2>1, <2>2 DEF Dialog
<1> HIDE DEF e
<1>4. RoleInv(p, e)
  BY <1>2, <1>3, CSeqRanges DEF DialogInv, RoleInv
<1>5. KeyInv(e)
  BY <1>2, <1>3, CSeqRanges DEF DialogInv, KeyInv
<1>6. CSeqInv(e)
  BY <1>2, <1>3, CSeqRanges DEF DialogInv, CSeqInv
<1>7. TransInv(e)
  BY <1>2, <1>3, CSeqRanges DEF DialogInv, TransInv, CSeqInv, Pending, NoTransaction, Dialog
<1>8. AnswerInv(e)
  BY <1>2, <1>3, CSeqRanges, MsgFields DEF DialogInv, AnswerInv, CSeqInv, Dialog
<1>9. AcceptedInv(p, e)
  BY <1>2, <1>3, CSeqRanges, MsgFields DEF DialogInv, AcceptedInv, Phase, CSeqInv, RoleInv
<1>10. QED
  BY <1>2, <1>4, <1>5, <1>6, <1>7, <1>8, <1>9 DEF DialogInv, e

\* A re-INVITE that passes the filter on the CSeq, in any status.
LEMMA ReInvitedInv ==
  ASSUME NEW p \in Peer, NEW d, DialogInv(p, d), NEW c \in CSeq,
         d.key = "full", c > d.remote_cseq
  PROVE  DialogInv(p, ReInvited(d, c))
<1> DEFINE e == ReInvited(d, c)
<1>1. d \in Dialog
  BY DEF DialogInv
<1>s. Sent(Send(d, Response("INVITE", c, "1xx")), d, Response("INVITE", c, "1xx"))
  BY <1>1, CSeqRanges, MsgType, SendFields
<1>2. e \in Dialog
  BY <1>1, CSeqRanges, <1>s
     DEF Sent, ReInvited, ServingInvite, Dialog, DialogStatus, ListenerKey, TransStatus
<1>3. /\ e.status = "ReINVITED"
      /\ e.key = d.key
      /\ e.local_cseq = d.local_cseq
      /\ e.remote_cseq = c
      /\ e.invite_req = c
      /\ e.sent = d.sent \cup {Response("INVITE", c, "1xx")}
      /\ e.invite_tc = d.invite_tc
      /\ e.invite_ts = [d.invite_ts EXCEPT ![c] = "PROCEEDING"]
      /\ e.ack_tss = d.ack_tss
      /\ e.ack_ts = d.ack_ts
      /\ e.bye_tc = d.bye_tc
      /\ e.listening = d.listening
  BY <1>1, CSeqRanges, <1>s DEF Sent, ReInvited, ServingInvite, Dialog
<1> HIDE DEF e
<1>4. RoleInv(p, e)
  BY <1>2, <1>3, CSeqRanges DEF DialogInv, RoleInv, KeyInv
<1>5. KeyInv(e)
  BY <1>2, <1>3, CSeqRanges DEF DialogInv, KeyInv
<1>6. CSeqInv(e)
  BY <1>2, <1>3, CSeqRanges DEF DialogInv, CSeqInv, KeyInv
<1>7. TransInv(e)
  BY <1>2, <1>3, CSeqRanges DEF DialogInv, TransInv, CSeqInv, Pending, NoTransaction, Dialog, KeyInv
<1>8. AnswerInv(e)
  BY <1>2, <1>3, CSeqRanges, MsgFields DEF DialogInv, AnswerInv, CSeqInv, Dialog, KeyInv
<1>9. AcceptedInv(p, e)
  BY <1>2, <1>3, CSeqRanges, MsgFields DEF DialogInv, AcceptedInv, Phase, CSeqInv, RoleInv, KeyInv
<1>10. QED
  BY <1>2, <1>4, <1>5, <1>6, <1>7, <1>8, <1>9 DEF DialogInv, e

-----------------------------------------------------------------------------
(* The ends of handlers that several of them share.                        *)

\* e has answered the INVITEs d has.
SameAnswers(d, e) ==
  \A c \in CSeq, code \in {"2xx", "fail"} :
    Response("INVITE", c, code) \in e.sent <=>
      Response("INVITE", c, code) \in d.sent

\* A message that is not a response adds no answer to an INVITE.
LEMMA SameAnswersIfRequest ==
  ASSUME NEW d \in Dialog, NEW method, NEW c \in CSeq, NEW e,
         \/ e.sent = d.sent
         \/ e.sent = d.sent \cup {Request(method, c)}
         \/ e.sent = d.sent \cup {Response("BYE", c, "2xx")}
  PROVE  SameAnswers(d, e)
BY MsgFields DEF SameAnswers

\* The handlers that close the dialog.
LEMMA EndedInv ==
  ASSUME NEW p \in Peer, NEW d, DialogInv(p, d), NEW e \in Dialog,
         d.status \notin {"INIT", "WAITING"},
         e.status = "CLOSE", e.key = "none",
         e.local_cseq = d.local_cseq, e.remote_cseq = d.remote_cseq,
         SameAnswers(d, e)
  PROVE  DialogInv(p, e)
<1>1. RoleInv(p, e) /\ KeyInv(e) /\ TransInv(e)
  BY DEF RoleInv, KeyInv, TransInv
<1>2. CSeqInv(e)
  BY DEF DialogInv, CSeqInv
<1>3. AnswerInv(e)
  BY DEF DialogInv, AnswerInv, SameAnswers
<1>4. AcceptedInv(p, e)
  BY DEF AcceptedInv, Phase
<1>5. QED
  BY <1>1, <1>2, <1>3, <1>4 DEF DialogInv

\* The handlers that take it to the call, or back to it.
LEMMA InCallInv ==
  ASSUME NEW p \in Peer, NEW d, DialogInv(p, d), NEW e \in Dialog,
         d.status \notin {"INIT", "WAITING"},
         p = "callee" => Phase(d) = "call",
         e.status = "CALL", e.key = "full",
         e.local_cseq \in CSeqOrNull, e.remote_cseq = d.remote_cseq,
         SameAnswers(d, e)
  PROVE  DialogInv(p, e)
<1>1. RoleInv(p, e) /\ KeyInv(e) /\ TransInv(e)
  BY DEF RoleInv, KeyInv, TransInv
<1>2. CSeqInv(e)
  BY DEF DialogInv, CSeqInv
<1>3. AnswerInv(e)
  BY DEF DialogInv, AnswerInv, SameAnswers
<1>4. AcceptedInv(p, e)
  BY CSeqRanges DEF DialogInv, AcceptedInv, SameAnswers, Phase
<1>5. QED
  BY <1>1, <1>2, <1>3, <1>4 DEF DialogInv

\* The handlers that leave the status, the key, the CSeqs and the answers
\* as they are, and may end a transaction the status does not need.
LEMMA StaysInv ==
  ASSUME NEW p \in Peer, NEW d, DialogInv(p, d), NEW e \in Dialog,
         e.status = d.status, e.key = d.key,
         e.local_cseq = d.local_cseq, e.remote_cseq = d.remote_cseq,
         e.invite_req = d.invite_req,
         SameAnswers(d, e), TransInv(e)
  PROVE  DialogInv(p, e)
<1>1. RoleInv(p, e) /\ KeyInv(e)
  BY DEF DialogInv, RoleInv, KeyInv
<1>2. CSeqInv(e)
  BY DEF DialogInv, CSeqInv
<1>3. AnswerInv(e)
  BY DEF DialogInv, AnswerInv, SameAnswers
<1>4. AcceptedInv(p, e)
  BY CSeqRanges DEF DialogInv, AcceptedInv, SameAnswers, Phase
<1>5. QED
  BY <1>1, <1>2, <1>3, <1>4 DEF DialogInv

-----------------------------------------------------------------------------
(* The other handlers.                                                     *)

\* cancel() preserves the invariant.
LEMMA CancellingInv ==
  ASSUME NEW p \in Peer, NEW d, DialogInv(p, d),
         d.status \in {"INVITING", "ReINVITING", "WAITING"}
  PROVE  DialogInv(p, Cancelling(d))
<1>1. d \in Dialog
  BY DEF DialogInv
<1>2. CASE d.status = "WAITING"
  <2> DEFINE e == [d EXCEPT !.listening = FALSE]
  <2>1. /\ e \in Dialog
        /\ e.status = d.status
        /\ e.key = d.key
        /\ e.local_cseq = d.local_cseq
        /\ e.remote_cseq = d.remote_cseq
        /\ e.invite_req = d.invite_req
        /\ e.sent = d.sent
    BY <1>1 DEF Dialog
  <2> HIDE DEF e
  <2>2. TransInv(e)
    BY <1>2, <2>1 DEF TransInv
  <2>3. SameAnswers(d, e)
    BY <2>1 DEF SameAnswers
  <2>4. DialogInv(p, e)
    BY <2>1, <2>2, <2>3, StaysInv
  <2>5. QED
    BY <1>2, <2>4 DEF Cancelling, e
<1>3. CASE d.status \in {"INVITING", "ReINVITING"}
  <2>1. Request("CANCEL", d.invite_req) \in Msg
    BY <1>3, MsgType DEF DialogInv, CSeqInv
  <2>2. DialogInv(p, Send(d, Request("CANCEL", d.invite_req)))
    BY <2>1, MsgFields, SendInv
  <2>3. QED
    BY <1>3, <2>2 DEF Cancelling
<1>4. QED
  BY <1>2, <1>3

\* The ACK of a 2xx preserves the invariant.
LEMMA ConfirmingInv ==
  ASSUME NEW p \in Peer, NEW d, DialogInv(p, d)
  PROVE  DialogInv(p, Confirming(d))
<1>1. d \in Dialog
  BY DEF DialogInv
<1>2. CASE d.status \in {"ACCEPTED", "ReACCEPTED"}
  <2> DEFINE e == [d EXCEPT !.status = "CALL",
                            !.ack_tss[d.ack_ts] = "TERMINATED"]
  <2>1. /\ e \in Dialog
        /\ e.status = "CALL"
        /\ e.key = d.key
        /\ e.local_cseq = d.local_cseq
        /\ e.remote_cseq = d.remote_cseq
        /\ e.sent = d.sent
    BY <1>1 DEF Dialog, DialogStatus, TransStatus
  <2> HIDE DEF e
  <2>2. d.key = "full" /\ d.local_cseq \in CSeqOrNull /\ Phase(d) = "call"
    BY <1>2 DEF DialogInv, KeyInv, CSeqInv, Phase
  <2>3. SameAnswers(d, e)
    BY <2>1 DEF SameAnswers
  <2>4. DialogInv(p, e)
    BY <1>2, <2>1, <2>2, <2>3, InCallInv
  <2>5. QED
    BY <1>2, <2>4 DEF Confirming, e
<1>3. CASE d.status \notin {"ACCEPTED", "ReACCEPTED"}
  BY <1>3 DEF Confirming
<1>4. QED
  BY <1>2, <1>3

\* A server transaction of a refused INVITE moves on, or ends.
LEMMA RefusedServerInv ==
  ASSUME NEW p \in Peer, NEW d, DialogInv(p, d), NEW c \in CSeq,
         NEW st \in TransStatus, ~Pending(d.invite_ts[c])
  PROVE  DialogInv(p, [d EXCEPT !.invite_ts[c] = st])
<1> DEFINE e == [d EXCEPT !.invite_ts[c] = st]
<1>1. d \in Dialog
  BY DEF DialogInv
<1>2. /\ e \in Dialog
      /\ e.status = d.status
      /\ e.key = d.key
      /\ e.local_cseq = d.local_cseq
      /\ e.remote_cseq = d.remote_cseq
      /\ e.invite_req = d.invite_req
      /\ e.sent = d.sent
      /\ e.invite_tc = d.invite_tc
      /\ e.ack_tss = d.ack_tss
      /\ e.ack_ts = d.ack_ts
      /\ e.bye_tc = d.bye_tc
      /\ e.invite_ts = [d.invite_ts EXCEPT ![c] = st]
  BY <1>1 DEF Dialog
<1> HIDE DEF e
<1>3. TransInv(e)
  BY <1>1, <1>2 DEF DialogInv, TransInv, CSeqInv, Dialog
<1>4. SameAnswers(d, e)
  BY <1>2 DEF SameAnswers
<1>5. DialogInv(p, e)
  BY <1>2, <1>3, <1>4, StaysInv
<1>6. QED
  BY <1>5 DEF e

\* The ACK of a refusal preserves the invariant.
LEMMA RefusalAcknowledgedInv ==
  ASSUME NEW p \in Peer, NEW d, DialogInv(p, d), NEW c \in CSeq,
         d.invite_ts[c] = "COMPLETED"
  PROVE  DialogInv(p, RefusalAcknowledged(d, c))
<1> DEFINE e == [d EXCEPT !.invite_ts[c] = "CONFIRMED"]
<1>1. DialogInv(p, e)
  BY RefusedServerInv DEF Pending, TransStatus
<1>2. e \in Dialog /\ e.status = d.status
  BY <1>1 DEF DialogInv, Dialog
<1>3. RefusalAcknowledged(d, c) =
        CASE e.status = "REFUSED"   -> Close(e)
          [] e.status = "ReREFUSED" -> [e EXCEPT !.status = "CALL"]
          [] OTHER -> e
  BY <1>2 DEF RefusalAcknowledged, InviteServerOnAck
<1> HIDE DEF e
<1>4. CASE e.status = "REFUSED"
  BY <1>1, <1>3, <1>4, CloseInv
<1>5. CASE e.status = "ReREFUSED"
  <2> DEFINE g == [e EXCEPT !.status = "CALL"]
  <2>1. /\ g \in Dialog
        /\ g.status = "CALL"
        /\ g.key = e.key
        /\ g.local_cseq = e.local_cseq
        /\ g.remote_cseq = e.remote_cseq
        /\ g.sent = e.sent
    BY <1>2 DEF Dialog, DialogStatus
  <2> HIDE DEF g
  <2>2. e.key = "full" /\ e.local_cseq \in CSeqOrNull /\ Phase(e) = "call"
    BY <1>1, <1>5 DEF DialogInv, KeyInv, CSeqInv, Phase
  <2>3. SameAnswers(e, g)
    BY <2>1 DEF SameAnswers
  <2>4. DialogInv(p, g)
    BY <1>1, <1>5, <2>1, <2>2, <2>3, InCallInv
  <2>5. QED
    BY <1>3, <1>5, <2>4 DEF g
<1>6. CASE e.status \notin {"REFUSED", "ReREFUSED"}
  BY <1>1, <1>3, <1>6
<1>7. QED
  BY <1>4, <1>5, <1>6

\* The reception of a BYE preserves the invariant.
LEMMA ByeReceivedInv ==
  ASSUME NEW p \in Peer, NEW d, DialogInv(p, d), NEW c \in CSeq,
         d.status \in {"CALL", "BYEING"}
  PROVE  DialogInv(p, ByeReceived(d, c))
<1> DEFINE s == Send(d, Response("BYE", c, "2xx"))
<1>1. DialogInv(p, s)
  BY MsgType, MsgFields, SendInv
<1>2. s.status = d.status
  BY MsgType, SendFields DEF DialogInv, Sent
<1>3. QED
  BY <1>1, <1>2, CloseInv DEF ByeReceived

\* A client transaction of an INVITE the dialog does not wait for any more
\* moves on; the one it waits for may only stay pending.
LEMMA InviteClientInv ==
  ASSUME NEW p \in Peer, NEW d, DialogInv(p, d), NEW c \in CSeq,
         NEW st \in TransStatus, Pending(d.invite_tc[c]),
         d.status \in {"INVITING", "ReINVITING"} => Pending(st)
  PROVE  DialogInv(p, [d EXCEPT !.invite_tc[c] = st])
<1> DEFINE e == [d EXCEPT !.invite_tc[c] = st]
<1>1. d \in Dialog
  BY DEF DialogInv
<1>2. /\ e \in Dialog
      /\ e.status = d.status
      /\ e.key = d.key
      /\ e.local_cseq = d.local_cseq
      /\ e.remote_cseq = d.remote_cseq
      /\ e.invite_req = d.invite_req
      /\ e.sent = d.sent
      /\ e.invite_ts = d.invite_ts
      /\ e.ack_tss = d.ack_tss
      /\ e.ack_ts = d.ack_ts
      /\ e.bye_tc = d.bye_tc
      /\ e.invite_tc = [d.invite_tc EXCEPT ![c] = st]
  BY <1>1 DEF Dialog
<1> HIDE DEF e
<1>3. TransInv(e)
  <2>1. d.status # "INIT"
    BY DEF DialogInv, TransInv, NoTransaction, Pending
  <2>2. d.status = "INVITING" => c = 1
    BY DEF DialogInv, TransInv, Pending
  <2>3. QED
    BY <1>1, <1>2, <2>1, <2>2 DEF DialogInv, TransInv, CSeqInv, Pending, Dialog
<1>4. SameAnswers(d, e)
  BY <1>2 DEF SameAnswers
<1>5. DialogInv(p, e)
  BY <1>2, <1>3, <1>4, StaysInv
<1>6. QED
  BY <1>5 DEF e

\* A provisional response to an INVITE preserves the invariant.
LEMMA InviteProceedingInv ==
  ASSUME NEW p \in Peer, NEW d, DialogInv(p, d), NEW c \in CSeq,
         Pending(d.invite_tc[c])
  PROVE  DialogInv(p, InviteProceeding(d, c))
BY InviteClientInv
   DEF InviteProceeding, InviteClientOnResponse, TransStatus, Pending

\* A 2xx to an INVITE preserves the invariant.
LEMMA InviteSucceededInv ==
  ASSUME NEW p \in Peer, NEW d, DialogInv(p, d), NEW c \in CSeq,
         Pending(d.invite_tc[c])
  PROVE  DialogInv(p, InviteSucceeded(d, c))
<1> DEFINE e == [d EXCEPT !.invite_tc[c] = "TERMINATED"]
           g == [Send(e, Request("ACK", c)) EXCEPT
                   !.status = "CALL", !.local_cseq = c, !.key = "full"]
<1>1. d \in Dialog
  BY DEF DialogInv
<1>2. InviteSucceeded(d, c) =
        IF d.status \in {"INVITING", "ReINVITING"} THEN g ELSE e
  BY DEF InviteSucceeded, InviteClientOnResponse
<1>3. CASE d.status \in {"INVITING", "ReINVITING"}
  <2>1. e \in Dialog /\ e.sent = d.sent /\ e.remote_cseq = d.remote_cseq
    BY <1>1 DEF Dialog, TransStatus
  <2> HIDE DEF e
  <2>2. Sent(Send(e, Request("ACK", c)), e, Request("ACK", c))
    BY <2>1, MsgType, SendFields
  <2>3. /\ g \in Dialog
        /\ g.status = "CALL"
        /\ g.key = "full"
        /\ g.local_cseq = c
        /\ g.remote_cseq = d.remote_cseq
        /\ g.sent = d.sent \cup {Request("ACK", c)}
    BY <2>1, <2>2, CSeqRanges DEF Sent, Dialog, DialogStatus, ListenerKey
  <2> HIDE DEF g
  <2>4. SameAnswers(d, g)
    BY <1>1, <2>3, SameAnswersIfRequest
  <2>5. p = "callee" => Phase(d) = "call"
    BY <1>3 DEF DialogInv, RoleInv, Phase
  <2>6. DialogInv(p, g)
    BY <1>3, <2>3, <2>4, <2>5, CSeqRanges, InCallInv
  <2>7. QED
    BY <1>2, <1>3, <2>6
<1>4. CASE d.status \notin {"INVITING", "ReINVITING"}
  <2>1. DialogInv(p, e)
    BY <1>4, InviteClientInv DEF TransStatus
  <2>2. QED
    BY <1>2, <1>4, <2>1
<1>5. QED
  BY <1>3, <1>4

\* A refusal of an INVITE preserves the invariant.
LEMMA InviteFailedInv ==
  ASSUME NEW p \in Peer, NEW d, DialogInv(p, d), NEW c \in CSeq,
         Pending(d.invite_tc[c])
  PROVE  DialogInv(p, InviteFailed(d, c))
<1> DEFINE m == Request("NACK", c)
           s == Send(d, m)
           e == [s EXCEPT !.invite_tc[c] = "COMPLETED"]
           g == [e EXCEPT !.status = "CALL"]
<1>1. Sent(s, d, m) /\ m \in Msg /\ d \in Dialog
  BY MsgType, SendFields DEF DialogInv
<1>2. InviteFailed(d, c) =
        CASE d.status = "INVITING"   -> Close(e)
          [] d.status = "ReINVITING" -> g
          [] OTHER -> e
  BY DEF InviteFailed, InviteClientOnResponse
<1>3. DialogInv(p, s)
  BY <1>1, MsgFields, SendInv
<1> HIDE DEF s
<1>4. /\ e \in Dialog
      /\ e.status = d.status
      /\ e.key = d.key
      /\ e.local_cseq = d.local_cseq
      /\ e.remote_cseq = d.remote_cseq
      /\ e.sent = d.sent \cup {m}
  BY <1>1 DEF Sent, Dialog, TransStatus
<1>5. CASE d.status = "INVITING"
  <2>1. /\ Close(e) \in Dialog
        /\ Close(e).status = "CLOSE"
        /\ Close(e).key = "none"
        /\ Close(e).local_cseq = d.local_cseq
        /\ Close(e).remote_cseq = d.remote_cseq
        /\ Close(e).sent = d.sent \cup {m}
    BY <1>4 DEF Close, Dialog, DialogStatus, ListenerKey
  <2>2. SameAnswers(d, Close(e))
    BY <1>1, <2>1, SameAnswersIfRequest
  <2>3. QED
    BY <1>2, <1>5, <2>1, <2>2, EndedInv
<1>6. CASE d.status = "ReINVITING"
  <2>1. /\ g \in Dialog
        /\ g.status = "CALL"
        /\ g.key = d.key
        /\ g.local_cseq = d.local_cseq
        /\ g.remote_cseq = d.remote_cseq
        /\ g.sent = d.sent \cup {m}
    BY <1>4 DEF Dialog, DialogStatus
  <2>2. SameAnswers(d, g)
    BY <1>1, <2>1, SameAnswersIfRequest
  <2>3. d.key = "full" /\ d.local_cseq \in CSeqOrNull /\ Phase(d) = "call"
    BY <1>6 DEF DialogInv, KeyInv, CSeqInv, Phase
  <2> HIDE DEF g
  <2>4. DialogInv(p, g)
    BY <1>6, <2>1, <2>2, <2>3, InCallInv
  <2>5. QED
    BY <1>2, <1>6, <2>4
<1>7. CASE d.status \notin {"INVITING", "ReINVITING"}
  <2>1. s.status = d.status /\ s.invite_tc = d.invite_tc
    BY <1>1 DEF Sent
  <2>2. DialogInv(p, e)
    BY <1>3, <1>7, <2>1, InviteClientInv DEF TransStatus
  <2>3. QED
    BY <1>2, <1>7, <2>2
<1>8. QED
  BY <1>5, <1>6, <1>7

\* The client transaction of a BYE, when the dialog has left D_BYEING.
LEMMA ByeClientInv ==
  ASSUME NEW p \in Peer, NEW d, DialogInv(p, d), NEW c \in CSeq,
         NEW st \in TransStatus, d.status # "BYEING"
  PROVE  DialogInv(p, [d EXCEPT !.bye_tc[c] = st])
<1> DEFINE e == [d EXCEPT !.bye_tc[c] = st]
<1>1. d \in Dialog
  BY DEF DialogInv
<1>2. /\ e \in Dialog
      /\ e.status = d.status
      /\ e.key = d.key
      /\ e.local_cseq = d.local_cseq
      /\ e.remote_cseq = d.remote_cseq
      /\ e.invite_req = d.invite_req
      /\ e.sent = d.sent
      /\ e.invite_tc = d.invite_tc
      /\ e.invite_ts = d.invite_ts
      /\ e.ack_tss = d.ack_tss
      /\ e.ack_ts = d.ack_ts
  BY <1>1 DEF Dialog
<1> HIDE DEF e
<1>3. TransInv(e)
  BY <1>1, <1>2 DEF DialogInv, TransInv, CSeqInv, Dialog
<1>4. SameAnswers(d, e)
  BY <1>2 DEF SameAnswers
<1>5. DialogInv(p, e)
  BY <1>2, <1>3, <1>4, StaysInv
<1>6. QED
  BY <1>5 DEF e

\* The BYE of a dialog in D_BYEING gets its final answer or times out.
LEMMA ByeEndInv ==
  ASSUME NEW p \in Peer, NEW d, DialogInv(p, d), NEW c \in CSeq,
         NEW st \in TransStatus, d.status = "BYEING"
  PROVE  LET e == [d EXCEPT !.bye_tc[c] = st]
         IN  /\ DialogInv(p, Close(e))
             /\ DialogInv(p, [e EXCEPT !.status = "CALL"])
<1> DEFINE e == [d EXCEPT !.bye_tc[c] = st]
           g == [e EXCEPT !.status = "CALL"]
<1>1. d \in Dialog
  BY DEF DialogInv
<1>2. /\ e \in Dialog
      /\ e.key = d.key
      /\ e.local_cseq = d.local_cseq
      /\ e.remote_cseq = d.remote_cseq
      /\ e.sent = d.sent
  BY <1>1 DEF Dialog
<1> HIDE DEF e
<1>3. DialogInv(p, Close(e))
  <2>1. /\ Close(e) \in Dialog
        /\ Close(e).status = "CLOSE"
        /\ Close(e).key = "none"
        /\ Close(e).local_cseq = d.local_cseq
        /\ Close(e).remote_cseq = d.remote_cseq
        /\ Close(e).sent = d.sent
    BY <1>2 DEF Close, Dialog, DialogStatus, ListenerKey
  <2>2. SameAnswers(d, Close(e))
    BY <2>1 DEF SameAnswers
  <2>3. QED
    BY <2>1, <2>2, EndedInv
<1>4. DialogInv(p, g)
  <2>1. /\ g \in Dialog
        /\ g.status = "CALL"
        /\ g.key = d.key
        /\ g.local_cseq = d.local_cseq
        /\ g.remote_cseq = d.remote_cseq
        /\ g.sent = d.sent
    BY <1>2 DEF Dialog, DialogStatus
  <2>2. SameAnswers(d, g)
    BY <2>1 DEF SameAnswers
  <2>3. d.key = "full" /\ d.local_cseq \in CSeqOrNull /\ Phase(d) = "call"
    BY DEF DialogInv, KeyInv, CSeqInv, Phase
  <2> HIDE DEF g
  <2>4. QED
    BY <2>1, <2>2, <2>3, InCallInv
<1>5. QED
  BY <1>3, <1>4 DEF e

\* A 2xx to a BYE preserves the invariant.
LEMMA ByeSucceededInv ==
  ASSUME NEW p \in Peer, NEW d, DialogInv(p, d), NEW c \in CSeq
  PROVE  DialogInv(p, ByeSucceeded(d, c))
<1>1. CASE d.status = "BYEING"
  BY <1>1, ByeEndInv DEF ByeSucceeded, ClientOnResponse, TransStatus
<1>2. CASE d.status # "BYEING"
  BY <1>2, ByeClientInv DEF ByeSucceeded, ClientOnResponse, TransStatus
<1>3. QED
  BY <1>1, <1>2

\* A failure response to a BYE preserves the invariant.
LEMMA ByeFailedInv ==
  ASSUME NEW p \in Peer, NEW d, DialogInv(p, d), NEW c \in CSeq
  PROVE  DialogInv(p, ByeFailed(d, c))
<1>1. CASE d.status = "BYEING"
  BY <1>1, ByeEndInv DEF ByeFailed, ClientOnResponse, TransStatus
<1>2. CASE d.status # "BYEING"
  BY <1>2, ByeClientInv DEF ByeFailed, ClientOnResponse, TransStatus
<1>3. QED
  BY <1>1, <1>2

\* The time-out of a BYE preserves the invariant.
LEMMA ByeTimedOutInv ==
  ASSUME NEW p \in Peer, NEW d, DialogInv(p, d), NEW c \in CSeq
  PROVE  DialogInv(p, ByeTimedOut(d, c))
<1>1. CASE d.status = "BYEING"
  BY <1>1, ByeEndInv DEF ByeTimedOut, TransStatus
<1>2. CASE d.status # "BYEING"
  BY <1>2, ByeClientInv DEF ByeTimedOut, TransStatus
<1>3. QED
  BY <1>1, <1>2

\* A time-out cancels the INVITE at hand and closes.
LEMMA InviteTimedOutInv ==
  ASSUME NEW p \in Peer, NEW d, DialogInv(p, d), NEW c \in CSeq,
         Pending(d.invite_tc[c])
  PROVE  DialogInv(p, InviteTimedOut(d, c))
<1> DEFINE e == [d EXCEPT !.invite_tc[c] = "TERMINATED"]
           m == Request("CANCEL", d.invite_req)
           g == Close(Cancelling(e))
<1>1. d \in Dialog
  BY DEF DialogInv
<1>2. /\ e \in Dialog
      /\ e.status = d.status
      /\ e.key = d.key
      /\ e.invite_req = d.invite_req
      /\ e.local_cseq = d.local_cseq
      /\ e.remote_cseq = d.remote_cseq
      /\ e.sent = d.sent
  BY <1>1 DEF Dialog, TransStatus
<1>3. InviteTimedOut(d, c) =
        IF d.status \in {"INVITING", "ReINVITING"} THEN g ELSE e
  BY DEF InviteTimedOut
<1>4. CASE d.status \in {"INVITING", "ReINVITING"}
  <2> HIDE DEF e
  <2>1. d.invite_req \in CSeq
    BY <1>4 DEF DialogInv, CSeqInv
  <2>2. m \in Msg
    BY <2>1, MsgType
  <2>3. Sent(Send(e, m), e, m)
    BY <1>2, <2>2, SendFields
  <2>4. Cancelling(e) = Send(e, m)
    BY <1>2, <1>4 DEF Cancelling
  <2>5. /\ g \in Dialog
        /\ g.status = "CLOSE"
        /\ g.key = "none"
        /\ g.local_cseq = d.local_cseq
        /\ g.remote_cseq = d.remote_cseq
        /\ g.sent = d.sent \cup {m}
    BY <1>2, <2>3, <2>4 DEF Sent, Close, Dialog, DialogStatus, ListenerKey
  <2> HIDE DEF g
  <2>6. SameAnswers(d, g)
    BY <1>1, <2>1, <2>5, SameAnswersIfRequest
  <2>7. DialogInv(p, g)
    BY <1>4, <2>5, <2>6, EndedInv
  <2>8. QED
    BY <1>3, <1>4, <2>7
<1>5. CASE d.status \notin {"INVITING", "ReINVITING"}
  <2>1. DialogInv(p, e)
    BY <1>5, InviteClientInv DEF TransStatus
  <2>2. QED
    BY <1>3, <1>5, <2>1
<1>6. QED
  BY <1>4, <1>5

\* The time-out of an AckTransactionServer preserves the invariant.
LEMMA AckTimedOutInv ==
  ASSUME NEW p \in Peer, NEW d, DialogInv(p, d), NEW c \in CSeq
  PROVE  DialogInv(p, AckTimedOut(d, c))
<1> DEFINE e == [d EXCEPT !.ack_tss[c] = "TERMINATED"]
           g == Close(e)
<1>1. d \in Dialog
  BY DEF DialogInv
<1>2. /\ e \in Dialog
      /\ e.status = d.status
      /\ e.key = d.key
      /\ e.local_cseq = d.local_cseq
      /\ e.remote_cseq = d.remote_cseq
      /\ e.invite_req = d.invite_req
      /\ e.sent = d.sent
      /\ e.invite_tc = d.invite_tc
      /\ e.invite_ts = d.invite_ts
      /\ e.ack_ts = d.ack_ts
      /\ e.bye_tc = d.bye_tc
  BY <1>1 DEF Dialog, TransStatus
<1>3. AckTimedOut(d, c) =
        IF d.status \in {"ACCEPTED", "ReACCEPTED", "REFUSED", "ReREFUSED"}
        THEN g ELSE e
  BY DEF AckTimedOut
<1> HIDE DEF e
<1>4. CASE d.status \in {"ACCEPTED", "ReACCEPTED", "REFUSED", "ReREFUSED"}
  <2>1. /\ g \in Dialog
        /\ g.status = "CLOSE"
        /\ g.key = "none"
        /\ g.local_cseq = d.local_cseq
        /\ g.remote_cseq = d.remote_cseq
        /\ g.sent = d.sent
    BY <1>2 DEF Close, Dialog, DialogStatus, ListenerKey
  <2> HIDE DEF g
  <2>2. SameAnswers(d, g)
    BY <2>1 DEF SameAnswers
  <2>3. DialogInv(p, g)
    BY <1>4, <2>1, <2>2, EndedInv
  <2>4. QED
    BY <1>3, <1>4, <2>3
<1>5. CASE d.status \notin {"ACCEPTED", "ReACCEPTED", "REFUSED", "ReREFUSED"}
  <2>1. TransInv(e)
    BY <1>2, <1>5 DEF DialogInv, TransInv
  <2>2. SameAnswers(d, e)
    BY <1>2 DEF SameAnswers
  <2>3. DialogInv(p, e)
    BY <1>2, <2>1, <2>2, StaysInv
  <2>4. QED
    BY <1>3, <1>5, <2>3
<1>6. QED
  BY <1>4, <1>5

-----------------------------------------------------------------------------
(* How far a handler may take a dialog.                                    *)

AcceptedFirst(d) == Response("INVITE", 1, "2xx") \in d.sent

\* From d to e the filter on requests does not loosen, a session that is
\* over stays over, one that is on does not go back to its setup, and no
\* session is answered as it ends.
Advances(d, e) ==
  /\ d.remote_cseq <= e.remote_cseq
  /\ Phase(d) = "over" => Phase(e) = "over"
  /\ Phase(d) = "call" => Phase(e) \in {"call", "over"}
  /\ Phase(e) = "over" => (AcceptedFirst(e) <=> AcceptedFirst(d))

\* Nor does the session become a call.
Keeps(d, e) == Advances(d, e) /\ (Phase(d) = "setup" => Phase(e) # "call")

\* Only Accepting and InviteSucceeded may take a dialog from its setup to a
\* call.
LEMMA UserHandlersAdvance ==
  ASSUME NEW p \in Peer, NEW d, DialogInv(p, d), NEW c \in CSeq
  PROVE  /\ d.status = "INIT" => Keeps(d, Inviting(d))
         /\ d.status = "INIT" =>
              Keeps(d, [d EXCEPT !.status = "WAITING", !.listening = TRUE])
         /\ d.status = "CALL" => Keeps(d, ReInviting(d, c))
         /\ d.status = "CALL" => Keeps(d, Byeing(d, c))
         /\ IsInvited(d) => Advances(d, Accepting(d))
         /\ IsInvited(d) => Keeps(d, Refusing(d))
         /\ d.status \in {"INVITING", "ReINVITING", "WAITING"} =>
              Keeps(d, Cancelling(d))
<1>1. d \in Dialog /\ d.remote_cseq \in Int
  BY CSeqRanges DEF DialogInv, Dialog
<1>2. IsInvited(d) => d.remote_cseq = d.invite_req
  BY DEF DialogInv, CSeqInv, IsInvited
<1>3. d.status = "INIT" => Keeps(d, Inviting(d))
  BY <1>1, MsgFields DEF Keeps, Advances, Inviting, Send, Phase, AcceptedFirst, Dialog
<1>4. d.status = "INIT" =>
        Keeps(d, [d EXCEPT !.status = "WAITING", !.listening = TRUE])
  BY <1>1 DEF Keeps, Advances, Phase, AcceptedFirst, Dialog
<1>5. d.status = "CALL" => Keeps(d, ReInviting(d, c))
  BY <1>1 DEF Keeps, Advances, ReInviting, Send, Phase, AcceptedFirst, Dialog
<1>6. d.status = "CALL" => Keeps(d, Byeing(d, c))
  BY <1>1 DEF Keeps, Advances, Byeing, Send, Phase, AcceptedFirst, Dialog
<1>7. IsInvited(d) => Advances(d, Accepting(d))
  BY <1>1, <1>2
     DEF Advances, Accepting, IsInvited, Send, Phase, AcceptedFirst, Dialog
<1>8. IsInvited(d) => Keeps(d, Refusing(d))
  BY <1>1, <1>2, MsgFields
     DEF Keeps, Advances, Refusing, IsInvited, Send, Phase, AcceptedFirst, Dialog
<1>9. d.status \in {"INVITING", "ReINVITING", "WAITING"} =>
        Keeps(d, Cancelling(d))
  BY <1>1 DEF Keeps, Advances, Cancelling, Send, Phase, AcceptedFirst, Dialog
<1>10. QED
  BY <1>3, <1>4, <1>5, <1>6, <1>7, <1>8, <1>9

\* A handler of a message never takes a dialog back to an earlier phase.
LEMMA MessageHandlersAdvance ==
  ASSUME NEW p \in Peer, NEW d, DialogInv(p, d), NEW c \in CSeq
  PROVE  /\ d.status = "WAITING" => Keeps(d, Invited(d, c))
         /\ d.key = "full" /\ c > d.remote_cseq => Keeps(d, ReInvited(d, c))
         /\ Keeps(d, Confirming(d))
         /\ Keeps(d, RefusalAcknowledged(d, c))
         /\ d.status \in {"CALL", "BYEING"} => Keeps(d, ByeReceived(d, c))
         /\ Keeps(d, InviteProceeding(d, c))
         /\ Advances(d, InviteSucceeded(d, c))
         /\ Keeps(d, InviteFailed(d, c))
         /\ Keeps(d, ByeSucceeded(d, c))
         /\ Keeps(d, ByeFailed(d, c))
<1>1. d \in Dialog /\ d.remote_cseq \in Int /\ c \in Int
  BY CSeqRanges DEF DialogInv, Dialog
<1>2. d.status = "WAITING" => d.remote_cseq = -1
  BY DEF DialogInv, CSeqInv
<1>3. d.key = "full" => Phase(d) = "call"
  BY DEF DialogInv, KeyInv, Phase
<1>4. d.status = "WAITING" => Keeps(d, Invited(d, c))
  BY <1>1, <1>2
     DEF Keeps, Advances, Invited, ServingInvite, Send, Phase, AcceptedFirst, Dialog, CSeq
<1>5. d.key = "full" /\ c > d.remote_cseq => Keeps(d, ReInvited(d, c))
  BY <1>1, <1>3
     DEF Keeps, Advances, ReInvited, ServingInvite, Send, Phase, AcceptedFirst, Dialog
<1>6. Keeps(d, Confirming(d))
  BY <1>1 DEF Keeps, Advances, Confirming, Phase, AcceptedFirst, Dialog
<1>7. Keeps(d, RefusalAcknowledged(d, c))
  BY <1>1
     DEF Keeps, Advances, RefusalAcknowledged, Close, Phase, AcceptedFirst, Dialog
<1>8. d.status \in {"CALL", "BYEING"} => Keeps(d, ByeReceived(d, c))
  BY <1>1, MsgFields
     DEF Keeps, Advances, ByeReceived, Close, Send, Phase, AcceptedFirst, Dialog
<1>9. Keeps(d, InviteProceeding(d, c))
  BY <1>1 DEF Keeps, Advances, InviteProceeding, Phase, AcceptedFirst, Dialog
<1>10. Advances(d, InviteSucceeded(d, c))
  BY <1>1, MsgFields
     DEF Advances, InviteSucceeded, Send, Phase, AcceptedFirst, Dialog
<1>11. Keeps(d, InviteFailed(d, c))
  BY <1>1, MsgFields
     DEF Keeps, Advances, InviteFailed, Close, Send, Phase, AcceptedFirst, Dialog
<1>12. Keeps(d, ByeSucceeded(d, c))
  BY <1>1 DEF Keeps, Advances, ByeSucceeded, Close, Phase, AcceptedFirst, Dialog
<1>13. Keeps(d, ByeFailed(d, c))
  BY <1>1 DEF Keeps, Advances, ByeFailed, Phase, AcceptedFirst, Dialog
<1>14. QED
  BY <1>4, <1>5, <1>6, <1>7, <1>8, <1>9, <1>10, <1>11, <1>12, <1>13

\* A handler of a time-out never takes a dialog back to an earlier phase.
LEMMA TimerHandlersAdvance ==
  ASSUME NEW p \in Peer, NEW d, DialogInv(p, d), NEW c \in CSeq
  PROVE  /\ Keeps(d, InviteTimedOut(d, c))
         /\ Keeps(d, ByeTimedOut(d, c))
         /\ Keeps(d, AckTimedOut(d, c))
         /\ Keeps(d, [d EXCEPT !.invite_ts[c] = "TERMINATED"])
<1>1. d \in Dialog /\ d.remote_cseq \in Int
  BY CSeqRanges DEF DialogInv, Dialog
<1>2. Keeps(d, InviteTimedOut(d, c))
  BY <1>1, MsgFields
     DEF Keeps, Advances, InviteTimedOut, Cancelling, Close, Send, Phase,
         AcceptedFirst, Dialog
<1>3. Keeps(d, ByeTimedOut(d, c))
  BY <1>1 DEF Keeps, Advances, ByeTimedOut, Close, Phase, AcceptedFirst, Dialog
<1>4. Keeps(d, AckTimedOut(d, c))
  BY <1>1 DEF Keeps, Advances, AckTimedOut, Close, Phase, AcceptedFirst, Dialog
<1>5. Keeps(d, [d EXCEPT !.invite_ts[c] = "TERMINATED"])
  BY <1>1 DEF Keeps, Advances, Phase, AcceptedFirst, Dialog
<1>6. QED
  BY <1>2, <1>3, <1>4, <1>5

-----------------------------------------------------------------------------
(* Every step is a handler of one dialog.                                  *)

\* What a step does, if it takes p's dialog to e.
Handled(p, e) ==
  /\ Becomes(p, e)
  /\ DialogInv(p, e)
  /\ Advances(dlg[p], e)
  /\ p = "caller" /\ Phase(dlg[p]) = "setup" /\ Phase(e) = "call" => Answered

\* A handler that keeps what it should is one the invariant can rely on.
LEMMA HandledIfKeeps ==
  ASSUME NEW p, NEW e, Becomes(p, e), DialogInv(p, e), Keeps(dlg[p], e)
  PROVE  Handled(p, e)
BY DEF Handled, Keeps

\* What the application asks of a dialog is handled as the invariant needs.
LEMMA ApplicationHandled ==
  ASSUME IInv, Application
  PROVE  \E p \in Peer : \E e : Handled(p, e)
<1>1. \A p \in Peer : DialogInv(p, dlg[p]) /\ dlg[p] \in Dialog
  BY DEF IInv, DialogInv
<1>2. CASE Listen("callee")
  <2> DEFINE e == [dlg["callee"] EXCEPT !.status = "WAITING", !.listening = TRUE]
  <2>1. DialogInv("callee", e) /\ Keeps(dlg["callee"], e) /\ Becomes("callee", e)
    BY <1>1, <1>2, ListenInv, UserHandlersAdvance, CSeqRanges DEF Listen, Peer
  <2>2. QED
    BY <2>1, HandledIfKeeps DEF Peer
<1>3. CASE Invite("caller")
  <2> DEFINE e == Inviting(dlg["caller"])
  <2>1. DialogInv("caller", e) /\ Keeps(dlg["caller"], e) /\ Becomes("caller", e)
    BY <1>1, <1>3, InvitingInv, UserHandlersAdvance, CSeqRanges DEF Invite, Peer
  <2>2. QED
    BY <2>1, HandledIfKeeps DEF Peer
<1>4. ASSUME NEW p \in Peer, ReInvite(p) \/ Bye(p)
      PROVE  \E e : Handled(p, e)
  <2> DEFINE d == dlg[p]
             c == d.local_cseq + 1
  <2>1. d.status = "CALL" /\ d.local_cseq < LastCSeq[p]
    BY <1>4 DEF ReInvite, Bye
  <2>2. d.local_cseq \in CSeqOrNull
    BY <1>1, <2>1 DEF DialogInv, CSeqInv
  <2>3. c \in CSeq
    BY <2>1, <2>2, NextCSeq
  <2>4. CASE ReInvite(p)
    BY <1>1, <2>1, <2>3, <2>4, ReInvitingInv, UserHandlersAdvance,
       HandledIfKeeps DEF ReInvite
  <2>5. CASE Bye(p)
    BY <1>1, <2>1, <2>3, <2>5, ByeingInv, UserHandlersAdvance,
       HandledIfKeeps DEF Bye
  <2>6. QED
    BY <1>4, <2>4, <2>5
<1>5. ASSUME NEW p \in Peer, Accept(p)
      PROVE  \E e : Handled(p, e)
  <2> DEFINE e == Accepting(dlg[p])
  <2>1. DialogInv(p, e) /\ Advances(dlg[p], e) /\ Becomes(p, e)
    BY <1>1, <1>5, AcceptingInv, UserHandlersAdvance, CSeqRanges DEF Accept
  <2>2. p = "caller" => Phase(dlg[p]) # "setup"
    BY <1>1, <1>5 DEF DialogInv, RoleInv, Accept, IsInvited, Phase
  <2>3. QED
    BY <2>1, <2>2 DEF Handled
<1>6. ASSUME NEW p \in Peer, Refuse(p)
      PROVE  \E e : Handled(p, e)
  BY <1>1, <1>6, RefusingInv, UserHandlersAdvance, CSeqRanges, HandledIfKeeps
     DEF Refuse
<1>7. ASSUME NEW p \in Peer, Cancel(p)
      PROVE  \E e : Handled(p, e)
  BY <1>1, <1>7, CancellingInv, UserHandlersAdvance, CSeqRanges, HandledIfKeeps
     DEF Cancel
<1>8. QED
  BY <1>2, <1>3, <1>4, <1>5, <1>6, <1>7 DEF Application

\* The reception of a message is handled as the invariant needs.
LEMMA ReceiveHandled ==
  ASSUME IInv, NEW p \in Peer, NEW m \in dlg[Other(p)].sent, Receive(p, m)
  PROVE  \E e : Handled(p, e)
<1> DEFINE d == dlg[p]
           c == m.cseq
<1>1. DialogInv(p, d) /\ d \in Dialog
  BY DEF IInv, DialogInv
<1>2. m \in Msg /\ c \in CSeq
  BY DEF IInv, TypeOK, Other, Peer, Dialog, Msg
<1>3. CASE OnInitialInvite(p, m)
  <2>1. p = "callee" /\ c = 1 /\ d.status = "WAITING"
    BY <1>3 DEF OnInitialInvite, Initial, Other, Peer
  <2>2. QED
    BY <1>1, <1>2, <1>3, <2>1, InvitedInv, MessageHandlersAdvance,
       HandledIfKeeps DEF OnInitialInvite
<1>4. CASE OnReInvite(p, m)
  \* The filter on the CSeq refuses a second copy of the first INVITE.
  <2>1. d.key = "full" /\ c > d.remote_cseq
    BY <1>1, <1>4
       DEF OnReInvite, KeyOf, Initial, Other, Peer, DialogInv, KeyInv, CSeqInv,
           RoleInv
  <2>2. QED
    BY <1>1, <1>2, <1>4, <2>1, ReInvitedInv, MessageHandlersAdvance,
       HandledIfKeeps DEF OnReInvite
<1>5. CASE OnAck(p, m) \/ OnLateRefusalAck(p, m)
  BY <1>1, <1>2, <1>5, ConfirmingInv, MessageHandlersAdvance, HandledIfKeeps
     DEF OnAck, OnLateRefusalAck
<1>6. CASE OnRefusalAck(p, m)
  BY <1>1, <1>2, <1>6, RefusalAcknowledgedInv, MessageHandlersAdvance,
     HandledIfKeeps DEF OnRefusalAck
<1>7. CASE OnBye(p, m)
  BY <1>1, <1>2, <1>7, ByeReceivedInv, MessageHandlersAdvance, HandledIfKeeps
     DEF OnBye
<1>8. CASE OnCancel(p, m)
  BY <1>1, <1>2, <1>8, RefusingInv, UserHandlersAdvance, HandledIfKeeps
     DEF OnCancel
<1>9. CASE OnInviteResponse(p, m)
  <2>1. Pending(d.invite_tc[c])
    BY <1>9 DEF OnInviteResponse
  <2>2. CASE m.code = "1xx" /\ Becomes(p, InviteProceeding(d, c))
    BY <1>1, <1>2, <2>1, <2>2, InviteProceedingInv, MessageHandlersAdvance,
       HandledIfKeeps
  <2>3. CASE m.code = "2xx" /\ Becomes(p, InviteSucceeded(d, c))
    <3> DEFINE e == InviteSucceeded(d, c)
    <3>1. DialogInv(p, e) /\ Advances(d, e)
      BY <1>1, <1>2, <2>1, InviteSucceededInv, MessageHandlersAdvance
    \* The caller connects: the 2xx is the callee's to the first INVITE.
    <3>2. ASSUME p = "caller", Phase(d) = "setup"
          PROVE  Answered
      <4>1. c = 1
        BY <1>1, <1>2, <2>1, <3>2
           DEF DialogInv, RoleInv, TransInv, Phase, Pending, NoTransaction,
               Dialog, DialogStatus
      <4>2. m = Response("INVITE", 1, "2xx")
        BY <1>2, <1>9, <2>3, <4>1 DEF OnInviteResponse, Msg, Response
      <4>3. QED
        BY <3>2, <4>2 DEF Answered, Other
    <3>3. QED
      BY <2>3, <3>1, <3>2 DEF Handled
  <2>4. CASE m.code = "fail" /\ Becomes(p, InviteFailed(d, c))
    BY <1>1, <1>2, <2>1, <2>4, InviteFailedInv, MessageHandlersAdvance,
       HandledIfKeeps
  <2>5. QED
    BY <1>9, <2>2, <2>3, <2>4 DEF OnInviteResponse
<1>10. CASE OnByeResponse(p, m)
  BY <1>1, <1>2, <1>10, ByeSucceededInv, MessageHandlersAdvance,
     HandledIfKeeps DEF OnByeResponse
<1>11. QED
  BY <1>3, <1>4, <1>5, <1>6, <1>7, <1>8, <1>9, <1>10 DEF Receive

\* The expiry of a timer is handled as the invariant needs.
LEMMA TimersHandled ==
  ASSUME IInv, Timers
  PROVE  \E p \in Peer : \E e : Handled(p, e)
<1>1. PICK p \in Peer, c \in CSeq :
        InviteTimeout(p, c) \/ ByeTimeout(p, c) \/ AckTimeout(p, c)
          \/ InviteServerEnd(p, c)
  BY DEF Timers
<1>2. DialogInv(p, dlg[p])
  BY DEF IInv
<1>3. CASE InviteTimeout(p, c)
  BY <1>2, <1>3, InviteTimedOutInv, TimerHandlersAdvance, HandledIfKeeps
     DEF InviteTimeout, InviteClientMayTimeOut, Pending
<1>4. CASE ByeTimeout(p, c)
  BY <1>2, <1>4, ByeTimedOutInv, TimerHandlersAdvance, HandledIfKeeps
     DEF ByeTimeout
<1>5. CASE AckTimeout(p, c)
  BY <1>2, <1>5, AckTimedOutInv, TimerHandlersAdvance, HandledIfKeeps
     DEF AckTimeout
<1>6. CASE InviteServerEnd(p, c)
  <2> DEFINE e == [dlg[p] EXCEPT !.invite_ts[c] = "TERMINATED"]
  <2>1. ~Pending(dlg[p].invite_ts[c]) /\ Becomes(p, e)
    BY <1>6 DEF InviteServerEnd, InviteServerMayEnd, Pending
  <2>2. DialogInv(p, e)
    <3>1. "TERMINATED" \in TransStatus
      BY DEF TransStatus
    <3>2. QED
      BY <1>2, <2>1, <3>1, RefusedServerInv
  <2>3. Keeps(dlg[p], e)
    BY <1>2, TimerHandlersAdvance
  <2> HIDE DEF e
  <2>4. QED
    BY <2>1, <2>2, <2>3, HandledIfKeeps
<1>7. QED
  BY <1>1, <1>3, <1>4, <1>5, <1>6

\* Every step is the handler of one dialog, and leaves the other alone.
LEMMA NextHandled ==
  ASSUME IInv, Next
  PROVE  \E p \in Peer : \E e : Handled(p, e)
<1>1. CASE Network
  <2>1. ASSUME NEW p \in Peer, NEW c \in CSeq, ProxyFailsBye(p, c)
        PROVE  \E e : Handled(p, e)
    BY <2>1, ByeFailedInv, MessageHandlersAdvance, HandledIfKeeps
       DEF ProxyFailsBye, IInv
  <2>2. QED
    BY <1>1, <2>1, ReceiveHandled DEF Network
<1>2. QED
  BY <1>1, ApplicationHandled, TimersHandled DEF Next

-----------------------------------------------------------------------------
(* The invariants.                                                         *)

\* The inductive invariant holds before the first handler runs.
LEMMA InitInv == Init => IInv
<1> SUFFICES ASSUME Init
             PROVE  IInv
  OBVIOUS
<1>1. NewDialog \in Dialog
  BY CSeqRanges
     DEF NewDialog, NoTransaction, Dialog, DialogStatus, ListenerKey, TransStatus,
         CSeqOrUnset
<1>2. ASSUME NEW p \in Peer
      PROVE  DialogInv(p, NewDialog)
  BY <1>1
     DEF DialogInv, RoleInv, KeyInv, CSeqInv, TransInv, AnswerInv, AcceptedInv,
         Phase, NewDialog
<1>3. QED
  BY <1>1, <1>2 DEF Init, IInv, TypeOK

\* Every step of either dialog preserves the inductive invariant.
LEMMA NextInv == IInv /\ [Next]_dlg => IInv'
<1> SUFFICES ASSUME IInv, [Next]_dlg
             PROVE  IInv'
  OBVIOUS
<1>1. CASE Next
  <2> PICK p \in Peer : \E e : Handled(p, e)
    BY <1>1, NextHandled
  <2>1. PICK e : Handled(p, e)
    OBVIOUS
  <2>2. dlg' = [dlg EXCEPT ![p] = e] /\ DialogInv(p, e) /\ e \in Dialog
    BY <2>1 DEF Handled, Becomes, DialogInv
  <2>3. TypeOK'
    BY <2>2 DEF IInv, TypeOK
  <2>4. ASSUME NEW q \in Peer
        PROVE  DialogInv(q, dlg[q])'
    <3>1. dlg'[q] = IF q = p THEN e ELSE dlg[q]
      BY <2>2 DEF IInv, TypeOK
    <3>2. DialogInv(q, dlg'[q])
      BY <2>2, <3>1 DEF IInv
    <3>3. QED
      BY <3>2
         DEF DialogInv, RoleInv, KeyInv, CSeqInv, TransInv, AnswerInv,
             AcceptedInv, Phase
  <2>5. QED
    BY <2>3, <2>4 DEF IInv
<1>2. CASE UNCHANGED dlg
  BY <1>2
     DEF IInv, TypeOK, DialogInv, RoleInv, KeyInv, CSeqInv, TransInv, AnswerInv,
         AcceptedInv, Phase
<1>3. QED
  BY <1>1, <1>2

\* The inductive invariant holds in every reachable state of the two dialogs,
\* whatever the bounds on their CSeqs (InviteDialog, all handlers).
THEOREM Invariance == Spec => []IInv
<1>1. QED
  BY InitInv, NextInv, PTL DEF Spec

\* Every dialog keeps its type: the code's CSeq fields never leave the range
\* of the requests made, and a response never names a transaction that is not.
THEOREM TypeCorrectness == Spec => []TypeOK
<1>1. IInv => TypeOK
  BY DEF IInv
<1>2. QED
  BY <1>1, Invariance, PTL

\* An INVITE gets a 2xx or a refusal, never both (InviteDialog.respond).
THEOREM OneAnswerAlways == Spec => []OneAnswer
<1>1. IInv => OneAnswer
  BY DEF IInv, DialogInv, AnswerInv, OneAnswer
<1>2. QED
  BY <1>1, Invariance, PTL

\* A dialog in a waiting status has a live transaction that reports to it.
THEOREM WaitingAlwaysWatched == Spec => []WaitingIsWatched
<1>1. IInv => WaitingIsWatched
  BY DEF IInv, DialogInv, TransInv, WaitingIsWatched
<1>2. QED
  BY <1>1, Invariance, PTL

\* An invited dialog can still answer the INVITE it received last.
THEOREM AnswersLastInviteAlways == Spec => []AnswersLastInvite
<1>1. IInv => AnswersLastInvite
  BY DEF IInv, DialogInv, CSeqInv, TransInv, IsInvited, AnswersLastInvite
<1>2. QED
  BY <1>1, Invariance, PTL

\* The SipProvider's entry for the dialog follows the dialog's status.
THEOREM ListenerAlwaysFollows == Spec => []ListenerFollowsStatus
<1>1. IInv => ListenerFollowsStatus
  BY DEF IInv, DialogInv, KeyInv, ListenerFollowsStatus
<1>2. QED
  BY <1>1, Invariance, PTL

\* remote_cseq, the filter against late requests, never decreases.
THEOREM RemoteCSeqAlwaysGrows == Spec => RemoteCSeqGrows
<1>1. IInv /\ [Next]_dlg =>
        [\A p \in Peer : dlg[p].remote_cseq <= dlg'[p].remote_cseq]_dlg
  <2> SUFFICES ASSUME IInv, Next, NEW q \in Peer
               PROVE  dlg[q].remote_cseq <= dlg'[q].remote_cseq
    OBVIOUS
  <2> PICK p \in Peer : \E e : Handled(p, e)
    BY NextHandled
  <2>1. PICK e : Handled(p, e)
    OBVIOUS
  <2>2. dlg'[q] = IF q = p THEN e ELSE dlg[q]
    BY <2>1 DEF Handled, Becomes, IInv, TypeOK
  <2>3. dlg[q].remote_cseq \in Int
    BY CSeqRanges DEF IInv, TypeOK, Dialog
  <2>4. QED
    BY <2>1, <2>2, <2>3 DEF Handled, Advances
<1>2. QED
  BY <1>1, Invariance, PTL DEF Spec, RemoteCSeqGrows

-----------------------------------------------------------------------------
(* The refinement.                                                         *)

\* Two new dialogs are a session that is being set up.
LEMMA InitPromised == Init => Promise!Init
BY DEF Init, NewDialog, Promise!Init, Promise!User, Peer, Phase, Answered

\* Every step of the dialogs is a step of Session, or changes nothing of it.
LEMMA NextPromised ==
  ASSUME IInv, Next
  PROVE  \/ Promise!Next
         \/ UNCHANGED <<[p \in Peer |-> Phase(dlg[p])], Answered>>
<1> PICK p \in Peer : \E e : Handled(p, e)
  BY NextHandled
<1>1. PICK e : Handled(p, e)
  OBVIOUS
<1> DEFINE d == dlg[p]
           phase == [q \in Peer |-> Phase(dlg[q])]
<1>2. /\ Becomes(p, e)
      /\ AcceptedInv(p, d) /\ AcceptedInv(p, e)
      /\ Phase(d) = "over" => Phase(e) = "over"
      /\ Phase(d) = "call" => Phase(e) \in {"call", "over"}
      /\ Phase(e) = "over" => (AcceptedFirst(e) <=> AcceptedFirst(d))
      /\ p = "caller" /\ Phase(d) = "setup" /\ Phase(e) = "call" => Answered
  BY <1>1 DEF IInv, Handled, Advances, DialogInv
<1>3. \A q \in Peer : dlg'[q] = IF q = p THEN e ELSE dlg[q]
  BY <1>2 DEF Becomes, IInv, TypeOK
<1>4. phase' = [phase EXCEPT ![p] = Phase(e)]
  <2>1. \A q \in Peer : Phase(dlg[q])' = IF q = p THEN Phase(e) ELSE Phase(dlg[q])
    BY <1>3 DEF Phase
  <2>2. QED
    BY <2>1
<1>5. Phase(d) \in {"setup", "call", "over"} /\ Phase(e) \in {"setup", "call", "over"}
  BY DEF Phase
<1>6. p = "caller" => Answered' = Answered
  BY <1>3 DEF Answered, Peer
<1>7. p = "callee" =>
        /\ Answered = AcceptedFirst(d)
        /\ Answered' = AcceptedFirst(e)
  BY <1>3 DEF Answered, AcceptedFirst
<1>8. phase[p] = Phase(d)
  OBVIOUS
<1> HIDE DEF phase
<1>9. CASE Phase(e) = Phase(d)
  <2>1. phase' = phase
    BY <1>4, <1>8, <1>9 DEF phase
  <2>2. Answered' = Answered
    BY <1>2, <1>5, <1>6, <1>7, <1>9 DEF AcceptedInv, AcceptedFirst, Peer
  <2>3. QED
    BY <2>1, <2>2 DEF phase
<1>10. CASE Phase(d) # "over" /\ Phase(e) = "over"
  <2>1. Answered' = Answered
    BY <1>2, <1>6, <1>7, <1>10 DEF AcceptedFirst, Peer
  <2>2. Promise!Leave(p)
    BY <1>4, <1>8, <1>10, <2>1 DEF Promise!Leave, phase
  <2>3. QED
    BY <2>2 DEF Promise!Next, Promise!User, Peer
<1>11. CASE Phase(d) = "setup" /\ Phase(e) = "call" /\ p = "callee"
  <2>1. Answered'
    BY <1>2, <1>7, <1>11 DEF AcceptedInv, AcceptedFirst
  <2>2. Promise!Answer
    BY <1>4, <1>8, <1>11, <2>1 DEF Promise!Answer, phase
  <2>3. QED
    BY <2>2 DEF Promise!Next
<1>12. CASE Phase(d) = "setup" /\ Phase(e) = "call" /\ p = "caller"
  <2>1. Promise!Connect
    BY <1>2, <1>4, <1>6, <1>8, <1>12 DEF Promise!Connect, phase
  <2>2. QED
    BY <2>1 DEF Promise!Next
<1>13. QED
  BY <1>2, <1>5, <1>9, <1>10, <1>11, <1>12 DEF Peer

\* The dialogs implement Session: each side is set up, in the call, over, in
\* that order, and the caller connects only to a callee that accepted.
THEOREM Refinement == Spec => KeepsPromise
<1>1. Init => Promise!Init
  BY InitPromised
<1>2. IInv /\ [Next]_dlg =>
        [Promise!Next]_<<[p \in Peer |-> Phase(dlg[p])], Answered>>
  <2>1. UNCHANGED dlg =>
          UNCHANGED <<[p \in Peer |-> Phase(dlg[p])], Answered>>
    BY DEF Phase, Answered
  <2>2. QED
    BY <2>1, NextPromised
<1>3. QED
  BY <1>1, <1>2, Invariance, PTL DEF Spec, KeepsPromise, Promise!Spec


=============================================================================
