------------------------------ MODULE Session -------------------------------
(***************************************************************************)
(* What a session between two users promises, apart from SIP: each user's  *)
(* part of it is set up, is a call, is over, in that order and never back. *)
(* The callee answers, the caller connects only to a callee that answered, *)
(* and either of them may leave at any time.                               *)
(***************************************************************************)
VARIABLES
  phase,      \* phase[u], what the session is to user u
  answered    \* the callee has answered

User == {"caller", "callee"}

Init ==
  /\ phase = [u \in User |-> "setup"]
  /\ answered = FALSE

Answer ==
  /\ phase["callee"] = "setup"
  /\ phase' = [phase EXCEPT !["callee"] = "call"]
  /\ answered' = TRUE

Connect ==
  /\ phase["caller"] = "setup"
  /\ answered
  /\ phase' = [phase EXCEPT !["caller"] = "call"]
  /\ UNCHANGED answered

Leave(u) ==
  /\ phase[u] # "over"
  /\ phase' = [phase EXCEPT ![u] = "over"]
  /\ UNCHANGED answered

Next == Answer \/ Connect \/ \E u \in User : Leave(u)

Spec == Init /\ [][Next]_<<phase, answered>>

=============================================================================
