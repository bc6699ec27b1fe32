--------------------------- MODULE MCInviteDialog ---------------------------
EXTENDS InviteDialog, DialogSteps

\* How many requests each side makes.
Requests(caller, callee) == [p \in Peer |-> IF p = "caller" THEN caller ELSE callee]

\* Each side re-invites or hangs up once: their re-INVITEs may cross.
LastCSeq22 == Requests(2, 2)

\* What UserAgent takes for granted: the status of a dialog changes by the
\* steps of DialogSteps only, those of its callbacks and those of its Call.
FollowsSteps ==
  [][\A p \in Peer :
       LET st == dlg[p].status
           next == dlg'[p].status
       IN \/ next \in {st, Accepted(st), HungUp(st), Modified(st)}
          \/ st = "INIT" /\ next \in {"WAITING", "INVITING"}
          \/ \E event \in DOMAIN Steps : <<st, next>> \in Steps[event]]_dlg

=============================================================================
