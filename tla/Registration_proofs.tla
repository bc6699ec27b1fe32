------------------------ MODULE Registration_proofs -------------------------
(***************************************************************************)
(* The safety of the registration, for every bound: TypeOK, OutcomePending *)
(* and, where the registrar grants more than the 15 s that reRegister      *)
(* subtracts, RefreshScheduled.                                            *)
(*                                                                         *)
(* OutcomePending is inductive: a thread that makes the agent wait creates *)
(* a transaction next, and then requests whatever t names; whoever assigns *)
(* t before that gives it a transaction to which the agent listens, and    *)
(* whoever terminates, answers or times out that one is in a call-back.    *)
(***************************************************************************)
EXTENDS Registration, SequenceTheorems, TLAPS

-----------------------------------------------------------------------------
(* The inductive invariant.                                                *)

\* A request on its way is there once, and its transaction is not forgotten.
SentInv ==
  /\ \A i \in DOMAIN registrar.sent :
       tx[registrar.sent[i]].status \in {"pending", "ended"}
  /\ \A i, j \in DOMAIN registrar.sent :
       registrar.sent[i] = registrar.sent[j] => i = j

\* A thread terminates or requests a transaction, never null.
PlaceInv ==
  \A h \in Thread :
    /\ thread[h].at \in {"terminating", "sending"} => thread[h].tx \in Transaction
    /\ thread[h].at = "requesting" => t \in Transaction
    /\ thread[h].at = "joining" => p2p

StructInv == TypeOK /\ SentInv /\ PlaceInv

\* The registrar grants expiries above 15 s only.
LongGrants == Grants \subseteq {"long"}

\* Without a deregistration every answer is one to a REGISTER, and renews; the
\* alarm of a registered phone is set, or a thread is about to set it.
RefreshInv ==
  fast /\ ~p2p =>
    /\ \A h \in Thread : thread[h].kind = "register"
    /\ \A k \in Transaction : tx[k].kind = "register"
    /\ expire_time = alarm
    /\ \A h \in Thread :
         thread[h].at \in {"reporting", "unregistering", "renewing"} => thread[h].renew = "long"
    /\ CurrentState = "REGISTERED" => alarm \/ \E h \in Thread : thread[h].at = "renewing"

IInv == StructInv /\ OutcomePending /\ (LongGrants => RefreshInv)

-----------------------------------------------------------------------------
(* Types, and threads.                                                     *)

States == {"UNDEFINED", "UNREGISTERED", "REGISTERING", "REGISTERED", "DEREGISTERING"}

Places ==
  {"rest", "expiring", "checking", "looking", "terminating", "refusing", "changing",
   "creating", "requesting", "sending", "joining", "authenticating", "settling",
   "succeeding", "failing", "going", "reporting", "unregistering", "renewing"}

\* h is at r, and no other thread moved.
Goes(h, r) ==
  /\ thread' \in [Thread -> ThreadState]
  /\ thread'[h] = r
  /\ \A g \in Thread \ {h} : thread'[g] = thread[g]

LEMMA ThreadIds ==
  /\ "main" \in Thread /\ "provider" \in Thread /\ "timer" \in Thread
  /\ "main" # "provider" /\ "main" # "timer" /\ "provider" # "timer"
BY DEF Thread

LEMMA NullTypes ==
  /\ AtRest \in ThreadState
  /\ AtRest.at = "rest" /\ AtRest.kind = "register" /\ AtRest.tx = 0
  /\ AtRest.event = "none" /\ AtRest.renew = "none"
  /\ NoTransaction \in TransactionClient
  /\ NoTransaction.status = "none" /\ NoTransaction.kind = "register"
  /\ ~ NoTransaction.listener
  /\ 0 \in TransactionOrNull
  /\ Transaction \subseteq TransactionOrNull
  /\ 0 \notin Transaction
BY RegistrationAssumption
   DEF AtRest, ThreadState, NoTransaction, TransactionClient, Kind, TransactionOrNull,
       Transaction

\* A thread that is given a new state has it.
LEMMA ThreadSet ==
  ASSUME NEW h \in Thread, NEW r \in ThreadState, TypeOK,
         thread' = [thread EXCEPT ![h] = r]
  PROVE  Goes(h, r)
BY DEF TypeOK, Goes

LEMMA ThreadMoves ==
  ASSUME NEW h \in Thread, NEW at \in Places, TypeOK, Moves(h, at)
  PROVE  /\ Goes(h, thread'[h])
         /\ thread'[h].at = at
         /\ thread'[h].kind = thread[h].kind
         /\ thread'[h].tx = thread[h].tx
         /\ thread'[h].event = thread[h].event
         /\ thread'[h].renew = thread[h].renew
<1> DEFINE r == [thread[h] EXCEPT !.at = at]
<1>1. thread[h] \in ThreadState
  BY DEF TypeOK
<1>2. /\ r \in ThreadState
      /\ r.at = at /\ r.kind = thread[h].kind /\ r.tx = thread[h].tx
      /\ r.event = thread[h].event /\ r.renew = thread[h].renew
  BY <1>1 DEF ThreadState, Places
<1>3. thread' = [thread EXCEPT ![h] = r]
  BY DEF Moves
<1> HIDE DEF r
<1> QED
  BY <1>2, <1>3, ThreadSet DEF Goes

LEMMA ThreadReturns ==
  ASSUME NEW h \in Thread, TypeOK, Returns(h)
  PROVE  /\ Goes(h, thread'[h])
         /\ thread'[h].at = "rest" /\ thread'[h].kind = "register"
BY NullTypes, ThreadSet DEF Returns, Goes

\* What follows a call-back.
LEMMA ThreadLeaves ==
  ASSUME NEW h \in Thread, TypeOK, Leaves(h)
  PROVE  /\ Goes(h, thread'[h])
         /\ thread'[h].at \in {"rest", "refusing"}
         /\ thread'[h].kind \in {thread[h].kind, "register"}
<1>1. CASE h = "main" /\ thread[h].event = "timeout"
  <2> DEFINE kind == thread[h].kind
             r == [AtRest EXCEPT !.at = "refusing", !.kind = kind]
  <2>1. kind \in Kind
    BY DEF TypeOK, ThreadState
  <2>2. thread' = [thread EXCEPT ![h] = r]
    BY <1>1 DEF Leaves
  <2> HIDE DEF kind
  <2>3. r \in ThreadState /\ r.at = "refusing" /\ r.kind = kind
    BY <2>1, NullTypes DEF ThreadState, AtRest
  <2> HIDE DEF r
  <2>4. Goes(h, r)
    BY <2>2, <2>3, ThreadSet
  <2> QED
    BY <2>3, <2>4 DEF Goes, kind
<1>2. CASE Returns(h)
  BY <1>2, ThreadReturns
<1> QED
  BY <1>1, <1>2 DEF Leaves

-----------------------------------------------------------------------------
(* What a step keeps that moves one thread.                                *)

\* What a thread owes to an agent that waits.
Owes(h) == InCallback(h) \/ WillRequest(h)
Waits == ~p2p /\ CurrentState \in {"REGISTERING", "DEREGISTERING"}
Pending ==
  \/ \E k \in Transaction : Alive(k)
  \/ \E h \in Thread : Owes(h)

LEMMA OutcomeIs == OutcomePending <=> (Waits => Pending)
BY DEF OutcomePending, Waits, Pending, Owes

\* A thread that leaves t and the transactions alone takes its own debt along.
LEMMA OwesSame ==
  ASSUME NEW h \in Thread, UNCHANGED <<t, tx>>, Goes(h, thread'[h]),
         Owes(h) => Owes(h)'
  PROVE  Pending => Pending'
<1>1. \A k : Alive(k)' = Alive(k) /\ Listens(k)' = Listens(k)
  BY DEF Alive, Listens
<1>2. Listens(t)' = Listens(t)
  BY DEF Listens
<1>3. ASSUME NEW g \in Thread, Owes(g)
      PROVE  Owes(g)'
  <2>1. CASE g = h
    BY <1>3, <2>1
  <2>2. CASE g # h
    <3>1. thread'[g] = thread[g]
      BY <2>2 DEF Goes
    <3>2. Listens(thread[g].tx)' = Listens(thread[g].tx)
      BY <3>1 DEF Listens
    <3> QED
      BY <1>2, <1>3, <3>1, <3>2 DEF Owes, InCallback, WillRequest
  <2> QED
    BY <2>1, <2>2
<1> QED
  BY <1>1, <1>3 DEF Pending

\* Which thread can be where, when h moves and t is not made null.
LEMMA PlaceKeeps ==
  ASSUME PlaceInv, NEW h \in Thread, UNCHANGED p2p, Goes(h, thread'[h]),
         t \in Transaction => t' \in Transaction,
         thread'[h].at \in {"terminating", "sending"} => thread'[h].tx \in Transaction,
         thread'[h].at = "requesting" => t' \in Transaction,
         thread'[h].at = "joining" => p2p
  PROVE  PlaceInv'
<1> SUFFICES ASSUME NEW g \in Thread
             PROVE  /\ thread'[g].at \in {"terminating", "sending"} => thread'[g].tx \in Transaction
                    /\ thread'[g].at = "requesting" => t' \in Transaction
                    /\ thread'[g].at = "joining" => p2p'
  BY DEF PlaceInv
<1>1. CASE g = h
  BY <1>1
<1>2. CASE g # h
  BY <1>2 DEF PlaceInv, Goes
<1> QED
  BY <1>1, <1>2

\* The alarm of a phone that never deregisters.
LEMMA RefreshKeeps ==
  ASSUME LongGrants => RefreshInv, NEW h \in Thread, UNCHANGED prefs, Goes(h, thread'[h]),
         LongGrants /\ RefreshInv /\ fast /\ ~p2p =>
           /\ thread'[h].kind = "register"
           /\ \A k \in Transaction : tx'[k].kind = "register"
           /\ expire_time' = alarm'
           /\ thread'[h].at \in {"reporting", "unregistering", "renewing"} =>
                thread'[h].renew = "long"
           /\ CurrentState' = "REGISTERED" =>
                \/ alarm'
                \/ thread'[h].at = "renewing"
                \/ /\ CurrentState = "REGISTERED"
                   /\ alarm' = alarm
                   /\ thread[h].at # "renewing"
  PROVE  LongGrants => RefreshInv'
<1> SUFFICES ASSUME LongGrants, fast', ~ p2p'
             PROVE  /\ \A g \in Thread : thread'[g].kind = "register"
                    /\ \A k \in Transaction : tx'[k].kind = "register"
                    /\ expire_time' = alarm'
                    /\ \A g \in Thread :
                         thread'[g].at \in {"reporting", "unregistering", "renewing"} =>
                           thread'[g].renew = "long"
                    /\ CurrentState' = "REGISTERED" =>
                         alarm' \/ \E g \in Thread : thread'[g].at = "renewing"
  BY DEF RefreshInv
<1>1. RefreshInv /\ fast /\ ~ p2p
  BY DEF prefs
<1>2. ASSUME NEW g \in Thread
      PROVE  /\ thread'[g].kind = "register"
             /\ thread'[g].at \in {"reporting", "unregistering", "renewing"} =>
                  thread'[g].renew = "long"
  <2>1. CASE g = h
    BY <1>1, <2>1
  <2>2. CASE g # h
    BY <1>1, <2>2 DEF Goes, RefreshInv
  <2> QED
    BY <2>1, <2>2
<1>3. ASSUME CurrentState' = "REGISTERED"
      PROVE  alarm' \/ \E g \in Thread : thread'[g].at = "renewing"
  <2>1. CASE alarm' \/ thread'[h].at = "renewing"
    BY <2>1
  <2>2. CASE CurrentState = "REGISTERED" /\ alarm' = alarm /\ thread[h].at # "renewing"
    <3>1. CASE alarm
      BY <2>2, <3>1
    <3>2. ASSUME NEW g \in Thread, thread[g].at = "renewing"
          PROVE  thread'[g].at = "renewing"
      BY <2>2, <3>2 DEF Goes
    <3> QED
      BY <1>1, <2>2, <3>1, <3>2 DEF RefreshInv
  <2> QED
    BY <1>1, <1>3, <2>1, <2>2
<1> QED
  BY <1>1, <1>2, <1>3

\* A step that moves h and may change the state or the alarm, but no transaction.
LEMMA MoveKeeps ==
  ASSUME IInv, NEW h \in Thread, Goes(h, thread'[h]),
         UNCHANGED <<t, tx, registrar, prefs>>,
         CurrentState' \in States, attempts' \in 0 .. MAX_ATTEMPTS,
         expire_time' \in BOOLEAN, alarm' \in BOOLEAN, calls' \in 0 .. MaxCalls,
         thread'[h].at \in {"terminating", "sending"} => thread'[h].tx \in Transaction,
         thread'[h].at = "requesting" => t \in Transaction,
         thread'[h].at = "joining" => p2p,
         Waits' => Owes(h)' \/ (CurrentState' = CurrentState /\ (Owes(h) => Owes(h)')),
         LongGrants /\ RefreshInv /\ fast /\ ~p2p =>
           /\ thread'[h].kind = "register"
           /\ expire_time' = alarm'
           /\ thread'[h].at \in {"reporting", "unregistering", "renewing"} =>
                thread'[h].renew = "long"
           /\ CurrentState' = "REGISTERED" =>
                \/ alarm'
                \/ thread'[h].at = "renewing"
                \/ /\ CurrentState = "REGISTERED"
                   /\ alarm' = alarm
                   /\ thread[h].at # "renewing"
  PROVE  IInv'
<1>1. TypeOK'
  BY DEF IInv, StructInv, TypeOK, States, Goes, prefs
<1>2. SentInv'
  BY DEF IInv, StructInv, SentInv
<1>3. PlaceInv'
  BY PlaceKeeps DEF IInv, StructInv, prefs
<1>4. OutcomePending'
  <2>1. ASSUME Waits' PROVE Pending'
    <3>1. CASE Owes(h)'
      BY <3>1 DEF Pending
    <3>2. CASE CurrentState' = CurrentState /\ (Owes(h) => Owes(h)')
      <4>1. Waits
        BY <2>1, <3>2 DEF Waits, prefs
      <4>2. Pending
        BY <4>1, OutcomeIs DEF IInv
      <4> QED
        BY <3>2, <4>2, OwesSame
    <3> QED
      BY <2>1, <3>1, <3>2
  <2>2. (Waits => Pending)'
    BY <2>1
  <2> QED
    BY <2>2, OutcomeIs, PTL
<1>5. LongGrants => RefreshInv'
  <2>1. ASSUME LongGrants, RefreshInv, fast, ~ p2p
        PROVE  \A k \in Transaction : tx'[k].kind = "register"
    BY <2>1 DEF RefreshInv
  <2> QED
    BY <2>1, RefreshKeeps DEF IInv
<1> QED
  BY <1>1, <1>2, <1>3, <1>4, <1>5 DEF IInv, StructInv, LongGrants

-----------------------------------------------------------------------------
(* SipdroidEngine, and register() up to its request.                       *)

LEMMA EngineKeeps ==
  ASSUME IInv, Engine
  PROVE  IInv'
<1>t. /\ TypeOK
      /\ MaxCalls \in Nat /\ MAX_ATTEMPTS \in Nat
      /\ CurrentState \in States
      /\ attempts \in 0 .. MAX_ATTEMPTS
      /\ expire_time \in BOOLEAN /\ alarm \in BOOLEAN
  BY RegistrationAssumption DEF IInv, StructInv, TypeOK, States
<1>c. Enters => /\ calls' \in 0 .. MaxCalls
                /\ thread["main"].at \in {"rest", "expiring"}
                /\ ~ Owes("main")
  BY <1>t DEF Enters, Rests, TypeOK, Owes, InCallback, WillRequest
<1>1. ASSUME NEW kinds \in SUBSET Kind, fast => kinds \subseteq {"register"},
             Enters, Calls(kinds)
      PROVE  IInv'
  <2>1. PICK kind \in kinds :
          thread' = [thread EXCEPT !["main"] = [AtRest EXCEPT !.at = "checking", !.kind = kind]]
    BY <1>1 DEF Calls
  <2> DEFINE r == [AtRest EXCEPT !.at = "checking", !.kind = kind]
  <2>2. r \in ThreadState /\ r.at = "checking" /\ r.kind = kind
    BY <2>1, NullTypes DEF ThreadState, AtRest
  <2>3. /\ UNCHANGED <<CurrentState, t, tx, expire_time, alarm, registrar, prefs>>
        /\ attempts' = 0
    BY <1>1 DEF Calls, clock
  <2> HIDE DEF r
  <2>4. Goes("main", r)
    BY <1>t, <2>1, <2>2, ThreadIds, ThreadSet DEF r
  <2>5. Goes("main", thread'["main"]) /\ thread'["main"] = r
    BY <2>4 DEF Goes
  <2>6. attempts' \in 0 .. MAX_ATTEMPTS
    BY <1>t, <2>3
  <2>7. fast => kind = "register"
    BY <1>1, <2>1
  <2>8. RefreshInv /\ fast /\ ~p2p =>
          /\ expire_time = alarm
          /\ thread["main"].at # "renewing"
    BY <1>c, <1>1 DEF RefreshInv
  <2> QED
    BY <1>t, <1>c, <1>1, <2>2, <2>3, <2>5, <2>6, <2>7, <2>8, ThreadIds, MoveKeeps
       DEF Waits, prefs
<1>2. CASE EngineRegister
  <2>0. Enters
    BY <1>2 DEF EngineRegister
  <2>1. CASE Calls(Kinds)
    BY <1>1, <2>0, <2>1 DEF Kinds, Kind
  <2>2. CASE p2p /\ Joins
    <3>1. /\ CurrentState' = "REGISTERING"
          /\ UNCHANGED <<attempts, t, tx, expire_time, alarm, registrar, prefs>>
          /\ Moves("main", "joining")
      BY <2>2 DEF Joins, clock
    <3>2. Goes("main", thread'["main"]) /\ thread'["main"].at = "joining"
      BY <1>t, <3>1, ThreadIds, ThreadMoves DEF Places
    <3>3. p2p' /\ CurrentState' \in States
      BY <2>2, <3>1 DEF prefs, States
    <3> QED
      BY <1>t, <1>c, <2>0, <2>2, <3>1, <3>2, <3>3, ThreadIds, MoveKeeps DEF Waits
  <2>3. CASE Returns("main") /\ UNCHANGED <<agent, clock, registrar, prefs>>
    <3>1. UNCHANGED <<CurrentState, attempts, t, tx, expire_time, alarm, registrar, prefs>>
      BY <2>3 DEF agent, clock
    <3>2. /\ Goes("main", thread'["main"])
          /\ thread'["main"].at = "rest" /\ thread'["main"].kind = "register"
      BY <1>t, <2>3, ThreadIds, ThreadReturns
    <3>3. RefreshInv /\ fast /\ ~p2p => expire_time = alarm
      BY DEF RefreshInv
    <3> QED
      BY <1>t, <1>c, <2>0, <3>1, <3>2, <3>3, ThreadIds, MoveKeeps DEF Waits, prefs
  <2> QED
    BY <1>2, <2>1, <2>2, <2>3 DEF EngineRegister
<1>3. CASE EngineRegisterMore \/ EngineRegisterUdp
  BY <1>1, <1>3 DEF EngineRegisterMore, EngineRegisterUdp, Kinds, Kind
<1>4. CASE Expire
  <2>1. /\ UNCHANGED <<attempts, t, tx, registrar, prefs>>
        /\ alarm' = FALSE /\ expire_time' = FALSE
        /\ CurrentState' = IF CurrentState = "REGISTERED" THEN "UNREGISTERED" ELSE CurrentState
        /\ Enters
        /\ Moves("main", "expiring")
    BY <1>4 DEF Expire
  <2>2. /\ Goes("main", thread'["main"])
        /\ thread'["main"].at = "expiring" /\ thread'["main"].kind = thread["main"].kind
    BY <1>t, <2>1, ThreadIds, ThreadMoves DEF Places
  <2>3. /\ CurrentState' \in States /\ CurrentState' # "REGISTERED"
        /\ Waits' => CurrentState' = CurrentState
    BY <1>t, <2>1 DEF States, Waits
  <2>4. RefreshInv /\ fast /\ ~p2p => thread["main"].kind = "register"
    BY ThreadIds DEF RefreshInv
  <2> QED
    BY <1>t, <1>c, <2>1, <2>2, <2>3, <2>4, ThreadIds, MoveKeeps
<1> QED
  BY <1>2, <1>3, <1>4 DEF Engine

\* The overlay answers: only in the P2P mode.
LEMMA OverlayKeeps ==
  ASSUME IInv, OverlayAnswers
  PROVE  IInv'
<1>t. /\ TypeOK
      /\ p2p
      /\ thread["main"].at = "joining"
      /\ UNCHANGED <<attempts, t, tx, expire_time, alarm, registrar, prefs, calls>>
      /\ attempts \in 0 .. MAX_ATTEMPTS /\ calls \in 0 .. MaxCalls
      /\ expire_time \in BOOLEAN /\ alarm \in BOOLEAN
      /\ CurrentState' \in States
  BY ThreadIds DEF IInv, StructInv, PlaceInv, OverlayAnswers, clock, TypeOK, States
<1>1. Goes("main", thread'["main"]) /\ thread'["main"].at \in {"renewing", "rest"}
  <2>1. CASE Moves("main", "renewing")
    BY <1>t, <2>1, ThreadIds, ThreadMoves DEF Places
  <2>2. CASE Returns("main")
    BY <1>t, <2>2, ThreadIds, ThreadReturns
  <2> QED
    BY <2>1, <2>2 DEF OverlayAnswers
<1>2. ~ Waits'
  BY <1>t DEF Waits, prefs
<1> QED
  BY <1>t, <1>1, <1>2, ThreadIds, MoveKeeps

\* A step that tests something and moves on, outside the reports.
LEMMA TestKeeps ==
  ASSUME IInv, NEW h \in Thread, Goes(h, thread'[h]),
         UNCHANGED <<CurrentState, attempts, t, tx, expire_time, alarm, registrar, prefs, calls>>,
         thread[h].at \notin {"reporting", "unregistering", "renewing"},
         thread'[h].at \notin {"reporting", "unregistering", "renewing", "joining"},
         thread'[h].kind \in {thread[h].kind, "register"},
         thread'[h].at \in {"terminating", "sending"} => thread'[h].tx \in Transaction,
         thread'[h].at = "requesting" => t \in Transaction,
         Owes(h) => Owes(h)'
  PROVE  IInv'
<1>1. /\ CurrentState \in States /\ attempts \in 0 .. MAX_ATTEMPTS
      /\ expire_time \in BOOLEAN /\ alarm \in BOOLEAN /\ calls \in 0 .. MaxCalls
  BY DEF IInv, StructInv, TypeOK, States
<1>2. RefreshInv /\ fast /\ ~p2p => thread[h].kind = "register" /\ expire_time = alarm
  BY DEF RefreshInv
<1> QED
  BY <1>1, <1>2, MoveKeeps

\* The tests of the state in register().
LEMMA RegisterTestsKeep ==
  ASSUME IInv, CheckState \/ Refuse
  PROVE  IInv'
<1>1. /\ TypeOK
      /\ UNCHANGED <<CurrentState, attempts, t, tx, expire_time, alarm, registrar, prefs, calls>>
      /\ thread["main"].at \in {"checking", "refusing"}
  BY DEF IInv, StructInv, CheckState, Refuse, agent, clock
<1>2. /\ Goes("main", thread'["main"])
      /\ thread'["main"].at \in {"looking", "refusing", "changing", "rest"}
      /\ thread'["main"].kind \in {thread["main"].kind, "register"}
  <2>1. CASE Returns("main")
    BY <1>1, <2>1, ThreadIds, ThreadReturns
  <2>2. ASSUME NEW at \in {"looking", "refusing", "changing"}, Moves("main", at)
        PROVE  /\ Goes("main", thread'["main"])
               /\ thread'["main"].at = at
               /\ thread'["main"].kind = thread["main"].kind
    BY <1>1, <2>2, ThreadIds, ThreadMoves DEF Places
  <2> QED
    BY <2>1, <2>2 DEF CheckState, Refuse
<1>3. ~ Owes("main")
  BY <1>1 DEF Owes, InCallback, WillRequest
<1> QED
  BY <1>1, <1>2, <1>3, ThreadIds, TestKeeps

\* What t names is read: the debt of the thread is now to that one.
LEMMA ReadTKeeps ==
  ASSUME IInv, NEW h \in Thread, ReadT(h)
  PROVE  IInv'
<1>1. /\ TypeOK
      /\ UNCHANGED <<CurrentState, attempts, t, tx, expire_time, alarm, registrar, prefs, calls>>
      /\ thread[h].at \in {"looking", "requesting"}
      /\ thread[h].at = "requesting" => t \in Transaction
      /\ thread[h] \in ThreadState
      /\ t \in TransactionOrNull
  BY DEF IInv, StructInv, PlaceInv, TypeOK, ReadT, agent, clock
<1>2. CASE Moves(h, "refusing") /\ thread[h].at = "looking"
  <2>1. /\ Goes(h, thread'[h])
        /\ thread'[h].at = "refusing" /\ thread'[h].kind = thread[h].kind
    BY <1>1, <1>2, ThreadMoves DEF Places
  <2>2. ~ Owes(h)
    BY <1>2 DEF Owes, InCallback, WillRequest
  <2> QED
    BY <1>1, <2>1, <2>2, TestKeeps
<1>3. ASSUME NEW at \in {"terminating", "sending"}, t \in Transaction,
             thread' = [thread EXCEPT ![h].at = at, ![h].tx = t],
             thread[h].at = "requesting" <=> at = "sending"
      PROVE  IInv'
  <2> DEFINE r == [thread[h] EXCEPT !.at = at, !.tx = t]
  <2>1. /\ r \in ThreadState
        /\ r.at = at /\ r.tx = t /\ r.kind = thread[h].kind
    BY <1>1 DEF ThreadState
  <2>2. thread' = [thread EXCEPT ![h] = r]
    BY <1>1, <1>3 DEF TypeOK, ThreadState
  <2> HIDE DEF r
  <2>3. Goes(h, r)
    BY <1>1, <2>1, <2>2, ThreadSet
  <2>4. /\ Goes(h, thread'[h])
        /\ thread'[h].at = at /\ thread'[h].tx = t /\ thread'[h].kind = thread[h].kind
    BY <2>1, <2>3 DEF Goes
  <2>5. Owes(h) => Owes(h)'
    <3>1. ASSUME Owes(h) PROVE at = "sending" /\ Listens(t)
      BY <1>1, <1>3, <3>1 DEF Owes, InCallback, WillRequest
    <3>2. ASSUME Owes(h) PROVE thread'[h].at = "sending" /\ Listens(thread[h].tx)'
      BY <1>1, <2>4, <3>1, <3>2 DEF Listens
    <3> QED
      BY <3>2 DEF Owes, WillRequest
  <2> QED
    BY <1>1, <1>3, <2>4, <2>5, TestKeeps
<1>4. t # 0 => t \in Transaction
  BY <1>1 DEF TransactionOrNull, Transaction
<1> QED
  BY <1>1, <1>2, <1>3, <1>4 DEF ReadT

\* From here on the agent waits, for a transaction that is yet to be created.
LEMMA ChangeStateKeeps ==
  ASSUME IInv, ChangeState
  PROVE  IInv'
<1>1. /\ TypeOK
      /\ UNCHANGED <<attempts, t, tx, expire_time, alarm, registrar, prefs, calls>>
      /\ CurrentState' \in {"REGISTERING", "DEREGISTERING"}
      /\ Moves("main", "creating")
      /\ attempts \in 0 .. MAX_ATTEMPTS /\ calls \in 0 .. MaxCalls
      /\ expire_time \in BOOLEAN /\ alarm \in BOOLEAN
      /\ CurrentState' \in States
  BY DEF IInv, StructInv, TypeOK, ChangeState, clock, Waiting, States
<1>2. /\ Goes("main", thread'["main"])
      /\ thread'["main"].at = "creating" /\ thread'["main"].kind = thread["main"].kind
  BY <1>1, ThreadIds, ThreadMoves DEF Places
<1>3. Owes("main")'
  BY <1>2 DEF Owes, WillRequest
<1>4. RefreshInv /\ fast /\ ~p2p => thread["main"].kind = "register" /\ expire_time = alarm
  BY ThreadIds DEF RefreshInv
<1> QED
  BY <1>1, <1>2, <1>3, <1>4, ThreadIds, MoveKeeps

-----------------------------------------------------------------------------
(* The call-backs.                                                         *)

LEMMA SettleKeeps ==
  ASSUME IInv, NEW h \in Thread, Settle(h)
  PROVE  IInv'
<1>1. /\ TypeOK
      /\ UNCHANGED <<CurrentState, attempts, t, tx, expire_time, alarm, registrar, prefs, calls>>
      /\ thread[h].at = "settling"
  BY DEF IInv, StructInv, Settle, agent, clock
<1>2. PICK at \in {"succeeding", "failing", "going"} : Moves(h, at)
  BY DEF Settle
<1>3. /\ Goes(h, thread'[h])
      /\ thread'[h].at = at /\ thread'[h].kind = thread[h].kind
  BY <1>1, <1>2, ThreadMoves DEF Places
<1>4. Owes(h)'
  BY <1>3 DEF Owes, InCallback
<1> QED
  BY <1>1, <1>3, <1>4, TestKeeps

\* The state that ends a wait.
LEMMA EndsKeep ==
  ASSUME IInv, NEW h \in Thread, Succeed(h) \/ Fail(h) \/ Go(h)
  PROVE  IInv'
<1>1. /\ TypeOK
      /\ thread[h] \in ThreadState
      /\ UNCHANGED <<attempts, t, tx, expire_time, alarm, registrar, prefs, calls>>
      /\ CurrentState' \in {"REGISTERED", "UNDEFINED", "UNREGISTERED"}
      /\ attempts \in 0 .. MAX_ATTEMPTS /\ calls \in 0 .. MaxCalls
      /\ expire_time \in BOOLEAN /\ alarm \in BOOLEAN
      /\ CurrentState' \in States
      /\ ~ Waits'
  BY DEF IInv, StructInv, TypeOK, Succeed, Fail, Go, clock, States, Waits
<1>2. RefreshInv /\ fast /\ ~p2p => thread[h].kind = "register" /\ expire_time = alarm
  BY DEF RefreshInv
<1>3. ASSUME NEW at \in {"renewing", "reporting"}, NEW renew \in {"long", "short", "none"},
             thread' = [thread EXCEPT ![h].at = at, ![h].renew = renew],
             CurrentState' = "REGISTERED" => at = "renewing",
             LongGrants /\ RefreshInv /\ fast /\ ~p2p => renew = "long"
      PROVE  IInv'
  <2> DEFINE r == [thread[h] EXCEPT !.at = at, !.renew = renew]
  <2>1. /\ r \in ThreadState
        /\ r.at = at /\ r.renew = renew /\ r.kind = thread[h].kind
    BY <1>1 DEF ThreadState
  <2>2. thread' = [thread EXCEPT ![h] = r]
    BY <1>1, <1>3 DEF TypeOK, ThreadState
  <2> HIDE DEF r
  <2>3. Goes(h, r)
    BY <1>1, <2>1, <2>2, ThreadSet
  <2>4. /\ Goes(h, thread'[h])
        /\ thread'[h].at = at /\ thread'[h].renew = renew
        /\ thread'[h].kind = thread[h].kind
    BY <2>1, <2>3 DEF Goes
  <2> QED
    BY <1>1, <1>2, <1>3, <2>4, MoveKeeps
<1>4. CASE Succeed(h)
  <2>1. PICK grant \in Granted(thread[h].kind) :
          thread' = [thread EXCEPT ![h].at = "renewing", ![h].renew = grant]
    BY <1>4 DEF Succeed
  <2>2. /\ grant \in {"long", "short", "none"}
        /\ LongGrants /\ thread[h].kind = "register" => grant = "long"
    BY <2>1, RegistrationAssumption DEF Granted, LongGrants
  <2> QED
    BY <1>2, <1>3, <2>1, <2>2
<1>5. CASE Fail(h)
  <2>1. /\ thread' = [thread EXCEPT ![h].at = "reporting", ![h].renew = "long"]
        /\ CurrentState' # "REGISTERED"
    BY <1>5 DEF Fail
  <2> QED
    BY <1>3, <2>1
<1>6. CASE Go(h)
  <2>1. Leaves(h) /\ CurrentState' = "UNREGISTERED"
    BY <1>6 DEF Go
  <2>2. /\ Goes(h, thread'[h])
        /\ thread'[h].at \in {"rest", "refusing"}
        /\ thread'[h].kind \in {thread[h].kind, "register"}
    BY <1>1, <2>1, ThreadLeaves
  <2> QED
    BY <1>1, <1>2, <2>1, <2>2, MoveKeeps
<1> QED
  BY <1>4, <1>5, <1>6

LEMMA ReportFailureKeeps ==
  ASSUME IInv, NEW h \in Thread, ReportFailure(h)
  PROVE  IInv'
<1>1. /\ TypeOK
      /\ UNCHANGED <<attempts, t, tx, expire_time, alarm, registrar, prefs, calls>>
      /\ thread[h].at \in {"reporting", "unregistering"}
      /\ attempts \in 0 .. MAX_ATTEMPTS /\ calls \in 0 .. MaxCalls
      /\ expire_time \in BOOLEAN /\ alarm \in BOOLEAN
      /\ CurrentState' \in States
      /\ CurrentState' \in {CurrentState, "UNREGISTERED"}
  BY DEF IInv, StructInv, TypeOK, ReportFailure, clock, States
<1>2. PICK at \in {"unregistering", "renewing"} : Moves(h, at)
  BY DEF ReportFailure
<1>3. /\ Goes(h, thread'[h])
      /\ thread'[h].at = at /\ thread'[h].kind = thread[h].kind
      /\ thread'[h].renew = thread[h].renew
  BY <1>1, <1>2, ThreadMoves DEF Places
<1>4. ~ Owes(h)
  BY <1>1 DEF Owes, InCallback, WillRequest
<1>5. Waits' => CurrentState' = CurrentState
  BY <1>1 DEF Waits
<1>6. RefreshInv /\ fast /\ ~p2p =>
        thread[h].kind = "register" /\ expire_time = alarm /\ thread[h].renew = "long"
  BY <1>1 DEF RefreshInv
<1>7. /\ CurrentState' = "REGISTERED" => CurrentState = "REGISTERED"
      /\ thread[h].at # "renewing"
  BY <1>1
<1> QED
  BY <1>1, <1>3, <1>4, <1>5, <1>6, <1>7, MoveKeeps

\* Receiver.reRegister: after it the alarm of a phone that never deregisters is set.
LEMMA ReRegisterKeeps ==
  ASSUME IInv, NEW h \in Thread, ReRegister(h)
  PROVE  IInv'
<1>1. /\ TypeOK
      /\ UNCHANGED <<CurrentState, attempts, t, tx, registrar, prefs, calls>>
      /\ thread[h].at = "renewing"
      /\ Leaves(h)
      /\ attempts \in 0 .. MAX_ATTEMPTS /\ calls \in 0 .. MaxCalls
      /\ CurrentState \in States
  BY DEF IInv, StructInv, TypeOK, ReRegister, agent, States
<1> DEFINE renew == thread[h].renew
<1>2. \/ expire_time /\ renew # "none" /\ alarm' = alarm /\ expire_time' = expire_time
      \/ expire_time' = (renew # "none") /\ alarm' = (renew = "long")
  BY DEF ReRegister, clock
<1>3. expire_time' \in BOOLEAN /\ alarm' \in BOOLEAN
  BY <1>1, <1>2 DEF TypeOK
<1>4. /\ Goes(h, thread'[h])
      /\ thread'[h].at \in {"rest", "refusing"}
      /\ thread'[h].kind \in {thread[h].kind, "register"}
  BY <1>1, ThreadLeaves
<1>5. ~ Owes(h)
  BY <1>1 DEF Owes, InCallback, WillRequest
<1>6. ASSUME RefreshInv, fast, ~p2p
      PROVE  thread[h].kind = "register" /\ expire_time' = alarm' /\ alarm'
  <2>1. thread[h].kind = "register" /\ expire_time = alarm /\ renew = "long"
    BY <1>1, <1>6 DEF RefreshInv
  <2>2. CASE expire_time /\ alarm' = alarm /\ expire_time' = expire_time
    BY <2>1, <2>2, Zenon
  <2>3. CASE expire_time' = (renew # "none") /\ alarm' = (renew = "long")
    BY <2>1, <2>3
  <2> QED
    BY <1>2, <2>1, <2>2, <2>3
<1> QED
  BY <1>1, <1>3, <1>4, <1>5, <1>6, MoveKeeps

-----------------------------------------------------------------------------
(* Steps that make, end or send a transaction.                             *)

\* Such a step: the debts that change hands are settled by the caller.
LEMMA StepKeeps ==
  ASSUME IInv, NEW h \in Thread, Goes(h, thread'[h]),
         UNCHANGED <<CurrentState, expire_time, alarm, prefs, calls>>,
         TypeOK', SentInv',
         t \in Transaction => t' \in Transaction,
         thread'[h].at \in {"terminating", "sending"} => thread'[h].tx \in Transaction,
         thread'[h].at = "requesting" => t' \in Transaction,
         thread'[h].at = "joining" => p2p,
         Pending => Pending',
         RefreshInv /\ fast /\ ~p2p =>
           /\ thread'[h].kind = "register"
           /\ \A k \in Transaction : tx'[k].kind = "register",
         \/ thread'[h] = thread[h]
         \/ /\ thread[h].at # "renewing"
            /\ thread'[h].at \notin {"reporting", "unregistering", "renewing"}
  PROVE  IInv'
<1>1. PlaceInv'
  BY PlaceKeeps DEF IInv, StructInv, prefs
<1>2. OutcomePending'
  <2>1. (Waits => Pending)'
    BY OutcomeIs DEF IInv, Waits, prefs
  <2> QED
    BY <2>1, OutcomeIs, PTL
<1>3. LongGrants => RefreshInv'
  <2>1. CASE thread'[h] = thread[h] /\ thread[h].at = "renewing"
    <3>1. RefreshInv => thread[h].at = "renewing" /\ (fast /\ ~p2p => thread[h].renew = "long")
      BY <2>1 DEF RefreshInv
    <3>2. RefreshInv /\ fast /\ ~p2p => expire_time = alarm
      BY DEF RefreshInv
    <3> QED
      BY <2>1, <3>1, <3>2, RefreshKeeps DEF IInv
  <2>2. CASE thread'[h] = thread[h] /\ thread[h].at # "renewing"
    <3>1. RefreshInv /\ fast /\ ~p2p =>
            /\ thread[h].at \in {"reporting", "unregistering"} => thread[h].renew = "long"
            /\ expire_time = alarm
      BY DEF RefreshInv
    <3> QED
      BY <2>2, <3>1, RefreshKeeps DEF IInv
  <2>3. CASE /\ thread[h].at # "renewing"
             /\ thread'[h].at \notin {"reporting", "unregistering", "renewing"}
    <3>1. RefreshInv /\ fast /\ ~p2p => expire_time = alarm
      BY DEF RefreshInv
    <3> QED
      BY <2>3, <3>1, RefreshKeeps DEF IInv
  <2> QED
    BY <2>1, <2>2, <2>3
<1> QED
  BY <1>1, <1>2, <1>3 DEF IInv, StructInv, LongGrants

\* A transaction that ends is in the way of nobody.
LEMMA OverEnds ==
  ASSUME StructInv, NEW k \in Transaction, tx[k].status = "pending",
         tx' = [tx EXCEPT ![k] = Over(k)], UNCHANGED registrar
  PROVE  /\ tx' \in [Transaction -> TransactionClient]
         /\ \A j \in Transaction \ {k} : tx'[j] = tx[j]
         /\ tx'[k].kind \in {tx[k].kind, "register"}
         /\ SentInv'
<1>1. tx \in [Transaction -> TransactionClient] /\ tx[k] \in TransactionClient
  BY DEF StructInv, TypeOK
<1> DEFINE ended == [tx[k] EXCEPT !.status = "ended", !.listener = FALSE]
<1>2. ended \in TransactionClient /\ ended.status = "ended" /\ ended.kind = tx[k].kind
  BY <1>1 DEF TransactionClient
<1>3. /\ Over(k) \in TransactionClient
      /\ Over(k).kind \in {tx[k].kind, "register"}
      /\ InFlight(k) => Over(k).status = "ended"
  BY <1>2, NullTypes DEF Over
<1>4. /\ tx' \in [Transaction -> TransactionClient]
      /\ tx'[k] = Over(k)
      /\ \A j \in Transaction \ {k} : tx'[j] = tx[j]
  BY <1>1, <1>3
<1>5. ASSUME NEW i \in DOMAIN registrar.sent
      PROVE  tx'[registrar.sent[i]].status \in {"pending", "ended"}
  <2>1. registrar.sent[i] \in Transaction
    BY DEF StructInv, TypeOK
  <2>2. CASE registrar.sent[i] = k
    BY <1>3, <1>4, <2>2 DEF InFlight
  <2>3. CASE registrar.sent[i] # k
    BY <1>4, <2>1, <2>3 DEF StructInv, SentInv
  <2> QED
    BY <2>2, <2>3
<1>6. SentInv'
  BY <1>5 DEF StructInv, SentInv
<1> QED
  BY <1>3, <1>4, <1>6

\* t.terminate(): the main thread becomes the one that reports.
LEMMA TerminateKeeps ==
  ASSUME IInv, Terminate
  PROVE  IInv'
<1>1. /\ TypeOK /\ StructInv
      /\ thread["main"] \in ThreadState
      /\ thread["main"].at = "terminating"
      /\ UNCHANGED <<CurrentState, attempts, t, expire_time, alarm, registrar, prefs, calls>>
      /\ thread' = [thread EXCEPT !["main"].at = "settling", !["main"].tx = 0,
                                  !["main"].event = "timeout"]
  BY ThreadIds DEF IInv, StructInv, TypeOK, Terminate, clock
<1>2. PICK k \in Transaction : tx' = [tx EXCEPT ![k] = Terminated(k)]
  BY <1>1, ThreadIds DEF Terminate, StructInv, PlaceInv
<1> DEFINE r == [thread["main"] EXCEPT !.at = "settling", !.tx = 0, !.event = "timeout"]
<1>3. /\ r \in ThreadState
      /\ r.at = "settling" /\ r.kind = thread["main"].kind
  BY <1>1, NullTypes DEF ThreadState
<1>4. thread' = [thread EXCEPT !["main"] = r]
  BY <1>1, ThreadIds DEF TypeOK, ThreadState
<1> HIDE DEF r
<1>5. Goes("main", r)
  BY <1>1, <1>3, <1>4, ThreadIds, ThreadSet
<1>6. /\ Goes("main", thread'["main"])
      /\ thread'["main"].at = "settling" /\ thread'["main"].kind = thread["main"].kind
  BY <1>3, <1>5 DEF Goes
<1>7. tx \in [Transaction -> TransactionClient] /\ tx[k] \in TransactionClient
  BY <1>1 DEF TypeOK
<1>8. /\ tx' \in [Transaction -> TransactionClient]
      /\ SentInv'
      /\ \A j \in Transaction : tx'[j].kind \in {tx[j].kind, "register"}
  <2>1. CASE tx[k].status = "pending"
    <3>1. tx' = [tx EXCEPT ![k] = Over(k)]
      BY <1>2, <2>1 DEF Terminated
    <3> QED
      BY <1>1, <2>1, <3>1, OverEnds
  <2>2. CASE tx[k].status = "new"
    <3> DEFINE deaf == [tx[k] EXCEPT !.listener = FALSE]
    <3>1. /\ deaf \in TransactionClient
          /\ deaf.status = "new" /\ deaf.kind = tx[k].kind
      BY <1>7, <2>2 DEF TransactionClient
    <3>2. tx' = [tx EXCEPT ![k] = deaf]
      BY <1>2, <2>2 DEF Terminated
    <3>3. /\ tx' \in [Transaction -> TransactionClient]
          /\ \A j \in Transaction : tx'[j].status = tx[j].status /\ tx'[j].kind = tx[j].kind
      BY <1>7, <2>2, <3>1, <3>2
    <3>4. SentInv'
      BY <1>1, <3>3 DEF StructInv, TypeOK, SentInv
    <3> QED
      BY <3>3, <3>4
  <2>3. CASE tx[k].status \notin {"pending", "new"}
    <3>1. tx' = tx
      BY <1>2, <1>7, <2>3 DEF Terminated
    <3> QED
      BY <1>1, <1>7, <3>1 DEF StructInv, SentInv
  <2> QED
    BY <2>1, <2>2, <2>3
<1>9. TypeOK'
  BY <1>1, <1>6, <1>8 DEF TypeOK, Goes, prefs
<1>10. Pending'
  BY <1>6, ThreadIds DEF Pending, Owes, InCallback
<1>11. RefreshInv /\ fast /\ ~p2p =>
         /\ thread'["main"].kind = "register"
         /\ \A j \in Transaction : tx'[j].kind = "register"
  BY <1>6, <1>8, ThreadIds DEF RefreshInv
<1> QED
  BY <1>1, <1>6, <1>8, <1>9, <1>10, <1>11, ThreadIds, StepKeeps

LEMMA ClientType ==
  ASSUME NEW kind \in Kind
  PROVE  /\ Client(kind) \in TransactionClient
         /\ Client(kind).status = "new" /\ Client(kind).kind = kind
         /\ Client(kind).listener
BY DEF Client, TransactionClient

\* t names a new transaction to which the agent listens, and nothing that was
\* requested, or is about to be, was forgotten.
LEMMA CreatesKeeps ==
  ASSUME StructInv, NEW kind \in Kind, Creates(kind), UNCHANGED registrar
  PROVE  /\ t' \in Transaction
         /\ Listens(t)'
         /\ tx' \in [Transaction -> TransactionClient]
         /\ SentInv'
         /\ \A j \in Transaction : tx'[j].kind \in {tx[j].kind, kind, "register"}
<1>1. PICK k \in Transaction :
        /\ tx[k].status = "none"
        /\ t' = k
        /\ tx' = [j \in Transaction |->
                    CASE j = k -> Client(kind)
                      [] j = t /\ tx[j].status = "new" /\ ~Held(j) -> NoTransaction
                      [] OTHER -> tx[j]]
  <2>1. NewTransaction \in Transaction /\ tx[NewTransaction].status = "none"
    BY DEF Creates, NewTransaction, Free
  <2>2. PICK k \in Transaction : k = NewTransaction
    BY <2>1
  <2>3. /\ t' = NewTransaction
        /\ tx' = [j \in Transaction |->
                    CASE j = NewTransaction -> Client(kind)
                      [] j = t /\ tx[j].status = "new" /\ ~Held(j) -> NoTransaction
                      [] OTHER -> tx[j]]
    BY DEF Creates
  <2> QED
    BY <2>1, <2>2, <2>3
<1>2. tx \in [Transaction -> TransactionClient]
  BY DEF StructInv, TypeOK
<1>3. ASSUME NEW j \in Transaction
      PROVE  \/ j = k /\ tx'[j] = Client(kind)
             \/ j # k /\ tx[j].status = "new" /\ tx'[j] = NoTransaction
             \/ j # k /\ tx'[j] = tx[j]
  BY <1>1
<1>4. tx'[k] = Client(kind)
  BY <1>1
<1>5. Listens(t)'
  BY <1>1, <1>4, ClientType, NullTypes DEF Listens
<1>6. tx' \in [Transaction -> TransactionClient]
  <2>1. \A j \in Transaction : tx'[j] \in TransactionClient
    BY <1>2, <1>3, ClientType, NullTypes
  <2> QED
    BY <1>1, <2>1
<1>7. \A j \in Transaction : tx'[j].kind \in {tx[j].kind, kind, "register"}
  BY <1>3, ClientType, NullTypes
<1>8. SentInv'
  <2>1. ASSUME NEW i \in DOMAIN registrar.sent
        PROVE  tx'[registrar.sent[i]].status \in {"pending", "ended"}
    <3>1. /\ registrar.sent[i] \in Transaction
          /\ tx[registrar.sent[i]].status \in {"pending", "ended"}
      BY DEF StructInv, TypeOK, SentInv
    <3> QED
      BY <1>1, <1>3, <3>1
  <2> QED
    BY <2>1 DEF StructInv, SentInv
<1> QED
  BY <1>1, <1>5, <1>6, <1>7, <1>8

\* The main thread assigns t, and will request whatever t names by then.
LEMMA CreateTransactionKeeps ==
  ASSUME IInv, CreateTransaction
  PROVE  IInv'
<1>1. /\ TypeOK /\ StructInv
      /\ thread["main"].at = "creating"
      /\ thread["main"].kind \in Kind
      /\ UNCHANGED <<CurrentState, attempts, expire_time, alarm, registrar, prefs, calls>>
      /\ Moves("main", "requesting")
      /\ Creates(thread["main"].kind)
  BY ThreadIds DEF IInv, StructInv, TypeOK, ThreadState, CreateTransaction, clock
<1>2. PICK kind \in Kind : kind = thread["main"].kind
  BY <1>1
<1>3. /\ t' \in Transaction
      /\ Listens(t)'
      /\ tx' \in [Transaction -> TransactionClient]
      /\ SentInv'
      /\ \A j \in Transaction : tx'[j].kind \in {tx[j].kind, kind, "register"}
  BY <1>1, <1>2, CreatesKeeps
<1>4. /\ Goes("main", thread'["main"])
      /\ thread'["main"].at = "requesting" /\ thread'["main"].kind = kind
  BY <1>1, <1>2, ThreadIds, ThreadMoves DEF Places
<1>5. TypeOK'
  BY <1>1, <1>3, <1>4, NullTypes DEF TypeOK, Goes, prefs
<1>6. Pending'
  BY <1>3, <1>4, ThreadIds DEF Pending, Owes, WillRequest
<1>7. RefreshInv /\ fast /\ ~p2p =>
        /\ thread'["main"].kind = "register"
        /\ \A j \in Transaction : tx'[j].kind = "register"
  BY <1>2, <1>3, <1>4, ThreadIds DEF RefreshInv
<1> QED
  BY <1>1, <1>3, <1>4, <1>5, <1>6, <1>7, ThreadIds, StepKeeps

\* A challenge hands the report to the transaction that answers it.
LEMMA AuthenticateKeeps ==
  ASSUME IInv, Authenticate
  PROVE  IInv'
<1>1. /\ TypeOK /\ StructInv
      /\ thread["provider"].at = "authenticating"
      /\ thread["provider"].kind \in Kind
      /\ UNCHANGED <<CurrentState, expire_time, alarm, registrar, prefs, calls>>
  BY ThreadIds DEF IInv, StructInv, TypeOK, ThreadState, Authenticate, clock
<1>2. PICK kind \in Kind : kind = thread["provider"].kind
  BY <1>1
<1>3. attempts' \in 0 .. MAX_ATTEMPTS
  <2>1. MAX_ATTEMPTS \in Nat /\ attempts \in 0 .. MAX_ATTEMPTS
    BY <1>1, RegistrationAssumption DEF TypeOK
  <2>2. attempts' = IF attempts < MAX_ATTEMPTS THEN attempts + 1 ELSE attempts
    BY DEF Authenticate
  <2> QED
    BY <2>1, <2>2
<1>4. CASE Creates(kind) /\ Moves("provider", "requesting")
  <2>1. /\ t' \in Transaction
        /\ Listens(t)'
        /\ tx' \in [Transaction -> TransactionClient]
        /\ SentInv'
        /\ \A j \in Transaction : tx'[j].kind \in {tx[j].kind, kind, "register"}
    BY <1>1, <1>4, CreatesKeeps
  <2>2. /\ Goes("provider", thread'["provider"])
        /\ thread'["provider"].at = "requesting" /\ thread'["provider"].kind = kind
    BY <1>1, <1>2, <1>4, ThreadIds, ThreadMoves DEF Places
  <2>3. TypeOK'
    BY <1>1, <1>3, <2>1, <2>2, NullTypes DEF TypeOK, Goes, prefs
  <2>4. Pending'
    BY <2>1, <2>2, ThreadIds DEF Pending, Owes, WillRequest
  <2>5. RefreshInv /\ fast /\ ~p2p =>
          /\ thread'["provider"].kind = "register"
          /\ \A j \in Transaction : tx'[j].kind = "register"
    BY <1>2, <2>1, <2>2, ThreadIds DEF RefreshInv
  <2> QED
    BY <1>1, <2>1, <2>2, <2>3, <2>4, <2>5, ThreadIds, StepKeeps
<1>5. CASE UNCHANGED <<t, tx>> /\ Moves("provider", "settling")
  <2>1. /\ Goes("provider", thread'["provider"])
        /\ thread'["provider"].at = "settling" /\ thread'["provider"].kind = kind
    BY <1>1, <1>2, <1>5, ThreadIds, ThreadMoves DEF Places
  <2>2. TypeOK'
    BY <1>1, <1>3, <1>5, <2>1 DEF TypeOK, Goes, prefs
  <2>3. SentInv'
    BY <1>1, <1>5 DEF StructInv, SentInv
  <2>4. Pending'
    BY <2>1, ThreadIds DEF Pending, Owes, InCallback
  <2>5. RefreshInv /\ fast /\ ~p2p =>
          /\ thread'["provider"].kind = "register"
          /\ \A j \in Transaction : tx'[j].kind = "register"
    BY <1>2, <1>5, <2>1, ThreadIds DEF RefreshInv
  <2> QED
    BY <1>1, <1>5, <2>1, <2>2, <2>3, <2>4, <2>5, ThreadIds, StepKeeps
<1> QED
  BY <1>2, <1>4, <1>5 DEF Authenticate

\* A request is sent for k, which has none on its way.
LEMMA SentAppends ==
  ASSUME StructInv, NEW k \in Transaction, tx[k].status = "new",
         tx'[k].status = "pending",
         \A j \in Transaction \ {k} : tx'[j] = tx[j],
         registrar' = [registrar EXCEPT !.sent = Append(@, k)]
  PROVE  /\ registrar' \in [sent : Seq(Transaction), bound : BOOLEAN]
         /\ SentInv'
<1> DEFINE sent == registrar.sent
<1>1. sent \in Seq(Transaction) /\ registrar \in [sent : Seq(Transaction), bound : BOOLEAN]
  BY DEF StructInv, TypeOK
<1>2. registrar'.sent = Append(sent, k)
  BY <1>1
<1>3. registrar' \in [sent : Seq(Transaction), bound : BOOLEAN]
  <2>1. PICK longer : longer = Append(sent, k)
    OBVIOUS
  <2>2. longer \in Seq(Transaction)
    BY <1>1, <2>1
  <2>3. registrar' = [registrar EXCEPT !.sent = longer]
    BY <2>1
  <2> QED
    BY <1>1, <2>2, <2>3
<1>4. \A i \in 1 .. Len(sent) : sent[i] \in Transaction /\ sent[i] # k
  <2>1. \A i \in DOMAIN sent : tx[sent[i]].status \in {"pending", "ended"}
    BY DEF StructInv, SentInv
  <2> QED
    BY <1>1, <2>1
<1>5. /\ DOMAIN Append(sent, k) = 1 .. Len(sent) + 1
      /\ \A i \in 1 .. Len(sent) : Append(sent, k)[i] = sent[i]
      /\ Append(sent, k)[Len(sent) + 1] = k
      /\ DOMAIN sent = 1 .. Len(sent)
      /\ Len(sent) \in Nat
  BY <1>1
<1>6. \A i \in 1 .. Len(sent) : tx[sent[i]].status \in {"pending", "ended"}
  BY <1>5 DEF StructInv, SentInv
<1>7. \A i, j \in 1 .. Len(sent) : sent[i] = sent[j] => i = j
  BY <1>5 DEF StructInv, SentInv
<1> HIDE DEF sent
<1>8. ASSUME NEW i \in 1 .. Len(sent) + 1
      PROVE  \/ i \in 1 .. Len(sent) /\ Append(sent, k)[i] = sent[i]
             \/ i = Len(sent) + 1 /\ Append(sent, k)[i] = k
  BY <1>5
<1>9. ASSUME NEW i \in 1 .. Len(sent) + 1
      PROVE  tx'[Append(sent, k)[i]].status \in {"pending", "ended"}
  BY <1>4, <1>6, <1>8
<1>10. ASSUME NEW i \in 1 .. Len(sent) + 1, NEW j \in 1 .. Len(sent) + 1,
              Append(sent, k)[i] = Append(sent, k)[j]
       PROVE  i = j
  BY <1>4, <1>7, <1>8, <1>10
<1>11. SentInv'
  BY <1>2, <1>5, <1>9, <1>10 DEF SentInv
<1> QED
  BY <1>3, <1>11

\* A transaction that is requested is the agent's hope from then on; one that was
\* requested before stays so.
LEMMA RequestKeeps ==
  ASSUME IInv, NEW h \in Thread, Request(h)
  PROVE  IInv'
<1>1. /\ TypeOK /\ StructInv
      /\ thread[h].at = "sending"
      /\ UNCHANGED <<CurrentState, attempts, t, expire_time, alarm, prefs, calls>>
      /\ Returns(h)
      /\ thread[h].tx \in Transaction
  BY DEF IInv, StructInv, PlaceInv, Request, clock
<1>2. PICK k \in Transaction : k = thread[h].tx
  BY <1>1
<1>3. /\ Goes(h, thread'[h])
      /\ thread'[h].at = "rest" /\ thread'[h].kind = "register"
  BY <1>1, ThreadReturns
<1>4. /\ tx' \in [Transaction -> TransactionClient]
      /\ registrar' \in [sent : Seq(Transaction), bound : BOOLEAN]
      /\ SentInv'
      /\ \A j \in Transaction : /\ tx'[j].kind = tx[j].kind
                                /\ tx'[j].listener = tx[j].listener
                                /\ \/ tx'[j].status = tx[j].status
                                   \/ tx[j].status = "new" /\ tx'[j].status = "pending"
      /\ tx'[k].status # "new"
  <2>1. CASE tx[k].status = "new"
    <3> DEFINE sent == [tx[k] EXCEPT !.status = "pending"]
    <3>1. tx \in [Transaction -> TransactionClient] /\ tx[k] \in TransactionClient
      BY <1>1 DEF TypeOK
    <3>2. /\ sent \in TransactionClient
          /\ sent.status = "pending" /\ sent.kind = tx[k].kind
          /\ sent.listener = tx[k].listener
      BY <3>1 DEF TransactionClient
    <3>3. tx' = [tx EXCEPT ![k] = sent] /\ registrar' = [registrar EXCEPT !.sent = Append(@, k)]
      BY <1>2, <2>1, <3>1 DEF Request
    <3> HIDE DEF sent
    <3>4. /\ tx' \in [Transaction -> TransactionClient]
          /\ tx'[k] = sent
          /\ \A j \in Transaction \ {k} : tx'[j] = tx[j]
      BY <3>1, <3>2, <3>3
    <3>5. registrar' \in [sent : Seq(Transaction), bound : BOOLEAN] /\ SentInv'
      BY <1>1, <2>1, <3>2, <3>3, <3>4, SentAppends
    <3> QED
      BY <2>1, <3>2, <3>4, <3>5
  <2>2. CASE tx[k].status # "new"
    <3>1. UNCHANGED <<tx, registrar>>
      BY <1>2, <2>2 DEF Request
    <3> QED
      BY <1>1, <2>2, <3>1 DEF StructInv, SentInv, TypeOK
  <2> QED
    BY <2>1, <2>2
<1>5. TypeOK'
  BY <1>1, <1>3, <1>4 DEF TypeOK, Goes, prefs
<1>6. ASSUME NEW j \in TransactionOrNull
      PROVE  (Alive(j) => Alive(j)' \/ j = 0) /\ (Listens(j) => j \in Transaction /\ Listens(j)')
  <2>1. j # 0 => j \in Transaction
    BY DEF Transaction, TransactionOrNull
  <2> QED
    BY <1>4, <2>1 DEF Alive, Listens
<1>7. Pending => Pending'
  <2>1. ASSUME NEW j \in Transaction, Alive(j)
        PROVE  Pending'
    BY <1>6, <2>1, NullTypes DEF Pending
  <2>2. ASSUME Owes(h)
        PROVE  Pending'
    <3>1. Listens(k)
      BY <1>1, <1>2, <2>2 DEF Owes, InCallback, WillRequest
    <3>2. Alive(k)'
      BY <1>4, <3>1 DEF Listens, Alive
    <3> QED
      BY <3>2 DEF Pending
  <2>3. ASSUME NEW g \in Thread \ {h}, Owes(g)
        PROVE  Pending'
    <3>1. thread'[g] = thread[g] /\ t' = t
      BY <1>1, <1>3 DEF Goes
    <3>2. thread[g].tx \in TransactionOrNull /\ t \in TransactionOrNull
      BY <1>1 DEF TypeOK, ThreadState
    <3>3. Listens(thread[g].tx) => Listens(thread[g].tx)'
      <4>1. PICK j \in TransactionOrNull : j = thread[g].tx
        BY <3>2
      <4>2. Listens(j) => Listens(j)'
        BY <1>6
      <4> QED
        BY <3>1, <4>1, <4>2 DEF Listens
    <3>4. Listens(t) => Listens(t)'
      <4>1. PICK j \in TransactionOrNull : j = t
        BY <3>2
      <4>2. Listens(j) => Listens(j)'
        BY <1>6
      <4> QED
        BY <3>1, <4>1, <4>2 DEF Listens
    <3>5. Owes(g)'
      BY <2>3, <3>1, <3>3, <3>4 DEF Owes, InCallback, WillRequest
    <3> QED
      BY <3>5 DEF Pending
  <2> QED
    BY <2>1, <2>2, <2>3 DEF Pending
<1>8. RefreshInv /\ fast /\ ~p2p => \A j \in Transaction : tx'[j].kind = "register"
  BY <1>4 DEF RefreshInv
<1> QED
  BY <1>1, <1>3, <1>4, <1>5, <1>7, <1>8, StepKeeps

\* A transaction that has no listener is nobody's hope.
LEMMA DeafEnds ==
  ASSUME NEW k \in Transaction, UNCHANGED <<t, thread>>, t \in TransactionOrNull,
         \A h \in Thread : thread[h].tx \in TransactionOrNull,
         ~ tx[k].listener,
         \A j \in Transaction \ {k} : tx'[j] = tx[j]
  PROVE  Pending => Pending'
<1>1. ASSUME NEW j \in TransactionOrNull
      PROVE  (Alive(j) => Alive(j)' \/ j = 0) /\ (Listens(j) => Listens(j)')
  <2>1. j # 0 => j \in Transaction
    BY DEF Transaction, TransactionOrNull
  <2> QED
    BY <2>1 DEF Alive, Listens
<1>2. ASSUME NEW g \in Thread, Owes(g)
      PROVE  Owes(g)'
  <2>1. PICK j \in TransactionOrNull : j = thread[g].tx
    OBVIOUS
  <2>2. PICK l \in TransactionOrNull : l = t
    OBVIOUS
  <2>3. (Listens(j) => Listens(j)') /\ (Listens(l) => Listens(l)')
    BY <1>1
  <2>4. /\ Listens(thread[g].tx) => Listens(thread[g].tx)'
        /\ Listens(t) => Listens(t)'
    BY <2>1, <2>2, <2>3 DEF Listens
  <2> QED
    BY <1>2, <2>4 DEF Owes, InCallback, WillRequest
<1>3. ASSUME NEW j \in Transaction, Alive(j)
      PROVE  Alive(j)'
  BY <1>1, <1>3, NullTypes
<1> QED
  BY <1>2, <1>3 DEF Pending

\* The answer ends the transaction, and its report goes to the provider thread.
LEMMA ReceiveAnswerKeeps ==
  ASSUME IInv, NEW k \in Transaction, ReceiveAnswer(k)
  PROVE  IInv'
<1>1. /\ TypeOK /\ StructInv
      /\ tx[k] \in TransactionClient
      /\ tx[k].status = "pending"
      /\ thread["provider"].at = "rest"
      /\ t \in TransactionOrNull
      /\ UNCHANGED <<CurrentState, attempts, t, expire_time, alarm, registrar, prefs, calls>>
      /\ tx' = [tx EXCEPT ![k] = Over(k)]
  BY DEF IInv, StructInv, TypeOK, ReceiveAnswer, Rests, clock
<1>2. /\ tx' \in [Transaction -> TransactionClient]
      /\ \A j \in Transaction \ {k} : tx'[j] = tx[j]
      /\ tx'[k].kind \in {tx[k].kind, "register"}
      /\ SentInv'
  BY <1>1, OverEnds
<1>3. RefreshInv /\ fast /\ ~p2p =>
        /\ tx[k].kind = "register" /\ thread["provider"].kind = "register"
        /\ \A j \in Transaction : tx'[j].kind = "register"
  BY <1>2, ThreadIds DEF RefreshInv
<1>4. CASE tx[k].listener
  <2> DEFINE at == IF tx[k].answer = "ok" THEN "settling" ELSE "authenticating"
             r == [AtRest EXCEPT !.kind = tx[k].kind, !.event = tx[k].answer, !.at = at]
  <2>1. /\ r \in ThreadState
        /\ r.at \in {"settling", "authenticating"}
        /\ r.kind = tx[k].kind
    BY <1>1, NullTypes DEF ThreadState, TransactionClient, AtRest
  <2>2. thread' = [thread EXCEPT !["provider"] = r]
    BY <1>4 DEF ReceiveAnswer
  <2> HIDE DEF r
  <2>3. Goes("provider", r)
    BY <1>1, <2>1, <2>2, ThreadIds, ThreadSet
  <2>4. /\ Goes("provider", thread'["provider"])
        /\ thread'["provider"].at \in {"settling", "authenticating"}
        /\ thread'["provider"].kind = tx[k].kind
    BY <2>1, <2>3 DEF Goes
  <2>5. TypeOK'
    BY <1>1, <1>2, <2>4 DEF TypeOK, Goes, prefs
  <2>6. Pending'
    BY <2>4, ThreadIds DEF Pending, Owes, InCallback
  <2> QED
    BY <1>1, <1>2, <1>3, <2>4, <2>5, <2>6, ThreadIds, StepKeeps
<1>5. CASE ~ tx[k].listener
  <2>1. thread' = thread
    BY <1>5 DEF ReceiveAnswer
  <2>2. Goes("provider", thread'["provider"]) /\ thread'["provider"] = thread["provider"]
    BY <1>1, <2>1 DEF TypeOK, Goes
  <2>3. TypeOK'
    BY <1>1, <1>2, <2>1 DEF TypeOK, prefs
  <2>4. Pending => Pending'
    BY <1>1, <1>2, <1>5, <2>1, DeafEnds DEF TypeOK, ThreadState
  <2> QED
    BY <1>1, <1>2, <1>3, <2>2, <2>3, <2>4, ThreadIds, StepKeeps
<1> QED
  BY <1>4, <1>5

LEMMA ConcatLen ==
  ASSUME NEW a \in Seq(Transaction), NEW b \in Seq(Transaction)
  PROVE  Len(a \o b) = Len(a) + Len(b)
BY ConcatProperties

\* A sequence without repetitions from which the i-th element is taken consists
\* of the other elements, without repetitions.
LEMMA TakenOut ==
  ASSUME NEW s \in Seq(Transaction), NEW i \in 1 .. Len(s),
         \A j, l \in 1 .. Len(s) : s[j] = s[l] => j = l,
         NEW a \in Seq(Transaction), Len(a) = i - 1,
         \A j \in 1 .. i - 1 : a[j] = s[j],
         NEW b \in Seq(Transaction), Len(b) = Len(s) - i,
         \A j \in 1 .. Len(s) - i : b[j] = s[i + j]
  PROVE  /\ a \o b \in Seq(Transaction)
         /\ \A j \in DOMAIN (a \o b) : \E l \in 1 .. Len(s) : l # i /\ (a \o b)[j] = s[l]
         /\ \A j, l \in DOMAIN (a \o b) : (a \o b)[j] = (a \o b)[l] => j = l
<1>1. PICK n \in Nat : n = Len(s)
  OBVIOUS
<1>2. PICK u \in Seq(Transaction) : u = a \o b
  BY ConcatProperties
<1>3. Len(u) = Len(a) + Len(b)
  BY <1>2, ConcatLen, Zenon
<1>4. \A j \in 1 .. Len(a) + Len(b) : u[j] = IF j <= Len(a) THEN a[j] ELSE b[j - Len(a)]
  BY <1>2, ConcatProperties
<1>5. Len(a) + Len(b) = n - 1
  BY <1>1
<1>6. DOMAIN u = 1 .. n - 1
  BY <1>3, <1>5
<1>7. ASSUME NEW j \in 1 .. n - 1
      PROVE  u[j] = s[IF j < i THEN j ELSE j + 1]
  <2>1. CASE j < i
    <3>1. j <= i - 1 /\ j \in 1 .. i - 1
      BY <1>1, <2>1
    <3>2. u[j] = a[j]
      BY <1>4, <1>5, <3>1
    <3> QED
      BY <2>1, <3>1, <3>2
  <2>2. CASE ~ (j < i)
    <3>1. /\ j - (i - 1) \in 1 .. n - i
          /\ i + (j - (i - 1)) = j + 1
          /\ ~ (j <= i - 1)
      BY <1>1, <2>2
    <3>2. u[j] = b[j - (i - 1)]
      BY <1>4, <1>5, <3>1
    <3>3. b[j - (i - 1)] = s[i + (j - (i - 1))]
      BY <1>1, <3>1
    <3> QED
      BY <2>2, <3>1, <3>2, <3>3
  <2> QED
    BY <2>1, <2>2
<1>8. ASSUME NEW j \in 1 .. n - 1
      PROVE  \E l \in 1 .. n : l # i /\ u[j] = s[l]
  <2>1. (IF j < i THEN j ELSE j + 1) \in 1 .. n /\ (IF j < i THEN j ELSE j + 1) # i
    BY <1>1
  <2> QED
    BY <1>7, <2>1
<1>9. ASSUME NEW j \in 1 .. n - 1, NEW l \in 1 .. n - 1, u[j] = u[l]
      PROVE  j = l
  <2>1. PICK m \in 1 .. n : m = IF j < i THEN j ELSE j + 1
    BY <1>1
  <2>2. PICK k \in 1 .. n : k = IF l < i THEN l ELSE l + 1
    BY <1>1
  <2>3. s[m] = s[k]
    BY <1>7, <1>9, <2>1, <2>2
  <2>4. m = k
    BY <1>1, <2>3
  <2> QED
    BY <1>1, <2>1, <2>2, <2>4
<1> QED
  BY <1>1, <1>2, <1>6, <1>8, <1>9

\* The request of k is no longer on its way, and its transaction changes.
LEMMA SentRemoves ==
  ASSUME StructInv, NEW k \in Transaction, NEW i \in 1 .. Len(registrar.sent),
         registrar.sent[i] = k,
         registrar'.sent = SubSeq(registrar.sent, 1, i - 1)
                             \o SubSeq(registrar.sent, i + 1, Len(registrar.sent)),
         \A j \in Transaction \ {k} : tx'[j] = tx[j]
  PROVE  /\ registrar'.sent \in Seq(Transaction)
         /\ SentInv'
<1>1. PICK s \in Seq(Transaction) : s = registrar.sent
  BY DEF StructInv, TypeOK
<1>2. PICK u : u = registrar'.sent
  OBVIOUS
<1>3. DOMAIN s = 1 .. Len(s) /\ \A j \in 1 .. Len(s) : s[j] \in Transaction
  OBVIOUS
<1>4. /\ \A j \in 1 .. Len(s) : tx[s[j]].status \in {"pending", "ended"}
      /\ \A j, l \in 1 .. Len(s) : s[j] = s[l] => j = l
  BY <1>1, <1>3 DEF StructInv, SentInv
<1>5. PICK a : a = SubSeq(s, 1, i - 1)
  OBVIOUS
<1>6. PICK b : b = SubSeq(s, i + 1, Len(s))
  OBVIOUS
<1>7. Len(s) \in Nat /\ i \in 1 .. Len(s)
  BY <1>1
<1>8. /\ a \in Seq(Transaction) /\ Len(a) = i - 1
      /\ \A j \in 1 .. i - 1 : a[j] = s[j]
  BY <1>5, <1>7
<1>9. /\ b \in Seq(Transaction) /\ Len(b) = Len(s) - i
      /\ \A j \in 1 .. Len(s) - i : b[j] = s[i + j]
  BY <1>6, <1>7
<1>10. u = a \o b
  BY <1>1, <1>2, <1>5, <1>6
<1>11. /\ u \in Seq(Transaction)
       /\ \A j \in DOMAIN u : \E l \in 1 .. Len(s) : l # i /\ u[j] = s[l]
       /\ \A j, l \in DOMAIN u : u[j] = u[l] => j = l
  <2>1. a \in Seq(Transaction) /\ b \in Seq(Transaction)
    BY <1>8, <1>9
  <2>2. /\ a \o b \in Seq(Transaction)
        /\ \A j \in DOMAIN (a \o b) : \E l \in 1 .. Len(s) : l # i /\ (a \o b)[j] = s[l]
        /\ \A j, l \in DOMAIN (a \o b) : (a \o b)[j] = (a \o b)[l] => j = l
    BY <1>4, <1>7, <1>8, <1>9, <2>1, TakenOut, Zenon
  <2> QED
    BY <1>10, <2>2, Zenon
<1>12. ASSUME NEW j \in DOMAIN u
      PROVE  tx'[u[j]].status \in {"pending", "ended"}
  <2>1. PICK l \in 1 .. Len(s) : l # i /\ u[j] = s[l]
    BY <1>11
  <2>2. s[l] \in Transaction \ {k}
    BY <1>1, <1>3, <1>4, <2>1
  <2> QED
    BY <1>4, <2>1, <2>2
<1>13. SentInv'
  BY <1>2, <1>11, <1>12 DEF SentInv
<1> QED
  BY <1>2, <1>11, <1>13

\* The timer thread takes the report over.
LEMMA TimeOutKeeps ==
  ASSUME IInv, NEW k \in Transaction, TimeOut(k)
  PROVE  IInv'
<1>1. /\ TypeOK /\ StructInv
      /\ thread["timer"].at \in {"rest", "joining"}
      /\ t \in TransactionOrNull
      /\ UNCHANGED <<CurrentState, attempts, t, expire_time, alarm, prefs, calls>>
      /\ tx' = [tx EXCEPT ![k] = NoTransaction]
      /\ registrar \in [sent : Seq(Transaction), bound : BOOLEAN]
      /\ registrar.sent \in Seq(Transaction)
  BY ThreadIds DEF IInv, StructInv, TypeOK, TimeOut, clock
<1>2. /\ tx' \in [Transaction -> TransactionClient]
      /\ tx'[k] = NoTransaction
      /\ \A j \in Transaction \ {k} : tx'[j] = tx[j]
  BY <1>1, NullTypes DEF TypeOK
<1>3. registrar' \in [sent : Seq(Transaction), bound : BOOLEAN] /\ SentInv'
  <2>1. CASE InFlight(k)
    <3>1. PICK i \in DOMAIN registrar.sent :
            /\ registrar.sent[i] = k
            /\ registrar' = [registrar EXCEPT !.sent =
                               SubSeq(@, 1, i - 1) \o SubSeq(@, i + 1, Len(@))]
      BY <2>1 DEF TimeOut
    <3>2. i \in 1 .. Len(registrar.sent)
      BY <1>1
    <3>3. registrar'.sent = SubSeq(registrar.sent, 1, i - 1)
                              \o SubSeq(registrar.sent, i + 1, Len(registrar.sent))
      BY <1>1, <3>1
    <3>4. registrar'.sent \in Seq(Transaction) /\ SentInv'
      BY <1>1, <1>2, <3>1, <3>2, <3>3, SentRemoves
    <3>5. registrar' = [registrar EXCEPT !.sent = registrar'.sent]
      BY <1>1, <3>1
    <3> QED
      BY <1>1, <3>4, <3>5
  <2>2. CASE ~ InFlight(k)
    <3>1. registrar' = registrar
      BY <2>2 DEF TimeOut
    <3>2. ASSUME NEW i \in DOMAIN registrar.sent
          PROVE  tx'[registrar.sent[i]].status \in {"pending", "ended"}
      <4>1. registrar.sent[i] \in Transaction \ {k}
        BY <1>1, <2>2 DEF InFlight
      <4> QED
        BY <1>1, <1>2, <4>1 DEF StructInv, SentInv
    <3> QED
      BY <1>1, <3>1, <3>2 DEF StructInv, SentInv
  <2> QED
    BY <2>1, <2>2
<1>4. RefreshInv /\ fast /\ ~p2p =>
        /\ thread["timer"].kind = "register"
        /\ \A j \in Transaction : tx'[j].kind = "register"
  BY <1>2, NullTypes, ThreadIds DEF RefreshInv
<1>5. CASE tx[k].listener
  <2> DEFINE r == [AtRest EXCEPT !.at = "settling", !.event = "timeout"]
  <2>1. r \in ThreadState /\ r.at = "settling" /\ r.kind = "register"
    BY NullTypes DEF ThreadState, AtRest
  <2>2. thread' = [thread EXCEPT !["timer"] = r]
    BY <1>5 DEF TimeOut
  <2> HIDE DEF r
  <2>3. Goes("timer", r)
    BY <1>1, <2>1, <2>2, ThreadIds, ThreadSet
  <2>4. /\ Goes("timer", thread'["timer"])
        /\ thread'["timer"].at = "settling" /\ thread'["timer"].kind = "register"
    BY <2>1, <2>3 DEF Goes
  <2>5. TypeOK'
    BY <1>1, <1>2, <1>3, <2>4 DEF TypeOK, Goes, prefs
  <2>6. Pending'
    BY <2>4, ThreadIds DEF Pending, Owes, InCallback
  <2> QED
    BY <1>1, <1>3, <1>4, <2>4, <2>5, <2>6, ThreadIds, StepKeeps
<1>6. CASE ~ tx[k].listener
  <2>1. thread' = thread
    BY <1>6 DEF TimeOut
  <2>2. Goes("timer", thread'["timer"]) /\ thread'["timer"] = thread["timer"]
    BY <1>1, <2>1 DEF TypeOK, Goes
  <2>3. TypeOK'
    BY <1>1, <1>2, <1>3, <2>1 DEF TypeOK, prefs
  <2>4. Pending => Pending'
    BY <1>1, <1>2, <1>6, <2>1, DeafEnds DEF TypeOK, ThreadState
  <2>5. thread["timer"].at = "joining" => p2p
    BY <1>1, ThreadIds DEF StructInv, PlaceInv
  <2> QED
    BY <1>1, <1>3, <1>4, <2>2, <2>3, <2>4, <2>5, ThreadIds, StepKeeps
<1> QED
  BY <1>5, <1>6

\* The registrar answers a request, or it arrives for a transaction that ended.
LEMMA RegistrarKeeps ==
  ASSUME IInv, RegistrarAnswers
  PROVE  IInv'
<1>t. /\ TypeOK /\ StructInv
      /\ UNCHANGED <<CurrentState, attempts, t, expire_time, alarm, thread, prefs, calls>>
  BY DEF IInv, StructInv, RegistrarAnswers, clock
<1>1. PICK s \in Seq(Transaction) : s = registrar.sent /\ s # <<>>
  BY <1>t DEF TypeOK, RegistrarAnswers
<1>2. PICK k : k = Head(s)
  OBVIOUS
<1>3. PICK answer \in {"ok", "challenge", "refused"} :
        /\ registrar' =
             [sent  |-> Tail(s),
              bound |-> IF answer = "ok" THEN tx[k].kind = "register" ELSE registrar.bound]
        /\ tx' = IF tx[k].status = "pending"
                 THEN [tx EXCEPT ![k].answer = answer]
                 ELSE [tx EXCEPT ![k] = NoTransaction]
  BY <1>1, <1>2 DEF RegistrarAnswers
<1>4. PICK u \in Seq(Transaction) :
        u = Tail(s) /\ Len(u) = Len(s) - 1 /\ \A i \in 1 .. Len(u) : u[i] = s[i + 1]
  <2>1. Tail(s) \in Seq(Transaction) /\ Len(Tail(s)) = Len(s) - 1
    BY <1>1
  <2>2. \A i \in 1 .. Len(Tail(s)) : Tail(s)[i] = s[i + 1]
    BY <1>1, <2>1
  <2> QED
    BY <2>1, <2>2
<1>5. /\ Len(s) \in Nat \ {0} /\ DOMAIN s = 1 .. Len(s) /\ k = s[1]
      /\ \A i \in 1 .. Len(s) : s[i] \in Transaction
      /\ DOMAIN u = 1 .. Len(s) - 1
  BY <1>1, <1>2, <1>4
<1>6. /\ \A i \in 1 .. Len(s) : tx[s[i]].status \in {"pending", "ended"}
      /\ \A i, j \in 1 .. Len(s) : s[i] = s[j] => i = j
  BY <1>t, <1>1, <1>5 DEF StructInv, SentInv
<1>7. /\ k \in Transaction
      /\ tx[k] \in TransactionClient
      /\ tx[k].status \in {"pending", "ended"}
  BY <1>t, <1>5, <1>6 DEF TypeOK
<1>8. /\ tx' \in [Transaction -> TransactionClient]
      /\ \A j \in Transaction \ {k} : tx'[j] = tx[j]
      /\ tx[k].status = "pending" =>
           /\ tx'[k].status = "pending"
           /\ tx'[k].listener = tx[k].listener
      /\ tx'[k].kind \in {tx[k].kind, "register"}
  <2>1. CASE tx[k].status = "pending"
    <3> DEFINE answered == [tx[k] EXCEPT !.answer = answer]
    <3>1. /\ answered \in TransactionClient
          /\ answered.status = "pending"
          /\ answered.kind = tx[k].kind /\ answered.listener = tx[k].listener
      BY <1>7, <2>1 DEF TransactionClient
    <3>2. tx' = [tx EXCEPT ![k] = answered]
      BY <1>3, <2>1
    <3> HIDE DEF answered
    <3> QED
      BY <1>t, <1>7, <3>1, <3>2 DEF TypeOK
  <2>2. CASE tx[k].status = "ended"
    <3>1. tx' = [tx EXCEPT ![k] = NoTransaction]
      BY <1>3, <2>2
    <3> QED
      BY <1>t, <1>7, <2>2, <3>1, NullTypes DEF TypeOK
  <2> QED
    BY <1>7, <2>1, <2>2
<1>9. registrar' \in [sent : Seq(Transaction), bound : BOOLEAN] /\ registrar'.sent = u
  <2>1. registrar.bound \in BOOLEAN
    BY <1>t DEF TypeOK
  <2> QED
    BY <1>3, <1>4, <2>1
<1>10. SentInv'
  <2>1. ASSUME NEW i \in 1 .. Len(s) - 1
        PROVE  u[i] = s[i + 1] /\ i + 1 \in 1 .. Len(s)
    BY <1>4, <1>5
  <2>2. ASSUME NEW i \in 1 .. Len(s) - 1
        PROVE  tx'[u[i]].status \in {"pending", "ended"}
    <3>1. s[i + 1] # s[1]
      BY <1>5, <1>6, <2>1
    <3>2. u[i] \in Transaction \ {k}
      BY <1>5, <2>1, <3>1
    <3>3. tx[u[i]].status \in {"pending", "ended"}
      BY <1>6, <2>1
    <3> QED
      BY <1>8, <3>2, <3>3
  <2>3. ASSUME NEW i \in 1 .. Len(s) - 1, NEW j \in 1 .. Len(s) - 1, u[i] = u[j]
        PROVE  i = j
    <3>1. i + 1 = j + 1
      BY <1>6, <2>1, <2>3
    <3> QED
      BY <1>5, <3>1
  <2> QED
    BY <1>5, <1>9, <2>2, <2>3 DEF SentInv
<1>11. TypeOK'
  BY <1>t, <1>8, <1>9 DEF TypeOK, prefs
<1>12. Pending => Pending'
  <2>1. ASSUME NEW j, Listens(j), j \in TransactionOrNull
        PROVE  Listens(j)' /\ (Alive(j) => Alive(j)')
    <3>1. j \in Transaction
      BY <2>1 DEF Listens, Transaction, TransactionOrNull
    <3> QED
      BY <1>7, <1>8, <2>1, <3>1 DEF Listens, Alive
  <2>2. ASSUME NEW g \in Thread, Owes(g)
        PROVE  Owes(g)'
    <3>1. thread[g].tx \in TransactionOrNull /\ t \in TransactionOrNull
      BY <1>t DEF TypeOK, ThreadState
    <3>2. PICK j \in TransactionOrNull : j = thread[g].tx
      BY <3>1
    <3>3. PICK l \in TransactionOrNull : l = t
      BY <3>1
    <3>4. (Listens(j) => Listens(j)') /\ (Listens(l) => Listens(l)')
      BY <2>1
    <3>5. /\ Listens(thread[g].tx) => Listens(thread[g].tx)'
          /\ Listens(t) => Listens(t)'
      BY <1>t, <3>2, <3>3, <3>4 DEF Listens
    <3> QED
      BY <1>t, <2>2, <3>5 DEF Owes, InCallback, WillRequest
  <2>3. ASSUME NEW j \in Transaction, Alive(j)
        PROVE  Alive(j)'
    BY <1>7, <1>8, <2>3 DEF Alive
  <2> QED
    BY <2>2, <2>3 DEF Pending
<1>13. RefreshInv /\ fast /\ ~p2p =>
         /\ thread["main"].kind = "register"
         /\ \A j \in Transaction : tx'[j].kind = "register"
  BY <1>8, ThreadIds DEF RefreshInv
<1>14. Goes("main", thread'["main"]) /\ thread'["main"] = thread["main"]
  BY <1>t DEF TypeOK, Goes
<1>15. /\ thread["main"].at \in {"terminating", "sending"} => thread["main"].tx \in Transaction
       /\ thread["main"].at = "requesting" => t \in Transaction
       /\ thread["main"].at = "joining" => p2p
  BY <1>t, ThreadIds DEF StructInv, PlaceInv
<1> QED
  BY <1>t, <1>10, <1>11, <1>12, <1>13, <1>14, <1>15, ThreadIds, StepKeeps

-----------------------------------------------------------------------------
(* The theorems.                                                           *)

LEMMA InitInv == Init => IInv
<1> SUFFICES ASSUME Init PROVE IInv
  OBVIOUS
<1>1. /\ \A k \in Transaction : tx[k] = NoTransaction
      /\ \A h \in Thread : thread[h] = AtRest
  BY DEF Init
<1>2. TypeOK
  <2>1. attempts \in 0 .. MAX_ATTEMPTS /\ calls \in 0 .. MaxCalls
    BY RegistrationAssumption DEF Init
  <2>2. tx \in [Transaction -> TransactionClient] /\ thread \in [Thread -> ThreadState]
    BY NullTypes DEF Init
  <2>3. registrar \in [sent : Seq(Transaction), bound : BOOLEAN]
    BY DEF Init
  <2> QED
    BY <2>1, <2>2, <2>3, NullTypes DEF Init, TypeOK
<1>3. SentInv
  <2>1. DOMAIN registrar.sent = {}
    BY DEF Init
  <2> QED
    BY <2>1 DEF SentInv
<1>4. PlaceInv
  BY <1>1, NullTypes DEF PlaceInv
<1>5. OutcomePending
  BY DEF Init, OutcomePending
<1>6. RefreshInv
  BY <1>1, NullTypes DEF Init, RefreshInv
<1> QED
  BY <1>2, <1>3, <1>4, <1>5, <1>6 DEF IInv, StructInv

LEMMA NextInv == IInv /\ [Next]_vars => IInv'
<1> SUFFICES ASSUME IInv, [Next]_vars PROVE IInv'
  OBVIOUS
<1>1. CASE Engine
  BY <1>1, EngineKeeps
<1>2. CASE RegisterSteps
  BY <1>2, RegisterTestsKeep, TerminateKeeps, ChangeStateKeeps, CreateTransactionKeeps
     DEF RegisterSteps
<1>3. CASE OverlayAnswers
  BY <1>3, OverlayKeeps
<1>4. ASSUME NEW k \in Transaction, ReceiveAnswer(k) \/ TimeOut(k)
      PROVE  IInv'
  BY <1>4, ReceiveAnswerKeeps, TimeOutKeeps
<1>5. CASE Authenticate
  BY <1>5, AuthenticateKeeps
<1>6. ASSUME NEW h \in Thread, RequestSteps(h)
      PROVE  IInv'
  BY <1>6, ReadTKeeps, RequestKeeps DEF RequestSteps
<1>7. ASSUME NEW h \in Thread, CallbackSteps(h)
      PROVE  IInv'
  BY <1>7, SettleKeeps, EndsKeep, ReportFailureKeeps, ReRegisterKeeps DEF CallbackSteps
<1>8. CASE RegistrarAnswers
  BY <1>8, RegistrarKeeps
<1>9. CASE UNCHANGED vars
  BY <1>9 DEF vars, IInv, StructInv, TypeOK, SentInv, PlaceInv, OutcomePending, Alive,
              InCallback, WillRequest, Listens, RefreshInv, LongGrants
<1> QED
  BY <1>1, <1>2, <1>3, <1>4, <1>5, <1>6, <1>7, <1>8, <1>9 DEF Next

\* The invariant holds in every state, whatever the bounds and the registrar.
THEOREM Invariance == Spec => []IInv
<1>1. Init => IInv
  BY InitInv
<1>2. IInv /\ [Next]_vars => IInv'
  BY NextInv
<1> QED
  BY <1>1, <1>2, PTL DEF Spec

\* The fields of the agent, its transactions and its threads keep their types;
\* attempts never exceeds MAX_ATTEMPTS.
THEOREM TypeCorrect == Spec => []TypeOK
<1>1. IInv => TypeOK
  BY DEF IInv, StructInv
<1> QED
  BY <1>1, Invariance, PTL

\* An agent that refuses a new register() has its outcome to come, however its
\* transactions were terminated, challenged, timed out, or requested by another
\* thread than the one that created them.
THEOREM OutcomeIsPending == Spec => []OutcomePending
<1>1. IInv => OutcomePending
  BY DEF IInv
<1> QED
  BY <1>1, Invariance, PTL

\* Where the registrar grants more than 15 s, a phone at rest that never
\* deregisters and is registered has the alarm of its next registration set.
THEOREM RefreshAlwaysScheduled ==
  ASSUME LongGrants
  PROVE  Spec => []RefreshScheduled
<1>1. ASSUME IInv PROVE RefreshScheduled
  <2> SUFFICES ASSUME Quiet, ~p2p, fast, CurrentState = "REGISTERED"
               PROVE  alarm
    BY DEF RefreshScheduled
  <2>1. \A h \in Thread : thread[h].at # "renewing"
    BY DEF Quiet, Rests
  <2> QED
    BY <1>1, <2>1, LongGrants DEF IInv, RefreshInv
<1>2. IInv => RefreshScheduled
  BY <1>1
<1> QED
  BY <1>2, Invariance, PTL

=============================================================================
