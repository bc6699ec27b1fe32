---------------------------- MODULE Registration ----------------------------
(***************************************************************************)
(* The RegisterAgent of the phone's one account, with the parts of         *)
(* SipdroidEngine and Receiver that call it, and the registrar.            *)
(*                                                                         *)
(* Nothing but Receiver.reRegister is synchronized.  Three threads enter   *)
(* the agent: "main", of the broadcasts and the screens; "provider", which *)
(* brings the answers; and "timer", of a TransactionClient that times out. *)
(* A step is one access to what another thread also uses: CurrentState, or *)
(* the field t, which is assigned, and read again to send the request.     *)
(*                                                                         *)
(* Times are abstracted: an expiry is "long", "short" (not above the 15 s  *)
(* that reRegister subtracts) or "none", and of expire_time only whether   *)
(* it is set is kept.                                                      *)
(***************************************************************************)
EXTENDS Integers, Sequences

CONSTANTS
  MAX_ATTEMPTS,      \* of the code: 3
  MaxCalls,          \* bound: the broadcasts, alarms and placed calls
  MaxTransactions,   \* bound: the TransactionClients alive at one time
  Grants             \* the expiries the registrar grants

VARIABLES
  CurrentState,      \* of the RegisterAgent
  attempts,
  t,                 \* the field t, 0 is null
  tx,                \* tx[k], the k-th TransactionClient
  expire_time,       \* whether Receiver.expire_time is not 0
  alarm,             \* whether the OneShotAlarm is set
  thread,
  registrar,         \* the requests on their way to it, and its binding
  p2p,               \* the preference PREF_P2P
  fast,              \* whether Receiver.isFast whenever it is asked
  calls              \* how many calls were made

agent == <<CurrentState, attempts, t, tx>>
clock == <<expire_time, alarm>>
prefs == <<p2p, fast>>
vars == <<CurrentState, attempts, t, tx, expire_time, alarm, thread, registrar, p2p, fast, calls>>

-----------------------------------------------------------------------------
ASSUME RegistrationAssumption ==
  /\ MAX_ATTEMPTS \in Nat
  /\ MaxCalls \in Nat
  /\ MaxTransactions \in Nat \ {0}
  /\ Grants \subseteq {"long", "short", "none"}

Transaction == 1 .. MaxTransactions
TransactionOrNull == 0 .. MaxTransactions
Thread == {"main", "provider", "timer"}
Kind == {"register", "deregister"}

TransactionClient ==
  [status   : {"none", "new", "pending", "ended"},
   kind     : Kind,
   listener : BOOLEAN,                        \* transaction_listener is not null
   answer   : {"none", "ok", "challenge", "refused"}]

\* A thread at "rest" is outside the agent; "authenticating" to "renewing" are
\* of the call-backs.
ThreadState ==
  [at    : {"rest", "expiring", "checking", "looking", "terminating", "refusing",
            "changing", "creating", "requesting", "sending", "joining",
            "authenticating", "settling", "succeeding", "failing", "going",
            "reporting", "unregistering", "renewing"},
   kind  : Kind,                              \* what the transaction is for
   tx    : TransactionOrNull,                 \* what was read from t
   event : {"none", "ok", "challenge", "refused", "timeout"},
   renew : {"long", "short", "none"}]         \* the argument of reRegister

TypeOK ==
  /\ CurrentState \in {"UNDEFINED", "UNREGISTERED", "REGISTERING", "REGISTERED", "DEREGISTERING"}
  /\ attempts \in 0 .. MAX_ATTEMPTS
  /\ t \in TransactionOrNull
  /\ tx \in [Transaction -> TransactionClient]
  /\ expire_time \in BOOLEAN
  /\ alarm \in BOOLEAN
  /\ thread \in [Thread -> ThreadState]
  /\ registrar \in [sent : Seq(Transaction), bound : BOOLEAN]
  /\ p2p \in BOOLEAN
  /\ fast \in BOOLEAN
  /\ calls \in 0 .. MaxCalls

NoTransaction == [status |-> "none", kind |-> "register", listener |-> FALSE, answer |-> "none"]
AtRest == [at |-> "rest", kind |-> "register", tx |-> 0, event |-> "none", renew |-> "none"]

Init ==
  /\ CurrentState = "UNDEFINED"
  /\ attempts = 0
  /\ t = 0
  /\ tx = [k \in Transaction |-> NoTransaction]
  /\ expire_time = FALSE
  /\ alarm = FALSE
  /\ thread = [h \in Thread |-> AtRest]
  /\ registrar = [sent |-> <<>>, bound |-> FALSE]
  /\ p2p \in BOOLEAN
  /\ fast \in BOOLEAN
  /\ calls = 0

-----------------------------------------------------------------------------
(* Helpers.                                                                *)

Rests(h) == thread[h].at = "rest"
Moves(h, at) == thread' = [thread EXCEPT ![h].at = at]
Returns(h) == thread' = [thread EXCEPT ![h] = AtRest]

isRegistered == CurrentState \in {"REGISTERED", "REGISTERING"}

InFlight(k) == \E i \in DOMAIN registrar.sent : registrar.sent[i] = k

\* The transaction that is over is garbage, unless its request is on its way.
Over(k) ==
  IF InFlight(k)
  THEN [tx[k] EXCEPT !.status = "ended", !.listener = FALSE]
  ELSE NoTransaction

Held(k) == \E h \in Thread : thread[h].tx = k
Free == {k \in Transaction : tx[k].status = "none" /\ ~Held(k)}
NewTransaction == CHOOSE k \in Free : TRUE

Client(kind) == [status |-> "new", kind |-> kind, listener |-> TRUE, answer |-> "none"]

\* t = new TransactionClient(..): the one that t named before is garbage if it
\* was not requested, and no thread is about to.
Creates(kind) ==
  /\ Free # {}
  /\ t' = NewTransaction
  /\ tx' = [k \in Transaction |->
              CASE k = NewTransaction -> Client(kind)
                [] k = t /\ tx[k].status = "new" /\ ~Held(k) -> NoTransaction
                [] OTHER -> tx[k]]

-----------------------------------------------------------------------------
(* SipdroidEngine, on the main thread.                                     *)

\* A broadcast or a screen calls; expire() goes on.
Enters ==
  \/ Rests("main") /\ calls < MaxCalls /\ calls' = calls + 1
  \/ thread["main"].at = "expiring" /\ UNCHANGED calls

Kinds == IF fast THEN {"register"} ELSE Kind

\* RegisterAgent.register(), or unregister() where the network is not fast.
Calls(kinds) ==
  /\ attempts' = 0
  /\ \E kind \in kinds :
       thread' = [thread EXCEPT !["main"] = [AtRest EXCEPT !.at = "checking", !.kind = kind]]
  /\ UNCHANGED <<CurrentState, t, tx, clock, registrar, prefs>>

\* p2pRegister(), up to the call of the overlay.
Joins ==
  /\ CurrentState' = "REGISTERING"
  /\ Moves("main", "joining")
  /\ UNCHANGED <<attempts, t, tx, clock, registrar, prefs>>

\* register()
EngineRegister ==
  /\ Enters
  /\ CASE ~p2p               -> Calls(Kinds)
       [] p2p /\ ~isRegistered -> Joins
       [] OTHER -> Returns("main") /\ UNCHANGED <<agent, clock, registrar, prefs>>

\* registerMore(): the state of the data connection changed.
EngineRegisterMore ==
  /\ Rests("main") /\ Enters
  /\ ~isRegistered
  /\ Calls({"register"})

\* registerUdp(): a call is placed.  It does not ask for the P2P mode.
EngineRegisterUdp == Rests("main") /\ Enters /\ Calls(Kinds)

\* (Seeded fault.)  expire_time keeps its value.
ExpireKeepsTime ==
  /\ Rests("main") /\ Enters
  /\ alarm
  /\ alarm' = FALSE
  /\ CurrentState' = IF CurrentState = "REGISTERED" THEN "UNREGISTERED" ELSE CurrentState
  /\ Moves("main", "expiring")
  /\ UNCHANGED <<attempts, t, tx, expire_time, registrar, prefs>>

\* The alarm goes off: expire(), whose register() follows.
Expire ==
  /\ Rests("main") /\ Enters
  /\ alarm
  /\ alarm' = FALSE
  /\ expire_time' = FALSE
  /\ CurrentState' = IF CurrentState = "REGISTERED" THEN "UNREGISTERED" ELSE CurrentState
  /\ Moves("main", "expiring")
  /\ UNCHANGED <<attempts, t, tx, registrar, prefs>>

-----------------------------------------------------------------------------
(* RegisterAgent.register(expire_time), unregister() and p2pRegister().    *)

Other(kind) == IF kind = "register" THEN "DEREGISTERING" ELSE "REGISTERING"
Waiting(kind) == IF kind = "register" THEN "REGISTERING" ELSE "DEREGISTERING"
Allowed(kind) ==
  {"REGISTERED", "UNDEFINED"} \cup IF kind = "register" THEN {"UNREGISTERED"} ELSE {}

\* Is a transaction of the other kind not over?
CheckState ==
  /\ thread["main"].at = "checking"
  /\ Moves("main", IF CurrentState = Other(thread["main"].kind) THEN "looking" ELSE "refusing")
  /\ UNCHANGED <<agent, clock, registrar, prefs, calls>>

\* The field t is read, to terminate() or to request() what it names.
ReadT(h) ==
  /\ \/ thread[h].at = "looking" /\ t = 0 /\ Moves(h, "refusing")
     \/ thread[h].at = "looking" /\ t # 0
          /\ thread' = [thread EXCEPT ![h].at = "terminating", ![h].tx = t]
     \/ thread[h].at = "requesting"
          /\ thread' = [thread EXCEPT ![h].at = "sending", ![h].tx = t]
  /\ UNCHANGED <<agent, clock, registrar, prefs, calls>>

\* terminate() of k: one that was not requested yet has lost its listener only.
Terminated(k) ==
  CASE tx[k].status = "pending" -> Over(k)
    [] tx[k].status = "new" -> [tx[k] EXCEPT !.listener = FALSE]
    [] OTHER -> tx[k]

\* (Seeded fault.)  The transaction is terminated, its time-out not handled.
TerminateOnly ==
  /\ thread["main"].at = "terminating"
  /\ LET k == thread["main"].tx
     IN tx' = [tx EXCEPT ![k] = Terminated(k)]
  /\ thread' = [thread EXCEPT !["main"].at = "refusing", !["main"].tx = 0]
  /\ UNCHANGED <<CurrentState, attempts, t, clock, registrar, prefs, calls>>

\* t.terminate(); onTransTimeout(t) handles its time-out on this thread.
Terminate ==
  /\ thread["main"].at = "terminating"
  /\ LET k == thread["main"].tx
     IN tx' = [tx EXCEPT ![k] = Terminated(k)]
  /\ thread' = [thread EXCEPT !["main"].at = "settling", !["main"].tx = 0,
                              !["main"].event = "timeout"]
  /\ UNCHANGED <<CurrentState, attempts, t, clock, registrar, prefs, calls>>

\* The three tests of the state, as one: a refusal changes nothing.
Refuse ==
  /\ thread["main"].at = "refusing"
  /\ IF CurrentState \in Allowed(thread["main"].kind)
     THEN Moves("main", "changing")
     ELSE Returns("main")
  /\ UNCHANGED <<agent, clock, registrar, prefs, calls>>

ChangeState ==
  /\ thread["main"].at = "changing"
  /\ CurrentState' = Waiting(thread["main"].kind)
  /\ Moves("main", "creating")
  /\ UNCHANGED <<attempts, t, tx, clock, registrar, prefs, calls>>

\* t = new TransactionClient(..)
CreateTransaction ==
  /\ thread["main"].at = "creating"
  /\ Creates(thread["main"].kind)
  /\ Moves("main", "requesting")
  /\ UNCHANGED <<CurrentState, attempts, clock, registrar, prefs, calls>>

\* t.request(): one that was terminated before is sent too; of one that was
\* requested by another thread the request is repeated, which changes nothing.
Request(h) ==
  /\ thread[h].at = "sending"
  /\ LET k == thread[h].tx
     IN IF tx[k].status = "new"
        THEN /\ tx' = [tx EXCEPT ![k].status = "pending"]
             /\ registrar' = [registrar EXCEPT !.sent = Append(@, k)]
        ELSE UNCHANGED <<tx, registrar>>
  /\ Returns(h)
  /\ UNCHANGED <<CurrentState, attempts, t, clock, prefs, calls>>

\* The rest of p2pRegister(): a false, or an exception, leaves REGISTERING.
OverlayAnswers ==
  /\ thread["main"].at = "joining"
  /\ \E joined \in BOOLEAN :
       IF joined /\ CurrentState = "REGISTERING"
       THEN CurrentState' = "REGISTERED" /\ Moves("main", "renewing")
       ELSE UNCHANGED CurrentState /\ Returns("main")
  /\ UNCHANGED <<attempts, t, tx, clock, registrar, prefs, calls>>

-----------------------------------------------------------------------------
(* The call-backs of the transactions.                                     *)

\* The final response: a transaction that was terminated calls nobody.
ReceiveAnswer(k) ==
  /\ Rests("provider")
  /\ tx[k].status = "pending"
  /\ tx[k].answer # "none"
  /\ tx' = [tx EXCEPT ![k] = Over(k)]
  /\ IF tx[k].listener
     THEN thread' = [thread EXCEPT !["provider"] =
            [AtRest EXCEPT !.kind = tx[k].kind, !.event = tx[k].answer,
                           !.at = IF tx[k].answer = "ok" THEN "settling" ELSE "authenticating"]]
     ELSE UNCHANGED thread
  /\ UNCHANGED <<CurrentState, attempts, t, clock, registrar, prefs, calls>>

\* (Seeded fault.)  A challenge is answered however many came before.
AuthenticateAlways ==
  /\ thread["provider"].at = "authenticating"
  /\ attempts' = attempts + 1
  /\ IF thread["provider"].event = "challenge"
     THEN Creates(thread["provider"].kind) /\ Moves("provider", "requesting")
     ELSE UNCHANGED <<t, tx>> /\ Moves("provider", "settling")
  /\ UNCHANGED <<CurrentState, clock, registrar, prefs, calls>>

\* processAuthenticationResponse() counts every failure as an attempt.
Authenticate ==
  /\ thread["provider"].at = "authenticating"
  /\ attempts' = IF attempts < MAX_ATTEMPTS THEN attempts + 1 ELSE attempts
  /\ IF attempts < MAX_ATTEMPTS /\ thread["provider"].event = "challenge"
     THEN Creates(thread["provider"].kind) /\ Moves("provider", "requesting")
     ELSE UNCHANGED <<t, tx>> /\ Moves("provider", "settling")
  /\ UNCHANGED <<CurrentState, clock, registrar, prefs, calls>>

\* A handler takes less than the 30 s after which a transaction times out, and
\* so does the way of a request.
TimeOut(k) ==
  /\ \A h \in Thread : thread[h].at \in {"rest", "joining"}
  /\ tx[k].status = "pending"
  /\ IF InFlight(k)
     THEN \E i \in DOMAIN registrar.sent :
            /\ registrar.sent[i] = k
            /\ registrar' = [registrar EXCEPT !.sent =
                               SubSeq(@, 1, i - 1) \o SubSeq(@, i + 1, Len(@))]
     ELSE UNCHANGED registrar
  /\ tx' = [tx EXCEPT ![k] = NoTransaction]
  /\ IF tx[k].listener
     THEN thread' = [thread EXCEPT !["timer"] =
            [AtRest EXCEPT !.at = "settling", !.event = "timeout"]]
     ELSE UNCHANGED thread
  /\ UNCHANGED <<CurrentState, attempts, t, clock, prefs, calls>>

\* What follows the call-back: register() goes on where it called it.
Leaves(h) ==
  IF h = "main" /\ thread[h].event = "timeout"
  THEN thread' = [thread EXCEPT ![h] = [AtRest EXCEPT !.at = "refusing", !.kind = thread[h].kind]]
  ELSE Returns(h)

\* The expiry in an answer: a registrar names none for a deregistration.
Granted(kind) == IF kind = "register" THEN Grants ELSE {"none"}

\* onTransSuccessResponse, onTransFailureResponse, onTransTimeout: the state is
\* the only thing that tells what the transaction was for.
Settle(h) ==
  /\ thread[h].at = "settling"
  /\ \E at \in IF CurrentState = "REGISTERING"
              THEN IF thread[h].event = "ok" THEN {"succeeding"} ELSE {"failing"}
              ELSE IF thread[h].event = "timeout"
                   THEN {"failing", "going"}       \* pub, airplane mode
                   ELSE {"going"} :
       Moves(h, at)
  /\ UNCHANGED <<agent, clock, registrar, prefs, calls>>

Succeed(h) ==
  /\ thread[h].at = "succeeding"
  /\ CurrentState' = "REGISTERED"
  /\ \E grant \in Granted(thread[h].kind) :
       thread' = [thread EXCEPT ![h].at = "renewing", ![h].renew = grant]
  /\ UNCHANGED <<attempts, t, tx, clock, registrar, prefs, calls>>

Fail(h) ==
  /\ thread[h].at = "failing"
  /\ CurrentState' = IF thread[h].event = "timeout" THEN "UNDEFINED" ELSE "UNREGISTERED"
  /\ thread' = [thread EXCEPT ![h].at = "reporting", ![h].renew = "long"]
  /\ UNCHANGED <<attempts, t, tx, clock, registrar, prefs, calls>>

Go(h) ==
  /\ thread[h].at = "going"
  /\ CurrentState' = "UNREGISTERED"
  /\ Leaves(h)
  /\ UNCHANGED <<attempts, t, tx, clock, registrar, prefs, calls>>

\* SipdroidEngine.onUaRegistrationFailure: a test, and an assignment.
ReportFailure(h) ==
  /\ thread[h].at \in {"reporting", "unregistering"}
  /\ CurrentState' = IF thread[h].at = "unregistering" THEN "UNREGISTERED" ELSE CurrentState
  /\ Moves(h, IF thread[h].at = "reporting" /\ isRegistered THEN "unregistering" ELSE "renewing")
  /\ UNCHANGED <<attempts, t, tx, clock, registrar, prefs, calls>>

\* Receiver.reRegister(renew): one that ends after expire_time, when that is
\* set, changes nothing.
ReRegister(h) ==
  /\ thread[h].at = "renewing"
  /\ LET renew == thread[h].renew
     IN \/ expire_time /\ renew # "none" /\ UNCHANGED clock
        \/ expire_time' = (renew # "none") /\ alarm' = (renew = "long")
  /\ Leaves(h)
  /\ UNCHANGED <<agent, registrar, prefs, calls>>

-----------------------------------------------------------------------------
(* The registrar and the network.                                          *)

\* Requests arrive in the order in which they were sent.  An answer that is
\* never received was lost; so was, if it was a refusal, the request.
RegistrarAnswers ==
  /\ registrar.sent # <<>>
  /\ LET k == Head(registrar.sent)
     IN \E answer \in {"ok", "challenge", "refused"} :
          /\ registrar' =
               [sent  |-> Tail(registrar.sent),
                bound |-> IF answer = "ok" THEN tx[k].kind = "register" ELSE registrar.bound]
          /\ tx' = IF tx[k].status = "pending"
                   THEN [tx EXCEPT ![k].answer = answer]
                   ELSE [tx EXCEPT ![k] = NoTransaction]
  /\ UNCHANGED <<CurrentState, attempts, t, clock, thread, prefs, calls>>

-----------------------------------------------------------------------------
Engine == EngineRegister \/ EngineRegisterMore \/ EngineRegisterUdp \/ Expire

RegisterSteps ==
  CheckState \/ Terminate \/ Refuse \/ ChangeState \/ CreateTransaction

RequestSteps(h) == ReadT(h) \/ Request(h)

CallbackSteps(h) ==
  Settle(h) \/ Succeed(h) \/ Fail(h) \/ Go(h) \/ ReportFailure(h) \/ ReRegister(h)

Next ==
  \/ Engine
  \/ RegisterSteps
  \/ OverlayAnswers
  \/ \E k \in Transaction : ReceiveAnswer(k) \/ TimeOut(k)
  \/ Authenticate
  \/ \E h \in Thread : RequestSteps(h) \/ CallbackSteps(h)
  \/ RegistrarAnswers

Spec == Init /\ [][Next]_vars

\* A thread that can run does, and a transaction whose answer does not come
\* times out; no answer, alarm or broadcast has to come.
Fairness ==
  /\ WF_vars(thread["main"].at = "expiring" /\ EngineRegister)
  /\ WF_vars(RegisterSteps)
  /\ WF_vars(OverlayAnswers)
  /\ WF_vars(Authenticate)
  /\ \A h \in Thread : WF_vars(RequestSteps(h) \/ CallbackSteps(h))
  /\ \A k \in Transaction : SF_vars(TimeOut(k))

FairSpec == Spec /\ Fairness

-----------------------------------------------------------------------------
(* Safety and liveness.                                                    *)

Quiet ==
  /\ \A h \in Thread : Rests(h)
  /\ \A k \in Transaction : tx[k].status # "pending"

\* A phone whose network is always fast, so that it never deregisters, and that is
\* registered will refresh its registration: reRegister may leave the alarm as it
\* is, and another thread may be in the middle of a call-back or of expire().
\* (One that does deregister may take the answer for that to its next REGISTER.)
RefreshScheduled == Quiet /\ ~p2p /\ fast /\ CurrentState = "REGISTERED" => alarm

\* Something will tell the agent the outcome it waits for: a transaction that
\* was requested, a call-back under way, or a thread that is about to request
\* what the shared field t names, whichever thread created it.
Listens(k) == k # 0 /\ tx[k].status \in {"new", "pending"} /\ tx[k].listener
Alive(k) == tx[k].status = "pending" /\ tx[k].listener
InCallback(h) == thread[h].at \in {"authenticating", "settling", "succeeding", "failing", "going"}
WillRequest(h) ==
  \/ thread[h].at = "creating"
  \/ thread[h].at = "requesting" /\ Listens(t)
  \/ thread[h].at = "sending" /\ Listens(thread[h].tx)

\* As long as the state makes register() refuse, its outcome is pending:
\* terminating a transaction, answering a challenge, timing out and the two
\* threads that request each other's transaction leave no gap.
OutcomePending ==
  ~p2p /\ CurrentState \in {"REGISTERING", "DEREGISTERING"} =>
    \/ \E k \in Transaction : Alive(k)
    \/ \E h \in Thread : InCallback(h) \/ WillRequest(h)

\* A registration with a registrar ends, whichever transactions were terminated,
\* challenged or lost: no later register() is refused for ever.  (The overlay's
\* registration does not, when it fails.)
RegisteringEnds ==
  ~p2p /\ CurrentState \in {"REGISTERING", "DEREGISTERING"}
    ~> CurrentState \notin {"REGISTERING", "DEREGISTERING"}

-----------------------------------------------------------------------------
(* What the comments of the code say and the code does not do.             *)

\* "Since the transactions are atomic, we rollback to the previous state"
\* (RegisterAgent): the state of the agent is the one of the registrar.
RegisteredIsBound ==
  Quiet /\ ~p2p /\ CurrentState = "REGISTERED" => registrar.bound

=============================================================================
