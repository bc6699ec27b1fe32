---------------------- MODULE ClientTransaction_proofs ----------------------
(***************************************************************************)
(* The safety of the client transactions, for every set of transactions    *)
(* and of threads that request them: TypeOK, TimesOutPendingOnly,          *)
(* NoneLeftBehind and UnreportedIsOpen of ClientTransaction.               *)
(*                                                                         *)
(* IInv says, of each transaction on its own, who will end it: one of its  *)
(* timers, the receiving thread, or the timer thread.  ReportInv, on top   *)
(* of it, says who will report.                                            *)
(***************************************************************************)
EXTENDS ClientTransaction, TLAPS

-----------------------------------------------------------------------------
(* The records the threads work on.                                        *)

\* A thread that is not at rest works on one transaction.
LEMMA TimerThreadType ==
  ASSUME TypeOK, timerThread.at \notin {"idle", "dead"}
  PROVE  timerThread \in TimerThread
BY DEF TypeOK, TimerThread

LEMMA ReceiverType ==
  ASSUME TypeOK, receiver.at # "idle"
  PROVE  receiver \in Receiver
BY DEF TypeOK, Receiver

\* What halt() leaves of a Timer.
LEMMA HaltedTimer ==
  ASSUME NEW t \in Timer
  PROVE  /\ Halted(t) \in Timer
         /\ Halted(t).scheduled = t.scheduled
         /\ ~Halted(t).active
         /\ ~Halted(t).armed
BY DEF Timer, Halted

\* What start() makes of a Timer.
LEMMA StartedTimer ==
  ASSUME NEW t \in Timer
  PROVE  /\ Started(t) \in Timer
         /\ Started(t).active
         /\ Started(t).armed = t.armed
         /\ Started(t).scheduled = (timerThread.at # "dead")
<1> DEFINE alive == timerThread.at # "dead"
<1>1. alive \in BOOLEAN
  OBVIOUS
<1>2. Started(t) = [t EXCEPT !.active = TRUE, !.scheduled = alive]
  BY DEF Started
<1> HIDE DEF alive
<1>3. /\ Started(t) \in Timer
      /\ Started(t).active
      /\ Started(t).armed = t.armed
      /\ Started(t).scheduled = alive
  BY <1>1, <1>2 DEF Timer
<1> QED
  BY <1>3 DEF alive

LEMMA NewTimerType == NewTimer \in Timer
BY DEF Timer, NewTimer

Timers == [Tc -> [TimerName -> Timer]]

\* Halt() reaches the named timers of one transaction.
LEMMA HaltTimers ==
  ASSUME timer \in Timers, NEW tc \in Tc, NEW names, Halt(tc, names)
  PROVE  /\ timer' \in Timers
         /\ \A c \in Tc \ {tc} : timer'[c] = timer[c]
         /\ \A t \in TimerName :
              timer'[tc][t] = IF t \in names THEN Halted(timer[tc][t]) ELSE timer[tc][t]
<1> DEFINE halted == [t \in TimerName |-> IF t \in names THEN Halted(timer[tc][t]) ELSE timer[tc][t]]
<1>1. halted \in [TimerName -> Timer]
  <2> SUFFICES ASSUME NEW t \in TimerName
               PROVE  (IF t \in names THEN Halted(timer[tc][t]) ELSE timer[tc][t]) \in Timer
    OBVIOUS
  <2>1. timer[tc][t] \in Timer
    BY DEF Timers
  <2> QED
    BY <2>1, HaltedTimer
<1>2. timer' = [timer EXCEPT ![tc] = halted]
  BY DEF Halt, Timers
<1> HIDE DEF halted
<1>3. /\ timer' \in Timers
      /\ timer'[tc] = halted
      /\ \A c \in Tc \ {tc} : timer'[c] = timer[c]
  BY <1>1, <1>2 DEF Timers
<1> QED
  BY <1>3 DEF halted

\* A step that sets one timer.
SetsTimer(tc, name, value) ==
  /\ timer' \in Timers
  /\ \A c \in Tc \ {tc} : timer'[c] = timer[c]
  /\ timer'[tc][name] = value
  /\ \A t \in TimerName \ {name} : timer'[tc][t] = timer[tc][t]

LEMMA SetTimer ==
  ASSUME timer \in Timers, NEW tc \in Tc, NEW name \in TimerName, NEW value \in Timer,
         timer' = [timer EXCEPT ![tc][name] = value]
  PROVE  SetsTimer(tc, name, value)
<1>1. timer[tc] \in [TimerName -> Timer]
  BY DEF Timers
<1> DEFINE new == [timer[tc] EXCEPT ![name] = value]
<1>2. /\ new \in [TimerName -> Timer]
      /\ new[name] = value
      /\ \A t \in TimerName \ {name} : new[t] = timer[tc][t]
  BY <1>1
<1>3. timer' = [timer EXCEPT ![tc] = new]
  OBVIOUS
<1> HIDE DEF new
<1> QED
  BY <1>2, <1>3 DEF Timers, SetsTimer

-----------------------------------------------------------------------------
(* Type correctness.                                                       *)

LEMMA InitType == Init => TypeOK
<1> SUFFICES ASSUME Init PROVE TypeOK
  OBVIOUS
<1>1. timer \in [Tc -> [TimerName -> Timer]]
  BY NewTimerType DEF Init
<1>2. [tc \in Tc |-> {}] \in [Tc -> SUBSET Outcome]
  OBVIOUS
<1>3. app \in [Tc -> [App -> Requesting \cup {"none", "requested", "failed"}]]
  BY DEF Init, Requesting
<1>5. [at |-> "idle"] \in TimerThread \cup {[at |-> "idle"], [at |-> "dead"]}
  OBVIOUS
<1>4. [at |-> "idle"] \in Receiver \cup {[at |-> "idle"]}
  OBVIOUS
<1> QED
  BY <1>1, <1>2, <1>3, <1>4, <1>5 DEF Init, TypeOK, TransStatus

\* What RequestStarts does to the timers.
LEMMA StartedTimers ==
  ASSUME TypeOK, NEW tc \in Tc, NEW a \in App, RequestStarts(tc, a)
  PROVE  /\ timer' \in Timers
         /\ \A c \in Tc \ {tc} : timer'[c] = timer[c]
         /\ timer'[tc]["last"] = timer[tc]["last"]
         /\ timerThread.at = "dead" => timer'[tc]["transaction"] = timer[tc]["transaction"]
         /\ timerThread.at # "dead" =>
              timer'[tc]["transaction"] = Started(timer[tc]["transaction"])
<1>1. timer \in Timers
  BY DEF Timers, TypeOK
<1>2. timer[tc]["retransmission"] \in Timer /\ timer[tc]["transaction"] \in Timer
  BY <1>1 DEF TimerName, Timers
<1>3. CASE timerThread.at = "dead"
  <2>1. timer' = [timer EXCEPT ![tc]["retransmission"] = Started(timer[tc]["retransmission"])]
    BY <1>3 DEF RequestStarts
  <2>2. SetsTimer(tc, "retransmission", Started(timer[tc]["retransmission"]))
    <3>1. Started(timer[tc]["retransmission"]) \in Timer
      BY <1>2, StartedTimer
    <3> QED
      BY <1>1, <2>1, <3>1, SetTimer DEF TimerName
  <2> QED
    BY <1>3, <2>2 DEF SetsTimer, TimerName
<1>4. CASE timerThread.at # "dead"
  <2> DEFINE between == [timer EXCEPT ![tc]["retransmission"] = Started(timer[tc]["retransmission"])]
  <2>1. timer' = [between EXCEPT ![tc]["transaction"] = Started(timer[tc]["transaction"])]
    BY <1>4 DEF RequestStarts
  <2> QED
    BY <1>1, <1>2, <1>4, <2>1, StartedTimer DEF Timers, TimerName
<1> QED
  BY <1>3, <1>4

LEMMA RequestType ==
  ASSUME TypeOK, NEW tc \in Tc, NEW a \in App, Request(tc, a)
  PROVE  TypeOK'
<1> USE DEF TypeOK
<1>1. CASE RequestTries(tc, a)
  BY <1>1 DEF RequestTries, TransStatus, Requesting
<1>2. CASE RequestStarts(tc, a)
  <2>1. timer' \in Timers
    BY <1>2, StartedTimers
  <2>2. app' \in [Tc -> [App -> Requesting \cup {"none", "requested", "failed"}]]
    <3> DEFINE At == Requesting \cup {"none", "requested", "failed"}
    <3>1. PICK x \in {"failed", "timed"} : app' = [app EXCEPT ![tc][a] = x]
      BY <1>2 DEF RequestStarts
    <3>2. x \in At /\ app \in [Tc -> [App -> At]]
      BY DEF Requesting
    <3> HIDE DEF At
    <3>3. [app[tc] EXCEPT ![a] = x] \in [App -> At]
      BY <3>2
    <3>4. app' \in [Tc -> [App -> At]]
      BY <3>1, <3>2, <3>3
    <3> QED
      BY <3>4 DEF At
  <2>3. UNCHANGED <<kind, status, transaction_listener, listening, timerThread, receiver,
                    terminator, reported>>
    BY <1>2 DEF RequestStarts
  <2> QED
    BY <2>1, <2>2, <2>3 DEF Timers
<1>3. CASE RequestListens(tc, a)
  BY <1>3 DEF RequestListens, Requesting
<1> QED
  BY <1>1, <1>2, <1>3 DEF Request

\* Terminate, Terminated, Receive and Expire.
LEMMA OtherActionsType ==
  ASSUME TypeOK, NEW tc \in Tc,
         \/ Terminate(tc) \/ Terminated(tc)
         \/ \E code \in Code : Receive(tc, code)
         \/ \E t \in TimerName : Expire(tc, t)
  PROVE  TypeOK'
<1> USE DEF TypeOK
<1>0. timer \in Timers
  BY DEF Timers
<1>1. CASE Terminate(tc)
  <2>1. timer' \in Timers
    BY <1>0, <1>1, HaltTimers DEF Terminate
  <2> QED
    BY <1>1, <2>1 DEF Terminate, Timers
<1>2. CASE Terminated(tc)
  <2>1. terminator' \in [Tc -> {"open", "terminating", "terminated", "overtaking"}]
    BY <1>2 DEF Terminated
  <2> QED
    BY <1>2, <2>1 DEF Terminated, Remove, TransStatus
<1>3. ASSUME NEW code \in Code, Receive(tc, code)
      PROVE  TypeOK'
  BY <1>3 DEF Receive, Receiver
<1>4. ASSUME NEW t \in TimerName, Expire(tc, t)
      PROVE  TypeOK'
  <2>1. timer[tc][t] \in Timer
    OBVIOUS
  <2>2. CASE timer[tc][t].active /\ timer[tc][t].armed
    <3> DEFINE value == [timer[tc][t] EXCEPT !.scheduled = FALSE]
    <3>1. value \in Timer
      BY <2>1 DEF Timer
    <3>2. timer' = [timer EXCEPT ![tc][t] = value]
      BY <1>4, <2>2 DEF Expire
    <3>3. timer' \in Timers
      BY <1>0, <3>1, <3>2, SetTimer DEF SetsTimer
    <3>4. timerThread' \in TimerThread
      BY <1>4, <2>2 DEF Expire, TimerThread
    <3> QED
      BY <1>4, <3>3, <3>4 DEF Expire, Timers
  <2>3. CASE ~(timer[tc][t].active /\ timer[tc][t].armed)
    <3> DEFINE value == [Halted(timer[tc][t]) EXCEPT !.scheduled = FALSE]
    <3>1. value \in Timer
      BY <2>1, HaltedTimer DEF Timer
    <3>2. timer' = [timer EXCEPT ![tc][t] = value]
      BY <1>4, <2>3 DEF Expire
    <3>3. timer' \in Timers
      BY <1>0, <3>1, <3>2, SetTimer DEF SetsTimer
    <3> QED
      BY <1>4, <2>3, <3>3 DEF Expire, Timers
  <2> QED
    BY <2>2, <2>3
<1> QED
  BY <1>1, <1>2, <1>3, <1>4

LEMMA ReceiverStepType ==
  ASSUME TypeOK, ReceiverStep
  PROVE  TypeOK'
<1> USE DEF TypeOK
<1> DEFINE tc == receiver.tc
<1>0. timer \in Timers
  BY DEF Timers
<1>1. receiver \in Receiver /\ tc \in Tc
  <2>1. receiver.at # "idle"
    BY DEF ReceiverStep, ReceiverChecks, ReceiverHalts, ReceiverSettlesProvisional,
           ReceiverSettles, ReceiverLooks, ReceiverReports, ReceiverThrows, ReceiverEnds
  <2> QED
    BY <2>1, ReceiverType DEF Receiver
<1>2. ASSUME ReceiverChecks PROVE TypeOK'
  <2>1. timer' \in Timers
    BY <1>0, <1>1, <1>2, HaltTimers DEF ReceiverChecks
  <2>2. receiver' \in Receiver \cup {[at |-> "idle"]}
    <3> DEFINE at == IF "transaction" \in Stops(tc, receiver.code) THEN "halting" ELSE "settling"
    <3>1. at \in {"halting", "settling"}
      OBVIOUS
    <3>2. receiver' \in {[receiver EXCEPT !.at = at], [at |-> "idle"]}
      BY <1>2 DEF ReceiverChecks
    <3> HIDE DEF at
    <3>3. [receiver EXCEPT !.at = at] \in Receiver
      BY <1>1, <3>1 DEF Receiver
    <3> QED
      BY <3>2, <3>3
  <2>3. UNCHANGED <<kind, status, transaction_listener, listening, timerThread, app,
                    terminator, reported>>
    BY <1>2 DEF ReceiverChecks
  <2> QED
    BY <2>1, <2>2, <2>3 DEF Timers
<1>3. ASSUME ReceiverHalts PROVE TypeOK'
  <2>1. timer' \in Timers
    BY <1>0, <1>1, <1>3, HaltTimers DEF ReceiverHalts
  <2> QED
    BY <1>1, <1>3, <2>1 DEF ReceiverHalts, Timers, Receiver
<1>4. ASSUME ReceiverSettlesProvisional PROVE TypeOK'
  BY <1>1, <1>4 DEF ReceiverSettlesProvisional, TransStatus
<1>5. ASSUME ReceiverSettles PROVE TypeOK'
  <2>1. timer' \in Timers
    BY <1>0, <1>1, <1>5, HaltTimers DEF ReceiverSettles
  <2>2. status' \in [Tc -> TransStatus] /\ listening' \in [Tc -> BOOLEAN]
    BY <1>1, <1>5 DEF ReceiverSettles, Remove, TransStatus
  <2> QED
    BY <1>1, <1>5, <2>1, <2>2 DEF ReceiverSettles, Timers, Receiver
<1>6. ASSUME ReceiverLooks PROVE TypeOK'
  <2>1. receiver' \in Receiver
    BY <1>1, <1>6 DEF ReceiverLooks, Receiver
  <2> QED
    BY <1>6, <2>1 DEF ReceiverLooks
<1>7. ASSUME ReceiverReports PROVE TypeOK'
  <2>1. reported' \in [Tc -> SUBSET Outcome]
    <3> DEFINE o == IF receiver.code = "2xx" THEN "success" ELSE "failure"
    <3>1. o \in Outcome
      BY DEF Outcome
    <3>2. reported' = [reported EXCEPT ![tc] = @ \cup {o}]
      BY <1>7 DEF ReceiverReports, Report
    <3> HIDE DEF o
    <3> QED
      BY <3>1, <3>2
  <2> QED
    BY <1>1, <1>7, <2>1 DEF ReceiverReports, Receiver
<1>8. ASSUME ReceiverThrows PROVE TypeOK'
  BY <1>8 DEF ReceiverThrows
<1>9. ASSUME ReceiverEnds PROVE TypeOK'
  <2>1. timer' \in Timers
    <3>1. timer[tc]["last"] \in Timer
      BY <1>1 DEF TimerName
    <3> QED
      BY <1>0, <1>1, <1>9, <3>1, SetTimer, StartedTimer
      DEF ReceiverEnds, SetsTimer, TimerName
  <2> QED
    BY <1>1, <1>9, <2>1 DEF ReceiverEnds, Timers
<1> QED
  BY <1>2, <1>3, <1>4, <1>5, <1>6, <1>7, <1>8, <1>9 DEF ReceiverStep

LEMMA TimerStepType ==
  ASSUME TypeOK, TimerStep
  PROVE  TypeOK'
<1> USE DEF TypeOK
<1> DEFINE tc == timerThread.tc
           to == timerThread.to
<1>0. timer \in Timers
  BY DEF Timers
<1>1. timerThread \in TimerThread /\ tc \in Tc /\ to \in TimerName
  <2>1. timerThread.at \notin {"idle", "dead"}
    BY DEF TimerStep, TimerThreadCalls, TimerThreadDies, OnTimeout, OnTimeoutResends,
           OnTimeoutRemoves, OnTimeoutLooks, OnTimeoutReports, OnTimeoutThrows,
           OnTimeoutForgets, TimerThreadRests
  <2> QED
    BY <2>1, TimerThreadType DEF TimerThread
<1>2. ASSUME TimerThreadCalls PROVE TypeOK'
  BY <1>1, <1>2 DEF TimerThreadCalls, TimerThread
<1>3. ASSUME TimerThreadDies PROVE TypeOK'
  BY <1>3 DEF TimerThreadDies
<1>4. ASSUME OnTimeout PROVE TypeOK'
  <2>1. timer' \in Timers
    BY <1>0, <1>1, <1>4, HaltTimers DEF OnTimeout
  <2>2. timerThread' \in TimerThread
    <3> DEFINE at == IF to # "retransmission" THEN "removing"
                     ELSE IF Resends(tc) THEN "resending" ELSE "done"
    <3>1. at \in {"removing", "resending", "done"}
      OBVIOUS
    <3>2. timerThread' = [timerThread EXCEPT !.at = at]
      BY <1>4 DEF OnTimeout
    <3> HIDE DEF at
    <3> QED
      BY <1>1, <3>1, <3>2 DEF TimerThread
  <2> QED
    BY <1>4, <2>1, <2>2 DEF OnTimeout, Timers
<1>5. ASSUME OnTimeoutResends PROVE TypeOK'
  <2>1. timer' \in Timers
    BY <1>0, <1>1, <1>5, SetTimer, StartedTimer, NewTimerType
    DEF OnTimeoutResends, SetsTimer, TimerName
  <2> QED
    BY <1>5, <2>1 DEF OnTimeoutResends, Timers
<1>6. ASSUME OnTimeoutRemoves PROVE TypeOK'
  <2>1. timerThread' \in TimerThread
    BY <1>1, <1>6 DEF OnTimeoutRemoves, TimerThread
  <2> QED
    BY <1>1, <1>6, <2>1 DEF OnTimeoutRemoves, Remove, TransStatus
<1>7. ASSUME OnTimeoutLooks PROVE TypeOK'
  <2>1. timerThread' \in TimerThread
    BY <1>1, <1>7 DEF OnTimeoutLooks, TimerThread
  <2> QED
    BY <1>7, <2>1 DEF OnTimeoutLooks
<1>8. ASSUME OnTimeoutReports PROVE TypeOK'
  <2>1. reported' \in [Tc -> SUBSET Outcome]
    BY <1>1, <1>8 DEF OnTimeoutReports, Report, Outcome
  <2>2. timerThread' \in TimerThread
    BY <1>1, <1>8 DEF OnTimeoutReports, TimerThread
  <2> QED
    BY <1>8, <2>1, <2>2 DEF OnTimeoutReports
<1>9. ASSUME OnTimeoutThrows PROVE TypeOK'
  BY <1>1, <1>9 DEF OnTimeoutThrows, TimerThread
<1>10. ASSUME OnTimeoutForgets PROVE TypeOK'
  BY <1>1, <1>10 DEF OnTimeoutForgets, TimerThread
<1>11. ASSUME TimerThreadRests PROVE TypeOK'
  <2>1. timer' \in Timers
    <3>1. timer[tc][to] \in Timer
      BY <1>1
    <3> QED
      BY <1>0, <1>1, <1>11, <3>1, SetTimer, HaltedTimer DEF TimerThreadRests, SetsTimer
  <2> QED
    BY <1>11, <2>1 DEF TimerThreadRests, Timers
<1> QED
  BY <1>2, <1>3, <1>4, <1>5, <1>6, <1>7, <1>8, <1>9, <1>10, <1>11 DEF TimerStep

LEMMA NextType ==
  ASSUME TypeOK, [Next]_vars
  PROVE  TypeOK'
<1>1. CASE Next
  BY <1>1, RequestType, OtherActionsType, ReceiverStepType, TimerStepType DEF Next
<1>2. CASE UNCHANGED vars
  BY <1>2 DEF vars, TypeOK
<1> QED
  BY <1>1, <1>2

\* Threads, timers and transactions keep their types, however the threads
\* interleave inside TransactionClient and InviteTransactionClient.
THEOREM TypeCorrect == Spec => []TypeOK
<1> QED
  BY InitType, NextType, PTL DEF Spec

-----------------------------------------------------------------------------
(* The inductive invariant, for each transaction on its own.               *)

TimerThreadWith(tc) == timerThread.at \notin {"idle", "dead"} /\ timerThread.tc = tc
ReceiverWith(tc) == receiver.at # "idle" /\ receiver.tc = tc

\* The Timer will call onTimeout.
Fires(t) == t.scheduled /\ t.active /\ t.armed

\* What the threads that request and terminate a transaction may rely on.  Only
\* a RegisterAgent's is requested while the SipProvider has it already.
AppInv(tc) ==
  /\ kind[tc] = "invite" => \A a \in App \ {"main"} : app[tc][a] = "none"
  /\ kind[tc] = "invite" /\ (listening[tc] \/ ReceiverWith(tc)) => ~InRequest(tc)
  /\ listening[tc] \/ ReceiverWith(tc) => \E a \in App : app[tc][a] = "requested"
  /\ terminator[tc] = "terminated" => ~listening[tc] /\ ~InRequest(tc)
  /\ TimerThreadWith(tc) /\ timerThread.to # "retransmission" => ~InRequest(tc)
  /\ InRequest(tc) /\ terminator[tc] = "open" =>
       /\ ReceiverWith(tc) => listening[tc]
       /\ listening[tc] \/ timer[tc]["transaction"].armed

\* The receiver is about to start the last timer, or goes to Proceeding.
Settling(tc) ==
  /\ ReceiverWith(tc)
  /\ receiver.at # "entered"
  /\ receiver.code # "1xx" \/ kind[tc] = "invite"

\* transaction_to is stopped before anything changes the status.
TimeOutInv(tc) ==
  LET transaction_to == timer[tc]["transaction"]
  IN /\ transaction_to.armed
          /\ \/ transaction_to.scheduled /\ transaction_to.active
             \/ \E a \in App : app[tc][a] = "trying"
        => MayTimeOut(tc)
     /\ Settling(tc) /\ receiver.at # "halting" => ~transaction_to.armed
     /\ TimerThreadWith(tc) /\ timerThread.to = "transaction" => ~transaction_to.scheduled
     /\ TimerThreadWith(tc) /\ timerThread.at = "removing" /\ timerThread.to = "last"
          => ~transaction_to.armed
     /\ terminator[tc] = "terminating" => ~transaction_to.armed

\* The timer thread is about to remove the transaction.
Removing(tc) ==
  /\ TimerThreadWith(tc)
  /\ timerThread.at \in {"firing", "onTimeout", "removing"}
  /\ timerThread.to # "retransmission"

\* The SipProvider holds the transaction, or is about to.
Held(tc) == listening[tc] \/ \E a \in App : app[tc][a] = "timed"

\* Who will end a transaction that the SipProvider holds.
WatchedInv(tc) ==
  terminator[tc] = "open" /\ Held(tc) =>
    \/ timerThread.at = "dead"
    \/ Fires(timer[tc]["transaction"])
    \/ Fires(timer[tc]["last"])
    \/ kind[tc] = "invite" /\ status[tc] = "PROCEEDING"
    \/ Settling(tc)
    \/ Removing(tc)

\* What the receiver's place says.
ReceiverInv(tc) ==
  ReceiverWith(tc) =>
    /\ receiver.at = "halting" => receiver.code # "1xx" \/ kind[tc] = "invite"
    /\ receiver.at \in {"reporting", "calling", "ending"} =>
         /\ receiver.code # "1xx"
         /\ kind[tc] = "invite" /\ receiver.code = "2xx" => ~listening[tc]
    /\ receiver.at = "calling" /\ terminator[tc] = "open" =>
         transaction_listener[tc] \/ ~listening[tc]

\* What the timer thread's place says.
TimerInv(tc) ==
  TimerThreadWith(tc) =>
    /\ timerThread.at \in {"removing", "reporting", "calling", "forgetting"} =>
         timerThread.to # "retransmission"
    /\ timerThread.at \in {"reporting", "calling", "forgetting"} => ~listening[tc]
    /\ timerThread.at = "done" /\ timerThread.to # "retransmission" => ~listening[tc]

\* The last timer is good until it is started.
LastInv(tc) ==
  terminator[tc] = "open" /\ (listening[tc] \/ InRequest(tc))
    /\ ~(TimerThreadWith(tc) /\ timerThread.at = "removing") =>
      /\ timer[tc]["last"].armed
      /\ timer[tc]["last"].scheduled => timer[tc]["last"].active

TransactionInv(tc) ==
  /\ AppInv(tc)
  /\ TimeOutInv(tc)
  /\ WatchedInv(tc)
  /\ ReceiverInv(tc)
  /\ TimerInv(tc)
  /\ LastInv(tc)

IInv == TypeOK /\ \A tc \in Tc : TransactionInv(tc)

\* A step of another transaction keeps the invariant.
KeepsOut(c) ==
  /\ kind'[c] = kind[c]
  /\ status'[c] = status[c]
  /\ transaction_listener'[c] = transaction_listener[c]
  /\ listening'[c] = listening[c]
  /\ timer'[c] = timer[c]
  /\ app'[c] = app[c]
  /\ terminator'[c] = terminator[c]
  /\ \/ UNCHANGED timerThread
     \/ /\ ~TimerThreadWith(c)
        /\ ~TimerThreadWith(c)'
        /\ timerThread.at = "dead" => timerThread'.at = "dead"
  /\ \/ UNCHANGED receiver
     \/ ~ReceiverWith(c) /\ ~ReceiverWith(c)'

LEMMA OthersKeep ==
  ASSUME NEW c \in Tc, TransactionInv(c), KeepsOut(c)
  PROVE  TransactionInv(c)'
<1> USE DEF KeepsOut, TransactionInv
<1>1. AppInv(c)'
  BY DEF AppInv, InRequest, TimerThreadWith, ReceiverWith
<1>2. TimeOutInv(c)'
  BY DEF TimeOutInv, MayTimeOut, Settling, TimerThreadWith, ReceiverWith, Fires
<1>3. WatchedInv(c)'
  BY DEF WatchedInv, Held, Settling, Removing, TimerThreadWith, ReceiverWith, Fires
<1>4. ReceiverInv(c)'
  BY DEF ReceiverInv, ReceiverWith
<1>5. TimerInv(c)'
  BY DEF TimerInv, TimerThreadWith
<1>6. LastInv(c)'
  BY DEF LastInv, InRequest, TimerThreadWith
<1> QED
  BY <1>1, <1>2, <1>3, <1>4, <1>5, <1>6

-----------------------------------------------------------------------------
(* The steps of the transaction's own threads keep the invariant.          *)

\* A step that neither requests nor terminates tc.
LEMMA AppKept ==
  ASSUME NEW tc \in Tc, AppInv(tc), UNCHANGED <<kind, app, terminator>>,
         listening'[tc] => listening[tc],
         ReceiverWith(tc)' => ReceiverWith(tc) \/ listening[tc],
         TimerThreadWith(tc)' /\ timerThread'.to # "retransmission" => ~InRequest(tc),
         InRequest(tc) /\ terminator[tc] = "open" =>
           /\ listening'[tc] = listening[tc]
           /\ \/ listening[tc]
              \/ timer'[tc]["transaction"].armed = timer[tc]["transaction"].armed
  PROVE  AppInv(tc)'
<1>1. InRequest(tc)' <=> InRequest(tc)
  BY DEF InRequest
<1> QED
  BY <1>1 DEF AppInv

\* What the steps of one request() leave alone.
LEMMA RequestFrame ==
  ASSUME IInv, NEW tc \in Tc, NEW a \in App, Request(tc, a)
  PROVE  /\ TypeOK /\ TransactionInv(tc) /\ timer \in Timers
         /\ InRequest(tc)
         /\ kind[tc] = "invite" =>
              /\ ~listening[tc] /\ ~ReceiverWith(tc)
              /\ a = "main" /\ \A b \in App \ {"main"} : app[tc][b] = "none"
         /\ terminator[tc] # "terminated"
         /\ TimerThreadWith(tc) => timerThread.to = "retransmission"
         /\ UNCHANGED <<kind, transaction_listener, timerThread, receiver, terminator>>
         /\ \A b \in App \ {a} : app'[tc][b] = app[tc][b]
         /\ \A c \in Tc \ {tc} : KeepsOut(c)
<1>1. TypeOK /\ TransactionInv(tc) /\ timer \in Timers
  BY DEF IInv, TypeOK, Timers
<1>2. app[tc][a] \in Requesting
  BY DEF Request, RequestTries, RequestStarts, RequestListens, Requesting
<1>3. InRequest(tc)
  BY <1>2 DEF InRequest
<1>4. UNCHANGED <<kind, transaction_listener, timerThread, receiver, terminator>>
  BY DEF Request, RequestTries, RequestStarts, RequestListens
<1>5. /\ \A b \in App \ {a} : app'[tc][b] = app[tc][b]
      /\ \A c \in Tc \ {tc} : app'[c] = app[c]
  BY <1>1 DEF Request, RequestTries, RequestStarts, RequestListens, TypeOK
<1>6. ASSUME NEW c \in Tc \ {tc} PROVE KeepsOut(c)
  <2>1. timer'[c] = timer[c]
    <3>1. CASE RequestStarts(tc, a)
      BY <1>1, <3>1, StartedTimers
    <3> QED
      BY <3>1 DEF Request, RequestTries, RequestListens
  <2>2. status'[c] = status[c] /\ listening'[c] = listening[c]
    BY <1>1 DEF Request, RequestTries, RequestStarts, RequestListens, TypeOK
  <2> QED
    BY <1>4, <1>5, <2>1, <2>2 DEF KeepsOut
<1>7. kind[tc] = "invite" =>
        /\ ~listening[tc] /\ ~ReceiverWith(tc)
        /\ a = "main" /\ \A b \in App \ {"main"} : app[tc][b] = "none"
  BY <1>1, <1>2, <1>3 DEF TransactionInv, AppInv, Requesting
<1>8. /\ terminator[tc] # "terminated"
      /\ TimerThreadWith(tc) => timerThread.to = "retransmission"
  BY <1>1, <1>3 DEF TransactionInv, AppInv
<1> QED
  BY <1>1, <1>3, <1>4, <1>5, <1>6, <1>7, <1>8

LEMMA OneActs ==
  ASSUME IInv, NEW tc \in Tc,
         \A c \in Tc \ {tc} : KeepsOut(c),
         TransactionInv(tc)'
  PROVE  \A c \in Tc : TransactionInv(c)'
BY OthersKeep DEF IInv

LEMMA RequestTriesInv ==
  ASSUME IInv, NEW tc \in Tc, NEW a \in App, RequestTries(tc, a)
  PROVE  \A c \in Tc : TransactionInv(c)'
<1>1. /\ TypeOK /\ TransactionInv(tc) /\ timer \in Timers
      /\ InRequest(tc)
      /\ kind[tc] = "invite" =>
           /\ ~listening[tc] /\ ~ReceiverWith(tc)
           /\ a = "main" /\ \A b \in App \ {"main"} : app[tc][b] = "none"
      /\ terminator[tc] # "terminated"
      /\ TimerThreadWith(tc) => timerThread.to = "retransmission"
      /\ UNCHANGED <<kind, transaction_listener, timerThread, receiver, terminator>>
      /\ \A b \in App \ {a} : app'[tc][b] = app[tc][b]
      /\ \A c \in Tc \ {tc} : KeepsOut(c)
  BY RequestFrame DEF Request
<1>2. /\ app[tc][a] = "new" /\ app'[tc][a] = "trying"
      /\ status'[tc] = "TRYING"
      /\ UNCHANGED <<listening, timer>>
  BY <1>1 DEF RequestTries, TypeOK
<1>3. ReceiverWith(tc)' <=> ReceiverWith(tc)
  BY <1>1 DEF ReceiverWith
<1>4. TimerThreadWith(tc)' <=> TimerThreadWith(tc)
  BY <1>1 DEF TimerThreadWith
<1>5. AppInv(tc)'
  <2>1. \A b \in App : app[tc][b] = "requested" => app'[tc][b] = "requested"
    BY <1>1, <1>2
  <2> QED
    BY <1>1, <1>2, <1>3, <1>4, <2>1 DEF TransactionInv, AppInv
<1>6. TimeOutInv(tc)'
  <2>1. MayTimeOut(tc)'
    BY <1>2 DEF MayTimeOut, InviteClientMayTimeOut, ClientMayTimeOut, Pending
  <2> QED
    BY <1>1, <1>2, <1>3, <1>4, <2>1 DEF TransactionInv, TimeOutInv, Settling
<1>7. WatchedInv(tc)'
  <2>1. Held(tc)' => Held(tc)
    BY <1>1, <1>2 DEF Held
  <2>2. kind[tc] = "invite" => ~Held(tc)
    BY <1>1, <1>2 DEF Held
  <2> QED
    BY <1>1, <1>2, <1>3, <1>4, <2>1, <2>2
    DEF TransactionInv, WatchedInv, Settling, Removing
<1>8. ReceiverInv(tc)'
  BY <1>1, <1>2, <1>3 DEF TransactionInv, ReceiverInv
<1>9. TimerInv(tc)' /\ LastInv(tc)'
  BY <1>1, <1>2, <1>4 DEF TransactionInv, TimerInv, LastInv
<1> QED
  BY <1>1, <1>5, <1>6, <1>7, <1>8, <1>9, OneActs DEF TransactionInv

LEMMA RequestStartsInv ==
  ASSUME IInv, NEW tc \in Tc, NEW a \in App, RequestStarts(tc, a)
  PROVE  \A c \in Tc : TransactionInv(c)'
<1>1. /\ TypeOK /\ TransactionInv(tc) /\ timer \in Timers
      /\ InRequest(tc)
      /\ kind[tc] = "invite" =>
           /\ ~listening[tc] /\ ~ReceiverWith(tc)
           /\ a = "main" /\ \A b \in App \ {"main"} : app[tc][b] = "none"
      /\ terminator[tc] # "terminated"
      /\ TimerThreadWith(tc) => timerThread.to = "retransmission"
      /\ UNCHANGED <<kind, transaction_listener, timerThread, receiver, terminator>>
      /\ \A b \in App \ {a} : app'[tc][b] = app[tc][b]
      /\ \A c \in Tc \ {tc} : KeepsOut(c)
  BY RequestFrame DEF Request
<1>2. /\ app[tc][a] = "trying" /\ app'[tc][a] \in {"timed", "failed"}
      /\ timerThread.at = "dead" => app'[tc][a] = "failed"
      /\ UNCHANGED <<status, listening>>
  BY <1>1 DEF RequestStarts, TypeOK
<1>3. /\ timer'[tc]["last"] = timer[tc]["last"]
      /\ timerThread.at = "dead" => timer'[tc]["transaction"] = timer[tc]["transaction"]
      /\ timerThread.at # "dead" =>
           /\ timer'[tc]["transaction"].armed = timer[tc]["transaction"].armed
           /\ timer'[tc]["transaction"].scheduled
           /\ timer'[tc]["transaction"].active
  <2>1. timer[tc]["transaction"] \in Timer
    BY <1>1 DEF Timers, TimerName
  <2> QED
    BY <1>1, <2>1, StartedTimers, StartedTimer
<1>4. timer'[tc]["transaction"].armed = timer[tc]["transaction"].armed
  BY <1>3
<1>5. ReceiverWith(tc)' <=> ReceiverWith(tc)
  BY <1>1 DEF ReceiverWith
<1>6. TimerThreadWith(tc)' <=> TimerThreadWith(tc)
  BY <1>1 DEF TimerThreadWith
<1>7. AppInv(tc)'
  <2>1. \A b \in App : app[tc][b] = "requested" => app'[tc][b] = "requested"
    BY <1>1, <1>2
  <2> QED
    BY <1>1, <1>2, <1>4, <1>5, <1>6, <2>1 DEF TransactionInv, AppInv
<1>8. TimeOutInv(tc)'
  <2>1. timer[tc]["transaction"].armed => MayTimeOut(tc)
    BY <1>1, <1>2 DEF TransactionInv, TimeOutInv
  <2>2. MayTimeOut(tc)' <=> MayTimeOut(tc)
    BY <1>1, <1>2 DEF MayTimeOut
  <2> HIDE DEF MayTimeOut
  <2> QED
    BY <1>1, <1>2, <1>4, <1>5, <1>6, <2>1, <2>2 DEF TransactionInv, TimeOutInv, Settling
<1>9. WatchedInv(tc)'
  <2> SUFFICES ASSUME terminator[tc] = "open", timerThread.at # "dead"
               PROVE  WatchedInv(tc)'
    BY <1>1 DEF WatchedInv
  <2>1. CASE timer[tc]["transaction"].armed
    BY <1>3, <2>1 DEF WatchedInv, Fires
  <2>2. CASE ~timer[tc]["transaction"].armed
    <3>1. listening[tc]
      BY <1>1, <2>2 DEF TransactionInv, AppInv
    <3> QED
      BY <1>1, <1>2, <1>3, <1>5, <1>6, <2>2, <3>1
      DEF TransactionInv, WatchedInv, Held, Settling, Removing, Fires
  <2> QED
    BY <2>1, <2>2
<1>10. ReceiverInv(tc)'
  BY <1>1, <1>2, <1>5 DEF TransactionInv, ReceiverInv
<1>11. TimerInv(tc)' /\ LastInv(tc)'
  BY <1>1, <1>2, <1>3, <1>6 DEF TransactionInv, TimerInv, LastInv
<1> QED
  BY <1>1, <1>7, <1>8, <1>9, <1>10, <1>11, OneActs DEF TransactionInv

LEMMA RequestListensInv ==
  ASSUME IInv, NEW tc \in Tc, NEW a \in App, RequestListens(tc, a)
  PROVE  \A c \in Tc : TransactionInv(c)'
<1>1. /\ TypeOK /\ TransactionInv(tc) /\ timer \in Timers
      /\ InRequest(tc)
      /\ kind[tc] = "invite" =>
           /\ ~listening[tc] /\ ~ReceiverWith(tc)
           /\ a = "main" /\ \A b \in App \ {"main"} : app[tc][b] = "none"
      /\ terminator[tc] # "terminated"
      /\ TimerThreadWith(tc) => timerThread.to = "retransmission"
      /\ UNCHANGED <<kind, transaction_listener, timerThread, receiver, terminator>>
      /\ \A b \in App \ {a} : app'[tc][b] = app[tc][b]
      /\ \A c \in Tc \ {tc} : KeepsOut(c)
  BY RequestFrame DEF Request
<1>2. /\ app[tc][a] = "timed" /\ app'[tc][a] = "requested"
      /\ listening'[tc]
      /\ UNCHANGED <<status, timer>>
  BY <1>1 DEF RequestListens, TypeOK
<1>3. ReceiverWith(tc)' <=> ReceiverWith(tc)
  BY <1>1 DEF ReceiverWith
<1>4. TimerThreadWith(tc)' <=> TimerThreadWith(tc)
  BY <1>1 DEF TimerThreadWith
<1>5. AppInv(tc)'
  <2>1. kind[tc] = "invite" => ~InRequest(tc)'
    BY <1>1, <1>2 DEF InRequest, Requesting
  <2> QED
    BY <1>1, <1>2, <1>3, <1>4, <2>1 DEF TransactionInv, AppInv
<1>6. TimeOutInv(tc)'
  <2>1. MayTimeOut(tc)' <=> MayTimeOut(tc)
    BY <1>1, <1>2 DEF MayTimeOut
  <2>2. \A b \in App : app'[tc][b] = "trying" => app[tc][b] = "trying"
    BY <1>1, <1>2
  <2> HIDE DEF MayTimeOut
  <2> QED
    BY <1>1, <1>2, <1>3, <1>4, <2>1, <2>2 DEF TransactionInv, TimeOutInv, Settling
<1>7. WatchedInv(tc)'
  <2>1. Held(tc)
    BY <1>2 DEF Held
  <2> QED
    BY <1>1, <1>2, <1>3, <1>4, <2>1 DEF TransactionInv, WatchedInv, Settling, Removing
<1>8. ReceiverInv(tc)'
  <2>1. ReceiverWith(tc) /\ terminator[tc] = "open" => listening[tc]
    BY <1>1 DEF TransactionInv, AppInv
  <2> QED
    BY <1>1, <1>2, <1>3, <2>1 DEF TransactionInv, ReceiverInv
<1>9. TimerInv(tc)' /\ LastInv(tc)'
  BY <1>1, <1>2, <1>4 DEF TransactionInv, TimerInv, LastInv
<1> QED
  BY <1>1, <1>5, <1>6, <1>7, <1>8, <1>9, OneActs DEF TransactionInv

LEMMA HaltFields ==
  ASSUME timer \in Timers, NEW tc \in Tc, NEW names, Halt(tc, names)
  PROVE  \A t \in TimerName :
           /\ timer'[tc][t].scheduled = timer[tc][t].scheduled
           /\ t \in names => ~timer'[tc][t].active /\ ~timer'[tc][t].armed
           /\ t \notin names => timer'[tc][t] = timer[tc][t]
<1>1. \A t \in TimerName : timer[tc][t] \in Timer
  BY DEF Timers
<1> QED
  BY <1>1, HaltTimers, HaltedTimer

LEMMA TerminateInv ==
  ASSUME IInv, NEW tc \in Tc, Terminate(tc)
  PROVE  \A c \in Tc : TransactionInv(c)'
<1>1. timer \in Timers /\ TypeOK /\ TransactionInv(tc)
  BY DEF IInv, TypeOK, Timers
<1>2. Halt(tc, TimerName)
  BY DEF Terminate
<1>3. ASSUME NEW c \in Tc \ {tc} PROVE KeepsOut(c)
  <2>1. timer'[c] = timer[c]
    BY <1>1, <1>2, HaltTimers
  <2> QED
    BY <1>1, <2>1 DEF KeepsOut, Terminate, TypeOK
<1>4. /\ terminator'[tc] = "terminating"
      /\ UNCHANGED <<kind, status, transaction_listener, listening, timerThread, receiver, app>>
  BY <1>1 DEF Terminate, TypeOK
<1>5. /\ ~timer'[tc]["transaction"].armed
      /\ timer'[tc]["transaction"].scheduled = timer[tc]["transaction"].scheduled
  BY <1>1, <1>2, HaltFields DEF TimerName
<1>6. AppInv(tc)'
  BY <1>1, <1>4 DEF TransactionInv, AppInv, InRequest, ReceiverWith, TimerThreadWith
<1>7. TimeOutInv(tc)'
  BY <1>1, <1>4, <1>5
  DEF TransactionInv, TimeOutInv, MayTimeOut, Settling, TimerThreadWith, ReceiverWith
<1>8. WatchedInv(tc)' /\ LastInv(tc)'
  BY <1>4 DEF WatchedInv, LastInv
<1>9. ReceiverInv(tc)'
  BY <1>1, <1>4 DEF TransactionInv, ReceiverInv, ReceiverWith
<1>10. TimerInv(tc)'
  BY <1>1, <1>4 DEF TransactionInv, TimerInv, TimerThreadWith
<1> QED
  BY <1>3, <1>6, <1>7, <1>8, <1>9, <1>10, OneActs DEF TransactionInv

LEMMA TerminatedInv ==
  ASSUME IInv, NEW tc \in Tc, Terminated(tc)
  PROVE  \A c \in Tc : TransactionInv(c)'
<1>1. TypeOK /\ TransactionInv(tc)
  BY DEF IInv
<1>3. ASSUME NEW c \in Tc \ {tc} PROVE KeepsOut(c)
  BY <1>1 DEF KeepsOut, Terminated, Remove, TypeOK
<1>4. /\ terminator[tc] = "terminating"
      /\ terminator'[tc] = IF InRequest(tc) THEN "overtaking" ELSE "terminated"
      /\ status'[tc] = "TERMINATED" /\ ~listening'[tc]
      /\ UNCHANGED <<kind, timer, timerThread, receiver, app>>
  BY <1>1 DEF Terminated, Remove, TypeOK
<1>5. InRequest(tc)' <=> InRequest(tc)
  BY <1>4 DEF InRequest
<1>6. AppInv(tc)'
  BY <1>1, <1>4, <1>5 DEF TransactionInv, AppInv, ReceiverWith, TimerThreadWith
<1>7. TimeOutInv(tc)'
  BY <1>1, <1>4
  DEF TransactionInv, TimeOutInv, MayTimeOut, Settling, TimerThreadWith, ReceiverWith
<1>8. WatchedInv(tc)' /\ LastInv(tc)'
  BY <1>4 DEF WatchedInv, LastInv
<1>9. ReceiverInv(tc)'
  BY <1>1, <1>4 DEF TransactionInv, ReceiverInv, ReceiverWith
<1>10. TimerInv(tc)'
  BY <1>1, <1>4 DEF TransactionInv, TimerInv, TimerThreadWith
<1> QED
  BY <1>3, <1>6, <1>7, <1>8, <1>9, <1>10, OneActs DEF TransactionInv

LEMMA ReceiveInv ==
  ASSUME IInv, NEW tc \in Tc, NEW code \in Code, Receive(tc, code)
  PROVE  \A c \in Tc : TransactionInv(c)'
<1>1. TypeOK /\ TransactionInv(tc)
  BY DEF IInv
<1>2. /\ listening[tc] /\ receiver.at = "idle"
      /\ receiver'.at = "entered" /\ receiver'.tc = tc
      /\ UNCHANGED <<kind, status, transaction_listener, listening, timer, timerThread, app, terminator>>
  BY DEF Receive
<1>3. ASSUME NEW c \in Tc \ {tc} PROVE KeepsOut(c)
  BY <1>2 DEF KeepsOut, ReceiverWith
<1>4. ~ReceiverWith(tc)
  BY <1>2 DEF ReceiverWith
<1>5. AppInv(tc)'
  BY <1>1, <1>2 DEF TransactionInv, AppInv, InRequest, ReceiverWith, TimerThreadWith
<1>6. TimeOutInv(tc)'
  BY <1>1, <1>2
  DEF TransactionInv, TimeOutInv, MayTimeOut, Settling, Fires, TimerThreadWith,
      ReceiverWith
<1>7. WatchedInv(tc)'
  BY <1>1, <1>2, <1>4 DEF TransactionInv, WatchedInv, Settling, Removing, TimerThreadWith,
                          Held
<1>8. ReceiverInv(tc)'
  BY <1>2 DEF ReceiverInv
<1>9. TimerInv(tc)' /\ LastInv(tc)'
  BY <1>1, <1>2 DEF TransactionInv, TimerInv, LastInv, TimerThreadWith, InRequest
<1> QED
  BY <1>3, <1>5, <1>6, <1>7, <1>8, <1>9, OneActs DEF TransactionInv

LEMMA ExpireInv ==
  ASSUME IInv, NEW tc \in Tc, NEW t \in TimerName, Expire(tc, t)
  PROVE  \A c \in Tc : TransactionInv(c)'
<1>1. timer \in Timers /\ TypeOK /\ TransactionInv(tc)
  BY DEF IInv, TypeOK, Timers
<1>2. timer[tc][t] \in Timer
  BY <1>1 DEF Timers
<1>3. /\ timerThread.at = "idle" /\ timer[tc][t].scheduled
      /\ UNCHANGED <<kind, status, transaction_listener, listening, receiver, app, terminator>>
  BY DEF Expire
<1>4. ~TimerThreadWith(tc)
  BY <1>3 DEF TimerThreadWith
<1>0. t # "retransmission" => ~InRequest(tc)
  BY DEF Expire
<1>5. CASE timer[tc][t].active /\ timer[tc][t].armed
  <2> DEFINE value == [timer[tc][t] EXCEPT !.scheduled = FALSE]
  <2>1. /\ value \in Timer /\ value.scheduled = FALSE
        /\ value.active = timer[tc][t].active /\ value.armed = timer[tc][t].armed
    BY <1>2 DEF Timer
  <2>2. timer' = [timer EXCEPT ![tc][t] = value]
    BY <1>5 DEF Expire
  <2> HIDE DEF value
  <2>3. SetsTimer(tc, t, value)
    BY <1>1, <2>1, <2>2, SetTimer
  <2>4. /\ timerThread'.at = "firing" /\ timerThread'.tc = tc /\ timerThread'.to = t
      <3>1. timerThread'.at = "firing" /\ timerThread'.tc = tc /\ timerThread'.to = t
      BY <1>5 DEF Expire
    <3> QED
      BY <1>1, <1>3, <3>1 DEF TransactionInv, AppInv, NewTimer, InRequest, ReceiverWith,
                              TimerThreadWith
  <2>5. ASSUME NEW c \in Tc \ {tc} PROVE KeepsOut(c)
    BY <1>3, <2>3, <2>4 DEF KeepsOut, SetsTimer, TimerThreadWith
  <2>6. AppInv(tc)'
    <3>1. t = "retransmission" => timer'[tc]["transaction"] = timer[tc]["transaction"]
      BY <2>3 DEF SetsTimer, TimerName
    <3> QED
      BY <1>1, <1>3, <1>0, <2>4, <3>1, AppKept
      DEF TransactionInv, ReceiverWith, TimerThreadWith
  <2>7. TimeOutInv(tc)'
    <3>1. CASE t = "transaction"
      BY <1>1, <1>3, <2>1, <2>3, <2>4, <3>1
      DEF TransactionInv, TimeOutInv, MayTimeOut, Settling, Fires, TimerThreadWith,
          ReceiverWith, SetsTimer
    <3>2. CASE t # "transaction"
      BY <1>1, <1>3, <2>3, <2>4, <3>2
      DEF TransactionInv, TimeOutInv, MayTimeOut, Settling, Fires, TimerThreadWith,
          ReceiverWith, SetsTimer, TimerName
    <3> QED
      BY <3>1, <3>2
  <2>8. WatchedInv(tc)'
    <3>1. CASE t = "retransmission"
      BY <1>1, <1>3, <1>4, <2>3, <3>1
      DEF TransactionInv, WatchedInv, Settling, Removing, Fires, ReceiverWith,
          SetsTimer, TimerName, Held
    <3>2. CASE t # "retransmission"
      BY <2>4, <3>2 DEF WatchedInv, Removing, TimerThreadWith, Held
    <3> QED
      BY <3>1, <3>2
  <2>9. ReceiverInv(tc)'
    BY <1>1, <1>3 DEF TransactionInv, ReceiverInv, ReceiverWith
  <2>10. TimerInv(tc)'
    BY <2>4 DEF TimerInv
  <2>11. LastInv(tc)'
    <3>1. CASE t = "last"
      BY <1>1, <1>3, <1>4, <2>1, <2>3, <3>1
      DEF TransactionInv, LastInv, SetsTimer, InRequest, TimerThreadWith
    <3>2. CASE t # "last"
      BY <1>1, <1>3, <1>4, <2>3, <3>2
      DEF TransactionInv, LastInv, SetsTimer, TimerName, InRequest,
          TimerThreadWith
    <3> QED
      BY <3>1, <3>2
  <2> QED
    BY <2>5, <2>6, <2>7, <2>8, <2>9, <2>10, <2>11, OneActs DEF TransactionInv
<1>6. CASE ~(timer[tc][t].active /\ timer[tc][t].armed)
  <2> DEFINE value == [Halted(timer[tc][t]) EXCEPT !.scheduled = FALSE]
  <2>1. value \in Timer /\ value.scheduled = FALSE /\ ~value.armed
    BY <1>2, HaltedTimer DEF Timer
  <2>2. timer' = [timer EXCEPT ![tc][t] = value] /\ UNCHANGED timerThread
    BY <1>6 DEF Expire
  <2> HIDE DEF value
  <2>3. SetsTimer(tc, t, value)
    BY <1>1, <2>1, <2>2, SetTimer
  <2>4. ~Fires(timer[tc][t])
    BY <1>6 DEF Fires
  <2>5. ASSUME NEW c \in Tc \ {tc} PROVE KeepsOut(c)
    BY <1>3, <2>2, <2>3 DEF KeepsOut, SetsTimer
  <2>6. AppInv(tc)'
    <3>1. t = "retransmission" => timer'[tc]["transaction"] = timer[tc]["transaction"]
      BY <2>3 DEF SetsTimer, TimerName
    <3> QED
      BY <1>1, <1>3, <1>4, <1>0, <2>2, <3>1, AppKept
      DEF TransactionInv, ReceiverWith, TimerThreadWith
  <2>7. TimeOutInv(tc)'
    <3>1. CASE t = "transaction"
      <4>1. /\ timer'[tc]["transaction"].scheduled = FALSE
            /\ ~timer'[tc]["transaction"].armed
        BY <2>1, <2>3, <3>1 DEF SetsTimer
      <4> QED
        BY <4>1 DEF TimeOutInv, MayTimeOut, Settling, ReceiverWith, Fires
    <3>2. CASE t # "transaction"
      BY <1>1, <1>3, <2>2, <2>3, <3>2
      DEF TransactionInv, TimeOutInv, MayTimeOut, Settling, Fires, TimerThreadWith,
          ReceiverWith, SetsTimer, TimerName
    <3> QED
      BY <3>1, <3>2
  <2>8. WatchedInv(tc)'
    <3>1. \A name \in TimerName : Fires(timer[tc][name]) => Fires(timer'[tc][name])
      BY <2>3, <2>4 DEF SetsTimer
    <3>2. /\ Fires(timer[tc]["transaction"]) => Fires(timer'[tc]["transaction"])
          /\ Fires(timer[tc]["last"]) => Fires(timer'[tc]["last"])
      BY <3>1 DEF TimerName
    <3> HIDE DEF Fires
    <3> QED
      BY <1>1, <1>3, <2>2, <3>2
      DEF TransactionInv, WatchedInv, Settling, Removing, TimerThreadWith,
          ReceiverWith, Held
  <2>9. ReceiverInv(tc)' /\ TimerInv(tc)'
    BY <1>1, <1>3, <2>2
    DEF TransactionInv, ReceiverInv, ReceiverWith, TimerInv, TimerThreadWith
  <2>10. LastInv(tc)'
    <3>1. CASE t = "last"
      BY <1>1, <1>3, <1>4, <1>6, <3>1
      DEF TransactionInv, LastInv, InRequest, TimerThreadWith
    <3>2. CASE t # "last"
      BY <1>1, <1>3, <1>4, <2>3, <3>2
      DEF TransactionInv, LastInv, SetsTimer, TimerName, InRequest,
          TimerThreadWith
    <3> QED
      BY <3>1, <3>2
  <2> QED
    BY <2>5, <2>6, <2>7, <2>8, <2>9, <2>10, OneActs DEF TransactionInv
<1> QED
  BY <1>5, <1>6

LEMMA ReceiverAt ==
  ASSUME IInv, receiver.at # "idle", NEW tc, tc = receiver.tc
  PROVE  /\ tc \in Tc
         /\ timer \in Timers /\ TypeOK /\ TransactionInv(tc)
         /\ receiver \in Receiver
         /\ ReceiverWith(tc)
            /\ \A c \in Tc \ {tc} : ~ReceiverWith(c)
<1>1. TypeOK /\ receiver \in Receiver
  BY ReceiverType DEF IInv
<1>2. tc \in Tc /\ timer \in Timers
  BY <1>1 DEF Receiver, TypeOK, Timers
<1>3. TransactionInv(tc)
  BY <1>2 DEF IInv
<1>4. ReceiverWith(tc) /\ \A c \in Tc \ {tc} : ~ReceiverWith(c)
  BY DEF ReceiverWith
<1> QED
  BY <1>1, <1>2, <1>3, <1>4

LEMMA ReceiverChecksInv ==
  ASSUME IInv, ReceiverChecks, NEW tc, tc = receiver.tc
  PROVE  \A c \in Tc : TransactionInv(c)'
<1>1. /\ tc \in Tc
      /\ timer \in Timers /\ TypeOK /\ TransactionInv(tc)
      /\ receiver \in Receiver
      /\ ReceiverWith(tc)
      /\ \A c \in Tc \ {tc} : ~ReceiverWith(c)
  BY ReceiverAt DEF ReceiverChecks
<1>2. /\ receiver.at = "entered"
      /\ UNCHANGED <<kind, status, transaction_listener, listening, timerThread, app, terminator>>
  BY DEF ReceiverChecks
<1>3. CASE Pending(status[tc]) /\ Stops(tc, receiver.code) # {}
  <2>1. /\ Halt(tc, {"retransmission"})
        /\ receiver' = [receiver EXCEPT !.at =
                          IF "transaction" \in Stops(tc, receiver.code) THEN "halting"
                          ELSE "settling"]
    BY <1>3 DEF ReceiverChecks
  <2>2. /\ receiver'.tc = tc /\ receiver'.code = receiver.code
        /\ \/ /\ receiver'.at = "halting"
              /\ receiver.code # "1xx" \/ kind[tc] = "invite"
           \/ /\ receiver'.at = "settling"
              /\ receiver.code = "1xx" /\ kind[tc] # "invite"
    <3>1. CASE "transaction" \in Stops(tc, receiver.code)
      <4>1. receiver' = [receiver EXCEPT !.at = "halting"]
        BY <2>1, <3>1
      <4>2. receiver.code # "1xx" \/ kind[tc] = "invite"
        BY <1>1, <3>1 DEF Stops, TypeOK, Kind
      <4> QED
        BY <1>1, <4>1, <4>2 DEF Receiver
    <3>2. CASE "transaction" \notin Stops(tc, receiver.code)
      <4>1. receiver' = [receiver EXCEPT !.at = "settling"]
        BY <2>1, <3>2
      <4>2. /\ receiver.code = "1xx"
            /\ Stops(tc, receiver.code) = IF kind[tc] = "other" THEN {"retransmission"} ELSE {}
        BY <3>2 DEF Stops
      <4>3. kind[tc] = "other"
        BY <1>3, <4>2
      <4> QED
        BY <1>1, <4>1, <4>2, <4>3 DEF Receiver
    <3> QED
      BY <3>1, <3>2
  <2>3. /\ timer'[tc]["transaction"] = timer[tc]["transaction"]
        /\ timer'[tc]["last"] = timer[tc]["last"]
    BY <1>1, <2>1, HaltFields DEF TimerName
  <2>4. ASSUME NEW c \in Tc \ {tc} PROVE KeepsOut(c)
    <3>1. timer'[c] = timer[c]
      BY <1>1, <2>1, HaltTimers
    <3> QED
      BY <1>1, <1>2, <2>2, <3>1 DEF KeepsOut, ReceiverWith
  <2>5. AppInv(tc)'
    BY <1>1, <1>2 DEF TransactionInv, AppInv, InRequest, ReceiverWith, TimerThreadWith
  <2>6. TimeOutInv(tc)'
    BY <1>1, <1>2, <2>2, <2>3
    DEF TransactionInv, TimeOutInv, MayTimeOut, Settling, ReceiverWith, TimerThreadWith
  <2>7. WatchedInv(tc)'
    BY <1>1, <1>2, <2>3 DEF TransactionInv, WatchedInv, Settling, Removing, TimerThreadWith,
                            Held
  <2>8. ReceiverInv(tc)'
    BY <1>1, <1>2, <1>3, <2>2
    DEF TransactionInv, ReceiverInv, LastInv, InRequest, TimerThreadWith
  <2>9. TimerInv(tc)' /\ LastInv(tc)'
    BY <1>1, <1>2, <2>3 DEF TransactionInv, TimerInv, LastInv, TimerThreadWith, InRequest
  <2> QED
    BY <1>1, <2>4, <2>5, <2>6, <2>7, <2>8, <2>9, OneActs DEF TransactionInv
<1>4. CASE ~(Pending(status[tc]) /\ Stops(tc, receiver.code) # {})
  <2>1. receiver' = [at |-> "idle"] /\ UNCHANGED timer
    BY <1>4 DEF ReceiverChecks
  <2>2. ~ReceiverWith(tc)' /\ ~Settling(tc)
    BY <1>2, <2>1 DEF ReceiverWith, Settling
  <2>3. ASSUME NEW c \in Tc \ {tc} PROVE KeepsOut(c)
    BY <1>1, <1>2, <2>1 DEF KeepsOut, ReceiverWith
  <2>4. AppInv(tc)' /\ TimerInv(tc)' /\ LastInv(tc)'
    BY <1>1, <1>2, <2>1 DEF TransactionInv, AppInv, TimerInv, LastInv, TimerThreadWith,
                            InRequest, ReceiverWith
  <2>5. TimeOutInv(tc)'
    BY <1>1, <1>2, <2>1, <2>2
    DEF TransactionInv, TimeOutInv, MayTimeOut, Settling, ReceiverWith, TimerThreadWith
  <2>6. WatchedInv(tc)'
    BY <1>1, <1>2, <2>1, <2>2
    DEF TransactionInv, WatchedInv, Removing, TimerThreadWith, Held
  <2>7. ReceiverInv(tc)'
    BY <2>2 DEF ReceiverInv
  <2> QED
    BY <1>1, <2>3, <2>4, <2>5, <2>6, <2>7, OneActs DEF TransactionInv
<1> QED
  BY <1>3, <1>4

LEMMA ReceiverHaltsInv ==
  ASSUME IInv, ReceiverHalts, NEW tc, tc = receiver.tc
  PROVE  \A c \in Tc : TransactionInv(c)'
<1>1. /\ tc \in Tc
      /\ timer \in Timers /\ TypeOK /\ TransactionInv(tc)
      /\ receiver \in Receiver
      /\ ReceiverWith(tc)
      /\ \A c \in Tc \ {tc} : ~ReceiverWith(c)
  BY ReceiverAt DEF ReceiverHalts
<1>2. /\ receiver.at = "halting"
      /\ Halt(tc, {"transaction"})
      /\ receiver'.at = "settling" /\ receiver'.tc = tc /\ receiver'.code = receiver.code
      /\ UNCHANGED <<kind, status, transaction_listener, listening, timerThread, app, terminator>>
  BY <1>1 DEF ReceiverHalts, Receiver
<1>3. /\ timer'[tc]["transaction"].scheduled = timer[tc]["transaction"].scheduled
      /\ ~timer'[tc]["transaction"].armed
      /\ timer'[tc]["last"] = timer[tc]["last"]
  BY <1>1, <1>2, HaltFields DEF TimerName
<1>4. ASSUME NEW c \in Tc \ {tc} PROVE KeepsOut(c)
  <2>1. timer'[c] = timer[c]
    BY <1>1, <1>2, HaltTimers
  <2> QED
    BY <1>1, <1>2, <2>1 DEF KeepsOut, ReceiverWith
<1>5. AppInv(tc)'
  BY <1>1, <1>2 DEF TransactionInv, AppInv, InRequest, ReceiverWith, TimerThreadWith
<1>6. TimeOutInv(tc)'
  BY <1>1, <1>2, <1>3
  DEF TransactionInv, TimeOutInv, MayTimeOut, Settling, ReceiverWith, TimerThreadWith,
      Fires
<1>7. WatchedInv(tc)'
  <2>1. Settling(tc)'
    BY <1>1, <1>2 DEF TransactionInv, ReceiverInv, Settling, ReceiverWith
  <2> QED
    BY <2>1 DEF WatchedInv, Held
<1>8. ReceiverInv(tc)'
  BY <1>1, <1>2 DEF TransactionInv, ReceiverInv
<1>9. TimerInv(tc)' /\ LastInv(tc)'
  BY <1>1, <1>2, <1>3 DEF TransactionInv, TimerInv, LastInv, TimerThreadWith, InRequest
<1> QED
  BY <1>1, <1>4, <1>5, <1>6, <1>7, <1>8, <1>9, OneActs DEF TransactionInv

LEMMA ReceiverSettlesProvisionalInv ==
  ASSUME IInv, ReceiverSettlesProvisional, NEW tc, tc = receiver.tc
  PROVE  \A c \in Tc : TransactionInv(c)'
<1>1. /\ tc \in Tc
      /\ timer \in Timers /\ TypeOK /\ TransactionInv(tc)
      /\ receiver \in Receiver
      /\ ReceiverWith(tc)
      /\ \A c \in Tc \ {tc} : ~ReceiverWith(c)
  BY ReceiverAt DEF ReceiverSettlesProvisional
<1>2. /\ receiver.at = "settling" /\ receiver.code = "1xx"
      /\ receiver' = [at |-> "idle"]
      /\ UNCHANGED <<kind, transaction_listener, listening, timer, timerThread, app, terminator>>
  BY DEF ReceiverSettlesProvisional
<1>3. /\ status'[tc] \in {status[tc], "PROCEEDING"}
      /\ kind[tc] = "invite" => status'[tc] = "PROCEEDING"
      /\ \A c \in Tc \ {tc} : status'[c] = status[c]
  BY <1>1 DEF ReceiverSettlesProvisional, TypeOK, Kind
<1>4. ~ReceiverWith(tc)'
  BY <1>2 DEF ReceiverWith
<1>5. ASSUME NEW c \in Tc \ {tc} PROVE KeepsOut(c)
  BY <1>1, <1>2, <1>3 DEF KeepsOut, ReceiverWith
<1>6. AppInv(tc)'
  BY <1>1, <1>2 DEF TransactionInv, AppInv, InRequest, ReceiverWith, TimerThreadWith
<1>7. TimeOutInv(tc)'
  <2>1. timer[tc]["transaction"].armed /\ MayTimeOut(tc) => MayTimeOut(tc)'
    <3>1. CASE kind[tc] = "invite"
      BY <1>1, <1>2, <3>1 DEF TransactionInv, TimeOutInv, Settling, Fires
    <3>2. CASE kind[tc] # "invite"
      BY <1>1, <1>2, <1>3, <3>2
      DEF MayTimeOut, ClientMayTimeOut, Pending
    <3> QED
      BY <3>1, <3>2
  <2> HIDE DEF MayTimeOut
  <2> QED
    BY <1>1, <1>2, <1>4, <2>1 DEF TransactionInv, TimeOutInv, Settling, TimerThreadWith
<1>8. WatchedInv(tc)'
  <2>1. CASE kind[tc] = "invite"
    BY <1>2, <1>3, <2>1 DEF WatchedInv, Held
  <2>2. CASE kind[tc] # "invite"
    BY <1>1, <1>2, <2>2 DEF TransactionInv, WatchedInv, Settling, Removing, TimerThreadWith,
                            Held
  <2> QED
    BY <2>1, <2>2
<1>9. ReceiverInv(tc)'
  BY <1>4 DEF ReceiverInv
<1>10. TimerInv(tc)'
  BY <1>1, <1>2 DEF TransactionInv, TimerInv, TimerThreadWith
<1>11. LastInv(tc)'
  BY <1>1, <1>2 DEF TransactionInv, ReceiverInv, LastInv, TimerThreadWith, InRequest
<1> QED
  BY <1>1, <1>5, <1>6, <1>7, <1>8, <1>9, <1>10, <1>11, OneActs DEF TransactionInv

LEMMA ReceiverSettlesInv ==
  ASSUME IInv, ReceiverSettles, NEW tc, tc = receiver.tc
  PROVE  \A c \in Tc : TransactionInv(c)'
<1>1. /\ tc \in Tc
      /\ timer \in Timers /\ TypeOK /\ TransactionInv(tc)
      /\ receiver \in Receiver
      /\ ReceiverWith(tc)
      /\ \A c \in Tc \ {tc} : ~ReceiverWith(c)
  BY ReceiverAt DEF ReceiverSettles
<1>2. /\ receiver.at = "settling" /\ receiver.code # "1xx"
      /\ receiver'.at = "reporting" /\ receiver'.tc = tc /\ receiver'.code = receiver.code
      /\ UNCHANGED <<kind, transaction_listener, timerThread, app, terminator>>
  BY <1>1 DEF ReceiverSettles, Receiver
<1>3. \/ /\ kind[tc] = "invite" /\ receiver.code = "2xx"
         /\ Remove(tc) /\ Halt(tc, {"last"})
      \/ /\ ~(kind[tc] = "invite" /\ receiver.code = "2xx")
         /\ status' = [status EXCEPT ![tc] = "COMPLETED"]
         /\ UNCHANGED <<listening, timer>>
  BY DEF ReceiverSettles
<1>4. /\ timer'[tc]["transaction"] = timer[tc]["transaction"]
      /\ \A c \in Tc \ {tc} : timer'[c] = timer[c]
  <2>1. CASE Halt(tc, {"last"})
    BY <1>1, <2>1, HaltTimers, HaltFields DEF TimerName
  <2> QED
    BY <1>3, <2>1
<1>5. /\ ~Pending(status'[tc])
      /\ \A c \in Tc \ {tc} : status'[c] = status[c] /\ listening'[c] = listening[c]
      /\ listening'[tc] => listening[tc]
      /\ kind[tc] = "invite" /\ receiver.code = "2xx" => ~listening'[tc]
      /\ ~(kind[tc] = "invite" /\ receiver.code = "2xx") =>
           listening'[tc] = listening[tc] /\ timer'[tc]["last"] = timer[tc]["last"]
  BY <1>1, <1>3 DEF Remove, Pending, TypeOK
<1>6. ASSUME NEW c \in Tc \ {tc} PROVE KeepsOut(c)
  BY <1>1, <1>2, <1>4, <1>5 DEF KeepsOut, ReceiverWith
<1>12. kind[tc] = "invite" => ~InRequest(tc)
  BY <1>1 DEF TransactionInv, AppInv
<1>7. AppInv(tc)'
  BY <1>1, <1>2, <1>4, <1>5, <1>12, AppKept
  DEF TransactionInv, AppInv, ReceiverWith, TimerThreadWith
<1>8. TimeOutInv(tc)'
  BY <1>1, <1>2, <1>4
  DEF TransactionInv, TimeOutInv, MayTimeOut, Settling, ReceiverWith, TimerThreadWith,
      Fires
<1>9. WatchedInv(tc)'
  <2>1. Settling(tc)'
    BY <1>2 DEF Settling, ReceiverWith
  <2> QED
    BY <2>1 DEF WatchedInv, Held
<1>10. ReceiverInv(tc)'
  BY <1>1, <1>2, <1>5 DEF TransactionInv, ReceiverInv
<1>11. TimerInv(tc)' /\ LastInv(tc)'
  <2>1. InRequest(tc)' <=> InRequest(tc)
    BY <1>2 DEF InRequest
  <2> QED
    BY <1>1, <1>2, <1>5, <1>12, <2>1 DEF TransactionInv, TimerInv, LastInv, TimerThreadWith
<1> QED
  BY <1>1, <1>6, <1>7, <1>8, <1>9, <1>10, <1>11, OneActs DEF TransactionInv

\* The steps in which the receiver only looks, calls, or throws.
LEMMA ReceiverCallsInv ==
  ASSUME IInv, NEW tc, tc = receiver.tc,
         ReceiverLooks \/ ReceiverReports \/ ReceiverThrows
  PROVE  \A c \in Tc : TransactionInv(c)'
<1>1. /\ tc \in Tc
      /\ TypeOK /\ TransactionInv(tc)
      /\ receiver \in Receiver
      /\ ReceiverWith(tc)
      /\ \A c \in Tc \ {tc} : ~ReceiverWith(c)
  BY ReceiverAt DEF ReceiverLooks, ReceiverReports, ReceiverThrows
<1>2. /\ receiver.at \in {"reporting", "calling"}
      /\ UNCHANGED <<kind, status, transaction_listener, listening, timer, timerThread, app, terminator>>
  BY DEF ReceiverLooks, ReceiverReports, ReceiverThrows
<1>3. \/ /\ receiver'.at \in {"calling", "ending"}
         /\ receiver'.at = "calling" => transaction_listener[tc]
         /\ receiver'.tc = tc /\ receiver'.code = receiver.code
      \/ /\ receiver' = [at |-> "idle"]
         /\ terminator[tc] = "open" => ~listening[tc]
  <2>1. CASE ReceiverLooks
    <3>1. \/ receiver' = [receiver EXCEPT !.at = "calling"] /\ transaction_listener[tc]
          \/ receiver' = [receiver EXCEPT !.at = "ending"]
      BY <2>1 DEF ReceiverLooks
    <3> QED
      BY <1>1, <3>1 DEF Receiver
  <2>2. CASE ReceiverReports
    BY <1>1, <2>2 DEF ReceiverReports, Receiver
  <2>3. CASE ReceiverThrows
    BY <1>1, <2>3 DEF ReceiverThrows, TransactionInv, ReceiverInv
  <2> QED
    BY <2>1, <2>2, <2>3
<1>4. ASSUME NEW c \in Tc \ {tc} PROVE KeepsOut(c)
  BY <1>1, <1>2, <1>3 DEF KeepsOut, ReceiverWith
<1>5. AppInv(tc)' /\ TimerInv(tc)' /\ LastInv(tc)'
  BY <1>1, <1>2 DEF TransactionInv, AppInv, TimerInv, LastInv, TimerThreadWith,
                    InRequest, ReceiverWith
<1>6. TimeOutInv(tc)'
  BY <1>1, <1>2, <1>3
  DEF TransactionInv, TimeOutInv, MayTimeOut, Settling, TimerThreadWith, ReceiverWith
<1>9. terminator[tc] = "open" /\ (Held(tc) \/ InRequest(tc)) => listening[tc]
  BY <1>1 DEF TransactionInv, AppInv, Held, InRequest, Requesting
<1>7. WatchedInv(tc)'
  <2>1. Held(tc)' <=> Held(tc)
    BY <1>2 DEF Held
  <2> QED
    BY <1>1, <1>2, <1>3, <1>9, <2>1
    DEF TransactionInv, WatchedInv, Settling, Removing, TimerThreadWith, ReceiverWith
<1>8. ReceiverInv(tc)'
  BY <1>1, <1>2, <1>3 DEF TransactionInv, ReceiverInv, ReceiverWith
<1> QED
  BY <1>1, <1>4, <1>5, <1>6, <1>7, <1>8, OneActs DEF TransactionInv

LEMMA ReceiverEndsInv ==
  ASSUME IInv, ReceiverEnds, NEW tc, tc = receiver.tc
  PROVE  \A c \in Tc : TransactionInv(c)'
<1>1. /\ tc \in Tc
      /\ timer \in Timers /\ TypeOK /\ TransactionInv(tc)
      /\ receiver \in Receiver
      /\ ReceiverWith(tc)
      /\ \A c \in Tc \ {tc} : ~ReceiverWith(c)
  BY ReceiverAt DEF ReceiverEnds
<1>2. /\ receiver.at = "ending" /\ receiver' = [at |-> "idle"]
      /\ UNCHANGED <<kind, status, listening, timerThread, app, terminator>>
  BY DEF ReceiverEnds
<1>3. \A c \in Tc \ {tc} : transaction_listener'[c] = transaction_listener[c]
  BY <1>1 DEF ReceiverEnds, TypeOK
<1>4. terminator[tc] = "open" /\ (Held(tc) \/ InRequest(tc)) => listening[tc]
  BY <1>1 DEF TransactionInv, AppInv, Held, InRequest, Requesting
<1>5. timer[tc]["last"] \in Timer
  BY <1>1 DEF Timers, TimerName
<1>6. \/ ~listening[tc] /\ UNCHANGED timer
      \/ SetsTimer(tc, "last", Started(timer[tc]["last"]))
  <2>1. CASE kind[tc] = "invite" /\ receiver.code = "2xx"
    BY <1>1, <1>2, <2>1 DEF ReceiverEnds, TransactionInv, ReceiverInv
  <2>2. CASE ~(kind[tc] = "invite" /\ receiver.code = "2xx")
    <3>1. timer' = [timer EXCEPT ![tc]["last"] = Started(timer[tc]["last"])]
      BY <2>2 DEF ReceiverEnds
    <3> QED
      BY <1>1, <1>5, <3>1, SetTimer, StartedTimer DEF TimerName
  <2> QED
    BY <2>1, <2>2
<1>7. /\ timer'[tc]["transaction"] = timer[tc]["transaction"]
      /\ \A c \in Tc \ {tc} : timer'[c] = timer[c]
  BY <1>6 DEF SetsTimer, TimerName
<1>8. listening[tc] =>
        /\ timer'[tc]["last"].active
        /\ timer'[tc]["last"].armed = timer[tc]["last"].armed
        /\ timer'[tc]["last"].scheduled = (timerThread.at # "dead")
  BY <1>5, <1>6, StartedTimer DEF SetsTimer
<1>9. ~ReceiverWith(tc)'
  BY <1>2 DEF ReceiverWith
<1>10. ASSUME NEW c \in Tc \ {tc} PROVE KeepsOut(c)
  BY <1>1, <1>2, <1>3, <1>7 DEF KeepsOut, ReceiverWith
<1>11. AppInv(tc)'
  BY <1>1, <1>2 DEF TransactionInv, AppInv, InRequest, ReceiverWith, TimerThreadWith
<1>12. TimeOutInv(tc)'
  BY <1>1, <1>2, <1>7, <1>9
  DEF TransactionInv, TimeOutInv, MayTimeOut, Settling, ReceiverWith, TimerThreadWith
<1>13. WatchedInv(tc)'
  <2> SUFFICES ASSUME listening[tc], terminator[tc] = "open", timerThread.at # "dead",
                      ~Removing(tc)
               PROVE  WatchedInv(tc)'
    BY <1>2, <1>4 DEF WatchedInv, Removing, TimerThreadWith, Held
  <2>1. CASE TimerThreadWith(tc) /\ timerThread.at = "removing"
    BY <1>1, <2>1 DEF TransactionInv, TimerInv, Removing
  <2>2. CASE ~(TimerThreadWith(tc) /\ timerThread.at = "removing")
    <3>1. timer[tc]["last"].armed
      BY <1>1, <2>2 DEF TransactionInv, LastInv, InRequest, TimerThreadWith
    <3>2. Fires(timer'[tc]["last"])
      BY <1>8, <3>1 DEF Fires
    <3> QED
      BY <3>2 DEF WatchedInv, Held
  <2> QED
    BY <2>1, <2>2
<1>14. ReceiverInv(tc)'
  BY <1>9 DEF ReceiverInv
<1>15. TimerInv(tc)' /\ LastInv(tc)'
  <2>1. InRequest(tc)' <=> InRequest(tc)
    BY <1>2 DEF InRequest
  <2> QED
    BY <1>1, <1>2, <1>4, <1>8, <2>1 DEF TransactionInv, TimerInv, LastInv, TimerThreadWith
<1> QED
  BY <1>1, <1>10, <1>11, <1>12, <1>13, <1>14, <1>15, OneActs DEF TransactionInv

LEMMA ReceiverStepInv ==
  ASSUME IInv, ReceiverStep
  PROVE  \A c \in Tc : TransactionInv(c)'
<1>1. PICK tc : tc = receiver.tc
  OBVIOUS
<1> QED
  BY <1>1, ReceiverChecksInv, ReceiverHaltsInv, ReceiverSettlesProvisionalInv,
     ReceiverSettlesInv, ReceiverCallsInv, ReceiverEndsInv
  DEF ReceiverStep

LEMMA TimerThreadAt ==
  ASSUME IInv, timerThread.at \notin {"idle", "dead"}, NEW tc, tc = timerThread.tc,
         NEW to, to = timerThread.to
  PROVE  /\ tc \in Tc /\ to \in TimerName
         /\ timer \in Timers /\ TypeOK /\ TransactionInv(tc)
         /\ timerThread \in TimerThread
         /\ TimerThreadWith(tc)
            /\ \A c \in Tc \ {tc} : ~TimerThreadWith(c)
<1>1. TypeOK /\ timerThread \in TimerThread
  BY TimerThreadType DEF IInv
<1>2. tc \in Tc /\ to \in TimerName /\ timer \in Timers
  BY <1>1 DEF TimerThread, TypeOK, Timers
<1>3. TransactionInv(tc)
  BY <1>2 DEF IInv
<1>4. TimerThreadWith(tc) /\ \A c \in Tc \ {tc} : ~TimerThreadWith(c)
  BY DEF TimerThreadWith
<1> QED
  BY <1>1, <1>2, <1>3, <1>4

LEMMA TimerThreadCallsInv ==
  ASSUME IInv, NEW tc, tc = timerThread.tc, NEW to, to = timerThread.to,
         TimerThreadCalls \/ TimerThreadDies
  PROVE  \A c \in Tc : TransactionInv(c)'
<1>1. /\ tc \in Tc
      /\ TypeOK /\ TransactionInv(tc)
      /\ timerThread \in TimerThread
      /\ TimerThreadWith(tc)
      /\ \A c \in Tc \ {tc} : ~TimerThreadWith(c)
  BY TimerThreadAt DEF TimerThreadCalls, TimerThreadDies
<1>2. /\ timerThread.at = "firing"
      /\ \/ timerThread'.at = "onTimeout" /\ timerThread'.tc = tc /\ timerThread'.to = to
         \/ timerThread'.at = "dead"
      /\ UNCHANGED <<kind, status, transaction_listener, listening, timer, receiver, app,
                     terminator>>
  BY <1>1 DEF TimerThreadCalls, TimerThreadDies, TimerThread
<1>3. ASSUME NEW c \in Tc \ {tc} PROVE KeepsOut(c)
  BY <1>1, <1>2 DEF KeepsOut, TimerThreadWith
<1>4. AppInv(tc)' /\ ReceiverInv(tc)'
  BY <1>1, <1>2 DEF TransactionInv, AppInv, ReceiverInv, ReceiverWith, InRequest,
                    TimerThreadWith
<1>5. TimeOutInv(tc)'
  BY <1>1, <1>2
  DEF TransactionInv, TimeOutInv, MayTimeOut, Settling, TimerThreadWith, ReceiverWith
<1>6. WatchedInv(tc)'
  BY <1>1, <1>2
  DEF TransactionInv, WatchedInv, Settling, Removing, TimerThreadWith,
      ReceiverWith, Held
<1>7. TimerInv(tc)'
  BY <1>2 DEF TimerInv, TimerThreadWith
<1>8. LastInv(tc)'
  BY <1>1, <1>2 DEF TransactionInv, LastInv, TimerThreadWith, InRequest
<1> QED
  BY <1>1, <1>3, <1>4, <1>5, <1>6, <1>7, <1>8, OneActs DEF TransactionInv

LEMMA OnTimeoutInv ==
  ASSUME IInv, OnTimeout, NEW tc, tc = timerThread.tc, NEW to, to = timerThread.to
  PROVE  \A c \in Tc : TransactionInv(c)'
<1>1. /\ tc \in Tc /\ to \in TimerName
      /\ timer \in Timers /\ TypeOK /\ TransactionInv(tc)
      /\ timerThread \in TimerThread
      /\ TimerThreadWith(tc)
      /\ \A c \in Tc \ {tc} : ~TimerThreadWith(c)
  BY TimerThreadAt DEF OnTimeout
<1>2. /\ timerThread.at = "onTimeout"
      /\ UNCHANGED <<kind, status, transaction_listener, listening, receiver, app, terminator>>
  BY DEF OnTimeout
<1>6. to # "retransmission" => ~InRequest(tc)
  BY <1>1 DEF TransactionInv, AppInv
<1>3. AppInv(tc)' /\ ReceiverInv(tc)'
  <2>1. to = "retransmission" => timer'[tc]["transaction"] = timer[tc]["transaction"]
    BY DEF OnTimeout
  <2>2. timerThread'.to = to
    <3>1. \E at : timerThread' = [timerThread EXCEPT !.at = at]
      BY DEF OnTimeout
    <3> QED
      BY <1>1, <3>1 DEF TimerThread
  <2>3. AppInv(tc)'
    BY <1>1, <1>2, <1>6, <2>1, <2>2, AppKept DEF TransactionInv, ReceiverWith
  <2> QED
    BY <1>1, <1>2, <2>3 DEF TransactionInv, ReceiverInv, ReceiverWith
<1>4. CASE to = "retransmission"
  <2>1. /\ timerThread'.at \in {"resending", "done"}
        /\ timerThread'.tc = tc /\ timerThread'.to = to
        /\ UNCHANGED timer
    <3>1. /\ timerThread' \in {[timerThread EXCEPT !.at = "resending"],
                               [timerThread EXCEPT !.at = "done"]}
          /\ UNCHANGED timer
      BY <1>4 DEF OnTimeout
    <3> QED
      BY <1>1, <3>1 DEF TimerThread
  <2>2. ASSUME NEW c \in Tc \ {tc} PROVE KeepsOut(c)
    BY <1>1, <1>2, <2>1 DEF KeepsOut, TimerThreadWith
  <2>3. TimeOutInv(tc)'
    BY <1>1, <1>2, <1>4, <2>1
    DEF TransactionInv, TimeOutInv, MayTimeOut, Settling, ReceiverWith
  <2>4. WatchedInv(tc)'
    BY <1>1, <1>2, <1>4, <2>1
    DEF TransactionInv, WatchedInv, Settling, Removing, ReceiverWith, Held
  <2>5. TimerInv(tc)'
    BY <1>4, <2>1 DEF TimerInv
  <2>6. LastInv(tc)'
    BY <1>1, <1>2, <2>1 DEF TransactionInv, LastInv, InRequest, TimerThreadWith
  <2> QED
    BY <1>1, <1>3, <2>2, <2>3, <2>4, <2>5, <2>6, OneActs DEF TransactionInv
<1>5. CASE to # "retransmission"
  <2>1. /\ timerThread'.at = "removing" /\ timerThread'.tc = tc /\ timerThread'.to = to
        /\ Halt(tc, TimerName \ {to})
    BY <1>1, <1>5 DEF OnTimeout, TimerThread
  <2>2. /\ timer'[tc]["transaction"].scheduled = timer[tc]["transaction"].scheduled
        /\ to # "transaction" => ~timer'[tc]["transaction"].armed
        /\ to = "transaction" => timer'[tc]["transaction"] = timer[tc]["transaction"]
    BY <1>1, <2>1, HaltFields DEF TimerName
  <2>3. ASSUME NEW c \in Tc \ {tc} PROVE KeepsOut(c)
    <3>1. timer'[c] = timer[c]
      BY <1>1, <2>1, HaltTimers
    <3> QED
      BY <1>1, <1>2, <2>1, <3>1 DEF KeepsOut, TimerThreadWith
  <2>4. TimeOutInv(tc)'
    <3>1. CASE to = "transaction"
      BY <1>1, <1>2, <2>1, <2>2, <3>1
      DEF TransactionInv, TimeOutInv, MayTimeOut, Settling, TimerThreadWith, ReceiverWith,
          Fires
    <3>2. CASE to # "transaction"
      BY <1>1, <1>2, <2>1, <2>2, <3>2
      DEF TimeOutInv, MayTimeOut, Settling, ReceiverWith, Fires
    <3> QED
      BY <3>1, <3>2
  <2>5. WatchedInv(tc)'
    <3>1. Removing(tc)'
      BY <1>5, <2>1 DEF Removing, TimerThreadWith
    <3> QED
      BY <3>1 DEF WatchedInv, Held
  <2>6. TimerInv(tc)'
    BY <1>5, <2>1 DEF TimerInv
  <2>7. LastInv(tc)'
    BY <1>1, <1>2, <2>1 DEF TransactionInv, LastInv, TimerThreadWith, InRequest
  <2> QED
    BY <1>1, <1>3, <2>3, <2>4, <2>5, <2>6, <2>7, OneActs DEF TransactionInv
<1> QED
  BY <1>4, <1>5

LEMMA OnTimeoutResendsInv ==
  ASSUME IInv, OnTimeoutResends, NEW tc, tc = timerThread.tc, NEW to, to = timerThread.to
  PROVE  \A c \in Tc : TransactionInv(c)'
<1>1. /\ tc \in Tc
      /\ timer \in Timers /\ TypeOK /\ TransactionInv(tc)
      /\ timerThread \in TimerThread
      /\ TimerThreadWith(tc)
      /\ \A c \in Tc \ {tc} : ~TimerThreadWith(c)
  BY TimerThreadAt DEF OnTimeoutResends
<1>2. /\ timerThread.at = "resending" /\ timerThread' = [at |-> "idle"]
      /\ UNCHANGED <<kind, status, transaction_listener, listening, receiver, app, terminator>>
  BY DEF OnTimeoutResends
<1>3. /\ timer'[tc]["transaction"] = timer[tc]["transaction"]
      /\ timer'[tc]["last"] = timer[tc]["last"]
      /\ \A c \in Tc \ {tc} : timer'[c] = timer[c]
  <2>1. timer' = [timer EXCEPT ![tc]["retransmission"] = Started(NewTimer)]
    BY DEF OnTimeoutResends
  <2> QED
    BY <1>1, <2>1, SetTimer, StartedTimer, NewTimerType DEF SetsTimer, TimerName
<1>4. ~TimerThreadWith(tc)'
  BY <1>2 DEF TimerThreadWith
<1>5. ASSUME NEW c \in Tc \ {tc} PROVE KeepsOut(c)
  BY <1>1, <1>2, <1>3 DEF KeepsOut, TimerThreadWith
<1>6. AppInv(tc)' /\ ReceiverInv(tc)'
  <2>1. AppInv(tc)'
    BY <1>1, <1>2, <1>3, <1>4, AppKept DEF TransactionInv, ReceiverWith
  <2> QED
    BY <1>1, <1>2, <2>1 DEF TransactionInv, ReceiverInv, ReceiverWith
<1>7. TimeOutInv(tc)'
  BY <1>1, <1>2, <1>3, <1>4
  DEF TransactionInv, TimeOutInv, MayTimeOut, Settling, ReceiverWith
<1>8. WatchedInv(tc)'
  BY <1>1, <1>2, <1>3 DEF TransactionInv, WatchedInv, Settling, Removing, ReceiverWith, Held
<1>9. TimerInv(tc)'
  BY <1>4 DEF TimerInv
<1>10. LastInv(tc)'
  BY <1>1, <1>2, <1>3 DEF TransactionInv, LastInv, TimerThreadWith, InRequest
<1> QED
  BY <1>1, <1>5, <1>6, <1>7, <1>8, <1>9, <1>10, OneActs DEF TransactionInv

LEMMA OnTimeoutRemovesInv ==
  ASSUME IInv, OnTimeoutRemoves, NEW tc, tc = timerThread.tc, NEW to, to = timerThread.to
  PROVE  \A c \in Tc : TransactionInv(c)'
<1>1. /\ tc \in Tc /\ to \in TimerName
      /\ TypeOK /\ TransactionInv(tc)
      /\ timerThread \in TimerThread
      /\ TimerThreadWith(tc)
      /\ \A c \in Tc \ {tc} : ~TimerThreadWith(c)
  BY TimerThreadAt DEF OnTimeoutRemoves
<1>2. /\ timerThread.at = "removing"
      /\ UNCHANGED <<kind, transaction_listener, timer, receiver, app, terminator>>
  BY DEF OnTimeoutRemoves
<1>3. /\ timerThread'.at \in {"reporting", "done"}
      /\ timerThread'.tc = tc /\ timerThread'.to = to
  <2>1. timerThread' \in {[timerThread EXCEPT !.at = "reporting"],
                          [timerThread EXCEPT !.at = "done"]}
    BY DEF OnTimeoutRemoves
  <2> QED
    BY <1>1, <2>1 DEF TimerThread
<1>4. /\ status'[tc] = "TERMINATED" /\ ~listening'[tc]
      /\ \A c \in Tc \ {tc} : status'[c] = status[c] /\ listening'[c] = listening[c]
  BY <1>1 DEF OnTimeoutRemoves, Remove, TypeOK
<1>5. ASSUME NEW c \in Tc \ {tc} PROVE KeepsOut(c)
  BY <1>1, <1>2, <1>3, <1>4 DEF KeepsOut, TimerThreadWith
<1>9. to # "retransmission" /\ ~InRequest(tc)
  BY <1>1, <1>2 DEF TransactionInv, TimerInv, AppInv
<1>10. ~InRequest(tc)' /\ \A a \in App : app[tc][a] \notin {"trying", "timed"}
  BY <1>2, <1>9 DEF InRequest, Requesting
<1>6. AppInv(tc)' /\ WatchedInv(tc)' /\ LastInv(tc)' /\ TimerInv(tc)'
  <2>1. AppInv(tc)'
    BY <1>1, <1>2, <1>4, <1>9, AppKept DEF TransactionInv, ReceiverWith
  <2> QED
    BY <1>1, <1>2, <1>3, <1>4, <1>9, <1>10, <2>1 DEF WatchedInv, LastInv, TimerInv, Held
<1>7. TimeOutInv(tc)'
  <2>1. to \in {"transaction", "last"}
    BY <1>1, <1>2 DEF TransactionInv, TimerInv, TimerName
  <2>2. ~Fires(timer[tc]["transaction"])
    BY <1>1, <1>2, <2>1
    DEF TransactionInv, TimeOutInv, MayTimeOut, Settling, ReceiverWith, Fires
  <2> QED
    BY <1>1, <1>2, <1>3, <1>10, <2>2
    DEF TransactionInv, TimeOutInv, MayTimeOut, Settling, ReceiverWith, Fires
<1>8. ReceiverInv(tc)'
  BY <1>1, <1>2, <1>4 DEF TransactionInv, ReceiverInv, ReceiverWith, Pending
<1> QED
  BY <1>1, <1>5, <1>6, <1>7, <1>8, OneActs DEF TransactionInv

\* The steps in which the timer thread only looks, calls, or throws.
LEMMA OnTimeoutReportsInv ==
  ASSUME IInv, NEW tc, tc = timerThread.tc, NEW to, to = timerThread.to,
         OnTimeoutLooks \/ OnTimeoutReports \/ OnTimeoutThrows \/ OnTimeoutForgets
  PROVE  \A c \in Tc : TransactionInv(c)'
<1>1. /\ tc \in Tc
      /\ TypeOK /\ TransactionInv(tc)
      /\ timerThread \in TimerThread
      /\ TimerThreadWith(tc)
      /\ \A c \in Tc \ {tc} : ~TimerThreadWith(c)
  BY TimerThreadAt DEF OnTimeoutLooks, OnTimeoutReports, OnTimeoutThrows, OnTimeoutForgets
<1>2. /\ timerThread.at \in {"reporting", "calling", "forgetting"}
      /\ UNCHANGED <<kind, status, listening, timer, receiver, app,
                     terminator>>
  BY DEF OnTimeoutLooks, OnTimeoutReports, OnTimeoutThrows, OnTimeoutForgets
<1>3. /\ timerThread'.at \in {"calling", "forgetting", "done"}
      /\ timerThread'.tc = tc /\ timerThread'.to = to
  <2>1. CASE OnTimeoutLooks
    <3>1. timerThread' \in {[timerThread EXCEPT !.at = "calling"],
                            [timerThread EXCEPT !.at = "done"]}
      BY <2>1 DEF OnTimeoutLooks
    <3> QED
      BY <1>1, <3>1 DEF TimerThread
  <2>2. CASE OnTimeoutReports \/ OnTimeoutThrows \/ OnTimeoutForgets
    BY <1>1, <2>2 DEF OnTimeoutReports, OnTimeoutThrows, OnTimeoutForgets, TimerThread
  <2> QED
    BY <2>1, <2>2
<1>4. \A c \in Tc \ {tc} : transaction_listener'[c] = transaction_listener[c]
  BY <1>1 DEF OnTimeoutLooks, OnTimeoutReports, OnTimeoutThrows, OnTimeoutForgets, TypeOK
<1>5. ~listening[tc]
  BY <1>1, <1>2 DEF TransactionInv, TimerInv
<1>6. ASSUME NEW c \in Tc \ {tc} PROVE KeepsOut(c)
  BY <1>1, <1>2, <1>3, <1>4 DEF KeepsOut, TimerThreadWith
<1>10. to # "retransmission" /\ ~InRequest(tc)
  BY <1>1, <1>2 DEF TransactionInv, TimerInv, AppInv
<1>11. ~InRequest(tc)' /\ \A a \in App : app[tc][a] # "timed"
  BY <1>2, <1>10 DEF InRequest, Requesting
<1>7. AppInv(tc)' /\ WatchedInv(tc)' /\ LastInv(tc)' /\ TimerInv(tc)'
  <2>1. AppInv(tc)'
    BY <1>1, <1>2, <1>10, AppKept DEF TransactionInv, ReceiverWith
  <2> QED
    BY <1>1, <1>2, <1>3, <1>5, <1>10, <1>11, <2>1 DEF WatchedInv, LastInv, TimerInv, Held
<1>8. TimeOutInv(tc)'
  BY <1>1, <1>2, <1>3
  DEF TransactionInv, TimeOutInv, MayTimeOut, Settling, TimerThreadWith, ReceiverWith
<1>9. ReceiverInv(tc)'
  BY <1>1, <1>2, <1>5 DEF TransactionInv, ReceiverInv, ReceiverWith
<1> QED
  BY <1>1, <1>6, <1>7, <1>8, <1>9, OneActs DEF TransactionInv

LEMMA TimerThreadRestsInv ==
  ASSUME IInv, TimerThreadRests, NEW tc, tc = timerThread.tc, NEW to, to = timerThread.to
  PROVE  \A c \in Tc : TransactionInv(c)'
<1>1. /\ tc \in Tc /\ to \in TimerName
      /\ timer \in Timers /\ TypeOK /\ TransactionInv(tc)
      /\ timerThread \in TimerThread
      /\ TimerThreadWith(tc)
      /\ \A c \in Tc \ {tc} : ~TimerThreadWith(c)
  BY TimerThreadAt DEF TimerThreadRests
<1>2. /\ timerThread.at = "done" /\ timerThread' = [at |-> "idle"]
      /\ UNCHANGED <<kind, status, transaction_listener, listening, receiver, app, terminator>>
  BY DEF TimerThreadRests
<1>3. SetsTimer(tc, to, Halted(timer[tc][to]))
  <2>1. timer[tc][to] \in Timer
    BY <1>1 DEF Timers
  <2>2. timer' = [timer EXCEPT ![tc][to] = Halted(timer[tc][to])]
    BY DEF TimerThreadRests
  <2> QED
    BY <1>1, <2>1, <2>2, SetTimer, HaltedTimer
<1>4. ~timer'[tc][to].armed /\ timer'[tc][to].scheduled = timer[tc][to].scheduled
  <2>1. timer[tc][to] \in Timer
    BY <1>1 DEF Timers
  <2> QED
    BY <1>3, <2>1, HaltedTimer DEF SetsTimer
<1>5. to = "retransmission" \/ (~listening[tc] /\ ~InRequest(tc))
  BY <1>1, <1>2 DEF TransactionInv, TimerInv, AppInv
<1>6. ~TimerThreadWith(tc)'
  BY <1>2 DEF TimerThreadWith
<1>7. ASSUME NEW c \in Tc \ {tc} PROVE KeepsOut(c)
  BY <1>1, <1>2, <1>3 DEF KeepsOut, TimerThreadWith, SetsTimer
<1>8. AppInv(tc)' /\ ReceiverInv(tc)'
  <2>1. to = "retransmission" => timer'[tc]["transaction"] = timer[tc]["transaction"]
    BY <1>3 DEF SetsTimer, TimerName
  <2>2. AppInv(tc)'
    BY <1>1, <1>2, <1>5, <1>6, <2>1, AppKept DEF TransactionInv, ReceiverWith
  <2> QED
    BY <1>1, <1>2, <2>2 DEF TransactionInv, ReceiverInv, ReceiverWith
<1>9. TimeOutInv(tc)'
  <2>1. CASE to = "transaction"
    BY <1>4, <1>6, <2>1 DEF TimeOutInv, MayTimeOut, Settling, ReceiverWith, Fires
  <2>2. CASE to # "transaction"
    <3>1. timer'[tc]["transaction"] = timer[tc]["transaction"]
      BY <1>3, <2>2 DEF SetsTimer, TimerName
    <3> QED
      BY <1>1, <1>2, <1>6, <3>1
      DEF TransactionInv, TimeOutInv, MayTimeOut, Settling, ReceiverWith
  <2> QED
    BY <2>1, <2>2
<1>10. WatchedInv(tc)' /\ LastInv(tc)'
  <2>1. CASE to = "retransmission"
    <3>1. /\ timer'[tc]["transaction"] = timer[tc]["transaction"]
          /\ timer'[tc]["last"] = timer[tc]["last"]
      BY <1>3, <2>1 DEF SetsTimer, TimerName
    <3>2. WatchedInv(tc)'
      BY <1>1, <1>2, <3>1
      DEF TransactionInv, WatchedInv, Settling, Removing, ReceiverWith, Held
    <3>3. LastInv(tc)'
      BY <1>1, <1>2, <3>1 DEF TransactionInv, LastInv, InRequest, TimerThreadWith
    <3> QED
      BY <3>2, <3>3
  <2>2. CASE ~listening[tc] /\ ~InRequest(tc)
    BY <1>2, <2>2 DEF WatchedInv, LastInv, InRequest, Requesting, Held
  <2> QED
    BY <1>5, <2>1, <2>2
<1>11. TimerInv(tc)'
  BY <1>6 DEF TimerInv
<1> QED
  BY <1>1, <1>7, <1>8, <1>9, <1>10, <1>11, OneActs DEF TransactionInv

LEMMA TimerStepInv ==
  ASSUME IInv, TimerStep
  PROVE  \A c \in Tc : TransactionInv(c)'
<1>1. PICK tc : tc = timerThread.tc
  OBVIOUS
<1>2. PICK to : to = timerThread.to
  OBVIOUS
<1> QED
  BY <1>1, <1>2, TimerThreadCallsInv, OnTimeoutInv, OnTimeoutResendsInv,
     OnTimeoutRemovesInv, OnTimeoutReportsInv, TimerThreadRestsInv
  DEF TimerStep

-----------------------------------------------------------------------------
(* The invariant, and what follows from it.                                *)

LEMMA InitInv == Init => IInv
<1> SUFFICES ASSUME Init PROVE IInv
  OBVIOUS
<1>1. TypeOK
  BY InitType
<1>2. ASSUME NEW tc \in Tc PROVE TransactionInv(tc)
  <2>1. /\ \A t \in TimerName : timer[tc][t] = NewTimer
        /\ ~TimerThreadWith(tc) /\ ~ReceiverWith(tc)
        /\ ~listening[tc] /\ terminator[tc] = "open"
        /\ kind[tc] = "invite" => \A a \in App \ {"main"} : app[tc][a] = "none"
        /\ \A a \in App : app[tc][a] \in {"none", "new"}
    BY <1>2 DEF Init, TimerThreadWith, ReceiverWith
  <2>2. \A t \in TimerName : timer[tc][t].armed /\ ~timer[tc][t].scheduled
    BY <2>1 DEF NewTimer
  <2>3. /\ timer[tc]["transaction"].armed /\ ~timer[tc]["transaction"].scheduled
        /\ timer[tc]["last"].armed /\ ~timer[tc]["last"].scheduled
    BY <2>2 DEF TimerName
  <2> QED
    BY <2>1, <2>3
    DEF TransactionInv, AppInv, TimeOutInv, WatchedInv, ReceiverInv,
        TimerInv, LastInv, Fires, Settling, InRequest, ReceiverWith,
        TimerThreadWith, Held
<1> QED
  BY <1>1, <1>2 DEF IInv

LEMMA NextInv ==
  ASSUME IInv, [Next]_vars
  PROVE  IInv'
<1>1. TypeOK'
  BY NextType DEF IInv
<1>2. \A c \in Tc : TransactionInv(c)'
  <2>1. CASE Next
    BY <2>1, RequestTriesInv, RequestStartsInv, RequestListensInv, TerminateInv, TerminatedInv, ReceiveInv, ReceiverStepInv,
       ExpireInv, TimerStepInv DEF Next, Request
  <2>2. CASE UNCHANGED vars
    <3> SUFFICES ASSUME NEW c \in Tc PROVE KeepsOut(c)
      BY OthersKeep DEF IInv
    <3> QED
      BY <2>2 DEF vars, KeepsOut
  <2> QED
    BY <2>1, <2>2
<1> QED
  BY <1>1, <1>2 DEF IInv

\* Of every transaction the SipProvider holds, one timer or one thread still has
\* its end to bring, however two threads request it and one terminates it.
THEOREM Invariance == Spec => []IInv
<1> QED
  BY InitInv, NextInv, PTL DEF Spec

\* When the threads rest, the SipProvider holds no transaction that nobody will
\* end: but an INVITE after a 1xx, whose timer the code stops, and what request()
\* adds after a terminate() that came before it had done so.
THEOREM NoneIsLeftBehind == Spec => []NoneLeftBehind
<1>1. IInv => NoneLeftBehind
  <2> SUFFICES ASSUME IInv, receiver.at = "idle", timerThread.at = "idle",
                      NEW tc \in Tc, listening[tc],
                      terminator[tc] \in {"open", "terminated"}
               PROVE  \/ \E t \in {"transaction", "last"} : Fires(timer[tc][t])
                      \/ kind[tc] = "invite" /\ status[tc] = "PROCEEDING"
    BY DEF NoneLeftBehind, Fires
  <2>1. TransactionInv(tc)
    BY DEF IInv
  <2>2. terminator[tc] = "open"
    BY <2>1 DEF TransactionInv, AppInv
  <2> QED
    BY <2>1, <2>2
    DEF TransactionInv, WatchedInv, Held, Settling, Removing, ReceiverWith, TimerThreadWith
<1> QED
  BY <1>1, Invariance, PTL

\* The transaction timer of a request calls onTimeout() only where Transactions
\* lets it, before a final response and, for an INVITE, before a 1xx: the
\* receiver, terminate() and the other timers stop it before they change the
\* status.
THEOREM TimeOutsArePending == Spec => TimesOutPendingOnly
<1> DEFINE TimesOut(tc) ==
      /\ timerThread.at = "idle"
      /\ timerThread' = [at |-> "firing", tc |-> tc, to |-> "transaction"]
<1>1. ASSUME IInv, [Next]_vars, NEW tc \in Tc, TimesOut(tc)
      PROVE  MayTimeOut(tc)
  <2>1. timerThread' # timerThread
    BY <1>1
  <2>2. PICK c \in Tc, t \in TimerName : Expire(c, t)
    BY <1>1, <2>1
    DEF Next, vars, Request, RequestTries, RequestStarts, RequestListens, Terminate, Terminated, Receive,
        ReceiverStep, ReceiverChecks, ReceiverHalts, ReceiverSettlesProvisional,
        ReceiverSettles, ReceiverLooks, ReceiverReports, ReceiverThrows, ReceiverEnds,
        TimerStep, TimerThreadCalls, TimerThreadDies, OnTimeout, OnTimeoutResends,
        OnTimeoutRemoves, OnTimeoutLooks, OnTimeoutReports, OnTimeoutThrows,
        OnTimeoutForgets, TimerThreadRests
  <2>3. /\ timer[c][t].scheduled /\ timer[c][t].active /\ timer[c][t].armed
        /\ timerThread' = [at |-> "firing", tc |-> c, to |-> t]
    BY <2>1, <2>2 DEF Expire
  <2>4. c = tc /\ t = "transaction"
    BY <1>1, <2>3
  <2>5. TransactionInv(tc)
    BY <1>1 DEF IInv
  <2> QED
    BY <2>3, <2>4, <2>5
    DEF TransactionInv, TimeOutInv, MayTimeOut, Settling, ReceiverWith, Fires
<1>2. IInv /\ [Next]_vars =>
        [\A tc \in Tc :
           timerThread.at = "idle"
             /\ timerThread' = [at |-> "firing", tc |-> tc, to |-> "transaction"]
           => MayTimeOut(tc)]_vars
  BY <1>1
<1> QED
  BY <1>2, Invariance, PTL DEF Spec, TimesOutPendingOnly

-----------------------------------------------------------------------------
(* The report.  IInv says who ends a transaction; here it is added that     *)
(* nobody forgets the listener, or settles for another thread's report,     *)
(* before the listener was called.                                          *)

Unreported(tc) == terminator[tc] = "open" /\ reported[tc] = {}

IsTimed(tc) == \E a \in App : app[tc][a] \in {"timed", "requested"}

TimingOut(tc) == TimerThreadWith(tc) /\ timerThread.to = "transaction"

\* What will bring the report, once the timers were started.
Open(tc) ==
  \/ timerThread.at = "dead"
  \/ Fires(timer[tc]["transaction"])
  \/ kind[tc] = "invite" /\ status[tc] = "PROCEEDING"
  \/ Settling(tc)
  \/ TimingOut(tc)

\* A response finds the transaction, or its removal is reported next.
Reachable(tc) ==
  \/ listening[tc]
  \/ \A a \in App : app[tc][a] # "requested"
  \/ TimingOut(tc) /\ timerThread.at \in {"reporting", "calling"}
  \/ ReceiverWith(tc) /\ receiver.at \in {"reporting", "calling"}

\* The last timer is started, and the listener forgotten, after the report.
ReportInv(tc) ==
  Unreported(tc) =>
    /\ transaction_listener[tc]
    /\ ~timer[tc]["last"].scheduled
    /\ ReceiverWith(tc) => receiver.at # "ending"
    /\ TimerThreadWith(tc) => timerThread.to # "last"
    /\ TimingOut(tc) => timerThread.at \notin {"resending", "forgetting", "done"}
    /\ TimerThreadWith(tc) /\ timerThread.to = "retransmission" =>
         timerThread.at \in {"firing", "onTimeout", "resending", "done"}
    /\ IsTimed(tc) => Open(tc)
    /\ Reachable(tc)

\* A step of another transaction.
KeepsReport(c) == KeepsOut(c) /\ reported'[c] = reported[c]

LEMMA OthersReport ==
  ASSUME NEW c \in Tc, ReportInv(c), KeepsReport(c)
  PROVE  ReportInv(c)'
<1> SUFFICES ASSUME Unreported(c)'
             PROVE  ReportInv(c)'
  BY DEF ReportInv
<1>1. Unreported(c)
  BY DEF Unreported, KeepsReport, KeepsOut
<1>2. KeepsOut(c)
  BY DEF KeepsReport
<1>3. IsTimed(c)' => Open(c)'
  <2>1. IsTimed(c)' <=> IsTimed(c)
    BY <1>2 DEF KeepsOut, IsTimed
  <2> HIDE DEF IsTimed
  <2> QED
    BY <1>1, <1>2, <2>1
    DEF ReportInv, KeepsOut, Open, Settling, TimingOut, TimerThreadWith, ReceiverWith
<1>4. Reachable(c)'
  BY <1>1, <1>2 DEF ReportInv, KeepsOut, Reachable, TimingOut, TimerThreadWith, ReceiverWith
<1> QED
  BY <1>1, <1>2, <1>3, <1>4
  DEF ReportInv, KeepsOut, TimingOut, TimerThreadWith, ReceiverWith

LEMMA OneReports ==
  ASSUME \A c \in Tc : ReportInv(c), NEW tc \in Tc,
         \A c \in Tc \ {tc} : KeepsReport(c),
         Unreported(tc)' => ReportInv(tc)'
  PROVE  \A c \in Tc : ReportInv(c)'
<1>1. ReportInv(tc)'
  BY DEF ReportInv
<1> QED
  BY <1>1, OthersReport

\* Each step changes one transaction only.
LEMMA ActionsReportOthers ==
  ASSUME IInv, NEW tc \in Tc, NEW c \in Tc \ {tc},
         \/ \E a \in App : Request(tc, a)
         \/ Terminate(tc) \/ Terminated(tc)
         \/ \E code \in Code : Receive(tc, code)
         \/ \E t \in TimerName : Expire(tc, t)
  PROVE  KeepsReport(c)
<1>0. timer \in Timers /\ TypeOK
  BY DEF IInv, TypeOK, Timers
<1>1. ASSUME NEW a \in App, Request(tc, a)
      PROVE  KeepsReport(c)
  <2>1. KeepsOut(c)
    BY <1>1, RequestFrame
  <2> QED
    BY <1>1, <2>1 DEF KeepsReport, Request, RequestTries, RequestStarts, RequestListens
<1>2. CASE Terminate(tc)
  <2>1. timer'[c] = timer[c]
    BY <1>0, <1>2, HaltTimers DEF Terminate
  <2> QED
    BY <1>0, <1>2, <2>1 DEF KeepsReport, KeepsOut, Terminate, TypeOK
<1>3. CASE Terminated(tc)
  BY <1>0, <1>3 DEF KeepsReport, KeepsOut, Terminated, Remove, TypeOK
<1>4. ASSUME NEW code \in Code, Receive(tc, code)
      PROVE  KeepsReport(c)
  BY <1>4 DEF KeepsReport, KeepsOut, Receive, ReceiverWith
<1>5. ASSUME NEW t \in TimerName, Expire(tc, t)
      PROVE  KeepsReport(c)
  <2>1. timer'[c] = timer[c]
    BY <1>0, <1>5 DEF Expire, Timers
  <2> QED
    BY <1>5, <2>1 DEF KeepsReport, KeepsOut, Expire, TimerThreadWith
<1> QED
  BY <1>1, <1>2, <1>3, <1>4, <1>5

LEMMA ReceiverReportsOthers ==
  ASSUME IInv, ReceiverStep, NEW tc, tc = receiver.tc, NEW c \in Tc \ {tc}
  PROVE  KeepsReport(c)
<1>1. receiver.at # "idle"
  BY DEF ReceiverStep, ReceiverChecks, ReceiverHalts, ReceiverSettlesProvisional,
         ReceiverSettles, ReceiverLooks, ReceiverReports, ReceiverThrows, ReceiverEnds
<1>2. /\ tc \in Tc /\ timer \in Timers /\ TypeOK
      /\ receiver \in Receiver
  BY <1>1, ReceiverAt
<1>3. /\ UNCHANGED <<kind, app, terminator>> /\ UNCHANGED timerThread
      /\ status'[c] = status[c] /\ listening'[c] = listening[c]
      /\ transaction_listener'[c] = transaction_listener[c]
      /\ reported'[c] = reported[c]
  BY <1>2
  DEF ReceiverStep, ReceiverChecks, ReceiverHalts, ReceiverSettlesProvisional,
      ReceiverSettles, ReceiverLooks, ReceiverReports, ReceiverThrows, ReceiverEnds,
      Remove, Report, TypeOK
<1>4. timer'[c] = timer[c]
  <2>1. ASSUME NEW names, Halt(tc, names)
        PROVE  timer'[c] = timer[c]
    BY <1>2, <2>1, HaltTimers
  <2>2. CASE ReceiverEnds
    BY <1>2, <2>2 DEF ReceiverEnds, Timers
  <2>3. CASE ReceiverChecks \/ ReceiverHalts \/ ReceiverSettles
    BY <2>1, <2>3 DEF ReceiverChecks, ReceiverHalts, ReceiverSettles
  <2> QED
    BY <2>2, <2>3
    DEF ReceiverStep, ReceiverSettlesProvisional, ReceiverLooks, ReceiverReports,
        ReceiverThrows
<1>5. ~ReceiverWith(c) /\ ~ReceiverWith(c)'
  <2>1. receiver' = [at |-> "idle"] \/ \E at : receiver' = [receiver EXCEPT !.at = at]
    BY DEF ReceiverStep, ReceiverChecks, ReceiverHalts, ReceiverSettlesProvisional,
           ReceiverSettles, ReceiverLooks, ReceiverReports, ReceiverThrows, ReceiverEnds
  <2>2. receiver'.at = "idle" \/ receiver'.tc = tc
    BY <1>2, <2>1 DEF Receiver
  <2> QED
    BY <2>2 DEF ReceiverWith
<1> QED
  BY <1>3, <1>4, <1>5 DEF KeepsReport, KeepsOut

LEMMA TimerReportsOthers ==
  ASSUME IInv, TimerStep, NEW tc, tc = timerThread.tc, NEW c \in Tc \ {tc}
  PROVE  KeepsReport(c)
<1>1. timerThread.at \notin {"idle", "dead"}
  BY DEF TimerStep, TimerThreadCalls, TimerThreadDies, OnTimeout, OnTimeoutResends,
         OnTimeoutRemoves, OnTimeoutLooks, OnTimeoutReports, OnTimeoutThrows,
         OnTimeoutForgets, TimerThreadRests
<1>2. /\ tc \in Tc /\ timer \in Timers /\ TypeOK
      /\ timerThread \in TimerThread
  BY <1>1, TimerThreadAt
<1>3. /\ UNCHANGED <<kind, app, terminator>> /\ UNCHANGED receiver
      /\ status'[c] = status[c] /\ listening'[c] = listening[c]
      /\ transaction_listener'[c] = transaction_listener[c]
      /\ reported'[c] = reported[c]
  BY <1>2
  DEF TimerStep, TimerThreadCalls, TimerThreadDies, OnTimeout, OnTimeoutResends,
      OnTimeoutRemoves, OnTimeoutLooks, OnTimeoutReports, OnTimeoutThrows,
      OnTimeoutForgets, TimerThreadRests, Remove, Report, TypeOK
<1>4. timer'[c] = timer[c]
  <2>1. ASSUME NEW names, Halt(tc, names)
        PROVE  timer'[c] = timer[c]
    BY <1>2, <2>1, HaltTimers
  <2>2. CASE OnTimeout
    BY <2>1, <2>2 DEF OnTimeout
  <2>3. CASE OnTimeoutResends \/ TimerThreadRests
    BY <1>2, <2>3 DEF OnTimeoutResends, TimerThreadRests, Timers
  <2> QED
    BY <2>2, <2>3
    DEF TimerStep, TimerThreadCalls, TimerThreadDies, OnTimeoutRemoves, OnTimeoutLooks,
        OnTimeoutReports, OnTimeoutThrows, OnTimeoutForgets
<1>5. ~TimerThreadWith(c) /\ ~TimerThreadWith(c)'
  <2>1. \/ timerThread' \in {[at |-> "idle"], [at |-> "dead"]}
        \/ \E at : timerThread' = [timerThread EXCEPT !.at = at]
    BY DEF TimerStep, TimerThreadCalls, TimerThreadDies, OnTimeout, OnTimeoutResends,
           OnTimeoutRemoves, OnTimeoutLooks, OnTimeoutReports, OnTimeoutThrows,
           OnTimeoutForgets, TimerThreadRests
  <2>2. timerThread'.at \in {"idle", "dead"} \/ timerThread'.tc = tc
    BY <1>2, <2>1 DEF TimerThread
  <2> QED
    BY <2>2 DEF TimerThreadWith
<1> QED
  BY <1>1, <1>3, <1>4, <1>5 DEF KeepsReport, KeepsOut

LEMMA ReportedOnce ==
  ASSUME TypeOK, NEW tc \in Tc, NEW o, Report(tc, o)
  PROVE  reported'[tc] # {}
<1>1. reported'[tc] = reported[tc] \cup {o}
  BY DEF Report, TypeOK
<1> QED
  BY <1>1

\* The acting transaction's own report.
LEMMA RequestReport ==
  ASSUME IInv, NEW tc \in Tc, ReportInv(tc), NEW a \in App, Request(tc, a),
         Unreported(tc)'
  PROVE  ReportInv(tc)'
<1>1. /\ TypeOK /\ TransactionInv(tc) /\ timer \in Timers
      /\ InRequest(tc)
      /\ kind[tc] = "invite" =>
           /\ ~listening[tc] /\ ~ReceiverWith(tc)
           /\ a = "main" /\ \A b \in App \ {"main"} : app[tc][b] = "none"
      /\ UNCHANGED <<kind, transaction_listener, timerThread, receiver, terminator>>
      /\ \A b \in App \ {a} : app'[tc][b] = app[tc][b]
  BY RequestFrame
<1>2. Unreported(tc)
  BY <1>1 DEF Unreported, Request, RequestTries, RequestStarts, RequestListens
<1>3. ReceiverWith(tc)' <=> ReceiverWith(tc)
  BY <1>1 DEF ReceiverWith
<1>4. TimerThreadWith(tc)' <=> TimerThreadWith(tc)
  BY <1>1 DEF TimerThreadWith
<1>5. timer'[tc]["last"] = timer[tc]["last"]
  <2>1. CASE RequestStarts(tc, a)
    BY <1>1, <2>1, StartedTimers
  <2> QED
    BY <2>1 DEF Request, RequestTries, RequestListens
<1>6. IsTimed(tc)' => Open(tc)'
  <2>1. CASE RequestTries(tc, a)
    <3>1. /\ app[tc][a] = "new" /\ app'[tc][a] = "trying"
          /\ UNCHANGED <<listening, timer>>
      BY <1>1, <2>1 DEF RequestTries, TypeOK
    <3>2. IsTimed(tc)' => IsTimed(tc)
      BY <1>1, <3>1 DEF IsTimed
    <3>3. kind[tc] = "invite" => ~IsTimed(tc)
      BY <1>1, <3>1 DEF IsTimed
    <3> QED
      BY <1>1, <1>2, <1>3, <1>4, <3>1, <3>2, <3>3
      DEF ReportInv, Open, Settling, TimingOut
  <2>2. CASE RequestStarts(tc, a)
    <3>1. /\ app[tc][a] = "trying" /\ app'[tc][a] \in {"timed", "failed"}
          /\ UNCHANGED <<listening, status>>
      BY <1>1, <2>2 DEF RequestStarts, TypeOK
    <3>2. SUFFICES ASSUME timerThread.at # "dead"
                   PROVE  Open(tc)'
      BY <1>1 DEF Open
    <3>3. /\ timer'[tc]["transaction"].armed = timer[tc]["transaction"].armed
          /\ timer'[tc]["transaction"].scheduled
          /\ timer'[tc]["transaction"].active
      <4>1. timer[tc]["transaction"] \in Timer
        BY <1>1 DEF Timers, TimerName
      <4> QED
        BY <1>1, <2>2, <3>2, <4>1, StartedTimers, StartedTimer
    <3>4. CASE timer[tc]["transaction"].armed
      BY <3>3, <3>4 DEF Open, Fires
    <3>5. CASE ~timer[tc]["transaction"].armed
      <4>1. \E b \in App : app[tc][b] = "requested"
        BY <1>1, <1>2, <3>5 DEF TransactionInv, AppInv, Unreported
      <4>2. IsTimed(tc)
        BY <4>1 DEF IsTimed
      <4> QED
        BY <1>1, <1>2, <1>3, <1>4, <3>1, <3>5, <4>2
        DEF ReportInv, Open, Fires, Settling, TimingOut
    <3> QED
      BY <3>4, <3>5
  <2>3. CASE RequestListens(tc, a)
    <3>1. app[tc][a] = "timed" /\ UNCHANGED <<status, timer>>
      BY <2>3 DEF RequestListens
    <3>2. IsTimed(tc)
      BY <3>1 DEF IsTimed
    <3> QED
      BY <1>1, <1>2, <1>3, <1>4, <3>1, <3>2
      DEF ReportInv, Open, Settling, TimingOut
  <2> QED
    BY <2>1, <2>2, <2>3 DEF Request
<1>7. Reachable(tc)'
  <2>1. CASE RequestListens(tc, a)
    BY <1>1, <2>1 DEF RequestListens, Reachable, TypeOK
  <2>2. CASE RequestTries(tc, a) \/ RequestStarts(tc, a)
    <3>1. UNCHANGED listening /\ app'[tc][a] # "requested"
      BY <1>1, <2>2 DEF RequestTries, RequestStarts, TypeOK
    <3>2. \A b \in App : app'[tc][b] = "requested" => app[tc][b] = "requested"
      BY <1>1, <3>1
    <3> QED
      BY <1>1, <1>2, <1>3, <1>4, <3>1, <3>2 DEF ReportInv, Reachable, TimingOut
  <2> QED
    BY <2>1, <2>2 DEF Request
<1> QED
  BY <1>1, <1>2, <1>3, <1>4, <1>5, <1>6, <1>7 DEF ReportInv, TimingOut

\* terminate() makes the report nobody's business; a datagram that arrives
\* changes nothing yet.
LEMMA ApplicationReport ==
  ASSUME IInv, NEW tc \in Tc, ReportInv(tc),
         \/ Terminate(tc) \/ Terminated(tc)
         \/ \E code \in Code : Receive(tc, code),
         Unreported(tc)'
  PROVE  ReportInv(tc)'
<1>1. ~Terminate(tc) /\ ~Terminated(tc)
  BY DEF IInv, Unreported, Terminate, Terminated, TypeOK
<1>2. PICK code \in Code : Receive(tc, code)
  BY <1>1
<1>3. /\ receiver.at = "idle" /\ receiver'.at = "entered"
      /\ UNCHANGED <<kind, status, transaction_listener, listening, timer, timerThread,
                     app, terminator, reported>>
  BY <1>2 DEF Receive
<1>4. Unreported(tc)
  BY <1>3 DEF Unreported
<1>5. (IsTimed(tc)' => Open(tc)') /\ Reachable(tc)'
  BY <1>3, <1>4
  DEF ReportInv, IsTimed, Open, Reachable, Settling, TimingOut, TimerThreadWith,
      ReceiverWith
<1> QED
  BY <1>3, <1>4, <1>5 DEF ReportInv, TimingOut, TimerThreadWith

LEMMA ExpireReport ==
  ASSUME IInv, NEW tc \in Tc, ReportInv(tc), NEW t \in TimerName, Expire(tc, t),
         Unreported(tc)'
  PROVE  ReportInv(tc)'
<1>1. timer \in Timers /\ timer[tc][t] \in Timer
  BY DEF IInv, TypeOK, Timers
<1>2. /\ timerThread.at = "idle" /\ timer[tc][t].scheduled
      /\ UNCHANGED <<kind, status, transaction_listener, listening, receiver, app,
                     terminator, reported>>
  BY DEF Expire
<1>3. Unreported(tc) /\ t # "last"
  BY <1>2 DEF Unreported, ReportInv
<1>4. /\ timer'[tc]["last"] = timer[tc]["last"]
      /\ t # "transaction" => timer'[tc]["transaction"] = timer[tc]["transaction"]
  BY <1>1, <1>3 DEF Expire, Timers, TimerName
<1>5. IsTimed(tc)' <=> IsTimed(tc)
  BY <1>2 DEF IsTimed
<1>6. CASE Fires(timer[tc][t])
  <2>1. timerThread' = [at |-> "firing", tc |-> tc, to |-> t]
    BY <1>6 DEF Expire, Fires
  <2>2. TimerThreadWith(tc)' /\ timerThread'.to = t /\ timerThread'.at = "firing"
    BY <2>1 DEF TimerThreadWith
  <2>3. IsTimed(tc)' => Open(tc)'
    <3>1. CASE t = "transaction"
      BY <2>2, <3>1 DEF Open, TimingOut
    <3>2. CASE t # "transaction"
      BY <1>2, <1>3, <1>4, <1>5, <3>2
      DEF ReportInv, Open, Settling, TimingOut, TimerThreadWith, ReceiverWith
    <3> QED
      BY <3>1, <3>2
  <2>4. Reachable(tc)'
    BY <1>2, <1>3 DEF ReportInv, Reachable, TimingOut, TimerThreadWith, ReceiverWith
  <2> QED
    BY <1>2, <1>3, <1>4, <2>2, <2>3, <2>4 DEF ReportInv, ReceiverWith
<1>7. CASE ~Fires(timer[tc][t])
  <2>1. UNCHANGED timerThread
    BY <1>2, <1>7 DEF Expire, Fires
  <2>2. Fires(timer[tc]["transaction"]) => Fires(timer[tc]["transaction"])'
    BY <1>4, <1>7
  <2>3. IsTimed(tc)' => Open(tc)'
    BY <1>2, <1>3, <1>5, <2>1, <2>2
    DEF ReportInv, Open, Settling, TimingOut, TimerThreadWith, ReceiverWith
  <2>4. Reachable(tc)'
    BY <1>2, <1>3 DEF ReportInv, Reachable, TimingOut, TimerThreadWith, ReceiverWith
  <2> QED
    BY <1>2, <1>3, <1>4, <2>1, <2>3, <2>4
    DEF ReportInv, TimingOut, TimerThreadWith, ReceiverWith
<1> QED
  BY <1>6, <1>7

\* The receiver stops the timer of a transaction only on its way to report,
\* or when it takes an INVITE to Proceeding.
LEMMA ReceiverReport ==
  ASSUME IInv, ReceiverStep, NEW tc, tc = receiver.tc, ReportInv(tc), Unreported(tc)'
  PROVE  ReportInv(tc)'
<1>1. receiver.at # "idle"
  BY DEF ReceiverStep, ReceiverChecks, ReceiverHalts, ReceiverSettlesProvisional,
         ReceiverSettles, ReceiverLooks, ReceiverReports, ReceiverThrows, ReceiverEnds
<1>2. /\ tc \in Tc /\ timer \in Timers /\ TypeOK /\ TransactionInv(tc)
      /\ receiver \in Receiver
      /\ ReceiverWith(tc)
  BY <1>1, ReceiverAt
<1>3. /\ UNCHANGED <<kind, app, terminator, timerThread>>
      /\ reported'[tc] = {} => reported[tc] = {}
  BY <1>2
  DEF ReceiverStep, ReceiverChecks, ReceiverHalts, ReceiverSettlesProvisional,
      ReceiverSettles, ReceiverLooks, ReceiverReports, ReceiverThrows, ReceiverEnds,
      Report, TypeOK
<1>4. Unreported(tc) /\ receiver.at # "ending" /\ transaction_listener[tc]
  BY <1>2, <1>3 DEF Unreported, ReportInv
<1>5. ~ReceiverReports /\ ~ReceiverThrows /\ ~ReceiverEnds
  <2>1. ASSUME ReceiverReports PROVE FALSE
    BY <1>2, <2>1, ReportedOnce DEF ReceiverReports, Unreported
  <2> QED
    BY <1>4, <2>1 DEF ReceiverThrows, ReceiverEnds
<1>6. UNCHANGED transaction_listener /\ (TimingOut(tc)' <=> TimingOut(tc))
  BY <1>3, <1>5
  DEF ReceiverStep, ReceiverChecks, ReceiverHalts, ReceiverSettlesProvisional,
      ReceiverSettles, ReceiverLooks, TimingOut, TimerThreadWith
<1>7. ~timer'[tc]["last"].scheduled
  <2>1. ASSUME NEW names, Halt(tc, names)
        PROVE  timer'[tc]["last"].scheduled = timer[tc]["last"].scheduled
    BY <1>2, <2>1, HaltFields DEF TimerName
  <2>2. UNCHANGED timer \/ \E names : Halt(tc, names)
    BY <1>5
    DEF ReceiverStep, ReceiverChecks, ReceiverHalts, ReceiverSettlesProvisional,
        ReceiverSettles, ReceiverLooks
  <2> QED
    BY <1>4, <2>1, <2>2 DEF ReportInv
<1>8. SUFFICES ASSUME TRUE
               PROVE  /\ ReceiverWith(tc)' => receiver'.at # "ending"
                      /\ IsTimed(tc) => Open(tc)'
                      /\ Reachable(tc)'
  <2>1. IsTimed(tc)' <=> IsTimed(tc)
    BY <1>3 DEF IsTimed
  <2> QED
    BY <1>3, <1>4, <1>6, <1>7, <2>1 DEF ReportInv, TimerThreadWith, TimingOut
<1>9. ASSUME receiver'.at \in {"halting", "settling", "reporting", "calling"},
             receiver'.tc = tc,
             receiver'.code # "1xx" \/ kind[tc] = "invite"
      PROVE  Open(tc)'
  BY <1>3, <1>9 DEF Open, Settling, ReceiverWith
<1>10. CASE ReceiverChecks
  <2>1. /\ receiver.at = "entered"
        /\ UNCHANGED <<status, listening>>
    BY <1>10 DEF ReceiverChecks
  <2>2. timer'[tc]["transaction"] = timer[tc]["transaction"]
    BY <1>2, <1>10, HaltFields DEF ReceiverChecks, TimerName
  <2>3. receiver'.at \in {"idle", "halting", "settling"}
    BY <1>2, <1>10 DEF ReceiverChecks, Receiver
  <2>4. IsTimed(tc) => Open(tc)'
    BY <1>3, <1>4, <1>6, <2>1, <2>2 DEF ReportInv, Open, Settling
  <2>5. Reachable(tc)'
    BY <1>3, <1>4, <1>6, <2>1 DEF ReportInv, Reachable
  <2> QED
    BY <2>3, <2>4, <2>5
<1>11. CASE ReceiverHalts
  <2>1. /\ receiver.at = "halting"
        /\ receiver'.at = "settling" /\ receiver'.tc = tc /\ receiver'.code = receiver.code
        /\ UNCHANGED listening
    BY <1>2, <1>11 DEF ReceiverHalts, Receiver
  <2>2. Open(tc)'
    BY <1>2, <1>9, <2>1 DEF TransactionInv, ReceiverInv
  <2>3. Reachable(tc)'
    BY <1>3, <1>4, <1>6, <2>1 DEF ReportInv, Reachable
  <2> QED
    BY <2>1, <2>2, <2>3
<1>12. CASE ReceiverSettlesProvisional
  <2>1. /\ receiver.at = "settling" /\ receiver.code = "1xx"
        /\ receiver' = [at |-> "idle"]
        /\ UNCHANGED <<listening, timer>>
        /\ kind[tc] = "invite" => status'[tc] = "PROCEEDING"
        /\ status'[tc] \in {status[tc], "PROCEEDING"}
    BY <1>2, <1>12 DEF ReceiverSettlesProvisional, TypeOK
  <2>2. IsTimed(tc) => Open(tc)'
    BY <1>3, <1>4, <1>6, <2>1 DEF ReportInv, Open, Settling
  <2>3. Reachable(tc)'
    BY <1>3, <1>4, <1>6, <2>1 DEF ReportInv, Reachable
  <2> QED
    BY <2>1, <2>2, <2>3 DEF ReceiverWith
<1>13. CASE ReceiverSettles
  <2>1. /\ receiver.code # "1xx"
        /\ receiver'.at = "reporting" /\ receiver'.tc = tc /\ receiver'.code = receiver.code
    BY <1>2, <1>13 DEF ReceiverSettles, Receiver
  <2> QED
    BY <1>9, <2>1 DEF Reachable, ReceiverWith
<1>14. CASE ReceiverLooks
  <2>1. /\ receiver.at = "reporting"
        /\ receiver'.at = "calling" /\ receiver'.tc = tc /\ receiver'.code = receiver.code
    BY <1>2, <1>4, <1>14 DEF ReceiverLooks, Receiver
  <2>2. Open(tc)'
    BY <1>2, <1>9, <2>1 DEF TransactionInv, ReceiverInv
  <2> QED
    BY <2>1, <2>2 DEF Reachable, ReceiverWith
<1> QED
  BY <1>5, <1>10, <1>11, <1>12, <1>13, <1>14 DEF ReceiverStep

\* The timer thread, once in onTimeout(), reports.
LEMMA TimerReport ==
  ASSUME IInv, TimerStep, NEW tc, tc = timerThread.tc, NEW to, to = timerThread.to,
         ReportInv(tc), Unreported(tc)'
  PROVE  ReportInv(tc)'
<1>1. timerThread.at \notin {"idle", "dead"}
  BY DEF TimerStep, TimerThreadCalls, TimerThreadDies, OnTimeout, OnTimeoutResends,
         OnTimeoutRemoves, OnTimeoutLooks, OnTimeoutReports, OnTimeoutThrows,
         OnTimeoutForgets, TimerThreadRests
<1>2. /\ tc \in Tc /\ to \in TimerName /\ timer \in Timers /\ TypeOK /\ TransactionInv(tc)
      /\ timerThread \in TimerThread
      /\ TimerThreadWith(tc)
  BY <1>1, TimerThreadAt
<1>3. /\ UNCHANGED <<kind, app, terminator, receiver>>
      /\ reported'[tc] = {} => reported[tc] = {}
  BY <1>2
  DEF TimerStep, TimerThreadCalls, TimerThreadDies, OnTimeout, OnTimeoutResends,
      OnTimeoutRemoves, OnTimeoutLooks, OnTimeoutReports, OnTimeoutThrows,
      OnTimeoutForgets, TimerThreadRests, Report, TypeOK
<1>4. /\ Unreported(tc) /\ transaction_listener[tc]
      /\ to # "last"
      /\ to = "transaction" => timerThread.at \notin {"resending", "forgetting", "done"}
      /\ to = "retransmission" => timerThread.at \in {"firing", "onTimeout", "resending", "done"}
      /\ ~timer[tc]["last"].scheduled
      /\ IsTimed(tc) => Open(tc)
      /\ Reachable(tc)
      /\ ReceiverWith(tc) => receiver.at # "ending"
  BY <1>2, <1>3 DEF Unreported, ReportInv, TimingOut
<1>5. to = "retransmission" \/ to = "transaction"
  BY <1>2, <1>4 DEF TimerName
<1>6. ReceiverWith(tc)' => receiver'.at # "ending"
  BY <1>3, <1>4 DEF ReceiverWith
<1>7. /\ Settling(tc) => Settling(tc)'
      /\ IsTimed(tc)' <=> IsTimed(tc)
  BY <1>3 DEF Settling, ReceiverWith, IsTimed
<1>8. CASE to = "transaction"
  <2>1. \/ /\ TimerThreadCalls \/ OnTimeout \/ OnTimeoutRemoves \/ OnTimeoutLooks
           /\ timerThread'.at \in {"onTimeout", "removing", "reporting", "calling"}
           /\ timerThread'.tc = tc /\ timerThread'.to = to
           /\ timerThread.at \in {"reporting", "calling"} => timerThread'.at = "calling"
           /\ timerThread'.at \notin {"reporting", "calling"} => UNCHANGED listening
        \/ TimerThreadDies
    <3>1. ~OnTimeoutReports
      BY <1>2, ReportedOnce DEF OnTimeoutReports, Unreported
    <3>2. ~OnTimeoutResends /\ ~OnTimeoutThrows /\ ~OnTimeoutForgets /\ ~TimerThreadRests
      BY <1>4, <1>8
      DEF OnTimeoutResends, OnTimeoutThrows, OnTimeoutForgets, TimerThreadRests
    <3>3. CASE TimerThreadCalls
      BY <1>2, <3>3 DEF TimerThreadCalls, TimerThread
    <3>4. CASE OnTimeout
      BY <1>2, <1>8, <3>4 DEF OnTimeout, TimerThread
    <3>5. CASE OnTimeoutRemoves
      BY <1>2, <1>8, <3>5 DEF OnTimeoutRemoves, TimerThread
    <3>6. CASE OnTimeoutLooks
      BY <1>2, <1>4, <3>6 DEF OnTimeoutLooks, TimerThread
    <3> QED
      BY <3>1, <3>2, <3>3, <3>4, <3>5, <3>6 DEF TimerStep
  <2>2. UNCHANGED transaction_listener /\ ~timer'[tc]["last"].scheduled
    <3>1. CASE OnTimeout
      BY <1>2, <1>4, <1>8, <3>1, HaltFields DEF OnTimeout, TimerName
    <3> QED
      BY <1>4, <2>1, <3>1
      DEF TimerThreadCalls, OnTimeoutRemoves, OnTimeoutLooks, TimerThreadDies
  <2>3. CASE TimerThreadDies
    <3>1. /\ timerThread.at = "firing" /\ timerThread'.at = "dead"
          /\ UNCHANGED listening
      BY <2>3 DEF TimerThreadDies
    <3> QED
      BY <1>3, <1>4, <1>6, <2>2, <3>1
      DEF ReportInv, Open, Reachable, TimingOut, TimerThreadWith, ReceiverWith
  <2>4. CASE ~TimerThreadDies
    <3>1. TimingOut(tc)' /\ TimerThreadWith(tc)'
      BY <1>8, <2>1, <2>4 DEF TimingOut, TimerThreadWith
    <3>2. Reachable(tc)'
      <4>1. CASE timerThread'.at \in {"reporting", "calling"}
        BY <3>1, <4>1 DEF Reachable
      <4>2. CASE timerThread'.at \notin {"reporting", "calling"}
        <5>1. UNCHANGED listening /\ timerThread.at \notin {"reporting", "calling"}
          BY <2>1, <2>4, <4>2
        <5>2. ReceiverWith(tc)' <=> ReceiverWith(tc)
          BY <1>3 DEF ReceiverWith
        <5> QED
          BY <1>3, <1>4, <5>1, <5>2 DEF Reachable
      <4> QED
        BY <4>1, <4>2
    <3> QED
      BY <1>4, <1>6, <1>8, <2>1, <2>2, <2>4, <3>1, <3>2 DEF ReportInv, Open
  <2> QED
    BY <2>3, <2>4
<1>9. CASE to = "retransmission"
  <2>1. ~OnTimeoutRemoves /\ ~OnTimeoutLooks /\ ~OnTimeoutReports /\ ~OnTimeoutThrows
        /\ ~OnTimeoutForgets
    BY <1>2, <1>4, <1>9
    DEF OnTimeoutRemoves, OnTimeoutLooks, OnTimeoutReports, OnTimeoutThrows, OnTimeoutForgets,
        TransactionInv, TimerInv
  <2>2. /\ UNCHANGED <<status, listening, transaction_listener>>
        /\ timerThread' \in {[at |-> "idle"], [at |-> "dead"]}
             \/ /\ timerThread'.tc = tc /\ timerThread'.to = to
                /\ timerThread'.at \in {"onTimeout", "resending", "done"}
    <3>1. CASE TimerThreadCalls
      BY <1>2, <3>1 DEF TimerThreadCalls, TimerThread
    <3>2. CASE OnTimeout
      BY <1>2, <1>9, <3>2 DEF OnTimeout, TimerThread
    <3> QED
      BY <2>1, <3>1, <3>2 DEF TimerStep, TimerThreadDies, OnTimeoutResends, TimerThreadRests
  <2>3. /\ timer'[tc]["transaction"] = timer[tc]["transaction"]
        /\ timer'[tc]["last"] = timer[tc]["last"]
    <3>1. CASE OnTimeoutResends \/ TimerThreadRests
      BY <1>2, <1>9, <3>1 DEF OnTimeoutResends, TimerThreadRests, Timers, TimerName
    <3> QED
      BY <1>9, <2>1, <3>1 DEF TimerStep, TimerThreadCalls, TimerThreadDies, OnTimeout
  <2>4. ~TimingOut(tc)' /\ ~TimingOut(tc)
    BY <1>9, <2>2 DEF TimingOut, TimerThreadWith
  <2>5. IsTimed(tc)' => Open(tc)'
    BY <1>1, <1>3, <1>4, <1>7, <2>2, <2>3, <2>4 DEF Open
  <2>6. Reachable(tc)'
    BY <1>3, <1>4, <2>2, <2>4 DEF Reachable, ReceiverWith
  <2> QED
    BY <1>4, <1>6, <1>9, <2>2, <2>3, <2>4, <2>5, <2>6 DEF ReportInv, TimerThreadWith
<1> QED
  BY <1>5, <1>8, <1>9

LEMMA InitReport == Init => \A tc \in Tc : ReportInv(tc)
<1> SUFFICES ASSUME Init, NEW tc \in Tc PROVE ReportInv(tc)
  OBVIOUS
<1>1. /\ transaction_listener[tc]
      /\ timer[tc]["last"] = NewTimer
      /\ \A a \in App : app[tc][a] \in {"none", "new"}
      /\ ~TimerThreadWith(tc) /\ ~ReceiverWith(tc)
  BY DEF Init, TimerName, TimerThreadWith, ReceiverWith
<1> QED
  BY <1>1 DEF ReportInv, IsTimed, Reachable, NewTimer, TimingOut

LEMMA NextReport ==
  ASSUME IInv, \A c \in Tc : ReportInv(c), [Next]_vars
  PROVE  \A c \in Tc : ReportInv(c)'
<1>1. ASSUME NEW tc \in Tc,
             \/ \E a \in App : Request(tc, a)
             \/ Terminate(tc) \/ Terminated(tc)
             \/ \E code \in Code : Receive(tc, code)
             \/ \E t \in TimerName : Expire(tc, t)
      PROVE  \A c \in Tc : ReportInv(c)'
  <2>1. \A c \in Tc \ {tc} : KeepsReport(c)
    BY <1>1, ActionsReportOthers
  <2>2. ASSUME Unreported(tc)' PROVE ReportInv(tc)'
    BY <1>1, <2>2, RequestReport, ApplicationReport, ExpireReport
  <2> QED
    BY <2>1, <2>2, OneReports
<1>2. CASE ReceiverStep
  <2>1. PICK tc : tc = receiver.tc
    OBVIOUS
  <2>2. tc \in Tc
    <3>1. receiver.at # "idle"
      BY <1>2
      DEF ReceiverStep, ReceiverChecks, ReceiverHalts, ReceiverSettlesProvisional,
          ReceiverSettles, ReceiverLooks, ReceiverReports, ReceiverThrows, ReceiverEnds
    <3> QED
      BY <2>1, <3>1, ReceiverAt
  <2>3. Unreported(tc)' => ReportInv(tc)'
    BY <1>2, <2>1, <2>2, ReceiverReport
  <2> QED
    BY <1>2, <2>1, <2>2, <2>3, ReceiverReportsOthers, OneReports
<1>3. CASE TimerStep
  <2>1. PICK tc : tc = timerThread.tc
    OBVIOUS
  <2>2. PICK to : to = timerThread.to
    OBVIOUS
  <2>3. tc \in Tc
    <3>1. timerThread.at \notin {"idle", "dead"}
      BY <1>3
      DEF TimerStep, TimerThreadCalls, TimerThreadDies, OnTimeout, OnTimeoutResends,
          OnTimeoutRemoves, OnTimeoutLooks, OnTimeoutReports, OnTimeoutThrows,
          OnTimeoutForgets, TimerThreadRests
    <3> QED
      BY <2>1, <2>2, <3>1, TimerThreadAt
  <2>4. Unreported(tc)' => ReportInv(tc)'
    BY <1>3, <2>1, <2>2, <2>3, TimerReport
  <2> QED
    BY <1>3, <2>1, <2>3, <2>4, TimerReportsOthers, OneReports
<1>4. CASE UNCHANGED vars
  <2> SUFFICES ASSUME NEW c \in Tc PROVE KeepsReport(c)
    BY OthersReport
  <2> QED
    BY <1>4 DEF vars, KeepsReport, KeepsOut
<1> QED
  BY <1>1, <1>2, <1>3, <1>4 DEF Next

\* A request whose listener was told nothing is still in the SipProvider's
\* table, and its timer will go off: but an INVITE's after a 1xx, and all of
\* them when the timer thread has died.
THEOREM UnreportedStaysOpen == Spec => []UnreportedIsOpen
<1> DEFINE Reports == \A tc \in Tc : ReportInv(tc)
<1>1. IInv /\ Reports => UnreportedIsOpen
  <2> SUFFICES ASSUME Reports, receiver.at = "idle", timerThread.at \in {"idle", "dead"},
                      NEW tc \in Tc, NEW a \in App, app[tc][a] = "requested",
                      terminator[tc] = "open", reported[tc] = {}
               PROVE  /\ listening[tc]
                      /\ \/ Fires(timer[tc]["transaction"])
                         \/ kind[tc] = "invite" /\ status[tc] = "PROCEEDING"
                         \/ timerThread.at = "dead"
    BY DEF UnreportedIsOpen, Fires
  <2>1. Open(tc) /\ Reachable(tc)
    BY DEF ReportInv, Unreported, IsTimed
  <2> QED
    BY <2>1 DEF Open, Reachable, Settling, TimingOut, ReceiverWith, TimerThreadWith
<1>2. IInv /\ Reports /\ [Next]_vars => Reports'
  BY NextReport
<1>3. Init => Reports
  BY InitReport
<1> HIDE DEF Reports
<1> QED
  BY <1>1, <1>2, <1>3, Invariance, PTL DEF Spec
=============================================================================
