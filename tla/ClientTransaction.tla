------------------------- MODULE ClientTransaction --------------------------
(***************************************************************************)
(* The client transactions of org.zoolu.sip.transaction, TransactionClient *)
(* and InviteTransactionClient, with the threads that enter them: the one  *)
(* thread of all timers (InnerTimerST.single_timer), the thread that       *)
(* receives datagrams, and two of the application's.                       *)
(*                                                                         *)
(* Nothing is synchronized.  A step is an access to fields that another    *)
(* thread also uses; between two steps of a thread any other may run.  A   *)
(* field that is read twice without synchronization, once to compare it    *)
(* with null and once to call through it, may be read from memory once or  *)
(* twice: the call then finds it non-null, or throws.                      *)
(***************************************************************************)
EXTENDS Transactions

CONSTANTS
  Tc,    \* the client transactions
  App    \* the application's threads that call request()

VARIABLES
  kind,                   \* kind[tc], the class of tc
  status,
  transaction_listener,   \* whether the field is not null
  listening,              \* whether the SipProvider has tc as a listener
  timer,                  \* timer[tc][t], the Timer objects
  timerThread,
  receiver,               \* the thread of the UdpProvider
  app,                    \* app[tc][a], how far a is with tc.request()
  terminator,             \* terminator[tc], how far "main" is with tc.terminate()
  reported                \* the outcomes the listener was called with

vars == <<kind, status, transaction_listener, listening, timer, timerThread,
          receiver, app, terminator, reported>>

-----------------------------------------------------------------------------
Kind == {"invite", "other"}
Outcome == {"success", "failure", "timeout"}

\* "main" also terminates transactions, and requests those of the dialogs.  A
\* RegisterAgent's, whose field t is shared, may be requested by two threads.
ASSUME AppAssumption == "main" \in App

Requesting == {"new", "trying", "timed"}

\* "last" is clearing_to of a TransactionClient, end_to of an
\* InviteTransactionClient.
TimerName == {"retransmission", "transaction", "last"}

\* scheduled is the pending InnerTimerST, armed says that the field listener
\* is not null.
Timer == [scheduled : BOOLEAN, active : BOOLEAN, armed : BOOLEAN]

NewTimer == [scheduled |-> FALSE, active |-> FALSE, armed |-> TRUE]

Halted(t) == [t EXCEPT !.active = FALSE, !.armed = FALSE]

\* Where a thread is.  A thread at rest forgets what it worked on.
TimerThread ==
  [at : {"idle", "firing", "onTimeout", "resending", "removing", "reporting",
         "calling", "forgetting", "done", "dead"},
   tc : Tc, to : TimerName]

Receiver ==
  [at : {"idle", "entered", "halting", "settling", "reporting", "calling",
         "ending"},
   tc : Tc, code : Code]

TypeOK ==
  /\ kind \in [Tc -> Kind]
  /\ status \in [Tc -> TransStatus]
  /\ transaction_listener \in [Tc -> BOOLEAN]
  /\ listening \in [Tc -> BOOLEAN]
  /\ timer \in [Tc -> [TimerName -> Timer]]
  /\ timerThread \in TimerThread \cup {[at |-> "idle"], [at |-> "dead"]}
  /\ receiver \in Receiver \cup {[at |-> "idle"]}
  /\ app \in [Tc -> [App -> Requesting \cup {"none", "requested", "failed"}]]
  /\ terminator \in [Tc -> {"open", "terminating", "terminated", "overtaking"}]
  /\ reported \in [Tc -> SUBSET Outcome]

Init ==
  /\ kind \in [Tc -> Kind]
  /\ status = [tc \in Tc |-> "IDLE"]
  /\ transaction_listener = [tc \in Tc |-> TRUE]
  /\ listening = [tc \in Tc |-> FALSE]
  /\ timer = [tc \in Tc |-> [t \in TimerName |-> NewTimer]]
  /\ timerThread = [at |-> "idle"]
  /\ receiver = [at |-> "idle"]
  /\ app \in [Tc -> [App -> {"none", "new"}]]
  /\ \A tc \in Tc : \E a \in App : app[tc][a] = "new"
  /\ \A tc \in Tc : kind[tc] = "invite" =>
       \A a \in App \ {"main"} : app[tc][a] = "none"
  /\ terminator = [tc \in Tc |-> "open"]
  /\ reported = [tc \in Tc |-> {}]

\* Timer.start(): schedule() throws once the timer thread has died.
Started(t) ==
  [t EXCEPT !.active = TRUE, !.scheduled = timerThread.at # "dead"]

\* The listener of tc is called with outcome o.
Report(tc, o) == reported' = [reported EXCEPT ![tc] = @ \cup {o}]

Halt(tc, names) ==
  timer' = [timer EXCEPT ![tc] =
              [t \in TimerName |-> IF t \in names THEN Halted(@[t]) ELSE @[t]]]

\* The transaction leaves the SipProvider's listeners and ends.
Remove(tc) ==
  /\ listening' = [listening EXCEPT ![tc] = FALSE]
  /\ status' = [status EXCEPT ![tc] = "TERMINATED"]

-----------------------------------------------------------------------------
(* The application's threads.                                              *)

\* A thread that is to request tc, or has not finished.
InRequest(tc) == \E a \in App : app[tc][a] \in Requesting

\* request(): changeStatus(STATE_TRYING)
RequestTries(tc, a) ==
  /\ app[tc][a] = "new"
  /\ app' = [app EXCEPT ![tc][a] = "trying"]
  /\ status' = [status EXCEPT ![tc] = "TRYING"]
  /\ UNCHANGED <<kind, transaction_listener, listening, timer, timerThread,
                 receiver, terminator, reported>>

\* retransmission_to.start(); transaction_to.start()
RequestStarts(tc, a) ==
  /\ app[tc][a] = "trying"
  /\ IF timerThread.at = "dead"
     THEN /\ app' = [app EXCEPT ![tc][a] = "failed"]
          /\ timer' = [timer EXCEPT ![tc]["retransmission"] = Started(@)]
     ELSE /\ app' = [app EXCEPT ![tc][a] = "timed"]
          /\ timer' = [timer EXCEPT ![tc]["retransmission"] = Started(@),
                                    ![tc]["transaction"] = Started(@)]
  /\ UNCHANGED <<kind, status, transaction_listener, listening, timerThread,
                 receiver, terminator, reported>>

\* addSipProviderListener, and the request is sent.
RequestListens(tc, a) ==
  /\ app[tc][a] = "timed"
  /\ app' = [app EXCEPT ![tc][a] = "requested"]
  /\ listening' = [listening EXCEPT ![tc] = TRUE]
  /\ UNCHANGED <<kind, status, transaction_listener, timer, timerThread,
                 receiver, terminator, reported>>

Request(tc, a) == RequestTries(tc, a) \/ RequestStarts(tc, a) \/ RequestListens(tc, a)

\* terminate(), which only RegisterAgent.register() calls, on the main thread:
\* the field t shows it a transaction that the other thread has yet to request.
Terminate(tc) ==
  /\ terminator[tc] # "terminating"
  /\ app[tc]["main"] \notin Requesting
  /\ kind[tc] = "other"
  /\ status[tc] # "TERMINATED"
  /\ terminator' = [terminator EXCEPT ![tc] = "terminating"]
  /\ Halt(tc, TimerName)
  /\ UNCHANGED <<kind, status, transaction_listener, listening, timerThread,
                 receiver, app, reported>>

\* "overtaking": a request() goes on that will add the listener again.
Terminated(tc) ==
  /\ terminator[tc] = "terminating"
  /\ terminator' = [terminator EXCEPT ![tc] =
                      IF InRequest(tc) THEN "overtaking" ELSE "terminated"]
  /\ Remove(tc)
  /\ transaction_listener' = [transaction_listener EXCEPT ![tc] = FALSE]
  /\ UNCHANGED <<kind, timer, timerThread, receiver, app, reported>>

-----------------------------------------------------------------------------
(* The receiving thread.                                                   *)

\* SipProvider.processReceivedMessage finds the transaction's listener.
Receive(tc, code) ==
  /\ receiver.at = "idle"
  /\ listening[tc]
  /\ receiver' = [at |-> "entered", tc |-> tc, code |-> code]
  /\ UNCHANGED <<kind, status, transaction_listener, listening, timer,
                 timerThread, app, terminator, reported>>

\* The first half of onReceivedMessage: which timers the response stops.
Stops(tc, code) ==
  IF code # "1xx" \/ (kind[tc] = "invite" /\ status[tc] = "TRYING")
  THEN {"retransmission", "transaction"}
  ELSE IF kind[tc] = "other" THEN {"retransmission"} ELSE {}

ReceiverChecks ==
  LET tc == receiver.tc
      stops == Stops(tc, receiver.code)
  IN /\ receiver.at = "entered"
     /\ IF Pending(status[tc]) /\ stops # {}
        THEN /\ Halt(tc, {"retransmission"})
             /\ receiver' = [receiver EXCEPT !.at =
                               IF "transaction" \in stops THEN "halting"
                               ELSE "settling"]
        ELSE /\ receiver' = [at |-> "idle"]
             /\ UNCHANGED timer
     /\ UNCHANGED <<kind, status, transaction_listener, listening, timerThread,
                    app, terminator, reported>>

\* (Seeded fault.)  The wrong timer is stopped.
ReceiverHaltsLast ==
  /\ receiver.at = "halting"
  /\ Halt(receiver.tc, {"last"})
  /\ receiver' = [receiver EXCEPT !.at = "settling"]
  /\ UNCHANGED <<kind, status, transaction_listener, listening, timerThread,
                 app, terminator, reported>>

ReceiverHalts ==
  /\ receiver.at = "halting"
  /\ Halt(receiver.tc, {"transaction"})
  /\ receiver' = [receiver EXCEPT !.at = "settling"]
  /\ UNCHANGED <<kind, status, transaction_listener, listening, timerThread,
                 app, terminator, reported>>

\* changeStatus.  A TransactionClient asks again whether it is in Trying
\* before it goes to Proceeding.
ReceiverSettlesProvisional ==
  LET tc == receiver.tc
  IN /\ receiver.at = "settling" /\ receiver.code = "1xx"
     /\ status' = IF kind[tc] = "other" /\ status[tc] # "TRYING" THEN status
                  ELSE [status EXCEPT ![tc] = "PROCEEDING"]
     /\ receiver' = [at |-> "idle"]
     /\ UNCHANGED <<kind, transaction_listener, listening, timer, timerThread,
                    app, terminator, reported>>

\* (Seeded fault.)  The class of the response is taken for a status.
ReceiverSettlesCode ==
  LET tc == receiver.tc
  IN /\ receiver.at = "settling" /\ receiver.code # "1xx"
     /\ receiver' = [receiver EXCEPT !.at = "reporting"]
     /\ status' = [status EXCEPT ![tc] = receiver.code]
     /\ UNCHANGED <<kind, transaction_listener, listening, timer, timerThread,
                    app, terminator, reported>>

ReceiverSettles ==
  LET tc == receiver.tc
  IN /\ receiver.at = "settling" /\ receiver.code # "1xx"
     /\ receiver' = [receiver EXCEPT !.at = "reporting"]
     /\ IF kind[tc] = "invite" /\ receiver.code = "2xx"
        THEN Remove(tc) /\ Halt(tc, {"last"})
        ELSE /\ status' = [status EXCEPT ![tc] = "COMPLETED"]
             /\ UNCHANGED <<listening, timer>>
     /\ UNCHANGED <<kind, transaction_listener, timerThread, app, terminator, reported>>

ReceiverLooks ==
  /\ receiver.at = "reporting"
  /\ receiver' = [receiver EXCEPT !.at =
                    IF transaction_listener[receiver.tc] THEN "calling"
                    ELSE "ending"]
  /\ UNCHANGED <<kind, status, transaction_listener, listening, timer,
                 timerThread, app, terminator, reported>>

ReceiverReports ==
  /\ receiver.at = "calling"
  /\ Report(receiver.tc, IF receiver.code = "2xx" THEN "success" ELSE "failure")
  /\ receiver' = [receiver EXCEPT !.at = "ending"]
  /\ UNCHANGED <<kind, status, transaction_listener, listening, timer,
                 timerThread, app, terminator>>

\* The listener is null by now: processReceivedMessage catches the exception.
ReceiverThrows ==
  /\ receiver.at = "calling"
  /\ ~transaction_listener[receiver.tc]
  /\ receiver' = [at |-> "idle"]
  /\ UNCHANGED <<kind, status, transaction_listener, listening, timer,
                 timerThread, app, terminator, reported>>

\* (Seeded fault.)  The last timer is not started.
ReceiverEndsUntimed ==
  /\ receiver.at = "ending"
  /\ transaction_listener' = [transaction_listener EXCEPT ![receiver.tc] = FALSE]
  /\ receiver' = [at |-> "idle"]
  /\ UNCHANGED <<kind, status, listening, timer, timerThread, app, terminator, reported>>

ReceiverEnds ==
  LET tc == receiver.tc
  IN /\ receiver.at = "ending"
     /\ transaction_listener' = [transaction_listener EXCEPT ![tc] = FALSE]
     /\ timer' = IF kind[tc] = "invite" /\ receiver.code = "2xx" THEN timer
                 ELSE [timer EXCEPT ![tc]["last"] = Started(@)]
     /\ receiver' = [at |-> "idle"]
     /\ UNCHANGED <<kind, status, listening, timerThread, app, terminator, reported>>

ReceiverStep ==
  \/ ReceiverChecks
  \/ ReceiverHalts
  \/ ReceiverSettlesProvisional
  \/ ReceiverSettles
  \/ ReceiverLooks
  \/ ReceiverReports
  \/ ReceiverThrows
  \/ ReceiverEnds

-----------------------------------------------------------------------------
(* The thread of java.util.Timer.                                          *)

\* InnerTimerST.run and the condition of onInnerTimeout.  A request() takes less
\* than the 30 s of the other two timers.
Expire(tc, t) ==
  /\ timerThread.at = "idle"
  /\ timer[tc][t].scheduled
  /\ t # "retransmission" => ~InRequest(tc)
  /\ IF timer[tc][t].active /\ timer[tc][t].armed
     THEN /\ timerThread' = [at |-> "firing", tc |-> tc, to |-> t]
          /\ timer' = [timer EXCEPT ![tc][t].scheduled = FALSE]
     ELSE /\ timer' = [timer EXCEPT ![tc][t] =
                         [Halted(@) EXCEPT !.scheduled = FALSE]]
          /\ UNCHANGED timerThread
  /\ UNCHANGED <<kind, status, transaction_listener, listening, receiver, app,
                 terminator, reported>>

TimerThreadCalls ==
  /\ timerThread.at = "firing"
  /\ timerThread' = [timerThread EXCEPT !.at = "onTimeout"]
  /\ UNCHANGED <<kind, status, transaction_listener, listening, timer, receiver,
                 app, terminator, reported>>

\* Nobody catches the exception: java.util.Timer's thread ends, and with it
\* the timers of all transactions.
TimerThreadDies ==
  /\ timerThread.at = "firing"
  /\ ~timer[timerThread.tc][timerThread.to].armed
  /\ timerThread' = [at |-> "dead"]
  /\ UNCHANGED <<kind, status, transaction_listener, listening, timer, receiver,
                 app, terminator, reported>>

\* The request is sent again by an InviteTransactionClient in Trying, by a
\* TransactionClient in Proceeding too.
Resends(tc) ==
  status[tc] = "TRYING" \/ (kind[tc] = "other" /\ status[tc] = "PROCEEDING")

\* onTimeout(), up to the first access another thread may come before.
OnTimeout ==
  LET tc == timerThread.tc
  IN /\ timerThread.at = "onTimeout"
     /\ IF timerThread.to = "retransmission"
        THEN /\ timerThread' = [timerThread EXCEPT !.at =
                                  IF Resends(tc) THEN "resending" ELSE "done"]
             /\ UNCHANGED timer
        ELSE /\ timerThread' = [timerThread EXCEPT !.at = "removing"]
             /\ Halt(tc, TimerName \ {timerThread.to})
     /\ UNCHANGED <<kind, status, transaction_listener, listening, receiver,
                    app, terminator, reported>>

\* A new Timer takes the place of the one that has expired.
OnTimeoutResends ==
  /\ timerThread.at = "resending"
  /\ timer' = [timer EXCEPT ![timerThread.tc]["retransmission"] =
                 Started(NewTimer)]
  /\ timerThread' = [at |-> "idle"]
  /\ UNCHANGED <<kind, status, transaction_listener, listening, receiver, app,
                 terminator, reported>>

\* (Seeded fault.)  The listener is forgotten before it is told.
OnTimeoutForgetsFirst ==
  LET tc == timerThread.tc
  IN /\ timerThread.at = "removing"
     /\ Remove(tc)
     /\ transaction_listener' = [transaction_listener EXCEPT ![tc] = FALSE]
     /\ timerThread' = [timerThread EXCEPT !.at =
                          IF timerThread.to = "transaction" THEN "reporting"
                          ELSE "done"]
     /\ UNCHANGED <<kind, timer, receiver, app, terminator, reported>>

OnTimeoutRemoves ==
  LET tc == timerThread.tc
  IN /\ timerThread.at = "removing"
     /\ Remove(tc)
     /\ timerThread' = [timerThread EXCEPT !.at =
                          IF timerThread.to = "transaction" THEN "reporting"
                          ELSE "done"]
     /\ UNCHANGED <<kind, transaction_listener, timer, receiver, app, terminator, reported>>

OnTimeoutLooks ==
  /\ timerThread.at = "reporting"
  /\ timerThread' = [timerThread EXCEPT !.at =
                       IF transaction_listener[timerThread.tc] THEN "calling"
                       ELSE "done"]
  /\ UNCHANGED <<kind, status, transaction_listener, listening, timer, receiver,
                 app, terminator, reported>>

OnTimeoutReports ==
  /\ timerThread.at = "calling"
  /\ Report(timerThread.tc, "timeout")
  /\ timerThread' = [timerThread EXCEPT !.at = "forgetting"]
  /\ UNCHANGED <<kind, status, transaction_listener, listening, timer, receiver,
                 app, terminator>>

\* onTimeout catches the exception.
OnTimeoutThrows ==
  /\ timerThread.at = "calling"
  /\ ~transaction_listener[timerThread.tc]
  /\ timerThread' = [timerThread EXCEPT !.at = "done"]
  /\ UNCHANGED <<kind, status, transaction_listener, listening, timer, receiver,
                 app, terminator, reported>>

OnTimeoutForgets ==
  /\ timerThread.at = "forgetting"
  /\ transaction_listener' = [transaction_listener EXCEPT ![timerThread.tc] = FALSE]
  /\ timerThread' = [timerThread EXCEPT !.at = "done"]
  /\ UNCHANGED <<kind, status, listening, timer, receiver, app, terminator, reported>>

\* The last lines of onInnerTimeout.
TimerThreadRests ==
  /\ timerThread.at = "done"
  /\ timer' = [timer EXCEPT ![timerThread.tc][timerThread.to] = Halted(@)]
  /\ timerThread' = [at |-> "idle"]
  /\ UNCHANGED <<kind, status, transaction_listener, listening, receiver, app,
                 terminator, reported>>

TimerStep ==
  \/ TimerThreadCalls
  \/ TimerThreadDies
  \/ OnTimeout
  \/ OnTimeoutResends
  \/ OnTimeoutRemoves
  \/ OnTimeoutLooks
  \/ OnTimeoutReports
  \/ OnTimeoutThrows
  \/ OnTimeoutForgets
  \/ TimerThreadRests

-----------------------------------------------------------------------------
Next ==
  \/ \E tc \in Tc, a \in App : Request(tc, a)
  \/ \E tc \in Tc : Terminate(tc) \/ Terminated(tc)
  \/ \E tc \in Tc, code \in Code : Receive(tc, code)
  \/ ReceiverStep
  \/ \E tc \in Tc, t \in TimerName : Expire(tc, t)
  \/ TimerStep

Spec == Init /\ [][Next]_vars

\* A thread that has work goes on.  java.util.Timer runs its tasks in the
\* order of their times, so that no task is passed over for ever.
FairSpec ==
  /\ Spec
  /\ WF_vars(ReceiverStep)
  /\ WF_vars(TimerStep)
  /\ \A tc \in Tc :
       /\ WF_vars(Terminated(tc))
       /\ \A a \in App : WF_vars(Request(tc, a))
       /\ \A t \in TimerName : SF_vars(Expire(tc, t))

-----------------------------------------------------------------------------
(* Safety.                                                                 *)

\* What Transactions allows, and the dialogs rely on.
MayTimeOut(tc) ==
  IF kind[tc] = "invite" THEN InviteClientMayTimeOut(status[tc])
  ELSE ClientMayTimeOut(status[tc])

\* transaction_to never goes off for a transaction that has its final
\* response or has ended, nor for an INVITE after a 1xx: the timer is stopped
\* before the status says so, in whatever order the threads run.  The threads
\* thus keep to the status machines of Transactions.
TimesOutPendingOnly ==
  [][\A tc \in Tc :
       timerThread.at = "idle"
         /\ timerThread' = [at |-> "firing", tc |-> tc, to |-> "transaction"]
       => MayTimeOut(tc)]_vars

\* When neither the timer nor the receiving thread is in the middle of something,
\* each transaction in the SipProvider has a timer that will remove it, though
\* two threads request it, one terminates it, and response and time-out cross:
\* but for an INVITE that waits for its final response without a timer.  (What
\* terminate() overtakes stays for ever: request() adds it with its timers off.)
NoneLeftBehind ==
  receiver.at = "idle" /\ timerThread.at = "idle" =>
    \A tc \in Tc :
      listening[tc] /\ terminator[tc] \in {"open", "terminated"} =>
        \/ \E t \in {"transaction", "last"} :
             timer[tc][t].scheduled /\ timer[tc][t].active /\ timer[tc][t].armed
        \/ kind[tc] = "invite" /\ status[tc] = "PROCEEDING"

\* When no thread is in the middle of something, a request whose listener was
\* told nothing can still end: a response would find the transaction, and its
\* timer will go off, unless a 1xx stopped it or the timer thread has died.  A
\* response and a time-out that find one another half done, and forget the
\* listener, do so only once it was called.
UnreportedIsOpen ==
  receiver.at = "idle" /\ timerThread.at \in {"idle", "dead"} =>
    \A tc \in Tc :
      (\E a \in App : app[tc][a] = "requested") /\ terminator[tc] = "open"
        /\ reported[tc] = {} =>
        LET transaction_to == timer[tc]["transaction"]
        IN /\ listening[tc]
           /\ \/ transaction_to.scheduled /\ transaction_to.active /\ transaction_to.armed
              \/ kind[tc] = "invite" /\ status[tc] = "PROCEEDING"
              \/ timerThread.at = "dead"

-----------------------------------------------------------------------------
(* Liveness, under FairSpec.                                               *)

\* Every request comes to an end its listener hears of, even when the final
\* response and the time-out both find the other one half done: none of them
\* leaves the report to the other.  The application's own terminate() is
\* silent, an INVITE has no time-out after a 1xx, and the timer thread may
\* have died.
EveryRequestReported ==
  \A tc \in Tc :
    (\E a \in App : app[tc][a] = "requested") ~>
      \/ reported[tc] # {}
      \/ terminator[tc] \in {"terminated", "overtaking"}
      \/ kind[tc] = "invite" /\ status[tc] = "PROCEEDING"
      \/ timerThread.at = "dead"

-----------------------------------------------------------------------------
(* What the comments of the code say and the code does not do.             *)

\* "A Timer is a simple object that fires an onTimeout() method to its
\* TimerListener when the time expires." (Timer)
TimerFires ==
  \A tc \in Tc, t \in TimerName :
    timer[tc][t].scheduled /\ timer[tc][t].active ~>
      ~(timer[tc][t].scheduled /\ timer[tc][t].active)

=============================================================================
