# TLA+ for the push-to-talk SIP client

The program is Sipdroid (an Android SIP phone on the MjSip stack `org.zoolu`),
extended with push-to-talk. Nearly all of it is callbacks: a datagram or a timer
enters the stack at the bottom, and objects several layers up change their state
without a lock. This directory models that stack, checks it with TLC, and proves
the core of it with TLAPS.

Paths below are relative to `src/src/org/` unless they start with `src/`.

## 1. The system

```
 screens (ui/InCallScreen, CallScreen)     ui/AudioMBCPProcess, VideoMBCPProcess
        | threads: answercall, rejectcall        | floor requests / bursts
        v                                        v
 SipdroidEngine -> UserAgent  ---------->  JAudioLauncher -> RtpStreamSender/Receiver
        |             ^ onCall*
        |             v
        |          ExtendedCall / Call
        |             ^ onDlg*
        v             v
 RegisterAgent     ExtendedInviteDialog / InviteDialog (Dialog)
        ^             ^ onTrans*
        v             v
   TransactionClient, InviteTransactionClient, InviteTransactionServer,
   AckTransactionServer, ...         <---- Timer / InnerTimerST (one java.util.Timer)
        ^
        v
   SipProvider (listeners, connections)  <---- UdpTransport thread
```

| Component | State it keeps | Operations | Hard part |
|---|---|---|---|
| Invite dialogs (`zoolu/sip/dialog/InviteDialog`, `Dialog`) | status `D_*`, local and remote CSeq, `invite_req`, transactions, the listener in the SipProvider | `listen invite reInvite ring accept refuse cancel bye`, `onReceivedMessage`, `onTrans*` | Late and repeated messages; re-INVITEs of both sides at once; BYE against re-INVITE; transactions of older requests that still report |
| Transactions (`zoolu/sip/transaction`) | status, `transaction_listener`, timers, listener in the SipProvider | `request respondWith terminate onReceivedMessage onTimeout` | Entered by three threads without a lock |
| Timers (`zoolu/tools/Timer`, `InnerTimerST`) | `active`, `listener`, the scheduled task | `start halt onInnerTimeout` | One thread runs every timer of the program; `halt()` races with it |
| SipProvider | tables of listeners and connections | `addListener removeListener sendMessage processReceivedMessage` | Dispatch order; entries that stay; eviction of connections |
| Authenticated dialogs (`ExtendedInviteDialog`) | nonce, attempts, table of transactions | answer to 401/407, REFER, NOTIFY | A challenged INVITE continues in a transaction of another class |
| Calls and user agent (`zoolu/sip/call`, `sipdroid/sipua/UserAgent`, `SipdroidEngine`, `ui/Receiver.onState`) | call state, current and transferred Call, media application | `call listen accept hangup`, `onCall*`, launching media | Handlers that call each other through `onState`; screens' threads that run late; stale Calls |
| Floor control (`sipua/ui/AudioMBCPProcess`, `VideoMBCPProcess`) | `ptt_state`, message buffer | `HelloMSG RequestMSG ReleaseMSG`, receive thread | Buffer shared by two threads; grant and revoke against the sender thread |
| Media (`sipdroid/media`) | sender and receiver threads, `running`, static `isSending` | `startMedia stopMedia startSendMedia stopSendMedia` | Start against halt |
| Registration (`RegisterAgent`, `LoopAlarm`) | `CurrentState`, transaction, nonce | `register unregister onTrans*` | Terminating a transaction whose handler is under way |
| Presence (`PresenceAgent`, subscriber, notifier, publisher dialogs) | subscription status | `SUBSCRIBE NOTIFY PUBLISH` | Ordering of NOTIFYs |
| Transports, keep-alive, SDP, parsers, screens, chat | — | I/O, text, platform calls | — |

What makes each correct:

- *Dialogs*: one final answer per INVITE; a dialog that waits is told when it has
  waited in vain; no dialog is deaf or left in the table; the two ends agree on
  what the session is.
- *Transactions and timers*: every request is reported, once for what it was;
  nothing stays in the SipProvider's table; a timer that is needed goes off.
- *User agent*: what the screen shows is what the dialog is in; no media without
  a call; an idle phone listens; no session without an owner.
- *Floor control*: the phone takes the floor only if it was granted, and the last
  message decides.
- *Media*: what a call has opened stays where the hang-up finds it; a call that was
  hung up has no socket, no receiver and no voice, whoever hung up with it.
- *Registration*: a registered phone will refresh; a registration ends, one way or
  the other; the state of the agent is the registrar's.
- *SipProvider* (not modelled): its tables follow the transactions.

`PROJECT.json` lists every component with its status, and under `hazards` each
place in the code where one of these can go wrong.

## 2. The modules

| Module | Models | Used by |
|---|---|---|
| `Transactions` | status machines of all transactions, as functions | `InviteDialog`, `ClientTransaction` |
| `Session` | what a session promises its two users: the abstract specification | `InviteDialog` (refinement) |
| `InviteDialog` | the dialogs of a caller and a callee, their transactions, timers, the network | |
| `MCInviteDialog` | its instances for TLC, and the link to `DialogSteps` | |
| `InviteDialog_proofs` | the theorems about `InviteDialog` | |
| `ClientTransaction` | client transactions, with three threads, step by step | |
| `ClientTransaction_proofs` | the theorems about `ClientTransaction` | |
| `DialogSteps` | the steps of a dialog's status, by callback | `UserAgent`, `MCInviteDialog` |
| `DialogSteps_proofs` | the theorem that the dialogs of `InviteDialog` take these steps only | |
| `UserAgent` | the user agent, its Calls, their dialogs, the screens' threads | |
| `UserAgent_proofs` | the theorems about `UserAgent` | |
| `Media` | the JAudioLaunchers of successive calls, their threads, who launches and closes them | |
| `Media_proofs` | the theorems about `Media` | |
| `FloorControl` | the MBCP client, its two threads and the header they share | |
| `FloorControl_proofs` | the theorems about `FloorControl` | |
| `Registration` | the RegisterAgent, its callers, its transactions, the registrar | |
| `Registration_proofs` | the theorems about `Registration` | |

### InviteDialog

`dlg[p]` is the `InviteDialog` object of `p`: the fields `status`, `local_cseq`,
`remote_cseq`, `invite_req`, `ack_ts`; `listening` (its `InviteTransactionServer`
listens for the method INVITE); `key`, under which identifier the SipProvider has
it; one transaction per CSeq in `invite_tc`, `invite_ts`, `ack_tss`, `bye_tc`;
and `sent`, every message it ever sent. A handler is a function from dialog to
dialog (`Accepting`, `InviteSucceeded`, ...), an action is a handler with its
guard. So `InviteTimedOut` is `Close(Cancelling(..))`, as `onTransTimeout` calls
`cancel()` and `changeStatus(D_CLOSE)`.

The network is UDP: a peer may take any message of `sent` at any time, any number
of times, or never. This is loss, duplication, delay and reordering together, and
it makes every retransmission a stutter. The 1xx, 2xx, 300-699 classes are all that
is left of a response's code; `NACK` is the ACK of a 300-699, which belongs to the
INVITE's transaction, while the `ACK` of a 2xx belongs to the dialog.

Atomic here: one handler, with the transaction callback it runs in. What the
threads can do inside a transaction is `ClientTransaction`.

Left out: the responses to CANCEL and the 405 (no handler changes anything on
them), `inviteWithoutOffer` and `ackWithAnswer` (only with the option `no_offer`),
TCP.

### ClientTransaction

One step per access to a field that another thread uses. `timerThread` is the
thread of `InnerTimerST.single_timer`, `receiver` the thread of the UdpProvider.
`app[tc][a]` is how far the application's thread `a` is with `request()`
(`RequestTries`, `RequestStarts`, `RequestListens`: status, timers, listener), and
`terminator[tc]` how far the main thread is with `terminate()` (`Terminate`,
`Terminated`: timers, the rest). Only the RegisterAgent terminates, and its
transaction is a field that two threads read: so a transaction of class `other` may
be requested by both, and terminated before, inside or after either `request()`. A
`request()` that was overtaken puts the transaction back into the table (status
`overtaking`).

A field that the code compares with null and then calls through may be read once or
twice by the JVM; both outcomes are modelled (`ReceiverReports` / `ReceiverThrows`,
`OnTimeoutReports` / `OnTimeoutThrows`, `TimerThreadCalls` / `TimerThreadDies`). The
last pair differs from the others: in `Timer.onInnerTimeout` nobody catches the
exception, so the one thread of all timers ends, after which `schedule()` throws.

The one assumption on time is in `Expire`: `request()` takes less than the 30 s of a
transaction's timers.

### DialogSteps and UserAgent

`InviteDialog` has two dialogs in full; the user agent has several, of which only
the status and the callbacks matter. `DialogSteps` is the table of those steps. It
is checked and proved from below (`FollowsSteps`: the full dialogs take no step that
is not in the table) and used above, as the environment of `UserAgent`.

`ua` is the `UserAgent` object with `dialog[c]` the status of each live Call's
dialog; `threads` are the threads that `InCallScreen.answer` and `reject` have
started and that have not run. Handlers are functions again, because the code
calls through in a circle that has to be one step:
`changeStatus(IDLE)` -> `Receiver.onState` -> `engine.listen` -> `UserAgent.listen`
-> `hangup` -> `closeMediaApplication`, `Call.hangup`, `changeStatus(IDLE)` (which
finds the state unchanged and ends the circle) -> a new Call listens. `HangUp`,
`ToIdle`, `Listen`, `NewListening` are these. Session descriptions are abstracted
to the ways `launchMediaApplication` can end (`Launched`): media started, nothing
started, no codec and so `hangup()`. A Call that nothing refers to and that no
message can reach is given back (`Collected`), as the garbage collector does.

`automaticHangup` (option `hangup_time`) is a hang-up like the user's and not
modelled apart. Two threads inside one handler of the user agent are not modelled;
`changeStatus` is its only synchronized method.

### Media

`UserAgent` has one bit for the media; `Media` has what is behind it, and in
exchange only the part of the user agent that touches it, one step per access. Each
`media[k]` is a `JAudioLauncher`: its two streams (`held`: the field is not null;
`at`: where the thread is; `running`) and its socket. `thread["provider"]` is the
SipProvider's thread in a call-back, `thread["phone"]` one that acts for this side:
the screen's, or the one of a sender or receiver that fails.

The lines of `closeMediaApplication()` are steps of their own: the test of
`audio_app` (`TestMedia`), its second read (`StopMedia`, which abandons the handler
when it finds null), in `stopMedia()` the test of each stream and the call through it
(`TestPart`, `HaltPart`, thrown out when the other thread was faster), `CloseSocket`,
and `audio_app = null` (`ClearMedia`), which erases whatever is there by then. Then
`ChangeToIdle`, and once more from the beginning, as `Receiver.onState` listens and
so hangs up again, now with the lock of `changeStatus()` (`nested`, `Unlocked`).

An outgoing call launches its media when it rings with a session description or is
accepted (`ReceiveRinging`, `ReceiveAccepted`), an incoming one in the handler of its
INVITE (`ReceiveInvite`, `ChangeToIncoming`, `LaunchMedia`, `MakeMedia`,
`StartMedia`). Nothing keeps these apart from a thread that is still closing the
media of the call before: no assumption on time is made.

What the model leaves out: two hang-ups of this side at a time (`"phone"` is one
thread); hold; `send_only` (`RecvOnly` are the calls made while `recv_only` is set);
a phone that does not listen (that is in `UserAgent`: here an INVITE may come whenever
the phone is idle). The call that "Fire On" places is placed by `"phone"` like any
other. A burst of the floor is one step (`Granted`, `Taken`).

### FloorControl

`AudioMBCPProcess` encodes what it sends and parses what it receives in the same
`mbcp_header`, from two threads. Of the header only the first byte is kept: version
and type, as a set of bits, so that `|=` is a union and a read and a write
(`ReadHeader`, `WriteHeader`). `pc`, `masks`, `reg` and `clears` are the threads'
stacks: where they are, what is still to be put into the header, what was read,
how often `Allinit` is still to run. Where a message is parsed between them, both
may change type: the datagram sent is not the one asked for, the state is not the
one received. What cannot happen is stated by the properties. `heard` is a history
of the datagrams.

Left out: the length, the body, `msgbuf` with the datagram that leaves (nothing
depends on it here); `Status`, a text on the screen. The screen makes one process for a call and says HELLO once; the
screen itself, `PTTCallScreen`, is not in the repository.

### Registration

`CurrentState`, `attempts`, `t` are the `RegisterAgent`'s fields; `tx[k]` the
TransactionClients, by whether they were requested, answered or ended, and whether
they still have their listener. The main thread runs `register()` for the broadcasts,
the alarm and the placed calls, the provider's thread the answers, the timer's thread
the time-outs.

Nothing is synchronized, and `t` is shared, so a step is one access to `CurrentState`
or to `t`. On the main thread these are `CheckState` (is a transaction of the other
kind under way?), `ReadT` and `Terminate` (what `t` names is terminated, and its
time-out handled here: the thread goes to `Settle` and comes back), `Refuse`,
`ChangeState`, `CreateTransaction` (`t = new ..`), `ReadT` again and `Request`: what
is requested is what `t` names by then, also when it is the other thread's, or was
terminated. `Authenticate` is the other place that creates, and is followed by the
same two steps. A call-back goes through `Settle` (the test of `CurrentState`),
`Succeed`, `Fail` or `Go` (the assignment), `ReportFailure` and `ReRegister`. Three
things are one step although they are two or three accesses: `attempts++`, which
only call-backs of the provider's thread do; the comparisons of `CurrentState` in one
condition of `register()`; a synchronized `reRegister`.

The registrar answers each request that reaches it in order with success, challenge
or refusal, and remembers what it bound. `p2p` and `fast` are what the preference and
`Receiver.isFast` say: `fast` that the network is always fast enough to register, so
that the phone never deregisters.

Times are abstracted: an expiry is `long`, `short` (not above the 15 s that
`reRegister` subtracts) or `none`. Left out: further accounts, `PREF_KEEPON` (a
nested `register()` in a failure), the halt of the engine, wake locks, the
subscription for waiting messages, texts. A handler takes less than the 30 s of a
transaction (`TimeOut`).

## 3. What the runs check

| Run | Module, bounds | States | Shows |
|---|---|---|---|
| `session` | `MCInviteDialog`, `MaxCSeq` 2, requests 2 / 2, `FairSpec` | 210,497 | every property of the dialogs, refinement of `Session`, `FollowsSteps` |
| `client_threads` | `ClientTransaction`, one transaction of either class, two requesting threads, `FairSpec` | 83,264 | every interleaving of the four threads |
| `user_agent` | `UserAgent`, `MaxCalls` 4 | 232,957 | call state, media, listening |
| `media` | `Media`, `MaxMedia` 2, `RecvOnly` {1}, `FairSpec` | 316,524 | closing from two threads, the next call coming in meanwhile, the threads' ends |
| `floor` | `FloorControl`, six types of datagrams | 868,996 | every interleaving of the two threads |
| `registration` | `Registration`, `MaxCalls` 3, `MaxTransactions` 3, `MAX_ATTEMPTS` 1, `FairSpec` | 859,029 | refreshing, and the end of every registration |
| `session_cseq`, `client_timers`, `ua_deaf`, `ua_left`, `media_mute`, `registration_bound` | | | one finding each, below |

Properties of `InviteDialog`:

- `OneAnswer`: no INVITE gets a 2xx and a refusal, though CANCEL, the user's answer
  and a re-INVITE race for it.
- `WaitingIsWatched`: in D_INVITING, D_ReINVITING, D_ACCEPTED, D_ReACCEPTED and
  D_BYEING a live transaction will report to the dialog, though transactions of
  older requests report too and are not told apart.
- `AnswersLastInvite`: an invited dialog can answer the last INVITE it received.
- `ListenerFollowsStatus`: the entry in the SipProvider agrees with the status.
- `RemoteCSeqGrows`: the filter against late requests never loosens.
- `KeepsPromise`: the two dialogs implement `Session`: the caller is in the call
  only after the callee answered, and nobody comes back to a session that is over.
- `FollowsSteps`: see `DialogSteps` above.
- `AckAwaitedEnds`, `ByeEnds` (liveness): the two waits the code bounds do end.

Properties of `ClientTransaction`: `TimesOutPendingOnly` (no time-out where
`Transactions`, and with it `InviteDialog`, has none: after the final response, and for
an INVITE after a 1xx), `NoneLeftBehind` (an entry in the SipProvider has a timer that
will remove it, or is an INVITE's after a 1xx; excepted by name is the transaction whose
`request()` was overtaken by `terminate()`, which does stay, see below),
`UnreportedIsOpen` (a request whose listener heard nothing can still be answered, and
its timer will go off, or there is a known reason), and `EveryRequestReported`
(liveness: response and time-out, each half done, do not leave the report to one
another).

Properties of `UserAgent`: `IdleIsSilent` (no media in idle, by whatever way the
call ended), `ScreenShowsDialog` (the call state and the current Call's dialog
agree), `HearsCurrentOnly` (an INVITE never finds a Call that will ignore it),
`ReturnsListening` (every way back to idle ends with the phone listening).

Properties of `Media`: `LauncherKept` (a launcher whose socket is open stays the one of
`audio_app`, where the next hang-up finds it, through closings by two threads that throw
each other out; the only step that can erase it is the last line of
`closeMediaApplication()`, run by a thread that has closed the launcher of an earlier
call), and three of liveness: `HangUpEnds` (hanging up makes the phone idle, even when
the thread is thrown out on the way: the other one goes on), `HangUpSilences` (a hang-up
that found media closes their socket, even when another thread throws it out),
`ReceiverEnds` (the receiver of a call that is over ends, though `halt()` may have come
too early and been overwritten: the closed socket ends it; hold, in which such a
receiver would first sleep until the call held is resumed, is left out).

Properties of `FloorControl`: `NoGrantFromNothing` (the threads mix the bits of several
messages, but never into a grant that no message was), `FloorFollowsLast` (what is
parsed while the screen is quiet decides; of what is parsed while it is not, only the
first says something). The first rests on the numbers of the types:
GRANTED is one bit, and none of HELLO, RELEASE and ACK, which the phone sends, is that
bit alone, so no mixture of them with other messages has just it.

Properties of `Registration`: `OutcomePending` (as long as the state makes `register()`
refuse, a transaction the agent listens to is alive, a thread is in its call-back, or
one is about to request what `t` names: terminations, challenges, time-outs and the two
threads that request each other's transaction leave no gap), `RegisteringEnds`
(liveness: no such mix keeps the agent in REGISTERING or DEREGISTERING, where it refuses
to register), `RefreshScheduled` (a registered phone that never deregisters has its
alarm, though `reRegister` may leave it as it is and an answer may be to a transaction
given up before). The last is not true of a phone that does deregister: see section 4.

`ByeEnds` says nothing of a BYE dropped before the ACK, nor `ScreenShowsDialog` of an
answer key that comes after the CANCEL: both are in the models, and allowed.

Each module has one `TypeOK`. Operators marked *(Seeded fault.)* are what the code
would do with a plausible bug; nothing uses them in the models. Put in the place of
the definition they precede, each makes TLC find one of the properties violated:
`PROJECT.json` has the pairs.

### Bounds

- `MaxCSeq`, `LastCSeq`: the number of requests of each side. With 2 / 2 either side
  opens or is called, then re-invites once or hangs up, so that re-INVITEs and BYEs of
  the two sides cross. Every conflict the handlers distinguish is between a request,
  the one before it, and one of the other side. The theorems hold for every value.
- `Tc`: one transaction for safety and liveness; two where the death of the timer
  thread must reach another transaction. Transactions share nothing else, and the
  safety is proved for every `Tc`. `App`: the main thread and the provider's, the two
  that may request one transaction; proved for every `App` with `"main"` in it.
- `MaxCalls` 4: the current Call, a transfer, and two that were hung up and whose
  dialogs live on. The safety is proved for every `MaxCalls`.
- `MaxMedia` 2: a call and the next one, which is where a leftover of the first bites.
  `RecvOnly` {1} makes the first call one without a sender, which halves the states;
  `media_mute` has both streams in each. The safety is proved for every `MaxMedia` and
  `RecvOnly`.
- `Datagrams` of `floor.cfg`: GRANTED, TAKEN, IDLE, CONNECT (the one that is answered),
  REVOKE, and one number that is no type. The theorems hold for every set.
- `MaxCalls` 3 of `Registration`: a registration, one that terminates it, and one more;
  `MAX_ATTEMPTS` 1 is one challenge that is answered and one that is not (the code has
  3). The safety is proved for every value of the three. `Grants` is `long` only: with
  `short`, `RefreshScheduled` is violated, which is the hazard at `Receiver.java:581`.
- `threads` is a set: of two presses of one key before its thread runs, one counts.

### Fairness

- `InviteDialog!FairSpec`: weak fairness of every timer that is not halted, and
  nothing else: no message need arrive, no user need act. `java.util.Timer` runs
  what is scheduled. This assumes that its thread is alive, which the finding
  `client_timers` shows is not certain; the liveness properties are about the
  dialogs' logic, given timers.
- `ClientTransaction!FairSpec`: weak fairness of a thread that is in the middle of
  something, of each `request()` and `terminate()` too; strong fairness of each timer's expiry, since the Timer runs its tasks
  in the order of their times: a task is passed over only by earlier ones.
- `Media!FairSpec`: weak fairness of a thread that is in the middle of something
  (closing, with the changes of the call state, and launching) and of the streams' threads; strong fairness of a receiver whose socket is closed, because the
  hang-up with which it ends waits for `"phone"` in the model only.
- `Registration!FairSpec`: weak fairness of threads in the middle of something (each
  thread's requests and call-backs, `register()`, the answer to a challenge), strong
  fairness of a transaction's time-out, as for `ClientTransaction`; no answer, alarm or
  broadcast has to come.
- `UserAgent` and `FloorControl` have safety properties only.

The runs of `Media` and `FloorControl` check for deadlock. The others say
`CHECK_DEADLOCK FALSE`: sessions end, and the bounds stop the rest.

## 4. Findings

Each is the only property of a run that TLC violates; `PROJECT.json` quotes the
line the code contradicts.

| Run | What happens |
|---|---|
| `session_cseq` | Re-INVITEs of both sides cross; the stale 2xx sets `local_cseq` back (`Dialog.java:194`), and the next BYE has the CSeq of an INVITE. |
| `client_timers` | `Timer.halt()` between the test and the call in `onInnerTimeout`: the exception ends the only timer thread. |
| `ua_deaf` | A second hang-up (the reject key's thread after the peer's BYE) runs in idle, hangs up the Call that listens, and `changeStatus` does not listen again. |
| `ua_left` | Hanging up between `accept()` and the ACK: `refuse`, `cancel` and `bye` all do nothing in D_ACCEPTED, and the session goes on without an owner. A CANCEL that crosses a 2xx ends the same way. |
| `media_mute` | `isSending` is static and false after a call that ended with the floor released; the first grant of the next call starts a sender that sends nothing (`JAudioLauncher.java:125`). |
| `registration_bound` | The main thread makes its REGISTER transaction and reads the shared `t` again to request it (`RegisterAgent.java:295-296`); a challenge has put the deregistration there meanwhile (637), so the REGISTER is never sent, and the answer to the deregistration makes the phone registered without a binding. |

One more, which TLC shows in the `ClientTransaction` model with the same race as
`client_timers`: a timer that was halted may still call `onTimeout` once, though
`Timer.java:107` says it will not be fired. Three more can be seen in the models and
have no run of their own: a re-INVITE taken in D_BYEING, after which the 2xx of the BYE
is ignored (`InviteDialog.java:608`); a refusal whose ACK is lost, which leaves the dialog
in D_REFUSED (`InviteTransactionServer.java:261`); the answer key's thread after a CANCEL,
which puts the user agent in call with a Call that still waits (`UserAgent.java:397`).

And three that come of the shared fields, which the properties except by name:

- A transaction that `register()` terminates between its creation and its `request()`
  (`RegisterAgent.java:637-639` against 235) is requested with its timers off, and stays
  in the SipProvider's table for ever (`ClientTransaction`, `terminator = "overtaking"`).
- When a deregistration's answer settles the registration after it, the phone is
  registered and `reRegister(0)` has cancelled its alarm (`Registration`, with `fast`
  false).
- A thread of the end key that is late with `audio_app = null` (`UserAgent.java:512`)
  erases the launcher of a call that came in meanwhile; nobody closes its socket, and the
  media port stays bound for the calls after it (`Media`).

## 5. What is proved

`InviteDialog_proofs`, for every `MaxCSeq` and `LastCSeq` that satisfy
`CSeqAssumption` (a positive bound, and for each side a number up to it):

| Theorem | States |
|---|---|
| `Invariance` | `Spec => []IInv` |
| `TypeCorrectness`, `OneAnswerAlways`, `WaitingAlwaysWatched`, `AnswersLastInviteAlways`, `ListenerAlwaysFollows` | `Spec => []` of the property checked by `session` |
| `RemoteCSeqAlwaysGrows` | the action property |
| `Refinement` | `Spec => KeepsPromise`: every step of the dialogs is a step of `Session` or a stutter |
| `DialogsFollowSteps` (in `DialogSteps_proofs`) | the action property `FollowsSteps` |

None of the properties is inductive by itself. `OneAnswer` needs to know that a
final answer exists only for CSeqs up to `remote_cseq` and not for the INVITE being
answered (`AnswerInv`); that needs `remote_cseq` tied to `invite_req` while invited
(`CSeqInv`), and that the first INVITE cannot arrive again (`KeyInv`, `RoleInv`).
`WaitingIsWatched` is `TransInv`, which needs to know that a dialog which has just
been created has no older transactions. `IInv` is the conjunction, for each dialog
*on its own*: nothing relates the two, because all a dialog knows of its peer is
the messages it takes. One lemma per handler shows that the handler preserves
`DialogInv`; `NextInv` only assembles them.

For `Refinement` the cross-dialog fact is a history: `Answered`, the callee's 2xx
is in `sent`. `AcceptedInv` ties it to the callee's own phase, and it never becomes
false as `sent` only grows. `Keeps`, `Advances` and `Handled` say which handlers
leave the phase alone and which move it on.

`DialogsFollowSteps` joins two models. What `UserAgent` assumes of a dialog, and with it
the theorems of `UserAgent_proofs`, is a table of status steps; the theorem says that the
full dialogs, with their transactions and network, have no others. It has one lemma for
each group of handlers; only the re-INVITE needs the invariant, for the statuses
in which its listener can be reached.

`FloorControl_proofs`, for every set of datagrams (`DatagramsAssumption`: subsets of the
type's bits):

| Theorem | States |
|---|---|
| `TypeCorrect`, `GrantIsHeard`, `LastDecides` | `Spec => []` of `TypeOK`, `NoGrantFromNothing`, `FloorFollowsLast` |

`GrantIsHeard` needs what each thread has still to put into the header and what it has
read: none of it is GRANTED unless GRANTED was heard. `LastDecides` needs to
know, at each place of the receive thread, what the header is as long as the screen is
quiet (`heard.alone`): what was received, or what is left of the acknowledgement.

`ClientTransaction_proofs`, for every set `Tc`, and every `App` that satisfies
`AppAssumption` (`"main"` is one of the threads):

| Theorem | States |
|---|---|
| `TypeCorrect`, `NoneIsLeftBehind` | `Spec => []` of `TypeOK`, `NoneLeftBehind` |
| `TimeOutsArePending` | the action property `TimesOutPendingOnly` |
| `UnreportedStaysOpen` | `Spec => []UnreportedIsOpen` |
| `Invariance` | `Spec => []IInv` |

`IInv` says of each transaction, on its own, who will end it, as long as nobody
terminated it: `WatchedInv` names a timer that will fire, the receiver on its way to
start one (`Settling`), or the timer thread on its way to remove the transaction
(`Removing`). To keep it when the receiver starts the last timer, that timer must still
have its listener (`LastInv`); to keep it when a 1xx stops the transaction timer, the
transaction must be an INVITE's (`ReceiverInv`). `AppInv` is what the threads that
request and terminate rely on: a thread that has started the timers and not yet added
the listener has them pending, which is what makes a second `request()` harmless; and a
transaction terminated when no `request()` was under way is out of the table. Nothing is
claimed of one whose `request()` a `terminate()` overtook (`"overtaking"`): it stays.
`TimeOutInv` is the order in which every path stops `transaction_to` before it changes
the status; by it the threads keep to `MayTimeOut`, the guard under which `InviteDialog`
lets a transaction time out. A step of one transaction leaves the others alone
(`OthersKeep`), so that the proof has one lemma per step and speaks of one transaction
only.

`UnreportedStaysOpen` is the safety under `EveryRequestReported`, and needs a second
invariant on top of `IInv`: `ReportInv` says that as long as nothing was reported, the
listener is set, the last timer is not started, and someone will report (`Open`) or
an answer still finds the transaction (`Reachable`). It is about the code's order:
each thread calls the listener before it forgets it.

`UserAgent_proofs`, for every `MaxCalls` that satisfies `CallsAssumption`:

| Theorem | States |
|---|---|
| `TypeCorrect`, `IdleAlwaysSilent`, `ScreenAlwaysShowsDialog`, `AlwaysHearsCurrentOnly` | `Spec => []` of `TypeOK`, `IdleIsSilent`, `ScreenShowsDialog`, `HearsCurrentOnly` |
| `AlwaysReturnsListening` | the action property `ReturnsListening` |
| `Invariance` | `Spec => []IInv` |

The handlers of `UserAgent` are functions from a state of the object to the next, and
call each other; so are the lemmas, one per handler, about a state `u`. `Linked(u)` says
that the Calls referred to exist, only the current one listens, and a transfer has its
Call; `Shown(u)` that screen, media and the current Call's dialog agree. The dialog steps
first and the user agent hears of it after, so between the two only `Linked` holds; each
call-back, given where the dialog now is, brings `Shown` back.

`Media_proofs`, for every `MaxMedia` that satisfies `MediaAssumption`:

| Theorem | States |
|---|---|
| `TypeCorrect` | `Spec => []TypeOK` |
| `LauncherIsKept` | the action property `LauncherKept` |
| `Invariance` | `Spec => []IInv` |

A thread inside `stopMedia()` works on the launcher it once read from `audio_app`, which
may be null or another by now. `StopInv` says what it can rely on all the same: that
launcher was made, and its socket is closed before the thread comes to the last line, so
a thread that erases a launcher with an open socket holds another one. `AppInv`: what is
in `audio_app` was made. `LaunchInv`: `audio_app` is null where a launcher is made, as
only the provider's thread (`PhoneInv`) puts one there, so the constructor never
replaces an open one. Nothing in the argument rests on time. Most steps touch neither a
socket nor `audio_app`, and are treated at once.

`Registration_proofs`, for every `MaxCalls`, `MaxTransactions` and `MAX_ATTEMPTS` that
satisfy `RegistrationAssumption`:

| Theorem | States |
|---|---|
| `TypeCorrect`, `OutcomeIsPending` | `Spec => []` of `TypeOK`, `OutcomePending` |
| `RefreshAlwaysScheduled` | `Spec => []RefreshScheduled`, where `LongGrants`: the registrar grants more than 15 s |
| `Invariance` | `Spec => []IInv` |

A call-back does not know its transaction (`CurrentState` is all it looks at), and a
request does not know which one it sends. `OutcomePending` is inductive on top of
`StructInv` (types, a request is on its way once, a thread that terminates or requests
has something to): a thread that changes the state to REGISTERING or DEREGISTERING
creates a transaction next and then requests what `t` names; whoever assigns `t` in
between gives it a transaction that the agent listens to, and whoever terminates,
answers or times out that one is in a call-back, which leaves the state or goes on to
request. `RefreshInv` is about a phone that never deregisters: every transaction and
every thread is then of a REGISTER, so that each success renews; `expire_time` and the
alarm agree, and a registered phone has its alarm or a thread about to set it.
`LongGrants` is needed: with a grant of 15 s or less the agent sets no alarm at all
(`Receiver.java:581`), in the code and in the model.

What is only model-checked are the four modules' liveness properties (`AckAwaitedEnds`,
`ByeEnds`, `EveryRequestReported`, `HangUpEnds`, `HangUpSilences`, `ReceiverEnds`,
`RegisteringEnds`):
fairness and ENABLED are outside this prover. Every safety property and action property of
a passing run is proved.

## 6. Not modelled, and the plan

Done so far: the dialog, both client transactions' threads, the user agent, the media,
the floor, the registration.

Next, in this order:

1. `AuthDialog`: the retry of a challenged INVITE in `ExtendedInviteDialog`, on the
   handlers of `InviteDialog`, through the plain `TransactionClient` it uses.
2. `Provider`: listeners by transaction, dialog, method and `ANY`, the connection
   table with its limit, the fan-out of PUBLISH.
3. The threads inside `InviteTransactionServer` and `AckTransactionServer`.

Left out for good: TCP framing and sockets (I/O), parsing and digests (text), SDP
text, signal processing and codecs (numeric, native code), screens and settings
(platform calls), the chat wrappers, keep-alive (no state anybody reads).
`VideoMBCPProcess` has the two threads and the shared header of `AudioMBCPProcess`, on
another port, and the calls that would start and stop the video are commented out: the
model of the one would be the model of the other.
