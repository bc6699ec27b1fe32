----------------------------- MODULE UserAgent ------------------------------
(***************************************************************************)
(* The UserAgent of the phone's one line (org.sipdroid.sipua), with its    *)
(* ExtendedCalls, the InviteDialog inside each of them, and what           *)
(* Receiver.onState does at a change of the call state.                    *)
(*                                                                         *)
(* A handler is one action.  The dialogs move by the steps of DialogSteps; *)
(* each of those calls the Call's listener, this user agent, in the same   *)
(* step.  The threads that the screens start for a key that was pressed    *)
(* are a step of their own: anything may happen before they run.           *)
(*                                                                         *)
(* Session descriptions are abstracted to the three ways in which          *)
(* launchMediaApplication can end.                                         *)
(***************************************************************************)
EXTENDS Integers, DialogSteps

CONSTANT MaxCalls    \* bound: the Calls that are alive at one time

VARIABLES
  ua,          \* the UserAgent and its Calls
  threads      \* the screens' threads that have not run yet

vars == <<ua, threads>>

-----------------------------------------------------------------------------
ASSUME CallsAssumption == MaxCalls \in Nat \ {0}

Call == 1 .. MaxCalls
CallOrNull == 0 .. MaxCalls          \* 0 is null

\* "INIT" marks a Call that does not exist.
Status == InSession \cup {"INIT", "WAITING", "INVITING", "INVITED", "REFUSED", "CLOSE"}

UserAgent ==
  [call_state    : {"IDLE", "INCOMING", "OUTGOING", "INCALL", "HOLD"},
   call          : CallOrNull,
   call_transfer : CallOrNull,
   dialog        : [Call -> Status],   \* dialog[c], the status of c's dialog
   listening     : CallOrNull,         \* whose invite_ts listens for INVITEs
   audio_app     : BOOLEAN]            \* whether audio_app is not null

TypeOK ==
  /\ ua \in UserAgent
  /\ threads \in SUBSET {"answer", "reject"}

\* StartEngine has called listen().
Init ==
  /\ ua = [call_state |-> "IDLE", call |-> 1, call_transfer |-> 0,
           dialog |-> [c \in Call |-> IF c = 1 THEN "WAITING" ELSE "INIT"],
           listening |-> 1, audio_app |-> FALSE]
  /\ threads = {}

-----------------------------------------------------------------------------
(* Parts of handlers: each takes the state of the UserAgent to its next.   *)

IsCurrent(u, c) == c = u.call
IsCurrentOrTransfer(u, c) == c \in {u.call, u.call_transfer}

\* A Call that nothing refers to and that no message can reach is garbage.
Collected(u) ==
  LET garbage == {c \in Call : /\ u.dialog[c] \in {"WAITING", "CLOSE"}
                               /\ c \notin {u.call, u.call_transfer, u.listening}}
  IN [u EXCEPT !.dialog = [c \in Call |-> IF c \in garbage THEN "INIT" ELSE @[c]]]

Free(u) == {c \in Call : u.dialog[c] = "INIT"}
NewCall(u) == CHOOSE c \in Free(u) : TRUE

\* The bound as a guard: a handler makes at most one Call.
HasRoom == Free(ua) # {}

CloseMediaApplication(u) == [u EXCEPT !.audio_app = FALSE]

\* Call.hangup(): cancel() ends the listening of a dialog in D_WAITING.
CallHungUp(u) ==
  [u EXCEPT !.dialog[u.call] = HungUp(@),
            !.listening = IF u.dialog[u.call] = "WAITING" THEN 0 ELSE @]

\* (Seeded fault.)  The media are left to the caller.
NewListeningKeepsMedia(u) ==
  LET v == Collected([CallHungUp(u) EXCEPT !.call = 0])
      c == NewCall(v)
  IN [v EXCEPT !.call = c, !.dialog[c] = "WAITING", !.listening = c]

\* A new Call listens; the Call before it may be garbage by then.
NewListening(u) ==
  LET v == Collected([CallHungUp(CloseMediaApplication(u)) EXCEPT !.call = 0])
      c == NewCall(v)
  IN [v EXCEPT !.call = c, !.dialog[c] = "WAITING", !.listening = c]

\* UserAgent.listen().  Its hangup() finds the state idle already.
Listen(u) == IF u.call_state # "IDLE" THEN u ELSE NewListening(u)

\* changeStatus(UA_STATE_IDLE): Receiver.onState listens again, if the state
\* changed.
ToIdle(u) ==
  IF u.call_state = "IDLE" THEN u ELSE Listen([u EXCEPT !.call_state = "IDLE"])

\* (Seeded fault.)  The state goes to idle first.
HangUpIdleFirst(u) == CallHungUp(CloseMediaApplication(ToIdle(u)))

\* UserAgent.hangup()
HangUp(u) == ToIdle(CallHungUp(CloseMediaApplication(u)))

\* launchMediaApplication() in a handler of the Call c, which uses the session
\* descriptions of the current Call: the local one may have no codec, the
\* remote one may be missing (an exception ends the handler) or have no audio.
Launched(u, c) ==
  LET described == /\ u.dialog[u.call] # "WAITING"
                   /\ u.dialog[u.call] = "INVITING" => IsCurrent(u, c)
  IN IF u.audio_app THEN {u}
     ELSE {u, HangUp(u)} \cup
          (IF described THEN {[u EXCEPT !.audio_app = TRUE]} ELSE {})

-----------------------------------------------------------------------------
(* The user.                                                               *)

\* (Seeded fault.)  The Call that listens is not hung up.
CallingBesideListening(u) ==
  LET v == Collected([u EXCEPT !.call = 0])
      c == NewCall(v)
  IN [v EXCEPT !.call_state = "OUTGOING", !.call = c, !.dialog[c] = "INVITING"]

\* UserAgent.call(): changeStatus(UA_STATE_OUTGOING_CALL) comes before the
\* new Call.
Calling(u) ==
  LET v == Collected([HangUp(u) EXCEPT !.call = 0])
      c == NewCall(v)
  IN [v EXCEPT !.call_state = "OUTGOING", !.call = c, !.dialog[c] = "INVITING"]

PlaceCall ==
  /\ HasRoom
  /\ ua.call_state = "IDLE"
  /\ ua' = Calling(ua)
  /\ UNCHANGED threads

\* A key starts a thread that will call answercall() or rejectcall().
PressAnswer ==
  /\ ua.call_state = "INCOMING"
  /\ threads' = threads \cup {"answer"}
  /\ UNCHANGED ua

PressReject ==
  /\ ua.call_state # "IDLE"
  /\ threads' = threads \cup {"reject"}
  /\ UNCHANGED ua

\* UserAgent.accept()
Accepting(u) == [u EXCEPT !.call_state = "INCALL", !.dialog[u.call] = Accepted(@)]

AnswerCall ==
  /\ "answer" \in threads
  /\ ua' = Accepting(ua)
  /\ threads' = threads \ {"answer"}

RejectCall ==
  /\ HasRoom
  /\ "reject" \in threads
  /\ ua' = Collected(HangUp(ua))
  /\ threads' = threads \ {"reject"}

\* runReInvite(): isOnCall() is D_CALL.
ToggleHold ==
  /\ ua.dialog[ua.call] = "CALL"
  /\ ua' = [ua EXCEPT !.dialog[ua.call] = Modified(@)]
  /\ UNCHANGED threads

\* The media's own threads end a call whose media fail: no packet comes, or
\* the microphone cannot be opened.
MediaFails ==
  /\ HasRoom
  /\ ua.audio_app
  /\ ua' = Collected(HangUp(ua))
  /\ UNCHANGED threads

-----------------------------------------------------------------------------
(* The callbacks: what each makes of u, once the dialog of c has moved; a  *)
(* set where the network or a session description decides.                 *)

\* Receiver.isFast is asked for the network; the offer may have no codec.
OnCallIncoming(u, c) ==
  LET busy    == Listen([u EXCEPT !.dialog[c] = HungUp(@)])
      ringing == [u EXCEPT !.call_state = "INCOMING"]
  IN IF ~IsCurrent(u, c) THEN {u}
     ELSE IF u.call_state # "IDLE" THEN {busy}
     ELSE {busy, ToIdle(ringing)} \cup Launched(ringing, c)

OnCallModifying(u, c) ==
  {IF IsCurrent(u, c) THEN [u EXCEPT !.dialog[c] = Accepted(@)] ELSE u}

\* With a session description or without one.
OnCallRinging(u, c) ==
  IF IsCurrentOrTransfer(u, c) THEN Launched(u, c) ELSE {u}

OnCallAccepted(u, c) ==
  IF ~IsCurrentOrTransfer(u, c) THEN {u}
  ELSE IF u.call_state # "OUTGOING" THEN {HangUp(u)}
  ELSE Launched([u EXCEPT !.call_state = "INCALL"], c)

\* (Seeded fault.)  The state is the one of the screen, Call.State.ACTIVE.
OnCallReInviteAcceptedActive(u, c) ==
  {IF IsCurrent(u, c) THEN [u EXCEPT !.call_state = "ACTIVE"] ELSE u}

OnCallReInviteAccepted(u, c) ==
  LET next == IF u.call_state = "HOLD" THEN "INCALL" ELSE "HOLD"
  IN {IF IsCurrent(u, c) THEN [u EXCEPT !.call_state = next] ELSE u}

\* (Seeded fault.)  The state does not change.
OnCallEndedSilently(u, c) == {u}

\* onCallRefused, onCallCanceling, onCallClosed, onCallTimeout.  The first and
\* the last look for call_transfer only after they have left the current Call.
OnCallEnded(u, c) == {IF IsCurrent(u, c) THEN ToIdle(u) ELSE u}

\* The Call invites the first contact through a new dialog.
OnCallRedirection(u, c) ==
  {IF IsCurrent(u, c) THEN [u EXCEPT !.dialog[c] = "INVITING"] ELSE u}

OnCallClosing(u, c) ==
  IF ~IsCurrentOrTransfer(u, c) THEN {u}
  ELSE IF c # u.call_transfer /\ u.call_transfer # 0
  THEN {[u EXCEPT !.call = u.call_transfer, !.call_transfer = 0]}
  ELSE {ToIdle(CloseMediaApplication(u))}

\* REFER: the user agent invites the new party beside the current Call.
OnCallTransfer(u, c) ==
  LET d == NewCall(u)
  IN IF IsCurrent(u, c)
     THEN [u EXCEPT !.call_transfer = d, !.dialog[d] = "INVITING"]
     ELSE u

OnCallTransferSuccess(u, c) == IF IsCurrent(u, c) THEN CallHungUp(u) ELSE u

-----------------------------------------------------------------------------
(* The network and the timers.                                             *)

Outcomes(u, c, event) ==
  CASE event = "onDlgInvite"   -> OnCallIncoming(u, c)
    [] event = "onDlgReInvite" -> OnCallModifying(u, c)
    [] event = "onDlgInviteSuccessResponse"   -> OnCallAccepted(u, c)
    [] event = "onDlgInviteRedirectResponse"  -> OnCallRedirection(u, c)
    [] event = "onDlgReInviteSuccessResponse" -> OnCallReInviteAccepted(u, c)
    [] event = "onDlgBye" -> OnCallClosing(u, c)
    [] event \in {"onDlgInviteFailureResponse", "onDlgTimeout", "onDlgCancel",
                  "onDlgByeSuccessResponse", "onDlgByeFailureResponse"} ->
         OnCallEnded(u, c)
    [] OTHER -> {u}

\* A dialog in D_WAITING is invited only while its invite_ts listens.
DialogMoves(c, event) ==
  \E step \in Steps[event] :
    /\ HasRoom
    /\ ua.dialog[c] = step[1]
    /\ step[1] = "WAITING" => ua.listening = c
    /\ LET moved == [ua EXCEPT !.dialog[c] = step[2],
                               !.listening = IF @ = c THEN 0 ELSE @]
       IN \E u \in Outcomes(moved, c, event) : ua' = Collected(u)
    /\ UNCHANGED threads

\* 180 or 183
Ringing(c) ==
  /\ HasRoom
  /\ ua.dialog[c] = "INVITING"
  /\ \E u \in OnCallRinging(ua, c) : ua' = Collected(u)
  /\ UNCHANGED threads

\* REFER, and the NOTIFY of a transfer that succeeded, in whatever status the
\* dialog is.
Referred(c) ==
  /\ HasRoom
  /\ ua.dialog[c] \in InSession
  /\ ua' = Collected(OnCallTransfer(ua, c))
  /\ UNCHANGED threads

Notified(c) ==
  /\ ua.dialog[c] \in InSession
  /\ ua' = OnCallTransferSuccess(ua, c)
  /\ UNCHANGED threads

-----------------------------------------------------------------------------
User ==
  PlaceCall \/ PressAnswer \/ PressReject \/ AnswerCall \/ RejectCall \/ ToggleHold

Network ==
  \E c \in Call :
    \/ \E event \in DOMAIN Steps : DialogMoves(c, event)
    \/ Ringing(c)
    \/ Referred(c)
    \/ Notified(c)

Next == User \/ MediaFails \/ Network

Spec == Init /\ [][Next]_vars

-----------------------------------------------------------------------------
(* Safety.                                                                 *)

\* No media run while the phone is idle, by whatever way the call ended: only
\* hangup() and a BYE close the media themselves, a CANCEL, a refusal and a
\* time-out rely on Receiver.onState listening again.
IdleIsSilent == ua.call_state = "IDLE" => ~ua.audio_app

\* The screen shows what the current Call's dialog is in: it rings exactly
\* while there is an INVITE to answer, and shows a call while there is one.
ScreenShowsDialog ==
  LET st == ua.dialog[ua.call]
  IN /\ ua.call_state = "INCOMING" <=> st = "INVITED"
     /\ ua.call_state = "OUTGOING" => st = "INVITING"
     /\ ua.call_state = "IDLE" => st = "WAITING"
     /\ st \in InSession => ua.call_state \in {"INCALL", "HOLD"}

\* An INVITE finds only the current Call, which will not ignore it.
HearsCurrentOnly == ua.listening \in {0, ua.call}

\* Every way back to idle ends with the phone listening.
ReturnsListening ==
  [][ua.call_state # "IDLE" /\ ua'.call_state = "IDLE" =>
       ua'.listening = ua'.call]_vars

-----------------------------------------------------------------------------
(* What the comments of the code say and the code does not do.             *)

\* "Waits for an incoming call" (UserAgent.listen): the idle phone listens.
IdleListens == ua.call_state = "IDLE" => ua.listening = ua.call

\* "Closes an ongoing or incoming/outgoing call" (Call.hangup): no call that
\* was accepted here goes on when it is neither the current Call nor its
\* transfer.
NoSessionLeftBehind ==
  \A c \in Call : ua.dialog[c] = "ACCEPTED" => IsCurrentOrTransfer(ua, c)

=============================================================================
