------------------------------- MODULE Media --------------------------------
(***************************************************************************)
(* The media of the phone's calls (org.sipdroid.media, and the part of     *)
(* UserAgent that launches and closes them), with the threads that enter   *)
(* them: the screen's, the one of the SipProvider, the one that receives   *)
(* the MBCP messages of the floor, and a sender and a receiver thread for  *)
(* each JAudioLauncher.                                                    *)
(*                                                                         *)
(* Only changeStatus() is synchronized.  A step is an access to a field    *)
(* that another thread also uses.  A thread that calls through a field     *)
(* which is null by then abandons its handler.                             *)
(***************************************************************************)
EXTENDS Integers

CONSTANTS
  MaxMedia,          \* bound: the JAudioLaunchers that are made
  RecvOnly           \* those made while user_profile.recv_only is set

VARIABLES
  call_state,        \* of the UserAgent: "HOLD" is left out
  audio_app,         \* UserAgent.audio_app, 0 is null
  ptt,               \* Presence.mIsPttService
  media,             \* media[k], a JAudioLauncher with its threads
  isSending,         \* RtpStreamSender.isSending, one for all senders
  thread             \* the threads that hang up, place and accept calls

vars == <<call_state, audio_app, ptt, media, isSending, thread>>

-----------------------------------------------------------------------------
Launcher == 1 .. MaxMedia

ASSUME MediaAssumption ==
  /\ MaxMedia \in Nat \ {0}
  /\ RecvOnly \subseteq Launcher

LauncherOrNull == 0 .. MaxMedia

\* "phone" is the thread that hangs up for this side, of the screen or of a
\* sender or receiver that fails: one at a time.
Thread == {"phone", "provider"}
Part == {"sender", "receiver"}

\* held: the JAudioLauncher's field is not null.  The thread has running set
\* when it is "running", and when it has "failed" and ended.
Stream ==
  [held : BOOLEAN,
   at   : {"new", "started", "running", "halted", "failed", "ended"}]

JAudioLauncher ==
  [stream : [Part -> Stream],
   socket : {"none", "open", "closed"}]     \* "none": not made yet

\* "reading" to "clearing" are the lines of closeMediaApplication().
Place == {"rest", "closing", "reading", "testing", "halting", "unbinding",
          "clearing", "idling", "dialing", "ringing", "answering", "accepting",
          "launching", "making", "starting"}

\* nested: in the listen() of Receiver.onState, with the lock of changeStatus().
\* placing: in call().
TypeOK ==
  /\ call_state \in {"IDLE", "INCOMING", "OUTGOING", "INCALL"}
  /\ audio_app \in LauncherOrNull
  /\ ptt \in BOOLEAN
  /\ media \in [Launcher -> JAudioLauncher]
  /\ isSending \in BOOLEAN
  /\ thread \in [Thread -> [at : Place, app : LauncherOrNull, part : Part,
                            nested : BOOLEAN, placing : BOOLEAN]]

NewStream == [held |-> FALSE, at |-> "new"]
AtRest == [at |-> "rest", app |-> 0, part |-> "sender",
           nested |-> FALSE, placing |-> FALSE]

Init ==
  /\ call_state = "IDLE"
  /\ audio_app = 0
  /\ media = [k \in Launcher |-> [stream |-> [p \in Part |-> NewStream],
                                  socket |-> "none"]]
  /\ ptt \in BOOLEAN
  /\ isSending = TRUE
  /\ thread = [t \in Thread |-> AtRest]

-----------------------------------------------------------------------------
(* Helpers.                                                                *)

Rests(t) == thread[t].at = "rest"
Moves(t, at) == thread' = [thread EXCEPT ![t].at = at]
Returns(t) == thread' = [thread EXCEPT ![t] = AtRest]

Unlaunched == {k \in Launcher : media[k].socket = "none"}
NextLauncher == CHOOSE k \in Unlaunched : TRUE

\* A new socket cannot be bound to the media port while another is.
PortFree == \A k \in Launcher : media[k].socket # "open"

\* No other thread is in changeStatus().
Unlocked(t) == \A u \in Thread \ {t} : ~thread[u].nested

\* The Call of a call that ends is the current one until listen() replaces it.
CallInUse == call_state # "IDLE" \/ \E t \in Thread : thread[t].nested

-----------------------------------------------------------------------------
(* What begins the end of a call, or a call.                               *)

\* UserAgent.hangup(), of the end key.
PressEnd ==
  /\ Rests("phone")
  /\ call_state # "IDLE"
  /\ Moves("phone", "closing")
  /\ UNCHANGED <<call_state, audio_app, ptt, media, isSending>>

\* onCallClosing, and the hangup() of an onCallAccepted that comes too late.
\* onCallCanceling, onCallRefused, onCallTimeout and onCallClosed leave the
\* media to Receiver.onState.
ReceiveEnd ==
  /\ Rests("provider")
  /\ CallInUse
  /\ Moves("provider", "closing") \/ Moves("provider", "idling")
  /\ UNCHANGED <<call_state, audio_app, ptt, media, isSending>>

\* UserAgent.call() begins with hangup().
PlaceCall ==
  /\ Rests("phone")
  /\ call_state = "IDLE"
  /\ thread' = [thread EXCEPT !["phone"].at = "closing", !["phone"].placing = TRUE]
  /\ UNCHANGED <<call_state, audio_app, ptt, media, isSending>>

\* PresenceAgent: "Fire On" of a buddy makes the next call one with a floor; then
\* it places one (PlaceCall, although in this thread).
FireOn ==
  /\ Rests("provider")
  /\ ~ptt
  /\ ptt' = TRUE
  /\ UNCHANGED <<call_state, audio_app, media, isSending, thread>>

-----------------------------------------------------------------------------
(* closeMediaApplication(), with JAudioLauncher.stopMedia(), and the change *)
(* to UA_STATE_IDLE after it.                                              *)

\* if (audio_app != null)
TestMedia(t) ==
  /\ thread[t].at = "closing"
  /\ Moves(t, IF audio_app = 0 THEN "idling" ELSE "reading")
  /\ UNCHANGED <<call_state, audio_app, ptt, media, isSending>>

\* (Seeded fault.)  audio_app = null; audio_app.stopMedia()
DropThenStop(t) ==
  /\ thread[t].at = "reading"
  /\ audio_app' = 0
  /\ Returns(t)
  /\ UNCHANGED <<call_state, ptt, media, isSending>>

\* audio_app.stopMedia()
StopMedia(t) ==
  /\ thread[t].at = "reading"
  /\ IF audio_app = 0
     THEN Returns(t)
     ELSE thread' = [thread EXCEPT ![t].at = "testing", ![t].app = audio_app,
                                   ![t].part = "sender"]
  /\ UNCHANGED <<call_state, audio_app, ptt, media, isSending>>

\* Where stopMedia() goes after the part.
AfterPart(t) ==
  IF thread[t].part = "sender"
  THEN thread' = [thread EXCEPT ![t].at = "testing", ![t].part = "receiver"]
  ELSE Moves(t, "unbinding")

\* if (sender != null)
TestPart(t) ==
  /\ thread[t].at = "testing"
  /\ IF media[thread[t].app].stream[thread[t].part].held
     THEN Moves(t, "halting")
     ELSE AfterPart(t)
  /\ UNCHANGED <<call_state, audio_app, ptt, media, isSending>>

\* (Seeded fault.)  sender = null; sender.halt()
DropThenHalt(t) ==
  /\ thread[t].at = "halting"
  /\ media' = [media EXCEPT ![thread[t].app].stream[thread[t].part].held = FALSE]
  /\ Returns(t)
  /\ UNCHANGED <<call_state, audio_app, ptt, isSending>>

\* running = false: run() may yet set it.
Halted(at) ==
  IF at = "running" THEN "halted" ELSE IF at = "failed" THEN "ended" ELSE at

\* sender.halt(); sender = null
HaltPart(t) ==
  /\ thread[t].at = "halting"
  /\ LET k == thread[t].app
         p == thread[t].part
     IN IF media[k].stream[p].held
        THEN /\ media' = [media EXCEPT ![k].stream[p] =
                            [held |-> FALSE, at |-> Halted(@.at)]]
             /\ AfterPart(t)
        ELSE /\ Returns(t)
             /\ UNCHANGED media
  /\ UNCHANGED <<call_state, audio_app, ptt, isSending>>

\* (Seeded fault.)  The socket is left to RtpSocket.close(), which does nothing.
CloseSocketNowhere(t) ==
  /\ thread[t].at = "unbinding"
  /\ Moves(t, "clearing")
  /\ UNCHANGED <<call_state, audio_app, ptt, media, isSending>>

\* socket.close()
CloseSocket(t) ==
  /\ thread[t].at = "unbinding"
  /\ media' = [media EXCEPT ![thread[t].app].socket = "closed"]
  /\ Moves(t, "clearing")
  /\ UNCHANGED <<call_state, audio_app, ptt, isSending>>

\* audio_app = null, whatever it has become.
ClearMedia(t) ==
  /\ thread[t].at = "clearing"
  /\ audio_app' = 0
  /\ thread' = [thread EXCEPT ![t].at = "idling", ![t].app = 0, ![t].part = "sender"]
  /\ UNCHANGED <<call_state, ptt, media, isSending>>

\* changeStatus(UA_STATE_IDLE): a change makes Receiver.onState listen, which
\* hangs up once more before it makes a new Call listen.
ChangeToIdle(t) ==
  /\ thread[t].at = "idling"
  /\ Unlocked(t)
  /\ call_state' = "IDLE"
  /\ IF call_state # "IDLE"
     THEN thread' = [thread EXCEPT ![t].at = "closing", ![t].nested = TRUE]
     ELSE IF thread[t].placing
     THEN thread' = [thread EXCEPT ![t].at = "dialing", ![t].nested = FALSE]
     ELSE Returns(t)
  /\ UNCHANGED <<audio_app, ptt, media, isSending>>

\* call() goes on.
ChangeToOutgoing(t) ==
  /\ thread[t].at = "dialing"
  /\ Unlocked(t)
  /\ call_state' = "OUTGOING"
  /\ Returns(t)
  /\ UNCHANGED <<audio_app, ptt, media, isSending>>

-----------------------------------------------------------------------------
(* onCallIncoming, accept(), onCallRinging, onCallAccepted and             *)
(* launchMediaApplication.                                                 *)

Receives(at) ==
  /\ Rests("provider")
  /\ Unlaunched # {}
  /\ Moves("provider", at)
  /\ UNCHANGED <<call_state, audio_app, ptt, media, isSending>>

ReceiveInvite == ~CallInUse /\ Receives("ringing")

\* With a session description: early media.
ReceiveRinging == call_state = "OUTGOING" /\ Receives("launching")

ReceiveAccepted == call_state = "OUTGOING" /\ Receives("accepting")

\* Receiver.onState: an incoming call is one without a floor.
ChangeToIncoming ==
  /\ thread["provider"].at = "ringing"
  /\ Unlocked("provider")
  /\ call_state' = "INCOMING"
  /\ ptt' = FALSE
  /\ Moves("provider", "launching")
  /\ UNCHANGED <<audio_app, media, isSending>>

\* InCallScreen.answer(): accept() runs in a thread of its own.
AnswerCall ==
  /\ Rests("phone")
  /\ call_state = "INCOMING"
  /\ Moves("phone", "answering")
  /\ UNCHANGED <<call_state, audio_app, ptt, media, isSending>>

\* (Seeded fault.)  The state is the one of the screen, Call.State.ACTIVE.
ChangeToActive(t) ==
  /\ thread[t].at \in {"accepting", "answering"}
  /\ Unlocked(t)
  /\ call_state' = "ACTIVE"
  /\ IF thread[t].at = "accepting" THEN Moves(t, "launching") ELSE Returns(t)
  /\ UNCHANGED <<audio_app, ptt, media, isSending>>

\* Only the caller launches media here: the callee did when it rang.
ChangeToInCall(t) ==
  /\ thread[t].at \in {"accepting", "answering"}
  /\ Unlocked(t)
  /\ call_state' = "INCALL"
  /\ IF thread[t].at = "accepting" THEN Moves(t, "launching") ELSE Returns(t)
  /\ UNCHANGED <<audio_app, ptt, media, isSending>>

LaunchMedia ==
  /\ thread["provider"].at = "launching"
  /\ IF audio_app = 0 THEN Moves("provider", "making") ELSE Returns("provider")
  /\ UNCHANGED <<call_state, audio_app, ptt, media, isSending>>

\* The constructor: when its socket cannot be bound, an exception that it
\* catches leaves it without sender and receiver.
MakeMedia ==
  /\ thread["provider"].at = "making"
  /\ LET wanted == IF NextLauncher \in RecvOnly THEN {"receiver"} ELSE Part
         makes(p) == PortFree /\ p \in wanted
     IN media' = [media EXCEPT ![NextLauncher] =
          [stream |-> [p \in Part |-> [NewStream EXCEPT !.held = makes(p)]],
           socket |-> IF PortFree THEN "open" ELSE "closed"]]
  /\ audio_app' = NextLauncher
  /\ Moves("provider", "starting")
  /\ UNCHANGED <<call_state, ptt, isSending>>

\* startReceiveMedia() in a call with a floor, startMedia() in another.
StartMedia ==
  /\ thread["provider"].at = "starting"
  /\ IF audio_app = 0
     THEN UNCHANGED media
     ELSE LET wanted == IF ptt THEN {"receiver"} ELSE Part
              starts(p) == p \in wanted /\ media[audio_app].stream[p].held
          IN media' = [media EXCEPT ![audio_app].stream =
                         [p \in Part |-> IF starts(p) THEN [@[p] EXCEPT !.at = "started"]
                                         ELSE @[p]]]
  /\ Returns("provider")
  /\ UNCHANGED <<call_state, audio_app, ptt, isSending>>

-----------------------------------------------------------------------------
(* The threads of RtpStreamSender and RtpStreamReceiver.                   *)

Becomes(k, p, at) == media' = [media EXCEPT ![k].stream[p].at = at]
InLoop(k, p) == media[k].stream[p].at \in {"running", "halted"}

\* run() up to its loop: running = true
RunBegins(k, p) ==
  /\ media[k].stream[p].at = "started"
  /\ Becomes(k, p, "running")
  /\ UNCHANGED <<call_state, audio_app, ptt, isSending, thread>>

\* while (running)
RunEnds(k, p) ==
  /\ media[k].stream[p].at = "halted"
  /\ Becomes(k, p, "ended")
  /\ UNCHANGED <<call_state, audio_app, ptt, isSending, thread>>

\* rejectcall(), then break.
HangsUp == Rests("phone") /\ Moves("phone", "closing")

\* The AudioRecord cannot be made: running stays what it is.
MicrophoneFails(k) ==
  /\ InLoop(k, "sender")
  /\ HangsUp
  /\ Becomes(k, "sender",
             IF media[k].stream["sender"].at = "running" THEN "failed" ELSE "ended")
  /\ UNCHANGED <<call_state, audio_app, ptt, isSending>>

\* (Seeded fault.)  Without the break, a PTT call's receiver counts from one again.
ReceiverCountsAgain(k) ==
  /\ InLoop(k, "receiver")
  /\ ~ptt
  /\ HangsUp
  /\ Becomes(k, "receiver", "ended")
  /\ UNCHANGED <<call_state, audio_app, ptt, isSending>>

\* Sixty time-outs in a row, or sixty exceptions once the socket is closed.
ReceiverTimesOut(k) ==
  /\ InLoop(k, "receiver")
  /\ IF ptt THEN UNCHANGED thread ELSE HangsUp
  /\ Becomes(k, "receiver", "ended")
  /\ UNCHANGED <<call_state, audio_app, ptt, isSending>>

-----------------------------------------------------------------------------
(* The thread of AudioMBCPProcess, once it has parsed a message.  Each      *)
(* handler is one step: a hang-up in the middle of it only makes it throw,  *)
(* which it catches, as when the hang-up comes before.                      *)

\* audio_app has a sender, for a message of the floor.
HasSender == ptt /\ audio_app # 0 /\ media[audio_app].stream["sender"].held
SenderIsRunning == media[audio_app].stream["sender"].at \in {"running", "failed"}

\* MBCP_BURST_GRANTED: audio_app.startSendMedia().  sender.start() throws when
\* the thread was started before.
Granted ==
  /\ HasSender
  /\ IF ~isSending /\ SenderIsRunning
     THEN isSending' = TRUE /\ UNCHANGED media
     ELSE /\ media' = [media EXCEPT ![audio_app].stream["sender"].at =
                         IF @ = "new" THEN "started" ELSE @]
          /\ UNCHANGED isSending
  /\ UNCHANGED <<call_state, audio_app, ptt, thread>>

\* Any other message but MBCP_CONNECT: audio_app.stopSendMedia()
Taken ==
  /\ HasSender
  /\ SenderIsRunning
  /\ isSending' = FALSE
  /\ UNCHANGED <<call_state, audio_app, ptt, media, thread>>

-----------------------------------------------------------------------------
CloseSteps(t) ==
  \/ TestMedia(t) \/ StopMedia(t) \/ TestPart(t) \/ HaltPart(t)
  \/ CloseSocket(t) \/ ClearMedia(t)
  \/ ChangeToIdle(t) \/ ChangeToOutgoing(t) \/ ChangeToInCall(t)

LaunchSteps == ChangeToIncoming \/ LaunchMedia \/ MakeMedia \/ StartMedia

StreamSteps(k) ==
  \/ \E p \in Part : RunBegins(k, p) \/ RunEnds(k, p)
  \/ MicrophoneFails(k)
  \/ ReceiverTimesOut(k)

Burst == Granted \/ Taken

Next ==
  \/ PressEnd \/ ReceiveEnd \/ PlaceCall \/ FireOn \/ AnswerCall
  \/ ReceiveInvite \/ ReceiveRinging \/ ReceiveAccepted
  \/ \E t \in Thread : CloseSteps(t)
  \/ LaunchSteps
  \/ \E k \in Launcher : StreamSteps(k)
  \/ Burst

Spec == Init /\ [][Next]_vars

\* A runnable thread runs; a closed socket makes every receive() throw, and the
\* receiver that hangs up then does so in a thread of its own, which only the
\* model lets wait for "phone".  No message, failure or key press has to come.
Fairness ==
  /\ \A t \in Thread : WF_vars(CloseSteps(t))
  /\ WF_vars(LaunchSteps)
  /\ \A k \in Launcher, p \in Part :
       WF_vars(RunBegins(k, p) \/ RunEnds(k, p))
  /\ \A k \in Launcher : SF_vars(media[k].socket = "closed" /\ ReceiverTimesOut(k))

FairSpec == Spec /\ Fairness

-----------------------------------------------------------------------------
(* Safety.                                                                 *)

\* A JAudioLauncher whose socket is open stays the one of audio_app, where the
\* next hang-up finds it, through closings by two threads that throw each other
\* out.  Only the last line of closeMediaApplication() can erase it, run by a
\* thread that has closed the one of an earlier call.
LauncherKept ==
  [][\A k \in Launcher :
       media[k].socket = "open" /\ audio_app = k /\ audio_app' # k
         => \E t \in Thread : thread[t].at = "clearing" /\ thread[t].app # k]_vars

(* Liveness.                                                               *)

\* Hanging up makes the phone idle, even when the thread is thrown out between
\* its test of audio_app and the end of stopMedia(): the one that closes the
\* media at the same time goes on.
HangUpEnds ==
  (\E t \in Thread : thread[t].at = "closing" /\ ~thread[t].placing)
    ~> call_state = "IDLE"

\* Hanging up a call that has media closes their socket, even when two threads
\* hang up at one time and one of them is thrown out.
HangUpSilences ==
  \A k \in Launcher :
    (\E t \in Thread : thread[t].at = "testing" /\ thread[t].app = k)
      ~> media[k].socket = "closed"

\* The receiver of a call that is over ends, although halt() may come before
\* its run() sets running.
ReceiverEnds ==
  \A k \in Launcher :
    media[k].socket = "closed"
      ~> media[k].stream["receiver"].at \in {"new", "ended"}

-----------------------------------------------------------------------------
(* What the comments of the code say and the code does not do.             *)

\* "Starts Send media application" (JAudioLauncher.startSendMedia): a grant of
\* the floor to a call that has a sender makes the senders send.
GrantSends ==
  [][Granted => isSending']_vars

=============================================================================
