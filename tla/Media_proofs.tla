---------------------------- MODULE Media_proofs ----------------------------
(***************************************************************************)
(* What keeps the JAudioLauncher of a call in audio_app, for any number of *)
(* JAudioLaunchers.                                                        *)
(*                                                                         *)
(* The two threads of closeMediaApplication() hold the JAudioLauncher they *)
(* read from audio_app, which may be another one by now: a thread before   *)
(* the last line has closed the socket of the one it holds, whatever the   *)
(* other thread did.  Only closing and making a socket and that last line  *)
(* touch a socket or audio_app; every other step changes at most where one *)
(* thread is.                                                              *)
(***************************************************************************)
EXTENDS Media, TLAPS

\* t is inside stopMedia().
Stopping(t) == thread[t].at \in {"testing", "halting", "unbinding"}
Clearing(t) == thread[t].at = "clearing"

\* What t closes was made, and is closed before audio_app = null.
StopInv(t) ==
  /\ Stopping(t) => /\ thread[t].app \in Launcher
                    /\ media[thread[t].app].socket # "none"
  /\ Clearing(t) => /\ thread[t].app \in Launcher
                    /\ media[thread[t].app].socket = "closed"

AppInv == audio_app # 0 => media[audio_app].socket # "none"

Launching == thread["provider"].at \in {"ringing", "accepting", "launching", "making"}

\* Nothing but launchMediaApplication() puts a JAudioLauncher into audio_app.
LaunchInv ==
  /\ Launching => Unlaunched # {}
  /\ thread["provider"].at = "making" => audio_app = 0

\* Only the SipProvider's thread launches media.
PhoneInv ==
  thread["phone"].at \notin {"ringing", "accepting", "launching", "making", "starting"}

IInv ==
  /\ TypeOK
  /\ \A t \in Thread : StopInv(t)
  /\ AppInv
  /\ LaunchInv
  /\ PhoneInv

-----------------------------------------------------------------------------
(* Types.                                                                  *)

ThreadRecord ==
  [at : Place, app : LauncherOrNull, part : Part, nested : BOOLEAN, placing : BOOLEAN]

\* A step of a stream's threads leaves the sockets as they are.
SameSockets == \A k \in Launcher : media'[k].socket = media[k].socket

\* A JAudioLauncher whose streams change is one, with the same socket.
LEMMA StreamsChange ==
  ASSUME NEW k \in Launcher, NEW s \in [Part -> Stream],
         media \in [Launcher -> JAudioLauncher],
         media' = [media EXCEPT ![k].stream = s]
  PROVE  media' \in [Launcher -> JAudioLauncher] /\ SameSockets
<1>1. [media[k] EXCEPT !.stream = s] \in JAudioLauncher
  BY DEF JAudioLauncher
<1>2. media' = [media EXCEPT ![k] = [media[k] EXCEPT !.stream = s]]
  OBVIOUS
<1>3. [media[k] EXCEPT !.stream = s].socket = media[k].socket
  BY DEF JAudioLauncher
<1> QED
  BY <1>1, <1>2, <1>3 DEF SameSockets

\* The same, for one of the two streams.
LEMMA StreamChanges ==
  ASSUME NEW k \in Launcher, NEW p \in Part, NEW s \in Stream,
         media \in [Launcher -> JAudioLauncher],
         media' = [media EXCEPT ![k].stream[p] = s]
  PROVE  media' \in [Launcher -> JAudioLauncher] /\ SameSockets
<1>1. media[k].stream \in [Part -> Stream]
  BY DEF JAudioLauncher
<1>2. [media[k].stream EXCEPT ![p] = s] \in [Part -> Stream]
  BY <1>1
<1>3. media' = [media EXCEPT ![k].stream = [media[k].stream EXCEPT ![p] = s]]
  OBVIOUS
<1> QED
  BY <1>2, <1>3, StreamsChange

\* RtpStreamSender.run() and RtpStreamReceiver.run(), and halt().
LEMMA StreamFields ==
  ASSUME NEW k \in Launcher, NEW p \in Part,
         media \in [Launcher -> JAudioLauncher]
  PROVE  /\ \A at \in {"new", "started", "running", "halted", "failed", "ended"} :
              Becomes(k, p, at) => media' \in [Launcher -> JAudioLauncher] /\ SameSockets
         /\ media' = [media EXCEPT ![k].stream[p] = [held |-> FALSE, at |-> Halted(@.at)]]
              => media' \in [Launcher -> JAudioLauncher] /\ SameSockets
<1> DEFINE s == media[k].stream[p]
<1>1. s \in Stream
  BY DEF JAudioLauncher
<1>2. ASSUME NEW at \in {"new", "started", "running", "halted", "failed", "ended"},
             Becomes(k, p, at)
      PROVE  media' \in [Launcher -> JAudioLauncher] /\ SameSockets
  <2>1. [s EXCEPT !.at = at] \in Stream
    BY <1>1 DEF Stream
  <2>2. media' = [media EXCEPT ![k].stream[p] = [s EXCEPT !.at = at]]
    BY <1>2 DEF Becomes
  <2> QED
    BY <2>1, <2>2, StreamChanges
<1>3. ASSUME media' = [media EXCEPT ![k].stream[p] = [held |-> FALSE, at |-> Halted(@.at)]]
      PROVE  media' \in [Launcher -> JAudioLauncher] /\ SameSockets
  <2> DEFINE r == [held |-> FALSE, at |-> Halted(s.at)]
  <2>1. r \in Stream
    BY <1>1 DEF Stream, Halted
  <2>2. media' = [media EXCEPT ![k].stream[p] = r]
    BY <1>3
  <2> HIDE DEF r
  <2> QED
    BY <2>1, <2>2, StreamChanges
<1> QED
  BY <1>2, <1>3

\* Where a thread is can change to any place, and it can return.
LEMMA ThreadMoves ==
  ASSUME NEW t \in Thread, thread \in [Thread -> ThreadRecord]
  PROVE  /\ \A at \in Place :
              Moves(t, at) => /\ thread' \in [Thread -> ThreadRecord]
                              /\ thread'[t].at = at
                              /\ thread'[t].app = thread[t].app
                              /\ \A s \in Thread \ {t} : thread'[s] = thread[s]
         /\ Returns(t) => /\ thread' \in [Thread -> ThreadRecord]
                          /\ thread'[t].at = "rest"
                          /\ \A s \in Thread \ {t} : thread'[s] = thread[s]
         /\ AfterPart(t) => /\ thread' \in [Thread -> ThreadRecord]
                            /\ thread'[t].at \in {"testing", "unbinding"}
                            /\ thread'[t].app = thread[t].app
                            /\ \A s \in Thread \ {t} : thread'[s] = thread[s]
<1>1. ASSUME NEW at \in Place, Moves(t, at)
      PROVE  /\ thread' \in [Thread -> ThreadRecord]
             /\ thread'[t].at = at
             /\ thread'[t].app = thread[t].app
             /\ \A s \in Thread \ {t} : thread'[s] = thread[s]
  <2>1. [thread[t] EXCEPT !.at = at] \in ThreadRecord
    BY DEF ThreadRecord
  <2>2. thread' = [thread EXCEPT ![t] = [thread[t] EXCEPT !.at = at]]
    BY <1>1 DEF Moves
  <2>3. thread[t] \in ThreadRecord
    OBVIOUS
  <2> QED
    BY <2>1, <2>2, <2>3 DEF ThreadRecord
<1>2. ASSUME Returns(t)
      PROVE  /\ thread' \in [Thread -> ThreadRecord]
             /\ thread'[t].at = "rest"
             /\ \A s \in Thread \ {t} : thread'[s] = thread[s]
  <2>1. AtRest \in ThreadRecord
    BY MediaAssumption DEF AtRest, ThreadRecord, LauncherOrNull, Part, Place
  <2> QED
    BY <1>2, <2>1 DEF Returns, AtRest
<1>3. ASSUME AfterPart(t)
      PROVE  /\ thread' \in [Thread -> ThreadRecord]
             /\ thread'[t].at \in {"testing", "unbinding"}
             /\ thread'[t].app = thread[t].app
             /\ \A s \in Thread \ {t} : thread'[s] = thread[s]
  <2>1. CASE thread' = [thread EXCEPT ![t].at = "testing", ![t].part = "receiver"]
    <3>1. [thread[t] EXCEPT !.at = "testing", !.part = "receiver"] \in ThreadRecord
      BY DEF ThreadRecord, Part, Place
    <3>2. thread' = [thread EXCEPT ![t] = [thread[t] EXCEPT !.at = "testing",
                                                            !.part = "receiver"]]
      BY <2>1 DEF ThreadRecord
    <3>3. thread[t] \in ThreadRecord
      OBVIOUS
    <3> QED
      BY <3>1, <3>2, <3>3 DEF ThreadRecord
  <2>2. CASE Moves(t, "unbinding")
    BY <1>1, <2>2 DEF Place
  <2> QED
    BY <1>3, <2>1, <2>2 DEF AfterPart
<1> QED
  BY <1>1, <1>2, <1>3

-----------------------------------------------------------------------------
(* A step that touches neither a socket nor audio_app.                     *)

\* Only t moves: into stopMedia() with the JAudioLauncher of audio_app, and to
\* the launch of a JAudioLauncher when audio_app is null.
LEMMA QuietStep ==
  ASSUME IInv, NEW t \in Thread,
         media' \in [Launcher -> JAudioLauncher], SameSockets,
         UNCHANGED audio_app,
         call_state' \in {"IDLE", "INCOMING", "OUTGOING", "INCALL"},
         ptt' \in BOOLEAN, isSending' \in BOOLEAN,
         thread' \in [Thread -> ThreadRecord],
         \A s \in Thread \ {t} : thread'[s] = thread[s],
         Stopping(t)' => \/ Stopping(t) /\ thread'[t].app = thread[t].app
                         \/ audio_app # 0 /\ thread'[t].app = audio_app,
         ~ Clearing(t)' \/ (Clearing(t) /\ thread'[t].app = thread[t].app),
         t = "phone" => PhoneInv',
         t = "provider" /\ Launching' => Launching \/ Unlaunched # {},
         t = "provider" /\ thread'["provider"].at = "making" => audio_app = 0
  PROVE  IInv'
<1>1. TypeOK'
  BY DEF IInv, TypeOK, ThreadRecord
<1>2. ASSUME NEW s \in Thread PROVE StopInv(s)'
  <2>1. audio_app \in Launcher \/ audio_app = 0
    BY MediaAssumption DEF IInv, TypeOK, Launcher, LauncherOrNull
  <2>2. CASE s = t
    <3>1. Stopping(t)' => /\ thread'[t].app \in Launcher
                          /\ media'[thread'[t].app].socket # "none"
      BY <2>1 DEF IInv, StopInv, AppInv, SameSockets
    <3>2. Clearing(t)' => /\ thread'[t].app \in Launcher
                          /\ media'[thread'[t].app].socket = "closed"
      BY DEF IInv, StopInv, SameSockets
    <3> QED
      BY <2>2, <3>1, <3>2 DEF StopInv
  <2>3. CASE s # t
    <3>1. thread'[s] = thread[s]
      BY <2>3
    <3> QED
      BY <3>1 DEF IInv, StopInv, SameSockets, Stopping, Clearing
  <2> QED
    BY <2>2, <2>3
<1>3. AppInv'
  <2>1. audio_app \in Launcher \/ audio_app = 0
    BY MediaAssumption DEF IInv, TypeOK, Launcher, LauncherOrNull
  <2> QED
    BY <2>1 DEF IInv, AppInv, SameSockets
<1>4. Unlaunched' = Unlaunched
  BY DEF Unlaunched, SameSockets
<1>5. LaunchInv' /\ PhoneInv'
  <2>1. t = "phone" \/ t = "provider"
    BY DEF Thread
  <2>2. "phone" \in Thread /\ "provider" \in Thread /\ "phone" # "provider"
    BY DEF Thread
  <2>3. CASE t = "phone"
    <3>1. thread'["provider"] = thread["provider"]
      BY <2>2, <2>3
    <3> QED
      BY <1>4, <2>3, <3>1 DEF IInv, LaunchInv, Launching
  <2>4. CASE t = "provider"
    <3>1. thread'["phone"] = thread["phone"]
      BY <2>2, <2>4
    <3> QED
      BY <1>4, <2>4, <3>1 DEF IInv, LaunchInv, Launching, PhoneInv
  <2> QED
    BY <2>1, <2>3, <2>4
<1> QED
  BY <1>1, <1>2, <1>3, <1>5 DEF IInv

\* The same for a step that changes where t is, and neither what it holds nor
\* any JAudioLauncher: it does not enter stopMedia() or pass its end.
LEMMA MoveKeeps ==
  ASSUME IInv, NEW t \in Thread, NEW at \in Place,
         Moves(t, at) \/ (Returns(t) /\ at = "rest"),
         UNCHANGED <<audio_app, media, isSending>>,
         call_state' \in {"IDLE", "INCOMING", "OUTGOING", "INCALL"},
         ptt' \in BOOLEAN,
         at \notin {"testing", "halting", "unbinding"} \/ Stopping(t),
         at # "clearing",
         t = "phone" => at \notin {"ringing", "accepting", "launching", "making",
                                   "starting"},
         at \in {"ringing", "accepting", "launching", "making"}
           => Launching \/ Unlaunched # {},
         at = "making" => audio_app = 0
  PROVE  IInv'
<1>t. /\ thread \in [Thread -> ThreadRecord]
      /\ media \in [Launcher -> JAudioLauncher]
      /\ TypeOK
  BY DEF IInv, TypeOK, ThreadRecord
<1>1. /\ thread' \in [Thread -> ThreadRecord]
      /\ thread'[t].at = at
      /\ \A s \in Thread \ {t} : thread'[s] = thread[s]
      /\ at = "rest" \/ thread'[t].app = thread[t].app
  BY <1>t, ThreadMoves
<1>2. media' \in [Launcher -> JAudioLauncher] /\ SameSockets
  BY <1>t DEF SameSockets
<1>3. isSending' \in BOOLEAN
  BY <1>t DEF TypeOK
<1>4. /\ Stopping(t)' => Stopping(t) /\ thread'[t].app = thread[t].app
      /\ ~ Clearing(t)'
  BY <1>1 DEF Stopping, Clearing
<1>5. /\ t = "phone" => PhoneInv'
      /\ t = "provider" /\ Launching' => Launching \/ Unlaunched # {}
      /\ t = "provider" /\ thread'["provider"].at = "making" => audio_app = 0
  BY <1>1 DEF PhoneInv, Launching
<1> QED
  BY <1>1, <1>2, <1>3, <1>4, <1>5, QuietStep

-----------------------------------------------------------------------------
(* Every step keeps the invariant.                                         *)

\* closeMediaApplication().
LEMMA CloseStepsKeep ==
  ASSUME IInv, NEW t \in Thread,
         \/ TestMedia(t) \/ StopMedia(t) \/ TestPart(t) \/ HaltPart(t)
         \/ CloseSocket(t) \/ ClearMedia(t)
  PROVE  IInv'
<1>t. /\ thread \in [Thread -> ThreadRecord]
      /\ media \in [Launcher -> JAudioLauncher]
      /\ audio_app \in LauncherOrNull
      /\ TypeOK
      /\ "phone" \in Thread
      /\ "provider" \in Thread
      /\ t \in {"phone", "provider"}
  BY DEF IInv, TypeOK, ThreadRecord, Thread
<1>s. UNCHANGED media => media' \in [Launcher -> JAudioLauncher] /\ SameSockets
  BY <1>t DEF SameSockets
<1>1. CASE TestMedia(t)
  <2>1. PICK at \in {"idling", "reading"} : Moves(t, at)
    BY <1>1 DEF TestMedia
  <2>2. at \in Place
    BY DEF Place
  <2> QED
    BY <1>1, <1>t, <2>1, <2>2, MoveKeeps DEF TestMedia, TypeOK
<1>2. CASE StopMedia(t)
  <2>1. CASE audio_app = 0
    <3>1. "rest" \in Place
      BY DEF Place
    <3> QED
      BY <1>2, <1>t, <2>1, <3>1, MoveKeeps DEF StopMedia, TypeOK
  <2>2. CASE audio_app # 0
    <3>1. [thread[t] EXCEPT !.at = "testing", !.app = audio_app, !.part = "sender"]
            \in ThreadRecord
      BY <1>t DEF ThreadRecord, Place, Part
    <3>2. thread' = [thread EXCEPT ![t] = [thread[t] EXCEPT !.at = "testing", !.app = audio_app,
                                                            !.part = "sender"]]
      BY <1>2, <1>t, <2>2 DEF StopMedia, ThreadRecord
    <3>3. /\ thread' \in [Thread -> ThreadRecord]
          /\ thread'[t].at = "testing"
          /\ thread'[t].app = audio_app
          /\ \A s \in Thread \ {t} : thread'[s] = thread[s]
      BY <1>t, <3>1, <3>2 DEF ThreadRecord
    <3>4. /\ ~ Clearing(t)'
          /\ t = "phone" => PhoneInv'
          /\ t = "provider" => ~ Launching'
          /\ t = "provider" => thread'["provider"].at # "making"
      BY <3>3 DEF Clearing, PhoneInv, Launching
    <3>5. UNCHANGED <<call_state, audio_app, ptt, media, isSending>>
      BY <1>2 DEF StopMedia
    <3>6. /\ call_state' \in {"IDLE", "INCOMING", "OUTGOING", "INCALL"}
          /\ ptt' \in BOOLEAN /\ isSending' \in BOOLEAN
      BY <1>t, <3>5 DEF TypeOK
    <3> QED
      BY <1>s, <2>2, <3>3, <3>4, <3>5, <3>6, QuietStep
  <2> QED
    BY <2>1, <2>2
<1>3. ASSUME media' \in [Launcher -> JAudioLauncher], SameSockets,
             UNCHANGED <<call_state, audio_app, ptt, isSending>>,
             Stopping(t),
             AfterPart(t) \/ Returns(t) \/ Moves(t, "halting")
      PROVE  IInv'
  <2>1. /\ thread' \in [Thread -> ThreadRecord]
        /\ \/ /\ thread'[t].at \in {"testing", "halting", "unbinding"}
              /\ thread'[t].app = thread[t].app
           \/ thread'[t].at = "rest"
        /\ \A s \in Thread \ {t} : thread'[s] = thread[s]
    <3>1. "halting" \in Place
      BY DEF Place
    <3> QED
      BY <1>3, <1>t, <3>1, ThreadMoves
  <2>2. /\ ~ Clearing(t)'
        /\ Stopping(t)' => thread'[t].app = thread[t].app
        /\ t = "phone" => PhoneInv'
        /\ t = "provider" => ~ Launching'
        /\ t = "provider" => thread'["provider"].at # "making"
    BY <2>1 DEF Clearing, Stopping, PhoneInv, Launching
  <2>3. /\ call_state' \in {"IDLE", "INCOMING", "OUTGOING", "INCALL"}
        /\ ptt' \in BOOLEAN /\ isSending' \in BOOLEAN
    BY <1>t, <1>3 DEF TypeOK
  <2> QED
    BY <1>3, <2>1, <2>2, <2>3, QuietStep
<1>4. CASE TestPart(t)
  BY <1>3, <1>4, <1>s DEF TestPart, Stopping
<1>5. CASE HaltPart(t)
  <2> DEFINE k == thread[t].app
             p == thread[t].part
  <2>1. k \in Launcher /\ p \in Part /\ Stopping(t)
    BY <1>5, <1>t DEF IInv, StopInv, HaltPart, ThreadRecord, Stopping
  <2>2. /\ media' \in [Launcher -> JAudioLauncher]
        /\ SameSockets
        /\ AfterPart(t) \/ Returns(t)
    <3>1. CASE media[k].stream[p].held
      BY <1>5, <1>t, <2>1, <3>1, StreamFields DEF HaltPart
    <3>2. CASE ~ media[k].stream[p].held
      BY <1>5, <1>s, <3>2 DEF HaltPart
    <3> QED
      BY <3>1, <3>2
  <2> QED
    BY <1>3, <1>5, <2>1, <2>2 DEF HaltPart
<1>6. CASE CloseSocket(t)
  <2>1. PICK k \in Launcher : k = thread[t].app /\ media[k].socket # "none"
    BY <1>6 DEF IInv, StopInv, Stopping, CloseSocket
  <2>2. [media[k] EXCEPT !.socket = "closed"] \in JAudioLauncher
    BY <1>t, <2>1 DEF JAudioLauncher
  <2>3. media' = [media EXCEPT ![k] = [media[k] EXCEPT !.socket = "closed"]]
    BY <1>6, <2>1 DEF CloseSocket
  <2>4. /\ media' \in [Launcher -> JAudioLauncher]
        /\ media'[k].socket = "closed"
        /\ \A j \in Launcher \ {k} : media'[j].socket = media[j].socket
    BY <1>t, <2>1, <2>2, <2>3 DEF JAudioLauncher
  <2>5. /\ thread' \in [Thread -> ThreadRecord]
        /\ thread'[t].at = "clearing"
        /\ thread'[t].app = k
        /\ \A s \in Thread \ {t} : thread'[s] = thread[s]
    <3>1. "clearing" \in Place
      BY DEF Place
    <3> QED
      BY <1>6, <1>t, <2>1, <3>1, ThreadMoves DEF CloseSocket
  <2>6. UNCHANGED <<call_state, audio_app, ptt, isSending>>
    BY <1>6 DEF CloseSocket
  <2>7. TypeOK'
    BY <1>t, <2>4, <2>5, <2>6 DEF TypeOK, ThreadRecord
  <2>8. \A j \in Launcher :
          /\ media[j].socket # "none" => media'[j].socket # "none"
          /\ media[j].socket = "none" => media'[j].socket = "none"
          /\ media[j].socket = "closed" => media'[j].socket = "closed"
    BY <2>1, <2>4
  <2>9. ASSUME NEW s \in Thread PROVE StopInv(s)'
    <3>1. CASE s = t
      BY <2>4, <2>5, <3>1 DEF StopInv, Stopping, Clearing
    <3>2. CASE s # t
      <4>1. thread'[s] = thread[s]
        BY <2>5, <3>2
      <4> QED
        BY <2>8, <4>1 DEF IInv, StopInv, Stopping, Clearing
    <3> QED
      BY <3>1, <3>2
  <2>10. AppInv'
    <3>1. audio_app \in Launcher \/ audio_app = 0
      BY <1>t, MediaAssumption DEF Launcher, LauncherOrNull
    <3> QED
      BY <2>6, <2>8, <3>1 DEF IInv, AppInv
  <2>11. Unlaunched' = Unlaunched
    BY <2>8 DEF Unlaunched
  <2>12. LaunchInv' /\ PhoneInv'
    <3>1. CASE t = "phone"
      <4>1. thread'["provider"] = thread["provider"]
        BY <1>t, <2>5, <3>1
      <4> QED
        BY <2>5, <2>6, <2>11, <3>1, <4>1 DEF IInv, LaunchInv, Launching, PhoneInv
    <3>2. CASE t = "provider"
      <4>1. thread'["phone"] = thread["phone"]
        BY <1>t, <2>5, <3>2
      <4> QED
        BY <2>5, <3>2, <4>1 DEF IInv, LaunchInv, Launching, PhoneInv
    <3> QED
      BY <1>t, <3>1, <3>2
  <2> QED
    BY <2>7, <2>9, <2>10, <2>12 DEF IInv
<1>7. CASE ClearMedia(t)
  <2>1. 0 \in LauncherOrNull
    BY MediaAssumption DEF LauncherOrNull
  <2>2. [thread[t] EXCEPT !.at = "idling", !.app = 0, !.part = "sender"] \in ThreadRecord
    BY <1>t, <2>1 DEF ThreadRecord, Part, Place
  <2>3. thread' = [thread EXCEPT ![t] = [thread[t] EXCEPT !.at = "idling", !.app = 0,
                                                          !.part = "sender"]]
    BY <1>7, <1>t DEF ClearMedia, ThreadRecord
  <2>4. /\ thread' \in [Thread -> ThreadRecord]
        /\ thread'[t].at = "idling"
        /\ \A s \in Thread \ {t} : thread'[s] = thread[s]
    BY <1>t, <2>2, <2>3 DEF ThreadRecord
  <2>5. audio_app' = 0 /\ UNCHANGED <<call_state, ptt, media, isSending>>
    BY <1>7 DEF ClearMedia
  <2>6. TypeOK'
    BY <1>t, <2>1, <2>4, <2>5 DEF TypeOK, ThreadRecord
  <2>7. ASSUME NEW s \in Thread PROVE StopInv(s)'
    <3>1. CASE s = t
      BY <2>4, <3>1 DEF StopInv, Stopping, Clearing
    <3>2. CASE s # t
      <4>1. thread'[s] = thread[s]
        BY <2>4, <3>2
      <4> QED
        BY <2>5, <4>1 DEF IInv, StopInv, Stopping, Clearing
    <3> QED
      BY <3>1, <3>2
  <2>8. AppInv'
    BY <2>5 DEF AppInv
  <2>9. Unlaunched' = Unlaunched
    BY <2>5 DEF Unlaunched
  <2>10. LaunchInv' /\ PhoneInv'
    <3>1. CASE t = "phone"
      <4>1. thread'["provider"] = thread["provider"]
        BY <1>t, <2>4, <3>1
      <4> QED
        BY <2>4, <2>5, <2>9, <3>1, <4>1 DEF IInv, LaunchInv, Launching, PhoneInv
    <3>2. CASE t = "provider"
      <4>1. thread'["phone"] = thread["phone"]
        BY <1>t, <2>4, <3>2
      <4> QED
        BY <2>4, <2>5, <3>2, <4>1 DEF IInv, LaunchInv, Launching, PhoneInv
    <3> QED
      BY <1>t, <3>1, <3>2
  <2> QED
    BY <2>6, <2>7, <2>8, <2>10 DEF IInv
<1> QED
  BY <1>1, <1>2, <1>4, <1>5, <1>6, <1>7

\* changeStatus(), and the steps that begin a call or its end.
LEMMA StatusKeeps ==
  ASSUME IInv, NEW t \in Thread,
         \/ ChangeToIdle(t) \/ ChangeToOutgoing(t) \/ ChangeToInCall(t)
         \/ PressEnd \/ ReceiveEnd \/ PlaceCall \/ FireOn \/ AnswerCall
  PROVE  IInv'
<1>t. /\ thread \in [Thread -> ThreadRecord]
      /\ media \in [Launcher -> JAudioLauncher]
      /\ TypeOK
      /\ "phone" \in Thread
      /\ "provider" \in Thread
      /\ {"rest", "closing", "idling", "launching", "answering"} \subseteq Place
  BY DEF IInv, TypeOK, ThreadRecord, Thread, Place
<1>s. UNCHANGED media => media' \in [Launcher -> JAudioLauncher] /\ SameSockets
  BY <1>t DEF SameSockets
<1>q. ASSUME NEW u \in Thread, NEW r \in ThreadRecord,
             thread' = [thread EXCEPT ![u] = r], r.at \in {"closing", "dialing"},
             UNCHANGED <<audio_app, ptt, media, isSending>>,
             call_state' \in {"IDLE", "INCOMING", "OUTGOING", "INCALL"}
      PROVE  IInv'
  <2>1. /\ thread' \in [Thread -> ThreadRecord]
        /\ thread'[u] = r
        /\ \A s \in Thread \ {u} : thread'[s] = thread[s]
    BY <1>t, <1>q
  <2>2. /\ ~ Stopping(u)'
        /\ ~ Clearing(u)'
        /\ u = "phone" => PhoneInv'
        /\ u = "provider" => ~ Launching'
        /\ u = "provider" => thread'["provider"].at # "making"
    BY <1>q, <2>1 DEF Stopping, Clearing, PhoneInv, Launching
  <2>3. ptt' \in BOOLEAN /\ isSending' \in BOOLEAN
    BY <1>t, <1>q DEF TypeOK
  <2> QED
    BY <1>q, <1>s, <2>1, <2>2, <2>3, QuietStep
<1>1. CASE ChangeToIdle(t)
  <2>1. UNCHANGED <<audio_app, ptt, media, isSending>> /\ call_state' = "IDLE"
    BY <1>1 DEF ChangeToIdle
  <2>2. CASE call_state # "IDLE"
    <3>1. [thread[t] EXCEPT !.at = "closing", !.nested = TRUE] \in ThreadRecord
      BY <1>t DEF ThreadRecord
    <3>2. thread' = [thread EXCEPT ![t] = [thread[t] EXCEPT !.at = "closing", !.nested = TRUE]]
      BY <1>1, <1>t, <2>2 DEF ChangeToIdle, ThreadRecord
    <3>3. [thread[t] EXCEPT !.at = "closing", !.nested = TRUE].at = "closing"
      BY <1>t DEF ThreadRecord
    <3> QED
      BY <1>q, <2>1, <3>1, <3>2, <3>3
  <2>3. CASE call_state = "IDLE" /\ thread[t].placing
    <3>1. [thread[t] EXCEPT !.at = "dialing", !.nested = FALSE] \in ThreadRecord
      BY <1>t DEF ThreadRecord, Place
    <3>2. thread' = [thread EXCEPT ![t] = [thread[t] EXCEPT !.at = "dialing", !.nested = FALSE]]
      BY <1>1, <1>t, <2>3 DEF ChangeToIdle, ThreadRecord
    <3>3. [thread[t] EXCEPT !.at = "dialing", !.nested = FALSE].at = "dialing"
      BY <1>t DEF ThreadRecord
    <3> QED
      BY <1>q, <2>1, <3>1, <3>2, <3>3
  <2>4. CASE call_state = "IDLE" /\ ~ thread[t].placing
    <3>1. Returns(t)
      BY <1>1, <2>4 DEF ChangeToIdle
    <3> QED
      BY <1>t, <2>1, <3>1, MoveKeeps DEF TypeOK
  <2> QED
    BY <2>2, <2>3, <2>4
<1>2. CASE ChangeToOutgoing(t)
  BY <1>2, <1>t, MoveKeeps DEF ChangeToOutgoing, TypeOK
<1>3. CASE ChangeToInCall(t)
  <2>1. UNCHANGED <<audio_app, ptt, media, isSending>> /\ call_state' = "INCALL"
    BY <1>3 DEF ChangeToInCall
  <2>2. CASE thread[t].at = "accepting"
    <3>1. t = "provider"
      BY <2>2 DEF IInv, PhoneInv, Thread
    <3>2. Moves(t, "launching") /\ Launching
      BY <1>3, <2>2, <3>1 DEF ChangeToInCall, Launching
    <3> QED
      BY <1>t, <2>1, <3>1, <3>2, MoveKeeps DEF TypeOK
  <2>3. CASE thread[t].at # "accepting"
    <3>1. Returns(t)
      BY <1>3, <2>3 DEF ChangeToInCall
    <3> QED
      BY <1>t, <2>1, <3>1, MoveKeeps DEF TypeOK
  <2> QED
    BY <2>2, <2>3
<1>4. CASE PressEnd
  BY <1>4, <1>t, MoveKeeps DEF PressEnd, TypeOK
<1>5. CASE ReceiveEnd
  BY <1>5, <1>t, MoveKeeps DEF ReceiveEnd, TypeOK
<1>6. CASE PlaceCall
  <2>1. [thread["phone"] EXCEPT !.at = "closing", !.placing = TRUE] \in ThreadRecord
    BY <1>t DEF ThreadRecord
  <2>2. thread' = [thread EXCEPT !["phone"] = [thread["phone"] EXCEPT !.at = "closing",
                                                                      !.placing = TRUE]]
    BY <1>6, <1>t DEF PlaceCall, ThreadRecord
  <2>3. [thread["phone"] EXCEPT !.at = "closing", !.placing = TRUE].at = "closing"
    BY <1>t DEF ThreadRecord
  <2>4. /\ UNCHANGED <<audio_app, ptt, media, isSending>>
        /\ call_state' \in {"IDLE", "INCOMING", "OUTGOING", "INCALL"}
    BY <1>6, <1>t DEF PlaceCall, TypeOK
  <2> QED
    BY <1>q, <1>t, <2>1, <2>2, <2>3, <2>4
<1>7. CASE FireOn
  <2>1. /\ thread' = thread /\ UNCHANGED <<call_state, audio_app, media, isSending>>
        /\ ptt' \in BOOLEAN
        /\ thread["provider"].at = "rest"
    BY <1>7 DEF FireOn, Rests
  <2>2. /\ ~ Stopping("provider")'
        /\ ~ Clearing("provider")'
        /\ ~ Launching'
        /\ thread'["provider"].at # "making"
    BY <2>1 DEF Stopping, Clearing, Launching
  <2> QED
    BY <1>t, <1>s, <2>1, <2>2, QuietStep DEF TypeOK
<1>8. CASE AnswerCall
  BY <1>8, <1>t, MoveKeeps DEF AnswerCall, TypeOK
<1> QED
  BY <1>1, <1>2, <1>3, <1>4, <1>5, <1>6, <1>7, <1>8

\* onCallIncoming, onCallRinging, onCallAccepted and launchMediaApplication().
LEMMA LaunchKeeps ==
  ASSUME IInv, ReceiveInvite \/ ReceiveRinging \/ ReceiveAccepted \/ LaunchSteps
  PROVE  IInv'
<1>t. /\ thread \in [Thread -> ThreadRecord]
      /\ media \in [Launcher -> JAudioLauncher]
      /\ audio_app \in LauncherOrNull
      /\ TypeOK
      /\ "phone" \in Thread
      /\ "provider" \in Thread
      /\ "phone" # "provider"
      /\ {"rest", "ringing", "accepting", "launching", "making", "starting"} \subseteq Place
  BY DEF IInv, TypeOK, ThreadRecord, Thread, Place
<1>s. UNCHANGED media => media' \in [Launcher -> JAudioLauncher] /\ SameSockets
  BY <1>t DEF SameSockets
<1>1. ASSUME NEW at \in {"ringing", "accepting", "launching"}, Receives(at)
      PROVE  IInv'
  BY <1>1, <1>t, MoveKeeps DEF Receives, TypeOK
<1>2. CASE ReceiveInvite \/ ReceiveRinging \/ ReceiveAccepted
  BY <1>1, <1>2 DEF ReceiveInvite, ReceiveRinging, ReceiveAccepted
<1>3. CASE ChangeToIncoming
  <2>1. Launching /\ Moves("provider", "launching") /\ ptt' \in BOOLEAN
    BY <1>3 DEF ChangeToIncoming, Launching
  <2> QED
    BY <1>3, <1>t, <2>1, MoveKeeps DEF ChangeToIncoming
<1>4. CASE LaunchMedia
  <2>1. Launching
    BY <1>4 DEF LaunchMedia, Launching
  <2>2. UNCHANGED <<call_state, audio_app, ptt, media, isSending>>
    BY <1>4 DEF LaunchMedia
  <2>3. CASE audio_app = 0
    <3>1. Moves("provider", "making")
      BY <1>4, <2>3 DEF LaunchMedia
    <3> QED
      BY <1>t, <2>1, <2>2, <2>3, <3>1, MoveKeeps DEF TypeOK
  <2>4. CASE audio_app # 0
    <3>1. Returns("provider")
      BY <1>4, <2>4 DEF LaunchMedia
    <3> QED
      BY <1>t, <2>2, <3>1, MoveKeeps DEF TypeOK
  <2> QED
    BY <2>3, <2>4
<1>5. CASE MakeMedia
  <2> DEFINE k == NextLauncher
             wanted == IF NextLauncher \in RecvOnly THEN {"receiver"} ELSE Part
             makes(p) == PortFree /\ p \in wanted
             new == [stream |-> [p \in Part |-> [NewStream EXCEPT !.held = makes(p)]],
                     socket |-> IF PortFree THEN "open" ELSE "closed"]
  <2>1. k \in Launcher /\ media[k].socket = "none" /\ audio_app = 0
    BY <1>5 DEF IInv, LaunchInv, Launching, MakeMedia, NextLauncher, Unlaunched
  <2>2. new \in JAudioLauncher /\ new.socket # "none"
    <3> DEFINE socket == IF PortFree THEN "open" ELSE "closed"
               stream == [p \in Part |-> [NewStream EXCEPT !.held = makes(p)]]
    <3>1. ASSUME NEW p \in Part PROVE [NewStream EXCEPT !.held = makes(p)] \in Stream
      <4>1. makes(p) \in BOOLEAN
        BY DEF PortFree
      <4> HIDE DEF makes
      <4> QED
        BY <4>1 DEF NewStream, Stream
    <3>2. stream \in [Part -> Stream]
      <4> HIDE DEF makes
      <4> QED
        BY <3>1
    <3>3. socket \in {"open", "closed"}
      OBVIOUS
    <3>4. new = [stream |-> stream, socket |-> socket]
      OBVIOUS
    <3> HIDE DEF socket, stream, new
    <3> QED
      BY <3>2, <3>3, <3>4 DEF JAudioLauncher
  <2>3. media' = [media EXCEPT ![k] = new] /\ audio_app' = k
    BY <1>5, Zenon DEF MakeMedia
  <2> HIDE DEF k, new
  <2>4. /\ media' \in [Launcher -> JAudioLauncher]
        /\ media'[k] = new
        /\ \A j \in Launcher \ {k} : media'[j] = media[j]
    BY <1>t, <2>1, <2>2, <2>3
  <2>5. /\ thread' \in [Thread -> ThreadRecord]
        /\ thread'["provider"].at = "starting"
        /\ thread'["phone"] = thread["phone"]
    BY <1>5, <1>t, ThreadMoves DEF MakeMedia
  <2>6. UNCHANGED <<call_state, ptt, isSending>>
    BY <1>5 DEF MakeMedia
  <2>7. TypeOK'
    BY <1>t, <2>1, <2>3, <2>4, <2>5, <2>6 DEF TypeOK, ThreadRecord, Launcher, LauncherOrNull
  <2>8. \A s \in Thread : StopInv(s)'
    <3>1. StopInv("provider")'
      BY <2>5 DEF StopInv, Stopping, Clearing
    <3>2. StopInv("phone")'
      BY <1>t, <2>1, <2>2, <2>4, <2>5 DEF IInv, StopInv, Stopping, Clearing
    <3> QED
      BY <3>1, <3>2 DEF Thread
  <2>9. AppInv'
    BY <2>2, <2>3, <2>4 DEF AppInv
  <2>10. LaunchInv' /\ PhoneInv'
    BY <2>5 DEF IInv, LaunchInv, Launching, PhoneInv
  <2> QED
    BY <2>7, <2>8, <2>9, <2>10 DEF IInv
<1>6. CASE StartMedia
  <2>1. media' \in [Launcher -> JAudioLauncher] /\ SameSockets
    <3>1. CASE audio_app = 0
      BY <1>6, <1>s, <3>1 DEF StartMedia
    <3>2. CASE audio_app # 0
      <4> DEFINE wanted == IF ptt THEN {"receiver"} ELSE Part
                 starts(p) == p \in wanted /\ media[audio_app].stream[p].held
                 old == media[audio_app].stream
                 stream == [p \in Part |-> IF starts(p) THEN [old[p] EXCEPT !.at = "started"]
                                           ELSE old[p]]
      <4>1. audio_app \in Launcher
        BY <1>t, <3>2, MediaAssumption DEF Launcher, LauncherOrNull
      <4>2. media' = [media EXCEPT ![audio_app].stream = stream]
        BY <1>6, <3>2 DEF StartMedia
      <4>3. old \in [Part -> Stream]
        BY <1>t, <4>1 DEF JAudioLauncher
      <4> HIDE DEF starts, old
      <4>4. ASSUME NEW p \in Part
            PROVE  [old[p] EXCEPT !.at = "started"] \in Stream /\ old[p] \in Stream
        BY <4>3 DEF Stream
      <4>5. stream \in [Part -> Stream]
        BY <4>4
      <4> HIDE DEF stream
      <4> QED
        BY <1>t, <4>1, <4>2, <4>5, StreamsChange
    <3> QED
      BY <3>1, <3>2
  <2>2. /\ thread' \in [Thread -> ThreadRecord]
        /\ thread'["provider"].at = "rest"
        /\ \A u \in Thread \ {"provider"} : thread'[u] = thread[u]
    BY <1>6, <1>t, ThreadMoves DEF StartMedia
  <2>3. /\ ~ Stopping("provider")'
        /\ ~ Clearing("provider")'
        /\ ~ Launching'
    BY <2>2 DEF Stopping, Clearing, Launching
  <2>4. UNCHANGED <<call_state, audio_app, ptt, isSending>>
    BY <1>6 DEF StartMedia
  <2>5. /\ call_state' \in {"IDLE", "INCOMING", "OUTGOING", "INCALL"}
        /\ ptt' \in BOOLEAN /\ isSending' \in BOOLEAN
    BY <1>t, <2>4 DEF TypeOK
  <2> QED
    BY <1>t, <2>1, <2>2, <2>3, <2>4, <2>5, QuietStep
<1> QED
  BY <1>2, <1>3, <1>4, <1>5, <1>6 DEF LaunchSteps

\* The threads of the streams, which hang up when they fail.
LEMMA StreamsKeep ==
  ASSUME IInv, NEW k \in Launcher, StreamSteps(k)
  PROVE  IInv'
<1>t. /\ thread \in [Thread -> ThreadRecord]
      /\ media \in [Launcher -> JAudioLauncher]
      /\ TypeOK
      /\ "phone" \in Thread
      /\ "sender" \in Part
      /\ "receiver" \in Part
  BY DEF IInv, TypeOK, ThreadRecord, Thread, Part
<1>h. ASSUME UNCHANGED <<call_state, audio_app, ptt, isSending>>,
             media' \in [Launcher -> JAudioLauncher], SameSockets,
             UNCHANGED thread \/ Moves("phone", "closing")
      PROVE  IInv'
  <2>1. "closing" \in Place
    BY DEF Place
  <2>2. /\ UNCHANGED thread \/ thread'["phone"].at = "closing"
        /\ thread' \in [Thread -> ThreadRecord]
        /\ \A s \in Thread \ {"phone"} : thread'[s] = thread[s]
    BY <1>h, <1>t, <2>1, ThreadMoves
  <2>3. /\ Stopping("phone")' => Stopping("phone") /\ thread'["phone"].app = thread["phone"].app
        /\ ~ Clearing("phone")' \/ (Clearing("phone") /\ thread'["phone"].app = thread["phone"].app)
        /\ PhoneInv'
    BY <2>2 DEF IInv, PhoneInv, Stopping, Clearing
  <2> QED
    BY <1>h, <1>t, <2>2, <2>3, QuietStep DEF TypeOK
<1>1. ASSUME NEW p \in Part, RunBegins(k, p) \/ RunEnds(k, p)
      PROVE  IInv'
  BY <1>1, <1>t, <1>h, StreamFields DEF RunBegins, RunEnds
<1>2. CASE MicrophoneFails(k)
  <2>1. PICK at \in {"failed", "ended"} : Becomes(k, "sender", at)
    BY <1>2 DEF MicrophoneFails
  <2> QED
    BY <1>2, <1>t, <1>h, <2>1, StreamFields DEF MicrophoneFails, HangsUp
<1>3. CASE ReceiverTimesOut(k)
  BY <1>3, <1>t, <1>h, StreamFields DEF ReceiverTimesOut, HangsUp
<1> QED
  BY <1>1, <1>2, <1>3 DEF StreamSteps

\* The messages of the floor.
LEMMA BurstKeeps ==
  ASSUME IInv, Burst
  PROVE  IInv'
<1>t. /\ thread \in [Thread -> ThreadRecord]
      /\ media \in [Launcher -> JAudioLauncher]
      /\ audio_app \in LauncherOrNull
      /\ TypeOK
      /\ "phone" \in Thread
      /\ "sender" \in Part
  BY DEF IInv, TypeOK, ThreadRecord, Thread, Part
<1>1. isSending' \in BOOLEAN
  BY <1>t DEF TypeOK, Burst, Granted, Taken
<1>2. media' \in [Launcher -> JAudioLauncher] /\ SameSockets
  <2>1. CASE UNCHANGED media
    BY <1>t, <2>1 DEF SameSockets
  <2>2. CASE ~ UNCHANGED media
    <3> DEFINE at == media[audio_app].stream["sender"].at
               next == IF at = "new" THEN "started" ELSE at
    <3>1. Granted
      BY <2>2 DEF Burst, Taken
    <3>2. /\ audio_app # 0
          /\ media' = [media EXCEPT ![audio_app].stream["sender"].at =
                                      IF @ = "new" THEN "started" ELSE @]
      BY <2>2, <3>1, Zenon DEF Granted, HasSender
    <3>3. audio_app \in Launcher
      BY <1>t, <3>2, MediaAssumption DEF Launcher, LauncherOrNull
    <3>4. Becomes(audio_app, "sender", next)
      BY <3>2 DEF Becomes
    <3>5. next \in {"new", "started", "running", "halted", "failed", "ended"}
      BY <1>t, <3>3 DEF JAudioLauncher, Stream
    <3> HIDE DEF next
    <3> QED
      BY <1>t, <3>3, <3>4, <3>5, StreamFields
  <2> QED
    BY <2>1, <2>2
<1>3. UNCHANGED <<call_state, audio_app, ptt, thread>>
  BY DEF Burst, Granted, Taken
<1>4. /\ PhoneInv'
      /\ Stopping("phone")' => Stopping("phone") /\ thread'["phone"].app = thread["phone"].app
      /\ ~ Clearing("phone")' \/ (Clearing("phone") /\ thread'["phone"].app = thread["phone"].app)
  BY <1>3 DEF IInv, PhoneInv, Stopping, Clearing
<1> QED
  BY <1>t, <1>1, <1>2, <1>3, <1>4, QuietStep DEF TypeOK

-----------------------------------------------------------------------------
(* The theorems.                                                           *)

LEMMA InitHolds ==
  ASSUME Init
  PROVE  IInv
<1>1. /\ NewStream \in Stream
      /\ AtRest \in ThreadRecord
      /\ 0 \in LauncherOrNull
  BY MediaAssumption
     DEF NewStream, Stream, AtRest, ThreadRecord, LauncherOrNull, Part, Place
<1>2. media \in [Launcher -> JAudioLauncher]
  BY <1>1 DEF Init, JAudioLauncher
<1>3. TypeOK
  BY <1>1, <1>2 DEF Init, TypeOK, ThreadRecord
<1>4. \A t \in Thread : thread[t].at = "rest"
  BY DEF Init, AtRest
<1>5. "phone" \in Thread /\ "provider" \in Thread
  BY DEF Thread
<1>6. (\A t \in Thread : StopInv(t)) /\ LaunchInv /\ PhoneInv
  BY <1>4, <1>5 DEF StopInv, Stopping, Clearing, LaunchInv, Launching, PhoneInv
<1>7. AppInv
  BY DEF Init, AppInv
<1> QED
  BY <1>3, <1>6, <1>7 DEF IInv

LEMMA StepKeeps ==
  ASSUME IInv, [Next]_vars
  PROVE  IInv'
<1>1. ASSUME NEW t \in Thread, CloseSteps(t) PROVE IInv'
  BY <1>1, CloseStepsKeep, StatusKeeps DEF CloseSteps
<1>2. CASE PressEnd \/ ReceiveEnd \/ PlaceCall \/ FireOn \/ AnswerCall
  BY <1>2, StatusKeeps DEF Thread
<1>3. CASE ReceiveInvite \/ ReceiveRinging \/ ReceiveAccepted \/ LaunchSteps
  BY <1>3, LaunchKeeps
<1>4. ASSUME NEW k \in Launcher, StreamSteps(k) PROVE IInv'
  BY <1>4, StreamsKeep
<1>5. CASE Burst
  BY <1>5, BurstKeeps
<1>6. CASE UNCHANGED vars
  BY <1>6 DEF vars, IInv, TypeOK, StopInv, AppInv, LaunchInv, PhoneInv,
              Stopping, Clearing, Launching, Unlaunched
<1> QED
  BY <1>1, <1>2, <1>3, <1>4, <1>5, <1>6 DEF Next

\* The invariant: a thread inside closeMediaApplication() holds a JAudioLauncher
\* that was made, and has closed its socket before the last line, whether or not
\* audio_app is another one by then; audio_app is null where a JAudioLauncher is
\* made.
THEOREM Invariance == Spec => []IInv
BY InitHolds, StepKeeps, PTL DEF Spec

\* Whatever the threads of a call do to each other, the fields they share keep
\* their types.
THEOREM TypeCorrect == Spec => []TypeOK
<1>1. IInv => TypeOK
  BY DEF IInv
<1> QED
  BY <1>1, Invariance, PTL

\* For any number of calls, placed or received: a JAudioLauncher whose socket is
\* open leaves audio_app only by the last line of closeMediaApplication(), run by
\* a thread that has closed another one.
THEOREM LauncherIsKept == Spec => LauncherKept
<1> DEFINE Step ==
      \A k \in Launcher :
        media[k].socket = "open" /\ audio_app = k /\ audio_app' # k
          => \E t \in Thread : thread[t].at = "clearing" /\ thread[t].app # k
<1>1. ASSUME IInv, [Next]_vars PROVE [Step]_vars
  <2> SUFFICES ASSUME NEW k \in Launcher, media[k].socket = "open",
                      audio_app = k, audio_app' # k
               PROVE  \E t \in Thread : thread[t].at = "clearing" /\ thread[t].app # k
    OBVIOUS
  <2>1. k # 0
    BY MediaAssumption DEF Launcher
  <2>2. (\E t \in Thread : ClearMedia(t)) \/ MakeMedia
    BY <1>1 DEF Next, vars, CloseSteps, TestMedia, StopMedia, TestPart, HaltPart,
                CloseSocket, ChangeToIdle, ChangeToOutgoing, ChangeToInCall,
                PressEnd, ReceiveEnd, PlaceCall, FireOn, AnswerCall,
                ReceiveInvite, ReceiveRinging, ReceiveAccepted, Receives,
                LaunchSteps, ChangeToIncoming, LaunchMedia, StartMedia,
                StreamSteps, RunBegins, RunEnds, MicrophoneFails, ReceiverTimesOut,
                Burst, Granted, Taken
  <2>3. ~ MakeMedia
    BY <1>1, <2>1 DEF IInv, LaunchInv, MakeMedia
  <2>4. PICK t \in Thread : ClearMedia(t)
    BY <2>2, <2>3
  <2>5. thread[t].at = "clearing"
    BY <2>4 DEF ClearMedia
  <2>6. thread[t].app # k
    BY <1>1, <2>5 DEF IInv, StopInv, Clearing
  <2> QED
    BY <2>5, <2>6
<1> QED
  BY <1>1, Invariance, PTL DEF Spec, LauncherKept

=============================================================================
