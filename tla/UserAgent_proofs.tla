-------------------------- MODULE UserAgent_proofs --------------------------
(***************************************************************************)
(* The safety of the user agent, for every bound on the Calls: TypeOK,     *)
(* IdleIsSilent, ScreenShowsDialog, HearsCurrentOnly and ReturnsListening  *)
(* of UserAgent.                                                           *)
(*                                                                         *)
(* The handlers are functions from state to state, and so are the lemmas:  *)
(* what each part of a handler makes of a state u.  Between the step of a  *)
(* dialog and the end of the call-back the screen is behind (Linked holds, *)
(* Shown does not); each call-back brings both together again.             *)
(***************************************************************************)
EXTENDS UserAgent, TLAPS

-----------------------------------------------------------------------------
(* The inductive invariant, of a state u of the user agent.                *)

\* The Calls the user agent refers to are there, only the current one
\* listens, and a transfer is under way.
Linked(u) ==
  /\ u \in UserAgent
  /\ u.call \in Call
  /\ u.dialog[u.call] # "INIT"
  /\ u.listening \in {0, u.call}
  /\ u.listening # 0 => u.dialog[u.call] = "WAITING"
  /\ u.call_transfer # 0 =>
       /\ u.call_transfer # u.call
       /\ u.dialog[u.call_transfer] \notin {"INIT", "WAITING", "INVITED"}

\* The screen, the media and the current Call's dialog agree.
Shown(u) ==
  /\ u.call_state = "IDLE" => ~u.audio_app
  /\ u.call_state = "INCOMING" <=> u.dialog[u.call] = "INVITED"
  /\ u.call_state = "OUTGOING" => u.dialog[u.call] = "INVITING"
  /\ u.call_state = "IDLE" => u.dialog[u.call] = "WAITING"
  /\ u.dialog[u.call] \in InSession => u.call_state \in {"INCALL", "HOLD"}

IInv ==
  /\ TypeOK
  /\ Linked(ua)
  /\ Shown(ua)

\* What a handler that began in the call state s may end in.
Reached(s, u) ==
  /\ Linked(u)
  /\ Shown(u)
  /\ s # "IDLE" /\ u.call_state = "IDLE" => u.listening = u.call

-----------------------------------------------------------------------------
(* The parts of the handlers.                                              *)

LEMMA CallIsNotNull == \A c \in Call : c \in CallOrNull /\ c # 0
BY CallsAssumption DEF Call, CallOrNull

LEMMA HungUpStatus ==
  \A st \in Status :
    /\ HungUp(st) \in Status
    /\ HungUp(st) = "INIT" <=> st = "INIT"
    /\ HungUp(st) = "WAITING" <=> st = "WAITING"
    /\ HungUp(st) = "INVITING" <=> st = "INVITING"
    /\ HungUp(st) # "INVITED"
    /\ HungUp(st) \in InSession <=> st \in InSession
BY DEF HungUp, Status, InSession

LEMMA AcceptedStatus ==
  \A st \in Status :
    /\ Accepted(st) \in Status
    /\ Accepted(st) = "INIT" <=> st = "INIT"
    /\ Accepted(st) = "WAITING" <=> st = "WAITING"
    /\ Accepted(st) # "INVITED"
    /\ st \in InSession => Accepted(st) \in InSession
BY DEF Accepted, Status, InSession

LEMMA NewCallIsFree ==
  ASSUME NEW u, Free(u) # {}
  PROVE  NewCall(u) \in Call /\ u.dialog[NewCall(u)] = "INIT"
<1>1. NewCall(u) \in Free(u)
  BY DEF NewCall
<1> QED
  BY <1>1 DEF Free

\* Only Calls that nothing refers to are collected.
LEMMA CollectedFields ==
  ASSUME NEW u \in UserAgent
  PROVE  LET v == Collected(u)
         IN /\ v \in UserAgent
            /\ v.call_state = u.call_state /\ v.call = u.call
            /\ v.call_transfer = u.call_transfer
            /\ v.listening = u.listening /\ v.audio_app = u.audio_app
            /\ \A c \in Call :
                 /\ v.dialog[c] \in {u.dialog[c], "INIT"}
                 /\ c \in {u.call, u.call_transfer, u.listening} => v.dialog[c] = u.dialog[c]
            /\ Free(u) # {} => Free(v) # {}
<1> DEFINE garbage == {c \in Call : /\ u.dialog[c] \in {"WAITING", "CLOSE"}
                                    /\ c \notin {u.call, u.call_transfer, u.listening}}
           dialog == [c \in Call |-> IF c \in garbage THEN "INIT" ELSE u.dialog[c]]
<1>1. u.dialog \in [Call -> Status]
  BY DEF UserAgent
<1>2. /\ dialog \in [Call -> Status]
      /\ \A c \in Call :
           /\ dialog[c] \in {u.dialog[c], "INIT"}
           /\ c \in {u.call, u.call_transfer, u.listening} => dialog[c] = u.dialog[c]
  BY <1>1 DEF Status
<1>3. Collected(u) = [u EXCEPT !.dialog = dialog]
  BY DEF Collected
<1> HIDE DEF dialog
<1>4. LET v == Collected(u)
      IN /\ v \in UserAgent /\ v.dialog = dialog
         /\ v.call_state = u.call_state /\ v.call = u.call
         /\ v.call_transfer = u.call_transfer
         /\ v.listening = u.listening /\ v.audio_app = u.audio_app
  BY <1>2, <1>3 DEF UserAgent
<1>5. Free(u) # {} => Free(Collected(u)) # {}
  BY <1>2, <1>4 DEF Free
<1> QED
  BY <1>2, <1>4, <1>5

LEMMA CollectedReached ==
  ASSUME NEW s, NEW u, Reached(s, u)
  PROVE  Reached(s, Collected(u))
<1>1. u \in UserAgent /\ u.call \in Call
  BY DEF Reached, Linked
<1>2. u.call_transfer \in Call \/ u.call_transfer = 0
  BY <1>1 DEF UserAgent, Call, CallOrNull
<1> HIDE DEF Collected
<1> QED
  BY <1>1, <1>2, CollectedFields DEF Reached, Linked, Shown

LEMMA CallHungUpFields ==
  ASSUME NEW u \in UserAgent, u.call \in Call
  PROVE  LET v == CallHungUp(u)
         IN /\ v \in UserAgent
            /\ v.call_state = u.call_state /\ v.call = u.call
            /\ v.call_transfer = u.call_transfer /\ v.audio_app = u.audio_app
            /\ v.listening = IF u.dialog[u.call] = "WAITING" THEN 0 ELSE u.listening
            /\ v.dialog[u.call] = HungUp(u.dialog[u.call])
            /\ \A c \in Call \ {u.call} : v.dialog[c] = u.dialog[c]
            /\ Free(u) # {} => Free(v) # {}
<1> DEFINE dialog == [u.dialog EXCEPT ![u.call] = HungUp(u.dialog[u.call])]
           listening == IF u.dialog[u.call] = "WAITING" THEN 0 ELSE u.listening
<1>1. u.dialog \in [Call -> Status] /\ u.listening \in CallOrNull
  BY DEF UserAgent
<1>2. /\ dialog \in [Call -> Status]
      /\ dialog[u.call] = HungUp(u.dialog[u.call])
      /\ \A c \in Call \ {u.call} : dialog[c] = u.dialog[c]
  BY <1>1, HungUpStatus
<1>3. listening \in CallOrNull
  BY <1>1, CallsAssumption DEF CallOrNull
<1>4. CallHungUp(u) = [u EXCEPT !.dialog = dialog, !.listening = listening]
  BY DEF CallHungUp
<1>5. \A c \in Call : dialog[c] = "INIT" <=> u.dialog[c] = "INIT"
  BY <1>1, <1>2, HungUpStatus
<1> HIDE DEF dialog, listening
<1>6. LET v == CallHungUp(u)
      IN /\ v \in UserAgent /\ v.dialog = dialog
         /\ v.call_state = u.call_state /\ v.call = u.call
         /\ v.call_transfer = u.call_transfer
         /\ v.listening = listening /\ v.audio_app = u.audio_app
  BY <1>2, <1>3, <1>4 DEF UserAgent
<1>7. Free(u) # {} => Free(CallHungUp(u)) # {}
  BY <1>5, <1>6 DEF Free
<1> QED
  BY <1>2, <1>6, <1>7 DEF listening

LEMMA CallHungUpLinked ==
  ASSUME NEW u, Linked(u)
  PROVE  LET v == CallHungUp(u)
         IN /\ Linked(v)
            /\ v.listening = 0
            /\ v.call_state = u.call_state /\ v.call = u.call
            /\ v.audio_app = u.audio_app
            /\ v.dialog[u.call] = HungUp(u.dialog[u.call])
            /\ Free(u) # {} => Free(v) # {}
<1>1. u \in UserAgent /\ u.call \in Call
  BY DEF Linked
<1>2. u.dialog[u.call] \in Status
  BY <1>1 DEF UserAgent
<1>3. u.call_transfer \in Call \/ u.call_transfer = 0
  BY <1>1 DEF UserAgent, Call, CallOrNull
<1> HIDE DEF CallHungUp
<1> QED
  BY <1>1, <1>2, <1>3, CallHungUpFields, HungUpStatus DEF Linked

LEMMA SilentFields ==
  ASSUME NEW u, Linked(u)
  PROVE  LET v == CloseMediaApplication(u)
         IN /\ Linked(v)
            /\ v.call_state = u.call_state /\ v.call = u.call
            /\ ~v.audio_app
            /\ v.listening = u.listening /\ v.dialog = u.dialog
            /\ Free(u) # {} => Free(v) # {}
<1>1. u \in UserAgent
  BY DEF Linked
<1>2. LET v == CloseMediaApplication(u)
      IN /\ v \in UserAgent
         /\ v.call_state = u.call_state /\ v.call = u.call
         /\ v.call_transfer = u.call_transfer
         /\ ~v.audio_app
         /\ v.listening = u.listening /\ v.dialog = u.dialog
  BY <1>1 DEF CloseMediaApplication, UserAgent
<1> HIDE DEF CloseMediaApplication
<1> QED
  BY <1>2 DEF Linked, Free

\* The Call before a new one is let go of.
LEMMA LetGoFields ==
  ASSUME NEW u, Linked(u), Free(u) # {}
  PROVE  LET w == CallHungUp(u)
             v == Collected([w EXCEPT !.call = 0])
         IN /\ v \in UserAgent
            /\ v.call_state = u.call_state /\ v.audio_app = u.audio_app
            /\ v.listening = 0
            /\ v.call_transfer # 0 => v.dialog[v.call_transfer] \notin {"INIT", "WAITING", "INVITED"}
            /\ Free(v) # {}
<1> DEFINE w == CallHungUp(u)
           x == [w EXCEPT !.call = 0]
<1>1. /\ Linked(w) /\ w.listening = 0
      /\ w.call_state = u.call_state /\ w.audio_app = u.audio_app
      /\ Free(w) # {}
  BY CallHungUpLinked
<1> HIDE DEF w
<1>2. w \in UserAgent
  BY <1>1 DEF Linked
<1>3. /\ x \in UserAgent
      /\ x.call_state = w.call_state /\ x.audio_app = w.audio_app
      /\ x.listening = w.listening /\ x.call_transfer = w.call_transfer
      /\ x.dialog = w.dialog
  BY <1>2, CallsAssumption DEF UserAgent, CallOrNull
<1> HIDE DEF x
<1>4. Free(x) # {}
  BY <1>1, <1>3 DEF Free
<1>5. x.call_transfer \in Call \/ x.call_transfer = 0
  BY <1>3 DEF UserAgent, Call, CallOrNull
<1>6. LET v == Collected(x)
      IN /\ v \in UserAgent
         /\ v.call_state = u.call_state /\ v.audio_app = u.audio_app
         /\ v.listening = 0
         /\ v.call_transfer # 0 => v.dialog[v.call_transfer] \notin {"INIT", "WAITING", "INVITED"}
         /\ Free(v) # {}
  BY <1>1, <1>3, <1>4, <1>5, CollectedFields DEF Linked
<1> QED
  BY <1>6 DEF x, w

LEMMA NewListeningReached ==
  ASSUME NEW u, Linked(u), Free(u) # {}, u.call_state = "IDLE"
  PROVE  LET v == NewListening(u)
         IN \A s : Reached(s, v)
<1> DEFINE m == CloseMediaApplication(u)
           v == Collected([CallHungUp(m) EXCEPT !.call = 0])
           c == NewCall(v)
           new == NewListening(u)
<1>1. Linked(m) /\ Free(m) # {} /\ m.call_state = "IDLE" /\ ~m.audio_app
  BY SilentFields
<1> HIDE DEF m
<1>2. /\ v \in UserAgent
      /\ v.call_state = "IDLE" /\ ~v.audio_app
      /\ v.call_transfer # 0 => v.dialog[v.call_transfer] \notin {"INIT", "WAITING", "INVITED"}
      /\ Free(v) # {}
  BY <1>1, LetGoFields
<1>3. new = [v EXCEPT !.call = c, !.dialog[c] = "WAITING", !.listening = c]
  BY DEF NewListening, m
<1> HIDE DEF v, new
<1>4. c \in Call /\ v.dialog[c] = "INIT"
  BY <1>2, NewCallIsFree
<1> HIDE DEF c
<1>5. c \in CallOrNull /\ c # 0
  BY <1>4, CallIsNotNull
<1>6. /\ new \in UserAgent
      /\ new.call = c /\ new.listening = c /\ new.dialog[c] = "WAITING"
      /\ new.call_state = "IDLE" /\ ~new.audio_app /\ new.call_transfer = v.call_transfer
      /\ \A d \in Call \ {c} : new.dialog[d] = v.dialog[d]
  BY <1>2, <1>3, <1>4, <1>5 DEF UserAgent, Status
<1>7. v.call_transfer \in Call \/ v.call_transfer = 0
  BY <1>2 DEF UserAgent, Call, CallOrNull
<1>8. Linked(new)
  BY <1>2, <1>4, <1>6, <1>7 DEF Linked
<1>9. Shown(new)
  BY <1>6 DEF Shown, InSession
<1> QED
  BY <1>6, <1>8, <1>9 DEF Reached, new

LEMMA ToIdleReached ==
  ASSUME NEW u, Linked(u), Free(u) # {}, u.call_state # "IDLE"
  PROVE  \A s : Reached(s, ToIdle(u))
<1> DEFINE v == [u EXCEPT !.call_state = "IDLE"]
<1>1. u \in UserAgent
  BY DEF Linked
<1>2. /\ v \in UserAgent /\ v.call_state = "IDLE"
      /\ v.call = u.call /\ v.call_transfer = u.call_transfer
      /\ v.listening = u.listening /\ v.dialog = u.dialog
  BY <1>1 DEF UserAgent
<1>3. ToIdle(u) = NewListening(v)
  <2>1. ToIdle(u) = Listen(v)
    BY DEF ToIdle
  <2> QED
    BY <1>2, <2>1 DEF Listen
<1> HIDE DEF v
<1>4. Linked(v) /\ Free(v) # {}
  BY <1>2 DEF Linked, Free
<1> QED
  BY <1>2, <1>3, <1>4, NewListeningReached

LEMMA HangUpReached ==
  ASSUME NEW u, Linked(u), Free(u) # {},
         u.call_state = "IDLE" => u.dialog[u.call] = "WAITING",
         NEW s, s # "IDLE" => u.call_state # "IDLE"
  PROVE  Reached(s, HangUp(u))
<1> DEFINE m == CloseMediaApplication(u)
           v == CallHungUp(m)
<1>1. /\ Linked(m) /\ Free(m) # {} /\ m.call_state = u.call_state /\ ~m.audio_app
      /\ m.call = u.call /\ m.dialog = u.dialog
  BY SilentFields
<1>2. HangUp(u) = ToIdle(v)
  BY DEF HangUp
<1> HIDE DEF m
<1>3. /\ Linked(v) /\ Free(v) # {} /\ v.call_state = u.call_state /\ ~v.audio_app
      /\ v.call = u.call
      /\ v.dialog[u.call] = HungUp(u.dialog[u.call])
  BY <1>1, CallHungUpLinked
<1> HIDE DEF v
<1>4. CASE u.call_state = "IDLE"
  <2>1. HangUp(u) = v
    BY <1>2, <1>3, <1>4 DEF ToIdle
  <2>2. v.dialog[v.call] = "WAITING"
    BY <1>3, <1>4 DEF HungUp
  <2>3. Shown(v)
    BY <1>3, <1>4, <2>2 DEF Shown, InSession
  <2> QED
    BY <1>3, <1>4, <2>1, <2>3 DEF Reached
<1>5. CASE u.call_state # "IDLE"
  BY <1>2, <1>3, <1>5, ToIdleReached
<1> QED
  BY <1>4, <1>5

LEMMA LaunchedReached ==
  ASSUME NEW u, Linked(u), Shown(u), Free(u) # {}, NEW c, NEW v \in Launched(u, c),
         NEW s, s # "IDLE" => u.call_state # "IDLE"
  PROVE  Reached(s, v)
<1>1. \/ v = u
      \/ v = HangUp(u)
      \/ u.dialog[u.call] # "WAITING" /\ v = [u EXCEPT !.audio_app = TRUE]
  BY DEF Launched
<1>2. CASE v = u
  BY <1>2 DEF Reached
<1>3. CASE v = HangUp(u)
  BY <1>3, HangUpReached DEF Shown
<1>4. CASE u.dialog[u.call] # "WAITING" /\ v = [u EXCEPT !.audio_app = TRUE]
  <2>1. u \in UserAgent
    BY DEF Linked
  <2>2. /\ v \in UserAgent
        /\ v.call_state = u.call_state /\ v.call = u.call
        /\ v.call_transfer = u.call_transfer
        /\ v.listening = u.listening /\ v.dialog = u.dialog
    BY <1>4, <2>1 DEF UserAgent
  <2>3. u.call_state # "IDLE"
    BY <1>4 DEF Shown
  <2> QED
    BY <2>2, <2>3 DEF Linked, Shown, Reached
<1> QED
  BY <1>1, <1>2, <1>3, <1>4

-----------------------------------------------------------------------------
(* The call-backs.                                                         *)

\* What the step of the dialog of c to the status st makes of ua.
Moved(c, st, m) ==
  /\ m \in UserAgent
  /\ m.call_state = ua.call_state /\ m.audio_app = ua.audio_app
  /\ m.call = ua.call /\ m.call_transfer = ua.call_transfer
  /\ m.listening = IF ua.listening = c THEN 0 ELSE ua.listening
  /\ m.dialog[c] = st
  /\ \A d \in Call \ {c} : m.dialog[d] = ua.dialog[d]
  /\ Linked(m)
  /\ Free(m) # {}

LEMMA DialogMoved ==
  ASSUME IInv, HasRoom, NEW c \in Call, ua.dialog[c] # "INIT",
         NEW st \in Status, st \notin {"INIT", "WAITING"},
         st = "INVITED" => c = ua.call
  PROVE  Moved(c, st, [ua EXCEPT !.dialog[c] = st,
                                 !.listening = IF @ = c THEN 0 ELSE @])
<1> DEFINE m == [ua EXCEPT !.dialog[c] = st, !.listening = IF @ = c THEN 0 ELSE @]
           dialog == [ua.dialog EXCEPT ![c] = st]
           listening == IF ua.listening = c THEN 0 ELSE ua.listening
<1>1. /\ ua \in UserAgent
      /\ ua.dialog \in [Call -> Status] /\ ua.listening \in CallOrNull
      /\ ua.call \in Call /\ ua.call_transfer \in CallOrNull
  BY DEF IInv, Linked, UserAgent
<1>2. /\ dialog \in [Call -> Status]
      /\ dialog[c] = st
      /\ \A d \in Call \ {c} : dialog[d] = ua.dialog[d]
  BY <1>1
<1>3. listening \in CallOrNull
  BY <1>1, CallsAssumption DEF CallOrNull
<1>4. m = [ua EXCEPT !.dialog = dialog, !.listening = listening]
  OBVIOUS
<1> HIDE DEF m, dialog, listening
<1>5. /\ m \in UserAgent
      /\ m.call_state = ua.call_state /\ m.audio_app = ua.audio_app
      /\ m.call = ua.call /\ m.call_transfer = ua.call_transfer
      /\ m.listening = listening /\ m.dialog = dialog
  BY <1>1, <1>2, <1>3, <1>4 DEF UserAgent
<1>6. Free(m) # {}
  <2>1. PICK d \in Call : ua.dialog[d] = "INIT"
    BY DEF HasRoom, Free
  <2> QED
    BY <1>2, <1>5, <2>1 DEF Free
<1>7. ua.call_transfer \in Call \/ ua.call_transfer = 0
  BY <1>1 DEF Call, CallOrNull
<1>8. Linked(m)
  BY <1>1, <1>2, <1>5, <1>7 DEF IInv, Linked, listening
<1>9. Moved(c, st, m)
  BY <1>2, <1>5, <1>6, <1>8 DEF Moved, listening
<1> QED
  BY <1>9 DEF m

LEMMA MovedElsewhere ==
  ASSUME IInv, NEW c \in Call, NEW st, NEW m, Moved(c, st, m), c # ua.call
  PROVE  Reached(ua.call_state, m)
BY DEF IInv, Moved, Linked, Shown, Reached

LEMMA OnCallIncomingReached ==
  ASSUME IInv, NEW c \in Call, NEW m, Moved(c, "INVITED", m), ua.dialog[c] = "WAITING",
         c = ua.call,
         NEW v \in OnCallIncoming(m, c)
  PROVE  Reached(ua.call_state, v)
<1> DEFINE refused == [m EXCEPT !.dialog[c] = HungUp(m.dialog[c])]
           ringing == [m EXCEPT !.call_state = "INCOMING"]
<1>1. /\ m \in UserAgent /\ m.call = c /\ m.dialog[c] = "INVITED"
      /\ m.call_state = ua.call_state
      /\ Linked(m) /\ Free(m) # {}
      /\ ua.call_state \in {"IDLE", "INCALL", "HOLD"}
  <2>1. ua.call_state \notin {"INCOMING", "OUTGOING"}
    BY DEF IInv, Shown
  <2> QED
    BY <2>1 DEF Moved, IInv, Linked, UserAgent
<1>2. /\ Linked(refused) /\ Free(refused) # {}
      /\ refused.call = c
      /\ refused.call_state = m.call_state /\ refused.dialog[c] = "REFUSED"
  <2> DEFINE dialog == [m.dialog EXCEPT ![c] = "REFUSED"]
  <2>1. refused = [m EXCEPT !.dialog = dialog]
    BY <1>1 DEF HungUp
  <2>2. /\ dialog \in [Call -> Status] /\ dialog[c] = "REFUSED"
        /\ \A d \in Call \ {c} : dialog[d] = m.dialog[d]
    BY <1>1 DEF UserAgent, Status
  <2> HIDE DEF dialog, refused
  <2>3. /\ refused \in UserAgent /\ refused.dialog = dialog
        /\ refused.call_state = m.call_state /\ refused.call = c
        /\ refused.call_transfer = m.call_transfer
        /\ refused.listening = m.listening
    BY <1>1, <2>1, <2>2 DEF UserAgent
  <2>4. m.call_transfer \in Call \/ m.call_transfer = 0
    BY <1>1 DEF UserAgent, Call, CallOrNull
  <2>5. Free(refused) # {}
    <3>1. PICK d \in Call : m.dialog[d] = "INIT"
      BY <1>1 DEF Free
    <3> QED
      BY <1>1, <2>2, <2>3, <3>1 DEF Free
  <2> QED
    BY <1>1, <2>2, <2>3, <2>4, <2>5 DEF Linked
<1>3. /\ Linked(ringing) /\ Shown(ringing) /\ Free(ringing) # {}
      /\ ringing.call_state = "INCOMING"
  <2>1. /\ ringing \in UserAgent /\ ringing.call_state = "INCOMING"
        /\ ringing.call = m.call /\ ringing.call_transfer = m.call_transfer
        /\ ringing.listening = m.listening /\ ringing.dialog = m.dialog
    BY <1>1 DEF UserAgent
  <2> QED
    BY <1>1, <2>1 DEF Linked, Shown, Free, InSession
<1>4. IF m.call_state # "IDLE" THEN v = Listen(refused)
      ELSE v \in {Listen(refused), ToIdle(ringing)} \cup Launched(ringing, c)
  BY <1>1 DEF OnCallIncoming, IsCurrent
<1> HIDE DEF refused, ringing
<1>5. CASE m.call_state # "IDLE"
  <2>1. v = refused
    BY <1>2, <1>4, <1>5 DEF Listen
  <2>2. Shown(refused)
    BY <1>1, <1>2, <1>5 DEF Shown, InSession
  <2> QED
    BY <1>2, <1>5, <2>1, <2>2 DEF Reached
<1>6. CASE m.call_state = "IDLE"
  <2>1. CASE v = Listen(refused)
    <3>1. v = NewListening(refused)
      BY <1>2, <1>6, <2>1 DEF Listen
    <3> QED
      BY <1>2, <1>6, <3>1, NewListeningReached
  <2>2. CASE v = ToIdle(ringing)
    BY <1>3, <2>2, ToIdleReached
  <2>3. CASE v \in Launched(ringing, c)
    BY <1>3, <2>3, LaunchedReached
  <2> QED
    BY <1>4, <1>6, <2>1, <2>2, <2>3
<1> QED
  BY <1>5, <1>6

LEMMA OnCallModifyingReached ==
  ASSUME IInv, NEW c \in Call, NEW m, Moved(c, "ReINVITED", m), ua.dialog[c] \in InSession,
         NEW v \in OnCallModifying(m, c)
  PROVE  Reached(ua.call_state, v)
<1>1. CASE c # ua.call
  <2>1. v = m
    BY <1>1 DEF OnCallModifying, IsCurrent, Moved
  <2> QED
    BY <1>1, <2>1, MovedElsewhere
<1>2. CASE c = ua.call
  <2> DEFINE dialog == [m.dialog EXCEPT ![c] = "ReACCEPTED"]
  <2>1. v = [m EXCEPT !.dialog = dialog]
    BY <1>2 DEF OnCallModifying, IsCurrent, Moved, Accepted
  <2>2. m \in UserAgent /\ Linked(m)
    BY DEF Moved
  <2>3. /\ dialog \in [Call -> Status] /\ dialog[c] = "ReACCEPTED"
        /\ \A d \in Call \ {c} : dialog[d] = m.dialog[d]
    BY <2>2 DEF UserAgent, Status, InSession
  <2> HIDE DEF dialog
  <2>4. /\ v \in UserAgent /\ v.dialog = dialog
        /\ v.call_state = m.call_state /\ v.call = m.call
        /\ v.call_transfer = m.call_transfer
        /\ v.listening = m.listening /\ v.audio_app = m.audio_app
    BY <2>1, <2>2, <2>3 DEF UserAgent
  <2>5. m.call_transfer \in Call \/ m.call_transfer = 0
    BY <2>2 DEF UserAgent, Call, CallOrNull
  <2>6. m.call = c /\ m.call_state \in {"INCALL", "HOLD"} /\ m.listening = 0
    BY <1>2 DEF Moved, IInv, Shown, Linked
  <2>7. Linked(v)
    BY <1>2, <2>2, <2>3, <2>4, <2>5, <2>6 DEF Linked
  <2>8. Shown(v)
    BY <2>3, <2>4, <2>6 DEF Shown
  <2> QED
    BY <2>4, <2>6, <2>7, <2>8 DEF Reached
<1> QED
  BY <1>1, <1>2

LEMMA OnCallAcceptedReached ==
  ASSUME IInv, NEW c \in Call, NEW m, Moved(c, "CALL", m), ua.dialog[c] = "INVITING",
         NEW v \in OnCallAccepted(m, c)
  PROVE  Reached(ua.call_state, v)
<1> DEFINE incall == [m EXCEPT !.call_state = "INCALL"]
<1>1. /\ m \in UserAgent /\ Linked(m) /\ Free(m) # {}
      /\ m.call = ua.call /\ m.call_state = ua.call_state
      /\ m.call_state = "IDLE" => m.dialog[m.call] = "WAITING"
  BY DEF Moved, IInv, Shown, Linked
<1>2. \/ v = m /\ c # m.call
      \/ v = HangUp(m)
      \/ m.call_state = "OUTGOING" /\ v \in Launched(incall, c)
  BY DEF OnCallAccepted, IsCurrentOrTransfer
<1>3. CASE v = m /\ c # m.call
  BY <1>1, <1>3, MovedElsewhere
<1>4. CASE v = HangUp(m)
  BY <1>1, <1>4, HangUpReached
<1>5. CASE m.call_state = "OUTGOING" /\ v \in Launched(incall, c)
  <2>1. /\ incall \in UserAgent /\ incall.call_state = "INCALL"
        /\ incall.call = m.call /\ incall.call_transfer = m.call_transfer
        /\ incall.listening = m.listening /\ incall.dialog = m.dialog
    BY <1>1 DEF UserAgent
  <2> HIDE DEF incall
  <2>2. m.dialog[m.call] \in {"INVITING", "CALL"}
    BY <1>1, <1>5 DEF Moved, IInv, Shown, Linked
  <2>3. Linked(incall) /\ Shown(incall) /\ Free(incall) # {}
    BY <1>1, <2>1, <2>2 DEF Linked, Shown, Free
  <2> QED
    BY <1>5, <2>1, <2>3, LaunchedReached
<1> QED
  BY <1>2, <1>3, <1>4, <1>5

LEMMA OnCallRedirectionReached ==
  ASSUME IInv, NEW c \in Call, NEW m, Moved(c, "CLOSE", m), ua.dialog[c] = "INVITING",
         NEW v \in OnCallRedirection(m, c)
  PROVE  Reached(ua.call_state, v)
<1>1. CASE c # ua.call
  <2>1. v = m
    BY <1>1 DEF OnCallRedirection, IsCurrent, Moved
  <2> QED
    BY <1>1, <2>1, MovedElsewhere
<1>2. CASE c = ua.call
  <2> DEFINE dialog == [m.dialog EXCEPT ![c] = "INVITING"]
  <2>1. v = [m EXCEPT !.dialog = dialog]
    BY <1>2 DEF OnCallRedirection, IsCurrent, Moved
  <2>2. m \in UserAgent /\ Linked(m)
    BY DEF Moved
  <2>3. /\ dialog \in [Call -> Status] /\ dialog[c] = "INVITING"
        /\ \A d \in Call \ {c} : dialog[d] = m.dialog[d]
    BY <2>2 DEF UserAgent, Status
  <2> HIDE DEF dialog
  <2>4. /\ v \in UserAgent /\ v.dialog = dialog
        /\ v.call_state = m.call_state /\ v.call = m.call
        /\ v.call_transfer = m.call_transfer
        /\ v.listening = m.listening /\ v.audio_app = m.audio_app
    BY <2>1, <2>2, <2>3 DEF UserAgent
  <2>5. m.call_transfer \in Call \/ m.call_transfer = 0
    BY <2>2 DEF UserAgent, Call, CallOrNull
  <2>6. m.call = c /\ m.call_state = ua.call_state /\ m.listening = 0
    BY <1>2 DEF Moved, IInv, Linked
  <2>7. Linked(v)
    BY <1>2, <2>2, <2>3, <2>4, <2>5, <2>6 DEF Linked
  <2>8. ua.call_state \notin {"IDLE", "INCOMING"}
    BY <1>2 DEF IInv, Shown
  <2>9. Shown(v)
    BY <2>3, <2>4, <2>6, <2>8 DEF Shown, InSession
  <2> QED
    BY <2>4, <2>6, <2>7, <2>8, <2>9 DEF Reached
<1> QED
  BY <1>1, <1>2

LEMMA OnCallReInviteAcceptedReached ==
  ASSUME IInv, NEW c \in Call, NEW m, Moved(c, "CALL", m), ua.dialog[c] = "ReINVITING",
         NEW v \in OnCallReInviteAccepted(m, c)
  PROVE  Reached(ua.call_state, v)
<1>1. CASE c # ua.call
  <2>1. v = m
    BY <1>1 DEF OnCallReInviteAccepted, IsCurrent, Moved
  <2> QED
    BY <1>1, <2>1, MovedElsewhere
<1>2. CASE c = ua.call
  <2> DEFINE next == IF m.call_state = "HOLD" THEN "INCALL" ELSE "HOLD"
  <2>1. v = [m EXCEPT !.call_state = next]
    BY <1>2 DEF OnCallReInviteAccepted, IsCurrent, Moved
  <2>2. m \in UserAgent /\ Linked(m) /\ m.dialog[m.call] = "CALL"
    BY <1>2 DEF Moved
  <2>3. next \in {"INCALL", "HOLD"}
    OBVIOUS
  <2> HIDE DEF next
  <2>4. /\ v \in UserAgent /\ v.dialog = m.dialog
        /\ v.call_state = next /\ v.call = m.call
        /\ v.call_transfer = m.call_transfer
        /\ v.listening = m.listening
    BY <2>1, <2>2, <2>3 DEF UserAgent
  <2>5. Linked(v)
    BY <2>2, <2>4 DEF Linked
  <2>6. Shown(v)
    BY <2>2, <2>3, <2>4 DEF Shown
  <2> QED
    BY <2>3, <2>4, <2>5, <2>6 DEF Reached
<1> QED
  BY <1>1, <1>2

\* A dialog that ends while the current Call's was not waiting.
LEMMA OnCallEndedReached ==
  ASSUME IInv, NEW c \in Call, NEW st, NEW m, Moved(c, st, m), ua.dialog[c] # "WAITING",
         NEW v \in OnCallEnded(m, c)
  PROVE  Reached(ua.call_state, v)
<1>1. CASE c # ua.call
  <2>1. v = m
    BY <1>1 DEF OnCallEnded, IsCurrent, Moved
  <2> QED
    BY <1>1, <2>1, MovedElsewhere
<1>2. CASE c = ua.call
  <2>1. v = ToIdle(m)
    BY <1>2 DEF OnCallEnded, IsCurrent, Moved
  <2>2. Linked(m) /\ Free(m) # {} /\ m.call_state # "IDLE"
    BY <1>2 DEF Moved, IInv, Shown
  <2> QED
    BY <2>1, <2>2, ToIdleReached
<1> QED
  BY <1>1, <1>2

LEMMA OnCallClosingReached ==
  ASSUME IInv, NEW c \in Call, NEW m, Moved(c, "CLOSE", m), ua.dialog[c] \in {"CALL", "BYEING"},
         NEW v \in OnCallClosing(m, c)
  PROVE  Reached(ua.call_state, v)
<1> DEFINE transferred == [m EXCEPT !.call = m.call_transfer, !.call_transfer = 0]
           silent == CloseMediaApplication(m)
<1>1. /\ m \in UserAgent /\ Linked(m) /\ Free(m) # {}
      /\ m.call = ua.call /\ m.call_state = ua.call_state
  BY DEF Moved
<1>2. \/ v = m /\ c # m.call
      \/ /\ v = transferred
         /\ c = m.call /\ m.call_transfer # 0
      \/ v = ToIdle(silent)
  BY DEF OnCallClosing, IsCurrentOrTransfer
<1>3. CASE v = m /\ c # m.call
  BY <1>1, <1>3, MovedElsewhere
<1>4. CASE v = transferred /\ c = m.call /\ m.call_transfer # 0
  <2>1. m.call_transfer \in Call
    BY <1>1, <1>4 DEF UserAgent, Call, CallOrNull
  <2>2. /\ v \in UserAgent /\ v.dialog = m.dialog /\ v.call_state = m.call_state
        /\ v.call = m.call_transfer /\ v.call_transfer = 0
        /\ v.listening = m.listening
    <3>1. 0 \in CallOrNull
      BY CallsAssumption DEF CallOrNull
    <3>2. v = [m EXCEPT !.call = m.call_transfer, !.call_transfer = 0]
      BY <1>4
    <3> QED
      BY <1>1, <3>1, <3>2 DEF UserAgent
  <2>3. m.call_state \in {"INCALL", "HOLD"} /\ m.listening = 0
    BY <1>1, <1>4 DEF Moved, IInv, Shown, Linked, InSession
  <2>4. Linked(v)
    BY <1>1, <1>4, <2>1, <2>2, <2>3 DEF Linked
  <2>5. Shown(v)
    BY <1>1, <1>4, <2>2, <2>3 DEF Shown, Linked
  <2> QED
    BY <2>2, <2>3, <2>4, <2>5 DEF Reached
<1>5. CASE v = ToIdle(silent)
  <2>1. /\ Linked(silent) /\ Free(silent) # {}
        /\ silent.call_state = m.call_state /\ silent.call = m.call
        /\ ~silent.audio_app /\ silent.dialog = m.dialog
    BY <1>1, SilentFields
  <2> HIDE DEF silent
  <2>2. CASE m.call_state # "IDLE"
    BY <1>5, <2>1, <2>2, ToIdleReached
  <2>3. CASE m.call_state = "IDLE"
    <3>1. v = silent
      BY <1>5, <2>1, <2>3 DEF ToIdle
    <3>2. m.dialog[m.call] = "WAITING"
      BY <1>1, <2>3 DEF Moved, IInv, Shown, Linked
    <3>3. Shown(silent)
      BY <2>1, <2>3, <3>2 DEF Shown, InSession
    <3> QED
      BY <1>1, <2>1, <2>3, <3>1, <3>3 DEF Reached
  <2> QED
    BY <2>2, <2>3
<1> QED
  BY <1>2, <1>3, <1>4, <1>5

\* The steps that the Call does not tell the user agent of.
LEMMA UnheardReached ==
  ASSUME IInv, NEW c \in Call, NEW st, NEW m, Moved(c, st, m),
         ua.dialog[c] \in InSession \cup {"REFUSED"},
         st \in InSession \cup {"CLOSE"}
  PROVE  Reached(ua.call_state, m)
<1>1. CASE c # ua.call
  BY <1>1, MovedElsewhere
<1>2. CASE c = ua.call
  <2>1. ua.call_state \in {"INCALL", "HOLD"}
    <3>1. ua.call_state \notin {"IDLE", "INCOMING", "OUTGOING"}
      BY <1>2 DEF IInv, Shown, InSession
    <3> QED
      BY <3>1 DEF IInv, Linked, UserAgent
  <2>2. Shown(m)
    BY <1>2, <2>1 DEF Moved, Shown, InSession
  <2> QED
    BY <2>1, <2>2 DEF Moved, Reached
<1> QED
  BY <1>1, <1>2

-----------------------------------------------------------------------------
(* The actions.                                                            *)

\* What the events of Steps do to the status.
LEMMA StepStatus ==
  ASSUME NEW event \in DOMAIN Steps, NEW step \in Steps[event]
  PROVE  /\ step[1] \in Status \ {"INIT"}
         /\ step[2] \in Status \ {"INIT", "WAITING"}
         /\ event = "onDlgInvite" => step[1] = "WAITING" /\ step[2] = "INVITED"
         /\ event # "onDlgInvite" => step[1] # "WAITING" /\ step[2] # "INVITED"
         /\ event = "onDlgReInvite" => step[1] \in InSession /\ step[2] = "ReINVITED"
         /\ event = "onDlgInviteSuccessResponse" => step[1] = "INVITING" /\ step[2] = "CALL"
         /\ event = "onDlgInviteRedirectResponse" => step[1] = "INVITING" /\ step[2] = "CLOSE"
         /\ event = "onDlgReInviteSuccessResponse" => step[1] = "ReINVITING" /\ step[2] = "CALL"
         /\ event = "onDlgBye" => step[1] \in {"CALL", "BYEING"} /\ step[2] = "CLOSE"
         /\ event \in {"onDlgReInviteFailureResponse", "onDlgAck", "onTransTimeout",
                       "onTransAckTimeout", "onTransFailureAck"} =>
              step[1] \in InSession \cup {"REFUSED"} /\ step[2] \in InSession \cup {"CLOSE"}
BY DEF Steps, Status, InSession

LEMMA DialogMovesReached ==
  ASSUME IInv, NEW c \in Call, NEW event \in DOMAIN Steps, DialogMoves(c, event)
  PROVE  Reached(ua.call_state, ua')
<1>1. PICK step \in Steps[event] :
        /\ HasRoom
        /\ ua.dialog[c] = step[1]
        /\ step[1] = "WAITING" => ua.listening = c
        /\ \E u \in Outcomes([ua EXCEPT !.dialog[c] = step[2],
                                        !.listening = IF @ = c THEN 0 ELSE @], c, event) :
             ua' = Collected(u)
  BY DEF DialogMoves
<1>2. PICK st : st = step[2]
  OBVIOUS
<1> DEFINE m == [ua EXCEPT !.dialog[c] = st, !.listening = IF @ = c THEN 0 ELSE @]
<1>3. PICK u \in Outcomes(m, c, event) : ua' = Collected(u)
  BY <1>1, <1>2
<1>4. st = "INVITED" => c = ua.call
  <2>1. st = "INVITED" => ua.listening = c
    BY <1>1, <1>2, StepStatus
  <2> QED
    BY <2>1, CallIsNotNull DEF IInv, Linked
<1>5. Moved(c, st, m)
  BY <1>1, <1>2, <1>4, StepStatus, DialogMoved
<1> HIDE DEF m
<1>6. Reached(ua.call_state, u)
  <2>1. CASE event = "onDlgInvite"
    <3>1. u \in OnCallIncoming(m, c)
      BY <1>3, <2>1 DEF Outcomes
    <3>2. ua.dialog[c] = "WAITING" /\ st = "INVITED"
      BY <1>1, <1>2, <2>1, StepStatus
    <3> QED
      BY <1>4, <1>5, <3>1, <3>2, OnCallIncomingReached
  <2>2. CASE event = "onDlgReInvite"
    <3>1. u \in OnCallModifying(m, c)
      BY <1>3, <2>2 DEF Outcomes
    <3>2. ua.dialog[c] \in InSession /\ st = "ReINVITED"
      BY <1>1, <1>2, <2>2, StepStatus
    <3> QED
      BY <1>5, <3>1, <3>2, OnCallModifyingReached
  <2>3. CASE event = "onDlgInviteSuccessResponse"
    <3>1. u \in OnCallAccepted(m, c)
      BY <1>3, <2>3 DEF Outcomes
    <3>2. ua.dialog[c] = "INVITING" /\ st = "CALL"
      BY <1>1, <1>2, <2>3, StepStatus
    <3> QED
      BY <1>5, <3>1, <3>2, OnCallAcceptedReached
  <2>4. CASE event = "onDlgInviteRedirectResponse"
    <3>1. u \in OnCallRedirection(m, c)
      BY <1>3, <2>4 DEF Outcomes
    <3>2. ua.dialog[c] = "INVITING" /\ st = "CLOSE"
      BY <1>1, <1>2, <2>4, StepStatus
    <3> QED
      BY <1>5, <3>1, <3>2, OnCallRedirectionReached
  <2>5. CASE event = "onDlgReInviteSuccessResponse"
    <3>1. u \in OnCallReInviteAccepted(m, c)
      BY <1>3, <2>5 DEF Outcomes
    <3>2. ua.dialog[c] = "ReINVITING" /\ st = "CALL"
      BY <1>1, <1>2, <2>5, StepStatus
    <3> QED
      BY <1>5, <3>1, <3>2, OnCallReInviteAcceptedReached
  <2>6. CASE event = "onDlgBye"
    <3>1. u \in OnCallClosing(m, c)
      BY <1>3, <2>6 DEF Outcomes
    <3>2. ua.dialog[c] \in {"CALL", "BYEING"} /\ st = "CLOSE"
      BY <1>1, <1>2, <2>6, StepStatus
    <3> QED
      BY <1>5, <3>1, <3>2, OnCallClosingReached
  <2>7. CASE event \in {"onDlgInviteFailureResponse", "onDlgTimeout", "onDlgCancel",
                        "onDlgByeSuccessResponse", "onDlgByeFailureResponse"}
    <3>1. u \in OnCallEnded(m, c)
      BY <1>3, <2>7 DEF Outcomes
    <3>2. ua.dialog[c] # "WAITING"
      BY <1>1, <2>7, StepStatus
    <3> QED
      BY <1>5, <3>1, <3>2, OnCallEndedReached
  <2>8. CASE event \in {"onDlgReInviteFailureResponse", "onDlgAck", "onTransTimeout",
                        "onTransAckTimeout", "onTransFailureAck"}
    <3>1. u = m
      BY <1>3, <2>8 DEF Outcomes
    <3>2. /\ ua.dialog[c] \in InSession \cup {"REFUSED"}
          /\ st \in InSession \cup {"CLOSE"}
      BY <1>1, <1>2, <2>8, StepStatus
    <3> QED
      BY <1>5, <3>1, <3>2, UnheardReached
  <2> QED
    BY <2>1, <2>2, <2>3, <2>4, <2>5, <2>6, <2>7, <2>8 DEF Steps
<1> QED
  BY <1>3, <1>6, CollectedReached

LEMMA NetworkReached ==
  ASSUME IInv, NEW c \in Call, Ringing(c) \/ Referred(c) \/ Notified(c)
  PROVE  Reached(ua.call_state, ua')
<1>1. /\ ua \in UserAgent /\ Linked(ua) /\ Shown(ua) /\ Reached(ua.call_state, ua)
      /\ ua.dialog \in [Call -> Status]
  BY DEF IInv, Linked, Reached, UserAgent
<1>2. CASE Ringing(c)
  <2>1. PICK u \in OnCallRinging(ua, c) : ua' = Collected(u)
    BY <1>2 DEF Ringing
  <2>2. Reached(ua.call_state, u)
    <3>1. u = ua \/ u \in Launched(ua, c)
      BY DEF OnCallRinging
    <3> QED
      BY <1>1, <1>2, <3>1, LaunchedReached DEF Ringing, HasRoom
  <2> QED
    BY <2>1, <2>2, CollectedReached
<1>3. CASE Referred(c)
  <2> DEFINE d == NewCall(ua)
             u == OnCallTransfer(ua, c)
  <2>1. d \in Call /\ ua.dialog[d] = "INIT"
    BY <1>3, NewCallIsFree DEF Referred, HasRoom
  <2>2. ua' = Collected(u)
    BY <1>3 DEF Referred
  <2>3. u = ua \/ u = [ua EXCEPT !.call_transfer = d, !.dialog[d] = "INVITING"]
    BY DEF OnCallTransfer
  <2> HIDE DEF d, u
  <2>4. Reached(ua.call_state, u)
    <3>1. CASE u = [ua EXCEPT !.call_transfer = d, !.dialog[d] = "INVITING"]
      <4> DEFINE dialog == [ua.dialog EXCEPT ![d] = "INVITING"]
      <4>1. /\ dialog \in [Call -> Status] /\ dialog[d] = "INVITING"
            /\ \A e \in Call \ {d} : dialog[e] = ua.dialog[e]
        BY <1>1, <2>1 DEF Status
      <4>2. u = [ua EXCEPT !.call_transfer = d, !.dialog = dialog]
        BY <3>1
      <4> HIDE DEF dialog
      <4>3. d \in CallOrNull /\ d # 0 /\ d # ua.call
        BY <1>1, <2>1, CallIsNotNull DEF Linked
      <4>4. /\ u \in UserAgent /\ u.dialog = dialog /\ u.call_transfer = d
            /\ u.call_state = ua.call_state /\ u.call = ua.call
            /\ u.listening = ua.listening /\ u.audio_app = ua.audio_app
        BY <1>1, <4>1, <4>2, <4>3 DEF UserAgent
      <4> QED
        BY <1>1, <2>1, <4>1, <4>3, <4>4 DEF Linked, Shown, Reached
    <3> QED
      BY <1>1, <2>3, <3>1
  <2> QED
    BY <2>2, <2>4, CollectedReached
<1>4. CASE Notified(c)
  <2> DEFINE u == CallHungUp(ua)
  <2>1. ua' = ua \/ (ua' = u /\ c = ua.call /\ ua.dialog[c] \in InSession)
    BY <1>4 DEF Notified, OnCallTransferSuccess, IsCurrent
  <2>2. CASE ua' = u /\ c = ua.call /\ ua.dialog[c] \in InSession
    <3>1. /\ Linked(u) /\ u.call_state = ua.call_state /\ u.call = ua.call
          /\ u.audio_app = ua.audio_app
          /\ u.dialog[c] = HungUp(ua.dialog[c])
      BY <1>1, <2>2, CallHungUpLinked
    <3> HIDE DEF u
    <3>2. u.dialog[c] \in InSession
      BY <1>1, <2>2, <3>1, HungUpStatus
    <3>3. ua.call_state \in {"INCALL", "HOLD"}
      BY <1>1, <2>2 DEF Shown
    <3>4. Shown(u)
      BY <2>2, <3>1, <3>2, <3>3 DEF Shown, InSession
    <3> QED
      BY <2>2, <3>1, <3>3, <3>4 DEF Reached
  <2> QED
    BY <1>1, <2>1, <2>2
<1> QED
  BY <1>2, <1>3, <1>4

LEMMA PlaceCallReached ==
  ASSUME IInv, PlaceCall
  PROVE  Reached(ua.call_state, ua')
<1> DEFINE m == CloseMediaApplication(ua)
           v == Collected([CallHungUp(m) EXCEPT !.call = 0])
           c == NewCall(v)
           new == Calling(ua)
<1>1. Linked(m) /\ Free(m) # {} /\ m.call_state = "IDLE"
  BY SilentFields DEF IInv, PlaceCall, HasRoom
<1>2. HangUp(ua) = CallHungUp(m)
  <2>1. CallHungUp(m).call_state = "IDLE"
    BY <1>1, CallHungUpLinked
  <2> QED
    BY <2>1 DEF HangUp, ToIdle
<1> HIDE DEF m
<1>3. /\ v \in UserAgent
      /\ v.listening = 0
      /\ v.call_transfer # 0 => v.dialog[v.call_transfer] \notin {"INIT", "WAITING", "INVITED"}
      /\ Free(v) # {}
  BY <1>1, LetGoFields
<1>4. new = [v EXCEPT !.call_state = "OUTGOING", !.call = c, !.dialog[c] = "INVITING"]
  BY <1>2 DEF Calling
<1>5. ua' = new
  BY DEF PlaceCall
<1> HIDE DEF v, new
<1>6. c \in Call /\ v.dialog[c] = "INIT"
  BY <1>3, NewCallIsFree
<1> HIDE DEF c
<1>7. c \in CallOrNull /\ c # 0
  BY <1>6, CallIsNotNull
<1>8. /\ new \in UserAgent
      /\ new.call = c /\ new.listening = 0 /\ new.dialog[c] = "INVITING"
      /\ new.call_state = "OUTGOING" /\ new.call_transfer = v.call_transfer
      /\ \A d \in Call \ {c} : new.dialog[d] = v.dialog[d]
  BY <1>3, <1>4, <1>6, <1>7 DEF UserAgent, Status
<1>9. v.call_transfer \in Call \/ v.call_transfer = 0
  BY <1>3 DEF UserAgent, Call, CallOrNull
<1>10. Linked(new)
  BY <1>3, <1>6, <1>8, <1>9 DEF Linked
<1>11. Shown(new)
  BY <1>8 DEF Shown, InSession
<1> QED
  BY <1>5, <1>8, <1>10, <1>11 DEF Reached

LEMMA UserReached ==
  ASSUME IInv, RejectCall \/ MediaFails \/ AnswerCall \/ ToggleHold
  PROVE  Reached(ua.call_state, ua')
<1>1. /\ ua \in UserAgent /\ Linked(ua) /\ Shown(ua)
      /\ ua.dialog \in [Call -> Status] /\ ua.call \in Call
      /\ ua.call_transfer \in Call \/ ua.call_transfer = 0
  BY DEF IInv, Linked, UserAgent, Call, CallOrNull
<1>2. CASE RejectCall \/ MediaFails
  <2>1. Reached(ua.call_state, HangUp(ua))
    BY <1>1, <1>2, HangUpReached DEF RejectCall, MediaFails, HasRoom, Shown
  <2> QED
    BY <1>2, <2>1, CollectedReached DEF RejectCall, MediaFails
<1>3. CASE AnswerCall
  <2> DEFINE st == Accepted(ua.dialog[ua.call])
             dialog == [ua.dialog EXCEPT ![ua.call] = st]
             new == Accepting(ua)
  <2>1. /\ st \in Status /\ st \notin {"INIT", "INVITED"}
        /\ st = "WAITING" <=> ua.dialog[ua.call] = "WAITING"
    BY <1>1, AcceptedStatus DEF Linked
  <2>2. new = [ua EXCEPT !.call_state = "INCALL", !.dialog = dialog] /\ ua' = new
    BY <1>3 DEF AnswerCall, Accepting
  <2> HIDE DEF st, new
  <2>3. /\ dialog \in [Call -> Status] /\ dialog[ua.call] = st
        /\ \A d \in Call \ {ua.call} : dialog[d] = ua.dialog[d]
    BY <1>1, <2>1
  <2> HIDE DEF dialog
  <2>4. /\ new \in UserAgent /\ new.dialog = dialog
        /\ new.call_state = "INCALL" /\ new.call = ua.call
        /\ new.call_transfer = ua.call_transfer
        /\ new.listening = ua.listening
    BY <1>1, <2>2, <2>3 DEF UserAgent
  <2>5. Linked(new)
    BY <1>1, <2>1, <2>3, <2>4 DEF Linked
  <2>6. Shown(new)
    BY <2>1, <2>3, <2>4 DEF Shown
  <2> QED
    BY <2>2, <2>4, <2>5, <2>6 DEF Reached
<1>4. CASE ToggleHold
  <2> DEFINE dialog == [ua.dialog EXCEPT ![ua.call] = "ReINVITING"]
             new == [ua EXCEPT !.dialog[ua.call] = "ReINVITING"]
  <2>1. ua.dialog[ua.call] = "CALL" /\ ua' = new
    BY <1>4 DEF ToggleHold, Modified
  <2>2. new = [ua EXCEPT !.dialog = dialog]
    OBVIOUS
  <2> HIDE DEF new
  <2>3. /\ dialog \in [Call -> Status] /\ dialog[ua.call] = "ReINVITING"
        /\ \A d \in Call \ {ua.call} : dialog[d] = ua.dialog[d]
    BY <1>1 DEF Status, InSession
  <2> HIDE DEF dialog
  <2>4. /\ new \in UserAgent /\ new.dialog = dialog
        /\ new.call_state = ua.call_state /\ new.call = ua.call
        /\ new.call_transfer = ua.call_transfer
        /\ new.listening = ua.listening /\ new.audio_app = ua.audio_app
    BY <1>1, <2>2, <2>3 DEF UserAgent
  <2>5. ua.call_state \in {"INCALL", "HOLD"}
    BY <1>1, <2>1 DEF Shown, InSession
  <2>6. Linked(new)
    BY <1>1, <2>1, <2>3, <2>4 DEF Linked
  <2>7. Shown(new)
    BY <2>3, <2>4, <2>5 DEF Shown
  <2> QED
    BY <2>1, <2>4, <2>5, <2>6, <2>7 DEF Reached
<1> QED
  BY <1>2, <1>3, <1>4

-----------------------------------------------------------------------------
(* The invariant, and what follows from it.                                *)

LEMMA InitInv == Init => IInv
<1> SUFFICES ASSUME Init PROVE IInv
  OBVIOUS
<1> DEFINE dialog == [c \in Call |-> IF c = 1 THEN "WAITING" ELSE "INIT"]
<1>1. 1 \in Call /\ 1 \in CallOrNull /\ 0 \in CallOrNull
  BY CallsAssumption DEF Call, CallOrNull
<1>2. dialog \in [Call -> Status] /\ dialog[1] = "WAITING"
  BY <1>1 DEF Status
<1>3. ua = [call_state |-> "IDLE", call |-> 1, call_transfer |-> 0, dialog |-> dialog,
            listening |-> 1, audio_app |-> FALSE]
  BY DEF Init
<1> HIDE DEF dialog
<1>4. ua \in UserAgent
  BY <1>1, <1>2, <1>3 DEF UserAgent
<1>5. Linked(ua) /\ Shown(ua)
  BY <1>1, <1>2, <1>3, <1>4 DEF Linked, Shown, InSession
<1>6. threads \in SUBSET {"answer", "reject"}
  BY DEF Init
<1> QED
  BY <1>4, <1>5, <1>6 DEF IInv, TypeOK

LEMMA NextReached ==
  ASSUME IInv, Next
  PROVE  Reached(ua.call_state, ua')
<1>1. CASE UNCHANGED ua
  BY <1>1 DEF IInv, Reached
<1>2. CASE PlaceCall
  BY <1>2, PlaceCallReached
<1>3. CASE RejectCall \/ MediaFails \/ AnswerCall \/ ToggleHold
  BY <1>3, UserReached
<1>4. CASE Network
  BY <1>4, DialogMovesReached, NetworkReached DEF Network
<1>5. PressAnswer \/ PressReject => UNCHANGED ua
  BY DEF PressAnswer, PressReject
<1> QED
  BY <1>1, <1>2, <1>3, <1>4, <1>5 DEF Next, User

LEMMA ThreadsType ==
  ASSUME TypeOK, Next
  PROVE  threads' \in SUBSET {"answer", "reject"}
BY DEF TypeOK, Next, User, PlaceCall, PressAnswer, PressReject, AnswerCall, RejectCall,
       ToggleHold, MediaFails, Network, DialogMoves, Ringing, Referred, Notified

LEMMA NextInv ==
  ASSUME IInv, [Next]_vars
  PROVE  IInv'
<1>1. CASE Next
  <2>1. Reached(ua.call_state, ua')
    BY <1>1, NextReached
  <2>2. threads' \in SUBSET {"answer", "reject"}
    BY <1>1, ThreadsType DEF IInv
  <2>3. Linked(ua)' /\ Shown(ua)'
    BY <2>1 DEF Reached, Linked, Shown
  <2>4. ua' \in UserAgent
    BY <2>3 DEF Linked
  <2> QED
    BY <2>2, <2>3, <2>4 DEF IInv, TypeOK
<1>2. CASE UNCHANGED vars
  BY <1>2 DEF vars, IInv, TypeOK, Linked, Shown
<1> QED
  BY <1>1, <1>2

\* Whatever the user, the network and the late threads of the screens do, the
\* user agent's Calls, its state, its media and its dialogs agree.
THEOREM Invariance == Spec => []IInv
<1> QED
  BY InitInv, NextInv, PTL DEF Spec

\* No handler leaves the user agent in a state, or with a Call, that it does
\* not have.
THEOREM TypeCorrect == Spec => []TypeOK
<1>1. IInv => TypeOK
  BY DEF IInv
<1> QED
  BY <1>1, Invariance, PTL

\* No media run while the phone is idle, by whatever way the call ended.
THEOREM IdleAlwaysSilent == Spec => []IdleIsSilent
<1>1. IInv => IdleIsSilent
  BY DEF IInv, Shown, IdleIsSilent
<1> QED
  BY <1>1, Invariance, PTL

\* The screen rings exactly while there is an INVITE to answer, and shows a
\* call while there is one.
THEOREM ScreenAlwaysShowsDialog == Spec => []ScreenShowsDialog
<1>1. IInv => ScreenShowsDialog
  BY DEF IInv, Shown, ScreenShowsDialog
<1> QED
  BY <1>1, Invariance, PTL

\* An INVITE never finds a Call that is not the current one.
THEOREM AlwaysHearsCurrentOnly == Spec => []HearsCurrentOnly
<1>1. IInv => HearsCurrentOnly
  BY DEF IInv, Linked, HearsCurrentOnly
<1> QED
  BY <1>1, Invariance, PTL

\* Every way back to idle, through whatever circle of handlers, ends with the
\* phone listening.
THEOREM AlwaysReturnsListening == Spec => ReturnsListening
<1>1. IInv /\ [Next]_vars =>
        [ua.call_state # "IDLE" /\ ua'.call_state = "IDLE" =>
           ua'.listening = ua'.call]_vars
  BY NextReached DEF Reached
<1> QED
  BY <1>1, Invariance, PTL DEF Spec, ReturnsListening
=============================================================================
