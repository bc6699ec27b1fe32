------------------------ MODULE FloorControl_proofs ------------------------
(***************************************************************************)
(* Proofs of what FloorControl keeps, for every set of datagrams a server  *)
(* may send.                                                               *)
(***************************************************************************)
EXTENDS FloorControl, TLAPS

-----------------------------------------------------------------------------
(* The message types are sets of bits.                                     *)

LEMMA ParsedAreBits == Parsed \subseteq SUBSET TypeBits
<1>1. /\ REQUEST \subseteq TypeBits /\ GRANTED \subseteq TypeBits /\ TAKEN \subseteq TypeBits
      /\ DENY \subseteq TypeBits /\ RELEASE \subseteq TypeBits /\ IDLE \subseteq TypeBits
      /\ REVOKE \subseteq TypeBits
  BY DEF REQUEST, GRANTED, TAKEN, DENY, RELEASE, IDLE, REVOKE, TypeBits
<1>2. /\ ACK \subseteq TypeBits /\ QUEUE_REQUEST \subseteq TypeBits
      /\ QUEUE_STATUS \subseteq TypeBits /\ DISCONNECT \subseteq TypeBits
      /\ CONNECT \subseteq TypeBits /\ TAKEN_REPLY \subseteq TypeBits /\ HELLO \subseteq TypeBits
  BY DEF ACK, QUEUE_REQUEST, QUEUE_STATUS, DISCONNECT, CONNECT, TAKEN_REPLY, HELLO, TypeBits
<1> QED
  BY <1>1, <1>2 DEF Parsed

\* What the phone sends, and what it starts from.
LEMMA SentAreBits ==
  /\ {HELLO, REQUEST, RELEASE, ACK} \subseteq SUBSET TypeBits
  /\ DISCONNECT \in Parsed /\ DISCONNECT \in SUBSET TypeBits
<1>1. HELLO \in Parsed /\ REQUEST \in Parsed /\ RELEASE \in Parsed /\ ACK \in Parsed
      /\ DISCONNECT \in Parsed
  BY DEF Parsed
<1> QED
  BY <1>1, ParsedAreBits

\* encode_mbcp_*_msg starts with three masks to or.
LEMMA EncodesType ==
  ASSUME NEW type \in SUBSET TypeBits
  PROVE  <<Version, {}, type>> \in Seq(Byte) /\ <<Version, {}, type>> # <<>>
<1>1. Version \in Byte /\ {} \in Byte /\ type \in Byte
  BY DEF Byte, Version
<1> QED
  BY <1>1

LEMMA LongTail ==
  ASSUME NEW m \in Seq(Byte), m # <<>>, Len(m) # 1
  PROVE  Tail(m) # <<>>
<1>1. Len(m) \in Nat /\ Len(m) # 0
  OBVIOUS
<1>2. Len(Tail(m)) = Len(m) - 1
  BY <1>1
<1>3. Len(Tail(m)) # 0
  BY <1>1, <1>2
<1>4. Len(<<>>) = 0
  OBVIOUS
<1> QED
  BY <1>3, <1>4, Zenon

-----------------------------------------------------------------------------
(* Type correctness.  A thread that ors has something left to or, and one  *)
(* that clears has a call of Allinit to make.                              *)

Busy ==
  \A h \in Thread :
    /\ pc[h] \in {"reading", "writing"} => masks[h] # <<>>
    /\ pc[h] = "clearing" => clears[h] \in 1 .. 2

Typed == TypeOK /\ Busy

LEMMA InitTyped == Init => Typed
<1> SUFFICES ASSUME Init PROVE Typed
  OBVIOUS
<1>1. {} \in Byte /\ <<>> \in Seq(Byte)
  BY DEF Byte
<1>2. pc \in [Thread -> Place]
  BY DEF Init, Place
<1>3. Busy
  BY DEF Init, Busy
<1>4. masks \in [Thread -> Seq(Byte)] /\ reg \in [Thread -> Byte]
  BY <1>1 DEF Init
<1>5. clears \in [Thread -> 0 .. 2]
  <2>1. 0 \in 0 .. 2
    OBVIOUS
  <2>2. clears = [h \in Thread |-> 0]
    BY DEF Init
  <2> QED
    BY <2>1, <2>2
<1>6. heard \in [ever : SUBSET Datagrams, last : SUBSET TypeBits, alone : BOOLEAN]
  BY SentAreBits DEF Init
<1>7. vps \in Byte /\ ptt_state \in Parsed /\ isAudioSending \in BOOLEAN
  BY <1>1, SentAreBits DEF Init
<1> QED
  BY <1>2, <1>3, <1>4, <1>5, <1>6, <1>7 DEF Typed, TypeOK

LEMMA EncodesTyped ==
  ASSUME Typed, NEW h \in Thread, NEW type \in SUBSET TypeBits, NEW n \in 1 .. 2,
         Encodes(h, type, n)
  PROVE  /\ masks' \in [Thread -> Seq(Byte)]
         /\ clears' \in [Thread -> 0 .. 2]
         /\ masks'[h] # <<>> /\ clears'[h] \in 1 .. 2
         /\ \A g \in Thread \ {h} : masks'[g] = masks[g] /\ clears'[g] = clears[g]
<1> DEFINE m == <<Version, {}, type>>
<1>1. m \in Seq(Byte) /\ m # <<>>
  BY EncodesType
<1>2. masks' = [masks EXCEPT ![h] = m] /\ clears' = [clears EXCEPT ![h] = n]
  BY DEF Encodes
<1> HIDE DEF m
<1>3. /\ masks' \in [Thread -> Seq(Byte)] /\ masks'[h] # <<>>
      /\ \A g \in Thread \ {h} : masks'[g] = masks[g]
  BY <1>1, <1>2 DEF Typed, TypeOK
<1>4. /\ clears' \in [Thread -> 0 .. 2] /\ clears'[h] \in 1 .. 2
      /\ \A g \in Thread \ {h} : clears'[g] = clears[g]
  BY <1>2 DEF Typed, TypeOK
<1> QED
  BY <1>3, <1>4

\* The steps of the two senders.
LEMMA SendStepsTyped ==
  ASSUME Typed, NEW h \in Thread, SendSteps(h)
  PROVE  Typed'
<1> USE DEF Typed, TypeOK
<1>1. {} \in Byte
  BY DEF Byte
<1>2. CASE Allinit(h)
  <2>1. clears[h] \in 1 .. 2
    BY <1>2 DEF Allinit, Busy
  <2>2. clears[h] - 1 \in 0 .. 2 /\ (clears[h] > 1 => clears[h] - 1 \in 1 .. 2)
    BY <2>1
  <2>3. clears' = [clears EXCEPT ![h] = clears[h] - 1] /\ masks' = masks
    BY <1>2 DEF Allinit
  <2>4. clears' \in [Thread -> 0 .. 2]
    BY <2>2, <2>3
  <2>5. pc' \in [Thread -> Place]
    BY <1>2 DEF Allinit, Goes, Place
  <2>6. ASSUME clears[h] > 1, pc' = pc
        PROVE  Busy'
    BY <2>2, <2>3, <2>6 DEF Busy
  <2>7. ASSUME Goes(h, "clearing", "reading"), masks[h] # <<>>
        PROVE  Busy'
    BY <2>3, <2>7 DEF Goes, Busy
  <2>8. ASSUME Goes(h, "clearing", "switching audio")
        PROVE  Busy'
    BY <2>3, <2>8 DEF Goes, Busy
  <2>9. ASSUME pc' = [g \in Thread |-> IF g = "screen" \/ pc[g] = "not started"
                                       THEN "rest" ELSE pc[g]], h = "screen"
        PROVE  Busy'
    BY <2>3, <2>9 DEF Busy
  <2>10. Busy'
    BY <1>2, <2>6, <2>7, <2>8, <2>9 DEF Allinit
  <2> QED
    BY <1>1, <1>2, <2>4, <2>5, <2>10 DEF Allinit
<1>3. CASE ReadHeader(h)
  <2>1. pc' \in [Thread -> Place] /\ Busy'
    BY <1>3 DEF ReadHeader, Goes, Place, Busy, shared
  <2> QED
    BY <1>3, <2>1 DEF ReadHeader, shared
<1>4. CASE WriteHeader(h)
  <2>1. masks[h] # <<>> /\ masks[h] \in Seq(Byte)
    BY <1>4 DEF WriteHeader, Goes, Busy
  <2>2. Head(masks[h]) \in Byte /\ Tail(masks[h]) \in Seq(Byte)
        /\ Len(Tail(masks[h])) = Len(masks[h]) - 1
    BY <2>1
  <2>3. masks' \in [Thread -> Seq(Byte)] /\ masks'[h] = Tail(masks[h])
    BY <1>4, <2>2 DEF WriteHeader
  <2>4. pc' \in [Thread -> Place]
    BY <1>4 DEF WriteHeader, Goes, Place
  <2>5. pc'[h] = "reading" => Tail(masks[h]) # <<>>
    <3>1. Len(masks[h]) # 1 => Tail(masks[h]) # <<>>
      BY <2>1, LongTail
    <3>2. pc'[h] = "reading" => Len(masks[h]) # 1
      BY <1>4 DEF WriteHeader, Goes
    <3> QED
      BY <3>1, <3>2
  <2>8. pc'[h] \in {"reading", "sending"}
    BY <1>4 DEF WriteHeader, Goes
  <2>6. Busy'
    <3>1. \A g \in Thread \ {h} : masks'[g] = masks[g] /\ pc'[g] = pc[g]
      BY <1>4 DEF WriteHeader, Goes
    <3>2. clears' = clears
      BY <1>4 DEF WriteHeader
    <3> QED
      BY <2>3, <2>5, <2>8, <3>1, <3>2 DEF Busy
  <2>7. vps' \in Byte
    BY <1>4, <2>2 DEF WriteHeader, Byte
  <2> QED
    BY <1>1, <1>4, <2>3, <2>4, <2>6, <2>7 DEF WriteHeader
<1>5. CASE Send(h)
  <2> DEFINE n == IF h = "receiver" THEN 2 ELSE 1
  <2>0. n \in 1 .. 2 /\ n \in 0 .. 2
    OBVIOUS
  <2> HIDE DEF n
  <2>1. clears' = [clears EXCEPT ![h] = n]
    BY <1>5 DEF Send, n
  <2>4. clears' \in [Thread -> 0 .. 2] /\ clears'[h] \in 1 .. 2
    BY <2>0, <2>1
  <2>2. pc' \in [Thread -> Place]
    BY <1>5 DEF Send, Goes, Place
  <2>3. Busy'
    BY <1>5, <2>1, <2>4 DEF Send, Goes, Busy
  <2> QED
    BY <1>5, <2>4, <2>2, <2>3 DEF Send, shared
<1> QED
  BY <1>2, <1>3, <1>4, <1>5 DEF SendSteps

LEMMA NextTyped == Typed /\ [Next]_vars => Typed'
<1> SUFFICES ASSUME Typed, [Next]_vars PROVE Typed'
  OBVIOUS
<1> USE DEF Typed, TypeOK
<1>1. CASE UNCHANGED vars
  BY <1>1 DEF vars, Busy
<1>2. ASSUME NEW type \in {HELLO, REQUEST, RELEASE}, Press(type) PROVE Typed'
  <2>0. type \in SUBSET TypeBits /\ "screen" \in Thread /\ Encodes("screen", type, 1)
    BY <1>2, SentAreBits DEF Press, Thread
  <2>1. /\ masks' \in [Thread -> Seq(Byte)] /\ clears' \in [Thread -> 0 .. 2]
        /\ masks'["screen"] # <<>> /\ clears'["screen"] \in 1 .. 2
        /\ \A g \in Thread \ {"screen"} : masks'[g] = masks[g] /\ clears'[g] = clears[g]
    BY <2>0, EncodesTyped
  <2>2. pc' \in [Thread -> Place]
    BY <1>2 DEF Press, Goes, Place
  <2>3. Busy'
    BY <1>2, <2>1 DEF Press, Goes, Busy
  <2>4. heard' \in [ever : SUBSET Datagrams, last : SUBSET TypeBits, alone : BOOLEAN]
    BY <1>2 DEF Press
  <2> QED
    BY <1>2, <2>1, <2>2, <2>3, <2>4 DEF Press
<1>3. ASSUME NEW h \in Thread, SendSteps(h) PROVE Typed'
  BY <1>3, SendStepsTyped
<1>4. ASSUME NEW type \in Datagrams, Receive(type) PROVE Typed'
  <2>1. type \in SUBSET TypeBits
    BY DatagramsAssumption
  <2>2. vps' \in Byte
    BY <1>4, <2>1 DEF Receive, Byte, Version
  <2>3. heard' \in [ever : SUBSET Datagrams, last : SUBSET TypeBits, alone : BOOLEAN]
    BY <1>4, <2>1 DEF Receive
  <2>4. pc' \in [Thread -> Place] /\ Busy'
    BY <1>4 DEF Receive, Goes, Place, Busy, locals
  <2> QED
    BY <1>4, <2>2, <2>3, <2>4 DEF Receive, locals
<1>5. CASE ReceiveFails
  <2>1. pc' \in [Thread -> Place] /\ Busy'
    BY <1>5 DEF ReceiveFails, Goes, Place, Busy, locals
  <2> QED
    BY <1>5, <2>1 DEF ReceiveFails, shared, locals
<1>6. CASE TestHeader
  <2>1. pc' \in [Thread -> Place] /\ Busy'
    BY <1>6 DEF TestHeader, Goes, Place, Busy, locals
  <2> QED
    BY <1>6, <2>1 DEF TestHeader, shared, locals
<1>7. CASE SwitchType
  <2>1. ptt_state' \in Parsed
    BY <1>7 DEF SwitchType
  <2>2. PICK type : AfterSwitch(type)
    BY <1>7 DEF SwitchType
  <2>4. pc' \in [Thread -> Place]
    BY <2>2 DEF AfterSwitch, Goes, Place
  <2>3. CASE type = CONNECT
    <3>1. /\ "receiver" \in Thread /\ ACK \in SUBSET TypeBits
          /\ Encodes("receiver", ACK, 2) /\ Goes("receiver", "switching", "clearing")
      BY <2>2, <2>3, SentAreBits DEF AfterSwitch, Thread
    <3>2. /\ masks' \in [Thread -> Seq(Byte)] /\ clears' \in [Thread -> 0 .. 2]
          /\ masks'["receiver"] # <<>> /\ clears'["receiver"] \in 1 .. 2
          /\ \A g \in Thread \ {"receiver"} : masks'[g] = masks[g] /\ clears'[g] = clears[g]
      <4>1. 2 \in 1 .. 2
        OBVIOUS
      <4> QED
        BY <3>1, <4>1, EncodesTyped
    <3>3. Busy'
      BY <3>1, <3>2 DEF Goes, Busy
    <3> QED
      BY <1>7, <2>1, <2>4, <3>2, <3>3 DEF SwitchType
  <2>5. CASE type # CONNECT
    <3>1. Goes("receiver", "switching", "switching audio") /\ UNCHANGED <<masks, clears>>
      BY <2>2, <2>5 DEF AfterSwitch
    <3>2. Busy'
      BY <3>1 DEF Goes, Busy
    <3> QED
      BY <1>7, <2>1, <2>4, <3>1, <3>2 DEF SwitchType
  <2> QED
    BY <2>3, <2>5
<1>8. CASE SwitchAudio
  <2>1. pc' \in [Thread -> Place] /\ Busy'
    BY <1>8 DEF SwitchAudio, Goes, Place, Busy, locals
  <2>2. isAudioSending' \in BOOLEAN
    BY <1>8 DEF SwitchAudio
  <2> QED
    BY <1>8, <2>1, <2>2 DEF SwitchAudio, locals
<1> QED
  BY <1>1, <1>2, <1>3, <1>4, <1>5, <1>6, <1>7, <1>8 DEF Next

\* What the two threads share and what each keeps for itself stay what they are
\* declared to be; the state is always one that MBCP_parse knows.
THEOREM TypeCorrect == Spec => []TypeOK
<1>1. Init => Typed
  BY InitTyped
<1>2. Typed /\ [Next]_vars => Typed'
  BY NextTyped
<1>3. Typed => TypeOK
  BY DEF Typed
<1> QED
  BY <1>1, <1>2, <1>3, PTL DEF Spec

-----------------------------------------------------------------------------
(* No grant is made up: before one is heard, neither the header nor what   *)
(* the threads have read of it holds the bits of GRANTED alone, and what   *)
(* they or to it never does.                                               *)

NoGrant(b) == b \cap TypeBits # GRANTED

Harmless == {b \in Byte : NoGrant(b)}

GrantInv ==
  /\ masks \in [Thread -> Seq(Harmless)]
  /\ GRANTED \notin heard.ever =>
       /\ NoGrant(vps)
       /\ \A h \in Thread : NoGrant(reg[h])
       /\ ptt_state # GRANTED
       /\ ~isAudioSending

\* Two bytes that are not GRANTED have no union that is.
LEMMA UnionNoGrant ==
  ASSUME NEW a \in Byte, NEW b \in Byte, NoGrant(a), NoGrant(b)
  PROVE  NoGrant(a \cup b)
BY DEF NoGrant, GRANTED, TypeBits

LEMMA ConstantsNoGrant ==
  /\ NoGrant({}) /\ NoGrant(Version)
  /\ NoGrant(HELLO) /\ NoGrant(REQUEST) /\ NoGrant(RELEASE) /\ NoGrant(ACK)
  /\ GRANTED # DISCONNECT /\ GRANTED # CONNECT
<1>1. NoGrant({}) /\ NoGrant(Version) /\ NoGrant(REQUEST)
  BY DEF NoGrant, GRANTED, TypeBits, Version, REQUEST
<1>2. NoGrant(HELLO) /\ NoGrant(RELEASE) /\ NoGrant(ACK)
  BY DEF NoGrant, GRANTED, TypeBits, HELLO, RELEASE, ACK
<1>3. GRANTED # DISCONNECT /\ GRANTED # CONNECT
  BY DEF GRANTED, DISCONNECT, CONNECT
<1> QED
  BY <1>1, <1>2, <1>3

LEMMA EncodesHarmless ==
  ASSUME masks \in [Thread -> Seq(Harmless)], NEW h \in Thread, NEW n,
         NEW type \in {HELLO, REQUEST, RELEASE, ACK}, Encodes(h, type, n)
  PROVE  masks' \in [Thread -> Seq(Harmless)]
<1> DEFINE m == <<Version, {}, type>>
<1>1. type \in SUBSET TypeBits /\ NoGrant(type)
  BY SentAreBits, ConstantsNoGrant
<1>2. Version \in Harmless /\ {} \in Harmless /\ type \in Harmless
  BY <1>1, ConstantsNoGrant DEF Harmless, Byte, Version
<1>3. m \in Seq(Harmless)
  BY <1>2
<1>4. masks' = [masks EXCEPT ![h] = m]
  BY DEF Encodes
<1> HIDE DEF m
<1> QED
  BY <1>3, <1>4

LEMMA GrantStep == Typed /\ GrantInv /\ [Next]_vars => GrantInv'
<1> SUFFICES ASSUME Typed, GrantInv, [Next]_vars PROVE GrantInv'
  OBVIOUS
<1>0. /\ masks \in [Thread -> Seq(Harmless)]
      /\ reg \in [Thread -> Byte] /\ vps \in Byte
  BY DEF GrantInv, Typed, TypeOK
<1>1. CASE UNCHANGED vars
  BY <1>1 DEF vars, GrantInv
<1>2. ASSUME NEW type \in {HELLO, REQUEST, RELEASE}, Press(type) PROVE GrantInv'
  <2>1. masks' \in [Thread -> Seq(Harmless)]
    BY <1>0, <1>2, EncodesHarmless DEF Press, Thread
  <2>2. heard'.ever = heard.ever
    BY <1>2 DEF Press, Typed, TypeOK
  <2> QED
    BY <1>2, <2>1, <2>2 DEF Press, GrantInv
<1>3. ASSUME NEW h \in Thread, SendSteps(h) PROVE GrantInv'
  <2>1. CASE Allinit(h)
    BY <2>1, ConstantsNoGrant DEF Allinit, GrantInv
  <2>2. CASE ReadHeader(h)
    <3>1. UNCHANGED <<vps, ptt_state, isAudioSending, heard, masks>>
      BY <2>2 DEF ReadHeader, shared
    <3>2. \A g \in Thread : reg'[g] \in {reg[g], vps}
      BY <1>0, <2>2 DEF ReadHeader
    <3> QED
      BY <3>1, <3>2 DEF GrantInv
  <2>3. CASE WriteHeader(h)
    <3>1. masks[h] # <<>> /\ masks[h] \in Seq(Harmless)
      BY <1>0, <2>3 DEF WriteHeader, Goes, Typed, Busy
    <3>2. Head(masks[h]) \in Harmless /\ Tail(masks[h]) \in Seq(Harmless)
      BY <3>1
    <3>3. masks' \in [Thread -> Seq(Harmless)]
      BY <1>0, <2>3, <3>2 DEF WriteHeader
    <3>4. UNCHANGED <<ptt_state, isAudioSending, heard>> /\ vps' = reg[h] \cup Head(masks[h])
      BY <2>3 DEF WriteHeader
    <3>5. \A g \in Thread : reg'[g] \in {reg[g], {}}
      BY <1>0, <2>3 DEF WriteHeader
    <3>6. ASSUME GRANTED \notin heard.ever
          PROVE  NoGrant(vps') /\ \A g \in Thread : NoGrant(reg'[g])
      <4>1. reg[h] \in Byte /\ NoGrant(reg[h]) /\ Head(masks[h]) \in Byte
            /\ NoGrant(Head(masks[h]))
        BY <1>0, <3>2, <3>6 DEF GrantInv, Harmless
      <4>2. NoGrant(vps')
        BY <3>4, <4>1, UnionNoGrant
      <4>3. \A g \in Thread : NoGrant(reg'[g])
        BY <3>5, <3>6, ConstantsNoGrant DEF GrantInv
      <4> QED
        BY <4>2, <4>3
    <3> QED
      BY <3>3, <3>4, <3>6 DEF GrantInv
  <2>4. CASE Send(h)
    BY <2>4 DEF Send, shared, GrantInv
  <2> QED
    BY <1>3, <2>1, <2>2, <2>3, <2>4 DEF SendSteps
<1>4. ASSUME NEW type \in Datagrams, Receive(type) PROVE GrantInv'
  <2>1. type \in SUBSET TypeBits
    BY DatagramsAssumption
  <2>2. heard'.ever = heard.ever \cup {type} /\ vps' = Version \cup type
        /\ UNCHANGED <<ptt_state, isAudioSending, masks, reg>>
    BY <1>4 DEF Receive, locals
  <2>3. type # GRANTED => NoGrant(vps')
    BY <2>1, <2>2 DEF NoGrant, Version, TypeBits
  <2> QED
    BY <2>2, <2>3 DEF GrantInv
<1>5. CASE ReceiveFails \/ TestHeader
  <2>1. UNCHANGED <<vps, ptt_state, isAudioSending, heard, masks, reg>>
    BY <1>5 DEF ReceiveFails, TestHeader, shared, locals
  <2> QED
    BY <2>1 DEF GrantInv
<1>6. CASE SwitchType
  <2> DEFINE type == vps \cap TypeBits
  <2>1. AfterSwitch(type) /\ UNCHANGED <<vps, isAudioSending, heard, reg>>
        /\ ptt_state' = IF type \in Parsed THEN type ELSE ptt_state
    BY <1>6 DEF SwitchType
  <2>2. masks' \in [Thread -> Seq(Harmless)]
    BY <1>0, <2>1, EncodesHarmless DEF AfterSwitch, Thread
  <2>3. GRANTED \notin heard.ever => ptt_state' # GRANTED
    BY <2>1 DEF GrantInv, NoGrant
  <2> QED
    BY <2>1, <2>2, <2>3 DEF GrantInv
<1>7. CASE SwitchAudio
  <2>1. /\ UNCHANGED <<vps, ptt_state, heard, masks, reg>>
        /\ isAudioSending' = IF ptt_state = CONNECT THEN isAudioSending ELSE ptt_state = GRANTED
    BY <1>7 DEF SwitchAudio, locals
  <2>2. isAudioSending' => isAudioSending \/ ptt_state = GRANTED
    BY <2>1, Zenon
  <2>3. GRANTED \notin heard.ever => ~isAudioSending'
    BY <2>2 DEF GrantInv
  <2> QED
    BY <2>1, <2>3 DEF GrantInv
<1> QED
  BY <1>1, <1>2, <1>3, <1>4, <1>5, <1>6, <1>7 DEF Next

\* Whatever the server sends, and however the two threads mix the bits of what
\* is sent and received in the header they share, the phone holds no grant and
\* sends no voice before a GRANTED was received.
THEOREM GrantIsHeard == Spec => []NoGrantFromNothing
<1>1. Init => Typed /\ GrantInv
  <2> SUFFICES ASSUME Init PROVE GrantInv
    BY InitTyped
  <2>1. <<>> \in Seq(Harmless)
    OBVIOUS
  <2>2. masks \in [Thread -> Seq(Harmless)]
    BY <2>1 DEF Init
  <2> QED
    BY <2>2, ConstantsNoGrant DEF Init, GrantInv
<1>2. Typed /\ GrantInv /\ [Next]_vars => (Typed /\ GrantInv)'
  BY NextTyped, GrantStep
<1>3. Typed /\ GrantInv => NoGrantFromNothing
  BY DEF GrantInv, NoGrantFromNothing
<1> QED
  BY <1>1, <1>2, <1>3, PTL DEF Spec

-----------------------------------------------------------------------------
(* What the receiver parses while the screen is silent is what it received *)

FloorInv ==
  heard.alone =>
    /\ pc["screen"] = "rest"
    /\ pc["receiver"] \in {"testing", "switching"} => vps = Version \cup heard.last
    /\ pc["receiver"] \in {"clearing", "reading", "writing", "sending"} =>
         heard.last = CONNECT /\ ptt_state = CONNECT
    /\ pc["receiver"] = "switching audio" /\ heard.last \in Parsed => ptt_state = heard.last
    /\ pc["receiver"] = "rest" =>
         /\ heard.last = GRANTED => isAudioSending
         /\ heard.last \in Parsed \ {GRANTED, CONNECT} => ~isAudioSending

LEMMA FloorStep == Typed /\ FloorInv /\ [Next]_vars => FloorInv'
<1> SUFFICES ASSUME Typed, FloorInv, [Next]_vars, heard'.alone PROVE FloorInv'
  BY DEF FloorInv
<1>0. /\ pc \in [Thread -> Place] /\ Thread = {"screen", "receiver"}
      /\ heard.last \in SUBSET TypeBits
  BY DEF Typed, TypeOK, Thread
<1>1. CASE UNCHANGED vars
  BY <1>1 DEF vars, FloorInv
<1>2. ASSUME NEW type \in {HELLO, REQUEST, RELEASE}, Press(type) PROVE FALSE
  BY <1>2 DEF Press, Typed, TypeOK
<1>3. ASSUME NEW h \in Thread, SendSteps(h) PROVE FloorInv'
  <2>1. heard' = heard /\ ptt_state' = ptt_state /\ isAudioSending' = isAudioSending
    BY <1>3 DEF SendSteps, Allinit, ReadHeader, WriteHeader, Send, shared
  <2>2. pc[h] \in {"clearing", "reading", "writing", "sending"}
    BY <1>3 DEF SendSteps, Allinit, ReadHeader, WriteHeader, Send, Goes
  <2>3. pc["screen"] = "rest"
    BY <2>1 DEF FloorInv
  <2>4. h = "receiver"
    BY <1>0, <2>2, <2>3
  <2>5. heard.last = CONNECT /\ ptt_state = CONNECT
    BY <2>1, <2>2, <2>4 DEF FloorInv
  <2>6. pc'["screen"] = pc["screen"]
        /\ pc'["receiver"] \in {"clearing", "reading", "writing", "sending", "switching audio"}
    BY <1>0, <1>3, <2>4 DEF SendSteps, Allinit, ReadHeader, WriteHeader, Send, Goes
  <2> QED
    BY <2>1, <2>3, <2>5, <2>6 DEF FloorInv
<1>4. ASSUME NEW type \in Datagrams, Receive(type) PROVE FloorInv'
  <2>1. pc["screen"] = "rest" /\ heard'.last = type /\ vps' = Version \cup type
    BY <1>4 DEF Receive
  <2>2. pc'["screen"] = "rest" /\ pc'["receiver"] = "testing"
    BY <1>0, <1>4, <2>1 DEF Receive, Goes
  <2> QED
    BY <2>1, <2>2 DEF FloorInv
<1>5. CASE ReceiveFails
  <2>1. pc'["screen"] = pc["screen"] /\ pc'["receiver"] = "ended"
    BY <1>0, <1>5 DEF ReceiveFails, Goes
  <2> QED
    BY <1>5, <2>1 DEF ReceiveFails, shared, FloorInv
<1>6. CASE TestHeader
  <2>1. UNCHANGED <<vps, ptt_state, isAudioSending, heard>> /\ pc["receiver"] = "testing"
    BY <1>6 DEF TestHeader, shared, Goes
  <2>2. vps # {}
    BY <2>1 DEF FloorInv, Version
  <2>3. pc'["screen"] = pc["screen"] /\ pc'["receiver"] = "switching"
    BY <1>0, <1>6, <2>2 DEF TestHeader, Goes
  <2> QED
    BY <2>1, <2>3 DEF FloorInv
<1>7. CASE SwitchType
  <2> DEFINE type == vps \cap TypeBits
  <2>1. /\ AfterSwitch(type) /\ UNCHANGED <<vps, isAudioSending, heard>>
        /\ ptt_state' = IF type \in Parsed THEN type ELSE ptt_state
        /\ pc["receiver"] = "switching"
    BY <1>7 DEF SwitchType, AfterSwitch, Goes
  <2>2. type = heard.last /\ pc["screen"] = "rest"
    BY <1>0, <2>1 DEF FloorInv, Version, TypeBits
  <2> HIDE DEF type
  <2>3. pc'["screen"] = "rest"
        /\ \/ type = CONNECT /\ pc'["receiver"] = "clearing"
           \/ type # CONNECT /\ pc'["receiver"] = "switching audio"
    BY <1>0, <2>1, <2>2 DEF AfterSwitch, Goes
  <2>4. CONNECT \in Parsed
    BY DEF Parsed
  <2> QED
    BY <2>1, <2>2, <2>3, <2>4 DEF FloorInv
<1>8. CASE SwitchAudio
  <2>1. /\ UNCHANGED <<ptt_state, heard>> /\ pc["receiver"] = "switching audio"
        /\ isAudioSending' = IF ptt_state = CONNECT THEN isAudioSending ELSE ptt_state = GRANTED
    BY <1>8 DEF SwitchAudio, Goes
  <2>2. pc'["screen"] = pc["screen"] /\ pc'["receiver"] = "rest"
    BY <1>0, <1>8 DEF SwitchAudio, Goes
  <2>3. GRANTED \in Parsed /\ GRANTED # CONNECT
    BY ConstantsNoGrant DEF Parsed
  <2>4. heard.alone /\ pc["screen"] = "rest" /\ (heard.last \in Parsed => ptt_state = heard.last)
    BY <2>1 DEF FloorInv
  <2>5. heard.last = GRANTED => isAudioSending'
    BY <2>1, <2>3, <2>4
  <2>6. heard.last \in Parsed \ {GRANTED, CONNECT} => ~isAudioSending'
    BY <2>1, <2>4
  <2> QED
    BY <2>1, <2>2, <2>4, <2>5, <2>6 DEF FloorInv
<1> QED
  BY <1>1, <1>2, <1>3, <1>4, <1>5, <1>6, <1>7, <1>8 DEF Next

\* A datagram that is parsed while the screen is silent decides about the voice,
\* whatever mixed bits were parsed before it.
THEOREM LastDecides == Spec => []FloorFollowsLast
<1>1. Init => Typed /\ FloorInv
  <2> SUFFICES ASSUME Init PROVE FloorInv
    BY InitTyped
  <2>1. pc["screen"] = "rest" /\ pc["receiver"] = "not started"
    BY DEF Init, Thread
  <2> QED
    BY <2>1 DEF FloorInv
<1>2. Typed /\ FloorInv /\ [Next]_vars => (Typed /\ FloorInv)'
  BY NextTyped, FloorStep
<1>3. Typed /\ FloorInv => FloorFollowsLast
  BY DEF FloorInv, FloorFollowsLast
<1> QED
  BY <1>1, <1>2, <1>3, PTL DEF Spec

=============================================================================
