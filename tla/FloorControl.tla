---------------------------- MODULE FloorControl ----------------------------
(***************************************************************************)
(* The floor of a push-to-talk call: AudioMBCPProcess, which talks MBCP    *)
(* over UDP with the floor server.  The thread of the screen sends what    *)
(* the user asks for; the ReceiveThread parses what the server sends and   *)
(* acknowledges a CONNECT.  Both work in the same mbcp_header, and nothing *)
(* is synchronized: a step is one access to its byte of the type.          *)
(* The screen makes one process for a call, and calls HelloMSG once.       *)
(*                                                                         *)
(* A byte is the set of its bits, so that |= is a union.  Datagrams may be *)
(* lost, repeated and reordered: any may come at any time.                 *)
(***************************************************************************)
EXTENDS Integers, Sequences

CONSTANT Datagrams    \* bound: the message types the server sends

VARIABLES
  vps,                \* mbcp_header.vps: version and message type
  ptt_state,
  isAudioSending,     \* PTTCallScreen.isAudioSending
  pc,                 \* where each thread is
  masks,              \* what a thread has still to or to vps
  reg,                \* what it read of vps
  clears,             \* the calls of Allinit it has still to make
  heard               \* history: the datagrams that were received

shared == <<vps, ptt_state, isAudioSending, heard>>
locals == <<masks, reg, clears>>
vars == <<vps, ptt_state, isAudioSending, pc, masks, reg, clears, heard>>

-----------------------------------------------------------------------------
(* The message types, as the bits of their numbers.                        *)

REQUEST       == {}
GRANTED       == {1}
TAKEN         == {2}
DENY          == {1, 2}
RELEASE       == {4}
IDLE          == {1, 4}
REVOKE        == {2, 4}
ACK           == {1, 2, 4}
QUEUE_REQUEST == {8}
QUEUE_STATUS  == {1, 8}
DISCONNECT    == {1, 2, 8}
CONNECT       == {1, 2, 4, 8}
TAKEN_REPLY   == {2, 16}
HELLO         == {1, 2, 16}

TypeBits == {1, 2, 4, 8, 16}       \* 0x1F
Version == {128}                   \* 2 << 6
Byte == SUBSET (TypeBits \cup Version)

ASSUME DatagramsAssumption == Datagrams \subseteq SUBSET TypeBits

\* The cases of the switch in MBCP_parse: other types change nothing.
Parsed == {REQUEST, GRANTED, TAKEN, DENY, RELEASE, IDLE, REVOKE, ACK,
           QUEUE_REQUEST, QUEUE_STATUS, DISCONNECT, CONNECT, TAKEN_REPLY, HELLO}

Thread == {"screen", "receiver"}

Place == {"not started", "rest", "ended", "clearing", "reading", "writing",
          "sending", "testing", "switching", "switching audio"}

TypeOK ==
  /\ vps \in Byte
  /\ ptt_state \in Parsed
  /\ isAudioSending \in BOOLEAN
  /\ pc \in [Thread -> Place]
  /\ masks \in [Thread -> Seq(Byte)]
  /\ reg \in [Thread -> Byte]
  /\ clears \in [Thread -> 0 .. 2]
  /\ heard \in [ever : SUBSET Datagrams, last : SUBSET TypeBits, alone : BOOLEAN]

Init ==
  /\ vps = {}
  /\ ptt_state = DISCONNECT
  /\ isAudioSending = FALSE
  /\ pc = [h \in Thread |-> IF h = "screen" THEN "rest" ELSE "not started"]
  /\ masks = [h \in Thread |-> <<>>]
  /\ reg = [h \in Thread |-> {}]
  /\ clears = [h \in Thread |-> 0]
  /\ heard = [ever |-> {}, last |-> DISCONNECT, alone |-> TRUE]

-----------------------------------------------------------------------------
Goes(h, from, to) ==
  /\ pc[h] = from
  /\ pc' = [pc EXCEPT ![h] = to]

\* The rest of encode_mbcp_*_msg(type) and network_send, begun with n calls of
\* Allinit.
Encodes(h, type, n) ==
  /\ masks' = [masks EXCEPT ![h] = <<Version, {}, type>>]
  /\ clears' = [clears EXCEPT ![h] = n]

\* HelloMSG, RequestMSG, ReleaseMSG.
Press(type) ==
  /\ (type = HELLO) <=> (pc["receiver"] = "not started")
  /\ Goes("screen", "rest", "clearing")
  /\ Encodes("screen", type, 1)
  /\ heard' = [heard EXCEPT !.alone = FALSE]
  /\ UNCHANGED <<vps, ptt_state, isAudioSending, reg>>

-----------------------------------------------------------------------------
(* Allinit, mbcp_encode_header and network_send.                           *)

\* Where Allinit returns to.  HelloMSG starts the ReceiveThread at its end.
Allinit(h) ==
  /\ pc[h] = "clearing"
  /\ vps' = {}
  /\ clears' = [clears EXCEPT ![h] = @ - 1]
  /\ \/ clears[h] > 1 /\ UNCHANGED pc
     \/ clears[h] = 1 /\ masks[h] # <<>> /\ Goes(h, "clearing", "reading")
     \/ /\ clears[h] = 1 /\ masks[h] = <<>> /\ h = "receiver"
        /\ Goes(h, "clearing", "switching audio")
     \/ /\ clears[h] = 1 /\ masks[h] = <<>> /\ h = "screen"
        /\ pc' = [g \in Thread |-> IF g = "screen" \/ pc[g] = "not started"
                                    THEN "rest" ELSE pc[g]]
  /\ UNCHANGED <<ptt_state, isAudioSending, heard, masks, reg>>

\* vps |= mask
ReadHeader(h) ==
  /\ Goes(h, "reading", "writing")
  /\ reg' = [reg EXCEPT ![h] = vps]
  /\ UNCHANGED <<shared, masks, clears>>

WriteHeader(h) ==
  /\ Goes(h, "writing", IF Len(masks[h]) = 1 THEN "sending" ELSE "reading")
  /\ vps' = reg[h] \cup Head(masks[h])
  /\ masks' = [masks EXCEPT ![h] = Tail(@)]
  /\ reg' = [reg EXCEPT ![h] = {}]
  /\ UNCHANGED <<ptt_state, isAudioSending, heard, clears>>

\* makeArray(), and the datagram leaves (of which nothing is kept); network_send
\* calls Allinit, and MBCP_parse once more.
Send(h) ==
  /\ Goes(h, "sending", "clearing")
  /\ clears' = [clears EXCEPT ![h] = IF h = "receiver" THEN 2 ELSE 1]
  /\ UNCHANGED <<shared, masks, reg>>

-----------------------------------------------------------------------------
(* ReceiveThread.run and MBCP_parse.                                       *)

\* mbcp_get_header
Receive(type) ==
  /\ Goes("receiver", "rest", "testing")
  /\ vps' = Version \cup type
  /\ heard' = [ever |-> heard.ever \cup {type}, last |-> type, alone |-> pc["screen"] = "rest"]
  /\ UNCHANGED <<ptt_state, isAudioSending, locals>>

\* socket.receive throws, and the thread ends.
ReceiveFails ==
  /\ Goes("receiver", "rest", "ended")
  /\ UNCHANGED <<shared, locals>>

\* get_mbcp_subtype: if (mbcp_header.vps != 0)
TestHeader ==
  /\ Goes("receiver", "testing", IF vps = {} THEN "switching audio" ELSE "switching")
  /\ UNCHANGED <<shared, locals>>

\* switch (mbcp_header.vps & 0x1F): where each case goes on.
AfterSwitch(type) ==
  \/ /\ type = CONNECT
     /\ Goes("receiver", "switching", "clearing")
     /\ Encodes("receiver", ACK, 2)
  \/ /\ type # CONNECT
     /\ Goes("receiver", "switching", "switching audio")
     /\ UNCHANGED <<masks, clears>>

\* Seeded faults, for the check of the properties: a case without its break,
\* and a default that takes the type over.
SwitchTypeFallsThrough ==
  /\ LET type == vps \cap TypeBits
     IN /\ ptt_state' = IF type = REQUEST THEN GRANTED
                        ELSE IF type \in Parsed THEN type ELSE ptt_state
        /\ AfterSwitch(type)
  /\ UNCHANGED <<vps, isAudioSending, heard, reg>>

SwitchTypeTakesAll ==
  /\ ptt_state' = vps \cap TypeBits
  /\ AfterSwitch(vps \cap TypeBits)
  /\ UNCHANGED <<vps, isAudioSending, heard, reg>>

SwitchType ==
  /\ LET type == vps \cap TypeBits
     IN /\ ptt_state' = IF type \in Parsed THEN type ELSE ptt_state
        /\ AfterSwitch(type)
  /\ UNCHANGED <<vps, isAudioSending, heard, reg>>

\* Seeded fault: only IDLE silences the phone.
SwitchAudioOffWhenIdle ==
  /\ Goes("receiver", "switching audio", "rest")
  /\ isAudioSending' = (ptt_state = GRANTED \/ (isAudioSending /\ ptt_state # IDLE))
  /\ UNCHANGED <<vps, ptt_state, heard, locals>>

\* The rest of run(): the media are started or stopped.
SwitchAudio ==
  /\ Goes("receiver", "switching audio", "rest")
  /\ isAudioSending' = IF ptt_state = CONNECT THEN isAudioSending ELSE ptt_state = GRANTED
  /\ UNCHANGED <<vps, ptt_state, heard, locals>>

-----------------------------------------------------------------------------
SendSteps(h) ==
  Allinit(h) \/ ReadHeader(h) \/ WriteHeader(h) \/ Send(h)

Next ==
  \/ \E type \in {HELLO, REQUEST, RELEASE} : Press(type)
  \/ \E h \in Thread : SendSteps(h)
  \/ \E type \in Datagrams : Receive(type)
  \/ TestHeader \/ SwitchType \/ SwitchAudio
  \/ ReceiveFails

Spec == Init /\ [][Next]_vars

-----------------------------------------------------------------------------
(* Safety.                                                                 *)

\* The phone sends voice only if the server has granted the floor at some time:
\* however the two threads mix the bits of what is sent and received, they do
\* not make up a grant.
NoGrantFromNothing ==
  ptt_state = GRANTED \/ isAudioSending => GRANTED \in heard.ever

\* A datagram that was parsed while the screen sent nothing decides about the
\* floor: the voice is on after a grant, and off after all that end one.
FloorFollowsLast ==
  pc["receiver"] = "rest" /\ heard.alone =>
    /\ heard.last = GRANTED => isAudioSending
    /\ heard.last \in Parsed \ {GRANTED, CONNECT} => ~isAudioSending

=============================================================================
