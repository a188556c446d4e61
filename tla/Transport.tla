------------------------------ MODULE Transport ------------------------------
(***************************************************************************)
(* The messages between driver, control and HMI (transport_packet.h and    *)
(* the two implementations of TransportBaseV2): which role sends what, what*)
(* may be encoded, what a receiver accepts, and what the conversion to     *)
(* packets of a fixed layout does to a message.                            *)
(*                                                                         *)
(* Over UDP a packet may be lost or repeated and a stranger's packet may   *)
(* arrive; the ring of the shared memory is module ShmChannel.             *)
(*                                                                         *)
(* Abstracted: a group of numbers is finite, finite but beyond the range   *)
(* of a float, or not finite; a text is empty, fits its field, is too long *)
(* or holds a zero byte; a vector is absent, as long as num_dof or not.    *)
(***************************************************************************)
EXTENDS Integers

CONSTANTS
    Medium,   \* transport.type: "udp" or "shm"
    MaxDof    \* kMaxDof

ASSUME TransportAssumption == Medium \in {"udp", "shm"} /\ MaxDof \in Nat \ {0}

VARIABLES
    peers,     \* roles whose Init succeeded
    message,   \* the message being sent, or NoMessage
    wire,      \* packet in the medium, or NoPacket
    outcome,   \* of the last send: "none", "sent", "refused"
    received   \* message that the last receive stored, or NoMessage

transportVars == <<peers, message, wire, outcome, received>>

Roles == {"DRIVER", "CONTROL", "HMI"}
Kinds == {"state", "control", "command", "status"}

NoMessage == [kind |-> "none"]
NoPacket == [channel |-> "none"]

\* Init: the ends that a role opens.
Writes(role) ==
    CASE role = "DRIVER" -> {"state"}
      [] role = "CONTROL" -> {"control", "status"}
      [] role = "HMI" -> {"command"}

Reads(role) ==
    CASE role = "DRIVER" -> {"control"}
      [] role = "CONTROL" -> {"state", "command"}
      [] role = "HMI" -> {"status"}

-----------------------------------------------------------------------------
(* Messages                                                                *)

Numbers == {"finite", "huge", "bad"}
Texts == {"empty", "fits", "long", "nul"}
Shapes == {"absent", "match", "wrong"}

Faults ==
    [active : BOOLEAN, latched : BOOLEAN, name : {"none", "known", "bad"},
     number : {0, 1}, time : {"zero", "later", "bad"}, detail : Texts]

NoFault == [active |-> FALSE, latched |-> FALSE, name |-> "none", number |-> 0,
            time |-> "zero", detail |-> "empty"]

Interactions ==
    [phase : {"IDLE", "PLAYING", "bad"}, number : {0, 1}, action : Texts,
     progress : {"finite", "bad"}]

Switches ==
    [phase : {"IDLE", "PREPARING", "FAILED", "bad"}, number : {0, 1},
     policy : Texts, detail : Texts]

NoInteraction == [phase |-> "IDLE", number |-> 0, action |-> "empty",
                  progress |-> "finite"]
NoSwitch == [phase |-> "IDLE", number |-> 0, policy |-> "empty",
             detail |-> "empty"]

StateOf(fault) == [kind |-> "state", dof |-> 1, joints |-> "match",
                   extras |-> "match", numbers |-> "finite", upright |-> TRUE,
                   fault |-> fault]
StatusOf(interaction, switch, fault) ==
    [kind |-> "status", mode |-> "known", numbers |-> "finite",
     policy |-> "fits", interaction |-> interaction, switch |-> switch,
     fault |-> fault]

\* extras: torque, temperature and error of a state.
States ==
    {StateOf(fault) : fault \in Faults} \cup
    [kind : {"state"}, dof : {0, 1, MaxDof, MaxDof + 1}, joints : Shapes,
     extras : Shapes, numbers : {"finite", "bad"}, upright : BOOLEAN,
     fault : {NoFault}]

\* torque may be absent; gains are kp and kd.
Controls ==
    [kind : {"control"}, dof : {0, 1, MaxDof, MaxDof + 1}, joints : Shapes,
     torque : Shapes, numbers : {"finite", "bad"},
     gains : {"positive", "negative", "bad"}, mode : {"known", "bad"}]

Commands ==
    [kind : {"command"}, key : {"known", "bad"}, numbers : Numbers,
     policy : Texts, operation : {"NONE", "START", "CANCEL", "bad"},
     number : {0, 1}, action : Texts]

Statuses ==
    {StatusOf(NoInteraction, NoSwitch, fault) : fault \in Faults} \cup
    {StatusOf(i, NoSwitch, NoFault) : i \in Interactions} \cup
    {StatusOf(NoInteraction, s, NoFault) : s \in Switches} \cup
    [kind : {"status"}, mode : {"known", "bad"}, numbers : {"finite", "bad"},
     policy : Texts, interaction : {NoInteraction}, switch : {NoSwitch},
     fault : {NoFault}]

MessagesOf(role) ==
    CASE role = "DRIVER" -> States
      [] role = "CONTROL" -> Controls \cup Statuses
      [] role = "HMI" -> Commands

-----------------------------------------------------------------------------
(* What may be encoded                                                     *)

Short == {"empty", "fits"}

CanEncodeFault(f) ==
    /\ f.name # "bad" /\ f.time # "bad" /\ f.detail # "nul"
    /\ f.active => f.latched
    /\ IF f.latched THEN f.name = "known" /\ f.number # 0 ELSE f = NoFault

CanEncodeInteractionStatus(i) ==
    /\ i.phase # "bad" /\ i.progress = "finite" /\ i.action \in Short
    /\ IF i.phase = "IDLE" THEN i.action = "empty"
       ELSE i.number # 0 /\ i.action # "empty"

CanEncodePolicySwitch(s) ==
    /\ s.phase # "bad" /\ s.policy \in Short /\ s.detail # "nul"
    /\ IF s.phase = "IDLE" THEN s = NoSwitch ELSE s.policy # "empty"

CanEncodeInteractionRequest(c) ==
    /\ c.action \in Short
    /\ CASE c.operation = "START" -> c.number # 0 /\ c.action = "fits"
         [] c.operation = "CANCEL" -> c.number # 0 /\ c.action = "empty"
         [] c.operation = "NONE" -> c.action = "empty"
         [] OTHER -> FALSE

CanEncodeRobotState(s) ==
    /\ s.dof \in 1..MaxDof /\ s.joints = "match" /\ s.extras # "wrong"
    /\ s.numbers = "finite" /\ s.upright
    /\ CanEncodeFault(s.fault)

CanEncodeControl(c) ==
    /\ c.dof \in 1..MaxDof /\ c.joints = "match" /\ c.torque # "wrong"
    /\ c.numbers = "finite" /\ c.gains = "positive" /\ c.mode = "known"

CanEncodeCommand(c) ==
    /\ c.key = "known" /\ c.numbers # "bad" /\ c.policy \in Short
    /\ CanEncodeInteractionRequest(c)

CanEncodeStatus(s) ==
    /\ s.mode = "known" /\ s.numbers = "finite" /\ s.policy \in Short
    /\ CanEncodeInteractionStatus(s.interaction)
    /\ CanEncodePolicySwitch(s.switch) /\ CanEncodeFault(s.fault)

CanEncode(m) ==
    CASE m.kind = "state" -> CanEncodeRobotState(m)
      [] m.kind = "control" -> CanEncodeControl(m)
      [] m.kind = "command" -> CanEncodeCommand(m)
      [] m.kind = "status" -> CanEncodeStatus(m)

-----------------------------------------------------------------------------
(* Packets: a message of a fixed layout with the type of its channel       *)

\* DetailForPacket: a long text is cut so that its terminator fits.
VariantKeepsLength(text) == text

DetailForPacket(text) == IF text = "long" THEN "fits" ELSE text

EncodeFault(f) == [f EXCEPT !.detail = DetailForPacket(@)]
EncodePolicySwitch(s) == [s EXCEPT !.detail = DetailForPacket(@)]

\* A value that is absent is sent as zeros; a speed is sent as a float.
EncodeState(s) == [s EXCEPT !.fault = EncodeFault(@), !.extras = "match"]
EncodeControl(c) == [c EXCEPT !.torque = "match"]
EncodeCommand(c) ==
    [c EXCEPT !.numbers = IF @ = "huge" THEN "bad" ELSE @]
EncodeStatus(s) ==
    [s EXCEPT !.fault = EncodeFault(@), !.switch = EncodePolicySwitch(@)]

Encode(m) ==
    [channel |-> m.kind, type |-> m.kind, body |->
        CASE m.kind = "state" -> EncodeState(m)
          [] m.kind = "control" -> EncodeControl(m)
          [] m.kind = "command" -> EncodeCommand(m)
          [] m.kind = "status" -> EncodeStatus(m)]

Terminated == Short

\* ValidFaultPacket checks the same rules on the fixed layout.
ValidFaultPacket(f) == CanEncodeFault(f) /\ f.detail \in Terminated

ValidPolicySwitchPacket(s) ==
    s.detail \in Terminated /\ CanEncodePolicySwitch(s)

ValidRobotStatePacket(s) ==
    /\ s.dof \in 1..MaxDof /\ s.numbers = "finite" /\ s.upright
    /\ ValidFaultPacket(s.fault)

ValidControlCmdPacket(c) ==
    /\ c.dof \in 1..MaxDof /\ c.mode = "known"
    /\ c.numbers = "finite" /\ c.gains = "positive"

ValidHmiCmdPacket(c) ==
    /\ c.key = "known" /\ c.numbers = "finite" /\ c.policy \in Terminated
    /\ CanEncodeInteractionRequest(c)

ValidControlStatusPacket(s) ==
    /\ s.mode = "known" /\ s.numbers = "finite" /\ s.policy \in Terminated
    /\ CanEncodeInteractionStatus(s.interaction)
    /\ ValidPolicySwitchPacket(s.switch) /\ ValidFaultPacket(s.fault)

\* ValidHeader: magic, version and type.
ValidHeader(packet, kind) == packet.type = kind

ValidPacket(packet, kind) ==
    /\ ValidHeader(packet, kind)
    /\ CASE kind = "state" -> ValidRobotStatePacket(packet.body)
         [] kind = "control" -> ValidControlCmdPacket(packet.body)
         [] kind = "command" -> ValidHmiCmdPacket(packet.body)
         [] kind = "status" -> ValidControlStatusPacket(packet.body)

-----------------------------------------------------------------------------
TransportInit ==
    /\ peers = {} /\ message = NoMessage /\ wire = NoPacket
    /\ outcome = "none" /\ received = NoMessage

\* Init of a process; a process whose ends cannot all be opened ends.
InitTransport(role) ==
    /\ role \notin peers
    /\ peers' = peers \cup {role}
    /\ UNCHANGED <<message, wire, outcome, received>>

\* Send...V2: checked before and after the conversion.
Send(role, m) ==
    /\ role \in peers /\ m.kind \in Writes(role)
    /\ message = NoMessage
    /\ message' = m
    /\ IF CanEncode(m) /\ ValidPacket(Encode(m), m.kind)
       THEN wire' = Encode(m) /\ outcome' = "sent"
       ELSE outcome' = "refused" /\ UNCHANGED wire
    /\ UNCHANGED <<peers, received>>

\* Recv...V2: a packet that is not valid is dropped, and what the caller has
\* is not touched; nothing is received twice from the shared memory.
RecvPacket(role, kind, repeated) ==
    /\ role \in peers /\ kind \in Reads(role)
    /\ wire # NoPacket /\ wire.channel = kind
    /\ repeated => Medium = "udp"
    /\ received' = IF ValidPacket(wire, kind) THEN wire.body ELSE received
    /\ wire' = IF repeated THEN wire ELSE NoPacket
    /\ UNCHANGED <<peers, message, outcome>>

\* A datagram that reaches another port, as one sent by a process with other
\* settings does.
Misdirect(kind) ==
    /\ Medium = "udp" /\ wire # NoPacket /\ wire.channel # kind
    /\ wire' = [wire EXCEPT !.channel = kind]
    /\ UNCHANGED <<peers, message, outcome, received>>

\* The sender goes on to its next message: the packet is lost, or its slot is
\* written over.
NextMessage ==
    /\ message # NoMessage
    /\ message' = NoMessage /\ wire' = NoPacket /\ outcome' = "none"
    /\ received' = NoMessage
    /\ UNCHANGED peers

TransportNext ==
    \/ \E role \in Roles : InitTransport(role)
    \/ \E role \in Roles : \E m \in MessagesOf(role) : Send(role, m)
    \/ \E role \in Roles, kind \in Kinds, repeated \in BOOLEAN :
            RecvPacket(role, kind, repeated)
    \/ \E kind \in Kinds : Misdirect(kind)
    \/ NextMessage

TransportSpec == TransportInit /\ [][TransportNext]_transportVars

-----------------------------------------------------------------------------
(* Properties                                                              *)

\* What the senders of this program hand over: a state of a robot with sound
\* measurements and a fault report whose text may have any length.
SoundReport(m) ==
    /\ m.kind = "state" /\ m.joints = "match" /\ m.extras # "wrong"
    /\ m.dof \in 1..MaxDof /\ m.numbers = "finite" /\ m.upright
    /\ \/ m.fault = NoFault
       \/ /\ m.fault.latched /\ m.fault.name = "known" /\ m.fault.number # 0
          /\ m.fault.time # "bad" /\ m.fault.detail # "nul"

\* A driver ends when its state cannot be sent: no text of a fault may cause
\* that. And a receiver only ever stores a message of its own channel, in the
\* form in which the sender handed it over but for values that were absent
\* and texts that were cut.
FaithfulDelivery ==
    /\ outcome = "refused" => ~SoundReport(message)
    /\ received # NoMessage =>
          /\ CanEncode(message)
          /\ received = Encode(message).body
          /\ \E role \in peers : message.kind \in Reads(role)
=============================================================================
