----------------------------- MODULE Ev3Protocol -----------------------------
(***************************************************************************)
(* What is asked of a brick (buildCommand(), src/src/protocol/             *)
(* ev3Commands.ts) and what is read from its answer (parseResponse(),      *)
(* ev3Responses.ts).                                                       *)
(*                                                                         *)
(* A direct command is a program: it allocates global bytes and its        *)
(* operations put fields into them; the brick's answer is those bytes.     *)
(* Values are not modelled: a byte of an answer says which byte of which   *)
(* field it is.                                                            *)
(***************************************************************************)
EXTENDS Ev3Packet, FiniteSets

DirectKinds == {"battery", "ports", "buttons", "info"}
SystemKinds == {"fs:list", "fs:read", "fs:write", "fs:exists", "fs:delete"}
Kinds == DirectKinds \cup SystemKinds

\* An operation that puts a field of some width at an offset, which it names by
\* gv0() or gv1().
Put(field, width, at, variable) ==
    [field |-> field, width |-> width, at |-> at, variable |-> variable]

\* Offsets the encodings admit; gv0() and gv1() throw at any other.
Offsets(variable) == IF variable = "gv0" THEN 0..31 ELSE 0..255

BatteryProgram == {Put(<<"current">>, 4, 0, "gv0")}

PortsProgram ==
    UNION {{Put(<<"sensorType", i>>, 1, 2 * i, "gv0"),
            Put(<<"sensorMode", i>>, 1, 2 * i + 1, "gv0"),
            Put(<<"motorType", i>>, 1, 8 + 2 * i, "gv0"),
            Put(<<"motorMode", i>>, 1, 8 + 2 * i + 1, "gv0"),
            Put(<<"sensorValue", i>>, 4, 16 + 4 * i, "gv0"),
            Put(<<"motorTacho", i>>, 4, 32 + 4 * i, "gv1")} : i \in 0..3}

ButtonsProgram == {Put(<<"button", i>>, 1, i, "gv0") : i \in 0..5}

InfoProgram ==
    LET ReadString(field, length, at) ==
            Put(field, length, at, IF at < 32 THEN "gv0" ELSE "gv1")
    IN {ReadString(<<"osVersion">>, 16, 0), ReadString(<<"hwVersion">>, 8, 16),
        ReadString(<<"fwVersion">>, 8, 24), ReadString(<<"osBuild">>, 12, 32),
        ReadString(<<"fwBuild">>, 12, 44)}

Program(kind) ==
    CASE kind = "battery" -> BatteryProgram
      [] kind = "ports"   -> PortsProgram
      [] kind = "buttons" -> ButtonsProgram
      [] kind = "info"    -> InfoProgram
      [] OTHER            -> {}

\* What a program allocates: uint16le() at its head.
GlobalBytes(kind) ==
    CASE kind = "battery" -> 4
      [] kind = "ports"   -> 8 + 8 + 16 + 16
      [] kind = "buttons" -> 6
      [] kind = "info"    -> 16 + 8 + 8 + 12 + 12
      [] OTHER            -> 0

CommandType(kind) == IF kind \in DirectKinds THEN DirectCommandReply ELSE SystemCommandReply

\* buildCommand() does not throw.
Builds(kind) == \A put \in Program(kind) : put.at \in Offsets(put.variable)

\* buildCommand(): the payload is modelled as one byte, the whole of what is
\* asked: the command's identity and its kind.
Payload(id, kind) == <<[id |-> id, kind |-> kind]>>

\* What the global bytes of a kind hold once its program has run: a field and
\* which of its bytes.
Globals == [kind \in DirectKinds |->
    [n \in 1..GlobalBytes(kind) |->
        LET puts == {put \in Program(kind) : n - 1 \in put.at..(put.at + put.width - 1)}
        IN IF puts = {} THEN <<>>
           ELSE LET put == CHOOSE put \in puts : TRUE IN <<put.field, n - 1 - put.at>>]]

\* The brick runs a program and answers with its global bytes, each of which
\* says whose it is; a system command is answered with a status.
Answer(ask) ==
    IF ask.kind \in SystemKinds THEN <<0>>
    ELSE [n \in DOMAIN Globals[ask.kind] |-> <<ask.id, Globals[ask.kind][n]>>]

-----------------------------------------------------------------------------

\* A field that is read from an answer.
Get(field, width, at) == [field |-> field, width |-> width, at |-> at]

\* Mutant of Reads: the tachos are read where the sensor values are.
ReadsShifted(kind) ==
    CASE kind = "battery" -> {Get(<<"current">>, 4, 0)}
      [] kind = "ports" ->
            UNION {{Get(<<"sensorType", i>>, 1, 2 * i), Get(<<"motorTacho", i>>, 4, 16 + 4 * i)}
                   : i \in 0..3}
      [] OTHER -> {}

Reads(kind) ==
    CASE kind = "battery" -> {Get(<<"current">>, 4, 0)}
      [] kind = "ports" ->
            UNION {{Get(<<"sensorType", i>>, 1, 2 * i), Get(<<"sensorValue", i>>, 4, 16 + 4 * i),
                    Get(<<"motorType", i>>, 1, 8 + 2 * i), Get(<<"motorTacho", i>>, 4, 32 + 4 * i)}
                   : i \in 0..3}
      [] kind = "buttons" -> {Get(<<"button", i>>, 1, i) : i \in 0..5}
      [] kind = "info" -> {Get(<<"osVersion">>, 16, 0), Get(<<"fwVersion">>, 8, 24)}
      [] OTHER -> {}

\* validateReply() does not throw: neither error type.
Accepted(reply) == reply.type \notin {DirectReplyError, SystemReplyError}

\* parseResponse(): the bytes of each field.  Where the answer is short, a
\* string is what there is of it, and None stands for a default.
Parse(kind, reply) ==
    LET size == Len(reply.payload) IN
    [get \in Reads(kind) |->
        IF size >= get.at + get.width
        THEN SubSeq(reply.payload, get.at + 1, get.at + get.width)
        ELSE IF kind = "info" THEN SubSeq(reply.payload, get.at + 1, size)
        ELSE None]

\* A response that says of a brick what command id asked of it.
Truthful(response, id, kind) ==
    \A get \in Reads(kind) :
        response[get] = [n \in 1..get.width |-> <<id, <<get.field, n - 1>>>>]
=============================================================================
