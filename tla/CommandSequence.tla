--------------------------- MODULE CommandSequence ---------------------------
(***************************************************************************)
(* What one tracing pass asks of the server, and how the client reads the  *)
(* numbered answers: the command sequence of client.cpp, its layout in the *)
(* request datagram, and the arithmetic on command indices that            *)
(* clientParseResponseSequence.cpp uses instead of being told what kind of *)
(* answer it holds.  There are no variables here: the client, the server   *)
(* and the theorems share these operators.                                 *)
(***************************************************************************)
EXTENDS Integers, Sequences

CONSTANTS
  N,             (* sides of the first polygon, the client's fifth argument *)
  LengthDigits   (* decimal digits of the side length L, its fourth         *)

ASSUME PolygonAssumption ==
  /\ N \in 4..8
  /\ LengthDigits \in 1..10

(***************************************************************************)
(* The commands of a pass.  Pass 1 traces N sides, pass 2 N-1 sides.       *)
(***************************************************************************)
Pass == 1..2

Sides(p) == IF p = 1 THEN N ELSE N - 1

NumCommands(p) == 4 + Sides(p) * 8

SnapshotCommands == <<"IMAGE", "GPS", "DGPS", "LASERS">>

Kinds == {"IMAGE", "GPS", "DGPS", "LASERS", "MOVE", "STOP", "TURN"}

PositionKinds == {"GPS", "DGPS", "LASERS"}

(* Mutant: the robot is stopped when the image has been taken. *)
StopAfterImage ==
  <<"MOVE", "IMAGE", "STOP", "GPS", "DGPS", "LASERS", "TURN", "STOP">>

SideCommands ==
  <<"MOVE", "STOP", "IMAGE", "GPS", "DGPS", "LASERS", "TURN", "STOP">>

CommandAt(i) == IF i < 4 THEN SnapshotCommands[i + 1]
                         ELSE SideCommands[((i - 4) % 8) + 1]

(***************************************************************************)
(* Layout of the request.  Each command is preceded by a byte holding its  *)
(* length, and the sequence ends with one null byte.                       *)
(***************************************************************************)
CommandLength(kind) ==
  CASE kind = "IMAGE"  -> 9
    [] kind = "GPS"    -> 7
    [] kind = "DGPS"   -> 8
    [] kind = "LASERS" -> 10
    [] kind = "MOVE"   -> 7 + LengthDigits
    [] kind = "STOP"   -> 4
    [] kind = "TURN"   -> 31

SideBytes == 38 + 2 * (1 + 4) + (1 + 7 + LengthDigits) + (1 + 31)

RequestBytes(p) == 38 + Sides(p) * SideBytes + 1

(* Offset of the null byte that ends the sequence. *)
Terminator(p) == RequestBytes(p) - 1

(***************************************************************************)
(* sendRequestNoResponse, for a robotID of idLen characters: the bytes the *)
(* header takes of each datagram, and the commands put behind it.          *)
(***************************************************************************)
HeadLen(idLen) == 4 + idLen + 1 + 8

MaxPayload(idLen) == 1000 - HeadLen(idLen)

SegmentCount(p, idLen) == RequestBytes(p) \div MaxPayload(idLen)

PacketLen(p, idLen) ==
  IF MaxPayload(idLen) < RequestBytes(p) THEN MaxPayload(idLen)
                                         ELSE RequestBytes(p)

(***************************************************************************)
(* Command bytes that leave the client: send() is given packetLen, the     *)
(* length of the commands alone, for a buffer that starts with the header. *)
(***************************************************************************)
(* Mutant: send() is given the length of header and commands. *)
WholeRequest(p, idLen) == PacketLen(p, idLen)

SentBytes(p, idLen) == PacketLen(p, idLen) - HeadLen(idLen)

(***************************************************************************)
(* Characters of a command generateHTTPRequest needs to build its URI: all *)
(* of a plain command, up to one digit of the second number of the others. *)
(***************************************************************************)
UsableLength(kind) ==
  CASE kind = "MOVE" -> 8
    [] kind = "TURN" -> 20
    [] OTHER         -> CommandLength(kind)

(***************************************************************************)
(* The client's reading of a command index.                                *)
(***************************************************************************)
CommandCode(ci) == (IF ci <= 4 THEN ci + 2 ELSE ci + 4) % 8

ResponseKind(ci) ==
  LET code == CommandCode(ci)
  IN  CASE code = 2 -> "IMAGE"
        [] code = 3 -> "GPS"
        [] code = 4 -> "DGPS"
        [] code = 5 -> "LASERS"
        [] OTHER    -> "none"

(* Mutant: the second pass goes on from its own number of sides. *)
SideNumberOfSides(p, ci) == (ci + 4) \div 8 + (IF p = 1 THEN 0 ELSE Sides(p))

SideNumber(p, ci) ==
  (ci + 4) \div 8 + (IF p = 1 THEN 0 ELSE Sides(p) + 1)

(***************************************************************************)
(* Length of the positionFileWritten array, one entry per file number.     *)
(***************************************************************************)
MaxFiles == 17
=============================================================================
