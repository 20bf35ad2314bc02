--------------------------- MODULE RobotProperties ---------------------------
(***************************************************************************)
(* What RobotServer should satisfy, and that it implements PolygonSession. *)
(***************************************************************************)
EXTENDS RobotServer

(* Types, and the order of the counters. *)
RobotTypeOK ==
  /\ stage \in {"next", "connected", "answer", "send"}
  /\ maxSockets \in SocketLimits
  /\ sockets \in 0 .. maxSockets
  /\ motionBefore \in {"still", "moving", "turning"}
  /\ motionTime \in Nat
  /\ bodyLen \in Nat
  /\ sent \in Nat
  /\ sendable \in sent .. NumMessages(bodyLen)
  /\ server = "recv" => stage = "next"

(* Commands the server carries out for a client that traces both polygons. *)
CommandsServed == (LastServed(1) + 1) + (LastServed(2) + 1)

SocketsNeeded == CommandsServed * Cardinality(Clients)

(***************************************************************************)
(* The server opens one socket for each command and closes none, so it     *)
(* holds as many as the commands it carried out when all has been served.  *)
(***************************************************************************)
SocketPerCommand ==
  (\A c \in Clients : pc[c] = "done") /\ requests = {} /\ server = "recv"
    => sockets = SocketsNeeded

(***************************************************************************)
(* SocketsNeeded is enough, whatever the clients do and however their      *)
(* passes are interleaved: the server never holds more sockets, and        *)
(* setupClientSocket finds a descriptor for every command of a process     *)
(* that started with so many to spare.                                     *)
(***************************************************************************)
DescriptorsSuffice ==
  /\ sockets <= SocketsNeeded
  /\ maxSockets >= SocketsNeeded /\ server = "serve" /\ stage = "next" =>
       sockets < maxSockets

(* Time is up: the server reads the answer to a MOVE or a TURN. *)
MotionOver ==
  server = "serve" /\ stage = "answer" /\ Command \in {"MOVE", "TURN"}

(***************************************************************************)
(* A MOVE or a TURN with a command behind it in the request is cut short   *)
(* by getTime's error on the time write() took and by no more: that is     *)
(* less than nine tenths of a second.  Only the last command of a request  *)
(* may be cut short by send() as well, to what is left of its text.        *)
(***************************************************************************)
MotionTimeBound ==
  MotionOver =>
    \E d \in {Duration[Command]}
             \cup (IF MoreCommands(position) THEN {} ELSE CutDurations[Command]) :
      motionTime > 10 * d - 9 * Second

(***************************************************************************)
(* README:84-85 and 97-100: the time taken by the request is measured to   *)
(* the microsecond and waited for the rest of, so that the robot moves for *)
(* the duration it was asked to; here of the commands send() has not cut.  *)
(***************************************************************************)
MovesLongEnough ==
  MotionOver /\ MoreCommands(position) => motionTime >= 10 * Duration[Command]

(***************************************************************************)
(* Only a server that is gone, an answer that was lost or never sent, or a *)
(* failure of its own keeps a client from tracing both polygons: what it   *)
(* does between the server's calls does not.                               *)
(***************************************************************************)
DoneUnlessDown ==
  \A c \in Clients :
    <>(pc[c] \in {"done", "quit"} \/ server = "down" \/ losses > 0)

-----------------------------------------------------------------------------
(***************************************************************************)
(* The refinement mapping.  PolygonSession's server carries a command out  *)
(* in one step, the one in which the answer has been read: if all of its   *)
(* messages will be sent the command is over and they are on their way, if *)
(* not the server is down.                                                 *)
(***************************************************************************)
Committed == stage = "send" /\ sendable = NumMessages(bodyLen)

Unsent == IF stage = "send"
          THEN SendResponse(bodyLen, sendable) \ SendResponse(bodyLen, sent)
          ELSE {}

(* The offset at which the command being carried out starts. *)
CommandStart ==
  IF stage = "next" \/ Committed THEN position
  ELSE position - (1 + CommandLength(Command))

AbsServer ==
  IF stage # "send" THEN server
  ELSE IF ~Committed THEN "down"
  ELSE IF MoreCommands(position) THEN "serve" ELSE "recv"

AbsCommandIndex == IF Committed THEN commandIndex + 1 ELSE commandIndex

AbsMotion ==
  IF server = "serve" /\ stage = "answer" THEN motionBefore ELSE motion

AbsNet == net \cup Unsent

Session ==
  INSTANCE PolygonSession WITH
    MayFail      <- TRUE,
    server       <- AbsServer,
    position     <- CommandStart,
    commandIndex <- AbsCommandIndex,
    motion       <- AbsMotion,
    net          <- AbsNet

(***************************************************************************)
(* The server's separate calls do what PolygonSession does in one step: no *)
(* client can tell, whatever it receives or sends between two of them, and *)
(* running out of descriptors is one of the failures ServeFails allows.    *)
(***************************************************************************)
ImplementsSession == Session!Spec

-----------------------------------------------------------------------------
(***************************************************************************)
(* The inductive invariant behind the refinement.                          *)
(***************************************************************************)
(***************************************************************************)
(* What the stage of a command says of the locals: the command is usable   *)
(* once there is a connection, the robot moves as it was told once the     *)
(* request is written, and a server that went down in sendResponse had     *)
(* sent all it could and not all there was.                                *)
(***************************************************************************)
StageInv ==
  /\ stage \in {"connected", "answer"} =>
       request.bytes - (CommandStart + 1) >= UsableLength(Command)
  /\ stage = "answer" =>
       motion = CASE Command = "MOVE" -> "moving"
                  [] Command = "TURN" -> "turning"
                  [] Command = "STOP" -> "still"
                  [] OTHER            -> motionBefore
  /\ stage = "send" =>
       /\ bodyLen > 0
       /\ sent < NumMessages(bodyLen)
       /\ server = "down" => sent = sendable /\ ~Committed

(***************************************************************************)
(* Each pass of each client is served once: a request on its way is the    *)
(* only one for its pass, and nothing has answered it; the answers to the  *)
(* pass being served are those of earlier commands and messages.           *)
(***************************************************************************)
OnceInv ==
  /\ \A r \in requests :
       /\ Started(r.from, r.pass)
       /\ \A q \in requests : q.from = r.from /\ q.pass = r.pass => q = r
       /\ server = "serve" => r.from # request.from \/ r.pass # request.pass
       /\ \A m \in net : m.to # r.from \/ m.data.pass # r.pass
  /\ server = "serve" => Started(request.from, request.pass)
  /\ \A m \in net :
       /\ Started(m.to, m.data.pass)
       /\ server = "serve" /\ request.from = m.to /\ request.pass = m.data.pass =>
            \/ m.ci < commandIndex
            \/ stage = "send" /\ m.ci = commandIndex /\ m.seq < sent

(* Sent or not, the messages are within the bound on the network. *)
RoomInv ==
  IsFiniteSet(AbsNet) /\ Cardinality(AbsNet) <= MaxInFlight

(* Types of what the proofs need of PolygonSession's variables. *)
SharedTypes ==
  /\ robotIDLen \in [Clients -> RobotIDLens]
  /\ pass \in [Clients -> Pass]
  /\ pc \in [Clients -> {"send", "parse", "done", "quit"}]
  /\ server \in {"recv", "serve", "down"}
  /\ request \in Request
  /\ requests \subseteq Request
  /\ position \in Nat
  /\ commandIndex \in Nat
  /\ motion \in {"still", "moving", "turning"}
  /\ \A m \in net : /\ m.to \in Clients /\ m.ci \in Nat /\ m.seq \in Nat
                    /\ m.data.pass \in Pass

RobotInv == RobotTypeOK /\ SharedTypes /\ StageInv /\ OnceInv /\ RoomInv

-----------------------------------------------------------------------------
(***************************************************************************)
(* The inductive invariant behind DescriptorsSuffice.                      *)
(***************************************************************************)
(***************************************************************************)
(* Each pass gets one turn: its request is on its way once, is not served  *)
(* at that time, and while it is served the server stands between two      *)
(* commands, or behind the one it has connected for.                       *)
(***************************************************************************)
TurnInv ==
  /\ \A r \in requests :
       /\ r.bytes \in 1 .. Terminator(r.pass) - 12
       /\ Started(r.from, r.pass)
       /\ \A q \in requests : q.from = r.from /\ q.pass = r.pass => q = r
       /\ server = "serve" => r.from # request.from \/ r.pass # request.pass
  /\ server = "serve" =>
       /\ Started(request.from, request.pass)
       /\ request.bytes <= Terminator(request.pass) - 12
       /\ position = Offset(IF stage = "next" THEN commandIndex ELSE commandIndex + 1)
       /\ Offset(commandIndex) < request.bytes
       /\ commandIndex <= LastServed(request.pass)

(* The commands of a client, those of its second pass after the others. *)
Commands == Clients \X (0 .. CommandsServed - 1)

PassOf(n) == IF n <= LastServed(1) THEN 1 ELSE 2

IndexOf(n) == IF n <= LastServed(1) THEN n ELSE n - (LastServed(1) + 1)

(* A pass whose turn has not come. *)
Waiting(c, p) ==
  ~Started(c, p) \/ \E r \in requests : r.from = c /\ r.pass = p

Turn(c, p) == server = "serve" /\ request.from = c /\ request.pass = p

(* How many commands of a pass the server may have connected for. *)
Progress(c, p) ==
  IF Waiting(c, p) THEN 0
  ELSE IF Turn(c, p)
       THEN IF stage = "next" THEN commandIndex ELSE commandIndex + 1
       ELSE LastServed(p) + 1

Opened == {x \in Commands : IndexOf(x[2]) < Progress(x[1], PassOf(x[2]))}

SocketInv == TurnInv /\ sockets <= Cardinality(Opened)

-----------------------------------------------------------------------------
(***************************************************************************)
(* The inductive invariant behind SocketPerCommand, as to the sockets      *)
(* there must be at least.                                                 *)
(***************************************************************************)
(* Commands of the pass being served that the server connected for. *)
Connected == IF stage = "next" THEN commandIndex ELSE commandIndex + 1

(***************************************************************************)
(* Something shows that the server connected for command i of pass p: the  *)
(* client has its answer, or chunks of it, or some are on their way to the *)
(* client, or the server has come that far, or the client is done with the *)
(* pass, which it is not before all commands have been answered.           *)
(***************************************************************************)
Evident(c, p, i) ==
  \/ p < pass[c]
  \/ p = pass[c] /\ pc[c] = "done"
  \/ /\ p = pass[c] /\ pc[c] = "parse"
     /\ \/ i \in answered[c]
        \/ responses[c][i] # <<>>
        \/ \E m \in net : m.to = c /\ m.ci = i
        \/ Turn(c, p) /\ i < Connected

EvidentCommands ==
  {x \in Commands : Evident(x[1], PassOf(x[2]), IndexOf(x[2]))}

(* There is a socket for each command with a trace. *)
EvidentInv ==
  /\ \A c \in Clients : pc[c] = "done" => pass[c] = 2
  /\ Cardinality(EvidentCommands) <= sockets
=============================================================================
