----------------------------- MODULE RobotServer -----------------------------
(***************************************************************************)
(* The server's loop over the commands of a request, call by call, beside  *)
(* the clients and the network of PolygonSession.  Between two calls the   *)
(* other processes go on: a client receives the first chunk of an answer   *)
(* before the last one is sent.  The calls are those PolygonSession sums   *)
(* up in ServeCommand: connect to the robot, write the request and wait    *)
(* while the robot moves, read the answer to its end, send the chunks.     *)
(***************************************************************************)
EXTENDS SessionInvariant

CONSTANTS
  SocketLimits,  (* how many descriptors the process may have left          *)
  Second,        (* clock units in a second                                 *)
  WriteTimes,    (* units a write() to the robot may take                   *)
  Duration,      (* units a MOVE or a TURN is to last                       *)
  CutDurations   (* and what the server may read of it if the text is cut   *)

ASSUME RobotAssumption ==
  /\ SocketLimits \subseteq Nat
  /\ Second \in Nat \ {0}
  /\ WriteTimes \subseteq Nat
  /\ Duration \in [{"MOVE", "TURN"} -> Nat]
  /\ CutDurations \in [{"MOVE", "TURN"} -> SUBSET Nat]
  /\ \A kind \in {"MOVE", "TURN"} :
       /\ CutDurations[kind] # {}
       /\ CutDurations[kind] \subseteq 0 .. Duration[kind]  (* digits are cut *)

VARIABLES
  stage,         (* "next", "connected", "answer" or "send"                 *)
  maxSockets,    (* descriptors left to the process when it started         *)
  sockets,       (* robot sockets it has opened since                       *)
  motionBefore,  (* history: motion when the command was read               *)
  motionTime,    (* history: time from write() to the end of the sleep, in
                    tenths of a clock unit                                  *)
  bodyLen,       (* httpBodyLength of the answer being sent                 *)
  sent,          (* its messages sent so far                                *)
  sendable       (* prophecy: how many of them sendto() will take           *)

robotVars == <<stage, maxSockets, sockets, motionBefore, motionTime, bodyLen,
               sent, sendable>>

allVars == <<vars, robotVars>>

-----------------------------------------------------------------------------
(***************************************************************************)
(* The clock.  getTime adds the microseconds divided by ten million to the *)
(* seconds: its value is in tenths of a unit, a second being Second units. *)
(***************************************************************************)
GetTime(t) == 10 * Second * (t \div Second) + (t % Second)

(* Mutant: only sleep() is called, for the whole seconds. *)
WaitWholeSeconds(d, t, w) ==
  LET timeSpent == GetTime(t + w) - GetTime(t)
      left == IF 10 * d > timeSpent THEN 10 * d - timeSpent ELSE 0
  IN  left - (left % (10 * Second))

(* The sleep, for a duration of d, after a write() that began at t and took w. *)
WaitAfter(d, t, w) ==
  LET timeSpent == GetTime(t + w) - GetTime(t)
  IN  IF 10 * d > timeSpent THEN 10 * d - timeSpent ELSE 0

(***************************************************************************)
(* The offset at which the command the server has connected for starts,    *)
(* and the durations it may find in it.  send() cuts the last command of a *)
(* request, the angle of a TURN most of the time, and sscanf() reads the   *)
(* digits that are left.                                                   *)
(***************************************************************************)
ConnectedStart == position - (1 + CommandLength(Command))

DurationsRead ==
  IF request.bytes - (ConnectedStart + 1) >= CommandLength(Command)
  THEN {Duration[Command]} ELSE CutDurations[Command]

-----------------------------------------------------------------------------
(* Mutant: the descriptor table has no end. *)
ConnectUnlimited ==
  /\ server = "serve" /\ stage = "next"
  /\ Usable
  /\ sockets' = sockets + 1
  /\ position' = position + 1 + CommandLength(Command)
  /\ stage' = "connected"
  /\ UNCHANGED <<maxSockets, motionBefore, motionTime, bodyLen, sent, sendable,
                 server, request, commandIndex, motion, netVars, clientVars>>

(* Mutant: the socket is not counted, as if it was closed. *)
ConnectAndClose ==
  /\ server = "serve" /\ stage = "next"
  /\ Usable
  /\ sockets < maxSockets
  /\ position' = position + 1 + CommandLength(Command)
  /\ stage' = "connected"
  /\ UNCHANGED <<maxSockets, sockets, motionBefore, motionTime, bodyLen, sent,
                 sendable, server, request, commandIndex, motion, netVars,
                 clientVars>>

(* Mutant: a second socket for each command, to read the answer from. *)
ConnectTwice ==
  /\ server = "serve" /\ stage = "next"
  /\ Usable
  /\ sockets < maxSockets
  /\ sockets' = sockets + 2
  /\ position' = position + 1 + CommandLength(Command)
  /\ stage' = "connected"
  /\ UNCHANGED <<maxSockets, motionBefore, motionTime, bodyLen, sent, sendable,
                 server, request, commandIndex, motion, netVars, clientVars>>

(* getNextCommand, and a TCP connection that nothing ever closes. *)
Connect ==
  /\ server = "serve" /\ stage = "next"
  /\ Usable
  /\ sockets < maxSockets
  /\ sockets' = sockets + 1
  /\ position' = position + 1 + CommandLength(Command)
  /\ stage' = "connected"
  /\ UNCHANGED <<maxSockets, motionBefore, motionTime, bodyLen, sent, sendable,
                 server, request, commandIndex, motion, netVars, clientVars>>

(* setupClientSocket has no descriptor left, or nobody answers. *)
ConnectFails ==
  /\ server = "serve" /\ stage = "next"
  /\ Usable
  /\ sockets = maxSockets \/ MayFail
  /\ server' = "down"
  /\ UNCHANGED <<request, position, commandIndex, motion, netVars, clientVars,
                 robotVars>>

(* write(), then the sleep that makes a MOVE or a TURN last long enough. *)
WriteRequest ==
  /\ server = "serve" /\ stage = "connected"
  /\ motion' = MotionAfter
  /\ motionBefore' = motion
  /\ \/ /\ Command \in {"MOVE", "TURN"}
        /\ \E d \in DurationsRead, t \in 0 .. Second - 1, w \in WriteTimes :
             motionTime' = 10 * w + WaitAfter(d, t, w)
     \/ /\ Command \notin {"MOVE", "TURN"}
        /\ UNCHANGED motionTime
  /\ stage' = "answer"
  /\ UNCHANGED <<maxSockets, sockets, bodyLen, sent, sendable, server, request,
                 position, commandIndex, netVars, clientVars>>

(* write() fails or is short; the robot may have understood all the same. *)
WriteFails ==
  /\ MayFail
  /\ server = "serve" /\ stage = "connected"
  /\ motion' \in {motion, MotionAfter}
  /\ server' = "down"
  /\ UNCHANGED <<request, position, commandIndex, netVars, clientVars,
                 robotVars>>

(***************************************************************************)
(* read() until it does not return a positive number.  An error counts as  *)
(* the end, so the body may also be any beginning of the robot's answer:   *)
(* BodyLengths has the lengths of both.  An image is encoded.              *)
(***************************************************************************)
ReadAnswer ==
  /\ server = "serve" /\ stage = "answer"
  /\ \E len \in BodyLengths[Command] :
       /\ Cardinality(net) + NumMessages(len) <= MaxInFlight
       /\ bodyLen' = len
       /\ sendable' \in IF MayFail THEN 0 .. NumMessages(len)
                        ELSE {NumMessages(len)}
  /\ sent' = 0
  /\ motionTime' = 0
  /\ stage' = "send"
  /\ UNCHANGED <<maxSockets, sockets, motionBefore, serverVars, netVars,
                 clientVars>>

(* An answer that ends before its header does: strstr finds nothing. *)
ReadFails ==
  /\ MayFail
  /\ server = "serve" /\ stage = "answer"
  /\ server' = "down"
  /\ UNCHANGED <<request, position, commandIndex, motion, netVars, clientVars,
                 robotVars>>

(* No header ends in the answer: no message is sent (SkipAnswer). *)
ReadHeadless ==
  /\ server = "serve" /\ stage = "answer"
  /\ commandIndex \in Headless
  /\ losses < MaxSkip
  /\ losses' = losses + 1
  /\ motionTime' = 0
  /\ commandIndex' = commandIndex + 1
  /\ server' = IF MoreCommands(position) THEN "serve" ELSE "recv"
  /\ stage' = "next"
  /\ UNCHANGED <<maxSockets, sockets, motionBefore, bodyLen, sent, sendable,
                 request, position, motion, requests, net, dups, clientVars>>

(* Message number sent of sendResponse. *)
NextMessage == SendResponse(bodyLen, sent + 1) \ SendResponse(bodyLen, sent)

(* A sendto() that is not the last. *)
SendMessage ==
  /\ server = "serve" /\ stage = "send"
  /\ sent < sendable
  /\ sent + 1 < NumMessages(bodyLen)
  /\ net' = net \cup NextMessage
  /\ sent' = sent + 1
  /\ UNCHANGED <<stage, maxSockets, sockets, motionBefore, motionTime, bodyLen,
                 sendable, serverVars, requests, losses, dups, clientVars>>

(* Mutant: the first message is sent in place of each of the others. *)
SendFirstAgain ==
  /\ server = "serve" /\ stage = "send"
  /\ sent < sendable
  /\ sent + 1 = NumMessages(bodyLen)
  /\ net' = net \cup SendResponse(bodyLen, 1)
  /\ commandIndex' = commandIndex + 1
  /\ server' = IF MoreCommands(position) THEN "serve" ELSE "recv"
  /\ stage' = "next"
  /\ bodyLen' = 0 /\ sent' = 0 /\ sendable' = 0
  /\ UNCHANGED <<maxSockets, sockets, motionBefore, motionTime, request,
                 position, motion, requests, losses, dups, clientVars>>

(* Mutant: the next command gets the same number. *)
SendLastUncounted ==
  /\ server = "serve" /\ stage = "send"
  /\ sent < sendable
  /\ sent + 1 = NumMessages(bodyLen)
  /\ net' = net \cup NextMessage
  /\ server' = IF MoreCommands(position) THEN "serve" ELSE "recv"
  /\ stage' = "next"
  /\ bodyLen' = 0 /\ sent' = 0 /\ sendable' = 0
  /\ UNCHANGED <<maxSockets, sockets, motionBefore, motionTime, request,
                 position, commandIndex, motion, requests, losses, dups,
                 clientVars>>

(* The last sendto(), then the end of the loop's body and its test. *)
SendLast ==
  /\ server = "serve" /\ stage = "send"
  /\ sent < sendable
  /\ sent + 1 = NumMessages(bodyLen)
  /\ net' = net \cup NextMessage
  /\ commandIndex' = commandIndex + 1
  /\ server' = IF MoreCommands(position) THEN "serve" ELSE "recv"
  /\ stage' = "next"
  /\ bodyLen' = 0 /\ sent' = 0 /\ sendable' = 0
  /\ UNCHANGED <<maxSockets, sockets, motionBefore, motionTime, request,
                 position, motion, requests, losses, dups, clientVars>>

(* sendto() fails: the messages before it are on their way. *)
SendFails ==
  /\ server = "serve" /\ stage = "send"
  /\ sent = sendable
  /\ server' = "down"
  /\ UNCHANGED <<request, position, commandIndex, motion, netVars, clientVars,
                 robotVars>>

-----------------------------------------------------------------------------
RobotInit ==
  /\ Init
  /\ stage = "next"
  /\ maxSockets \in SocketLimits
  /\ sockets = 0
  /\ motionBefore = "still"
  /\ motionTime = 0
  /\ bodyLen = 0 /\ sent = 0 /\ sendable = 0

ServeStep ==
  \/ Connect \/ ConnectFails \/ WriteRequest \/ WriteFails \/ ReadAnswer
  \/ ReadHeadless \/ ReadFails \/ SendMessage \/ SendLast \/ SendFails

(* The steps of PolygonSession that are the same here. *)
SharedStep ==
  /\ \/ \E c \in Clients : ClientStep(c)
     \/ ReceiveRequest
     \/ RefuseCommand /\ stage = "next"
     \/ ServerStops
     \/ Lose
     \/ Discard
     \/ Terminated
  /\ UNCHANGED robotVars

RobotNext == ServeStep \/ SharedStep

RobotSpec == RobotInit /\ [][RobotNext]_allVars

(***************************************************************************)
(* Every call the server makes returns, and the client's recv() returns    *)
(* once a datagram is there.                                               *)
(***************************************************************************)
ServerWork ==
  \/ Connect \/ WriteRequest \/ ReadAnswer \/ SendMessage \/ SendLast
  \/ SendFails
  \/ ReceiveRequest /\ UNCHANGED robotVars

RobotFairness ==
  /\ WF_allVars(ServerWork)
  /\ WF_allVars(ConnectFails /\ sockets = maxSockets)
  /\ \A c \in Clients :
       /\ WF_allVars(StartPass(c) /\ UNCHANGED robotVars)
       /\ WF_allVars(Receive(c) /\ UNCHANGED robotVars)
  /\ WF_allVars(Discard /\ UNCHANGED robotVars)

FairRobotSpec == RobotSpec /\ RobotFairness
=============================================================================
