---------------------------- MODULE SocketProofs -----------------------------
(***************************************************************************)
(* Types of RobotServer's variables and how many descriptors the server    *)
(* takes: no more than the clients have commands, whatever the robot       *)
(* answers and the network does, and no fewer when all clients are done,   *)
(* if it delivers no response twice.  What is proved of PolygonSession is  *)
(* carried over to RobotServer for that.                                   *)
(***************************************************************************)
EXTENDS RobotProofs

(* Types of what a command depends on. *)
TurnTypes ==
  /\ robotIDLen \in [Clients -> RobotIDLens]
  /\ pass \in [Clients -> Pass]
  /\ pc \in [Clients -> {"send", "parse", "done", "quit"}]
  /\ server \in {"recv", "serve", "down"}
  /\ request \in Request
  /\ requests \subseteq Request
  /\ position \in Nat
  /\ commandIndex \in Nat
  /\ motion \in {"still", "moving", "turning"}

LEMMA InitTypes == RobotInit => RobotTypeOK /\ TurnTypes
<1> SUFFICES ASSUME RobotInit PROVE RobotTypeOK /\ TurnTypes
  OBVIOUS
<1> USE DEF RobotInit, Init
<1>1. RobotTypeOK
  BY RobotAssumption, NumMessagesType DEF RobotTypeOK
<1>2. TurnTypes
  BY DEF TurnTypes, Pass, Request
<1> QED
  BY <1>1, <1>2

LEMMA ServeTypes ==
  ASSUME RobotTypeOK, TurnTypes, ServeStep
  PROVE  RobotTypeOK' /\ TurnTypes'
<1> USE DEF RobotTypeOK, TurnTypes, serverVars, netVars, clientVars, robotVars
<1>1. /\ CommandLength(Command) \in Nat /\ MotionAfter \in {"still", "moving", "turning"}
      /\ Command \in Kinds
  BY OffsetStep, CommandAtType DEF Command, MotionAfter
<1>2. CASE Connect
  BY <1>1, <1>2, NumMessagesType, RobotAssumption DEF Connect
<1>3. CASE ConnectFails \/ WriteFails \/ ReadFails \/ SendFails
  BY <1>1, <1>3 DEF ConnectFails, WriteFails, ReadFails, SendFails
<1>4. CASE WriteRequest
  <2>1. motionTime' \in Nat
    <3>1. CASE UNCHANGED motionTime
      BY <3>1
    <3>2. CASE Command \in {"MOVE", "TURN"} /\ ~UNCHANGED motionTime
      <4>1. PICK d \in DurationsRead, t \in 0..(Second - 1), w \in WriteTimes :
              motionTime' = 10 * w + WaitAfter(d, t, w)
        BY <1>4, <3>2 DEF WriteRequest
      <4> QED
        BY <3>2, <4>1, DurationsType, WaitIsLongEnough, RobotAssumption
    <3> QED
      BY <1>4, <3>1, <3>2 DEF WriteRequest
  <2> QED
    BY <1>1, <1>4, <2>1 DEF WriteRequest
<1>5. CASE ReadAnswer
  <2>1. \A len \in BodyLengths[Command] : len \in Nat /\ NumMessages(len) \in Nat
    BY <1>1, SessionAssumption, NumMessagesType
  <2>2. PICK len \in BodyLengths[Command] :
          bodyLen' = len /\ sendable' \in 0 .. NumMessages(len)
    BY <1>5, <2>1 DEF ReadAnswer
  <2>3. bodyLen' \in Nat /\ sendable' \in 0 .. NumMessages(bodyLen')
    BY <2>1, <2>2
  <2> QED
    BY <1>5, <2>3 DEF ReadAnswer
<1>6. CASE SendMessage
  <2>1. NumMessages(bodyLen) \in Nat /\ NumMessages(bodyLen') = NumMessages(bodyLen)
    BY <1>6, NumMessagesType DEF SendMessage
  <2>2. sent' \in Nat /\ sendable' \in sent' .. NumMessages(bodyLen')
    BY <1>6, <2>1 DEF SendMessage
  <2> QED
    BY <1>6, <2>2 DEF SendMessage
<1>7. CASE SendLast
  BY <1>7, NumMessagesType DEF SendLast
<1>8. CASE ReadHeadless
  BY <1>8 DEF ReadHeadless
<1> QED
  BY <1>2, <1>3, <1>4, <1>5, <1>6, <1>7, <1>8 DEF ServeStep

LEMMA SharedTypesKept ==
  ASSUME RobotTypeOK, TurnTypes, SharedStep
  PROVE  RobotTypeOK' /\ TurnTypes'
<1> USE DEF RobotTypeOK, TurnTypes, serverVars, netVars, clientVars, robotVars, vars
<1>1. UNCHANGED robotVars
  BY DEF SharedStep
<1>2. ASSUME NEW c \in Clients, StartPass(c) PROVE RobotTypeOK' /\ TurnTypes'
  <2>1. [from |-> c, pass |-> pass[c], bytes |-> SentBytes(pass[c], robotIDLen[c])]
          \in Request
    BY SentBytesBound, OffsetOfLast DEF Request
  <2> QED
    BY <1>1, <1>2, <2>1 DEF StartPass
<1>3. ASSUME NEW c \in Clients, Receive(c) PROVE RobotTypeOK' /\ TurnTypes'
  <2>1. PICK m \in net :
          /\ KeepChunk(c, m) \/ CompleteResponse(c, m)
          /\ UNCHANGED <<robotIDLen, serverVars, requests, losses>>
    BY <1>3 DEF Receive
  <2>2. pass' \in [Clients -> Pass] /\ pc' \in [Clients -> {"send", "parse", "done", "quit"}]
    BY <2>1 DEF KeepChunk, CompleteResponse, ContinueOrReturn, Pass
  <2> QED
    BY <1>1, <2>1, <2>2
<1>4. ASSUME NEW c \in Clients, RequestFails(c) \/ HandleFails(c) \/ RecvFails(c)
      PROVE  RobotTypeOK' /\ TurnTypes'
  BY <1>1, <1>4 DEF RequestFails, HandleFails, RecvFails
<1>5. CASE ReceiveRequest
  BY <1>1, <1>5 DEF ReceiveRequest
<1>6. CASE RefuseCommand /\ stage = "next"
  BY <1>1, <1>6 DEF RefuseCommand
<1>7. CASE ServerStops \/ Lose \/ Discard \/ Terminated
  BY <1>1, <1>7 DEF ServerStops, Lose, Discard, Terminated
<1> QED
  BY <1>2, <1>3, <1>4, <1>5, <1>6, <1>7 DEF SharedStep, ClientStep

LEMMA StepTypes ==
  RobotTypeOK /\ TurnTypes /\ [RobotNext]_allVars => RobotTypeOK' /\ TurnTypes'
<1> SUFFICES ASSUME RobotTypeOK, TurnTypes, [RobotNext]_allVars
             PROVE  RobotTypeOK' /\ TurnTypes'
  OBVIOUS
<1>1. CASE ServeStep
  BY <1>1, ServeTypes
<1>2. CASE SharedStep
  BY <1>2, SharedTypesKept
<1>3. CASE UNCHANGED allVars
  BY <1>3 DEF RobotTypeOK, TurnTypes, allVars, robotVars, vars, serverVars, netVars,
     clientVars
<1> QED
  BY <1>1, <1>2, <1>3 DEF RobotNext

(***************************************************************************)
(* RobotTypeOK whatever the constants are, empty answers included: the     *)
(* sockets are within the limit, sendResponse is within its messages, and  *)
(* the server waits for a request between two commands only.               *)
(***************************************************************************)
THEOREM RobotTypesOK == RobotSpec => []RobotTypeOK
<1> DEFINE Inv == RobotTypeOK /\ TurnTypes
<1>1. RobotInit => Inv
  BY InitTypes
<1>2. Inv /\ [RobotNext]_allVars => Inv'
  BY StepTypes
<1> QED
  BY <1>1, <1>2, PTL DEF RobotSpec

-----------------------------------------------------------------------------
(***************************************************************************)
(* Each pass has one turn.                                                 *)
(***************************************************************************)
LEMMA ServeStepTurn ==
  ASSUME RobotTypeOK, TurnTypes, TurnInv, ServeStep
  PROVE  TurnInv'
<1>1. UNCHANGED <<pass, pc, requests, request>> /\ server = "serve"
  BY DEF ServeStep, Connect, ConnectFails, WriteRequest, WriteFails, ReadAnswer,
     ReadHeadless, ReadFails, SendMessage, SendLast, SendFails, clientVars, netVars,
     serverVars
<1>2. \A r \in requests : Started(r.from, r.pass)' <=> Started(r.from, r.pass)
  BY <1>1 DEF Started
<1>3. Started(request.from, request.pass)' <=> Started(request.from, request.pass)
  BY <1>1 DEF Started
<1>4. \A r \in requests' :
        /\ r.bytes \in 1 .. Terminator(r.pass) - 12
        /\ Started(r.from, r.pass)'
        /\ \A q \in requests' : q.from = r.from /\ q.pass = r.pass => q = r
        /\ r.from # request'.from \/ r.pass # request'.pass
  BY <1>1, <1>2 DEF TurnInv
<1>5. /\ Offset(commandIndex) < request.bytes
      /\ request.bytes <= Terminator(request.pass) - 12
      /\ position = Offset(IF stage = "next" THEN commandIndex ELSE commandIndex + 1)
      /\ commandIndex <= LastServed(request.pass)
      /\ Started(request.from, request.pass)
  BY <1>1 DEF TurnInv
<1>6. /\ commandIndex \in Nat /\ request.pass \in Pass /\ request.bytes \in Nat
      /\ Offset(commandIndex + 1) = Offset(commandIndex) + 1 + CommandLength(Command)
  BY OffsetStep DEF TurnTypes, Request, Command
<1> SUFFICES ASSUME server' = "serve"
             PROVE  /\ position' = Offset(IF stage' = "next" THEN commandIndex'
                                          ELSE commandIndex' + 1)
                    /\ Offset(commandIndex') < request.bytes
                    /\ commandIndex' <= LastServed(request.pass)
  BY <1>1, <1>3, <1>4, <1>5 DEF TurnInv
<1>7. CASE Connect
  BY <1>5, <1>6, <1>7 DEF Connect
<1>8. CASE WriteRequest \/ ReadAnswer \/ SendMessage
  <2>1. /\ stage # "next" /\ stage' # "next"
        /\ UNCHANGED <<position, commandIndex>>
    BY <1>8 DEF WriteRequest, ReadAnswer, SendMessage, serverVars
  <2> QED
    BY <1>5, <2>1
<1>9. CASE SendLast \/ ReadHeadless
  <2>1. /\ stage # "next" /\ stage' = "next" /\ position' = position
        /\ commandIndex' = commandIndex + 1
        /\ MoreCommands(position)
    BY <1>9 DEF SendLast, ReadHeadless
  <2>2. position = Offset(commandIndex + 1) /\ position < request.bytes
    BY <1>5, <2>1 DEF MoreCommands
  <2>3. commandIndex + 1 <= LastServed(request.pass)
    <3> SUFFICES ASSUME ~(commandIndex + 1 <= LastServed(request.pass)) PROVE FALSE
      OBVIOUS
    <3>1. /\ LastServed(request.pass) = NumCommands(request.pass) - 2
          /\ LastServed(request.pass) \in Nat
          /\ NumCommands(request.pass) \in Nat
      BY <1>6, LastServedType, NumCommandsRange
    <3>2. commandIndex + 1 = NumCommands(request.pass) - 1
      BY <1>5, <1>6, <3>1
    <3>3. /\ Terminator(request.pass) \in Nat
          /\ position = Terminator(request.pass) - 5
      BY <1>6, <2>2, <3>2, OffsetOfLast
    <3> QED
      BY <1>5, <1>6, <2>2, <3>3
  <2> QED
    BY <2>1, <2>2, <2>3
<1>10. CASE ConnectFails \/ WriteFails \/ ReadFails \/ SendFails
  BY <1>10 DEF ConnectFails, WriteFails, ReadFails, SendFails
<1> QED
  BY <1>7, <1>8, <1>9, <1>10 DEF ServeStep

(* What the steps of the clients and the network do to the passes. *)
LEMMA StartedStays ==
  ASSUME TurnTypes, SharedStep
  PROVE  \A c \in Clients : \A p \in Pass : Started(c, p) => Started(c, p)'
<1> USE DEF TurnTypes, Started
<1>1. ASSUME NEW d \in Clients, StartPass(d)
      PROVE  \A c \in Clients : \A p \in Pass : Started(c, p) => Started(c, p)'
  BY <1>1 DEF StartPass
<1>2. ASSUME NEW d \in Clients, Receive(d)
      PROVE  \A c \in Clients : \A p \in Pass : Started(c, p) => Started(c, p)'
  <2>1. pc[d] = "parse" /\ \E m \in net : KeepChunk(d, m) \/ CompleteResponse(d, m)
    BY <1>2 DEF Receive
  <2>2. \/ UNCHANGED <<pc, pass>>
        \/ /\ pass[d] = 1 /\ pc' = [pc EXCEPT ![d] = "send"]
           /\ pass' = [pass EXCEPT ![d] = 2]
        \/ /\ pass[d] = 2 /\ pc' = [pc EXCEPT ![d] = "done"]
           /\ UNCHANGED pass
    BY <2>1 DEF KeepChunk, CompleteResponse, ContinueOrReturn
  <2> QED
    BY <2>1, <2>2 DEF Pass
<1>3. ASSUME NEW d \in Clients, RequestFails(d) \/ HandleFails(d) \/ RecvFails(d)
      PROVE  \A c \in Clients : \A p \in Pass : Started(c, p) => Started(c, p)'
  BY <1>3 DEF RequestFails, HandleFails, RecvFails
<1>4. CASE ReceiveRequest \/ RefuseCommand \/ ServerStops \/ Lose \/ Discard \/ Terminated
  BY <1>4 DEF ReceiveRequest, RefuseCommand, ServerStops, Lose, Discard, Terminated,
     clientVars, vars
<1> QED
  BY <1>1, <1>2, <1>3, <1>4 DEF SharedStep, ClientStep

(* Apart from a new request or the start of a turn nothing is added. *)
LEMMA OtherSteps ==
  ASSUME SharedStep, ~ReceiveRequest, \A c \in Clients : ~StartPass(c)
  PROVE  /\ requests' \subseteq requests
         /\ UNCHANGED <<request, position, commandIndex, stage, sockets>>
         /\ server' = server \/ server' = "down"
<1>1. UNCHANGED <<stage, sockets>>
  BY DEF SharedStep, robotVars
<1>2. CASE \E c \in Clients : Receive(c) \/ RequestFails(c) \/ HandleFails(c) \/ RecvFails(c)
  BY <1>1, <1>2 DEF Receive, RequestFails, HandleFails, RecvFails, serverVars, netVars
<1>3. CASE RefuseCommand \/ ServerStops \/ Lose \/ Discard \/ Terminated
  BY <1>1, <1>3 DEF RefuseCommand, ServerStops, Lose, Discard, Terminated, serverVars,
     netVars, vars
<1> QED
  BY <1>2, <1>3 DEF SharedStep, ClientStep

LEMMA SharedStepTurn ==
  ASSUME RobotTypeOK, TurnTypes, TurnInv, SharedStep
  PROVE  TurnInv'
<1>1. UNCHANGED <<stage, sockets>>
  BY DEF SharedStep, robotVars
<1>2. /\ request.from \in Clients /\ request.pass \in Pass
      /\ \A r \in requests : r.from \in Clients /\ r.pass \in Pass
  BY DEF TurnTypes, Request
<1>3. \A c \in Clients : \A p \in Pass : Started(c, p) => Started(c, p)'
  BY StartedStays
<1>4. ASSUME NEW c \in Clients, StartPass(c) PROVE TurnInv'
  <2> DEFINE new == [from |-> c, pass |-> pass[c],
                     bytes |-> SentBytes(pass[c], robotIDLen[c])]
  <2>1. /\ pc[c] = "send" /\ pc' = [pc EXCEPT ![c] = "parse"]
        /\ requests' = requests \cup {new}
        /\ UNCHANGED <<pass, server, request, position, commandIndex>>
    BY <1>4 DEF StartPass, serverVars
  <2>2. /\ new.from = c /\ new.pass = pass[c]
        /\ new.bytes \in 1 .. Terminator(new.pass) - 12
    <3>1. pass[c] \in Pass /\ robotIDLen[c] \in RobotIDLens
      BY DEF TurnTypes
    <3>2. SentBytes(pass[c], robotIDLen[c]) \in 1 .. Terminator(pass[c]) - 12
      BY <3>1, SentBytesBound
    <3> QED
      BY <3>2
  <2> HIDE DEF new
  <2>3. ~Started(c, pass[c]) /\ Started(c, pass[c])'
    <3>1. pass[c] \in 1 .. 2 /\ pc'[c] = "parse" /\ pass' = pass
      BY <2>1 DEF TurnTypes, Pass
    <3>2. ~(pass[c] < pass[c])
      BY <3>1
    <3> QED
      BY <2>1, <3>1, <3>2 DEF Started
  <2>4. \A r \in requests : r.from # c \/ r.pass # pass[c]
    BY <2>3 DEF TurnInv
  <2>5. server = "serve" => c # request.from \/ pass[c] # request.pass
    BY <2>3 DEF TurnInv
  <2>6. ASSUME NEW r \in requests'
        PROVE  /\ r.bytes \in 1 .. Terminator(r.pass) - 12
               /\ Started(r.from, r.pass)'
               /\ \A q \in requests' : q.from = r.from /\ q.pass = r.pass => q = r
               /\ server = "serve" => r.from # request.from \/ r.pass # request.pass
    <3>1. CASE r = new
      BY <2>1, <2>2, <2>3, <2>4, <2>5, <3>1 DEF Started
    <3>2. CASE r \in requests
      BY <1>2, <1>3, <2>1, <2>2, <2>4, <3>2 DEF TurnInv
    <3> QED
      BY <2>1, <3>1, <3>2
  <2>7. server = "serve" => Started(request.from, request.pass)'
    BY <1>2, <1>3, <2>1 DEF TurnInv, Started
  <2>8. server' = "serve" =>
          /\ Started(request.from, request.pass)'
          /\ request'.bytes <= Terminator(request'.pass) - 12
          /\ position' = Offset(IF stage' = "next" THEN commandIndex' ELSE commandIndex' + 1)
          /\ Offset(commandIndex') < request'.bytes
          /\ commandIndex' <= LastServed(request'.pass)
    <3> SUFFICES ASSUME server' = "serve"
                 PROVE  /\ Started(request.from, request.pass)'
                        /\ request'.bytes <= Terminator(request'.pass) - 12
                        /\ position' = Offset(IF stage' = "next" THEN commandIndex'
                                              ELSE commandIndex' + 1)
                        /\ Offset(commandIndex') < request'.bytes
                        /\ commandIndex' <= LastServed(request'.pass)
      OBVIOUS
    <3>1. server = "serve"
      BY <2>1
    <3>2. Started(request.from, request.pass)'
      BY <2>7, <3>1
    <3>3. /\ request.bytes <= Terminator(request.pass) - 12
          /\ position = Offset(IF stage = "next" THEN commandIndex ELSE commandIndex + 1)
          /\ Offset(commandIndex) < request.bytes
          /\ commandIndex <= LastServed(request.pass)
      BY <3>1 DEF TurnInv
    <3> QED
      BY <1>1, <2>1, <3>2, <3>3
  <2>9. \A r \in requests' :
          /\ r.bytes \in 1 .. Terminator(r.pass) - 12
          /\ Started(r.from, r.pass)'
          /\ \A q \in requests' : q.from = r.from /\ q.pass = r.pass => q = r
          /\ server' = "serve" => r.from # request'.from \/ r.pass # request'.pass
    BY <2>1, <2>6
  <2> QED
    BY <2>8, <2>9 DEF TurnInv
<1>5. CASE ReceiveRequest
  <2>1. PICK r \in requests : request' = r /\ requests' = requests \ {r}
    BY <1>5 DEF ReceiveRequest
  <2>2. /\ UNCHANGED <<pass, pc>> /\ server = "recv" /\ position' = 0 /\ commandIndex' = 0
    BY <1>5 DEF ReceiveRequest, clientVars
  <2>3. stage' = "next" /\ Offset(0) = 0
    BY <1>1, <2>2 DEF RobotTypeOK, Offset, SnapshotOffset
  <2>4. /\ r.bytes \in 1 .. Terminator(r.pass) - 12 /\ Started(r.from, r.pass)
        /\ r.from \in Clients /\ r.pass \in Pass
    BY <1>2, <2>1 DEF TurnInv
  <2>5. LastServed(r.pass) \in Nat /\ Terminator(r.pass) \in Nat
    BY <2>4, LastServedType, OffsetOfLast
  <2>6. Started(request.from, request.pass)'
    BY <2>1, <2>2, <2>4 DEF Started
  <2>7. \A q \in requests' :
          /\ q.bytes \in 1 .. Terminator(q.pass) - 12
          /\ Started(q.from, q.pass)'
          /\ \A s \in requests' : s.from = q.from /\ s.pass = q.pass => s = q
          /\ q.from # r.from \/ q.pass # r.pass
    BY <1>2, <1>3, <2>1 DEF TurnInv
  <2>8. /\ r.bytes <= Terminator(r.pass) - 12 /\ 0 < r.bytes /\ 0 <= LastServed(r.pass)
    BY <2>4, <2>5
  <2>9. /\ request'.bytes <= Terminator(request'.pass) - 12
        /\ position' = Offset(IF stage' = "next" THEN commandIndex' ELSE commandIndex' + 1)
        /\ Offset(commandIndex') < request'.bytes
        /\ commandIndex' <= LastServed(request'.pass)
    BY <2>1, <2>2, <2>3, <2>8
  <2> QED
    BY <2>1, <2>6, <2>7, <2>9 DEF TurnInv
<1>6. CASE ~ReceiveRequest /\ \A c \in Clients : ~StartPass(c)
  <2>1. /\ requests' \subseteq requests
        /\ UNCHANGED <<request, position, commandIndex, stage>>
        /\ server' = "serve" => server = "serve"
    BY <1>6, OtherSteps
  <2>2. \A r \in requests' : Started(r.from, r.pass)'
    BY <1>2, <1>3, <2>1 DEF TurnInv
  <2>3. server' = "serve" => Started(request.from, request.pass)'
    BY <1>2, <1>3, <2>1 DEF TurnInv
  <2> QED
    BY <2>1, <2>2, <2>3 DEF TurnInv, Started
<1> QED
  BY <1>4, <1>5, <1>6

-----------------------------------------------------------------------------
(***************************************************************************)
(* The commands the server may have connected for.                         *)
(***************************************************************************)
LEMMA NumbersOfCommands ==
  /\ LastServed(1) \in Nat /\ LastServed(2) \in Nat
  /\ CommandsServed \in Nat
  /\ CommandsServed = (LastServed(1) + 1) + (LastServed(2) + 1)
BY LastServedType DEF CommandsServed, Pass

LEMMA CommandsFinite ==
  ASSUME IsFiniteSet(Clients)
  PROVE  /\ IsFiniteSet(Commands)
         /\ Cardinality(Commands) = SocketsNeeded
         /\ SocketsNeeded \in Nat
<1>1. CommandsServed \in Nat
  BY NumbersOfCommands
<1>2. /\ IsFiniteSet(0 .. CommandsServed - 1)
      /\ Cardinality(0 .. CommandsServed - 1) = CommandsServed
  BY <1>1, FS_Interval
<1>3. Cardinality(Clients) \in Nat
  BY FS_CardinalityType
<1>4. /\ IsFiniteSet(Commands)
      /\ Cardinality(Commands) = Cardinality(Clients) * CommandsServed
  BY <1>2, FS_Product DEF Commands
<1> QED
  BY <1>1, <1>3, <1>4 DEF SocketsNeeded

LEMMA ProgressType ==
  ASSUME TurnTypes, NEW c \in Clients, NEW p \in Pass
  PROVE  Progress(c, p) \in Nat
BY LastServedType DEF Progress, TurnTypes

LEMMA ProgressTypeNext ==
  ASSUME TurnTypes', NEW c \in Clients, NEW p \in Pass
  PROVE  Progress(c, p)' \in Nat
<1>1. commandIndex' \in Nat
  BY DEF TurnTypes
<1>2. LastServed(p) \in Nat
  BY LastServedType
<1>3. \A i \in Nat : i + 1 \in Nat
  OBVIOUS
<1>4. 0 \in Nat
  OBVIOUS
<1> QED
  BY <1>1, <1>2, <1>3, <1>4, Zenon DEF Progress

(* What is not waiting will not wait again. *)
LEMMA NotWaitingAgain ==
  ASSUME TurnTypes, RobotNext, NEW c \in Clients, NEW p \in Pass, ~Waiting(c, p)
  PROVE  ~Waiting(c, p)'
<1>1. Started(c, p) /\ \A r \in requests : ~(r.from = c /\ r.pass = p)
  BY DEF Waiting
<1>2. CASE ServeStep
  <2>1. UNCHANGED <<pass, pc, requests>>
    BY <1>2 DEF ServeStep, Connect, ConnectFails, WriteRequest, WriteFails,
       ReadAnswer, ReadHeadless, ReadFails, SendMessage, SendLast, SendFails,
       clientVars, netVars
  <2> QED
    BY <1>1, <2>1 DEF Waiting, Started
<1>3. CASE SharedStep
  <2>1. Started(c, p)'
    BY <1>1, <1>3, StartedStays
  <2>2. CASE \E d \in Clients : StartPass(d)
    <3>1. PICK d \in Clients : StartPass(d)
      BY <2>2
    <3>2. /\ pc[d] = "send"
          /\ requests' = requests \cup {[from |-> d, pass |-> pass[d],
                                         bytes |-> SentBytes(pass[d], robotIDLen[d])]}
      BY <3>1 DEF StartPass
    <3>3. pass[d] \in 1 .. 2
      BY DEF TurnTypes, Pass
    <3>4. ~(c = d /\ p = pass[d])
      BY <1>1, <3>2, <3>3 DEF Started
    <3> QED
      BY <1>1, <2>1, <3>2, <3>4 DEF Waiting
  <2>3. CASE ReceiveRequest
    BY <1>1, <2>1, <2>3 DEF Waiting, ReceiveRequest
  <2>4. CASE ~ReceiveRequest /\ \A d \in Clients : ~StartPass(d)
    <3>1. requests' \subseteq requests
      BY <1>3, <2>4, OtherSteps
    <3> QED
      BY <1>1, <2>1, <3>1 DEF Waiting
  <2> QED
    BY <2>2, <2>3, <2>4
<1> QED
  BY <1>2, <1>3 DEF RobotNext

(* A turn goes on, or it is over and all of the pass is counted. *)
LEMMA TurnGoesOn ==
  ASSUME TurnTypes, TurnInv, RobotNext, NEW c \in Clients, NEW p \in Pass,
         ~Waiting(c, p)
  PROVE  /\ Turn(c, p)' => Turn(c, p)
         /\ Turn(c, p) /\ Turn(c, p)' =>
              (IF stage = "next" THEN commandIndex ELSE commandIndex + 1)
                <= (IF stage' = "next" THEN commandIndex' ELSE commandIndex' + 1)
<1>1. commandIndex \in Nat
  BY DEF TurnTypes
<1>2. CASE ServeStep
  <2>1. UNCHANGED request /\ server = "serve"
    BY <1>2 DEF ServeStep, Connect, ConnectFails, WriteRequest, WriteFails,
       ReadAnswer, ReadHeadless, ReadFails, SendMessage, SendLast, SendFails,
       serverVars
  <2>2. \/ stage = "next" /\ UNCHANGED commandIndex
        \/ stage # "next" /\ stage' # "next" /\ UNCHANGED commandIndex
        \/ stage # "next" /\ stage' = "next" /\ commandIndex' = commandIndex + 1
        \/ server' # "serve"
    BY <1>2 DEF ServeStep, Connect, ConnectFails, WriteRequest, WriteFails,
       ReadAnswer, ReadHeadless, ReadFails, SendMessage, SendLast, SendFails,
       serverVars
  <2> QED
    BY <1>1, <2>1, <2>2 DEF Turn
<1>3. CASE SharedStep /\ ReceiveRequest
  <2>1. PICK r \in requests : request' = r
    BY <1>3 DEF ReceiveRequest
  <2>2. ~(r.from = c /\ r.pass = p)
    BY DEF Waiting
  <2> QED
    BY <2>1, <2>2 DEF Turn
<1>4. CASE SharedStep /\ ~ReceiveRequest
  <2>1. /\ UNCHANGED <<request, commandIndex, stage>>
        /\ server' = "serve" => server = "serve"
    <3>1. CASE \E d \in Clients : StartPass(d)
      BY <1>4, <3>1 DEF SharedStep, StartPass, serverVars, robotVars
    <3>2. CASE ~\E d \in Clients : StartPass(d)
      BY <1>4, <3>2, OtherSteps
    <3> QED
      BY <3>1, <3>2
  <2> QED
    BY <1>1, <2>1 DEF Turn
<1> QED
  BY <1>2, <1>3, <1>4 DEF RobotNext

LEMMA ProgressGrows ==
  ASSUME TurnTypes, TurnTypes', TurnInv, RobotNext, NEW c \in Clients, NEW p \in Pass
  PROVE  Progress(c, p) <= Progress(c, p)'
<1>1. LastServed(p) \in Nat /\ commandIndex \in Nat /\ commandIndex' \in Nat
  BY LastServedType DEF TurnTypes
<1>2. CASE Waiting(c, p)
  <2>1. Progress(c, p) = 0
    BY <1>2 DEF Progress
  <2>2. Progress(c, p)' \in Nat
    BY ProgressTypeNext
  <2> QED
    BY <2>1, <2>2
<1>3. CASE ~Waiting(c, p)
  <2> DEFINE Now == IF stage = "next" THEN commandIndex ELSE commandIndex + 1
             Then == IF stage' = "next" THEN commandIndex' ELSE commandIndex' + 1
  <2>1. ~Waiting(c, p)'
    BY <1>3, NotWaitingAgain
  <2>2. /\ Turn(c, p)' => Turn(c, p)
        /\ Turn(c, p) /\ Turn(c, p)' => Now <= Then
    BY <1>3, TurnGoesOn
  <2>3. Turn(c, p) => Now <= LastServed(p) + 1
    BY <1>1 DEF Turn, TurnInv
  <2>4. /\ Progress(c, p) = IF Turn(c, p) THEN Now ELSE LastServed(p) + 1
        /\ Progress(c, p)' = IF Turn(c, p)' THEN Then ELSE LastServed(p) + 1
    BY <1>3, <2>1 DEF Progress
  <2>5. Now \in Nat /\ Then \in Nat
    <3>1. \A i \in Nat : i + 1 \in Nat
      OBVIOUS
    <3> QED
      BY <1>1, <3>1, Zenon
  <2> HIDE DEF Now, Then
  <2> QED
    BY <1>1, <2>2, <2>3, <2>4, <2>5
<1> QED
  BY <1>2, <1>3

LEMMA IndexType ==
  ASSUME NEW n \in 0 .. CommandsServed - 1
  PROVE  PassOf(n) \in Pass /\ IndexOf(n) \in Nat
BY NumbersOfCommands DEF PassOf, IndexOf, Pass

LEMMA OpenedGrows ==
  ASSUME TurnTypes, TurnTypes', TurnInv, RobotNext
  PROVE  Opened \subseteq Opened'
<1> SUFFICES ASSUME NEW x \in Opened PROVE x \in Opened'
  OBVIOUS
<1>1. x \in Commands /\ IndexOf(x[2]) < Progress(x[1], PassOf(x[2]))
  BY DEF Opened
<1>2. PICK c \in Clients, n \in 0 .. CommandsServed - 1 : x = <<c, n>>
  BY <1>1 DEF Commands
<1>3. PICK p \in Pass : p = PassOf(n)
  BY IndexType
<1>4. IndexOf(n) \in Nat /\ Progress(c, p) \in Nat
  BY IndexType, ProgressType
<1>5. Progress(c, p) <= Progress(c, p)'
  BY ProgressGrows
<1>6. Progress(c, p)' \in Nat
  BY ProgressTypeNext
<1>7. IndexOf(n) < Progress(c, p)
  BY <1>1, <1>2, <1>3
<1>8. IndexOf(n) < Progress(c, p)'
  BY <1>4, <1>5, <1>6, <1>7
<1>9. x[1] = c /\ x[2] = n
  BY <1>2
<1>10. Opened' = {y \in Commands : IndexOf(y[2]) < Progress(y[1], PassOf(y[2]))'}
  BY DEF Opened, Commands, IndexOf, PassOf, CommandsServed
<1> QED
  BY <1>1, <1>3, <1>8, <1>9, <1>10

(* The command the server comes to is one it has not connected for. *)
LEMMA NextCommand ==
  ASSUME TurnTypes, TurnInv, server = "serve", stage = "next"
  PROVE  \E x \in Commands : x \notin Opened /\ (Connect => x \in Opened')
<1> DEFINE n == IF request.pass = 1 THEN commandIndex
                ELSE LastServed(1) + 1 + commandIndex
<1>1. /\ request.from \in Clients /\ request.pass \in Pass /\ commandIndex \in Nat
      /\ commandIndex <= LastServed(request.pass)
  BY DEF TurnTypes, Request, TurnInv
<1>2. /\ n \in 0 .. CommandsServed - 1
      /\ PassOf(n) = request.pass /\ IndexOf(n) = commandIndex
  <2>1. CASE request.pass = 1
    BY <1>1, <2>1, NumbersOfCommands DEF PassOf, IndexOf
  <2>2. CASE request.pass = 2
    BY <1>1, <2>2, NumbersOfCommands DEF PassOf, IndexOf
  <2> QED
    BY <1>1, <2>1, <2>2 DEF Pass
<1> HIDE DEF n
<1>3. PICK c \in Clients, p \in Pass : c = request.from /\ p = request.pass
  BY <1>1
<1>4. PICK k \in 0 .. CommandsServed - 1 : k = n
  BY <1>2
<1>5. PICK i \in Nat : i = commandIndex
  BY <1>1
<1>6. ~Waiting(c, p) /\ Turn(c, p)
  BY <1>3 DEF Waiting, Turn, TurnInv
<1>7. Progress(c, p) = i
  BY <1>5, <1>6 DEF Progress
<1>8. PassOf(k) = p /\ IndexOf(k) = i
  BY <1>2, <1>3, <1>4, <1>5
<1>9. <<c, k>> \in Commands
  BY DEF Commands
<1>10. <<c, k>> \notin Opened
  <2>1. ~(IndexOf(k) < Progress(c, PassOf(k)))
    BY <1>7, <1>8
  <2> QED
    BY <2>1 DEF Opened
<1>11. ASSUME Connect PROVE <<c, k>> \in Opened'
  <2>1. UNCHANGED <<pass, pc, requests, request, commandIndex, server>> /\ stage' = "connected"
    BY <1>11 DEF Connect, clientVars, netVars
  <2>2. ~Waiting(c, p)' /\ Turn(c, p)'
    BY <1>6, <2>1 DEF Waiting, Started, Turn
  <2>3. Progress(c, p)' = i + 1
    BY <1>5, <2>1, <2>2 DEF Progress
  <2>4. IndexOf(k) < Progress(c, p)'
    BY <1>8, <2>3
  <2>5. Opened' = {y \in Commands : IndexOf(y[2]) < Progress(y[1], PassOf(y[2]))'}
    BY DEF Opened, Commands, IndexOf, PassOf, CommandsServed
  <2>6. PICK y \in Commands : y = <<c, k>>
    BY <1>9
  <2>7. y[1] = c /\ y[2] = k
    BY <2>6
  <2> QED
    BY <1>8, <2>4, <2>5, <2>6, <2>7
<1> QED
  BY <1>9, <1>10, <1>11

LEMMA OpenedFinite ==
  ASSUME IsFiniteSet(Clients)
  PROVE  /\ Opened \in SUBSET Commands
         /\ IsFiniteSet(Opened) /\ Cardinality(Opened) \in Nat
         /\ Cardinality(Opened) <= SocketsNeeded
<1>1. Opened \in SUBSET Commands
  BY DEF Opened
<1>2. IsFiniteSet(Commands) /\ Cardinality(Commands) = SocketsNeeded
  BY CommandsFinite
<1>3. IsFiniteSet(Opened) /\ Cardinality(Opened) <= SocketsNeeded
  BY <1>1, <1>2, FS_Subset
<1> QED
  BY <1>1, <1>3, FS_CardinalityType

LEMMA OpenedFiniteNext ==
  ASSUME IsFiniteSet(Clients)
  PROVE  /\ Opened' \in SUBSET Commands
         /\ IsFiniteSet(Opened') /\ Cardinality(Opened') \in Nat
<1>1. Opened' \in SUBSET Commands
  BY DEF Opened, Commands, CommandsServed
<1>2. IsFiniteSet(Commands)
  BY CommandsFinite
<1>3. IsFiniteSet(Opened')
  BY <1>1, <1>2, FS_Subset
<1> QED
  BY <1>1, <1>3, FS_CardinalityType

LEMMA StepSocketInv ==
  ASSUME IsFiniteSet(Clients), RobotTypeOK, TurnTypes, TurnTypes', SocketInv, RobotNext
  PROVE  SocketInv'
<1>1. TurnInv /\ sockets <= Cardinality(Opened) /\ sockets \in Nat
  BY DEF SocketInv, RobotTypeOK
<1>2. TurnInv'
  BY <1>1, ServeStepTurn, SharedStepTurn DEF RobotNext
<1>3. Opened \subseteq Opened'
  BY <1>1, OpenedGrows
<1>4. /\ IsFiniteSet(Opened) /\ Cardinality(Opened) \in Nat
      /\ IsFiniteSet(Opened') /\ Cardinality(Opened') \in Nat
  BY OpenedFinite, OpenedFiniteNext
<1>5. CASE Connect
  <2>1. server = "serve" /\ stage = "next" /\ sockets' = sockets + 1
    BY <1>5 DEF Connect
  <2>2. PICK x \in Commands : x \notin Opened /\ x \in Opened'
    BY <1>1, <1>5, <2>1, NextCommand
  <2>3. /\ IsFiniteSet(Opened \cup {x})
        /\ Cardinality(Opened \cup {x}) = Cardinality(Opened) + 1
    BY <1>4, <2>2, FS_AddElement
  <2>4. (Opened \cup {x}) \in SUBSET Opened'
    BY <1>3, <2>2
  <2>5. Cardinality(Opened \cup {x}) <= Cardinality(Opened')
    BY <1>4, <2>4, FS_Subset
  <2>6. sockets' <= Cardinality(Opened')
    BY <1>1, <1>4, <2>1, <2>3, <2>5
  <2> QED
    BY <1>2, <2>6 DEF SocketInv
<1>6. CASE ~Connect
  <2>1. sockets' = sockets
    BY <1>6 DEF RobotNext, ServeStep, SharedStep, ConnectFails, WriteRequest,
       WriteFails, ReadAnswer, ReadHeadless, ReadFails, SendMessage, SendLast,
       SendFails, robotVars
  <2>2. Cardinality(Opened) <= Cardinality(Opened')
    BY <1>3, <1>4, FS_Subset
  <2>3. sockets' <= Cardinality(Opened')
    BY <1>1, <1>4, <2>1, <2>2
  <2> QED
    BY <1>2, <2>3 DEF SocketInv
<1> QED
  BY <1>5, <1>6

LEMMA StutterSocketInv ==
  ASSUME SocketInv, UNCHANGED allVars
  PROVE  SocketInv'
BY DEF SocketInv, TurnInv, Opened, Commands, CommandsServed, IndexOf, PassOf, Progress,
   Waiting, Turn, Started, allVars, robotVars, vars, serverVars, netVars, clientVars

(***************************************************************************)
(* SocketInv for every finite set of clients: each pass gets one turn, in  *)
(* which the server stands at the start of a command of the request, and   *)
(* no more sockets are open than commands it may have come to.             *)
(***************************************************************************)
THEOREM SocketsAreCounted ==
  ASSUME IsFiniteSet(Clients)
  PROVE  RobotSpec => []SocketInv
<1> DEFINE Inv == RobotTypeOK /\ TurnTypes /\ SocketInv
<1>1. RobotInit => Inv
  <2> SUFFICES ASSUME RobotInit PROVE Inv
    OBVIOUS
  <2>1. TurnInv
    BY DEF RobotInit, Init, TurnInv
  <2>2. sockets = 0 /\ Cardinality(Opened) \in Nat
    BY OpenedFinite DEF RobotInit
  <2>3. sockets <= Cardinality(Opened)
    BY <2>2
  <2> QED
    BY <2>1, <2>3, InitTypes DEF SocketInv
<1>2. Inv /\ [RobotNext]_allVars => Inv'
  <2> SUFFICES ASSUME Inv, [RobotNext]_allVars PROVE Inv'
    OBVIOUS
  <2>1. RobotTypeOK' /\ TurnTypes'
    BY StepTypes
  <2> QED
    BY <2>1, StepSocketInv, StutterSocketInv
<1> QED
  BY <1>1, <1>2, PTL DEF RobotSpec

(***************************************************************************)
(* DescriptorsSuffice for every finite set of clients: with SocketsNeeded  *)
(* descriptors the server finds one for each command, whatever is lost,    *)
(* fails or is answered, and it never takes more.                          *)
(***************************************************************************)
THEOREM EnoughDescriptors ==
  ASSUME IsFiniteSet(Clients)
  PROVE  RobotSpec => []DescriptorsSuffice
<1> DEFINE Inv == RobotTypeOK /\ TurnTypes /\ SocketInv
<1>1. Inv => DescriptorsSuffice
  <2> SUFFICES ASSUME Inv PROVE DescriptorsSuffice
    OBVIOUS
  <2>1. /\ Opened \in SUBSET Commands
        /\ IsFiniteSet(Opened) /\ Cardinality(Opened) \in Nat
        /\ Cardinality(Opened) <= SocketsNeeded
    BY OpenedFinite
  <2>2. /\ IsFiniteSet(Commands) /\ Cardinality(Commands) = SocketsNeeded
        /\ SocketsNeeded \in Nat
    BY CommandsFinite
  <2>3. sockets <= Cardinality(Opened) /\ sockets \in Nat /\ maxSockets \in Nat
    BY RobotAssumption DEF SocketInv, RobotTypeOK
  <2>4. sockets <= SocketsNeeded
    BY <2>1, <2>2, <2>3
  <2>5. ASSUME maxSockets >= SocketsNeeded, server = "serve", stage = "next"
        PROVE  sockets < maxSockets
    <3>1. PICK x \in Commands : x \notin Opened
      BY <2>5, NextCommand DEF SocketInv
    <3>2. /\ IsFiniteSet(Opened \cup {x})
          /\ Cardinality(Opened \cup {x}) = Cardinality(Opened) + 1
      BY <2>1, <3>1, FS_AddElement
    <3>3. (Opened \cup {x}) \in SUBSET Commands
      BY <2>1, <3>1
    <3>4. Cardinality(Opened \cup {x}) <= SocketsNeeded
      BY <2>2, <3>3, FS_Subset
    <3> QED
      BY <2>1, <2>2, <2>3, <2>5, <3>2, <3>4
  <2> QED
    BY <2>4, <2>5 DEF DescriptorsSuffice
<1>2. RobotSpec => []Inv
  <2>1. RobotSpec => [](RobotTypeOK /\ TurnTypes)
    <3>1. RobotInit => RobotTypeOK /\ TurnTypes
      BY InitTypes
    <3>2. (RobotTypeOK /\ TurnTypes) /\ [RobotNext]_allVars => (RobotTypeOK /\ TurnTypes)'
      BY StepTypes
    <3> QED
      BY <3>1, <3>2, PTL DEF RobotSpec
  <2>2. RobotSpec => []SocketInv
    BY SocketsAreCounted
  <2> QED
    BY <2>1, <2>2, PTL
<1> QED
  BY <1>1, <1>2, PTL

-----------------------------------------------------------------------------
(***************************************************************************)
(* What is proved of PolygonSession, where a command is one atomic step,   *)
(* carries over to the server that works call by call, as RobotServer      *)
(* implements PolygonSession.                                              *)
(***************************************************************************)
Atomic ==
  INSTANCE TraceProofs WITH
    MayFail      <- TRUE,
    server       <- AbsServer,
    position     <- CommandStart,
    commandIndex <- AbsCommandIndex,
    motion       <- AbsMotion,
    net          <- AbsNet

(* The assumptions PolygonSession makes of the constants. *)
LEMMA AtomicAssumptions ==
  /\ N \in 4..8 /\ LengthDigits \in 1..10
  /\ BodyLengths \in [Atomic!Kinds -> SUBSET Nat]
  /\ 0 \notin BodyLengths["IMAGE"]
  /\ \A i \in Headless : i \in Nat /\ Atomic!CommandAt(i) # "IMAGE"
  /\ RobotIDLens \subseteq Nat /\ MaxInFlight \in Nat /\ MaxLoss \in Nat
  /\ MaxSkip \in Nat /\ MaxDup \in Nat /\ TRUE \in BOOLEAN
  /\ ClientFailures \subseteq {"send", "IMAGE"} \cup Atomic!PositionKinds
  /\ \A p \in Atomic!Pass : \A idLen \in RobotIDLens :
       Atomic!SegmentCount(p, idLen) = 0 /\ Atomic!SentBytes(p, idLen) > 0
BY PolygonAssumption, SessionAssumption, OneDatagramAssumption
   DEF Kinds, Atomic!Kinds, Pass, Atomic!Pass, SegmentCount, Atomic!SegmentCount,
       SentBytes, Atomic!SentBytes, PacketLen, Atomic!PacketLen, MaxPayload,
       Atomic!MaxPayload, HeadLen, Atomic!HeadLen, RequestBytes, Atomic!RequestBytes,
       SideBytes, Atomic!SideBytes, Sides, Atomic!Sides, CommandAt, Atomic!CommandAt,
       SnapshotCommands, Atomic!SnapshotCommands, SideCommands, Atomic!SideCommands,
       PositionKinds, Atomic!PositionKinds

LEMMA SameSession == Session!Spec => Atomic!Spec
<1>1. Session!Init => Atomic!Init
  BY DEF Session!Init, Atomic!Init, Session!Indices, Atomic!Indices,
     Session!NumCommands, Atomic!NumCommands, Session!Sides, Atomic!Sides,
     Session!Files, Atomic!Files, Session!MaxFiles, Atomic!MaxFiles
<1>2. \A c : Session!StartPass(c) <=> Atomic!StartPass(c)
  BY DEF Session!StartPass, Atomic!StartPass, Session!SentBytes, Atomic!SentBytes,
     Session!PacketLen, Atomic!PacketLen, Session!MaxPayload, Atomic!MaxPayload,
     Session!HeadLen, Atomic!HeadLen, Session!RequestBytes, Atomic!RequestBytes,
     Session!SideBytes, Atomic!SideBytes, Session!Sides, Atomic!Sides,
     Session!NumCommands, Atomic!NumCommands, Session!Files, Atomic!Files,
     Session!MaxFiles, Atomic!MaxFiles, Session!serverVars, Atomic!serverVars
<1>3. \A c : Session!Receive(c) <=> Atomic!Receive(c)
  BY DEF Session!Receive, Atomic!Receive, Session!Deliver, Atomic!Deliver,
     Session!KeepChunk, Atomic!KeepChunk, Session!CompleteResponse,
     Atomic!CompleteResponse, Session!Store, Atomic!Store, Session!IsVectorFull,
     Atomic!IsVectorFull, Session!HandleResponse, Atomic!HandleResponse,
     Session!HandleImage, Atomic!HandleImage, Session!WritePositionData,
     Atomic!WritePositionData, Session!ContinueOrReturn, Atomic!ContinueOrReturn,
     Session!ResponseKind, Atomic!ResponseKind, Session!CommandCode,
     Atomic!CommandCode, Session!SideNumber, Atomic!SideNumber, Session!Sides,
     Atomic!Sides, Session!PositionKinds, Atomic!PositionKinds, Session!Empty,
     Atomic!Empty, Session!serverVars, Atomic!serverVars
<1>4. /\ \A c : Session!RequestFails(c) <=> Atomic!RequestFails(c)
      /\ \A c : Session!HandleFails(c) <=> Atomic!HandleFails(c)
      /\ \A c : Session!RecvFails(c) <=> Atomic!RecvFails(c)
  <2>1. \A c : Session!RequestFails(c) <=> Atomic!RequestFails(c)
    BY DEF Session!RequestFails, Atomic!RequestFails, Session!serverVars,
       Atomic!serverVars, Session!netVars, Atomic!netVars
  <2>2. \A c : Session!HandleFails(c) <=> Atomic!HandleFails(c)
    BY DEF Session!HandleFails, Atomic!HandleFails, Session!Deliver, Atomic!Deliver,
       Session!Store, Atomic!Store, Session!IsVectorFull, Atomic!IsVectorFull,
       Session!ResponseKind, Atomic!ResponseKind, Session!CommandCode,
       Atomic!CommandCode, Session!SideNumber, Atomic!SideNumber, Session!Sides,
       Atomic!Sides, Session!PositionKinds, Atomic!PositionKinds, Session!Empty,
       Atomic!Empty, Session!serverVars, Atomic!serverVars
  <2>3. \A c : Session!RecvFails(c) <=> Atomic!RecvFails(c)
    BY DEF Session!RecvFails, Atomic!RecvFails, Session!serverVars,
       Atomic!serverVars, Session!netVars, Atomic!netVars
  <2> QED
    BY <2>1, <2>2, <2>3
<1>5. Session!ServeCommand <=> Atomic!ServeCommand
  BY DEF Session!ServeCommand, Atomic!ServeCommand, Session!Usable, Atomic!Usable,
     Session!UsableLength, Atomic!UsableLength, Session!Command, Atomic!Command,
     Session!NumMessages, Atomic!NumMessages, Session!PayloadSize,
     Atomic!PayloadSize, Session!SendResponse, Atomic!SendResponse,
     Session!ResponseChunk, Atomic!ResponseChunk, Session!MessageBytes,
     Atomic!MessageBytes, Session!Empty, Atomic!Empty, Session!MotionAfter,
     Atomic!MotionAfter, Session!MoreCommands, Atomic!MoreCommands,
     Session!Terminator, Atomic!Terminator, Session!RequestBytes,
     Atomic!RequestBytes, Session!SideBytes, Atomic!SideBytes, Session!Sides,
     Atomic!Sides, Session!clientVars, Atomic!clientVars, Session!Cardinality,
     Atomic!Cardinality, Session!CommandAt, Atomic!CommandAt,
     Session!SnapshotCommands, Atomic!SnapshotCommands, Session!SideCommands,
     Atomic!SideCommands, Session!CommandLength, Atomic!CommandLength
<1>6. Session!ServeFails <=> Atomic!ServeFails
  BY DEF Session!ServeFails, Atomic!ServeFails, Session!Usable, Atomic!Usable,
     Session!UsableLength, Atomic!UsableLength, Session!Command, Atomic!Command,
     Session!NumMessages, Atomic!NumMessages, Session!PayloadSize,
     Atomic!PayloadSize, Session!SendResponse, Atomic!SendResponse,
     Session!ResponseChunk, Atomic!ResponseChunk, Session!MessageBytes,
     Atomic!MessageBytes, Session!Empty, Atomic!Empty, Session!MotionAfter,
     Atomic!MotionAfter, Session!clientVars, Atomic!clientVars,
     Session!Cardinality, Atomic!Cardinality, Session!CommandAt, Atomic!CommandAt,
     Session!SnapshotCommands, Atomic!SnapshotCommands, Session!SideCommands,
     Atomic!SideCommands, Session!CommandLength, Atomic!CommandLength
<1>7. Session!RefuseCommand <=> Atomic!RefuseCommand
  BY DEF Session!RefuseCommand, Atomic!RefuseCommand, Session!Usable,
     Atomic!Usable, Session!UsableLength, Atomic!UsableLength, Session!Command,
     Atomic!Command, Session!clientVars, Atomic!clientVars, Session!netVars,
     Atomic!netVars, Session!CommandAt, Atomic!CommandAt,
     Session!SnapshotCommands, Atomic!SnapshotCommands, Session!SideCommands,
     Atomic!SideCommands, Session!CommandLength, Atomic!CommandLength
<1>8. Session!SkipAnswer <=> Atomic!SkipAnswer
  BY DEF Session!SkipAnswer, Atomic!SkipAnswer, Session!Usable, Atomic!Usable,
     Session!UsableLength, Atomic!UsableLength, Session!Command, Atomic!Command,
     Session!MotionAfter, Atomic!MotionAfter, Session!MoreCommands,
     Atomic!MoreCommands, Session!Terminator, Atomic!Terminator,
     Session!RequestBytes, Atomic!RequestBytes, Session!SideBytes,
     Atomic!SideBytes, Session!Sides, Atomic!Sides, Session!clientVars,
     Atomic!clientVars, Session!CommandAt, Atomic!CommandAt,
     Session!SnapshotCommands, Atomic!SnapshotCommands, Session!SideCommands,
     Atomic!SideCommands, Session!CommandLength, Atomic!CommandLength
<1>9. /\ Session!ReceiveRequest <=> Atomic!ReceiveRequest
      /\ Session!ServerStops <=> Atomic!ServerStops
  BY DEF Session!ReceiveRequest, Atomic!ReceiveRequest, Session!ServerStops,
     Atomic!ServerStops, Session!clientVars, Atomic!clientVars, Session!netVars,
     Atomic!netVars
<1>10. /\ Session!Lose <=> Atomic!Lose
       /\ Session!Discard <=> Atomic!Discard
       /\ Session!Terminated <=> Atomic!Terminated
  <2>1. Session!Lose <=> Atomic!Lose
    BY DEF Session!Lose, Atomic!Lose, Session!clientVars, Atomic!clientVars,
       Session!serverVars, Atomic!serverVars
  <2>2. Session!Discard <=> Atomic!Discard
    BY DEF Session!Discard, Atomic!Discard, Session!clientVars, Atomic!clientVars,
       Session!serverVars, Atomic!serverVars
  <2>3. Session!Terminated <=> Atomic!Terminated
    BY DEF Session!Terminated, Atomic!Terminated, Session!vars, Atomic!vars,
       Session!clientVars, Atomic!clientVars, Session!serverVars, Atomic!serverVars,
       Session!netVars, Atomic!netVars
  <2> QED
    BY <2>1, <2>2, <2>3
<1>11. Session!Next <=> Atomic!Next
  <2>1. \A c : Session!ClientStep(c) <=> Atomic!ClientStep(c)
    BY <1>2, <1>3, <1>4, Zenon DEF Session!ClientStep, Atomic!ClientStep
  <2>2. Session!ServerStep <=> Atomic!ServerStep
    BY <1>5, <1>6, <1>7, <1>8, <1>9, Zenon DEF Session!ServerStep, Atomic!ServerStep
  <2> QED
    BY <1>10, <2>1, <2>2, Zenon DEF Session!Next, Atomic!Next
<1>12. UNCHANGED Session!vars <=> UNCHANGED Atomic!vars
  BY DEF Session!vars, Atomic!vars, Session!clientVars, Atomic!clientVars,
     Session!serverVars, Atomic!serverVars, Session!netVars, Atomic!netVars
<1>13. [Session!Next]_Session!vars => [Atomic!Next]_Atomic!vars
  BY <1>11, <1>12
<1> QED
  BY <1>1, <1>13, PTL DEF Session!Spec, Atomic!Spec

(***************************************************************************)
(* SessionInv holds of the server that works call by call, too, with the   *)
(* chunks it has still to send counted as sent: between any two calls the  *)
(* client and the server are in step.                                      *)
(***************************************************************************)
THEOREM CallsStayInStep ==
  ASSUME MaxDup = 0, NoEmptyBody
  PROVE  RobotSpec => []Atomic!SessionInv
<1>1. Atomic!Spec => []Atomic!SessionInv
  BY Atomic!StaysInStep, AtomicAssumptions, PTL
<1> QED
  BY <1>1, SameSession, RobotImplementsSession, PTL DEF ImplementsSession

(***************************************************************************)
(* RobotServer implements PolygonTrace, two levels above it: whatever the  *)
(* server is doing, and whichever of its calls fails, the clients' files   *)
(* show each snapshot recorded once, and no client goes on too early.      *)
(***************************************************************************)
THEOREM CallsTracePolygons ==
  ASSUME MaxDup = 0, NoEmptyBody
  PROVE  RobotSpec => Atomic!TracesPolygons
<1>1. Atomic!Spec => Atomic!TracesPolygons
  BY Atomic!SessionImplementsTrace, AtomicAssumptions, PTL
<1> QED
  BY <1>1, SameSession, RobotImplementsSession, PTL DEF ImplementsSession

(* The files are the same in both. *)
LEMMA SameFiles ==
  /\ Atomic!FilesFaithful <=> FilesFaithful
  /\ Atomic!OneCornerPerFile <=> OneCornerPerFile
  /\ Atomic!DoneMeansComplete <=> DoneMeansComplete
<1>1. Atomic!FilesFaithful <=> FilesFaithful
  <2>1. \A i : Atomic!CommandAt(i) = CommandAt(i)
    BY DEF Atomic!CommandAt, CommandAt, Atomic!SnapshotCommands, SnapshotCommands,
       Atomic!SideCommands, SideCommands
  <2>2. Atomic!Waypoint = Waypoint
    <3>1. Atomic!Indices = Indices
      BY DEF Atomic!Indices, Indices, Atomic!NumCommands, NumCommands, Atomic!Sides, Sides
    <3>2. \A S : Atomic!Cardinality(S) = Cardinality(S)
      BY DEF Atomic!Cardinality, Cardinality
    <3>3. \A i : {j \in 0..(i - 1) : Atomic!CommandAt(j) = "MOVE"}
                  = {j \in 0..(i - 1) : CommandAt(j) = "MOVE"}
      BY <2>1
    <3>4. \A i : Atomic!Cardinality({j \in 0..(i - 1) : Atomic!CommandAt(j) = "MOVE"})
                  = Cardinality({j \in 0..(i - 1) : CommandAt(j) = "MOVE"})
      BY <3>2, <3>3
    <3> QED
      BY <3>1, <3>4, Zenon DEF Atomic!Waypoint, Waypoint
  <2>3. \A vec, kind, k : Atomic!Belongs(vec, kind, k) <=> Belongs(vec, kind, k)
    BY <2>1, <2>2 DEF Atomic!Belongs, Belongs, Atomic!Intact, Intact, Atomic!FileNumber,
       FileNumber
  <2> QED
    BY <2>3 DEF Atomic!FilesFaithful, FilesFaithful, Atomic!Files, Files, Atomic!MaxFiles,
       MaxFiles
<1>2. Atomic!OneCornerPerFile <=> OneCornerPerFile
  BY DEF Atomic!OneCornerPerFile, OneCornerPerFile, Atomic!Files, Files, Atomic!MaxFiles,
     MaxFiles
<1>3. Atomic!DoneMeansComplete <=> DoneMeansComplete
  BY DEF Atomic!DoneMeansComplete, DoneMeansComplete, Atomic!PositionKinds, PositionKinds
<1> QED
  BY <1>1, <1>2, <1>3

(***************************************************************************)
(* FilesFaithful, OneCornerPerFile and DoneMeansComplete of RobotServer:   *)
(* a client's files are right at every moment of the server's work, in the *)
(* middle of an answer as well as after a call that failed.                *)
(***************************************************************************)
THEOREM FilesHoldCallByCall ==
  ASSUME MaxDup = 0, NoEmptyBody
  PROVE  RobotSpec => [](FilesFaithful /\ OneCornerPerFile /\ DoneMeansComplete)
<1>1. Atomic!Spec => []Atomic!FilesFaithful
  BY Atomic!FilesAreFaithful, AtomicAssumptions, PTL
<1>2. Atomic!Spec => []Atomic!OneCornerPerFile
  BY Atomic!FilesAreUnmixed, AtomicAssumptions, PTL
<1>3. Atomic!Spec => []Atomic!DoneMeansComplete
  BY Atomic!DoneIsComplete, AtomicAssumptions, PTL
<1> QED
  BY <1>1, <1>2, <1>3, SameFiles, SameSession, RobotImplementsSession, PTL
     DEF ImplementsSession

-----------------------------------------------------------------------------
(***************************************************************************)
(* How few sockets there may be.  First, what the proof needs of           *)
(* SessionInv, in this module's operators.                                 *)
(***************************************************************************)
InStep ==
  /\ numCommands \in [Clients -> Int]
  /\ responses \in [Clients -> [Indices -> Seq(Chunk)]]
  /\ answered \in [Clients -> SUBSET Indices]
  /\ \A m \in AbsNet :
       /\ pc[m.to] \in {"parse", "quit"} /\ m.to \in Clients /\ m.ci \in Indices
       /\ m.data # Empty => m.data.pass = pass[m.to]
       /\ m.ci \notin answered[m.to] /\ m.ci <= LastServed(pass[m.to])
  /\ \A c \in Clients :
       /\ pc[c] = "parse" =>
            /\ numCommands[c] = NumCommands(pass[c]) - Cardinality(answered[c])
            /\ answered[c] \subseteq 0..LastServed(pass[c])
       /\ pc[c] = "send" => \A ci \in Indices : responses[c][ci] = <<>>

LEMMA SessionInStep == Atomic!SessionInv => InStep
<1> SUFFICES ASSUME Atomic!SessionInv PROVE InStep
  OBVIOUS
<1> USE DEF Atomic!SessionInv, Atomic!Indices, Indices, Atomic!NumCommands, NumCommands,
        Atomic!Sides, Sides, Atomic!LastServed, LastServed
<1>1. /\ numCommands \in [Clients -> Int]
      /\ answered \in [Clients -> SUBSET Indices]
      /\ responses \in [Clients -> [Indices -> Seq(Chunk)]]
  BY DEF Atomic!TypeOK, Atomic!Chunk, Chunk, Atomic!Pass, Pass
<1>2. \A m \in AbsNet : m.to \in Clients /\ m.ci \in Indices
  BY DEF Atomic!TypeOK, Atomic!Message
<1>3. \A m \in AbsNet :
        /\ pc[m.to] \in {"parse", "quit"}
        /\ m.data # Empty => m.data.pass = pass[m.to]
        /\ m.ci \notin answered[m.to] /\ m.ci <= LastServed(pass[m.to])
  BY DEF Atomic!NetInv, Atomic!Empty, Empty
<1>4. \A S : Atomic!Cardinality(S) = Cardinality(S)
  BY DEF Cardinality, Atomic!Cardinality
<1>5. \A c \in Clients :
        /\ pc[c] = "parse" =>
             /\ numCommands[c] = NumCommands(pass[c]) - Cardinality(answered[c])
             /\ answered[c] \subseteq 0..LastServed(pass[c])
        /\ pc[c] = "send" => \A ci \in Indices : responses[c][ci] = <<>>
  BY <1>4 DEF Atomic!CountInv, Atomic!Counted
<1> QED
  BY <1>1, <1>2, <1>3, <1>5 DEF InStep

(* A client that returns has, with the last answer, those to all commands. *)
LEMMA LastAnswered ==
  ASSUME NEW p \in Pass, NEW S \in SUBSET (0..LastServed(p)), NEW ci \in Nat,
         ci \notin S, ci <= LastServed(p),
         NumCommands(p) - Cardinality(S) - 1 <= 1
  PROVE  S \cup {ci} = 0..LastServed(p)
<1>1. Atomic!LastServed(p) = LastServed(p) /\ Atomic!NumCommands(p) = NumCommands(p)
  BY DEF Atomic!LastServed, LastServed, Atomic!NumCommands, NumCommands, Atomic!Sides,
     Sides
<1>2. p \in Atomic!Pass /\ NumCommands(p) \in Nat
  BY SidesRange DEF Atomic!Pass, Pass
<1>3. \A T : Atomic!Cardinality(T) = Cardinality(T)
  BY DEF Cardinality, Atomic!Cardinality
<1>4. /\ S \cup {ci} \in SUBSET (0..LastServed(p))
      /\ Cardinality(S) \in Nat
      /\ Cardinality(S \cup {ci}) = Cardinality(S) + 1
  BY <1>1, <1>2, <1>3, Atomic!OneMoreAnswered, AtomicAssumptions
<1>5. NumCommands(p) - Cardinality(S \cup {ci}) <= 1
  BY <1>2, <1>4
<1> QED
  BY <1>1, <1>2, <1>3, <1>4, <1>5, Atomic!AllAnswered, AtomicAssumptions

(* The server's calls: what a chunk shows, the server's place has shown. *)
LEMMA ServeStepEvident ==
  ASSUME RobotTypeOK, TurnTypes, StageInv, InStep, ServeStep,
         NEW c \in Clients, NEW p \in Pass, NEW i \in 0 .. LastServed(p),
         Evident(c, p, i)'
  PROVE  \/ Evident(c, p, i)
         \/ Connect /\ c = request.from /\ p = request.pass /\ i = commandIndex
<1>1. /\ UNCHANGED <<pass, pc, answered, responses, request>>
      /\ server = "serve"
  BY DEF ServeStep, Connect, ConnectFails, WriteRequest, WriteFails, ReadAnswer,
     ReadHeadless, ReadFails, SendMessage, SendLast, SendFails, clientVars, serverVars
<1>2. commandIndex \in Nat /\ i \in Nat /\ request.pass \in Pass
  BY LastServedType DEF TurnTypes, Request
<1>3. CASE Connect
  <2>1. stage = "next" /\ stage' = "connected" /\ UNCHANGED <<commandIndex, net>>
    BY <1>3 DEF Connect, netVars
  <2>2. Connected = commandIndex /\ Connected' = commandIndex + 1
    BY <2>1 DEF Connected
  <2> QED
    BY <1>1, <1>2, <1>3, <2>1, <2>2 DEF Evident, Turn
<1>4. CASE SendMessage \/ SendLast
  <2>1. /\ stage = "send" /\ net' = net \cup NextMessage
        /\ Connected' = Connected /\ Connected = commandIndex + 1
    BY <1>4 DEF SendMessage, SendLast, serverVars, Connected
  <2>2. AbsNet' = AbsNet
    BY <1>4, UnsentNext, UnsentLast
  <2>3. ASSUME NEW m \in NextMessage
        PROVE  /\ m.to = request.from /\ m.ci = commandIndex
               /\ pass[m.to] = request.pass
    <3>1. m.to = request.from /\ m.ci = commandIndex /\ m.data.pass = request.pass
      BY <2>1, NextMessageFacts
    <3>2. m \in AbsNet
      BY <2>1, <2>2 DEF AbsNet
    <3>3. m.data # Empty
      BY <1>2, <3>1 DEF Empty, Pass
    <3> QED
      BY <3>1, <3>2, <3>3 DEF InStep
  <2> QED
    BY <1>1, <1>2, <2>1, <2>3 DEF Evident, Turn
<1>5. CASE \/ ConnectFails \/ WriteRequest \/ WriteFails \/ ReadAnswer
           \/ ReadHeadless \/ ReadFails \/ SendFails
  <2>1. /\ net' = net
        /\ server' = "serve" => Connected' = Connected
    BY <1>5 DEF ConnectFails, WriteRequest, WriteFails, ReadAnswer, ReadHeadless,
       ReadFails, SendFails, netVars, serverVars, Connected
  <2> QED
    BY <1>1, <2>1 DEF Evident, Turn
<1> QED
  BY <1>3, <1>4, <1>5 DEF ServeStep

(* A client that starts a pass has left nothing that shows of it. *)
LEMMA StartPassEvident ==
  ASSUME RobotTypeOK, TurnTypes, TurnInv, InStep, SharedStep,
         NEW d \in Clients, StartPass(d),
         NEW c \in Clients, NEW p \in Pass, NEW i \in 0 .. LastServed(p),
         Evident(c, p, i)'
  PROVE  Evident(c, p, i)
<1>1. /\ pc[d] = "send" /\ pc' = [pc EXCEPT ![d] = "parse"]
      /\ answered' = [answered EXCEPT ![d] = {}]
      /\ UNCHANGED <<pass, responses, net, server, request, commandIndex, stage>>
  BY DEF StartPass, SharedStep, serverVars, robotVars
<1>2. Connected' = Connected
  BY <1>1 DEF Connected
<1>3. CASE c # d
  BY <1>1, <1>2, <1>3 DEF Evident, Turn, TurnTypes, InStep
<1>4. CASE c = d
  <2>1. i \in Indices
    BY LastServedType, NumCommandsRange DEF LastServed, Indices
  <2>2. responses[d][i] = <<>>
    BY <1>1, <2>1 DEF InStep
  <2>3. \A m \in net : m.to # d
    BY <1>1 DEF InStep, AbsNet
  <2>4. ~Turn(d, pass[d])
    BY <1>1 DEF Turn, TurnInv, Started, TurnTypes, Pass
  <2>5. pc'[d] = "parse" /\ answered'[d] = {}
    BY <1>1 DEF TurnTypes, InStep
  <2> QED
    BY <1>1, <1>4, <2>2, <2>3, <2>4, <2>5 DEF Evident, Turn
<1> QED
  BY <1>3, <1>4

(* What a client takes from the network or is done with was on its way. *)
LEMMA ReceiveEvident ==
  ASSUME RobotTypeOK, TurnTypes, InStep, SharedStep,
         NEW d \in Clients, Receive(d),
         NEW c \in Clients, NEW p \in Pass, NEW i \in 0 .. LastServed(p),
         Evident(c, p, i)'
  PROVE  Evident(c, p, i)
<1>1. PICK m \in net :
        /\ pc[d] = "parse" /\ m.to = d /\ Deliver(m)
        /\ KeepChunk(d, m) \/ CompleteResponse(d, m)
        /\ UNCHANGED <<robotIDLen, serverVars, requests, losses>>
  BY DEF Receive
<1>2. net' \subseteq net /\ UNCHANGED <<server, request, commandIndex, stage>>
  BY <1>1 DEF Deliver, SharedStep, robotVars, serverVars
<1>3. Connected' = Connected
  BY <1>2 DEF Connected
<1>4. m.ci \in Indices /\ m.ci \notin answered[d] /\ m.ci <= LastServed(pass[d])
  BY <1>1 DEF InStep, AbsNet
<1>5. i \in Indices
  BY LastServedType, NumCommandsRange DEF LastServed, Indices
<1>6. c # d \/ i # m.ci =>
        /\ i \in answered'[c] => i \in answered[c]
        /\ responses'[c][i] # <<>> => responses[c][i] # <<>>
  BY <1>1, <1>5 DEF KeepChunk, CompleteResponse, InStep
<1>7. CASE UNCHANGED <<pass, pc>>
  BY <1>1, <1>2, <1>3, <1>6, <1>7 DEF Evident, Turn
<1>8. CASE ~UNCHANGED <<pass, pc>>
  <2>1. /\ CompleteResponse(d, m)
        /\ numCommands[d] - 1 <= 1
        /\ answered' = [answered EXCEPT ![d] = @ \cup {m.ci}]
        /\ \/ /\ pass[d] = 1 /\ pc' = [pc EXCEPT ![d] = "send"]
              /\ pass' = [pass EXCEPT ![d] = 2]
           \/ /\ pass[d] = 2 /\ pc' = [pc EXCEPT ![d] = "done"]
              /\ UNCHANGED pass
    BY <1>1, <1>8 DEF KeepChunk, CompleteResponse, ContinueOrReturn
  <2>2. CASE c # d
    BY <1>2, <1>3, <1>6, <2>1, <2>2 DEF Evident, Turn, TurnTypes
  <2>3. CASE c = d
    <3>1. CASE p < pass[d]
      BY <2>3, <3>1 DEF Evident
    <3>2. CASE ~(p < pass[d])
      <4>1. pass'[d] = 2 /\ pc'[d] = IF pass[d] = 1 THEN "send" ELSE "done"
        BY <2>1 DEF TurnTypes
      <4>2. p = pass[d]
        <5>1. p < 2 \/ (p = 2 /\ pass[d] # 1)
          BY <2>3, <4>1 DEF Evident
        <5> QED
          BY <2>1, <3>2, <5>1 DEF Pass
      <4>3. /\ answered[d] \in SUBSET (0..LastServed(p))
            /\ NumCommands(p) - Cardinality(answered[d]) - 1 <= 1
        BY <1>1, <2>1, <4>2 DEF InStep
      <4>4. i \in answered[d] \cup {m.ci}
        BY <1>4, <4>2, <4>3, LastAnswered DEF Indices
      <4> QED
        BY <1>1, <2>3, <4>2, <4>4 DEF Evident
    <3> QED
      BY <3>1, <3>2
  <2> QED
    BY <2>2, <2>3
<1> QED
  BY <1>7, <1>8

(* The other steps show nothing new. *)
LEMMA SharedStepEvident ==
  ASSUME RobotTypeOK, TurnTypes, TurnInv, InStep, SharedStep,
         NEW c \in Clients, NEW p \in Pass, NEW i \in 0 .. LastServed(p),
         Evident(c, p, i)'
  PROVE  Evident(c, p, i)
<1>1. CASE \E d \in Clients : StartPass(d)
  BY <1>1, StartPassEvident
<1>2. CASE \E d \in Clients : Receive(d)
  BY <1>2, ReceiveEvident
<1>3. CASE \E d \in Clients : RequestFails(d) \/ HandleFails(d) \/ RecvFails(d)
  <2>1. PICK d \in Clients : RequestFails(d) \/ HandleFails(d) \/ RecvFails(d)
    BY <1>3
  <2>2. /\ pc[d] \in {"send", "parse"} /\ pc' = [pc EXCEPT ![d] = "quit"]
        /\ net' \subseteq net
        /\ UNCHANGED <<pass, answered, responses, server, request, commandIndex, stage>>
    BY <2>1 DEF RequestFails, HandleFails, RecvFails, Deliver, SharedStep, serverVars,
       netVars, robotVars
  <2> QED
    BY <2>2 DEF Evident, Turn, Connected, TurnTypes
<1>4. CASE ReceiveRequest
  <2>1. /\ stage' = "next" /\ commandIndex' = 0
        /\ UNCHANGED <<pass, pc, answered, responses, net>>
    BY <1>4 DEF ReceiveRequest, SharedStep, RobotTypeOK, clientVars, robotVars
  <2>2. ~(i < Connected')
    BY <2>1, LastServedType DEF Connected
  <2> QED
    BY <2>1, <2>2 DEF Evident
<1>5. CASE RefuseCommand \/ ServerStops \/ Lose \/ Discard \/ Terminated
  <2>1. /\ net' \subseteq net
        /\ server' = "serve" => server = "serve"
        /\ UNCHANGED <<pass, pc, answered, responses, request, commandIndex, stage>>
    BY <1>5 DEF RefuseCommand, ServerStops, Lose, Discard, Terminated, SharedStep, vars,
       clientVars, serverVars, netVars, robotVars
  <2> QED
    BY <2>1 DEF Evident, Turn, Connected
<1> QED
  BY <1>1, <1>2, <1>3, <1>4, <1>5 DEF SharedStep, ClientStep

(* No more than one command shows in a step, and that by a new socket. *)
LEMMA OneMoreEvident ==
  ASSUME RobotTypeOK, TurnTypes, TurnInv, StageInv, InStep, RobotNext
  PROVE  \/ EvidentCommands' \subseteq EvidentCommands
         \/ Connect /\ \E x : EvidentCommands' \subseteq EvidentCommands \cup {x}
<1>1. ASSUME NEW c \in Clients, NEW n \in 0 .. CommandsServed - 1,
             <<c, n>> \in EvidentCommands'
      PROVE  \/ <<c, n>> \in EvidentCommands
             \/ Connect /\ c = request.from /\ PassOf(n) = request.pass
                        /\ IndexOf(n) = commandIndex
  <2>1. PICK p \in Pass : p = PassOf(n)
    BY IndexType
  <2>2. PICK i \in 0 .. LastServed(p) : i = IndexOf(n)
    BY <2>1, NumbersOfCommands DEF PassOf, IndexOf
  <2>3. Evident(c, p, i)'
    <3>1. EvidentCommands' = {x \in Commands : Evident(x[1], PassOf(x[2]), IndexOf(x[2]))'}
      BY DEF EvidentCommands, Commands, PassOf, IndexOf, CommandsServed
    <3> QED
      BY <1>1, <2>1, <2>2, <3>1
  <2>4. \/ Evident(c, p, i)
        \/ Connect /\ c = request.from /\ p = request.pass /\ i = commandIndex
    BY <2>3, ServeStepEvident, SharedStepEvident DEF RobotNext
  <2>5. <<c, n>> \in Commands
    BY DEF Commands
  <2> QED
    BY <2>1, <2>2, <2>4, <2>5 DEF EvidentCommands
<1>2. ASSUME NEW x \in EvidentCommands'
      PROVE  \E c \in Clients : \E n \in 0 .. CommandsServed - 1 : x = <<c, n>>
  BY DEF EvidentCommands, Commands, CommandsServed
<1>3. CASE ~Connect
  BY <1>1, <1>2, <1>3
<1>4. CASE Connect
  <2> DEFINE n == IF request.pass = 1 THEN commandIndex
                  ELSE LastServed(1) + 1 + commandIndex
  <2>1. \A k \in 0 .. CommandsServed - 1 :
          PassOf(k) = request.pass /\ IndexOf(k) = commandIndex => k = n
    BY NumbersOfCommands DEF PassOf, IndexOf, TurnTypes
  <2> HIDE DEF n
  <2>2. EvidentCommands' \subseteq EvidentCommands \cup {<<request.from, n>>}
    BY <1>1, <1>2, <2>1
  <2> QED
    BY <1>4, <2>2
<1> QED
  BY <1>3, <1>4

LEMMA EvidentFinite ==
  ASSUME IsFiniteSet(Clients)
  PROVE  /\ IsFiniteSet(EvidentCommands) /\ Cardinality(EvidentCommands) \in Nat
         /\ IsFiniteSet(EvidentCommands') /\ Cardinality(EvidentCommands') \in Nat
<1>1. IsFiniteSet(Commands)
  BY CommandsFinite
<1>2. EvidentCommands \in SUBSET Commands /\ EvidentCommands' \in SUBSET Commands
  BY DEF EvidentCommands, Commands, CommandsServed
<1>3. IsFiniteSet(EvidentCommands) /\ IsFiniteSet(EvidentCommands')
  BY <1>1, <1>2, FS_Subset
<1> QED
  BY <1>3, FS_CardinalityType

LEMMA StepEvidentInv ==
  ASSUME IsFiniteSet(Clients), RobotTypeOK, TurnTypes, TurnInv, StageInv, InStep,
         EvidentInv, [RobotNext]_allVars
  PROVE  EvidentInv'
<1>1. CASE UNCHANGED allVars
  BY <1>1 DEF EvidentInv, EvidentCommands, Commands, CommandsServed, IndexOf, PassOf,
     Evident, Turn, Connected, allVars, robotVars, vars, serverVars, netVars, clientVars
<1>2. CASE RobotNext
  <2>1. \A c \in Clients : pc'[c] = "done" => pass'[c] = 2
    <3>1. ASSUME NEW d \in Clients, Receive(d)
          PROVE  \A c \in Clients : pc'[c] = "done" => pass'[c] = 2
      BY <3>1 DEF Receive, KeepChunk, CompleteResponse, ContinueOrReturn, EvidentInv,
         TurnTypes
    <3>2. ASSUME NEW d \in Clients,
                 StartPass(d) \/ RequestFails(d) \/ HandleFails(d) \/ RecvFails(d)
          PROVE  \A c \in Clients : pc'[c] = "done" => pass'[c] = 2
      BY <3>2 DEF StartPass, RequestFails, HandleFails, RecvFails, EvidentInv,
         TurnTypes
    <3>3. CASE \A d \in Clients : ~ClientStep(d)
      <4>1. CASE ServeStep
        BY <4>1 DEF EvidentInv, ServeStep, Connect, ConnectFails, WriteRequest,
           WriteFails, ReadAnswer, ReadHeadless, ReadFails, SendMessage, SendLast,
           SendFails, clientVars
      <4>2. CASE SharedStep
        BY <3>3, <4>2 DEF EvidentInv, SharedStep, ReceiveRequest, RefuseCommand,
           ServerStops, Lose, Discard, Terminated, vars, clientVars
      <4> QED
        BY <1>2, <4>1, <4>2 DEF RobotNext
    <3> QED
      BY <3>1, <3>2, <3>3 DEF ClientStep
  <2>2. /\ IsFiniteSet(EvidentCommands) /\ Cardinality(EvidentCommands) \in Nat
        /\ IsFiniteSet(EvidentCommands') /\ Cardinality(EvidentCommands') \in Nat
        /\ sockets \in Nat
    BY EvidentFinite DEF RobotTypeOK
  <2>3. sockets' = IF Connect THEN sockets + 1 ELSE sockets
    BY <1>2 DEF RobotNext, ServeStep, SharedStep, Connect, ConnectFails, WriteRequest,
       WriteFails, ReadAnswer, ReadHeadless, ReadFails, SendMessage, SendLast,
       SendFails, robotVars
  <2>4. CASE EvidentCommands' \subseteq EvidentCommands
    <3>1. Cardinality(EvidentCommands') <= Cardinality(EvidentCommands)
      BY <2>2, <2>4, FS_Subset
    <3> QED
      BY <2>1, <2>2, <2>3, <3>1 DEF EvidentInv
  <2>5. CASE Connect /\ \E x : EvidentCommands' \subseteq EvidentCommands \cup {x}
    <3>1. PICK x : EvidentCommands' \subseteq EvidentCommands \cup {x}
      BY <2>5
    <3>2. /\ IsFiniteSet(EvidentCommands \cup {x})
          /\ Cardinality(EvidentCommands \cup {x}) <= Cardinality(EvidentCommands) + 1
          /\ Cardinality(EvidentCommands \cup {x}) \in Nat
      <4>1. CASE x \in EvidentCommands
        <5>1. EvidentCommands \cup {x} = EvidentCommands
          BY <4>1
        <5> QED
          BY <2>2, <5>1
      <4>2. CASE x \notin EvidentCommands
        BY <2>2, <4>2, FS_AddElement
      <4> QED
        BY <4>1, <4>2
    <3>3. EvidentCommands' \in SUBSET (EvidentCommands \cup {x})
      BY <3>1
    <3>4. Cardinality(EvidentCommands') <= Cardinality(EvidentCommands \cup {x})
      BY <3>2, <3>3, FS_Subset
    <3> QED
      BY <2>1, <2>2, <2>3, <2>5, <3>2, <3>4 DEF EvidentInv
  <2> QED
    BY <1>2, <2>4, <2>5, OneMoreEvident
<1> QED
  BY <1>1, <1>2

(***************************************************************************)
(* EvidentInv for every finite set of clients: no command has left a trace *)
(* outside the server that it did not open a socket for, whatever is lost  *)
(* and whatever fails, as long as no response is delivered twice.          *)
(***************************************************************************)
THEOREM TracesAreCounted ==
  ASSUME MaxDup = 0, NoEmptyBody, IsFiniteSet(Clients)
  PROVE  RobotSpec => []EvidentInv
<1> DEFINE Known == RobotTypeOK /\ TurnTypes /\ TurnInv /\ StageInv /\ InStep
<1>1. RobotSpec => []Known
  <2>1. RobotSpec => [](RobotTypeOK /\ TurnTypes)
    <3>1. RobotInit => RobotTypeOK /\ TurnTypes
      BY InitTypes
    <3>2. (RobotTypeOK /\ TurnTypes) /\ [RobotNext]_allVars => (RobotTypeOK /\ TurnTypes)'
      BY StepTypes
    <3> QED
      BY <3>1, <3>2, PTL DEF RobotSpec
  <2>2. (RobotTypeOK /\ TurnTypes) /\ SocketInv /\ RobotInv /\ Atomic!SessionInv => Known
    BY SessionInStep DEF SocketInv, RobotInv
  <2> QED
    BY <2>1, <2>2, SocketsAreCounted, ServerCarriesOn, CallsStayInStep, PTL
<1>2. RobotInit => EvidentInv
  <2> SUFFICES ASSUME RobotInit PROVE EvidentInv
    OBVIOUS
  <2>1. \A c \in Clients : pc[c] = "send" /\ pass[c] = 1
    BY DEF RobotInit, Init
  <2>2. \A c \in Clients : \A p \in Pass : \A i : ~Evident(c, p, i)
    BY <2>1 DEF Evident, Pass
  <2>3. EvidentCommands = {}
    BY <2>2, IndexType DEF EvidentCommands, Commands
  <2> QED
    BY <2>1, <2>3, FS_EmptySet DEF EvidentInv, RobotInit
<1>3. Known /\ EvidentInv /\ [RobotNext]_allVars => EvidentInv'
  BY StepEvidentInv
<1> HIDE DEF Known
<1> QED
  BY <1>1, <1>2, <1>3, PTL DEF RobotSpec

(***************************************************************************)
(* SocketPerCommand for every finite set of clients: when all of them are  *)
(* done and the server waits for a request, it holds one socket for each   *)
(* command of each of their passes, no less and no more.                   *)
(***************************************************************************)
THEOREM OneSocketPerCommand ==
  ASSUME MaxDup = 0, NoEmptyBody, IsFiniteSet(Clients)
  PROVE  RobotSpec => []SocketPerCommand
<1>1. RobotTypeOK /\ EvidentInv /\ DescriptorsSuffice => SocketPerCommand
  <2> SUFFICES ASSUME RobotTypeOK, EvidentInv, DescriptorsSuffice,
                      \A c \in Clients : pc[c] = "done"
               PROVE  sockets = SocketsNeeded
    BY DEF SocketPerCommand
  <2>1. \A c \in Clients : \A p \in Pass : \A i : Evident(c, p, i)
    BY DEF EvidentInv, Evident, Pass
  <2>2. EvidentCommands = Commands
    BY <2>1, IndexType DEF EvidentCommands, Commands
  <2> QED
    BY <2>2, CommandsFinite DEF EvidentInv, DescriptorsSuffice, RobotTypeOK
<1> QED
  BY <1>1, TracesAreCounted, EnoughDescriptors, RobotTypesOK, PTL
=============================================================================
