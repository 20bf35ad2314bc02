---------------------------- MODULE RobotProofs -----------------------------
(***************************************************************************)
(* Theorems about RobotServer.                                             *)
(***************************************************************************)
EXTENDS RobotProperties, SessionProofs

-----------------------------------------------------------------------------
(***************************************************************************)
(* The clock.                                                              *)
(***************************************************************************)
LEMMA GetTimeError ==
  \A t \in Nat : /\ t % Second \in 0..(Second - 1)
                 /\ GetTime(t) = 10 * t - 9 * (t % Second)
<1> SUFFICES ASSUME NEW t \in Nat
             PROVE  /\ t % Second \in 0..(Second - 1)
                    /\ GetTime(t) = 10 * t - 9 * (t % Second)
  OBVIOUS
<1> DEFINE q == t \div Second
           r == t % Second
<1>1. Second \in Nat /\ Second > 0
  BY RobotAssumption
<1>2. q \in Int /\ r \in 0..(Second - 1) /\ t = Second * q + r
  BY <1>1
<1>3. GetTime(t) = 10 * Second * q + r
  BY DEF GetTime
<1> HIDE DEF q, r
<1>4. 10 * Second * q = 10 * (Second * q)
  BY <1>1, <1>2
<1> QED
  BY <1>1, <1>2, <1>3, <1>4 DEF r

(* The sleep after write(), and write() itself, are short of the duration
   by what getTime is wrong and no more. *)
LEMMA WaitIsLongEnough ==
  ASSUME NEW d \in Nat, NEW t \in 0..(Second - 1), NEW w \in WriteTimes
  PROVE  /\ WaitAfter(d, t, w) \in Nat
         /\ 10 * w + WaitAfter(d, t, w) > 10 * d - 9 * Second
<1>1. Second \in Nat /\ Second > 0 /\ w \in Nat /\ t \in Nat
  BY RobotAssumption
<1>2. /\ t % Second \in 0..(Second - 1) /\ GetTime(t) = 10 * t - 9 * (t % Second)
      /\ (t + w) % Second \in 0..(Second - 1)
      /\ GetTime(t + w) = 10 * (t + w) - 9 * ((t + w) % Second)
  <2>1. t + w \in Nat
    BY <1>1
  <2> QED
    BY <1>1, <2>1, GetTimeError, Zenon
<1> DEFINE spent == GetTime(t + w) - GetTime(t)
<1>3. spent \in Int /\ spent < 10 * w + 9 * Second
  <2>1. \A a, b \in 0..(Second - 1) :
          LET x == (10 * (t + w) - 9 * a) - (10 * t - 9 * b)
          IN  x \in Int /\ x < 10 * w + 9 * Second
    BY <1>1
  <2> QED
    BY <1>2, <2>1
<1>4. WaitAfter(d, t, w) = IF 10 * d > spent THEN 10 * d - spent ELSE 0
  BY DEF WaitAfter
<1> HIDE DEF spent
<1> QED
  BY <1>1, <1>3, <1>4

LEMMA DurationsType ==
  Command \in {"MOVE", "TURN"} => DurationsRead \subseteq Nat
BY RobotAssumption DEF DurationsRead

-----------------------------------------------------------------------------
(***************************************************************************)
(* The messages of an answer.                                              *)
(***************************************************************************)
LEMMA NoEmptyMessage ==
  \A len \in Nat \ {0} : \A i \in Nat : MessageBytes(len, i) # 0
BY DEF MessageBytes, PayloadSize

(* Message number i of the answer of len bytes. *)
TheMessage(len, i) ==
  [to |-> request.from, ci |-> commandIndex, num |-> NumMessages(len),
   seq |-> i, data |-> ResponseChunk(len, i)]

LEMMA SentMessages ==
  ASSUME NEW len \in Nat \ {0}, NEW k \in Nat
  PROVE  /\ SendResponse(len, k) = {TheMessage(len, i) : i \in 0..(k - 1)}
         /\ \A m \in SendResponse(len, k) :
              /\ m.to = request.from /\ m.ci = commandIndex
              /\ m.seq \in 0..(k - 1) /\ m.data.pass = request.pass
<1>1. SendResponse(len, k) = {TheMessage(len, i) : i \in 0..(k - 1)}
  BY DEF SendResponse, TheMessage
<1>2. \A i \in Nat : ResponseChunk(len, i).pass = request.pass
  BY NoEmptyMessage DEF ResponseChunk
<1>3. \A i \in 0..(k - 1) :
        LET m == TheMessage(len, i)
        IN  /\ m.to = request.from /\ m.ci = commandIndex
            /\ m.seq = i /\ m.data.pass = request.pass
  BY <1>2 DEF TheMessage
<1> QED
  BY <1>1, <1>3

(* Messages are sent in the order of their numbers. *)
LEMMA MessagesInOrder ==
  ASSUME NEW len \in Nat \ {0}, NEW k \in Nat, NEW j \in Nat, k <= j
  PROVE  /\ SendResponse(len, k) \subseteq SendResponse(len, j)
         /\ \A m \in SendResponse(len, j) \ SendResponse(len, k) : m.seq \in k..(j - 1)
<1>1. /\ SendResponse(len, k) = {TheMessage(len, i) : i \in 0..(k - 1)}
      /\ SendResponse(len, j) = {TheMessage(len, i) : i \in 0..(j - 1)}
  BY SentMessages
<1>2. \A i \in Nat : TheMessage(len, i).seq = i
  BY DEF TheMessage
<1>3. SendResponse(len, k) \subseteq SendResponse(len, j)
  BY <1>1
<1>4. ASSUME NEW m \in SendResponse(len, j) \ SendResponse(len, k)
      PROVE  m.seq \in k..(j - 1)
  <2>1. PICK i \in 0..(j - 1) : m = TheMessage(len, i)
    BY <1>1, <1>4
  <2>2. i \notin 0..(k - 1)
    BY <1>1, <1>4, <2>1
  <2> QED
    BY <1>2, <2>1, <2>2
<1> QED
  BY <1>3, <1>4

(* Nothing has been sent before the first message. *)
LEMMA NothingSent == \A len : SendResponse(len, 0) = {}
BY DEF SendResponse

LEMMA SendCount ==
  ASSUME NEW len \in Nat \ {0}, NEW k \in Nat
  PROVE  /\ IsFiniteSet(SendResponse(len, k))
         /\ Cardinality(SendResponse(len, k)) \in Nat
         /\ Cardinality(SendResponse(len, k)) <= k
<1> DEFINE S == SendResponse(len, k)
           f == [j \in 1..k |-> TheMessage(len, j - 1)]
<1>1. S = {TheMessage(len, i) : i \in 0..(k - 1)}
  BY SentMessages
<1>2. \A i \in 0..(k - 1) : \E j \in 1..k : i = j - 1
  <2> SUFFICES ASSUME NEW i \in 0..(k - 1) PROVE \E j \in 1..k : i = j - 1
    OBVIOUS
  <2>1. i + 1 \in 1..k /\ i = (i + 1) - 1
    OBVIOUS
  <2> QED
    BY <2>1
<1>3. \A j \in 1..k : j - 1 \in 0..(k - 1)
  OBVIOUS
<1>4. f \in Surjection(1..k, S)
  <2>1. f \in [1..k -> S]
    BY <1>1, <1>3
  <2>2. \A m \in S : \E j \in 1..k : f[j] = m
    BY <1>1, <1>2
  <2> QED
    BY <2>1, <2>2 DEF Surjection
<1>5. IsFiniteSet(1..k)
  BY FS_Interval
<1> HIDE DEF f, S
<1>6. IsFiniteSet(S)
  BY <1>4, <1>5, FS_Surjection
<1>7. Cardinality(S) <= k
  BY <1>4, FS_SurjCardinalityBound DEF ExistsSurjection
<1> QED
  BY <1>6, <1>7, FS_CardinalityType DEF S

-----------------------------------------------------------------------------
(***************************************************************************)
(* The server is between two commands when it waits for a request.         *)
(***************************************************************************)
IdleInv == server = "recv" => stage = "next"

LEMMA StepIdleInv == IdleInv /\ [RobotNext]_allVars => IdleInv'
<1> SUFFICES ASSUME IdleInv, [RobotNext]_allVars PROVE IdleInv'
  OBVIOUS
<1>1. CASE ServeStep
  BY <1>1 DEF IdleInv, ServeStep, Connect, ConnectFails, WriteRequest, WriteFails,
     ReadAnswer, ReadHeadless, ReadFails, SendMessage, SendLast, SendFails, robotVars,
     serverVars
<1>2. CASE SharedStep
  BY <1>2 DEF IdleInv, SharedStep, ClientStep, StartPass, Receive, RequestFails,
     HandleFails, RecvFails, ReceiveRequest, RefuseCommand, ServerStops, Lose,
     Discard, Terminated, vars, serverVars, robotVars
<1>3. CASE UNCHANGED allVars
  BY <1>3 DEF IdleInv, allVars, vars, serverVars, robotVars
<1> QED
  BY <1>1, <1>2, <1>3 DEF RobotNext

(***************************************************************************)
(* Types of the server's place in its request, whatever the robot answers. *)
(***************************************************************************)
ReadingTypes ==
  /\ robotIDLen \in [Clients -> RobotIDLens]
  /\ pass \in [Clients -> Pass]
  /\ request \in Request
  /\ requests \subseteq Request
  /\ position \in Nat
  /\ commandIndex \in Nat

LEMMA StepReadingTypes ==
  ASSUME ReadingTypes, [RobotNext]_allVars PROVE ReadingTypes'
<1> USE DEF ReadingTypes
<1>1. CASE \E c \in Clients : StartPass(c)
  <2>1. PICK c \in Clients : StartPass(c)
    BY <1>1
  <2>2. [from |-> c, pass |-> pass[c], bytes |-> SentBytes(pass[c], robotIDLen[c])]
          \in Request
    BY SentBytesBound, OffsetOfLast DEF Request
  <2> QED
    BY <2>1, <2>2 DEF StartPass, serverVars
<1>2. CASE \E c \in Clients : Receive(c)
  <2>1. PICK c \in Clients, m \in net :
          /\ KeepChunk(c, m) \/ CompleteResponse(c, m)
          /\ UNCHANGED <<robotIDLen, serverVars, requests>>
    BY <1>2 DEF Receive
  <2>2. pass' \in [Clients -> Pass]
    BY <2>1 DEF KeepChunk, CompleteResponse, ContinueOrReturn, Pass
  <2> QED
    BY <2>1, <2>2 DEF serverVars
<1>3. CASE ServeStep
  <2>1. CommandLength(Command) \in Nat
    BY OffsetStep DEF Command
  <2>2. /\ position' \in {position, position + 1 + CommandLength(Command)}
        /\ commandIndex' \in {commandIndex, commandIndex + 1}
        /\ UNCHANGED <<robotIDLen, pass, request, requests>>
    BY <1>3 DEF ServeStep, Connect, ConnectFails, WriteRequest, WriteFails,
       ReadAnswer, ReadHeadless, ReadFails, SendMessage, SendLast, SendFails,
       serverVars, netVars, clientVars
  <2> QED
    BY <2>1, <2>2
<1>4. CASE ReceiveRequest
  BY <1>4 DEF ReceiveRequest, clientVars
<1>5. CASE \/ \E c \in Clients : RequestFails(c) \/ HandleFails(c) \/ RecvFails(c)
           \/ RefuseCommand \/ ServerStops \/ Lose \/ Discard \/ Terminated
           \/ UNCHANGED allVars
  BY <1>5 DEF RequestFails, HandleFails, RecvFails, RefuseCommand, ServerStops, Lose,
     Discard, Terminated, allVars, vars, serverVars, netVars, clientVars
<1> QED
  BY <1>1, <1>2, <1>3, <1>4, <1>5 DEF RobotNext, SharedStep, ClientStep

(***************************************************************************)
(* MotionTimeBound for every duration, every time write() takes and every  *)
(* length of a second: what getTime is wrong by is all that a MOVE or a    *)
(* TURN loses that is not the last command of a request, and the last is   *)
(* the only one the server may read another duration from than it has.     *)
(***************************************************************************)
THEOREM MotionTimeIsBounded == RobotSpec => []MotionTimeBound
<1> DEFINE Inv == IdleInv /\ ReadingTypes /\ MotionTimeBound
<1>1. RobotInit => Inv
  BY DEF RobotInit, Init, IdleInv, MotionTimeBound, MotionOver, ReadingTypes, Pass, Request
<1>2. Inv /\ [RobotNext]_allVars => Inv'
  <2> SUFFICES ASSUME Inv, [RobotNext]_allVars PROVE MotionTimeBound'
    BY StepIdleInv, StepReadingTypes
  <2> SUFFICES ASSUME MotionOver'
               PROVE  \E d \in {Duration[Command']}
                               \cup (IF MoreCommands(position)' THEN {}
                                     ELSE CutDurations[Command']) :
                        motionTime' > 10 * d - 9 * Second
    BY DEF MotionTimeBound
  <2>1. CASE WriteRequest
    <3>1. /\ Command' = Command /\ Command \in {"MOVE", "TURN"}
          /\ UNCHANGED <<request, position>>
      BY <2>1 DEF WriteRequest, MotionOver, Command
    <3>2. PICK d \in DurationsRead, t \in 0..(Second - 1), w \in WriteTimes :
            motionTime' = 10 * w + WaitAfter(d, t, w)
      BY <2>1, <3>1 DEF WriteRequest
    <3>3. motionTime' > 10 * d - 9 * Second
      BY <3>1, <3>2, DurationsType, WaitIsLongEnough
    <3>4. d = Duration[Command] \/ (d \in CutDurations[Command] /\ ~MoreCommands(position))
      <4>1. /\ request.bytes \in Nat /\ position \in Nat
            /\ CommandLength(Command) \in Nat
        BY OffsetStep DEF ReadingTypes, Request, Command
      <4>2. request.bytes - (ConnectedStart + 1) < CommandLength(Command)
              => ~MoreCommands(position)
        BY <4>1 DEF ConnectedStart, MoreCommands
      <4>3. ConnectedStart \in Int
        BY <4>1 DEF ConnectedStart
      <4> QED
        BY <3>2, <4>1, <4>2, <4>3 DEF DurationsRead
    <3>5. MoreCommands(position)' <=> MoreCommands(position)
      BY <3>1 DEF MoreCommands
    <3> QED
      BY <3>1, <3>3, <3>4, <3>5
  <2>2. CASE ~WriteRequest
    <3>1. UNCHANGED <<server, stage, commandIndex, motionTime, request, position>>
      BY <2>2 DEF RobotNext, ServeStep, SharedStep, Connect, ConnectFails, WriteFails,
         ReadAnswer, ReadHeadless, ReadFails, SendMessage, SendLast, SendFails,
         ClientStep, StartPass, Receive, RequestFails, HandleFails, RecvFails,
         ReceiveRequest, RefuseCommand, ServerStops, Lose, Discard, Terminated,
         allVars, vars, serverVars, robotVars, MotionOver, IdleInv
    <3>2. /\ Command' = Command /\ motionTime' = motionTime /\ MotionOver
          /\ MoreCommands(position)' <=> MoreCommands(position)
      BY <3>1 DEF MotionOver, Command, MoreCommands
    <3> QED
      BY <3>2 DEF MotionTimeBound
  <2> QED
    BY <2>1, <2>2
<1> QED
  BY <1>1, <1>2, PTL DEF RobotSpec

-----------------------------------------------------------------------------
(***************************************************************************)
(* RobotInv, for a robot whose answers are never empty.                    *)
(***************************************************************************)
LEMMA BodyFacts ==
  ASSUME NoEmptyBody, commandIndex \in Nat
  PROVE  /\ BodyLengths[Command] # {}
         /\ \A len \in BodyLengths[Command] :
              len \in Nat \ {0} /\ NumMessages(len) \in Nat \ {0}
BY CommandAtType, NumMessagesType, SessionAssumption DEF Command, NoEmptyBody

LEMMA InitRobotInv == RobotInit => RobotInv
<1> SUFFICES ASSUME RobotInit PROVE RobotInv
  OBVIOUS
<1> USE DEF RobotInit, Init
<1>1. RobotTypeOK
  BY RobotAssumption, NumMessagesType DEF RobotTypeOK
<1>2. SharedTypes
  BY DEF SharedTypes, Pass, Request
<1>3. StageInv /\ OnceInv
  BY DEF StageInv, OnceInv
<1>4. RoomInv
  BY FS_EmptySet, SessionAssumption DEF RoomInv, AbsNet, Unsent
<1> QED
  BY <1>1, <1>2, <1>3, <1>4 DEF RobotInv

(***************************************************************************)
(* Types.                                                                  *)
(***************************************************************************)
LEMMA ServeStepTypes ==
  ASSUME NoEmptyBody, RobotTypeOK, SharedTypes, StageInv, ServeStep
  PROVE  RobotTypeOK' /\ SharedTypes'
<1> USE DEF RobotTypeOK, SharedTypes, serverVars, netVars, clientVars, robotVars
<1>1. CommandLength(Command) \in Nat /\ MotionAfter \in {"still", "moving", "turning"}
  BY OffsetStep DEF Command, MotionAfter
<1>2. CASE Connect
  BY <1>1, <1>2, NumMessagesType, RobotAssumption DEF Connect
<1>3. CASE ConnectFails \/ WriteFails \/ ReadFails \/ SendFails
  BY <1>1, <1>3 DEF ConnectFails, WriteFails, ReadFails, SendFails
<1>4. CASE WriteRequest
  <2>1. motionTime' \in Nat
    <3>1. CASE UNCHANGED motionTime
      BY <3>1
    <3>2. CASE Command \in {"MOVE", "TURN"} /\ ~UNCHANGED motionTime
      <4>1. PICK d \in DurationsRead, t \in 0..(Second - 1), w \in WriteTimes :
              motionTime' = 10 * w + WaitAfter(d, t, w)
        BY <1>4, <3>2 DEF WriteRequest
      <4> QED
        BY <3>2, <4>1, DurationsType, WaitIsLongEnough, RobotAssumption
    <3> QED
      BY <1>4, <3>1, <3>2 DEF WriteRequest
  <2> QED
    BY <1>1, <1>4, <2>1 DEF WriteRequest
<1>5. CASE ReadAnswer
  BY <1>5, BodyFacts DEF ReadAnswer
<1>6. CASE SendMessage \/ SendLast
  <2>1. bodyLen \in Nat \ {0} /\ sent \in Nat /\ sent + 1 \in Nat /\ NumMessages(0) = 1
    BY <1>6 DEF SendMessage, SendLast, StageInv, NumMessages
  <2>2. \A m \in NextMessage : /\ m.to \in Clients /\ m.ci \in Nat /\ m.seq \in Nat
                               /\ m.data.pass \in Pass
    <3>1. \A m \in SendResponse(bodyLen, sent + 1) :
            /\ m.to = request.from /\ m.ci = commandIndex /\ m.seq \in 0..sent
            /\ m.data.pass = request.pass
      BY <2>1, SentMessages
    <3>2. request.from \in Clients /\ request.pass \in Pass
      BY DEF Request
    <3> QED
      BY <2>1, <3>1, <3>2 DEF NextMessage
  <2>3. net' = net \cup NextMessage
    BY <1>6 DEF SendMessage, SendLast
  <2>4. CASE SendMessage
    BY <2>1, <2>2, <2>3, <2>4 DEF SendMessage
  <2>5. CASE SendLast
    BY <2>1, <2>2, <2>3, <2>5 DEF SendLast
  <2> QED
    BY <1>6, <2>4, <2>5
<1>7. CASE ReadHeadless
  BY <1>7 DEF ReadHeadless
<1> QED
  BY <1>2, <1>3, <1>4, <1>5, <1>6, <1>7 DEF ServeStep

LEMMA SharedStepTypes ==
  ASSUME RobotTypeOK, SharedTypes, SharedStep
  PROVE  RobotTypeOK' /\ SharedTypes'
<1> USE DEF RobotTypeOK, SharedTypes, serverVars, netVars, clientVars, robotVars, vars
<1>1. UNCHANGED robotVars
  BY DEF SharedStep
<1>2. ASSUME NEW c \in Clients, StartPass(c) PROVE SharedTypes' /\ RobotTypeOK'
  <2>1. [from |-> c, pass |-> pass[c], bytes |-> SentBytes(pass[c], robotIDLen[c])]
          \in Request
    BY SentBytesBound, OffsetOfLast DEF Request
  <2> QED
    BY <1>1, <1>2, <2>1 DEF StartPass
<1>3. ASSUME NEW c \in Clients, Receive(c) PROVE SharedTypes' /\ RobotTypeOK'
  <2>1. PICK m \in net :
          /\ Deliver(m) /\ (KeepChunk(c, m) \/ CompleteResponse(c, m))
          /\ UNCHANGED <<robotIDLen, serverVars, requests, losses>>
    BY <1>3 DEF Receive
  <2>2. net' \subseteq net
    BY <2>1 DEF Deliver
  <2>3. pass' \in [Clients -> Pass] /\ pc' \in [Clients -> {"send", "parse", "done", "quit"}]
    BY <2>1 DEF KeepChunk, CompleteResponse, ContinueOrReturn, Pass
  <2> QED
    BY <1>1, <2>1, <2>2, <2>3
<1>4. ASSUME NEW c \in Clients, RequestFails(c) \/ HandleFails(c) \/ RecvFails(c)
      PROVE  SharedTypes' /\ RobotTypeOK'
  BY <1>1, <1>4 DEF RequestFails, HandleFails, RecvFails, Deliver
<1>5. CASE ReceiveRequest
  BY <1>1, <1>5 DEF ReceiveRequest
<1>6. CASE RefuseCommand /\ stage = "next"
  BY <1>1, <1>6 DEF RefuseCommand
<1>7. CASE ServerStops \/ Lose \/ Discard \/ Terminated
  BY <1>1, <1>7 DEF ServerStops, Lose, Discard, Terminated
<1> QED
  BY <1>2, <1>3, <1>4, <1>5, <1>6, <1>7 DEF SharedStep, ClientStep

(***************************************************************************)
(* The stages of a command.                                                *)
(***************************************************************************)
LEMMA ServeStepStages ==
  ASSUME NoEmptyBody, RobotTypeOK, SharedTypes, StageInv, ServeStep
  PROVE  StageInv'
<1> USE DEF StageInv, CommandStart, Command
<1>1. /\ CommandLength(Command) \in Nat /\ position \in Nat /\ request.bytes \in Int
      /\ sent \in Nat /\ sendable \in sent..NumMessages(bodyLen)
  BY OffsetStep DEF SharedTypes, Request, RobotTypeOK
<1>2. CASE Connect
  BY <1>1, <1>2 DEF Connect, Usable, Committed
<1>3. CASE ConnectFails \/ WriteFails \/ ReadFails
  <2>1. stage # "send" /\ UNCHANGED <<stage, commandIndex, position, request>>
        /\ (stage = "answer" => UNCHANGED <<motion, motionBefore>>)
    BY <1>3 DEF ConnectFails, WriteFails, ReadFails, robotVars
  <2>2. (stage = "connected" \/ stage = "answer") => ~Committed /\ ~Committed'
    BY <2>1 DEF Committed
  <2> QED
    BY <2>1, <2>2
<1>4. CASE WriteRequest
  BY <1>1, <1>4 DEF WriteRequest, MotionAfter, Committed
<1>5. CASE ReadAnswer
  <2>1. stage' = "send" /\ bodyLen' \in Nat \ {0} /\ sent' = 0 /\ server' = "serve"
        /\ NumMessages(bodyLen') \in Nat \ {0}
    BY <1>5, BodyFacts DEF ReadAnswer, serverVars, SharedTypes
  <2> QED
    BY <2>1 DEF NumMessages
<1>6. CASE SendMessage
  BY <1>1, <1>6 DEF SendMessage, serverVars, NumMessages
<1>7. CASE SendLast \/ ReadHeadless
  BY <1>7 DEF SendLast, ReadHeadless
<1>8. CASE SendFails
  BY <1>1, <1>8 DEF SendFails, robotVars, Committed, NumMessages
<1> QED
  BY <1>2, <1>3, <1>4, <1>5, <1>6, <1>7, <1>8 DEF ServeStep

LEMMA SharedStepStages ==
  ASSUME RobotTypeOK, StageInv, SharedStep
  PROVE  StageInv'
<1>1. UNCHANGED robotVars
  BY DEF SharedStep
<1>2. \/ UNCHANGED serverVars
      \/ stage = "next"
  BY DEF SharedStep, ClientStep, StartPass, Receive, RequestFails, HandleFails,
         RecvFails, ReceiveRequest, ServerStops, Lose, Discard, Terminated,
         serverVars, vars, RobotTypeOK
<1>3. CASE UNCHANGED serverVars
  BY <1>1, <1>3 DEF StageInv, CommandStart, Command, Committed, serverVars, robotVars,
                    NumMessages
<1>4. CASE stage = "next"
  BY <1>1, <1>4 DEF StageInv, robotVars
<1> QED
  BY <1>2, <1>3, <1>4

(***************************************************************************)
(* Each pass is served once.  Steps that bring no message and no request:  *)
(* the server goes on with its command or is down.                         *)
(***************************************************************************)
LEMMA FewerMessages ==
  ASSUME OnceInv,
         net' \subseteq net, requests' \subseteq requests,
         UNCHANGED <<request, commandIndex>>,
         server' = "serve" => server = "serve",
         stage = "send" => stage' = "send" /\ sent' = sent,
         \A m \in net : m.to \in Clients /\ m.data.pass \in Pass,
         requests \subseteq Request, request \in Request,
         \A c \in Clients : \A p \in Pass : Started(c, p) => Started(c, p)'
  PROVE  OnceInv'
<1>1. ASSUME NEW r \in requests'
      PROVE  /\ Started(r.from, r.pass)'
             /\ \A q \in requests' : q.from = r.from /\ q.pass = r.pass => q = r
             /\ server' = "serve" => r.from # request'.from \/ r.pass # request'.pass
             /\ \A m \in net' : m.to # r.from \/ m.data.pass # r.pass
  BY <1>1 DEF OnceInv, Request
<1>2. server' = "serve" => request' = request /\ request.from \in Clients
                           /\ Started(request.from, request.pass)
                           /\ request.pass \in Pass
  BY DEF OnceInv, Request
<1>3. ASSUME NEW m \in net'
      PROVE  /\ Started(m.to, m.data.pass)'
             /\ server' = "serve" /\ request'.from = m.to /\ request'.pass = m.data.pass =>
                  \/ m.ci < commandIndex'
                  \/ stage' = "send" /\ m.ci = commandIndex' /\ m.seq < sent'
  BY <1>3 DEF OnceInv
<1>4. server' = "serve" => Started(request.from, request.pass)'
  BY <1>2 DEF Started
<1> QED
  BY <1>1, <1>3, <1>4 DEF OnceInv

(* The next message answers the command being served. *)
LEMMA NextMessageFacts ==
  ASSUME RobotTypeOK, StageInv, stage = "send"
  PROVE  \A m \in NextMessage : /\ m.to = request.from /\ m.data.pass = request.pass
                                /\ m.ci = commandIndex /\ m.seq = sent
<1>1. bodyLen \in Nat \ {0} /\ sent \in Nat /\ sent + 1 \in Nat
  BY DEF RobotTypeOK, StageInv
<1>2. \A m \in SendResponse(bodyLen, sent + 1) :
        m.to = request.from /\ m.ci = commandIndex /\ m.data.pass = request.pass
  BY <1>1, SentMessages
<1>3. \A m \in SendResponse(bodyLen, sent + 1) \ SendResponse(bodyLen, sent) :
        m.seq \in sent..(sent + 1 - 1)
  BY <1>1, MessagesInOrder
<1>4. \A m \in NextMessage : m.seq = sent
  BY <1>1, <1>3 DEF NextMessage
<1> QED
  BY <1>2, <1>4 DEF NextMessage

LEMMA ServeStepOnce ==
  ASSUME RobotTypeOK, SharedTypes, StageInv, OnceInv, ServeStep
  PROVE  OnceInv'
<1>1. UNCHANGED <<pass, pc, requests, request>>
  BY DEF ServeStep, Connect, ConnectFails, WriteRequest, WriteFails, ReadAnswer,
     ReadHeadless, ReadFails, SendMessage, SendLast, SendFails, clientVars, netVars,
     serverVars
<1>2. \A c \in Clients : \A p \in Pass : Started(c, p) => Started(c, p)'
  BY <1>1 DEF Started
<1>3. CASE SendMessage \/ SendLast
  <2>1. /\ server = "serve" /\ stage = "send"
        /\ net' = net \cup NextMessage
        /\ \/ commandIndex' = commandIndex /\ stage' = "send" /\ sent' = sent + 1
           \/ commandIndex' = commandIndex + 1
        /\ commandIndex \in Nat /\ sent \in Nat
    BY <1>3 DEF SendMessage, SendLast, serverVars, SharedTypes, RobotTypeOK
  <2>2. \A m \in NextMessage : /\ m.to = request.from /\ m.data.pass = request.pass
                               /\ m.ci = commandIndex /\ m.seq = sent
    BY <2>1, NextMessageFacts
  <2>3. /\ request.from \in Clients /\ request.pass \in Pass
        /\ \A r \in requests : r.from \in Clients /\ r.pass \in Pass
        /\ \A m \in net : /\ m.to \in Clients /\ m.ci \in Nat /\ m.seq \in Nat
                          /\ m.data.pass \in Pass
    BY DEF SharedTypes, Request
  <2>4. ASSUME NEW r \in requests
        PROVE  /\ Started(r.from, r.pass)'
               /\ \A q \in requests : q.from = r.from /\ q.pass = r.pass => q = r
               /\ r.from # request.from \/ r.pass # request.pass
               /\ \A m \in net' : m.to # r.from \/ m.data.pass # r.pass
    BY <1>2, <2>1, <2>2, <2>3 DEF OnceInv
  <2>5. Started(request.from, request.pass)'
    BY <1>1, <1>2, <2>1, <2>3 DEF OnceInv, Started
  <2>6. ASSUME NEW m \in net'
        PROVE  /\ Started(m.to, m.data.pass)'
               /\ request.from = m.to /\ request.pass = m.data.pass =>
                    \/ m.ci < commandIndex'
                    \/ stage' = "send" /\ m.ci = commandIndex' /\ m.seq < sent'
    <3>1. CASE m \in net
      <4>1. Started(m.to, m.data.pass)'
        <5>1. m.to \in Clients /\ m.data.pass \in Pass /\ Started(m.to, m.data.pass)
          BY <2>3, <3>1 DEF OnceInv
        <5> QED
          BY <1>2, <5>1
      <4>2. request.from = m.to /\ request.pass = m.data.pass =>
              \/ m.ci < commandIndex
              \/ m.ci = commandIndex /\ m.seq < sent
        BY <2>1, <3>1 DEF OnceInv
      <4> QED
        BY <2>1, <2>3, <3>1, <4>1, <4>2
    <3>2. CASE m \in NextMessage
      <4>1. Started(m.to, m.data.pass)'
        BY <1>1, <2>2, <2>5, <3>2 DEF Started
      <4> QED
        BY <2>1, <2>2, <3>2, <4>1
    <3> QED
      BY <2>1, <2>6, <3>1, <3>2
  <2> QED
    BY <1>1, <2>4, <2>5, <2>6 DEF OnceInv
<1>4. CASE ReadHeadless
  <2>1. /\ server = "serve" /\ stage = "answer" /\ stage' = "next" /\ net' = net
        /\ commandIndex' = commandIndex + 1 /\ commandIndex \in Nat
    BY <1>4 DEF ReadHeadless, SharedTypes
  <2>2. /\ request.from \in Clients /\ request.pass \in Pass
        /\ \A r \in requests : r.from \in Clients /\ r.pass \in Pass
        /\ \A m \in net : m.to \in Clients /\ m.ci \in Nat /\ m.data.pass \in Pass
    BY DEF SharedTypes, Request
  <2>3. ASSUME NEW r \in requests
        PROVE  /\ Started(r.from, r.pass)'
               /\ \A q \in requests : q.from = r.from /\ q.pass = r.pass => q = r
               /\ r.from # request.from \/ r.pass # request.pass
               /\ \A m \in net : m.to # r.from \/ m.data.pass # r.pass
    BY <1>2, <2>1, <2>2 DEF OnceInv
  <2>4. Started(request.from, request.pass)'
    BY <1>1, <1>2, <2>1, <2>2 DEF OnceInv, Started
  <2>5. \A m \in net :
          /\ Started(m.to, m.data.pass)'
          /\ request.from = m.to /\ request.pass = m.data.pass => m.ci < commandIndex'
    BY <1>2, <2>1, <2>2 DEF OnceInv
  <2> QED
    BY <1>1, <2>1, <2>3, <2>4, <2>5 DEF OnceInv
<1>5. CASE ~(SendMessage \/ SendLast \/ ReadHeadless)
  <2>1. /\ net' = net /\ commandIndex' = commandIndex
        /\ server' = "serve" => server = "serve"
        /\ stage = "send" => stage' = "send" /\ sent' = sent
    BY <1>5 DEF ServeStep, Connect, ConnectFails, WriteRequest, WriteFails,
       ReadAnswer, ReadFails, SendFails, netVars, serverVars, robotVars
  <2>2. /\ request \in Request /\ requests \subseteq Request
        /\ \A m \in net : m.to \in Clients /\ m.data.pass \in Pass
    BY DEF SharedTypes
  <2> QED
    BY <1>1, <1>2, <2>1, <2>2, FewerMessages
<1> QED
  BY <1>3, <1>4, <1>5

LEMMA SharedStepOnce ==
  ASSUME RobotTypeOK, SharedTypes, OnceInv, SharedStep
  PROVE  OnceInv'
<1>1. UNCHANGED <<stage, sent>>
  BY DEF SharedStep, robotVars
<1>2. /\ request \in Request /\ requests \subseteq Request
      /\ request.from \in Clients /\ request.pass \in Pass
      /\ \A r \in requests : r.from \in Clients /\ r.pass \in Pass
      /\ \A m \in net : m.to \in Clients /\ m.data.pass \in Pass
      /\ pass \in [Clients -> Pass] /\ pc \in [Clients -> {"send", "parse", "done", "quit"}]
  BY DEF SharedTypes, Request
<1>3. ASSUME NEW c \in Clients, StartPass(c) PROVE OnceInv'
  <2> DEFINE new == [from |-> c, pass |-> pass[c],
                     bytes |-> SentBytes(pass[c], robotIDLen[c])]
  <2>1. /\ pc[c] = "send" /\ pc' = [pc EXCEPT ![c] = "parse"]
        /\ requests' = requests \cup {new}
        /\ UNCHANGED <<pass, net, server, request, commandIndex>>
    BY <1>3 DEF StartPass, serverVars
  <2>2. new.from = c /\ new.pass = pass[c]
    OBVIOUS
  <2> HIDE DEF new
  <2>3. ~Started(c, pass[c]) /\ Started(c, pass[c])'
    BY <1>2, <2>1 DEF Started, Pass
  <2>4. \A d \in Clients : \A p \in Pass : Started(d, p) => Started(d, p)'
    BY <1>2, <2>1 DEF Started
  <2>5. \A r \in requests : r.from # c \/ r.pass # pass[c]
    BY <2>3 DEF OnceInv
  <2>6. \A m \in net : m.to # c \/ m.data.pass # pass[c]
    BY <2>3 DEF OnceInv
  <2>7. server = "serve" => c # request.from \/ pass[c] # request.pass
    BY <2>3 DEF OnceInv
  <2>8. \A r \in requests' : r = new \/ r \in requests
    BY <2>1
  <2>9. ASSUME NEW r \in requests'
        PROVE  /\ Started(r.from, r.pass)'
               /\ \A q \in requests' : q.from = r.from /\ q.pass = r.pass => q = r
               /\ server = "serve" => r.from # request.from \/ r.pass # request.pass
               /\ \A m \in net : m.to # r.from \/ m.data.pass # r.pass
    <3>1. CASE r = new
      BY <2>1, <2>2, <2>3, <2>5, <2>6, <2>7, <2>8, <3>1 DEF Started
    <3>2. CASE r \in requests
      BY <1>2, <2>2, <2>4, <2>5, <2>8, <3>2 DEF OnceInv
    <3> QED
      BY <2>8, <3>1, <3>2
  <2>10. server = "serve" => Started(request.from, request.pass)'
    BY <1>2, <2>1, <2>4 DEF OnceInv, Started
  <2>11. \A m \in net :
           /\ Started(m.to, m.data.pass)'
           /\ server = "serve" /\ request.from = m.to /\ request.pass = m.data.pass =>
                \/ m.ci < commandIndex
                \/ stage = "send" /\ m.ci = commandIndex /\ m.seq < sent
    BY <1>2, <2>4 DEF OnceInv
  <2> QED
    BY <1>1, <2>1, <2>9, <2>10, <2>11 DEF OnceInv
<1>4. CASE ReceiveRequest
  <2>1. PICK r \in requests : request' = r /\ requests' = requests \ {r}
    BY <1>4 DEF ReceiveRequest
  <2>2. UNCHANGED <<net, pass, pc>>
    BY <1>4 DEF ReceiveRequest, clientVars
  <2>3. \A d \in Clients : \A p \in Pass : Started(d, p) => Started(d, p)'
    BY <2>2 DEF Started
  <2>4. \A q \in requests' :
          /\ Started(q.from, q.pass)'
          /\ \A s \in requests' : s.from = q.from /\ s.pass = q.pass => s = q
          /\ q.from # r.from \/ q.pass # r.pass
          /\ \A m \in net : m.to # q.from \/ m.data.pass # q.pass
    BY <1>2, <2>1, <2>3 DEF OnceInv
  <2>5. Started(r.from, r.pass) /\ r.from \in Clients /\ r.pass \in Pass
    BY <1>2, <2>1 DEF OnceInv
  <2>6. Started(request.from, request.pass)'
    BY <2>1, <2>2, <2>5 DEF Started
  <2>7. \A m \in net : Started(m.to, m.data.pass)' /\ (m.to # r.from \/ m.data.pass # r.pass)
    BY <1>2, <2>1, <2>3 DEF OnceInv
  <2> QED
    BY <2>1, <2>2, <2>4, <2>6, <2>7 DEF OnceInv
<1>5. ASSUME NEW c \in Clients, Receive(c) PROVE OnceInv'
  <2>1. PICK m \in net :
          /\ Deliver(m) /\ (KeepChunk(c, m) \/ CompleteResponse(c, m))
          /\ UNCHANGED <<robotIDLen, serverVars, requests, losses>>
          /\ pc[c] = "parse"
    BY <1>5 DEF Receive
  <2>2. net' \subseteq net
    BY <2>1 DEF Deliver
  <2>3. \/ UNCHANGED <<pc, pass>>
        \/ /\ pass[c] = 1 /\ pc' = [pc EXCEPT ![c] = "send"]
           /\ pass' = [pass EXCEPT ![c] = 2]
        \/ /\ pass[c] = 2 /\ pc' = [pc EXCEPT ![c] = "done"]
           /\ UNCHANGED pass
    BY <2>1 DEF KeepChunk, CompleteResponse, ContinueOrReturn
  <2>4. \A d \in Clients : \A p \in Pass : Started(d, p) => Started(d, p)'
    BY <1>2, <2>1, <2>3 DEF Started, Pass
  <2> QED
    BY <1>1, <1>2, <2>1, <2>2, <2>4, FewerMessages DEF serverVars
<1>6. CASE \/ \E c \in Clients : RequestFails(c) \/ HandleFails(c) \/ RecvFails(c)
           \/ RefuseCommand \/ ServerStops \/ Lose \/ Discard \/ Terminated
  <2>1. /\ net' \subseteq net /\ requests' \subseteq requests
        /\ UNCHANGED <<request, commandIndex, pass>>
        /\ server' = "serve" => server = "serve"
    BY <1>6 DEF RequestFails, HandleFails, RecvFails, Deliver, RefuseCommand,
                ServerStops, Lose, Discard, Terminated, serverVars, netVars,
                clientVars, vars
  <2>2. \/ UNCHANGED pc
        \/ \E c \in Clients : pc' = [pc EXCEPT ![c] = "quit"]
    BY <1>6 DEF RequestFails, HandleFails, RecvFails, RefuseCommand, ServerStops,
                Lose, Discard, Terminated, clientVars, vars
  <2>3. \A d \in Clients : \A p \in Pass : Started(d, p) => Started(d, p)'
    BY <1>2, <2>1, <2>2 DEF Started
  <2> QED
    BY <1>1, <1>2, <2>1, <2>3, FewerMessages
<1> QED
  BY <1>3, <1>4, <1>5, <1>6 DEF SharedStep, ClientStep

-----------------------------------------------------------------------------
(***************************************************************************)
(* The messages that will be sent, and the room for them.                  *)
(***************************************************************************)
LEMMA UnsentSame ==
  ASSUME UNCHANGED <<stage, bodyLen, sent, sendable, request, commandIndex>>
  PROVE  Unsent' = Unsent
BY DEF Unsent, SendResponse, ResponseChunk, NumMessages, MessageBytes

LEMMA NoneUnsent == /\ stage # "send" => Unsent = {}
                    /\ stage' # "send" => Unsent' = {}
BY DEF Unsent

LEMMA UnsentOfAnswer ==
  ASSUME ReadAnswer
  PROVE  Unsent' = SendResponse(bodyLen', sendable')
<1>1. /\ stage' = "send" /\ sent' = 0
      /\ UNCHANGED <<request, commandIndex>>
  BY DEF ReadAnswer, serverVars
<1>2. Unsent' = SendResponse(bodyLen', sendable') \ SendResponse(bodyLen', 0)
  BY <1>1 DEF Unsent, SendResponse, ResponseChunk, NumMessages, MessageBytes
<1> QED
  BY <1>2, NothingSent

LEMMA UnsentNext ==
  ASSUME RobotTypeOK, StageInv, SendMessage
  PROVE  AbsNet' = AbsNet
<1>1. /\ stage = "send" /\ stage' = "send" /\ sent' = sent + 1 /\ sent < sendable
      /\ UNCHANGED <<bodyLen, sendable, request, commandIndex>>
      /\ net' = net \cup NextMessage
  BY DEF SendMessage, serverVars
<1>2. /\ bodyLen \in Nat \ {0} /\ sent \in Nat /\ sent + 1 \in Nat /\ sendable \in Nat
      /\ NumMessages(bodyLen) \in Nat
  BY <1>1, NumMessagesType DEF RobotTypeOK, StageInv
<1>3. Unsent' = SendResponse(bodyLen, sendable) \ SendResponse(bodyLen, sent + 1)
  BY <1>1 DEF Unsent, SendResponse, ResponseChunk, NumMessages, MessageBytes
<1>4. /\ SendResponse(bodyLen, sent) \subseteq SendResponse(bodyLen, sent + 1)
      /\ SendResponse(bodyLen, sent + 1) \subseteq SendResponse(bodyLen, sendable)
  BY <1>1, <1>2, MessagesInOrder
<1> QED
  BY <1>1, <1>3, <1>4 DEF AbsNet, Unsent, NextMessage

LEMMA UnsentLast ==
  ASSUME RobotTypeOK, StageInv, SendLast
  PROVE  Committed /\ AbsNet' = AbsNet
<1>1. /\ stage = "send" /\ stage' = "next" /\ sent < sendable
      /\ sent + 1 = NumMessages(bodyLen)
      /\ net' = net \cup NextMessage
  BY DEF SendLast
<1>2. sendable = sent + 1
  BY <1>1, NumMessagesType DEF RobotTypeOK
<1>3. Unsent = NextMessage /\ Unsent' = {}
  BY <1>1, <1>2 DEF Unsent, NextMessage
<1> QED
  BY <1>1, <1>2, <1>3 DEF AbsNet, Committed

LEMMA SharedStepUnsent ==
  ASSUME RobotTypeOK, SharedStep
  PROVE  Unsent' = Unsent /\ (stage = "send" => UNCHANGED <<request, commandIndex>>)
<1>1. UNCHANGED robotVars
  BY DEF SharedStep
<1>2. stage = "send" => UNCHANGED <<request, commandIndex>>
  BY DEF SharedStep, ClientStep, StartPass, Receive, RequestFails, HandleFails,
         RecvFails, ReceiveRequest, RefuseCommand, ServerStops, Lose, Discard,
         Terminated, serverVars, vars, RobotTypeOK
<1> QED
  BY <1>1, <1>2, UnsentSame, NoneUnsent DEF robotVars

LEMMA NoMore ==
  ASSUME RoomInv, AbsNet' \subseteq AbsNet
  PROVE  RoomInv'
<1> DEFINE S == AbsNet
           T == AbsNet'
<1>1. IsFiniteSet(S) /\ Cardinality(S) <= MaxInFlight /\ T \in SUBSET S
  BY DEF RoomInv
<1>2. RoomInv' <=> IsFiniteSet(T) /\ Cardinality(T) <= MaxInFlight
  BY DEF RoomInv
<1> HIDE DEF S, T
<1>3. IsFiniteSet(T) /\ Cardinality(T) <= Cardinality(S)
  BY <1>1, FS_Subset
<1>4. Cardinality(T) \in Nat /\ Cardinality(S) \in Nat
  BY <1>1, <1>3, FS_CardinalityType
<1> QED
  BY <1>1, <1>2, <1>3, <1>4, SessionAssumption

LEMMA ReadAnswerRoom ==
  ASSUME NoEmptyBody, RobotTypeOK, SharedTypes, RoomInv, ReadAnswer
  PROVE  RoomInv'
<1>1. PICK len \in BodyLengths[Command] :
        /\ Cardinality(net) + NumMessages(len) <= MaxInFlight
        /\ bodyLen' = len
        /\ sendable' \in 0..NumMessages(len)
  BY BodyFacts DEF ReadAnswer, SharedTypes
<1>2. len \in Nat \ {0} /\ NumMessages(len) \in Nat /\ sendable' \in Nat
  BY <1>1, BodyFacts DEF SharedTypes
<1> DEFINE S == SendResponse(len, sendable')
<1>3. IsFiniteSet(S) /\ Cardinality(S) \in Nat /\ Cardinality(S) <= sendable'
  BY <1>2, SendCount
<1>4. Unsent = {} /\ Unsent' = S /\ net' = net
  BY <1>1, UnsentOfAnswer DEF ReadAnswer, Unsent, netVars
<1> HIDE DEF S
<1>5. IsFiniteSet(net) /\ Cardinality(net) \in Nat
  BY <1>4, FS_CardinalityType, FS_Subset DEF RoomInv, AbsNet
<1>6. /\ IsFiniteSet(net \cup S) /\ IsFiniteSet(net \cap S)
      /\ Cardinality(net \cup S) =
           Cardinality(net) + Cardinality(S) - Cardinality(net \cap S)
  BY <1>3, <1>5, FS_Union, FS_Intersection
<1>7. Cardinality(net \cap S) \in Nat
  BY <1>6, FS_CardinalityType
<1>8. Cardinality(net \cup S) <= MaxInFlight
  BY <1>1, <1>2, <1>3, <1>5, <1>6, <1>7, SessionAssumption
<1> QED
  BY <1>4, <1>6, <1>8 DEF RoomInv, AbsNet

LEMMA ServeStepRoom ==
  ASSUME NoEmptyBody, RobotTypeOK, SharedTypes, StageInv, RoomInv, ServeStep
  PROVE  RoomInv'
<1>1. CASE \/ Connect \/ ConnectFails \/ WriteRequest \/ WriteFails
           \/ ReadHeadless \/ ReadFails
  <2>1. stage # "send" /\ stage' # "send" /\ net' = net
    BY <1>1 DEF Connect, ConnectFails, WriteRequest, WriteFails, ReadHeadless,
                ReadFails, netVars, robotVars
  <2> QED
    BY <2>1, NoneUnsent, NoMore DEF AbsNet
<1>2. CASE SendFails
  BY <1>2, UnsentSame, NoMore DEF AbsNet, SendFails, robotVars, netVars
<1> QED
  BY <1>1, <1>2, ReadAnswerRoom, UnsentNext, UnsentLast, NoMore DEF ServeStep

LEMMA SharedStepRoom ==
  ASSUME RobotTypeOK, RoomInv, SharedStep
  PROVE  RoomInv'
<1>1. net' \subseteq net
  BY DEF SharedStep, ClientStep, StartPass, Receive, Deliver, RequestFails,
         HandleFails, RecvFails, ReceiveRequest, RefuseCommand, ServerStops, Lose,
         Discard, Terminated, netVars, vars
<1> QED
  BY <1>1, SharedStepUnsent, NoMore DEF AbsNet

-----------------------------------------------------------------------------
LEMMA StepRobotInv ==
  ASSUME NoEmptyBody, RobotInv, [RobotNext]_allVars
  PROVE  RobotInv'
<1> USE DEF RobotInv
<1>1. CASE ServeStep
  BY <1>1, ServeStepTypes, ServeStepStages, ServeStepOnce, ServeStepRoom
<1>2. CASE SharedStep
  BY <1>2, SharedStepTypes, SharedStepStages, SharedStepOnce, SharedStepRoom
<1>3. CASE UNCHANGED allVars
  <2>1. Unsent' = Unsent /\ RoomInv'
    BY <1>3, UnsentSame, NoMore DEF AbsNet, allVars, robotVars, vars, serverVars, netVars
  <2>2. RobotTypeOK' /\ SharedTypes' /\ StageInv' /\ OnceInv'
    BY <1>3 DEF RobotTypeOK, SharedTypes, StageInv, OnceInv, CommandStart, Committed,
       Command, Started, NumMessages, allVars, robotVars, vars, serverVars, netVars,
       clientVars
  <2> QED
    BY <2>1, <2>2
<1> QED
  BY <1>1, <1>2, <1>3 DEF RobotNext

(***************************************************************************)
(* RobotInv holds whatever the constants are, if no answer of the robot is *)
(* empty: the stage of a command agrees with the server's locals, each     *)
(* pass is served once, and there is room for what sendResponse sends.     *)
(***************************************************************************)
THEOREM ServerCarriesOn == ASSUME NoEmptyBody PROVE RobotSpec => []RobotInv
<1>1. RobotInit => RobotInv
  BY InitRobotInv
<1>2. RobotInv /\ [RobotNext]_allVars => RobotInv'
  BY StepRobotInv
<1> QED
  BY <1>1, <1>2, PTL DEF RobotSpec

-----------------------------------------------------------------------------
(***************************************************************************)
(* The refinement.  First, what the mapped variables are.                  *)
(***************************************************************************)
LEMMA SameOperators ==
  /\ \A i : Session!CommandAt(i) = CommandAt(i)
  /\ \A kind : Session!CommandLength(kind) = CommandLength(kind)
  /\ \A kind : Session!UsableLength(kind) = UsableLength(kind)
  /\ \A p : Session!Terminator(p) = Terminator(p)
  /\ \A p : Session!NumCommands(p) = NumCommands(p)
  /\ \A p, idLen : Session!SentBytes(p, idLen) = SentBytes(p, idLen)
  /\ \A len : Session!NumMessages(len) = NumMessages(len)
  /\ Session!Indices = Indices /\ Session!Files = Files /\ Session!Empty = Empty
  /\ \A S : Session!Cardinality(S) = Cardinality(S)
<1> USE DEF CommandAt, Session!CommandAt, SnapshotCommands, Session!SnapshotCommands,
        SideCommands, Session!SideCommands, CommandLength, Session!CommandLength,
        UsableLength, Session!UsableLength, Terminator, Session!Terminator,
        RequestBytes, Session!RequestBytes, SideBytes, Session!SideBytes,
        Sides, Session!Sides, NumCommands, Session!NumCommands,
        SentBytes, Session!SentBytes, PacketLen, Session!PacketLen,
        MaxPayload, Session!MaxPayload, HeadLen, Session!HeadLen,
        NumMessages, Session!NumMessages, PayloadSize, Session!PayloadSize,
        Indices, Session!Indices, Files, Session!Files, MaxFiles, Session!MaxFiles,
        Empty, Session!Empty
<1>1. \A i : Session!CommandAt(i) = CommandAt(i)
  OBVIOUS
<1>2. \A kind : Session!CommandLength(kind) = CommandLength(kind)
  OBVIOUS
<1>3. \A kind : Session!UsableLength(kind) = UsableLength(kind)
  OBVIOUS
<1>4. \A p : Session!Terminator(p) = Terminator(p) /\ Session!NumCommands(p) = NumCommands(p)
  OBVIOUS
<1>5. \A p, idLen : Session!SentBytes(p, idLen) = SentBytes(p, idLen)
  OBVIOUS
<1>6. \A len : Session!NumMessages(len) = NumMessages(len)
  OBVIOUS
<1>7. Session!Indices = Indices /\ Session!Files = Files /\ Session!Empty = Empty
  OBVIOUS
<1>8. \A S : Session!Cardinality(S) = Cardinality(S)
  BY DEF Cardinality, Session!Cardinality
<1> QED
  BY <1>1, <1>2, <1>3, <1>4, <1>5, <1>6, <1>7, <1>8

LEMMA InitMaps == RobotInit => Session!Init
BY SameOperators DEF RobotInit, Init, Session!Init, Committed, CommandStart,
   Unsent, AbsServer, AbsCommandIndex, AbsMotion, AbsNet

(***************************************************************************)
(* Steps that carry a command on and do not end it.                        *)
(***************************************************************************)
LEMMA SameAbstractVars ==
  ASSUME UNCHANGED <<AbsServer, request, CommandStart, AbsCommandIndex, AbsMotion,
                     requests, AbsNet, losses, dups, clientVars>>
  PROVE  UNCHANGED Session!vars
BY DEF Session!vars, Session!clientVars, Session!serverVars, Session!netVars, clientVars

LEMMA ConnectStutters ==
  ASSUME RobotInv, Connect PROVE UNCHANGED Session!vars
<1>1. /\ stage = "next" /\ stage' = "connected"
      /\ position' = position + 1 + CommandLength(Command)
      /\ UNCHANGED <<server, request, commandIndex, motion, netVars, clientVars>>
  BY DEF Connect
<1>2. position \in Nat /\ CommandLength(Command) \in Nat
  BY OffsetStep DEF RobotInv, SharedTypes, Command
<1>3. CommandStart' = CommandStart
  BY <1>1, <1>2 DEF CommandStart, Committed, Command
<1> QED
  BY <1>1, <1>3, SameAbstractVars
     DEF Committed, Unsent, AbsServer, AbsCommandIndex, AbsMotion, AbsNet, netVars

LEMMA WriteRequestStutters ==
  ASSUME WriteRequest PROVE UNCHANGED Session!vars
<1>1. /\ server = "serve" /\ stage = "connected" /\ stage' = "answer"
      /\ motionBefore' = motion
      /\ UNCHANGED <<server, request, position, commandIndex, netVars, clientVars>>
  BY DEF WriteRequest
<1>2. CommandStart' = CommandStart
  BY <1>1 DEF CommandStart, Committed, Command
<1> QED
  BY <1>1, <1>2, SameAbstractVars
     DEF Committed, Unsent, AbsServer, AbsCommandIndex, AbsMotion, AbsNet, netVars

LEMMA SendMessageStutters ==
  ASSUME RobotInv, SendMessage PROVE UNCHANGED Session!vars
<1>1. /\ stage = "send" /\ stage' = "send"
      /\ UNCHANGED <<bodyLen, sendable, server, request, position, commandIndex, motion,
                     requests, losses, dups, clientVars>>
  BY DEF SendMessage, serverVars
<1>2. AbsNet' = AbsNet
  BY UnsentNext DEF RobotInv
<1>3. Committed' = Committed /\ MoreCommands(position)' = MoreCommands(position)
  BY <1>1 DEF Committed, NumMessages, MoreCommands
<1> QED
  BY <1>1, <1>2, <1>3, SameAbstractVars
     DEF CommandStart, Command, AbsServer, AbsCommandIndex, AbsMotion

LEMMA SendLastStutters ==
  ASSUME RobotInv, SendLast PROVE UNCHANGED Session!vars
<1>1. /\ stage = "send" /\ stage' = "next"
      /\ server' = IF MoreCommands(position) THEN "serve" ELSE "recv"
      /\ commandIndex' = commandIndex + 1
      /\ UNCHANGED <<request, position, motion, requests, losses, dups, clientVars>>
  BY DEF SendLast
<1>2. Committed /\ AbsNet' = AbsNet
  BY UnsentLast DEF RobotInv
<1>3. ~Committed'
  BY <1>1 DEF Committed
<1> QED
  BY <1>1, <1>2, <1>3, SameAbstractVars
     DEF CommandStart, AbsServer, AbsCommandIndex, AbsMotion

LEMMA SendFailsStutters ==
  ASSUME RobotInv, SendFails PROVE UNCHANGED Session!vars
<1>1. /\ stage = "send" /\ sent = sendable
      /\ UNCHANGED <<robotVars, request, position, commandIndex, motion, netVars,
                     clientVars>>
  BY DEF SendFails
<1>2. ~Committed /\ ~Committed'
  BY <1>1, NumMessagesType
     DEF RobotInv, StageInv, RobotTypeOK, Committed, robotVars, NumMessages
<1>3. Unsent' = Unsent
  BY <1>1, UnsentSame DEF robotVars
<1> QED
  BY <1>1, <1>2, <1>3, SameAbstractVars
     DEF CommandStart, Command, AbsServer, AbsCommandIndex, AbsMotion, AbsNet, netVars,
         robotVars

(***************************************************************************)
(* Steps that end a command.                                               *)
(***************************************************************************)
(* A command that is not being answered yet is usable, and commands,
   messages and motion are the same on both sides. *)
LEMMA BeforeTheAnswer ==
  ASSUME RobotInv, server = "serve", stage # "send", stage = "next" => Usable
  PROVE  /\ AbsServer = "serve" /\ AbsCommandIndex = commandIndex /\ AbsNet = net
         /\ Session!Command = Command /\ Session!Usable
         /\ \A len, k : Session!SendResponse(len, k) = SendResponse(len, k)
<1>1. ~Committed /\ AbsServer = "serve" /\ AbsCommandIndex = commandIndex /\ AbsNet = net
  BY DEF Committed, AbsServer, AbsCommandIndex, AbsNet, Unsent
<1>2. Session!Command = Command
  BY <1>1, SameOperators DEF Session!Command, Command
<1>3. Session!Usable
  <2>1. request.bytes - (CommandStart + 1) >= UsableLength(Command)
    BY <1>1 DEF RobotInv, RobotTypeOK, StageInv, Usable, CommandStart
  <2> QED
    BY <1>2, <2>1, SameOperators DEF Session!Usable
<1>4. \A len, i : Session!MessageBytes(len, i) = MessageBytes(len, i)
  BY SameOperators DEF Session!MessageBytes, MessageBytes, Session!PayloadSize, PayloadSize
<1>5. \A len, i : Session!ResponseChunk(len, i) = ResponseChunk(len, i)
  BY <1>1, <1>4, SameOperators
     DEF Session!ResponseChunk, ResponseChunk, Session!PayloadSize, PayloadSize
<1>6. \A len, k : Session!SendResponse(len, k) = SendResponse(len, k)
  BY <1>1, <1>5, SameOperators DEF Session!SendResponse, SendResponse
<1> QED
  BY <1>1, <1>2, <1>3, <1>6

(* A call that fails before the first message is sent. *)
LEMMA CallFails ==
  ASSUME NoEmptyBody, RobotInv, ConnectFails \/ WriteFails \/ ReadFails
  PROVE  Session!ServeFails
<1>1. /\ server = "serve" /\ server' = "down" /\ stage # "send"
      /\ stage = "next" => Usable
      /\ UNCHANGED <<robotVars, request, position, commandIndex, netVars, clientVars>>
      /\ \/ stage \in {"next", "connected"} /\ motion' \in {motion, MotionAfter}
         \/ stage = "answer" /\ motion' = motion
  BY DEF ConnectFails, WriteFails, ReadFails
<1>2. /\ AbsServer = "serve" /\ AbsCommandIndex = commandIndex /\ AbsNet = net
      /\ Session!Command = Command /\ Session!Usable
      /\ \A len, k : Session!SendResponse(len, k) = SendResponse(len, k)
  BY <1>1, BeforeTheAnswer
<1>3. /\ AbsServer' = "down" /\ AbsCommandIndex' = AbsCommandIndex /\ AbsNet' = AbsNet
      /\ CommandStart' = CommandStart /\ AbsMotion' = motion'
  BY <1>1 DEF AbsServer, AbsCommandIndex, AbsNet, Unsent, CommandStart, Committed, Command,
              AbsMotion, netVars, robotVars
<1>4. AbsMotion' \in {AbsMotion, Session!MotionAfter}
  <2>1. CASE stage \in {"next", "connected"}
    <3>1. AbsMotion = motion /\ Session!MotionAfter = MotionAfter
      BY <1>2, <2>1 DEF AbsMotion, Session!MotionAfter, MotionAfter
    <3> QED
      BY <1>1, <1>3, <2>1, <3>1
  <2>2. CASE stage = "answer"
    <3>1. AbsMotion = motionBefore
      BY <1>1, <2>2 DEF AbsMotion
    <3>2. motion = Session!MotionAfter
      BY <1>2, <2>2, <3>1 DEF RobotInv, StageInv, Session!MotionAfter
    <3> QED
      BY <1>1, <1>3, <2>2, <3>2
  <2> QED
    BY <1>1, <2>1, <2>2
<1>5. PICK len \in BodyLengths[Command] : NumMessages(len) \in Nat \ {0}
  BY BodyFacts DEF RobotInv, SharedTypes
<1>6. Cardinality(AbsNet) + 0 <= MaxInFlight
  BY FS_CardinalityType DEF RobotInv, RoomInv
<1>7. 0 \in 0..(Session!NumMessages(len) - 1) /\ AbsNet' = AbsNet \cup Session!SendResponse(len, 0)
  BY <1>2, <1>3, <1>5, NothingSent, SameOperators
<1>8. \E l \in BodyLengths[Session!Command] :
        \E k \in 0..(Session!NumMessages(l) - 1) :
          /\ Cardinality(AbsNet) + k <= MaxInFlight
          /\ AbsNet' = AbsNet \cup Session!SendResponse(l, k)
  BY <1>2, <1>5, <1>6, <1>7
<1> QED
  BY <1>1, <1>2, <1>3, <1>4, <1>8, SameOperators
     DEF Session!ServeFails, Session!clientVars, clientVars, netVars

(* Once the answer is read, it is known how many messages will be sent. *)
LEMMA AnswerEnds ==
  ASSUME NoEmptyBody, RobotInv, ReadAnswer
  PROVE  Session!ServeCommand \/ Session!ServeFails
<1>1. PICK len \in BodyLengths[Command] :
        /\ Cardinality(net) + NumMessages(len) <= MaxInFlight
        /\ bodyLen' = len
        /\ sendable' \in 0..NumMessages(len)
  BY BodyFacts DEF ReadAnswer, RobotInv, SharedTypes
<1>2. len \in Nat \ {0} /\ NumMessages(len) \in Nat \ {0} /\ sendable' \in Nat
  BY <1>1, BodyFacts DEF RobotInv, SharedTypes
<1>3. /\ server = "serve" /\ stage = "answer" /\ stage' = "send"
      /\ UNCHANGED <<server, request, position, commandIndex, motion, motionBefore,
                     netVars, clientVars>>
  BY DEF ReadAnswer, serverVars
<1>4. /\ AbsServer = "serve" /\ AbsCommandIndex = commandIndex /\ AbsNet = net
      /\ Session!Command = Command /\ Session!Usable
      /\ \A l, k : Session!SendResponse(l, k) = SendResponse(l, k)
  BY <1>3, BeforeTheAnswer
<1>5. AbsNet' = AbsNet \cup Session!SendResponse(len, sendable')
  <2>1. Unsent' = SendResponse(len, sendable')
    BY <1>1, UnsentOfAnswer
  <2> QED
    BY <1>3, <1>4, <2>1 DEF AbsNet, netVars
<1>6. AbsMotion = motionBefore /\ AbsMotion' = motion
  BY <1>3 DEF AbsMotion
<1>7. motion = Session!MotionAfter
  BY <1>3, <1>4, <1>6 DEF RobotInv, StageInv, Session!MotionAfter
<1>8. CommandStart = position - (1 + CommandLength(Command))
  BY <1>3 DEF CommandStart, Committed
<1>9. position \in Nat /\ CommandLength(Command) \in Nat
  BY OffsetStep DEF RobotInv, SharedTypes, Command
<1>10. Committed' <=> sendable' = NumMessages(len)
  BY <1>1, <1>3 DEF Committed, NumMessages
<1>11. CASE sendable' = NumMessages(len)
  <2>1. Committed'
    BY <1>10, <1>11
  <2>2. CommandStart' = CommandStart + 1 + Session!CommandLength(Session!Command)
    BY <1>3, <1>4, <1>8, <1>9, <2>1, SameOperators DEF CommandStart
  <2>3. AbsCommandIndex' = AbsCommandIndex + 1
    BY <1>3, <1>4, <2>1 DEF AbsCommandIndex
  <2>4. AbsServer' = IF Session!MoreCommands(CommandStart') THEN "serve" ELSE "recv"
    <3>1. CommandStart' = position
      BY <1>3, <2>1 DEF CommandStart
    <3>2. Session!MoreCommands(position) = MoreCommands(position)
      BY SameOperators DEF Session!MoreCommands, MoreCommands
    <3> QED
      BY <1>3, <2>1, <3>1, <3>2, SameOperators DEF AbsServer, MoreCommands, Session!MoreCommands
  <2>5. \E l \in BodyLengths[Session!Command] :
          /\ Cardinality(AbsNet) + Session!NumMessages(l) <= MaxInFlight
          /\ AbsNet' = AbsNet \cup Session!SendResponse(l, Session!NumMessages(l))
    BY <1>1, <1>4, <1>5, <1>11, SameOperators
  <2> QED
    BY <1>3, <1>4, <1>6, <1>7, <2>2, <2>3, <2>4, <2>5, SameOperators
       DEF Session!ServeCommand, Session!clientVars, clientVars, netVars
<1>12. CASE sendable' # NumMessages(len)
  <2>1. ~Committed' /\ ~Committed
    BY <1>3, <1>10, <1>12 DEF Committed
  <2>2. AbsServer' = "down" /\ AbsCommandIndex' = AbsCommandIndex
    BY <1>3, <2>1 DEF AbsServer, AbsCommandIndex
  <2>3. CommandStart' = CommandStart
    BY <1>3, <2>1 DEF CommandStart, Command
  <2>4. /\ sendable' \in 0..(NumMessages(len) - 1)
        /\ Cardinality(net) + sendable' <= MaxInFlight
    <3>1. Cardinality(net) \in Nat
      BY <1>4, FS_CardinalityType DEF RobotInv, RoomInv
    <3> QED
      BY <1>1, <1>2, <1>12, <3>1, SessionAssumption
  <2>5. \E l \in BodyLengths[Session!Command] :
          \E k \in 0..(Session!NumMessages(l) - 1) :
            /\ Cardinality(AbsNet) + k <= MaxInFlight
            /\ AbsNet' = AbsNet \cup Session!SendResponse(l, k)
    BY <1>1, <1>4, <1>5, <2>4, SameOperators
  <2> QED
    BY <1>3, <1>4, <1>6, <1>7, <2>2, <2>3, <2>5, SameOperators
       DEF Session!ServeFails, Session!clientVars, clientVars, netVars
<1> QED
  BY <1>11, <1>12

(* No message is sent, and the next command is due. *)
LEMMA HeadlessSkips ==
  ASSUME RobotInv, ReadHeadless PROVE Session!SkipAnswer
<1>1. /\ server = "serve" /\ stage = "answer" /\ stage' = "next"
      /\ commandIndex' = commandIndex + 1
      /\ server' = IF MoreCommands(position) THEN "serve" ELSE "recv"
      /\ UNCHANGED <<request, position, motion, requests, net, dups, clientVars>>
  BY DEF ReadHeadless
<1>2. /\ AbsServer = "serve" /\ AbsCommandIndex = commandIndex /\ AbsNet = net
      /\ Session!Command = Command /\ Session!Usable
  BY <1>1, BeforeTheAnswer
<1>3. /\ ~Committed' /\ AbsServer' = server' /\ AbsCommandIndex' = commandIndex'
      /\ AbsNet' = net' /\ AbsMotion' = motion' /\ CommandStart' = position'
  BY <1>1 DEF Committed, AbsServer, AbsCommandIndex, AbsNet, Unsent, AbsMotion, CommandStart
<1>4. AbsMotion' = Session!MotionAfter
  <2>1. AbsMotion = motionBefore
    BY <1>1 DEF AbsMotion
  <2> QED
    BY <1>1, <1>2, <1>3, <2>1 DEF RobotInv, StageInv, Session!MotionAfter
<1>5. CommandStart' = CommandStart + 1 + Session!CommandLength(Session!Command)
  <2>1. position \in Nat /\ CommandLength(Command) \in Nat
    BY OffsetStep DEF RobotInv, SharedTypes, Command
  <2>2. CommandStart = position - (1 + CommandLength(Command))
    BY <1>1 DEF CommandStart, Committed
  <2> QED
    BY <1>1, <1>2, <1>3, <2>1, <2>2, SameOperators
<1>6. Session!MoreCommands(CommandStart') = MoreCommands(position)
  BY <1>1, <1>3, SameOperators DEF Session!MoreCommands, MoreCommands
<1>7. /\ commandIndex \in Headless /\ losses < MaxSkip /\ losses' = losses + 1
  BY DEF ReadHeadless
<1> QED
  BY <1>1, <1>2, <1>3, <1>4, <1>5, <1>6, <1>7
     DEF Session!SkipAnswer, Session!clientVars, clientVars

(***************************************************************************)
(* The steps the two specifications share.                                 *)
(***************************************************************************)
LEMMA SameClient ==
  ASSUME NEW c, NEW m
  PROVE  /\ Session!KeepChunk(c, m) <=> KeepChunk(c, m)
         /\ Session!CompleteResponse(c, m) <=> CompleteResponse(c, m)
<1>1. Session!Store(responses[c][m.ci], m) = Store(responses[c][m.ci], m)
  BY SameOperators DEF Session!Store, Store
<1>2. \A vec : Session!IsVectorFull(vec) <=> IsVectorFull(vec)
  BY SameOperators DEF Session!IsVectorFull, IsVectorFull
<1>3. /\ Session!ResponseKind(m.ci) = ResponseKind(m.ci)
      /\ Session!SideNumber(pass[c], m.ci) = SideNumber(pass[c], m.ci)
      /\ Session!PositionKinds = PositionKinds
  BY DEF Session!ResponseKind, ResponseKind, Session!CommandCode, CommandCode,
         Session!SideNumber, SideNumber, Session!Sides, Sides,
         Session!PositionKinds, PositionKinds
<1>4. \A vec : Session!HandleResponse(c, m.ci, vec) <=> HandleResponse(c, m.ci, vec)
  BY <1>3 DEF Session!HandleResponse, HandleResponse, Session!HandleImage, HandleImage,
              Session!WritePositionData, WritePositionData
<1>5. \A left : Session!ContinueOrReturn(c, left) <=> ContinueOrReturn(c, left)
  BY DEF Session!ContinueOrReturn, ContinueOrReturn
<1> QED
  BY <1>1, <1>2, <1>4, <1>5
     DEF Session!KeepChunk, KeepChunk, Session!CompleteResponse, CompleteResponse

(* A message on its way is not one that is still to be sent. *)
LEMMA SentIsNotUnsent ==
  ASSUME RobotInv, NEW m \in net PROVE m \notin Unsent
<1> SUFFICES ASSUME m \in Unsent PROVE FALSE
  OBVIOUS
<1>1. /\ stage = "send"
      /\ m \in SendResponse(bodyLen, sendable) \ SendResponse(bodyLen, sent)
  BY DEF Unsent
<1>2. bodyLen \in Nat \ {0} /\ sent \in Nat /\ sendable \in Nat /\ sent <= sendable
  BY <1>1, NumMessagesType DEF RobotInv, RobotTypeOK, StageInv
<1>3. /\ m.to = request.from /\ m.data.pass = request.pass /\ m.ci = commandIndex
      /\ m.seq \in sent..(sendable - 1)
  BY <1>1, <1>2, SentMessages, MessagesInOrder
<1>4. server = "serve"
  <2>1. server # "recv" /\ server \in {"recv", "serve", "down"}
    BY <1>1 DEF RobotInv, RobotTypeOK, SharedTypes
  <2>2. server # "down"
    BY <1>1 DEF RobotInv, StageInv
  <2> QED
    BY <2>1, <2>2
<1> QED
  BY <1>2, <1>3, <1>4 DEF RobotInv, OnceInv, SharedTypes

LEMMA SharedStepMaps ==
  ASSUME RobotInv, SharedStep
  PROVE  Session!Next
<1>1. UNCHANGED robotVars
  BY DEF SharedStep
<1>2. Unsent' = Unsent
  BY SharedStepUnsent DEF RobotInv
<1>3. /\ Session!clientVars = clientVars /\ Session!clientVars' = clientVars'
  BY DEF Session!clientVars, clientVars
<1>4. ASSUME UNCHANGED serverVars
      PROVE  UNCHANGED <<AbsServer, request, CommandStart, AbsCommandIndex, AbsMotion>>
  BY <1>1, <1>4 DEF AbsServer, CommandStart, AbsCommandIndex, AbsMotion, Committed,
     Command, MoreCommands, NumMessages, serverVars, robotVars
<1>5. ASSUME NEW c \in Clients, StartPass(c) PROVE Session!StartPass(c)
  <2>1. UNCHANGED serverVars /\ net' = net
    BY <1>5 DEF StartPass
  <2>2. AbsNet' = AbsNet
    BY <1>2, <2>1 DEF AbsNet
  <2> QED
    BY <1>4, <1>5, <2>1, <2>2, SameOperators
       DEF StartPass, Session!StartPass, Session!serverVars
<1>6. ASSUME NEW c \in Clients, Receive(c) PROVE Session!Receive(c)
  <2>1. PICK m \in net :
          /\ pc[c] = "parse" /\ m.to = c
          /\ Deliver(m) /\ (KeepChunk(c, m) \/ CompleteResponse(c, m))
          /\ UNCHANGED <<robotIDLen, serverVars, requests, losses>>
    BY <1>6 DEF Receive
  <2>2. m \in AbsNet /\ m \notin Unsent
    BY <2>1, SentIsNotUnsent DEF AbsNet
  <2>3. Session!Deliver(m)
    BY <1>2, <2>1, <2>2 DEF Deliver, Session!Deliver, AbsNet
  <2>4. UNCHANGED Session!serverVars
    BY <1>4, <2>1 DEF Session!serverVars
  <2> QED
    BY <2>1, <2>2, <2>3, <2>4, SameClient DEF Session!Receive
<1>7. ASSUME NEW c \in Clients, RequestFails(c) \/ HandleFails(c) \/ RecvFails(c)
      PROVE  Session!RequestFails(c) \/ Session!HandleFails(c) \/ Session!RecvFails(c)
  <2>1. UNCHANGED serverVars
    BY <1>7 DEF RequestFails, HandleFails, RecvFails
  <2>2. UNCHANGED Session!serverVars
    BY <1>4, <2>1 DEF Session!serverVars
  <2>3. CASE RequestFails(c)
    <3>1. AbsNet' = AbsNet
      BY <1>2, <2>3 DEF AbsNet, RequestFails, netVars
    <3> QED
      BY <2>2, <2>3, <3>1
         DEF RequestFails, Session!RequestFails, Session!netVars, netVars
  <2>4. CASE RecvFails(c)
    <3>1. AbsNet' = AbsNet
      BY <1>2, <2>4 DEF AbsNet, RecvFails, netVars
    <3>2. AbsServer = "down"
      BY <2>4 DEF RobotInv, StageInv, AbsServer, RecvFails
    <3> QED
      BY <2>2, <2>4, <3>1, <3>2
         DEF RecvFails, Session!RecvFails, Session!netVars, netVars
  <2>5. CASE HandleFails(c)
    <3> DEFINE Handled(m) ==
          LET kind == ResponseKind(m.ci)
              side == SideNumber(pass[c], m.ci)
          IN  /\ kind \in ClientFailures
              /\ pc[c] = "parse"
              /\ m.to = c
              /\ IsVectorFull(Store(responses[c][m.ci], m))
              /\ pc' = [pc EXCEPT ![c] = "quit"]
              /\ \/ UNCHANGED positionFile
                 \/ /\ kind \in PositionKinds /\ ~positionFileWritten[c][side]
                    /\ positionFile' = [positionFile EXCEPT ![c][side] = {}]
              /\ UNCHANGED <<robotIDLen, pass, numCommands, responses,
                             positionFileWritten, imageFile, answered,
                             requests, losses>>
    <3>1. PICK m \in net : Deliver(m) /\ Handled(m)
      BY <2>5 DEF HandleFails
    <3>2. m \in AbsNet /\ m \notin Unsent
      BY SentIsNotUnsent DEF AbsNet
    <3>3. Session!Deliver(m)
      BY <1>2, <3>1, <3>2 DEF Deliver, Session!Deliver, AbsNet
    <3>4. Session!IsVectorFull(Session!Store(responses[c][m.ci], m))
      <4>1. Session!Store(responses[c][m.ci], m) = Store(responses[c][m.ci], m)
        BY SameOperators DEF Session!Store, Store
      <4> QED
        BY <3>1, <4>1, SameOperators DEF Session!IsVectorFull, IsVectorFull
    <3>5. /\ Session!ResponseKind(m.ci) = ResponseKind(m.ci)
          /\ Session!SideNumber(pass[c], m.ci) = SideNumber(pass[c], m.ci)
          /\ Session!PositionKinds = PositionKinds
      BY DEF Session!ResponseKind, ResponseKind, Session!CommandCode, CommandCode,
             Session!SideNumber, SideNumber, Session!Sides, Sides,
             Session!PositionKinds, PositionKinds
    <3>6. Session!HandleFails(c)
      BY <2>2, <3>1, <3>2, <3>3, <3>4, <3>5, Zenon DEF Session!HandleFails
    <3> QED
      BY <3>6
  <2> QED
    BY <1>7, <2>3, <2>4, <2>5
<1>8. ASSUME ReceiveRequest PROVE Session!ReceiveRequest
  <2>1. stage = "next" /\ stage' = "next" /\ net' = net
    BY <1>1, <1>8 DEF ReceiveRequest, RobotInv, RobotTypeOK, robotVars
  <2> QED
    BY <1>3, <1>8, <2>1
       DEF ReceiveRequest, Session!ReceiveRequest, AbsServer, CommandStart,
           AbsCommandIndex, AbsMotion, AbsNet, Unsent, Committed
<1>9. ASSUME RefuseCommand, stage = "next" PROVE Session!RefuseCommand
  <2>1. /\ server = "serve" /\ server' = "down" /\ ~Usable /\ stage' = "next"
        /\ UNCHANGED <<request, position, commandIndex, motion, netVars, clientVars>>
    BY <1>1, <1>9 DEF RefuseCommand, robotVars
  <2>2. ~Session!Usable
    BY <1>9, SameOperators DEF RefuseCommand, Usable, Session!Usable, Session!Command,
       Command, AbsCommandIndex, Committed, CommandStart
  <2> QED
    BY <1>3, <1>9, <2>1, <2>2
       DEF Session!RefuseCommand, Session!netVars, netVars, AbsServer, CommandStart,
           AbsCommandIndex, AbsMotion, AbsNet, Unsent, Committed
<1>10. ASSUME ServerStops PROVE Session!ServerStops
  <2>1. stage = "next" /\ stage' = "next"
    BY <1>1, <1>10 DEF ServerStops, RobotInv, RobotTypeOK, robotVars
  <2> QED
    BY <1>3, <1>10, <2>1
       DEF ServerStops, Session!ServerStops, Session!netVars, netVars, AbsServer,
           CommandStart, AbsCommandIndex, AbsMotion, AbsNet, Unsent, Committed
<1>11. ASSUME Lose PROVE Session!Lose
  <2>1. UNCHANGED Session!serverVars
    BY <1>4, <1>11 DEF Lose, Session!serverVars
  <2>2. CASE \E m \in net : net' = net \ {m} /\ UNCHANGED requests
    <3>1. PICK m \in net : net' = net \ {m} /\ UNCHANGED requests
      BY <2>2
    <3>2. m \in AbsNet /\ AbsNet' = AbsNet \ {m}
      BY <1>2, <3>1, SentIsNotUnsent DEF AbsNet
    <3> QED
      BY <1>3, <1>11, <2>1, <3>1, <3>2 DEF Lose, Session!Lose
  <2>3. CASE \E r \in requests : requests' = requests \ {r} /\ UNCHANGED net
    <3>1. AbsNet' = AbsNet
      BY <1>2, <2>3 DEF AbsNet
    <3> QED
      BY <1>3, <1>11, <2>1, <2>3, <3>1 DEF Lose, Session!Lose
  <2> QED
    BY <1>11, <2>2, <2>3 DEF Lose
<1>12. ASSUME Discard PROVE Session!Discard
  <2>1. PICK m \in net : pc[m.to] \in {"done", "quit"} /\ net' = net \ {m}
    BY <1>12 DEF Discard
  <2>2. m \in AbsNet /\ AbsNet' = AbsNet \ {m}
    BY <1>2, <2>1, SentIsNotUnsent DEF AbsNet
  <2> QED
    BY <1>3, <1>4, <1>12, <2>1, <2>2 DEF Discard, Session!Discard, Session!serverVars
<1>13. ASSUME Terminated PROVE Session!Terminated
  <2>1. stage = "next"
    BY <1>13 DEF Terminated, RobotInv, RobotTypeOK
  <2>2. UNCHANGED <<serverVars, netVars, clientVars>> /\ server = "recv"
    BY <1>13 DEF Terminated, vars
  <2>3. AbsServer = "recv" /\ AbsNet = net /\ AbsNet' = AbsNet
    BY <1>2, <2>1, <2>2 DEF AbsServer, AbsNet, Unsent, netVars
  <2> QED
    BY <1>3, <1>4, <1>13, <2>2, <2>3
       DEF Terminated, Session!Terminated, Session!vars, Session!serverVars,
           Session!netVars, netVars
<1> QED
  BY <1>5, <1>6, <1>7, <1>8, <1>9, <1>10, <1>11, <1>12, <1>13
     DEF SharedStep, ClientStep, Session!Next, Session!ClientStep, Session!ServerStep

(***************************************************************************)
(* RobotServer implements PolygonSession: to the clients, carrying out a   *)
(* command is one step, at whatever call it fails and whatever they do in  *)
(* the meantime.                                                           *)
(***************************************************************************)
THEOREM RobotImplementsSession == ASSUME NoEmptyBody PROVE RobotSpec => ImplementsSession
<1>1. RobotInit => Session!Init
  BY InitMaps
<1>2. RobotInv /\ [RobotNext]_allVars => [Session!Next]_Session!vars
  <2> SUFFICES ASSUME RobotInv, [RobotNext]_allVars
               PROVE  Session!Next \/ UNCHANGED Session!vars
    OBVIOUS
  <2>1. CASE ServeStep
    BY <2>1, ConnectStutters, WriteRequestStutters, SendMessageStutters, SendLastStutters,
       SendFailsStutters, CallFails, HeadlessSkips, AnswerEnds
       DEF ServeStep, Session!Next, Session!ServerStep
  <2>2. CASE SharedStep
    BY <2>2, SharedStepMaps
  <2>3. CASE UNCHANGED allVars
    <3>1. Unsent' = Unsent
      BY <2>3, UnsentSame DEF allVars, robotVars, vars, serverVars
    <3> QED
      BY <2>3, <3>1, SameAbstractVars
         DEF allVars, robotVars, vars, serverVars, netVars, AbsServer, CommandStart,
             AbsCommandIndex, AbsMotion, AbsNet, Committed, Command, MoreCommands,
             NumMessages
  <2> QED
    BY <2>1, <2>2, <2>3 DEF RobotNext
<1> QED
  BY <1>1, <1>2, ServerCarriesOn, PTL DEF RobotSpec, ImplementsSession, Session!Spec
=============================================================================
