--------------------------- MODULE PolygonSession ----------------------------
(***************************************************************************)
(* robotClient, robotServer and the UDP datagrams between them.            *)
(*                                                                         *)
(* A client traces two polygons, one pass after the other.  In a pass it   *)
(* sends all its commands in one datagram and then sorts the numbered      *)
(* responses into files until it has counted enough of them.  The server   *)
(* is one thread: it takes one request, carries its commands out one by    *)
(* one with the robot, sends each response in chunks of 984 bytes to the   *)
(* address of the last request it received, and takes the next request.    *)
(*                                                                         *)
(* The ID both sides put in their headers is 0 in every datagram of every  *)
(* client and pass, so the test on it always succeeds and the model leaves *)
(* the field out.  What a chunk carries is described by the bytes it holds *)
(* (Chunk); neither program reads that description.                        *)
(***************************************************************************)
EXTENDS CommandSequence, FiniteSets

CONSTANTS
  Clients,      (* running instances of robotClient                         *)
  RobotIDLens,  (* lengths of the robot ID, a client's third argument       *)
  BodyLengths,  (* by kind of command, the lengths its response may have    *)
  Headless,     (* commands whose answer may lack the end of its header     *)
  MaxInFlight,  (* bound: responses in the network at a time                *)
  MaxLoss,      (* bound: datagrams the network loses                       *)
  MaxSkip,      (* bound: answers the server does not send                  *)
  MaxDup,       (* bound: responses the network delivers once more          *)
  MayFail,      (* whether the robot's connections and the server may fail  *)
  ClientFailures (* where a client may: "send", and kinds it handles        *)

ASSUME SessionAssumption ==
  /\ BodyLengths \in [Kinds -> SUBSET Nat]
  /\ 0 \notin BodyLengths["IMAGE"]   (* encodeMessage adds at least a byte *)
  /\ \A i \in Headless :            (* the server does not survive others *)
       i \in Nat /\ CommandAt(i) # "IMAGE"
  /\ RobotIDLens \subseteq Nat
  /\ MaxInFlight \in Nat
  /\ MaxLoss \in Nat
  /\ MaxSkip \in Nat
  /\ MaxDup \in Nat
  /\ MayFail \in BOOLEAN
  /\ ClientFailures \subseteq {"send", "IMAGE"} \cup PositionKinds

(***************************************************************************)
(* The commands of a pass fit one datagram, and some of them survive.      *)
(***************************************************************************)
ASSUME OneDatagramAssumption ==
  \A p \in Pass : \A idLen \in RobotIDLens :
    SegmentCount(p, idLen) = 0 /\ SentBytes(p, idLen) > 0

VARIABLES
  robotIDLen,          (* client: strlen(robotID)                          *)
  pass,                (* client: the polygon it is tracing                *)
  pc,                  (* client: "send", "parse", "done" or "quit"        *)
  numCommands,         (* client: responses to wait for, plus one          *)
  responses,           (* client: by command index, the chunks received    *)
  positionFileWritten, (* client: position files written to in this pass   *)
  imageFile,           (* client: contents of image-<k>.jpg                *)
  positionFile,        (* client: lines of position-<k>.txt                *)
  answered,            (* history: command indices handled in this pass    *)
  server,              (* "recv", "serve" or "down"                        *)
  request,             (* server: the request received last                *)
  position,            (* server: offset of the next command in it         *)
  commandIndex,        (* server: number of the next command               *)
  motion,              (* robot: what the last /twist request asked for    *)
  requests,            (* network: requests on their way                   *)
  net,                 (* network: response datagrams on their way         *)
  losses,              (* how many were lost or, if responses, never sent  *)
  dups                 (* network: how many were delivered again           *)

clientVars == <<robotIDLen, pass, pc, numCommands, responses,
                positionFileWritten, imageFile, positionFile, answered>>
serverVars == <<server, request, position, commandIndex, motion>>
netVars == <<requests, net, losses, dups>>
vars == <<clientVars, serverVars, netVars>>

-----------------------------------------------------------------------------
(***************************************************************************)
(* Data.  A chunk is bytes lo..hi-1 of the len bytes that answer command   *)
(* ci of a pass; all empty strings are equal.                              *)
(***************************************************************************)
Chunk == [pass : Pass \cup {0}, ci : Nat, len : Nat, lo : Nat, hi : Nat]

Empty == [pass |-> 0, ci |-> 0, len |-> 0, lo |-> 0, hi |-> 0]

Message == [to : Clients, ci : Nat, num : Nat \ {0}, seq : Nat, data : Chunk]

Request == [from : Clients, pass : Pass, bytes : Nat]

Indices == 0..(NumCommands(1) - 1)

Files == 0..(MaxFiles - 1)

-----------------------------------------------------------------------------
(***************************************************************************)
(* The client.                                                             *)
(***************************************************************************)
(* sendCommandSequence, then parseResponseSequence up to its loop. *)
StartPass(c) ==
  /\ pc[c] = "send"
  /\ requests' = requests \cup
       {[from |-> c, pass |-> pass[c],
         bytes |-> SentBytes(pass[c], robotIDLen[c])]}
  /\ numCommands' = [numCommands EXCEPT ![c] = NumCommands(pass[c])]
  /\ positionFileWritten' =
       [positionFileWritten EXCEPT ![c] = [k \in Files |-> FALSE]]
  /\ answered' = [answered EXCEPT ![c] = {}]
  /\ pc' = [pc EXCEPT ![c] = "parse"]
  /\ UNCHANGED <<robotIDLen, pass, responses, imageFile, positionFile, net,
                 losses, dups, serverVars>>

(* send() fails or is short: quit(). *)
RequestFails(c) ==
  /\ "send" \in ClientFailures
  /\ pc[c] = "send"
  /\ pc' = [pc EXCEPT ![c] = "quit"]
  /\ UNCHANGED <<robotIDLen, pass, numCommands, responses, positionFileWritten,
                 imageFile, positionFile, answered, serverVars, netVars>>

(* Mutant: room for the messages so far only, not for all of the response. *)
StoreAsTheyCome(vec, m) ==
  [i \in 1..(IF Len(vec) < m.seq + 1 THEN m.seq + 1 ELSE Len(vec)) |->
     IF i = m.seq + 1 THEN m.data ELSE IF i <= Len(vec) THEN vec[i] ELSE Empty]

(* resizeUpTo, then the assignment to responses[commandIndex][messageIndex]. *)
Store(vec, m) ==
  LET size == IF Len(vec) < m.num THEN m.num ELSE Len(vec)
  IN  [i \in 1..size |-> IF i = m.seq + 1 THEN m.data
                         ELSE IF i <= Len(vec) THEN vec[i] ELSE Empty]

(* Mutant: the last message stands for the whole response. *)
LastIsFull(vec) == vec[Len(vec)] # Empty

IsVectorFull(vec) == \A i \in 1..Len(vec) : vec[i] # Empty

HandleImage(c, side, vec) ==
  /\ imageFile' = [imageFile EXCEPT ![c][side] = vec]
  /\ UNCHANGED <<positionFile, positionFileWritten>>

(* Mutant: the first write of a pass does not clear the file. *)
AppendPositionData(c, kind, side, vec) ==
  /\ positionFile' = [positionFile EXCEPT ![c][side] = @ \cup {<<kind, vec>>}]
  /\ positionFileWritten' = [positionFileWritten EXCEPT ![c][side] = TRUE]
  /\ UNCHANGED imageFile

WritePositionData(c, kind, side, vec) ==
  /\ positionFile' =
       [positionFile EXCEPT ![c][side] =
          (IF positionFileWritten[c][side] THEN @ ELSE {}) \cup {<<kind, vec>>}]
  /\ positionFileWritten' = [positionFileWritten EXCEPT ![c][side] = TRUE]
  /\ UNCHANGED imageFile

HandleResponse(c, ci, vec) ==
  LET kind == ResponseKind(ci)
      side == SideNumber(pass[c], ci)
  IN  \/ kind = "IMAGE" /\ HandleImage(c, side, vec)
      \/ kind \in PositionKinds /\ WritePositionData(c, kind, side, vec)
      \/ kind = "none"
         /\ UNCHANGED <<imageFile, positionFile, positionFileWritten>>

(* Mutant: the loop ends one response too early. *)
ReturnEarly(c, left) ==
  \/ left > 2 /\ UNCHANGED <<pc, pass>>
  \/ /\ left <= 2
     /\ pc' = [pc EXCEPT ![c] = IF pass[c] = 1 THEN "send" ELSE "done"]
     /\ pass' = [pass EXCEPT ![c] = 2]

(* Mutant: the loop waits for the answer to the last command, too. *)
ReturnLate(c, left) ==
  \/ left > 0 /\ UNCHANGED <<pc, pass>>
  \/ /\ left <= 0
     /\ pc' = [pc EXCEPT ![c] = IF pass[c] = 1 THEN "send" ELSE "done"]
     /\ pass' = [pass EXCEPT ![c] = 2]

(* The loop test, and what main does when parseResponseSequence returns. *)
ContinueOrReturn(c, left) ==
  \/ left > 1 /\ UNCHANGED <<pc, pass>>
  \/ /\ left <= 1 /\ pass[c] = 1
     /\ pc' = [pc EXCEPT ![c] = "send"]
     /\ pass' = [pass EXCEPT ![c] = 2]
  \/ /\ left <= 1 /\ pass[c] = 2
     /\ pc' = [pc EXCEPT ![c] = "done"]
     /\ UNCHANGED pass

(* One iteration of the receive loop: the response is not complete yet. *)
KeepChunk(c, m) ==
  LET vec == Store(responses[c][m.ci], m)
  IN  /\ ~IsVectorFull(vec)
      /\ responses' = [responses EXCEPT ![c][m.ci] = vec]
      /\ UNCHANGED <<pass, pc, numCommands, positionFileWritten, imageFile,
                     positionFile, answered>>

(* Mutant: the chunks stay in responses when they have been handled. *)
CompleteAndKeep(c, m) ==
  LET vec == Store(responses[c][m.ci], m)
  IN  /\ IsVectorFull(vec)
      /\ HandleResponse(c, m.ci, vec)
      /\ responses' = [responses EXCEPT ![c][m.ci] = vec]
      /\ numCommands' = [numCommands EXCEPT ![c] = @ - 1]
      /\ answered' = [answered EXCEPT ![c] = @ \cup {m.ci}]
      /\ ContinueOrReturn(c, numCommands[c] - 1)

(* One iteration of the receive loop: this chunk completes the response. *)
CompleteResponse(c, m) ==
  LET vec == Store(responses[c][m.ci], m)
  IN  /\ IsVectorFull(vec)
      /\ HandleResponse(c, m.ci, vec)
      /\ responses' = [responses EXCEPT ![c][m.ci] = <<>>]
      /\ numCommands' = [numCommands EXCEPT ![c] = @ - 1]
      /\ answered' = [answered EXCEPT ![c] = @ \cup {m.ci}]
      /\ ContinueOrReturn(c, numCommands[c] - 1)

(* The network hands a response over, and may keep a copy of it. *)
Deliver(m) ==
  \/ net' = net \ {m} /\ UNCHANGED dups
  \/ dups < MaxDup /\ dups' = dups + 1 /\ UNCHANGED net

Receive(c) ==
  \E m \in net :
    /\ pc[c] = "parse"
    /\ m.to = c
    /\ Deliver(m)
    /\ KeepChunk(c, m) \/ CompleteResponse(c, m)
    /\ UNCHANGED <<robotIDLen, serverVars, requests, losses>>

(***************************************************************************)
(* The chunk completes the response, but the client does not survive       *)
(* handling it: the file cannot be opened, and appendToFile exits, or      *)
(* decodeMessage reads out of bounds.  A position file not written to in   *)
(* this pass may have been cleared before.                                 *)
(***************************************************************************)
HandleFails(c) ==
  \E m \in net :
    LET kind == ResponseKind(m.ci)
        side == SideNumber(pass[c], m.ci)
    IN
    /\ kind \in ClientFailures
    /\ pc[c] = "parse"
    /\ m.to = c
    /\ Deliver(m)
    /\ IsVectorFull(Store(responses[c][m.ci], m))
    /\ pc' = [pc EXCEPT ![c] = "quit"]
    /\ \/ UNCHANGED positionFile
       \/ /\ kind \in PositionKinds /\ ~positionFileWritten[c][side]
          /\ positionFile' = [positionFile EXCEPT ![c][side] = {}]
    /\ UNCHANGED <<robotIDLen, pass, numCommands, responses,
                   positionFileWritten, imageFile, answered, serverVars,
                   requests, losses>>

(* recv() reports that the request reached a port nobody listens on. *)
RecvFails(c) ==
  /\ pc[c] = "parse"
  /\ server = "down"
  /\ \E r \in requests : r.from = c
  /\ pc' = [pc EXCEPT ![c] = "quit"]
  /\ UNCHANGED <<robotIDLen, pass, numCommands, responses, positionFileWritten,
                 imageFile, positionFile, answered, serverVars, netVars>>

-----------------------------------------------------------------------------
(***************************************************************************)
(* The server, and the robot as the server drives it.                      *)
(***************************************************************************)
ReceiveRequest ==
  /\ server = "recv"
  /\ \E r \in requests :
       /\ request' = r
       /\ requests' = requests \ {r}
  /\ position' = 0
  /\ commandIndex' = 0
  /\ server' = "serve"
  /\ UNCHANGED <<motion, net, losses, dups, clientVars>>

Command == CommandAt(commandIndex)

(* Enough of the command arrived to find its port and build its URI. *)
Usable == request.bytes - (position + 1) >= UsableLength(Command)

PayloadSize == 1000 - 16

(* Mutant: always one message more than full ones. *)
OneMore(len) == len \div PayloadSize + 1

NumMessages(len) ==
  IF len = 0 THEN 1
  ELSE len \div PayloadSize + (IF len % PayloadSize = 0 THEN 0 ELSE 1)

(* Mutant: the last message is short even if the body fills it. *)
ShortLast(len, i) ==
  IF i = NumMessages(len) - 1 THEN len % PayloadSize ELSE PayloadSize

(* Body bytes in message i: only the last message may hold fewer. *)
MessageBytes(len, i) ==
  IF i = NumMessages(len) - 1 /\ (len % PayloadSize # 0 \/ len = 0)
  THEN len % PayloadSize ELSE PayloadSize

ResponseChunk(len, i) ==
  IF MessageBytes(len, i) = 0 THEN Empty
  ELSE [pass |-> request.pass, ci |-> commandIndex, len |-> len,
        lo |-> i * PayloadSize, hi |-> i * PayloadSize + MessageBytes(len, i)]

(* Mutant: messages are numbered from 1. *)
SendFromOne(len, k) ==
  {[to |-> request.from, ci |-> commandIndex, num |-> NumMessages(len),
    seq |-> i, data |-> ResponseChunk(len, i - 1)] : i \in 1..k}

(* The first k messages sendResponse sends for a body of len bytes. *)
SendResponse(len, k) ==
  {[to |-> request.from, ci |-> commandIndex, num |-> NumMessages(len),
    seq |-> i, data |-> ResponseChunk(len, i)] : i \in 0..(k - 1)}

(* Mutant: STOP is sent to the wrong port, and the robot goes on. *)
MotionUnstopped ==
  CASE Command = "MOVE" -> "moving"
    [] Command = "TURN" -> "turning"
    [] OTHER            -> motion

MotionAfter ==
  CASE Command = "MOVE" -> "moving"
    [] Command = "TURN" -> "turning"
    [] Command = "STOP" -> "still"
    [] OTHER            -> motion

(* Mutant: the do loop looks for the null byte alone. *)
UpToTerminator(pos) == pos # Terminator(request.pass)

(* The test of the do loop: received ends with an added null byte. *)
MoreCommands(pos) == pos < request.bytes /\ pos # Terminator(request.pass)

(* The body of the do loop, for a command the robot carries out. *)
ServeCommand ==
  /\ server = "serve"
  /\ Usable
  /\ \E len \in BodyLengths[Command] :
       /\ Cardinality(net) + NumMessages(len) <= MaxInFlight
       /\ net' = net \cup SendResponse(len, NumMessages(len))
  /\ motion' = MotionAfter
  /\ commandIndex' = commandIndex + 1
  /\ position' = position + 1 + CommandLength(Command)
  /\ server' = IF MoreCommands(position') THEN "serve" ELSE "recv"
  /\ UNCHANGED <<request, requests, losses, dups, clientVars>>

(***************************************************************************)
(* No header ends in the robot's answer, or none came: strstr() gives NULL *)
(* and httpBodyLength is what an address leaves in an int.  From -984 down *)
(* there is no message to send, and the loop goes on; else sendResponse,   *)
(* or encodeMessage, ends the server (ServeFails).                         *)
(***************************************************************************)
SkipAnswer ==
  /\ server = "serve"
  /\ Usable
  /\ commandIndex \in Headless
  /\ losses < MaxSkip
  /\ losses' = losses + 1
  /\ motion' = MotionAfter
  /\ commandIndex' = commandIndex + 1
  /\ position' = position + 1 + CommandLength(Command)
  /\ server' = IF MoreCommands(position') THEN "serve" ELSE "recv"
  /\ UNCHANGED <<request, requests, net, dups, clientVars>>

(* generateHTTPRequest gives no request, or the command has no robot port. *)
RefuseCommand ==
  /\ server = "serve"
  /\ ~Usable
  /\ server' = "down"
  /\ UNCHANGED <<request, position, commandIndex, motion, netVars, clientVars>>

(* A call of the loop body fails: quit(), after any part of the work. *)
ServeFails ==
  /\ MayFail
  /\ server = "serve"
  /\ Usable
  /\ server' = "down"
  /\ motion' \in {motion, MotionAfter}
  /\ \E len \in BodyLengths[Command] :
       \E k \in 0..(NumMessages(len) - 1) :
         /\ Cardinality(net) + k <= MaxInFlight
         /\ net' = net \cup SendResponse(len, k)
  /\ UNCHANGED <<request, position, commandIndex, requests, losses, dups,
                 clientVars>>

(* flushBuffersAndExit, or recvfrom() failing. *)
ServerStops ==
  /\ MayFail
  /\ server = "recv"
  /\ server' = "down"
  /\ UNCHANGED <<request, position, commandIndex, motion, netVars, clientVars>>

-----------------------------------------------------------------------------
(***************************************************************************)
(* The network loses a datagram.                                           *)
(***************************************************************************)
Lose ==
  /\ losses < MaxLoss
  /\ losses' = losses + 1
  /\ \/ \E m \in net : net' = net \ {m} /\ UNCHANGED requests
     \/ \E r \in requests : requests' = requests \ {r} /\ UNCHANGED net
  /\ UNCHANGED <<dups, serverVars, clientVars>>

(***************************************************************************)
(* A response arrives at the port of a client that has exited.             *)
(***************************************************************************)
Discard ==
  /\ \E m \in net : pc[m.to] \in {"done", "quit"} /\ net' = net \ {m}
  /\ UNCHANGED <<requests, losses, dups, serverVars, clientVars>>

(***************************************************************************)
(* Every client has returned from main and the server waits for others.    *)
(***************************************************************************)
Terminated ==
  /\ \A c \in Clients : pc[c] \in {"done", "quit"}
  /\ server = "recv"
  /\ requests = {} /\ net = {}
  /\ UNCHANGED vars

-----------------------------------------------------------------------------
Init ==
  /\ robotIDLen \in [Clients -> RobotIDLens]
  /\ pass = [c \in Clients |-> 1]
  /\ pc = [c \in Clients |-> "send"]
  /\ numCommands = [c \in Clients |-> 0]
  /\ responses = [c \in Clients |-> [ci \in Indices |-> <<>>]]
  /\ positionFileWritten = [c \in Clients |-> [k \in Files |-> FALSE]]
  /\ imageFile = [c \in Clients |-> [k \in Files |-> <<>>]]
  /\ positionFile = [c \in Clients |-> [k \in Files |-> {}]]
  /\ answered = [c \in Clients |-> {}]
  /\ server = "recv"
  /\ request \in [from : Clients, pass : {1}, bytes : {0}]
  /\ position = 0
  /\ commandIndex = 0
  /\ motion = "still"
  /\ requests = {}
  /\ net = {}
  /\ losses = 0
  /\ dups = 0

ClientStep(c) ==
  StartPass(c) \/ RequestFails(c) \/ Receive(c) \/ HandleFails(c) \/ RecvFails(c)

ServerStep ==
  \/ ReceiveRequest \/ ServeCommand \/ SkipAnswer \/ RefuseCommand
  \/ ServeFails \/ ServerStops

Next ==
  \/ (\E c \in Clients : ClientStep(c)) \/ ServerStep \/ Lose \/ Discard
  \/ Terminated

Spec == Init /\ [][Next]_vars

(***************************************************************************)
(* Both programs keep running while they have something to do: the client  *)
(* returns from recv() once a datagram is there, and every call the server *)
(* makes returns, its sleeps and the robot's answers included.             *)
(***************************************************************************)
Fairness ==
  /\ \A c \in Clients : WF_vars(StartPass(c)) /\ WF_vars(Receive(c))
  /\ WF_vars(ReceiveRequest)
  /\ WF_vars(ServeCommand)
  /\ WF_vars(Discard)

FairSpec == Spec /\ Fairness
=============================================================================
