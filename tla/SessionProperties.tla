-------------------------- MODULE SessionProperties ---------------------------
(***************************************************************************)
(* What PolygonSession should satisfy.  The last section states what       *)
(* comments and documents of the repository say of the programs; the       *)
(* README tells which of these statements the code contradicts, and when.  *)
(***************************************************************************)
EXTENDS PolygonSession

(***************************************************************************)
(* Types of the variables, and the bounds of the vectors and arrays they   *)
(* model: a command index addresses responses, a file number addresses     *)
(* positionFileWritten.                                                    *)
(***************************************************************************)
TypeOK ==
  /\ robotIDLen \in [Clients -> RobotIDLens]
  /\ pass \in [Clients -> Pass]
  /\ pc \in [Clients -> {"send", "parse", "done", "quit"}]
  /\ numCommands \in [Clients -> Int]
  /\ responses \in [Clients -> [Indices -> Seq(Chunk)]]
  /\ positionFileWritten \in [Clients -> [Files -> BOOLEAN]]
  /\ imageFile \in [Clients -> [Files -> Seq(Chunk)]]
  /\ positionFile \in [Clients -> [Files -> SUBSET (PositionKinds \X Seq(Chunk))]]
  /\ answered \in [Clients -> SUBSET Indices]
  /\ server \in {"recv", "serve", "down"}
  /\ request \in Request
  /\ position \in Nat
  /\ commandIndex \in Nat
  /\ motion \in {"still", "moving", "turning"}
  /\ requests \subseteq Request
  /\ net \subseteq Message
  /\ \A m \in net : m.ci \in Indices /\ m.seq < m.num
  /\ losses \in Nat
  /\ dups \in Nat

-----------------------------------------------------------------------------
(***************************************************************************)
(* The headers do not tell one pass from the other, so the client takes    *)
(* any response for one of the pass it is in.  No response is on its way   *)
(* to a client that is between its passes or done, and one that is answers *)
(* the pass the client is in, or quit in, and a command not answered yet.  *)
(***************************************************************************)
NoStaleResponses ==
  \A m \in net :
    /\ pc[m.to] \in {"parse", "quit"}
    /\ m.ci \notin answered[m.to]
    /\ m.data # Empty => m.data.pass = pass[m.to]

(***************************************************************************)
(* The server only works for a client that waits for that very pass, or    *)
(* quit in it: when parseResponseSequence returns, the server has left its *)
(* command loop.                                                           *)
(***************************************************************************)
ServesCurrentPass ==
  server = "serve" =>
    /\ pc[request.from] \in {"parse", "quit"}
    /\ pass[request.from] = request.pass

(***************************************************************************)
(* parseResponseSequence counts numCommands down once per command: what is *)
(* left is the number of commands of the pass not answered, and it returns *)
(* with just the last command, the STOP that was never sent, unanswered.   *)
(***************************************************************************)
AnswersCounted ==
  \A c \in Clients :
    /\ pc[c] = "parse" =>
         /\ numCommands[c] = NumCommands(pass[c]) - Cardinality(answered[c])
         /\ numCommands[c] > 1
    /\ pc[c] \in {"send", "done"} => numCommands[c] \in {0, 1}

(***************************************************************************)
(* A response none of whose messages is in the network any more has been   *)
(* handled, provided that none is lost and each is sent: isVectorFull does *)
(* not miss a complete response.                                           *)
(***************************************************************************)
ArrivedIsHandled ==
  \A c \in Clients :
    pc[c] = "parse" /\ request.from = c /\ request.pass = pass[c]
                    /\ requests = {} /\ losses = 0 =>
      \A ci \in 0..(commandIndex - 1) :
        ci \in answered[c] \/ \E m \in net : m.to = c /\ m.ci = ci

-----------------------------------------------------------------------------
(* Number of MOVE commands before command i: the corner it is issued at. *)
Waypoint ==
  [i \in Indices |-> Cardinality({j \in 0..(i - 1) : CommandAt(j) = "MOVE"})]

(* File number of what is recorded at a corner of a pass. *)
FileNumber(p, i) == Waypoint[i] + (IF p = 1 THEN 0 ELSE N)

(* The chunks are all the bytes of one answer, in order. *)
Intact(vec) ==
  /\ \A j \in 1..Len(vec) :
       /\ vec[j] = [vec[1] EXCEPT !.lo = vec[j].lo, !.hi = vec[j].hi]
       /\ vec[j].lo = IF j = 1 THEN 0 ELSE vec[j - 1].hi
  /\ vec[Len(vec)].hi = vec[1].len

(* vec is the whole answer to a command of this kind at the corner of file k. *)
Belongs(vec, kind, k) ==
  /\ Intact(vec)
  /\ CommandAt(vec[1].ci) = kind
  /\ FileNumber(vec[1].pass, vec[1].ci) = k

(***************************************************************************)
(* Every file holds, complete and in order, an answer to a command of the  *)
(* right kind issued at the corner its number stands for: the client's     *)
(* arithmetic on command indices agrees with the sequence it sent, and the *)
(* chunks of sendResponse are put together again however they arrive.      *)
(***************************************************************************)
FilesFaithful ==
  \A c \in Clients : \A k \in Files :
    /\ imageFile[c][k] # <<>> => Belongs(imageFile[c][k], "IMAGE", k)
    /\ \A line \in positionFile[c][k] : Belongs(line[2], line[1], k)

(***************************************************************************)
(* The lines of a position file come from one corner of one pass, at most  *)
(* one of each kind: the first write of a pass clears what an earlier pass *)
(* left under the same name.                                               *)
(***************************************************************************)
OneCornerPerFile ==
  \A c \in Clients : \A k \in Files :
    \A a, b \in positionFile[c][k] :
      /\ a[2][1].pass = b[2][1].pass
      /\ a[1] = b[1] => a = b

(***************************************************************************)
(* A client that is done has an image and the three position lines under   *)
(* each of the 2N file numbers that are used.                              *)
(***************************************************************************)
DoneMeansComplete ==
  \A c \in Clients : pc[c] = "done" =>
    \A k \in 0..(2 * N - 1) :
      /\ imageFile[c][k] # <<>>
      /\ {line[1] : line \in positionFile[c][k]} = PositionKinds

(***************************************************************************)
(* From the first corner on, the robot stands still while a screenshot is  *)
(* taken, whoever asked for what before.                                   *)
(***************************************************************************)
ScreenshotAtRest ==
  server = "serve" /\ commandIndex >= 4 /\ ResponseKind(commandIndex) # "none"
    => motion = "still"

(***************************************************************************)
(* parseResponseSequence counts responses, not commands, so a response     *)
(* delivered twice may count for one that has not come, of this pass or of *)
(* the one before; but it never returns with more commands unanswered than *)
(* messages were delivered twice.                                          *)
(***************************************************************************)
ShortOnlyByDuplicates ==
  [][\A c \in Clients :
       pc[c] = "parse" /\ pc'[c] \in {"send", "done"} =>
         Cardinality(answered'[c]) + dups' >= NumCommands(pass[c]) - 1]_vars

(***************************************************************************)
(* Over a network that loses nothing, with a robot that answers, every     *)
(* client traces both polygons, however many share the server.             *)
(***************************************************************************)
EveryClientDone == \A c \in Clients : <>(pc[c] = "done")

-----------------------------------------------------------------------------
(***************************************************************************)
(* clientParseResponseSequence.cpp:158: the file numbers of the second     *)
(* pass "compensate for the first loop", so no image is written over.      *)
(***************************************************************************)
ImagesKept ==
  [][\A c \in Clients : \A k \in Files :
       imageFile[c][k] # <<>> => imageFile'[c][k] = imageFile[c][k]]_vars

(***************************************************************************)
(* Command Length Notes.txt:22-23: each turn is followed by a STOP, so the *)
(* robot stands still when the server waits for the next request.          *)
(***************************************************************************)
RobotStopped == server = "recv" => motion = "still"

(***************************************************************************)
(* README:61-63: the client needs to know that the job got done, so there  *)
(* are timeouts on waiting for responses, after which it ends in an error. *)
(***************************************************************************)
EveryClientEnds == \A c \in Clients : <>(pc[c] \in {"done", "quit"})
=============================================================================
