--------------------------- MODULE FilesInvariant ----------------------------
(***************************************************************************)
(* The inductive invariant behind the theorems about the client's files,   *)
(* on top of SessionInv: what a vector of responses and the messages still *)
(* to come hold of an answer, and what the files hold of the answers       *)
(* handled so far.                                                         *)
(***************************************************************************)
EXTENDS SessionInvariant

-----------------------------------------------------------------------------
(***************************************************************************)
(* The answer to command ci of pass p, if it has len bytes.                *)
(***************************************************************************)
Piece(p, ci, len, i) ==
  IF MessageBytes(len, i) = 0 THEN Empty
  ELSE [pass |-> p, ci |-> ci, len |-> len,
        lo |-> i * PayloadSize, hi |-> i * PayloadSize + MessageBytes(len, i)]

(* Nothing of it is stored or on its way. *)
Untouched(c, ci) ==
  /\ responses[c][ci] = <<>>
  /\ \A m \in net : m.to # c \/ m.ci # ci

(* All that is on its way or stored belongs to it and is in its place. *)
Fits(c, ci, len) ==
  /\ \A m \in net : m.to = c /\ m.ci = ci =>
       m.num = NumMessages(len) /\ m.data = Piece(pass[c], ci, len, m.seq)
  /\ responses[c][ci] # <<>> =>
       /\ Len(responses[c][ci]) = NumMessages(len)
       /\ \A j \in 1..NumMessages(len) :
            responses[c][ci][j] \in {Empty, Piece(pass[c], ci, len, j - 1)}

(* All of it is on its way or stored. *)
Complete(c, ci, len) ==
  \A j \in 1..NumMessages(len) :
    \/ \E m \in net : m.to = c /\ m.ci = ci /\ m.seq = j - 1
    \/ responses[c][ci] # <<>> /\ responses[c][ci][j] # Empty

(* The server has sent the answer to command ci of the client's pass. *)
Sent(c, ci) == request.from = c /\ request.pass = pass[c] /\ ci < commandIndex

Pending(c, ci) == losses = 0 /\ Sent(c, ci) /\ ci \notin answered[c]

(***************************************************************************)
(* What a client has and will get for a command is part of one answer, and *)
(* all of it if nothing is lost and no answer is empty; a vector it keeps  *)
(* still has a hole.                                                       *)
(***************************************************************************)
Answering(c, ci) ==
  \/ Untouched(c, ci) /\ (NoEmptyBody => ~Pending(c, ci))
  \/ \E len \in BodyLengths[CommandAt(ci)] :
       /\ Fits(c, ci, len)
       /\ NoEmptyBody /\ Pending(c, ci) => Complete(c, ci, len)

AnswerInv ==
  \A c \in Clients : pc[c] = "parse" =>
    \A ci \in Indices :
      /\ Answering(c, ci)
      /\ responses[c][ci] # <<>> => ~IsVectorFull(responses[c][ci])

(***************************************************************************)
(* The server's last request is of no later pass than its client, and      *)
(* commandIndex, which keeps its value until the next, one of its commands.*)
(***************************************************************************)
LatestInv ==
  LET c == request.from
  IN  /\ request.pass <= pass[c]
      /\ commandIndex < NumCommands(request.pass)
      /\ pc[c] = "send" /\ request.pass = pass[c] => commandIndex = 0

-----------------------------------------------------------------------------
(***************************************************************************)
(* positionFileWritten tells this pass's lines from an earlier pass's, and *)
(* a line of this pass is counted as answered.                             *)
(***************************************************************************)
WrittenInv ==
  \A c \in Clients : \A k \in Files : \A line \in positionFile[c][k] :
    LET chunk == line[2][1]
    IN  /\ chunk.pass \in 1..pass[c]
        /\ pc[c] = "send" => chunk.pass < pass[c]
        /\ pc[c] = "parse" =>
             /\ positionFileWritten[c][k] <=> chunk.pass = pass[c]
             /\ positionFileWritten[c][k] => chunk.ci \in answered[c]

(* What was recorded for command i of pass p is in its file. *)
Recorded(c, p, i) ==
  LET k == FileNumber(p, i)
  IN  /\ CommandAt(i) = "IMAGE" => imageFile[c][k] # <<>>
      /\ CommandAt(i) \in PositionKinds =>
           \E line \in positionFile[c][k] : line[1] = CommandAt(i)

(***************************************************************************)
(* What has been answered in this pass is recorded, and what no later pass *)
(* overwrites stays recorded: all but the last corner of the first pass.   *)
(***************************************************************************)
RecordedInv ==
  \A c \in Clients :
    /\ pc[c] = "parse" => \A i \in answered[c] :
         /\ Recorded(c, pass[c], i)
         /\ CommandAt(i) \in PositionKinds =>
              positionFileWritten[c][FileNumber(pass[c], i)]
    /\ pass[c] = 2 => \A i \in 0..LastServed(1) :
         Waypoint[i] < N => Recorded(c, 1, i)
    /\ pc[c] = "done" =>
         pass[c] = 2 /\ \A i \in 0..LastServed(2) : Recorded(c, 2, i)

FilesInv ==
  /\ AnswerInv /\ LatestInv
  /\ FilesFaithful /\ OneCornerPerFile /\ WrittenInv /\ RecordedInv
=============================================================================
