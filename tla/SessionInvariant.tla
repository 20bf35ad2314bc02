--------------------------- MODULE SessionInvariant --------------------------
(***************************************************************************)
(* Inductive invariants of PolygonSession, true between any two steps and  *)
(* strong enough to be kept by every step: SessionInv if no response is    *)
(* delivered twice, SupplyInv however many are.                            *)
(***************************************************************************)
EXTENDS SessionProperties

(***************************************************************************)
(* Where command i starts in the request: what the server's position has   *)
(* to be for command number i to be the one it reads.                      *)
(***************************************************************************)
SnapshotOffset == <<0, 10, 18, 27>>

SideOffset ==
  <<0, 8 + LengthDigits, 13 + LengthDigits, 23 + LengthDigits,
    31 + LengthDigits, 40 + LengthDigits, 51 + LengthDigits, 83 + LengthDigits>>

Offset(i) ==
  IF i < 4 THEN SnapshotOffset[i + 1]
           ELSE 38 + ((i - 4) \div 8) * SideBytes + SideOffset[((i - 4) % 8) + 1]

(* The commands of a pass but the last, the STOP cut off the request. *)
LastServed(p) == NumCommands(p) - 2

Serving(c) == server = "serve" /\ request.from = c

(* The client has not stored this message yet. *)
Awaited(m) ==
  LET vec == responses[m.to][m.ci]
  IN  Len(vec) <= m.seq \/ vec[m.seq + 1] = Empty

(* Every command has an answer, and none is without a byte. *)
NoEmptyBody == \A kind \in Kinds : BodyLengths[kind] # {} /\ 0 \notin BodyLengths[kind]

-----------------------------------------------------------------------------
(***************************************************************************)
(* The server's place in the request: no request holds the last 13 bytes   *)
(* of its sequence, so the server never reaches the last command.          *)
(***************************************************************************)
PlaceInv ==
  /\ \A r \in requests : 0 < r.bytes /\ r.bytes <= Terminator(r.pass) - 12
  /\ server = "serve" =>
       /\ request.bytes <= Terminator(request.pass) - 12
       /\ position = Offset(commandIndex)
       /\ position < request.bytes
       /\ commandIndex <= LastServed(request.pass)

(***************************************************************************)
(* A request on its way is the only trace of its client's pass: nothing    *)
(* has been answered, nothing is on its way back, nothing is being served. *)
(***************************************************************************)
PendingInv ==
  \A r \in requests :
    /\ pc[r.from] \in {"parse", "quit"}
    /\ pass[r.from] = r.pass
    /\ ~Serving(r.from)
    /\ answered[r.from] = {}
    /\ \A m \in net : m.to # r.from
    /\ \A ci \in Indices : responses[r.from][ci] = <<>>
    /\ \A q \in requests : q.from = r.from => q = r

(***************************************************************************)
(* The server works for the client's current pass, and nothing it has not  *)
(* come to yet has left a trace.                                           *)
(***************************************************************************)
ServingInv ==
  server = "serve" =>
    /\ pc[request.from] \in {"parse", "quit"}
    /\ pass[request.from] = request.pass
    /\ \A m \in net : m.to = request.from => m.ci < commandIndex
    /\ \A ci \in Indices : ci >= commandIndex =>
         /\ ci \notin answered[request.from]
         /\ responses[request.from][ci] = <<>>

(***************************************************************************)
(* A response on its way is one the client waits for, if it has not quit,  *)
(* and the messages of one response agree on their number and differ in    *)
(* their place.                                                            *)
(***************************************************************************)
NetInv ==
  \A m \in net :
    /\ pc[m.to] \in {"parse", "quit"}
    /\ m.data # Empty => m.data.pass = pass[m.to]
    /\ m.ci \notin answered[m.to]
    /\ m.ci <= LastServed(pass[m.to])
    /\ Awaited(m)
    /\ \A k \in net : k.to = m.to /\ k.ci = m.ci =>
         k.num = m.num /\ (k.seq = m.seq => k = m)

(***************************************************************************)
(* The client's count, and no chunks kept of what it is not waiting for.   *)
(***************************************************************************)
Counted(c) ==
  /\ pc[c] = "parse" =>
       /\ numCommands[c] = NumCommands(pass[c]) - Cardinality(answered[c])
       /\ numCommands[c] > 1
       /\ answered[c] \subseteq 0..LastServed(pass[c])
       /\ \A ci \in Indices :
            ci \in answered[c] \/ ci > LastServed(pass[c]) =>
              responses[c][ci] = <<>>
  /\ pc[c] = "send" => \A ci \in Indices : responses[c][ci] = <<>>
  /\ pc[c] \in {"send", "done"} => numCommands[c] \in {0, 1}

CountInv == \A c \in Clients : Counted(c)

SessionInv ==
  TypeOK /\ PlaceInv /\ PendingInv /\ ServingInv /\ NetInv /\ CountInv

-----------------------------------------------------------------------------
(***************************************************************************)
(* What a network that delivers responses twice may do to the count.       *)
(* Every response the client counts has a first chunk in its first place,  *)
(* so it cannot count more responses than there are first chunks.          *)
(***************************************************************************)
(* Client c has sent the request of pass p, or quit as it could not. *)
Started(c, p) == p < pass[c] \/ (p = pass[c] /\ pc[c] # "send")

(* Each pass is asked for once, and is not served while it is asked for. *)
RequestInv ==
  /\ \A r \in requests :
       /\ Started(r.from, r.pass)
       /\ \A q \in requests : q.from = r.from /\ q.pass = r.pass => q = r
       /\ server = "serve" => r.from # request.from \/ r.pass # request.pass
  /\ server = "serve" => Started(request.from, request.pass)

(* The server has still to come to command i of pass p of client c. *)
IsDue(c, p, i) ==
  /\ i <= LastServed(p)
  /\ \/ \E r \in requests : r.from = c /\ r.pass = p
     \/ Serving(c) /\ request.pass = p /\ i >= commandIndex

(***************************************************************************)
(* The first chunks client c may still count a response by: on their way,  *)
(* kept in responses, or those of commands the server has still to answer, *)
(* each with the index of its command.                                     *)
(***************************************************************************)
SentTo(c) == {<<m.ci, "sent", m>> : m \in {k \in net : k.to = c /\ k.seq = 0}}

Kept(c) ==
  {<<i, "kept", 0>> : i \in {j \in Indices :
     responses[c][j] # <<>> /\ responses[c][j][1] # Empty}}

Due(c) == {x \in Indices \X {"due"} \X Pass : IsDue(c, x[3], x[1])}

Supply(c) == SentTo(c) \cup Kept(c) \cup Due(c)

Keys(S) == {x[1] : x \in S}

(* Elements of S beside one for each key that is not in R. *)
Spare(S, R) == Cardinality(S) - Cardinality(Keys(S) \ R)

(* Responses client c counted in its pass beside one for each command. *)
CountedTwice(c) ==
  NumCommands(pass[c]) - numCommands[c] - Cardinality(answered[c])

(***************************************************************************)
(* What was counted twice and what is there to be is due to duplicates;    *)
(* what is left when the client returns is due to them, too, and may be    *)
(* counted in the next pass.                                               *)
(***************************************************************************)
Balanced(c) ==
  /\ pc[c] = "send" => Cardinality(Supply(c)) <= dups
  /\ pc[c] = "parse" => CountedTwice(c) + Spare(Supply(c), answered[c]) <= dups

(* The last command, the STOP cut off, leaves no trace. *)
NoTraceOfLast ==
  /\ \A m \in net : m.ci <= LastServed(1)
  /\ \A c \in Clients :
       /\ answered[c] \subseteq 0..LastServed(1)
       /\ \A ci \in Indices : ci > LastServed(1) => responses[c][ci] = <<>>

(***************************************************************************)
(* Inductive however many responses are delivered twice, with the types    *)
(* and PlaceInv; ShortOnlyByDuplicates follows from it.                    *)
(***************************************************************************)
SupplyInv ==
  /\ RequestInv /\ NoTraceOfLast
  /\ IsFiniteSet(net)
  /\ \A c \in Clients : Balanced(c)
=============================================================================
