---------------------------- MODULE SessionProofs -----------------------------
(***************************************************************************)
(* Theorems about PolygonSession, for every number of clients and sides,   *)
(* every length of robot ID and of response, and every bound.              *)
(***************************************************************************)
EXTENDS SessionInvariant, FiniteSetTheorems, TLAPS

-----------------------------------------------------------------------------
(***************************************************************************)
(* Arithmetic of the command sequence.                                     *)
(***************************************************************************)
LEMMA SidesRange ==
  \A p \in Pass : /\ Sides(p) \in 3..8 /\ NumCommands(p) = 4 + 8 * Sides(p)
                  /\ NumCommands(p) \in 28..68
BY PolygonAssumption DEF Pass, Sides, NumCommands

LEMMA NumCommandsRange ==
  \A p \in Pass : NumCommands(p) \in 28..NumCommands(1) /\ NumCommands(1) \in 28..68
BY PolygonAssumption DEF Pass, Sides, NumCommands

LEMMA LastServedType ==
  \A p \in Pass : LastServed(p) \in Nat /\ LastServed(p) = NumCommands(p) - 2
BY SidesRange DEF LastServed

LEMMA CommandAtType == \A i \in Nat : CommandAt(i) \in Kinds
<1> SUFFICES ASSUME NEW i \in Nat PROVE CommandAt(i) \in Kinds
  OBVIOUS
<1>1. CASE i < 4
  <2>1. i \in {0, 1, 2, 3}
    BY <1>1
  <2> QED
    BY <2>1 DEF CommandAt, SnapshotCommands, Kinds
<1>2. CASE ~(i < 4)
  <2>1. (i - 4) % 8 \in {0, 1, 2, 3, 4, 5, 6, 7}
    BY <1>2
  <2> QED
    BY <1>2, <2>1 DEF CommandAt, SideCommands, Kinds
<1> QED
  BY <1>1, <1>2

(* A command ends where the next one begins. *)
LEMMA OffsetStep ==
  \A i \in Nat : /\ Offset(i) \in Nat
                 /\ CommandLength(CommandAt(i)) \in Nat
                 /\ Offset(i + 1) = Offset(i) + 1 + CommandLength(CommandAt(i))
<1> SUFFICES ASSUME NEW i \in Nat
             PROVE  /\ Offset(i) \in Nat
                    /\ CommandLength(CommandAt(i)) \in Nat
                    /\ Offset(i + 1) = Offset(i) + 1 + CommandLength(CommandAt(i))
  OBVIOUS
<1> USE PolygonAssumption
<1>1. CASE i < 4
  <2>1. i \in {0, 1, 2, 3}
    BY <1>1
  <2>2. Offset(4) = 38
    <3>1. (4 - 4) \div 8 = 0 /\ (4 - 4) % 8 = 0
      OBVIOUS
    <3> QED
      BY <3>1 DEF Offset, SideOffset, SideBytes
  <2>3. CASE i = 0
    BY <2>3 DEF Offset, SnapshotOffset, CommandAt, SnapshotCommands, CommandLength
  <2>4. CASE i = 1
    BY <2>4 DEF Offset, SnapshotOffset, CommandAt, SnapshotCommands, CommandLength
  <2>5. CASE i = 2
    BY <2>5 DEF Offset, SnapshotOffset, CommandAt, SnapshotCommands, CommandLength
  <2>6. CASE i = 3
    <3>1. Offset(3) = 27 /\ CommandAt(3) = "LASERS"
      BY DEF Offset, SnapshotOffset, CommandAt, SnapshotCommands
    <3> QED
      BY <2>2, <2>6, <3>1 DEF CommandLength
  <2> QED
    BY <2>1, <2>3, <2>4, <2>5, <2>6
<1>2. CASE ~(i < 4)
  <2> DEFINE q == (i - 4) \div 8
             r == (i - 4) % 8
  <2>1. /\ q \in Nat /\ r \in 0..7
        /\ i - 4 = 8 * q + r
    BY <1>2
  <2>2. r \in {0, 1, 2, 3, 4, 5, 6, 7}
    BY <2>1
  <2>3. SideBytes \in Nat /\ q * SideBytes \in Nat
    BY <2>1 DEF SideBytes
  <2>4. (q + 1) * SideBytes = q * SideBytes + SideBytes
    BY <2>1, <2>3
  <2>5. /\ r < 7 => (i + 1 - 4) \div 8 = q /\ (i + 1 - 4) % 8 = r + 1
        /\ r = 7 => (i + 1 - 4) \div 8 = q + 1 /\ (i + 1 - 4) % 8 = 0
    BY <1>2, <2>1
  <2>6. Offset(i) = 38 + q * SideBytes + SideOffset[r + 1]
    BY <1>2 DEF Offset
  <2>7. CommandAt(i) = SideCommands[r + 1]
    BY <1>2 DEF CommandAt
  <2>8. Offset(i + 1) = 38 + ((i + 1 - 4) \div 8) * SideBytes + SideOffset[((i + 1 - 4) % 8) + 1]
    BY <1>2 DEF Offset
  <2> HIDE DEF q, r
  <2>9. SideOffset[r + 1] \in Nat /\ CommandLength(SideCommands[r + 1]) \in Nat
    BY <2>2 DEF SideOffset, SideCommands, CommandLength
  <2>10. CASE r < 7
    <3>1. SideOffset[r + 2] = SideOffset[r + 1] + 1 + CommandLength(SideCommands[r + 1])
      BY <2>2, <2>10 DEF SideOffset, SideCommands, CommandLength
    <3> QED
      BY <2>3, <2>5, <2>6, <2>7, <2>8, <2>9, <2>10, <3>1, <2>1
  <2>11. CASE r = 7
    <3>1. /\ SideOffset[8] + 1 + CommandLength(SideCommands[8]) = SideBytes
          /\ SideOffset[1] = 0
      BY DEF SideOffset, SideCommands, CommandLength, SideBytes
    <3>2. Offset(i + 1) = 38 + (q + 1) * SideBytes + 0
      BY <2>5, <2>8, <2>11, <3>1
    <3>3. Offset(i) = 38 + q * SideBytes + SideOffset[8]
      BY <2>6, <2>11
    <3>4. CommandAt(i) = SideCommands[8] /\ SideOffset[8] \in Nat
      BY <2>7, <2>9, <2>11
    <3> QED
      BY <2>3, <2>4, <2>9, <2>11, <3>1, <3>2, <3>3, <3>4
  <2> QED
    BY <2>2, <2>10, <2>11
<1> QED
  BY <1>1, <1>2

(* The last command is a STOP just before the null byte. *)
LEMMA OffsetOfLast ==
  \A p \in Pass : Terminator(p) \in Nat /\ Offset(NumCommands(p) - 1) = Terminator(p) - 5
<1> SUFFICES ASSUME NEW p \in Pass
             PROVE  Terminator(p) \in Nat /\ Offset(NumCommands(p) - 1) = Terminator(p) - 5
  OBVIOUS
<1> DEFINE S == Sides(p)
<1>1. S \in 3..8 /\ NumCommands(p) = 4 + 8 * S
  BY SidesRange
<1>2. Terminator(p) = 38 + S * SideBytes
  BY <1>1, PolygonAssumption DEF Terminator, RequestBytes, SideBytes
<1>3. /\ ~(NumCommands(p) - 1 < 4)
      /\ (NumCommands(p) - 1 - 4) \div 8 = S - 1
      /\ (NumCommands(p) - 1 - 4) % 8 = 7
  BY <1>1
<1>4. Offset(NumCommands(p) - 1) = 38 + (S - 1) * SideBytes + SideOffset[8]
  BY <1>3 DEF Offset
<1>5. SideOffset[8] = SideBytes - 5 /\ SideBytes \in Nat
  BY PolygonAssumption DEF SideOffset, SideBytes
<1>6. (S - 1) * SideBytes = S * SideBytes - SideBytes /\ S * SideBytes \in Nat
  BY <1>1, <1>5
<1> HIDE DEF S
<1> QED
  BY <1>2, <1>4, <1>5, <1>6

(* send() leaves out the last bytes of the sequence, as many as the header has. *)
LEMMA SentBytesBound ==
  \A p \in Pass : \A idLen \in RobotIDLens :
    SentBytes(p, idLen) \in 1..(Terminator(p) - 12)
<1> SUFFICES ASSUME NEW p \in Pass, NEW idLen \in RobotIDLens
             PROVE  SentBytes(p, idLen) \in 1..(Terminator(p) - 12)
  OBVIOUS
<1>1. idLen \in Nat /\ SentBytes(p, idLen) > 0
  BY SessionAssumption, OneDatagramAssumption
<1>2. Terminator(p) \in Nat /\ RequestBytes(p) = Terminator(p) + 1
  BY OffsetOfLast, SidesRange, PolygonAssumption DEF Terminator, RequestBytes, SideBytes
<1> QED
  BY <1>1, <1>2 DEF SentBytes, PacketLen, HeadLen, MaxPayload

(***************************************************************************)
(* getSideNumber stays within positionFileWritten[17], for every command   *)
(* index a pass of the client can hold, even if it is one of the other.    *)
(***************************************************************************)
THEOREM SideNumberInRange ==
  \A p \in Pass : \A ci \in Indices : SideNumber(p, ci) \in Files
BY PolygonAssumption
   DEF Pass, Indices, NumCommands, Sides, SideNumber, Files, MaxFiles

-----------------------------------------------------------------------------
(***************************************************************************)
(* The chunks of a response, on both sides.                                *)
(***************************************************************************)
LEMMA NumMessagesType ==
  \A len \in Nat : NumMessages(len) \in Nat \ {0}
BY DEF NumMessages, PayloadSize

LEMMA EmptyType == Empty \in Chunk
BY DEF Empty, Chunk

LEMMA ResponseChunkType ==
  ASSUME TypeOK, NEW len \in Nat, NEW i \in Nat
  PROVE  /\ ResponseChunk(len, i) \in Chunk
         /\ ResponseChunk(len, i) # Empty => ResponseChunk(len, i).pass = request.pass
<1>1. MessageBytes(len, i) \in Nat
  BY NumMessagesType DEF MessageBytes, PayloadSize
<1>2. request.pass \in Pass /\ commandIndex \in Nat
  BY DEF TypeOK, Request
<1>3. i * PayloadSize \in Nat /\ i * PayloadSize + MessageBytes(len, i) \in Nat
  BY <1>1 DEF PayloadSize
<1>4. CASE MessageBytes(len, i) = 0
  BY <1>4, EmptyType DEF ResponseChunk
<1>5. CASE MessageBytes(len, i) # 0
  BY <1>2, <1>3, <1>5 DEF ResponseChunk, Chunk
<1> QED
  BY <1>4, <1>5

(* What the first k messages of a response have in common, and what not. *)
LEMMA SendResponseFacts ==
  ASSUME TypeOK, NEW len \in Nat, NEW k \in Nat, k <= NumMessages(len)
  PROVE  \A m \in SendResponse(len, k) :
           /\ m \in Message
           /\ m.to = request.from /\ m.ci = commandIndex
           /\ m.num = NumMessages(len) /\ m.seq < m.num
           /\ m.data # Empty => m.data.pass = request.pass
           /\ \A n \in SendResponse(len, k) : n.seq = m.seq => n = m
<1> SUFFICES ASSUME NEW m \in SendResponse(len, k)
             PROVE  /\ m \in Message
                    /\ m.to = request.from /\ m.ci = commandIndex
                    /\ m.num = NumMessages(len) /\ m.seq < m.num
                    /\ m.data # Empty => m.data.pass = request.pass
                    /\ \A n \in SendResponse(len, k) : n.seq = m.seq => n = m
  OBVIOUS
<1>1. PICK i \in 0..(k - 1) :
        m = [to |-> request.from, ci |-> commandIndex, num |-> NumMessages(len),
             seq |-> i, data |-> ResponseChunk(len, i)]
  BY DEF SendResponse
<1>2. NumMessages(len) \in Nat \ {0}
  BY NumMessagesType
<1>3. ResponseChunk(len, i) \in Chunk
      /\ (ResponseChunk(len, i) # Empty => ResponseChunk(len, i).pass = request.pass)
  BY ResponseChunkType
<1>4. request.from \in Clients /\ commandIndex \in Nat
  BY DEF TypeOK, Request
<1>5. m \in Message
  BY <1>1, <1>2, <1>3, <1>4 DEF Message
<1>6. \A n \in SendResponse(len, k) : n.seq = m.seq => n = m
  BY <1>1 DEF SendResponse
<1> QED
  BY <1>1, <1>2, <1>3, <1>5, <1>6

(* Storing a message fills its place and no other. *)
LEMMA StoreFacts ==
  ASSUME NEW vec \in Seq(Chunk), NEW m \in Message, m.seq < m.num
  PROVE  /\ Store(vec, m) \in Seq(Chunk)
         /\ m.num <= Len(Store(vec, m)) /\ Len(vec) <= Len(Store(vec, m))
         /\ \A i \in 1..Len(Store(vec, m)) :
              Store(vec, m)[i] = IF i = m.seq + 1 THEN m.data
                                 ELSE IF i <= Len(vec) THEN vec[i] ELSE Empty
<1> DEFINE size == IF Len(vec) < m.num THEN m.num ELSE Len(vec)
           e(i) == IF i = m.seq + 1 THEN m.data
                   ELSE IF i <= Len(vec) THEN vec[i] ELSE Empty
<1>1. m.num \in Nat /\ m.seq \in Nat /\ m.data \in Chunk /\ Len(vec) \in Nat
  BY DEF Message
<1>2. size \in Nat /\ m.num <= size /\ Len(vec) <= size
  BY <1>1
<1>3. \A i \in 1..size : e(i) \in Chunk
  BY <1>1, <1>2, EmptyType
<1>4. Store(vec, m) = [i \in 1..size |-> e(i)]
  BY DEF Store
<1> HIDE DEF size, e
<1>5. Store(vec, m) \in Seq(Chunk) /\ Len(Store(vec, m)) = size
  BY <1>2, <1>3, <1>4
<1>6. \A i \in 1..size : Store(vec, m)[i] = e(i)
  BY <1>4
<1> QED
  BY <1>2, <1>5, <1>6 DEF e

-----------------------------------------------------------------------------
(***************************************************************************)
(* Types, and the server's place in the request.                           *)
(***************************************************************************)
TypeInv == TypeOK /\ PlaceInv

LEMMA InitTypeInv == Init => TypeInv
<1> SUFFICES ASSUME Init PROVE TypeInv
  OBVIOUS
<1>1. <<>> \in Seq(Chunk) /\ 1 \in Pass
  BY DEF Pass
<1>2. [ci \in Indices |-> <<>>] \in [Indices -> Seq(Chunk)]
  BY <1>1
<1>3. request \in Request
  BY <1>1 DEF Init, Request
<1>4. TypeOK
  <2>1. /\ robotIDLen \in [Clients -> RobotIDLens]
        /\ pass \in [Clients -> Pass]
        /\ pc \in [Clients -> {"send", "parse", "done", "quit"}]
        /\ numCommands \in [Clients -> Int]
        /\ answered \in [Clients -> SUBSET Indices]
    BY <1>1 DEF Init
  <2>2. responses \in [Clients -> [Indices -> Seq(Chunk)]]
    BY <1>2 DEF Init
  <2>3. /\ positionFileWritten \in [Clients -> [Files -> BOOLEAN]]
        /\ imageFile \in [Clients -> [Files -> Seq(Chunk)]]
        /\ positionFile \in
             [Clients -> [Files -> SUBSET (PositionKinds \X Seq(Chunk))]]
    BY <1>1 DEF Init
  <2>4. /\ server \in {"recv", "serve", "down"} /\ motion \in {"still", "moving", "turning"}
        /\ position \in Nat /\ commandIndex \in Nat /\ losses \in Nat /\ dups \in Nat
        /\ requests \subseteq Request /\ net \subseteq Message
        /\ \A m \in net : m.ci \in Indices /\ m.seq < m.num
    BY DEF Init
  <2> QED
    BY <1>3, <2>1, <2>2, <2>3, <2>4 DEF TypeOK
<1>5. PlaceInv
  BY DEF Init, PlaceInv
<1> QED
  BY <1>4, <1>5 DEF TypeInv

LEMMA StartPassTypeInv ==
  ASSUME TypeInv, NEW c \in Clients, StartPass(c)
  PROVE  TypeInv'
<1> DEFINE r == [from |-> c, pass |-> pass[c],
                 bytes |-> SentBytes(pass[c], robotIDLen[c])]
<1>1. pass[c] \in Pass /\ robotIDLen[c] \in RobotIDLens
  BY DEF TypeInv, TypeOK
<1>2. r \in Request /\ r.bytes > 0 /\ r.bytes <= Terminator(r.pass) - 12
  BY <1>1, SentBytesBound, OffsetOfLast DEF Request
<1>3. requests' = requests \cup {r}
  BY DEF StartPass
<1>4. NumCommands(pass[c]) \in Int
  BY <1>1, SidesRange
<1> HIDE DEF r
<1>5. TypeOK'
  <2>1. /\ pc' \in [Clients -> {"send", "parse", "done", "quit"}]
        /\ numCommands' \in [Clients -> Int]
        /\ positionFileWritten' \in [Clients -> [Files -> BOOLEAN]]
        /\ answered' \in [Clients -> SUBSET Indices]
        /\ requests' \subseteq Request
    BY <1>2, <1>3, <1>4 DEF TypeInv, TypeOK, StartPass
  <2> QED
    BY <2>1 DEF TypeInv, TypeOK, StartPass, serverVars
<1>6. PlaceInv'
  BY <1>2, <1>3 DEF TypeInv, PlaceInv, StartPass, serverVars
<1> QED
  BY <1>5, <1>6 DEF TypeInv

LEMMA ReceiveTypeInv ==
  ASSUME TypeInv, NEW c \in Clients, Receive(c)
  PROVE  TypeInv'
<1>1. PICK m \in net :
        /\ Deliver(m) /\ (KeepChunk(c, m) \/ CompleteResponse(c, m))
        /\ UNCHANGED <<robotIDLen, serverVars, requests, losses>>
  BY DEF Receive
<1> DEFINE vec == Store(responses[c][m.ci], m)
<1>2. m \in Message /\ m.ci \in Indices /\ m.seq < m.num
  BY DEF TypeInv, TypeOK
<1>3. vec \in Seq(Chunk)
  <2>1. responses[c][m.ci] \in Seq(Chunk)
    BY <1>2 DEF TypeInv, TypeOK
  <2> QED
    BY <1>2, <2>1, StoreFacts
<1>4. net' \subseteq net /\ dups' \in Nat
  BY <1>1 DEF Deliver, TypeInv, TypeOK
<1>5. /\ pass' \in [Clients -> Pass]
      /\ pc' \in [Clients -> {"send", "parse", "done", "quit"}]
      /\ numCommands' \in [Clients -> Int]
      /\ responses' \in [Clients -> [Indices -> Seq(Chunk)]]
      /\ positionFileWritten' \in [Clients -> [Files -> BOOLEAN]]
      /\ imageFile' \in [Clients -> [Files -> Seq(Chunk)]]
      /\ positionFile' \in
           [Clients -> [Files -> SUBSET (PositionKinds \X Seq(Chunk))]]
      /\ answered' \in [Clients -> SUBSET Indices]
  <2>1. CASE KeepChunk(c, m)
    <3>1. responses' = [responses EXCEPT ![c][m.ci] = vec]
      BY <2>1 DEF KeepChunk
    <3>2. responses' \in [Clients -> [Indices -> Seq(Chunk)]]
      BY <1>2, <1>3, <3>1 DEF TypeInv, TypeOK
    <3> QED
      BY <2>1, <3>2 DEF KeepChunk, TypeInv, TypeOK
  <2>2. CASE CompleteResponse(c, m)
    <3>1. <<>> \in Seq(Chunk)
      OBVIOUS
    <3>2. responses' \in [Clients -> [Indices -> Seq(Chunk)]]
      BY <1>2, <2>2, <3>1 DEF CompleteResponse, TypeInv, TypeOK
    <3>3. /\ numCommands' \in [Clients -> Int]
          /\ answered' \in [Clients -> SUBSET Indices]
      BY <1>2, <2>2 DEF CompleteResponse, TypeInv, TypeOK
    <3>4. /\ pass' \in [Clients -> Pass]
          /\ pc' \in [Clients -> {"send", "parse", "done", "quit"}]
      <4>1. ContinueOrReturn(c, numCommands[c] - 1)
        BY <2>2 DEF CompleteResponse
      <4>2. /\ pass \in [Clients -> Pass]
            /\ pc \in [Clients -> {"send", "parse", "done", "quit"}]
        BY DEF TypeInv, TypeOK
      <4>3. 2 \in Pass
        BY DEF Pass
      <4> QED
        BY <4>1, <4>2, <4>3 DEF ContinueOrReturn
    <3>5. HandleResponse(c, m.ci, vec)
      BY <2>2 DEF CompleteResponse
    <3> HIDE DEF vec
    <3>6. /\ positionFileWritten' \in [Clients -> [Files -> BOOLEAN]]
          /\ imageFile' \in [Clients -> [Files -> Seq(Chunk)]]
          /\ positionFile' \in
               [Clients -> [Files -> SUBSET (PositionKinds \X Seq(Chunk))]]
      <4> DEFINE kind == ResponseKind(m.ci)
                 side == SideNumber(pass[c], m.ci)
      <4>1. \/ HandleImage(c, side, vec)
            \/ kind \in PositionKinds /\ WritePositionData(c, kind, side, vec)
            \/ UNCHANGED <<imageFile, positionFile, positionFileWritten>>
        BY <3>5 DEF HandleResponse
      <4>5. side \in Files
        BY <1>2, SideNumberInRange DEF TypeInv, TypeOK
      <4> HIDE DEF kind, side
      <4>2. CASE HandleImage(c, side, vec)
        BY <1>3, <4>2 DEF HandleImage, TypeInv, TypeOK
      <4>3. CASE kind \in PositionKinds /\ WritePositionData(c, kind, side, vec)
        <5>1. {<<kind, vec>>} \in SUBSET (PositionKinds \X Seq(Chunk))
          BY <1>3, <4>3
        <5>2. /\ positionFile' \in
                   [Clients -> [Files -> SUBSET (PositionKinds \X Seq(Chunk))]]
              /\ positionFileWritten' \in [Clients -> [Files -> BOOLEAN]]
          <6> DEFINE T == SUBSET (PositionKinds \X Seq(Chunk))
                     lines == (IF positionFileWritten[c][side]
                               THEN positionFile[c][side] ELSE {})
                              \cup {<<kind, vec>>}
          <6>1. positionFile[c][side] \in T
            BY <4>5 DEF TypeInv, TypeOK
          <6>2. lines \in T
            BY <5>1, <6>1
          <6>3. /\ positionFile' = [positionFile EXCEPT ![c][side] = lines]
                /\ positionFileWritten' =
                     [positionFileWritten EXCEPT ![c][side] = TRUE]
            BY <4>3 DEF WritePositionData
          <6> HIDE DEF T, lines
          <6>4. positionFile \in [Clients -> [Files -> T]]
            BY DEF TypeInv, TypeOK, T
          <6>5. positionFile' \in [Clients -> [Files -> T]]
            BY <6>2, <6>3, <6>4
          <6>6. positionFileWritten' \in [Clients -> [Files -> BOOLEAN]]
            BY <6>3 DEF TypeInv, TypeOK
          <6> QED
            BY <6>5, <6>6 DEF T
        <5> QED
          BY <4>3, <5>2 DEF WritePositionData, TypeInv, TypeOK
      <4>4. CASE UNCHANGED <<imageFile, positionFile, positionFileWritten>>
        BY <4>4 DEF TypeInv, TypeOK
      <4> QED
        BY <4>1, <4>2, <4>3, <4>4
    <3> QED
      BY <3>2, <3>3, <3>4, <3>6
  <2> QED
    BY <1>1, <2>1, <2>2
<1>6. TypeOK'
  BY <1>1, <1>4, <1>5 DEF TypeInv, TypeOK, serverVars
<1>7. PlaceInv'
  BY <1>1 DEF TypeInv, PlaceInv, serverVars
<1> QED
  BY <1>6, <1>7 DEF TypeInv

LEMMA ReceiveRequestTypeInv == TypeInv /\ ReceiveRequest => TypeInv'
<1> SUFFICES ASSUME TypeInv, ReceiveRequest PROVE TypeInv'
  OBVIOUS
<1>1. PICK r \in requests : request' = r /\ requests' = requests \ {r}
  BY DEF ReceiveRequest
<1>2. r \in Request /\ r.bytes <= Terminator(r.pass) - 12 /\ r.bytes > 0
  BY DEF TypeInv, TypeOK, PlaceInv
<1>3. TypeOK'
  BY <1>1, <1>2 DEF ReceiveRequest, TypeInv, TypeOK, clientVars
<1>4. Offset(0) = 0 /\ 0 <= LastServed(r.pass)
  BY <1>2, SidesRange DEF Offset, SnapshotOffset, LastServed, Request
<1>5. PlaceInv'
  BY <1>1, <1>2, <1>4 DEF ReceiveRequest, TypeInv, PlaceInv
<1> QED
  BY <1>3, <1>5 DEF TypeInv

(* While the server is in its loop, the command it reads is one of the pass. *)
LEMMA ServedIndex ==
  ASSUME TypeInv, server = "serve"
  PROVE  commandIndex \in Indices /\ commandIndex + 1 < NumCommands(request.pass)
<1>1. request.pass \in Pass /\ 1 \in Pass
  BY DEF TypeInv, TypeOK, Request, Pass
<1> QED
  BY <1>1, NumCommandsRange DEF TypeInv, TypeOK, PlaceInv, LastServed, Indices

(* Whatever sendResponse puts into the network has the right types. *)
LEMMA SentTypes ==
  ASSUME TypeInv, server = "serve", NEW len \in Nat, NEW k \in Nat,
         k <= NumMessages(len), net' = net \cup SendResponse(len, k)
  PROVE  net' \subseteq Message /\ \A m \in net' : m.ci \in Indices /\ m.seq < m.num
BY SendResponseFacts, ServedIndex DEF TypeInv, TypeOK

(* The length of a body is a natural number. *)
LEMMA BodyType ==
  ASSUME TypeInv PROVE BodyLengths[Command] \subseteq Nat
BY CommandAtType, SessionAssumption DEF TypeInv, TypeOK, Command

LEMMA MotionType ==
  ASSUME TypeInv PROVE MotionAfter \in {"still", "moving", "turning"}
BY DEF TypeInv, TypeOK, MotionAfter

(* The server's place in the request when it is done with a command. *)
LEMMA NextCommandPlace ==
  ASSUME TypeInv, server = "serve", UNCHANGED <<request, requests>>,
         commandIndex' = commandIndex + 1,
         position' = position + 1 + CommandLength(Command),
         server' = IF MoreCommands(position') THEN "serve" ELSE "recv"
  PROVE  position' \in Nat /\ PlaceInv'
<1>1. /\ commandIndex \in Nat
      /\ position' = position + 1 + CommandLength(CommandAt(commandIndex))
      /\ position = Offset(commandIndex)
  BY DEF Command, TypeInv, TypeOK, PlaceInv
<1>2. position' = Offset(commandIndex') /\ position' \in Nat
  <2>1. commandIndex' \in Nat
    BY <1>1
  <2> QED
    BY <1>1, <2>1, OffsetStep
<1>3. PlaceInv'
  <2>1. request.pass \in Pass /\ request.bytes \in Nat
    BY DEF TypeInv, TypeOK, Request
  <2>2. server' = "serve" => position' < request.bytes
    BY DEF MoreCommands
  <2>3. request.bytes <= Terminator(request.pass) - 12 /\ commandIndex <= LastServed(request.pass)
    BY DEF TypeInv, PlaceInv
  <2>4. server' = "serve" => commandIndex' <= LastServed(request.pass)
    <3>1. /\ Terminator(request.pass) \in Nat
          /\ Offset(NumCommands(request.pass) - 1) = Terminator(request.pass) - 5
      BY <2>1, OffsetOfLast
    <3>2. NumCommands(request.pass) \in Nat
      BY <2>1, SidesRange
    <3>3. ASSUME commandIndex = LastServed(request.pass), server' = "serve" PROVE FALSE
      <4>1. commandIndex' = NumCommands(request.pass) - 1
        BY <1>1, <3>2, <3>3 DEF LastServed
      <4>2. position' = Terminator(request.pass) - 5
        BY <1>2, <3>1, <4>1
      <4> QED
        BY <2>1, <2>2, <2>3, <3>1, <3>3, <4>2
    <3> QED
      BY <1>1, <2>3, <3>2, <3>3 DEF LastServed
  <2> QED
    BY <1>2, <2>2, <2>3, <2>4 DEF TypeInv, PlaceInv
<1> QED
  BY <1>2, <1>3

LEMMA ServeCommandTypeInv == TypeInv /\ ServeCommand => TypeInv'
<1> SUFFICES ASSUME TypeInv, ServeCommand PROVE TypeInv'
  OBVIOUS
<1>1. server = "serve" /\ UNCHANGED <<request, requests, losses, dups, clientVars>>
  BY DEF ServeCommand
<1>2. PICK len \in BodyLengths[Command] :
        net' = net \cup SendResponse(len, NumMessages(len))
  BY DEF ServeCommand
<1>3. net' \subseteq Message /\ \A m \in net' : m.ci \in Indices /\ m.seq < m.num
  <2>1. len \in Nat /\ NumMessages(len) \in Nat
    BY BodyType, NumMessagesType
  <2> QED
    BY <1>1, <1>2, <2>1, SentTypes
<1>4. /\ commandIndex \in Nat /\ commandIndex' = commandIndex + 1
      /\ server' = IF MoreCommands(position') THEN "serve" ELSE "recv"
      /\ motion' \in {"still", "moving", "turning"}
  BY MotionType DEF ServeCommand, TypeInv, TypeOK
<1>5. position' \in Nat /\ PlaceInv'
  BY <1>1, NextCommandPlace DEF ServeCommand
<1>6. TypeOK'
  BY <1>1, <1>3, <1>4, <1>5 DEF TypeInv, TypeOK, clientVars
<1> QED
  BY <1>5, <1>6 DEF TypeInv

LEMMA SkipAnswerTypeInv == TypeInv /\ SkipAnswer => TypeInv'
<1> SUFFICES ASSUME TypeInv, SkipAnswer PROVE TypeInv'
  OBVIOUS
<1>1. server = "serve" /\ UNCHANGED <<request, requests, net, dups, clientVars>>
  BY DEF SkipAnswer
<1>2. /\ commandIndex' \in Nat /\ losses' \in Nat
      /\ server' \in {"recv", "serve", "down"}
      /\ motion' \in {"still", "moving", "turning"}
  BY MotionType DEF SkipAnswer, TypeInv, TypeOK
<1>3. position' \in Nat /\ PlaceInv'
  BY <1>1, NextCommandPlace DEF SkipAnswer
<1>4. TypeOK'
  BY <1>1, <1>2, <1>3 DEF TypeInv, TypeOK, clientVars
<1> QED
  BY <1>3, <1>4 DEF TypeInv

(* A client that does not survive what it received. *)
LEMMA HandleFailsTypeInv ==
  ASSUME TypeInv, NEW c \in Clients, HandleFails(c)
  PROVE  TypeInv'
<1> DEFINE fileType == SUBSET (PositionKinds \X Seq(Chunk))
<1>1. /\ net' \subseteq net /\ dups' \in Nat
      /\ pc' \in [Clients -> {"send", "parse", "done", "quit"}]
      /\ positionFile' \in [Clients -> [Files -> fileType]]
  <2>1. positionFile \in [Clients -> [Files -> fileType]] /\ {} \in fileType
    BY DEF TypeInv, TypeOK
  <2>2. PICK m \in net :
          /\ Deliver(m)
          /\ \/ UNCHANGED positionFile
             \/ positionFile' = [positionFile EXCEPT ![c][SideNumber(pass[c], m.ci)] = {}]
    BY DEF HandleFails
  <2>3. m.ci \in Indices /\ pass[c] \in Pass
    BY DEF TypeInv, TypeOK
  <2>4. SideNumber(pass[c], m.ci) \in Files
    BY <2>3, SideNumberInRange
  <2> HIDE DEF fileType
  <2>5. positionFile' \in [Clients -> [Files -> fileType]]
    <3>1. ASSUME NEW k \in Files
          PROVE  [positionFile EXCEPT ![c][k] = {}] \in [Clients -> [Files -> fileType]]
      BY <2>1
    <3> QED
      BY <2>1, <2>2, <2>4, <3>1
  <2>6. net' \subseteq net /\ dups' \in Nat
    BY <2>2 DEF Deliver, TypeInv, TypeOK
  <2>7. pc' \in [Clients -> {"send", "parse", "done", "quit"}]
    BY DEF HandleFails, TypeInv, TypeOK
  <2> QED
    BY <2>5, <2>6, <2>7
<1>2. UNCHANGED <<robotIDLen, pass, numCommands, responses, positionFileWritten,
                  imageFile, answered, serverVars, requests, losses>>
  BY DEF HandleFails
<1>3. TypeOK'
  BY <1>1, <1>2 DEF TypeInv, TypeOK, serverVars
<1>4. PlaceInv'
  BY <1>2 DEF TypeInv, PlaceInv, serverVars
<1> QED
  BY <1>3, <1>4 DEF TypeInv

LEMMA ServeFailsTypeInv == TypeInv /\ ServeFails => TypeInv'
<1> SUFFICES ASSUME TypeInv, ServeFails PROVE TypeInv'
  OBVIOUS
<1>1. PICK len \in BodyLengths[Command] :
        \E k \in 0..(NumMessages(len) - 1) : net' = net \cup SendResponse(len, k)
  BY DEF ServeFails
<1>2. PICK k \in 0..(NumMessages(len) - 1) : net' = net \cup SendResponse(len, k)
  BY <1>1
<1>3. net' \subseteq Message /\ \A m \in net' : m.ci \in Indices /\ m.seq < m.num
  <2>1. len \in Nat /\ NumMessages(len) \in Nat
    BY BodyType, NumMessagesType
  <2> QED
    BY <1>2, <2>1, SentTypes DEF ServeFails
<1>4. TypeOK'
  BY <1>3, MotionType DEF ServeFails, TypeInv, TypeOK, clientVars
<1>5. PlaceInv'
  BY DEF ServeFails, TypeInv, PlaceInv
<1> QED
  BY <1>4, <1>5 DEF TypeInv

(* The steps by which a client ends before it is done, and what they leave. *)
Quits(c) == RequestFails(c) \/ HandleFails(c) \/ RecvFails(c)

LEMMA QuitStep ==
  ASSUME TypeOK, NEW c \in Clients, Quits(c)
  PROVE  /\ pc[c] \in {"send", "parse"} /\ pc' = [pc EXCEPT ![c] = "quit"]
         /\ net' \subseteq net /\ dups' \in {dups, dups + 1}
         /\ UNCHANGED <<robotIDLen, pass, numCommands, responses, positionFileWritten,
                        imageFile, answered, server, request, position, commandIndex,
                        motion, requests, losses>>
BY DEF Quits, RequestFails, HandleFails, RecvFails, Deliver, serverVars, netVars

(* The steps that only stop a program or take datagrams out of the network. *)
LEMMA OtherStepsTypeInv ==
  ASSUME TypeInv,
         \/ \E c \in Clients : RequestFails(c) \/ RecvFails(c)
         \/ RefuseCommand \/ ServerStops \/ Lose \/ Discard \/ Terminated
         \/ UNCHANGED vars
  PROVE  TypeInv'
<1>1. ASSUME NEW c \in Clients, RequestFails(c) \/ RecvFails(c) PROVE TypeInv'
  BY <1>1 DEF TypeInv, TypeOK, PlaceInv, RequestFails, RecvFails, serverVars, netVars
<1>2. CASE RefuseCommand \/ ServerStops
  BY <1>2 DEF TypeInv, TypeOK, PlaceInv, RefuseCommand, ServerStops, netVars, clientVars
<1>3. CASE Lose
  BY <1>3 DEF TypeInv, TypeOK, PlaceInv, Lose, serverVars, clientVars
<1>4. CASE Discard
  BY <1>4 DEF TypeInv, TypeOK, PlaceInv, Discard, serverVars, clientVars
<1>5. CASE Terminated \/ UNCHANGED vars
  BY <1>5 DEF TypeInv, TypeOK, PlaceInv, Terminated, vars, serverVars, clientVars, netVars
<1> QED
  BY <1>1, <1>2, <1>3, <1>4, <1>5

(***************************************************************************)
(* Every variable keeps its type: a command index received is within the   *)
(* indices of a pass, and a message's place within its response.           *)
(***************************************************************************)
THEOREM TypeCorrect == Spec => []TypeInv
<1>1. Init => TypeInv
  BY InitTypeInv
<1>2. TypeInv /\ [Next]_vars => TypeInv'
  BY StartPassTypeInv, ReceiveTypeInv, HandleFailsTypeInv, ReceiveRequestTypeInv,
     ServeCommandTypeInv, SkipAnswerTypeInv, ServeFailsTypeInv, OtherStepsTypeInv
     DEF Next, ClientStep, ServerStep
<1> QED
  BY <1>1, <1>2, PTL DEF Spec

COROLLARY TypesOK == Spec => []TypeOK
<1>1. TypeInv => TypeOK
  BY DEF TypeInv
<1> QED
  BY <1>1, TypeCorrect, PTL

-----------------------------------------------------------------------------
(***************************************************************************)
(* The client's reading of a command index agrees with the sequence: it    *)
(* takes an answer for an image or a position exactly if the command asked *)
(* for one, and for one of that kind.                                      *)
(***************************************************************************)
THEOREM KindsAgree ==
  \A i \in Nat :
    ResponseKind(i) = IF CommandAt(i) \in {"IMAGE"} \cup PositionKinds
                      THEN CommandAt(i) ELSE "none"
<1> SUFFICES ASSUME NEW i \in Nat
             PROVE  ResponseKind(i) =
                      IF CommandAt(i) \in {"IMAGE"} \cup PositionKinds
                      THEN CommandAt(i) ELSE "none"
  OBVIOUS
<1>1. CASE i < 4
  <2>1. i \in {0, 1, 2, 3} /\ CommandCode(i) = i + 2
    BY <1>1 DEF CommandCode
  <2> QED
    BY <2>1 DEF CommandAt, SnapshotCommands, PositionKinds, ResponseKind
<1>2. CASE ~(i < 4)
  <2> DEFINE r == (i - 4) % 8
  <2>1. r \in {0, 1, 2, 3, 4, 5, 6, 7}
    BY <1>2
  <2>2. CommandCode(i) = IF i = 4 THEN 6 ELSE r % 8
    BY <1>2 DEF CommandCode
  <2>3. i = 4 => r = 0
    OBVIOUS
  <2>4. CommandAt(i) = SideCommands[r + 1]
    BY <1>2 DEF CommandAt
  <2> HIDE DEF r
  <2>5. \/ r \in {0, 1, 6, 7} /\ CommandAt(i) \in {"MOVE", "STOP", "TURN"}
        \/ r = 2 /\ CommandAt(i) = "IMAGE"
        \/ r = 3 /\ CommandAt(i) = "GPS"
        \/ r = 4 /\ CommandAt(i) = "DGPS"
        \/ r = 5 /\ CommandAt(i) = "LASERS"
    BY <2>1, <2>4 DEF SideCommands
  <2>6. r % 8 = r
    BY <2>1
  <2> QED
    BY <2>2, <2>3, <2>5, <2>6 DEF ResponseKind, PositionKinds
<1> QED
  BY <1>1, <1>2

(***************************************************************************)
(* Between the STOP after a MOVE and the next TURN the robot stands still. *)
(***************************************************************************)
MotionInv ==
  server = "serve" /\ commandIndex >= 4 /\ (commandIndex - 4) % 8 \in 2..6
    => motion = "still"

LEMMA ServeCommandMotion ==
  TypeInv /\ MotionInv /\ (ServeCommand \/ SkipAnswer) => MotionInv'
<1> SUFFICES ASSUME TypeInv, MotionInv, ServeCommand \/ SkipAnswer,
                    commandIndex' >= 4, (commandIndex' - 4) % 8 \in 2..6
             PROVE  motion' = "still"
  BY DEF MotionInv
<1> DEFINE r == (commandIndex - 4) % 8
<1>1. /\ server = "serve" /\ commandIndex' = commandIndex + 1 /\ commandIndex \in Nat
      /\ motion' = MotionAfter /\ Command = CommandAt(commandIndex)
  BY DEF ServeCommand, SkipAnswer, TypeInv, TypeOK, Command
<1>2. commandIndex >= 4 /\ r \in {1, 2, 3, 4, 5}
  BY <1>1
<1>3. Command = SideCommands[r + 1]
  BY <1>1, <1>2 DEF CommandAt
<1>4. r \in {2, 3, 4, 5} => motion = "still"
  BY <1>1, <1>2 DEF MotionInv
<1> HIDE DEF r
<1>5. \/ r = 1 /\ Command = "STOP"
      \/ r \in {2, 3, 4, 5} /\ Command \in {"IMAGE", "GPS", "DGPS", "LASERS"}
  BY <1>2, <1>3 DEF SideCommands
<1> QED
  BY <1>1, <1>4, <1>5 DEF MotionAfter

LEMMA OtherStepsMotion ==
  ASSUME TypeInv, MotionInv, [Next]_vars, ~ServeCommand, ~SkipAnswer
  PROVE  MotionInv'
<1>1. \/ server' # "serve" \/ commandIndex' = 0
      \/ UNCHANGED <<server, commandIndex, motion>>
  BY DEF Next, ClientStep, ServerStep, StartPass, RequestFails, Receive, HandleFails,
         RecvFails, ReceiveRequest, RefuseCommand, ServeFails, ServerStops, Lose, Discard, Terminated, vars,
         serverVars
<1> QED
  BY <1>1 DEF MotionInv

(***************************************************************************)
(* From the first corner on the robot stands still while it is asked for   *)
(* an image or a position, even if responses are lost or delivered twice.  *)
(***************************************************************************)
THEOREM StillWhileLooking == Spec => []ScreenshotAtRest
<1>1. Init => MotionInv
  BY DEF Init, MotionInv
<1>2. TypeInv /\ MotionInv /\ [Next]_vars => MotionInv'
  BY ServeCommandMotion, OtherStepsMotion
<1>3. TypeInv /\ MotionInv => ScreenshotAtRest
  <2> SUFFICES ASSUME TypeInv, MotionInv, server = "serve", commandIndex >= 4,
                      ResponseKind(commandIndex) # "none"
               PROVE  motion = "still"
    BY DEF ScreenshotAtRest
  <2> DEFINE r == (commandIndex - 4) % 8
  <2>1. commandIndex \in Nat
    BY DEF TypeInv, TypeOK
  <2>2. r \in {0, 1, 2, 3, 4, 5, 6, 7} /\ CommandAt(commandIndex) = SideCommands[r + 1]
    BY <2>1 DEF CommandAt
  <2>3. CommandAt(commandIndex) \in {"IMAGE", "GPS", "DGPS", "LASERS"}
    BY <2>1, KindsAgree DEF PositionKinds
  <2> HIDE DEF r
  <2>4. r \in {2, 3, 4, 5}
    BY <2>2, <2>3 DEF SideCommands
  <2> QED
    BY <2>4 DEF MotionInv, r
<1> QED
  BY <1>1, <1>2, <1>3, TypeCorrect, PTL DEF Spec
=============================================================================
