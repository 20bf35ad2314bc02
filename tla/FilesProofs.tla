----------------------------- MODULE FilesProofs ------------------------------
(***************************************************************************)
(* The client's files hold what their names say: FilesInv is kept by every *)
(* step that keeps SessionInv, whatever is lost or fails, as long as the   *)
(* network delivers no response twice.                                     *)
(***************************************************************************)
EXTENDS FilesInvariant, AnswersProofs

-----------------------------------------------------------------------------
(***************************************************************************)
(* Corners.  What is recorded at a corner stands in a row of four commands *)
(* behind the MOVE and the STOP that lead there.                           *)
(***************************************************************************)
Shots == {"IMAGE"} \cup PositionKinds

PlaceOf(kind) ==
  CASE kind = "IMAGE"  -> 0
    [] kind = "GPS"    -> 1
    [] kind = "DGPS"   -> 2
    [] kind = "LASERS" -> 3

IndexOf(kind, w) == PlaceOf(kind) + (IF w = 0 THEN 0 ELSE 8 * w - 2)

(* Where the MOVE commands are. *)
LEMMA MoveAt ==
  \A i \in Nat : CommandAt(i) = "MOVE" <=> i >= 4 /\ (i - 4) % 8 = 0
<1> SUFFICES ASSUME NEW i \in Nat
             PROVE  CommandAt(i) = "MOVE" <=> i >= 4 /\ (i - 4) % 8 = 0
  OBVIOUS
<1>1. CASE i < 4
  <2>1. i \in {0, 1, 2, 3}
    BY <1>1
  <2> QED
    BY <1>1, <2>1 DEF CommandAt, SnapshotCommands
<1>2. CASE ~(i < 4)
  <2> DEFINE r == (i - 4) % 8
  <2>1. r \in {0, 1, 2, 3, 4, 5, 6, 7} /\ CommandAt(i) = SideCommands[r + 1]
    BY <1>2 DEF CommandAt
  <2> HIDE DEF r
  <2>2. SideCommands[r + 1] = "MOVE" <=> r = 0
    BY <2>1 DEF SideCommands
  <2> QED
    BY <1>2, <2>1, <2>2 DEF r
<1> QED
  BY <1>1, <1>2

(* A command that records something is the one of its kind at its corner. *)
LEMMA ShotAt ==
  ASSUME NEW i \in Nat, CommandAt(i) \in Shots
  PROVE  (i + 4) \div 8 \in Nat /\ i = IndexOf(CommandAt(i), (i + 4) \div 8)
<1>1. CASE i < 4
  <2>1. i \in {0, 1, 2, 3} /\ (i + 4) \div 8 = 0
    BY <1>1
  <2> QED
    BY <2>1 DEF CommandAt, SnapshotCommands, IndexOf, PlaceOf
<1>2. CASE ~(i < 4)
  <2> DEFINE r == (i - 4) % 8
             q == (i - 4) \div 8
  <2>1. /\ r \in {0, 1, 2, 3, 4, 5, 6, 7} /\ CommandAt(i) = SideCommands[r + 1]
        /\ q \in Nat /\ i = 8 * q + r + 4
    BY <1>2 DEF CommandAt
  <2>2. (i + 4) \div 8 = q + 1
    BY <2>1
  <2> HIDE DEF r, q
  <2>3. r \in {2, 3, 4, 5} /\ PlaceOf(SideCommands[r + 1]) = r - 2
    BY <2>1 DEF SideCommands, Shots, PositionKinds, PlaceOf
  <2> QED
    BY <2>1, <2>2, <2>3 DEF IndexOf
<1> QED
  BY <1>1, <1>2

(* And every corner has one of each kind. *)
LEMMA ShotIndex ==
  ASSUME NEW kind \in Shots, NEW w \in Nat
  PROVE  /\ IndexOf(kind, w) \in Nat
         /\ CommandAt(IndexOf(kind, w)) = kind
         /\ (IndexOf(kind, w) + 4) \div 8 = w
<1>1. /\ PlaceOf(kind) \in {0, 1, 2, 3}
      /\ SnapshotCommands[PlaceOf(kind) + 1] = kind
      /\ SideCommands[PlaceOf(kind) + 3] = kind
  BY DEF Shots, PositionKinds, PlaceOf, SnapshotCommands, SideCommands
<1> DEFINE o == PlaceOf(kind)
           i == IndexOf(kind, w)
<1> HIDE DEF o
<1>2. CASE w = 0
  <2>1. i = o /\ o \in {0, 1, 2, 3}
    BY <1>1, <1>2 DEF IndexOf, o
  <2> QED
    BY <1>1, <1>2, <2>1 DEF CommandAt, o
<1>3. CASE w # 0
  <2>1. i = 8 * w - 2 + o /\ o \in {0, 1, 2, 3}
    BY <1>1, <1>3 DEF IndexOf, o
  <2> HIDE DEF i
  <2>2. i \in Nat /\ ~(i < 4) /\ (i - 4) % 8 = o + 2 /\ (i + 4) \div 8 = w
    BY <1>3, <2>1
  <2>3. CommandAt(i) = SideCommands[o + 3]
    BY <2>1, <2>2 DEF CommandAt
  <2> QED
    BY <1>1, <2>2, <2>3 DEF i, o
<1> QED
  BY <1>2, <1>3

(* A command records at the corner as many MOVEs as there are before it lead to. *)
LEMMA CornerAt ==
  ASSUME NEW i \in Indices, CommandAt(i) \in Shots
  PROVE  Waypoint[i] = (i + 4) \div 8
<1> DEFINE w == (i + 4) \div 8
           S == {j \in 0..(i - 1) : CommandAt(j) = "MOVE"}
           f == [q \in 1..w |-> 8 * q - 4]
<1>1. i \in Nat
  BY DEF Indices
<1>2. w \in Nat /\ i = IndexOf(CommandAt(i), w)
  BY <1>1, ShotAt
<1>3. \/ w = 0 /\ i < 4
      \/ w > 0 /\ 8 * w - 2 <= i /\ i <= 8 * w + 1
  BY <1>2 DEF IndexOf, PlaceOf, Shots, PositionKinds
<1>4. S = {j \in 0..(i - 1) : j >= 4 /\ (j - 4) % 8 = 0}
  BY <1>1, MoveAt
<1> HIDE DEF w, S
<1>5. \A q \in 1..w : 8 * q - 4 \in S
  <2> SUFFICES ASSUME NEW q \in 1..w PROVE 8 * q - 4 \in S
    OBVIOUS
  <2>1. 8 * q - 4 \in 0..(i - 1) /\ 8 * q - 4 >= 4
    BY <1>1, <1>2, <1>3
  <2>2. (8 * q - 4 - 4) % 8 = 0
    BY <1>2
  <2> QED
    BY <1>4, <2>1, <2>2
<1>6. \A j \in S : \E q \in 1..w : 8 * q - 4 = j
  <2> SUFFICES ASSUME NEW j \in S PROVE \E q \in 1..w : 8 * q - 4 = j
    OBVIOUS
  <2> DEFINE q == (j + 4) \div 8
  <2>1. j \in 0..(i - 1) /\ j >= 4 /\ (j - 4) % 8 = 0
    BY <1>4
  <2>2. q \in Nat /\ j = 8 * q - 4 /\ q >= 1
    BY <1>1, <2>1
  <2> HIDE DEF q
  <2>3. q \in 1..w
    BY <1>1, <1>2, <1>3, <2>1, <2>2
  <2> QED
    BY <2>2, <2>3
<1>7. f \in Bijection(1..w, S)
  <2>1. f \in [1..w -> S]
    BY <1>5
  <2>2. \A a, b \in 1..w : f[a] = f[b] => a = b
    BY <1>2
  <2>3. \A j \in S : \E q \in 1..w : f[q] = j
    BY <1>6
  <2> QED
    BY <2>1, <2>2, <2>3 DEF Bijection, Injection, IsInjective, Surjection
<1>8. IsFiniteSet(1..w) /\ Cardinality(1..w) = w
  BY <1>2, FS_Interval
<1> HIDE DEF f
<1>9. ExistsBijection(1..w, S)
  BY <1>7 DEF ExistsBijection
<1>10. Cardinality(S) = Cardinality(1..w)
  BY <1>8, <1>9, FS_Bijection
<1> QED
  BY <1>8, <1>10 DEF Waypoint, S, w

(***************************************************************************)
(* The file number the client computes is the number of the corner.        *)
(***************************************************************************)
LEMMA SideIsFile ==
  ASSUME NEW p \in Pass, NEW i \in Indices, CommandAt(i) \in Shots
  PROVE  SideNumber(p, i) = FileNumber(p, i)
<1>1. Waypoint[i] = (i + 4) \div 8
  BY CornerAt
<1> QED
  BY <1>1, PolygonAssumption DEF SideNumber, FileNumber, Sides, Pass

(* One corner of one pass has one command of each kind. *)
LEMMA OneShotPerCorner ==
  ASSUME NEW i \in Indices, NEW j \in Indices, CommandAt(i) \in Shots,
         CommandAt(i) = CommandAt(j), Waypoint[i] = Waypoint[j]
  PROVE  i = j
<1>1. i \in Nat /\ j \in Nat
  BY DEF Indices
<1>2. (i + 4) \div 8 = (j + 4) \div 8
  BY CornerAt
<1>3. i = IndexOf(CommandAt(i), (i + 4) \div 8) /\ j = IndexOf(CommandAt(j), (j + 4) \div 8)
  BY <1>1, ShotAt
<1> QED
  BY <1>2, <1>3

-----------------------------------------------------------------------------
(***************************************************************************)
(* Pieces of an answer.                                                    *)
(***************************************************************************)
LEMMA PieceFacts ==
  ASSUME NEW p \in Pass, NEW ci \in Nat, NEW len \in Nat,
         NEW i \in 0..(NumMessages(len) - 1)
  PROVE  LET piece == Piece(p, ci, len, i)
         IN  /\ piece \in Chunk
             /\ piece # Empty =>
                  /\ piece = [pass |-> p, ci |-> ci, len |-> len,
                              lo |-> piece.lo, hi |-> piece.hi]
                  /\ piece.lo = i * PayloadSize
                  /\ piece.hi = IF i = NumMessages(len) - 1 THEN len
                                ELSE (i + 1) * PayloadSize
             /\ len # 0 => piece # Empty
<1> DEFINE b == MessageBytes(len, i)
<1>1. NumMessages(len) \in Nat \ {0} /\ i \in Nat
  BY NumMessagesType
<1>2. /\ b \in Nat
      /\ len # 0 => b # 0
      /\ i * PayloadSize \in Nat /\ i * PayloadSize + b \in Nat
      /\ i * PayloadSize + b = IF i = NumMessages(len) - 1 THEN len
                               ELSE (i + 1) * PayloadSize
  BY <1>1 DEF MessageBytes, NumMessages, PayloadSize
<1>3. p # 0 /\ p \in Nat
  BY DEF Pass
<1> DEFINE full == [pass |-> p, ci |-> ci, len |-> len,
                    lo |-> i * PayloadSize, hi |-> i * PayloadSize + b]
<1>4. /\ full \in Chunk /\ full # Empty
      /\ Piece(p, ci, len, i) = IF b = 0 THEN Empty ELSE full
  <2>1. full \in Chunk
    BY <1>2 DEF Chunk
  <2>2. full.pass = p /\ Empty.pass = 0
    BY DEF Empty
  <2> QED
    BY <1>3, <2>1, <2>2 DEF Piece
<1>5. /\ full.lo = i * PayloadSize /\ full.hi = i * PayloadSize + b
      /\ full = [pass |-> p, ci |-> ci, len |-> len, lo |-> full.lo, hi |-> full.hi]
  OBVIOUS
<1> HIDE DEF b, full
<1> QED
  BY <1>2, <1>4, <1>5, EmptyType

(* What sendResponse sends are the pieces of the answer. *)
LEMMA ChunkIsPiece ==
  \A len, i : ResponseChunk(len, i) = Piece(request.pass, commandIndex, len, i)
BY DEF ResponseChunk, Piece

(* A chunk with other bounds. *)
LEMMA ChunkExcept ==
  ASSUME NEW d \in Chunk, NEW l \in Nat, NEW h \in Nat
  PROVE  [d EXCEPT !.lo = l, !.hi = h] =
           [pass |-> d.pass, ci |-> d.ci, len |-> d.len, lo |-> l, hi |-> h]
<1> DEFINE e == [d EXCEPT !.lo = l]
<1>1. /\ e \in Chunk
      /\ e = [pass |-> d.pass, ci |-> d.ci, len |-> d.len, lo |-> l, hi |-> d.hi]
  BY DEF Chunk
<1>2. [d EXCEPT !.lo = l, !.hi = h] = [e EXCEPT !.hi = h]
  BY DEF Chunk
<1> HIDE DEF e
<1>3. [e EXCEPT !.hi = h] =
        [pass |-> e.pass, ci |-> e.ci, len |-> e.len, lo |-> e.lo, hi |-> h]
  BY <1>1 DEF Chunk
<1>4. e.pass = d.pass /\ e.ci = d.ci /\ e.len = d.len /\ e.lo = l
  BY <1>1
<1> QED
  BY <1>2, <1>3, <1>4

(* All pieces of an answer, none of them empty, put together again. *)
Holds(vec, p, ci, len) ==
  /\ vec \in Seq(Chunk) /\ Len(vec) = NumMessages(len)
  /\ \A j \in 1..Len(vec) : vec[j] # Empty /\ vec[j] = Piece(p, ci, len, j - 1)

LEMMA WholeAnswer ==
  ASSUME NEW p \in Pass, NEW ci \in Nat, NEW len \in Nat, NEW vec,
         Holds(vec, p, ci, len)
  PROVE  /\ vec # <<>> /\ Intact(vec)
         /\ vec[1].pass = p /\ vec[1].ci = ci
<1> DEFINE n == NumMessages(len)
<1>1. n \in Nat \ {0}
  BY NumMessagesType
<1>2. \A j \in 1..n :
        /\ vec[j] = [pass |-> p, ci |-> ci, len |-> len, lo |-> vec[j].lo, hi |-> vec[j].hi]
        /\ vec[j].lo = (j - 1) * PayloadSize
        /\ vec[j].hi = IF j = n THEN len ELSE j * PayloadSize
  <2> SUFFICES ASSUME NEW j \in 1..n
               PROVE  /\ vec[j] = [pass |-> p, ci |-> ci, len |-> len,
                                   lo |-> vec[j].lo, hi |-> vec[j].hi]
                      /\ vec[j].lo = (j - 1) * PayloadSize
                      /\ vec[j].hi = IF j = n THEN len ELSE j * PayloadSize
    OBVIOUS
  <2>1. j - 1 \in 0..(n - 1) /\ j - 1 + 1 = j /\ (j - 1 = n - 1 <=> j = n)
    BY <1>1
  <2>2. vec[j] # Empty /\ vec[j] = Piece(p, ci, len, j - 1)
    BY DEF Holds
  <2> HIDE DEF n
  <2>3. LET piece == Piece(p, ci, len, j - 1)
        IN  piece # Empty =>
              /\ piece = [pass |-> p, ci |-> ci, len |-> len,
                          lo |-> piece.lo, hi |-> piece.hi]
              /\ piece.lo = (j - 1) * PayloadSize
              /\ piece.hi = IF j - 1 = n - 1 THEN len ELSE (j - 1 + 1) * PayloadSize
    BY <2>1, PieceFacts DEF n
  <2> QED
    BY <2>1, <2>2, <2>3
<1>3. Len(vec) = n /\ 1 \in 1..n /\ n \in 1..n
  BY <1>1 DEF Holds
<1> HIDE DEF n
<1>4. vec[1].pass = p /\ vec[1].ci = ci /\ vec[1].len = len
  BY <1>2, <1>3
<1>5. ASSUME NEW j \in 1..n
      PROVE  /\ vec[j] = [vec[1] EXCEPT !.lo = vec[j].lo, !.hi = vec[j].hi]
             /\ vec[j].lo = IF j = 1 THEN 0 ELSE vec[j - 1].hi
  <2>1. [vec[1] EXCEPT !.lo = vec[j].lo, !.hi = vec[j].hi] =
          [pass |-> p, ci |-> ci, len |-> len, lo |-> vec[j].lo, hi |-> vec[j].hi]
    <3>1. vec[1] \in Chunk /\ vec[j] \in Chunk
      BY <1>3 DEF Holds
    <3>2. vec[j].lo \in Nat /\ vec[j].hi \in Nat
      BY <3>1 DEF Chunk
    <3> QED
      BY <1>4, <3>1, <3>2, ChunkExcept
  <2>2. vec[j] = [pass |-> p, ci |-> ci, len |-> len, lo |-> vec[j].lo, hi |-> vec[j].hi]
    BY <1>2
  <2>3. j # 1 => j - 1 \in 1..n /\ j - 1 # n
    BY <1>1
  <2>4. vec[j].lo = IF j = 1 THEN 0 ELSE vec[j - 1].hi
    <3>1. CASE j = 1
      <4>1. (1 - 1) * PayloadSize = 0
        BY DEF PayloadSize
      <4> QED
        BY <1>2, <3>1, <4>1
    <3>2. CASE j # 1
      BY <1>2, <2>3, <3>2
    <3> QED
      BY <3>1, <3>2
  <2> QED
    BY <2>1, <2>2, <2>4
<1>6. vec[n].hi = vec[1].len
  BY <1>2, <1>3, <1>4
<1>7. Intact(vec)
  BY <1>3, <1>5, <1>6 DEF Intact
<1>8. vec # <<>>
  BY <1>1, <1>3
<1> QED
  BY <1>4, <1>7, <1>8

-----------------------------------------------------------------------------
(***************************************************************************)
(* What the client has and will get for a command.                         *)
(***************************************************************************)
LEMMA LengthType ==
  ASSUME NEW ci \in Indices, NEW len \in BodyLengths[CommandAt(ci)]
  PROVE  len \in Nat /\ (NoEmptyBody => len # 0)
<1>1. CommandAt(ci) \in Kinds
  BY CommandAtType DEF Indices
<1> QED
  BY <1>1, SessionAssumption DEF NoEmptyBody

(* Steps that leave the answer alone, or lose messages of it. *)
LEMMA SameAnswering ==
  ASSUME NEW c, NEW ci, Answering(c, ci),
         responses'[c][ci] = responses[c][ci], pass'[c] = pass[c],
         \A m \in net' : m.to = c /\ m.ci = ci => m \in net,
         Pending(c, ci)' =>
           Pending(c, ci) /\ \A m \in net : m.to = c /\ m.ci = ci => m \in net'
  PROVE  Answering(c, ci)'
<1>1. CASE Untouched(c, ci) /\ (NoEmptyBody => ~Pending(c, ci))
  <2>1. Untouched(c, ci)'
    BY <1>1 DEF Untouched
  <2> QED
    BY <1>1, <2>1 DEF Answering
<1>2. ASSUME NEW len \in BodyLengths[CommandAt(ci)], Fits(c, ci, len),
             NoEmptyBody /\ Pending(c, ci) => Complete(c, ci, len)
      PROVE  Answering(c, ci)'
  <2>1. Fits(c, ci, len)'
    BY <1>2 DEF Fits
  <2>2. NoEmptyBody /\ Pending(c, ci)' => Complete(c, ci, len)'
    BY <1>2 DEF Complete
  <2> QED
    BY <2>1, <2>2 DEF Answering
<1> QED
  BY <1>1, <1>2 DEF Answering

(* A message that arrives is a piece of the answer the client waits for. *)
LEMMA ArrivingFits ==
  ASSUME SessionInv, AnswerInv, NEW m \in net, pc[m.to] = "parse"
  PROVE  \E len \in BodyLengths[CommandAt(m.ci)] :
           /\ Fits(m.to, m.ci, len)
           /\ NoEmptyBody /\ Pending(m.to, m.ci) => Complete(m.to, m.ci, len)
<1>1. m.to \in Clients /\ m.ci \in Indices /\ pc[m.to] = "parse"
  BY ReceivedFacts
<1>2. Answering(m.to, m.ci) /\ ~Untouched(m.to, m.ci)
  BY <1>1 DEF AnswerInv, Untouched
<1> QED
  BY <1>2 DEF Answering

(* And it goes to its place. *)
LEMMA StoredFits ==
  ASSUME SessionInv, NEW m \in net, NEW len \in Nat, Fits(m.to, m.ci, len), NEW vec,
         vec = Store(responses[m.to][m.ci], m)
  PROVE  LET old == responses[m.to][m.ci]
             piece(j) == Piece(pass[m.to], m.ci, len, j - 1)
         IN  /\ vec \in Seq(Chunk) /\ vec # <<>> /\ Len(vec) = NumMessages(len)
             /\ m.seq + 1 \in 1..NumMessages(len)
             /\ vec[m.seq + 1] = m.data
             /\ m.data = Piece(pass[m.to], m.ci, len, m.seq)
             /\ \A j \in 1..NumMessages(len) :
                  /\ vec[j] \in {Empty, piece(j)}
                  /\ j # m.seq + 1 => vec[j] = IF old = <<>> THEN Empty ELSE old[j]
             /\ IsVectorFull(vec) => Holds(vec, pass[m.to], m.ci, len)
<1> DEFINE old == responses[m.to][m.ci]
           n == NumMessages(len)
           piece(j) == Piece(pass[m.to], m.ci, len, j - 1)
<1>1. /\ m \in Message /\ m.seq \in Nat /\ m.seq < m.num /\ old \in Seq(Chunk)
      /\ pass[m.to] \in Pass
  BY ReceivedFacts
<1>2. /\ m.num = n /\ m.data = Piece(pass[m.to], m.ci, len, m.seq)
      /\ old # <<>> => /\ Len(old) = n
                       /\ \A j \in 1..n : old[j] \in {Empty, piece(j)}
  BY DEF Fits
<1>3. n \in Nat \ {0} /\ Len(old) \in Nat /\ (old = <<>> <=> Len(old) = 0)
  <2>1. n \in Nat \ {0}
    BY NumMessagesType
  <2> HIDE DEF old
  <2>2. Len(old) \in Nat /\ (old = <<>> <=> Len(old) = 0)
    BY <1>1
  <2> QED
    BY <2>1, <2>2
<1>4. \A j \in 1..n : j = m.seq + 1 => m.data = piece(j)
  <2> SUFFICES ASSUME NEW j \in 1..n, j = m.seq + 1 PROVE m.data = piece(j)
    OBVIOUS
  <2>1. j - 1 = m.seq
    BY <1>1
  <2> QED
    BY <1>2, <2>1
<1> HIDE DEF n, piece, old
<1>5. /\ vec \in Seq(Chunk) /\ m.num <= Len(vec) /\ Len(old) <= Len(vec)
      /\ \A j \in 1..Len(vec) :
           vec[j] = IF j = m.seq + 1 THEN m.data
                    ELSE IF j <= Len(old) THEN old[j] ELSE Empty
  <2>1. vec = Store(old, m)
    BY DEF old
  <2>2. /\ Store(old, m) \in Seq(Chunk)
        /\ m.num <= Len(Store(old, m)) /\ Len(old) <= Len(Store(old, m))
        /\ \A j \in 1..Len(Store(old, m)) :
             Store(old, m)[j] = IF j = m.seq + 1 THEN m.data
                                ELSE IF j <= Len(old) THEN old[j] ELSE Empty
    BY <1>1, StoreFacts
  <2> QED
    BY <2>1, <2>2, Zenon
<1>6. Len(vec) = n
  <2>1. Len(vec) = IF Len(old) < m.num THEN m.num ELSE Len(old)
    <3> DEFINE size == IF Len(old) < m.num THEN m.num ELSE Len(old)
               e(i) == IF i = m.seq + 1 THEN m.data
                       ELSE IF i <= Len(old) THEN old[i] ELSE Empty
    <3>1. vec = [i \in 1..size |-> e(i)]
      BY DEF Store, old
    <3>2. size \in Nat
      BY <1>2, <1>3
    <3>3. \A i \in 1..size : e(i) \in Chunk
      BY <1>1, <1>3, EmptyType DEF Message
    <3> HIDE DEF size, e
    <3>4. Len(vec) = size
      BY <3>1, <3>2, <3>3
    <3> QED
      BY <3>4 DEF size
  <2> QED
    BY <1>2, <1>3, <2>1
<1>7. m.seq + 1 \in 1..n
  BY <1>1, <1>2, <1>3
<1>8. \A j \in 1..n : /\ vec[j] \in {Empty, piece(j)}
                      /\ j # m.seq + 1 => vec[j] = IF old = <<>> THEN Empty ELSE old[j]
  BY <1>1, <1>2, <1>3, <1>4, <1>5, <1>6
<1>9. vec[m.seq + 1] = m.data
  BY <1>5, <1>6, <1>7
<1>10. ASSUME IsVectorFull(vec) PROVE Holds(vec, pass[m.to], m.ci, len)
  <2>1. \A j \in 1..Len(vec) : vec[j] # Empty
    BY <1>10 DEF IsVectorFull
  <2>2. \A j \in 1..Len(vec) : vec[j] = Piece(pass[m.to], m.ci, len, j - 1)
    BY <1>6, <1>8, <2>1 DEF piece
  <2> QED
    BY <1>5, <1>6, <2>1, <2>2 DEF Holds, n
<1>11. vec # <<>>
  BY <1>3, <1>5, <1>6
<1> QED
  BY <1>2, <1>5, <1>6, <1>7, <1>8, <1>9, <1>10, <1>11 DEF n, piece, old

-----------------------------------------------------------------------------
(***************************************************************************)
(* AnswerInv, step by step.                                                *)
(***************************************************************************)
LEMMA SameAnswerInv ==
  ASSUME AnswerInv, UNCHANGED <<responses, pass>>, net' \subseteq net,
         \A c \in Clients : pc'[c] = "parse" => pc[c] = "parse",
         \A c \in Clients, ci \in Indices : pc'[c] = "parse" /\ Pending(c, ci)' =>
           Pending(c, ci) /\ \A m \in net : m.to = c /\ m.ci = ci => m \in net'
  PROVE  AnswerInv'
<1> SUFFICES ASSUME NEW c \in Clients, pc'[c] = "parse", NEW ci \in Indices
             PROVE  /\ Answering(c, ci)'
                    /\ responses'[c][ci] # <<>> => ~IsVectorFull(responses'[c][ci])
  BY DEF AnswerInv, IsVectorFull
<1>1. /\ Answering(c, ci)
      /\ responses[c][ci] # <<>> => ~IsVectorFull(responses[c][ci])
  BY DEF AnswerInv
<1>2. Answering(c, ci)'
  BY <1>1, SameAnswering
<1> QED
  BY <1>1, <1>2

LEMMA StartPassAnswerInv ==
  ASSUME SessionInv, AnswerInv, LatestInv, NEW c \in Clients, StartPass(c)
  PROVE  AnswerInv'
<1>1. /\ pc[c] = "send" /\ pc' = [pc EXCEPT ![c] = "parse"]
      /\ answered' = [answered EXCEPT ![c] = {}]
      /\ UNCHANGED <<pass, responses, net, losses, request, commandIndex>>
  BY DEF StartPass, serverVars
<1>2. \A d \in Clients \ {c} : pc'[d] = pc[d] /\ answered'[d] = answered[d]
  BY <1>1 DEF SessionInv, TypeOK
<1> SUFFICES ASSUME NEW d \in Clients, pc'[d] = "parse", NEW ci \in Indices
             PROVE  /\ Answering(d, ci)'
                    /\ responses'[d][ci] # <<>> => ~IsVectorFull(responses'[d][ci])
  BY DEF AnswerInv, IsVectorFull
<1>3. CASE d = c
  <2>1. responses'[c][ci] = <<>> /\ \A m \in net' : m.to # c
    BY <1>1, NoTrace
  <2>2. ~Sent(c, ci)'
    BY <1>1 DEF Sent, LatestInv, SessionInv, TypeOK, Indices
  <2> QED
    BY <1>3, <2>1, <2>2 DEF Answering, Untouched, Pending
<1>4. CASE d # c
  <2>1. /\ Answering(d, ci)
        /\ responses[d][ci] # <<>> => ~IsVectorFull(responses[d][ci])
    BY <1>2, <1>4 DEF AnswerInv
  <2>2. Pending(d, ci)' => Pending(d, ci)
    BY <1>1, <1>2, <1>4 DEF Pending, Sent
  <2>3. Answering(d, ci)'
    BY <1>1, <2>1, <2>2, SameAnswering
  <2> QED
    BY <1>1, <2>1, <2>3
<1> QED
  BY <1>3, <1>4

LEMMA KeepChunkAnswerInv ==
  ASSUME SessionInv, AnswerInv, NEW m \in net, pc[m.to] = "parse",
         KeepChunk(m.to, m), net' = net \ {m}, UNCHANGED <<serverVars, losses>>
  PROVE  AnswerInv'
<1> DEFINE c == m.to
           old == responses[c][m.ci]
           vec == Store(responses[c][m.ci], m)
<1>1. /\ ~IsVectorFull(vec)
      /\ responses' = [responses EXCEPT ![c][m.ci] = vec]
      /\ UNCHANGED <<pass, pc, answered, losses, request, commandIndex>>
  BY DEF KeepChunk, serverVars
<1>2. c \in Clients /\ m.ci \in Indices /\ m.seq \in Nat /\ pass[c] \in Pass
  BY ReceivedFacts
<1>3. /\ responses'[c][m.ci] = vec
      /\ \A d \in Clients, ci \in Indices :
           d # c \/ ci # m.ci => responses'[d][ci] = responses[d][ci]
  BY <1>1, <1>2 DEF SessionInv, TypeOK
<1>4. PICK len \in BodyLengths[CommandAt(m.ci)] :
        /\ Fits(m.to, m.ci, len)
        /\ NoEmptyBody /\ Pending(m.to, m.ci) => Complete(m.to, m.ci, len)
  BY ArrivingFits
<1>5. len \in Nat /\ (NoEmptyBody => len # 0) /\ NumMessages(len) \in Nat \ {0}
  BY <1>2, LengthType, NumMessagesType
<1>6. /\ vec # <<>> /\ Len(vec) = NumMessages(len)
      /\ m.seq + 1 \in 1..NumMessages(len)
      /\ vec[m.seq + 1] = m.data
      /\ m.data = Piece(pass[m.to], m.ci, len, m.seq)
      /\ \A j \in 1..NumMessages(len) :
           /\ vec[j] \in {Empty, Piece(pass[m.to], m.ci, len, j - 1)}
           /\ j # m.seq + 1 => vec[j] = IF old = <<>> THEN Empty ELSE old[j]
  BY <1>4, <1>5, StoredFits
<1>7. Fits(c, m.ci, len)'
  BY <1>1, <1>3, <1>4, <1>6 DEF Fits
<1>8. ASSUME NoEmptyBody, Pending(c, m.ci)' PROVE Complete(c, m.ci, len)'
  <2>1. Complete(c, m.ci, len)
    <3>1. Pending(c, m.ci)
      BY <1>1, <1>8 DEF Pending, Sent
    <3> QED
      BY <1>4, <1>8, <3>1
  <2>2. m.data # Empty
    <3>1. m.seq \in 0..(NumMessages(len) - 1) /\ m.ci \in Nat
      BY <1>2, <1>5, <1>6 DEF Indices
    <3> QED
      BY <1>2, <1>5, <1>6, <1>8, <3>1, PieceFacts
  <2> SUFFICES ASSUME NEW j \in 1..NumMessages(len)
               PROVE  \/ \E k \in net' : k.to = c /\ k.ci = m.ci /\ k.seq = j - 1
                      \/ responses'[c][m.ci] # <<>> /\ responses'[c][m.ci][j] # Empty
    BY DEF Complete
  <2>3. CASE j = m.seq + 1
    BY <1>3, <1>6, <2>2, <2>3
  <2>4. CASE j # m.seq + 1
    <3>1. \/ \E k \in net : k.to = c /\ k.ci = m.ci /\ k.seq = j - 1
          \/ old # <<>> /\ old[j] # Empty
      BY <2>1 DEF Complete
    <3>2. m.seq # j - 1
      BY <1>2, <2>4
    <3>3. old # <<>> => vec[j] = old[j]
      BY <1>6, <2>4
    <3> HIDE DEF vec, old
    <3> QED
      BY <1>3, <1>6, <3>1, <3>2, <3>3
  <2> QED
    BY <2>3, <2>4
<1>9. Answering(c, m.ci)'
  BY <1>4, <1>7, <1>8 DEF Answering
<1> HIDE DEF c, vec, old
<1> SUFFICES ASSUME NEW d \in Clients, pc'[d] = "parse", NEW ci \in Indices
             PROVE  /\ Answering(d, ci)'
                    /\ responses'[d][ci] # <<>> => ~IsVectorFull(responses'[d][ci])
  BY DEF AnswerInv, IsVectorFull
<1>10. CASE d = c /\ ci = m.ci
  BY <1>1, <1>3, <1>9, <1>10
<1>11. CASE d # c \/ ci # m.ci
  <2>1. /\ Answering(d, ci)
        /\ responses[d][ci] # <<>> => ~IsVectorFull(responses[d][ci])
    BY <1>1 DEF AnswerInv
  <2>2. /\ responses'[d][ci] = responses[d][ci] /\ pass'[d] = pass[d]
        /\ \A k \in net' : k \in net
        /\ \A k \in net : k.to = d /\ k.ci = ci => k \in net'
        /\ Pending(d, ci)' => Pending(d, ci)
    BY <1>1, <1>3, <1>11 DEF Pending, Sent, c
  <2>3. Answering(d, ci)'
    BY <2>1, <2>2, SameAnswering
  <2> QED
    BY <2>1, <2>2, <2>3
<1> QED
  BY <1>10, <1>11

LEMMA CompleteResponseAnswerInv ==
  ASSUME SessionInv, AnswerInv, NEW m \in net, pc[m.to] = "parse",
         CompleteResponse(m.to, m), net' = net \ {m}, UNCHANGED <<serverVars, losses>>
  PROVE  AnswerInv'
<1> DEFINE c == m.to
           vec == Store(responses[c][m.ci], m)
<1>1. /\ IsVectorFull(vec)
      /\ responses' = [responses EXCEPT ![c][m.ci] = <<>>]
      /\ answered' = [answered EXCEPT ![c] = @ \cup {m.ci}]
      /\ ContinueOrReturn(c, numCommands[c] - 1)
      /\ UNCHANGED <<losses, request, commandIndex>>
  BY DEF CompleteResponse, serverVars
<1>2. /\ c \in Clients /\ m.ci \in Indices /\ pc[c] = "parse"
      /\ pass[c] \in Pass
  BY ReceivedFacts
<1>3. \A k \in net' : k.to = c => k.ci # m.ci
  BY <1>1, OthersAwaited
<1>4. /\ responses'[c][m.ci] = <<>> /\ m.ci \in answered'[c]
      /\ \A d \in Clients, ci \in Indices :
           d # c \/ ci # m.ci => /\ responses'[d][ci] = responses[d][ci]
                                 /\ ci \in answered[d] => ci \in answered'[d]
  BY <1>1, <1>2 DEF SessionInv, TypeOK
<1>5. \A d \in Clients : pc'[d] = "parse" => pc[d] = "parse" /\ pass'[d] = pass[d]
  <2> SUFFICES ASSUME NEW d \in Clients, pc'[d] = "parse"
               PROVE  pc[d] = "parse" /\ pass'[d] = pass[d]
    OBVIOUS
  <2>1. CASE d = c
    BY <1>1, <1>2, <2>1 DEF ContinueOrReturn, SessionInv, TypeOK
  <2>2. CASE d # c
    BY <1>1, <1>2, <2>2 DEF ContinueOrReturn, SessionInv, TypeOK
  <2> QED
    BY <2>1, <2>2
<1>6. Answering(c, m.ci)'
  BY <1>3, <1>4 DEF Answering, Untouched, Pending
<1> HIDE DEF c, vec
<1> SUFFICES ASSUME NEW d \in Clients, pc'[d] = "parse", NEW ci \in Indices
             PROVE  /\ Answering(d, ci)'
                    /\ responses'[d][ci] # <<>> => ~IsVectorFull(responses'[d][ci])
  BY DEF AnswerInv, IsVectorFull
<1>7. CASE d = c /\ ci = m.ci
  BY <1>4, <1>6, <1>7
<1>8. CASE d # c \/ ci # m.ci
  <2>1. /\ Answering(d, ci)
        /\ responses[d][ci] # <<>> => ~IsVectorFull(responses[d][ci])
    BY <1>5 DEF AnswerInv
  <2>2. /\ responses'[d][ci] = responses[d][ci] /\ pass'[d] = pass[d]
        /\ \A k \in net' : k \in net
        /\ \A k \in net : k.to = d /\ k.ci = ci => k \in net'
        /\ Pending(d, ci)' => Pending(d, ci)
    BY <1>1, <1>4, <1>5, <1>8 DEF Pending, Sent, c
  <2>3. Answering(d, ci)'
    BY <2>1, <2>2, SameAnswering
  <2> QED
    BY <2>1, <2>2, <2>3
<1> QED
  BY <1>7, <1>8

(* sendResponse sends pieces of one answer, in order. *)
LEMMA SentPieces ==
  ASSUME SessionInv, NEW len \in Nat, NEW k \in Nat
  PROVE  /\ \A m \in SendResponse(len, k) :
              /\ m.to = request.from /\ m.ci = commandIndex /\ m.num = NumMessages(len)
              /\ m.seq \in 0..(k - 1)
              /\ m.data = Piece(request.pass, commandIndex, len, m.seq)
         /\ \A i \in 0..(k - 1) : \E m \in SendResponse(len, k) :
              m.to = request.from /\ m.ci = commandIndex /\ m.seq = i
<1>1. ASSUME NEW m \in SendResponse(len, k)
      PROVE  /\ m.to = request.from /\ m.ci = commandIndex /\ m.num = NumMessages(len)
             /\ m.seq \in 0..(k - 1)
             /\ m.data = Piece(request.pass, commandIndex, len, m.seq)
  <2>1. PICK i \in 0..(k - 1) :
          m = [to |-> request.from, ci |-> commandIndex, num |-> NumMessages(len),
               seq |-> i, data |-> ResponseChunk(len, i)]
    BY DEF SendResponse
  <2>2. m.data = ResponseChunk(len, m.seq)
    BY <2>1
  <2> QED
    BY <2>1, <2>2, ChunkIsPiece
<1>2. ASSUME NEW i \in 0..(k - 1)
      PROVE  \E m \in SendResponse(len, k) :
               m.to = request.from /\ m.ci = commandIndex /\ m.seq = i
  <2> DEFINE m == [to |-> request.from, ci |-> commandIndex, num |-> NumMessages(len),
                   seq |-> i, data |-> ResponseChunk(len, i)]
  <2>1. m \in SendResponse(len, k)
    BY DEF SendResponse
  <2>2. m.to = request.from /\ m.ci = commandIndex /\ m.seq = i
    OBVIOUS
  <2> QED
    BY <2>1, <2>2
<1> QED
  BY <1>1, <1>2

(* Both outcomes of a command: all of its messages are sent, or some. *)
LEMMA SendingAnswerInv ==
  ASSUME SessionInv, AnswerInv, server = "serve",
         NEW len \in BodyLengths[Command], NEW k \in Nat,
         net' = net \cup SendResponse(len, k),
         \/ k = NumMessages(len) /\ commandIndex' = commandIndex + 1
         \/ commandIndex' = commandIndex,
         UNCHANGED <<responses, pass, pc, answered, losses, request>>
  PROVE  AnswerInv'
<1>1. /\ request.from \in Clients /\ pass[request.from] = request.pass
      /\ commandIndex \in Indices /\ Indices \subseteq Nat
      /\ len \in Nat /\ NumMessages(len) \in Nat
      /\ Command = CommandAt(commandIndex)
  <2>1. commandIndex \in Indices /\ BodyLengths[Command] \subseteq Nat
    BY TypePart, BodyType, ServedIndex
  <2>2. len \in Nat /\ NumMessages(len) \in Nat
    BY <2>1, NumMessagesType
  <2> QED
    BY <2>1, <2>2 DEF SessionInv, TypeOK, Request, ServingInv, Command, Indices
<1>2. PICK c \in Clients, i \in Indices : c = request.from /\ i = commandIndex
  BY <1>1
<1>3. /\ responses[c][i] = <<>>
      /\ \A m \in net : m.to = c => m.ci # i
  BY <1>1, <1>2 DEF SessionInv, TypeOK, Message, ServingInv
<1>4. /\ \A m \in SendResponse(len, k) :
           /\ m.to = c /\ m.ci = i /\ m.num = NumMessages(len)
           /\ m.data = Piece(pass[c], i, len, m.seq)
      /\ \A j \in 0..(k - 1) : \E m \in SendResponse(len, k) :
           m.to = c /\ m.ci = i /\ m.seq = j
  <2>1. /\ \A m \in SendResponse(len, k) :
             /\ m.to = request.from /\ m.ci = commandIndex /\ m.num = NumMessages(len)
             /\ m.data = Piece(request.pass, commandIndex, len, m.seq)
        /\ \A j \in 0..(k - 1) : \E m \in SendResponse(len, k) :
             m.to = request.from /\ m.ci = commandIndex /\ m.seq = j
    BY <1>1, SentPieces
  <2>2. request.from = c /\ commandIndex = i /\ request.pass = pass[c]
    BY <1>1, <1>2
  <2>3. ASSUME NEW m \in SendResponse(len, k)
        PROVE  /\ m.to = c /\ m.ci = i /\ m.num = NumMessages(len)
               /\ m.data = Piece(pass[c], i, len, m.seq)
    BY <2>1, <2>2, Zenon
  <2>4. ASSUME NEW j \in 0..(k - 1)
        PROVE  \E m \in SendResponse(len, k) : m.to = c /\ m.ci = i /\ m.seq = j
    BY <2>1, <2>2, Zenon
  <2> QED
    BY <2>3, <2>4, Zenon
<1>5. Fits(c, i, len)'
  BY <1>3, <1>4 DEF Fits
<1>6. ASSUME Pending(c, i)' PROVE Complete(c, i, len)'
  <2>1. k = NumMessages(len)
    BY <1>1, <1>2, <1>6 DEF Pending, Sent
  <2>2. \A j \in 1..NumMessages(len) : j - 1 \in 0..(k - 1)
    BY <1>1, <2>1
  <2> QED
    BY <1>4, <2>2 DEF Complete
<1>7. Answering(c, i)'
  BY <1>1, <1>2, <1>5, <1>6 DEF Answering
<1> SUFFICES ASSUME NEW d \in Clients, pc'[d] = "parse", NEW ci \in Indices
             PROVE  /\ Answering(d, ci)'
                    /\ responses'[d][ci] # <<>> => ~IsVectorFull(responses'[d][ci])
  BY DEF AnswerInv, IsVectorFull
<1>8. CASE d = c /\ ci = i
  BY <1>3, <1>7, <1>8
<1>9. CASE d # c \/ ci # i
  <2>1. /\ Answering(d, ci)
        /\ responses[d][ci] # <<>> => ~IsVectorFull(responses[d][ci])
    BY DEF AnswerInv
  <2>2. \A m \in net' : m.to = d /\ m.ci = ci => m \in net
    BY <1>4, <1>9
  <2>3. Pending(d, ci)' => Pending(d, ci)
    BY <1>1, <1>2, <1>9 DEF Pending, Sent
  <2>4. Answering(d, ci)'
    BY <2>1, <2>2, <2>3, SameAnswering
  <2> QED
    BY <2>1, <2>4
<1> QED
  BY <1>8, <1>9

LEMMA StepAnswerInv ==
  ASSUME MaxDup = 0, SessionInv, AnswerInv, LatestInv, [Next]_vars
  PROVE  AnswerInv'
<1>1. CASE \E c \in Clients : StartPass(c)
  BY <1>1, StartPassAnswerInv
<1>2. CASE \E c \in Clients : Receive(c)
  <2>1. PICK c \in Clients : Receive(c)
    BY <1>2
  <2>2. PICK m \in net :
          /\ pc[c] = "parse" /\ m.to = c /\ Deliver(m)
          /\ KeepChunk(c, m) \/ CompleteResponse(c, m)
          /\ UNCHANGED <<serverVars, losses>>
    BY <2>1 DEF Receive
  <2>3. net' = net \ {m}
    BY <2>2 DEF Deliver, SessionInv, TypeOK
  <2> QED
    BY <2>2, <2>3, KeepChunkAnswerInv, CompleteResponseAnswerInv
<1>3. CASE ServeCommand
  <2>1. PICK len \in BodyLengths[Command] :
          net' = net \cup SendResponse(len, NumMessages(len))
    BY <1>3 DEF ServeCommand
  <2>2. NumMessages(len) \in Nat
    BY TypePart, BodyType, NumMessagesType
  <2>3. /\ server = "serve" /\ commandIndex' = commandIndex + 1
        /\ UNCHANGED <<responses, pass, pc, answered, losses, request>>
    BY <1>3 DEF ServeCommand, clientVars
  <2> QED
    BY <2>1, <2>2, <2>3, SendingAnswerInv
<1>4. CASE ServeFails
  <2>1. PICK len \in BodyLengths[Command] :
          \E k \in 0..(NumMessages(len) - 1) : net' = net \cup SendResponse(len, k)
    BY <1>4 DEF ServeFails
  <2>2. PICK k \in 0..(NumMessages(len) - 1) : net' = net \cup SendResponse(len, k)
    BY <2>1
  <2>3. k \in Nat
    OBVIOUS
  <2>4. /\ server = "serve" /\ commandIndex' = commandIndex
        /\ UNCHANGED <<responses, pass, pc, answered, losses, request>>
    BY <1>4 DEF ServeFails, clientVars
  <2> QED
    BY <2>2, <2>3, <2>4, SendingAnswerInv
<1>5. CASE \E c \in Clients : Quits(c)
  <2>1. PICK c \in Clients : Quits(c)
    BY <1>5
  <2>2. /\ pc[c] \in {"send", "parse"} /\ pc' = [pc EXCEPT ![c] = "quit"]
        /\ net' \subseteq net
        /\ UNCHANGED <<responses, pass, answered, losses, request, commandIndex>>
    BY <2>1, QuitStep DEF SessionInv
  <2>3. ASSUME NEW d \in Clients, pc'[d] = "parse" PROVE pc[d] = "parse" /\ d # c
    BY <2>2, <2>3 DEF SessionInv, TypeOK
  <2>4. ASSUME NEW m \in net, m.to # c PROVE m \in net'
    BY <2>1, <2>4 DEF Quits, RequestFails, HandleFails, RecvFails, Deliver, netVars
  <2>5. ASSUME NEW d \in Clients, NEW ci \in Indices, pc'[d] = "parse", Pending(d, ci)'
        PROVE  Pending(d, ci) /\ \A m \in net : m.to = d /\ m.ci = ci => m \in net'
    BY <2>2, <2>3, <2>4, <2>5 DEF Pending, Sent
  <2> QED
    BY <2>2, <2>3, <2>5, SameAnswerInv
<1>6. CASE \/ ReceiveRequest \/ SkipAnswer \/ RefuseCommand \/ ServerStops
           \/ Lose \/ Discard \/ Terminated \/ UNCHANGED vars
  <2>1. UNCHANGED <<responses, pass, pc, answered>> /\ net' \subseteq net
    BY <1>6 DEF ReceiveRequest, SkipAnswer, RefuseCommand, ServerStops, Lose, Discard,
       Terminated, vars, clientVars, netVars
  <2>2. ASSUME NEW c \in Clients, NEW ci \in Indices, pc'[c] = "parse", Pending(c, ci)'
        PROVE  Pending(c, ci) /\ \A m \in net : m.to = c /\ m.ci = ci => m \in net'
    <3>1. losses' = 0 /\ ci < commandIndex' /\ ci \in Nat /\ pc[c] = "parse"
      BY <2>1, <2>2 DEF Pending, Sent, Indices
    <3>2. CASE Discard
      <4>1. \A m \in net : m.to = c => m \in net'
        BY <3>1, <3>2 DEF Discard
      <4>2. UNCHANGED <<pass, answered, losses, request, commandIndex>>
        BY <3>2 DEF Discard, clientVars, serverVars
      <4> QED
        BY <2>2, <4>1, <4>2 DEF Pending, Sent
    <3>3. CASE Lose \/ SkipAnswer
      BY <3>1, <3>3 DEF Lose, SkipAnswer, SessionInv, TypeOK
    <3>4. CASE ReceiveRequest
      BY <3>1, <3>4 DEF ReceiveRequest
    <3>5. CASE RefuseCommand \/ ServerStops \/ Terminated \/ UNCHANGED vars
      <4>1. UNCHANGED <<pass, answered, losses, net, request, commandIndex>>
        BY <3>5 DEF RefuseCommand, ServerStops, Terminated, vars, clientVars,
           serverVars, netVars
      <4> QED
        BY <2>2, <4>1 DEF Pending, Sent
    <3> QED
      BY <1>6, <3>2, <3>3, <3>4, <3>5
  <2> QED
    BY <2>1, <2>2, SameAnswerInv
<1> QED
  BY <1>1, <1>2, <1>3, <1>4, <1>5, <1>6 DEF Next, ClientStep, ServerStep, Quits

LEMMA StepLatestInv ==
  ASSUME MaxDup = 0, SessionInv, LatestInv, [Next]_vars
  PROVE  LatestInv'
<1>0. \A p \in Pass : NumCommands(p) \in Nat \ {0}
  BY SidesRange
<1>1. /\ request.from \in Clients /\ request.pass \in Pass
      /\ \A c \in Clients : pass[c] \in Pass
      /\ pc \in [Clients -> {"send", "parse", "done", "quit"}]
      /\ pass \in [Clients -> Pass]
  BY DEF SessionInv, TypeOK, Request
<1>2. CASE \E c \in Clients : StartPass(c)
  BY <1>1, <1>2 DEF LatestInv, StartPass, serverVars
<1>3. CASE \E c \in Clients : Receive(c)
  <2>1. PICK c \in Clients : \E m \in net :
          /\ KeepChunk(c, m) \/ CompleteResponse(c, m)
          /\ UNCHANGED serverVars
    BY <1>3 DEF Receive
  <2>2. /\ UNCHANGED <<request, commandIndex>>
        /\ \/ UNCHANGED <<pc, pass>>
           \/ pc' = [pc EXCEPT ![c] = "send"] /\ pass' = [pass EXCEPT ![c] = 2]
              /\ pass[c] = 1
           \/ pc' = [pc EXCEPT ![c] = "done"] /\ UNCHANGED pass
    BY <2>1 DEF KeepChunk, CompleteResponse, ContinueOrReturn, serverVars
  <2> QED
    BY <1>1, <2>1, <2>2 DEF LatestInv, Pass
<1>4. CASE ReceiveRequest
  <2>1. PICK r \in requests : request' = r /\ commandIndex' = 0 /\ UNCHANGED <<pc, pass>>
    BY <1>4 DEF ReceiveRequest, clientVars
  <2>2. pass[r.from] = r.pass /\ r.pass \in Pass
    BY DEF SessionInv, TypeOK, Request, PendingInv
  <2>3. 0 < NumCommands(r.pass)
    BY <1>0, <2>2
  <2> QED
    BY <2>1, <2>2, <2>3 DEF LatestInv, Pass
<1>5. CASE ServeCommand \/ SkipAnswer
  <2>1. server = "serve" /\ UNCHANGED <<pc, pass, request>> /\ commandIndex' = commandIndex + 1
    BY <1>5 DEF ServeCommand, SkipAnswer, clientVars
  <2>2. commandIndex + 1 < NumCommands(request.pass)
    BY <2>1, TypePart, ServedIndex
  <2> QED
    BY <2>1, <2>2 DEF LatestInv, SessionInv, ServingInv
<1>6. CASE \/ \E c \in Clients : Quits(c)
           \/ RefuseCommand \/ ServeFails \/ ServerStops
           \/ Lose \/ Discard \/ Terminated \/ UNCHANGED vars
  <2>1. /\ UNCHANGED <<pass, request, commandIndex>>
        /\ pc' = pc \/ \E c \in Clients : pc' = [pc EXCEPT ![c] = "quit"]
    BY <1>6 DEF Quits, RequestFails, HandleFails, RecvFails, RefuseCommand, ServeFails,
       ServerStops, Lose, Discard, Terminated, vars, clientVars, serverVars
  <2> QED
    BY <1>1, <2>1 DEF LatestInv
<1> QED
  BY <1>2, <1>3, <1>4, <1>5, <1>6 DEF Next, ClientStep, ServerStep, Quits

-----------------------------------------------------------------------------
(***************************************************************************)
(* What the client does with a complete answer.                            *)
(***************************************************************************)
Handles(c, kind, k, vec) ==
  \A d \in Clients, f \in Files :
    /\ imageFile'[d][f] =
         IF d = c /\ f = k /\ kind = "IMAGE" THEN vec ELSE imageFile[d][f]
    /\ positionFile'[d][f] =
         IF d = c /\ f = k /\ kind \in PositionKinds
         THEN (IF positionFileWritten[c][k] THEN positionFile[c][k] ELSE {})
                \cup {<<kind, vec>>}
         ELSE positionFile[d][f]
    /\ positionFileWritten'[d][f] =
         IF d = c /\ f = k /\ kind \in PositionKinds THEN TRUE
         ELSE positionFileWritten[d][f]

(* An answer goes to the file of its corner. *)
LEMMA HandlesAtCorner ==
  ASSUME SessionInv, NEW c \in Clients, NEW i \in Indices, NEW vec,
         HandleResponse(c, i, vec)
  PROVE  /\ Handles(c, CommandAt(i), FileNumber(pass[c], i), vec)
         /\ CommandAt(i) \in Shots => FileNumber(pass[c], i) \in Files
<1> DEFINE kind == CommandAt(i)
           k == FileNumber(pass[c], i)
<1>1. /\ imageFile \in [Clients -> [Files -> Seq(Chunk)]]
      /\ positionFile \in [Clients -> [Files -> SUBSET (PositionKinds \X Seq(Chunk))]]
      /\ positionFileWritten \in [Clients -> [Files -> BOOLEAN]]
      /\ pass[c] \in Pass /\ i \in Nat
  BY DEF SessionInv, TypeOK, Indices
<1>2. ResponseKind(i) = IF kind \in Shots THEN kind ELSE "none"
  BY <1>1, KindsAgree DEF Shots
<1>3. kind \in Shots => SideNumber(pass[c], i) = k /\ k \in Files
  BY <1>1, SideIsFile, SideNumberInRange
<1>4. kind # "none" /\ "none" \notin Shots /\ "IMAGE" \notin PositionKinds
  BY <1>1, CommandAtType DEF Kinds, Shots, PositionKinds
<1> HIDE DEF kind, k
<1> SUFFICES Handles(c, kind, k, vec)
  BY <1>3 DEF kind, k
<1>5. CASE kind = "IMAGE"
  <2>1. /\ imageFile' = [imageFile EXCEPT ![c][k] = vec]
        /\ UNCHANGED <<positionFile, positionFileWritten>>
        /\ k \in Files
    BY <1>2, <1>3, <1>4, <1>5 DEF HandleResponse, HandleImage, Shots
  <2>2. \A d \in Clients, f \in Files :
          imageFile'[d][f] = IF d = c /\ f = k THEN vec ELSE imageFile[d][f]
    BY <1>1, <2>1
  <2> QED
    BY <1>4, <1>5, <2>1, <2>2 DEF Handles
<1>6. CASE kind \in PositionKinds
  <2>1. /\ positionFile' =
             [positionFile EXCEPT ![c][k] =
                (IF positionFileWritten[c][k] THEN @ ELSE {}) \cup {<<kind, vec>>}]
        /\ positionFileWritten' = [positionFileWritten EXCEPT ![c][k] = TRUE]
        /\ UNCHANGED imageFile
        /\ k \in Files
    BY <1>2, <1>3, <1>4, <1>6 DEF HandleResponse, WritePositionData, Shots
  <2>2. \A d \in Clients, f \in Files :
          /\ positionFile'[d][f] =
               IF d = c /\ f = k
               THEN (IF positionFileWritten[c][k] THEN positionFile[c][k] ELSE {})
                      \cup {<<kind, vec>>}
               ELSE positionFile[d][f]
          /\ positionFileWritten'[d][f] =
               IF d = c /\ f = k THEN TRUE ELSE positionFileWritten[d][f]
    BY <1>1, <2>1
  <2>3. kind # "IMAGE" /\ \A d \in Clients, f \in Files : imageFile'[d][f] = imageFile[d][f]
    BY <1>4, <1>6, <2>1
  <2>4. \A d \in Clients, f \in Files :
          /\ imageFile'[d][f] =
               IF d = c /\ f = k /\ kind = "IMAGE" THEN vec ELSE imageFile[d][f]
          /\ positionFile'[d][f] =
               IF d = c /\ f = k /\ kind \in PositionKinds
               THEN (IF positionFileWritten[c][k] THEN positionFile[c][k] ELSE {})
                      \cup {<<kind, vec>>}
               ELSE positionFile[d][f]
          /\ positionFileWritten'[d][f] =
               IF d = c /\ f = k /\ kind \in PositionKinds THEN TRUE
               ELSE positionFileWritten[d][f]
    BY <1>6, <2>2, <2>3, Zenon
  <2> QED
    BY <2>4, Zenon DEF Handles
<1>7. CASE kind \notin Shots
  <2>1. UNCHANGED <<imageFile, positionFile, positionFileWritten>>
    BY <1>2, <1>4, <1>7 DEF HandleResponse, Shots, PositionKinds
  <2> QED
    BY <1>7, <2>1 DEF Handles, Shots
<1> QED
  BY <1>5, <1>6, <1>7 DEF Shots

(* A complete answer is the whole answer to its command, of this pass. *)
LEMMA HandledIsWhole ==
  ASSUME SessionInv, AnswerInv, NEW m \in net, pc[m.to] = "parse", NEW vec,
         vec = Store(responses[m.to][m.ci], m), IsVectorFull(vec)
  PROVE  /\ vec \in Seq(Chunk) /\ vec # <<>> /\ Intact(vec)
         /\ vec[1].pass = pass[m.to] /\ vec[1].ci = m.ci
<1>1. PICK len \in BodyLengths[CommandAt(m.ci)] : Fits(m.to, m.ci, len)
  BY ArrivingFits
<1>2. m.ci \in Indices /\ m.ci \in Nat /\ pass[m.to] \in Pass
  BY ReceivedFacts DEF Indices
<1>3. len \in Nat
  BY <1>2, LengthType
<1>4. Holds(vec, pass[m.to], m.ci, len)
  BY <1>1, <1>3, StoredFits
<1>5. vec # <<>> /\ Intact(vec) /\ vec[1].pass = pass[m.to] /\ vec[1].ci = m.ci
  <2>1. \A p \in Pass, ci, l \in Nat : Holds(vec, p, ci, l) =>
          vec # <<>> /\ Intact(vec) /\ vec[1].pass = p /\ vec[1].ci = ci
    BY WholeAnswer
  <2> QED
    BY <1>2, <1>3, <1>4, <2>1
<1> QED
  BY <1>4, <1>5 DEF Holds

(* The loop goes on, or everything the server was asked is answered. *)
LEMMA AnsweredAfter ==
  ASSUME SessionInv, NEW m \in net, pc[m.to] = "parse", CompleteResponse(m.to, m)
  PROVE  LET c == m.to
         IN  /\ answered'[c] = answered[c] \cup {m.ci}
             /\ \A d \in Clients \ {c} :
                  answered'[d] = answered[d] /\ pc'[d] = pc[d] /\ pass'[d] = pass[d]
             /\ \/ pc'[c] = "parse" /\ pass'[c] = pass[c]
                \/ /\ answered'[c] = 0..LastServed(pass[c])
                   /\ pass'[c] = 2
                   /\ pc'[c] = IF pass[c] = 1 THEN "send" ELSE "done"
<1> DEFINE c == m.to
           left == numCommands[c] - 1
<1>1. /\ answered' = [answered EXCEPT ![c] = @ \cup {m.ci}]
      /\ ContinueOrReturn(c, left)
  BY DEF CompleteResponse
<1>2. /\ c \in Clients /\ m.ci \in Indices /\ m.ci \in Nat
      /\ pc[c] = "parse" /\ m.ci \notin answered[c] /\ m.ci <= LastServed(pass[c])
      /\ pass[c] \in Pass
  BY ReceivedFacts DEF Indices
<1>3. /\ numCommands[c] = NumCommands(pass[c]) - Cardinality(answered[c])
      /\ answered[c] \in SUBSET (0..LastServed(pass[c]))
  BY <1>2 DEF SessionInv, CountInv, Counted
<1>4. /\ answered[c] \cup {m.ci} \in SUBSET (0..LastServed(pass[c]))
      /\ Cardinality(answered[c]) \in Nat
      /\ Cardinality(answered[c] \cup {m.ci}) = Cardinality(answered[c]) + 1
      /\ NumCommands(pass[c]) \in Nat
  <2>1. NumCommands(pass[c]) \in Nat
    BY <1>2, SidesRange
  <2>2. /\ answered[c] \cup {m.ci} \in SUBSET (0..LastServed(pass[c]))
        /\ Cardinality(answered[c]) \in Nat
        /\ Cardinality(answered[c] \cup {m.ci}) = Cardinality(answered[c]) + 1
    BY <1>2, <1>3, OneMoreAnswered
  <2> QED
    BY <2>1, <2>2
<1>5. answered'[c] = answered[c] \cup {m.ci}
  BY <1>1, <1>2 DEF SessionInv, TypeOK
<1>6. left = NumCommands(pass[c]) - Cardinality(answered'[c]) /\ left \in Int
  BY <1>3, <1>4, <1>5
<1>7. /\ pc \in [Clients -> {"send", "parse", "done", "quit"}]
      /\ pass \in [Clients -> Pass]
      /\ answered \in [Clients -> SUBSET Indices]
  BY DEF SessionInv, TypeOK
<1>8. left <= 1 => answered'[c] = 0..LastServed(pass[c])
  BY <1>2, <1>4, <1>5, <1>6, AllAnswered
<1> HIDE DEF c, left
<1>9. \A d \in Clients \ {c} :
        answered'[d] = answered[d] /\ pc'[d] = pc[d] /\ pass'[d] = pass[d]
  BY <1>1, <1>7 DEF ContinueOrReturn
<1>10. \/ pc'[c] = "parse" /\ pass'[c] = pass[c]
       \/ /\ left <= 1 /\ pass'[c] = 2
          /\ pc'[c] = IF pass[c] = 1 THEN "send" ELSE "done"
  BY <1>1, <1>2, <1>7 DEF ContinueOrReturn
<1> QED
  BY <1>5, <1>8, <1>9, <1>10 DEF c
-----------------------------------------------------------------------------
(***************************************************************************)
(* The files, step by step.                                                *)
(***************************************************************************)
RecordsInv == FilesFaithful /\ OneCornerPerFile /\ WrittenInv /\ RecordedInv

LEMMA SameRecordsInv ==
  ASSUME RecordsInv,
         UNCHANGED <<imageFile, positionFile, positionFileWritten, answered, pass>>,
         \A c \in Clients : pc'[c] = pc[c] \/ pc'[c] = "quit"
  PROVE  RecordsInv'
<1>1. FilesFaithful'
  BY DEF RecordsInv, FilesFaithful
<1>2. OneCornerPerFile'
  BY DEF RecordsInv, OneCornerPerFile
<1>3. WrittenInv'
  BY DEF RecordsInv, WrittenInv
<1>4. RecordedInv'
  BY DEF RecordsInv, RecordedInv, Recorded
<1> QED
  BY <1>1, <1>2, <1>3, <1>4 DEF RecordsInv

LEMMA StartPassRecordsInv ==
  ASSUME SessionInv, RecordsInv, NEW c \in Clients, StartPass(c)
  PROVE  RecordsInv'
<1>1. /\ pc[c] = "send" /\ pc' = [pc EXCEPT ![c] = "parse"]
      /\ answered' = [answered EXCEPT ![c] = {}]
      /\ positionFileWritten' =
           [positionFileWritten EXCEPT ![c] = [k \in Files |-> FALSE]]
      /\ UNCHANGED <<imageFile, positionFile, pass>>
  BY DEF StartPass
<1>2. /\ pc'[c] = "parse" /\ answered'[c] = {}
      /\ \A k \in Files : ~positionFileWritten'[c][k]
      /\ \A d \in Clients \ {c} :
           /\ pc'[d] = pc[d] /\ answered'[d] = answered[d]
           /\ positionFileWritten'[d] = positionFileWritten[d]
  BY <1>1 DEF SessionInv, TypeOK
<1>3. FilesFaithful' /\ OneCornerPerFile'
  BY <1>1 DEF RecordsInv, FilesFaithful, OneCornerPerFile
<1>4. \A d \in Clients : pass[d] \in Int
  BY DEF SessionInv, TypeOK, Pass
<1>5. WrittenInv'
  <2> SUFFICES ASSUME NEW d \in Clients, NEW k \in Files, NEW line \in positionFile[d][k]
               PROVE  /\ line[2][1].pass \in 1..pass[d]
                      /\ pc'[d] = "send" => line[2][1].pass < pass[d]
                      /\ pc'[d] = "parse" =>
                           /\ positionFileWritten'[d][k] <=> line[2][1].pass = pass[d]
                           /\ positionFileWritten'[d][k] => line[2][1].ci \in answered'[d]
    BY <1>1 DEF WrittenInv
  <2>1. /\ line[2][1].pass \in 1..pass[d]
        /\ pc[d] = "send" => line[2][1].pass < pass[d]
        /\ pc[d] = "parse" =>
             /\ positionFileWritten[d][k] <=> line[2][1].pass = pass[d]
             /\ positionFileWritten[d][k] => line[2][1].ci \in answered[d]
    BY DEF RecordsInv, WrittenInv
  <2>2. CASE d = c
    <3>1. line[2][1].pass # pass[d]
      BY <1>1, <1>4, <2>1, <2>2
    <3> QED
      BY <1>2, <2>1, <2>2, <3>1
  <2>3. CASE d # c
    BY <1>2, <2>1, <2>3
  <2> QED
    BY <2>2, <2>3
<1>6. RecordedInv'
  BY <1>1, <1>2 DEF RecordsInv, RecordedInv, Recorded
<1> QED
  BY <1>3, <1>5, <1>6 DEF RecordsInv

(* The commands that were sent have an index, and their records a file. *)
LEMMA ShotFile ==
  ASSUME NEW p \in Pass, NEW i \in Indices, CommandAt(i) \in Shots
  PROVE  /\ Waypoint[i] \in Nat
         /\ FileNumber(p, i) \in Files
         /\ FileNumber(1, i) = Waypoint[i]
         /\ FileNumber(2, i) = Waypoint[i] + N
<1>1. i \in Nat
  BY DEF Indices
<1>2. Waypoint[i] \in Nat
  BY <1>1, CornerAt, ShotAt
<1>3. FileNumber(p, i) \in Files
  BY SideIsFile, SideNumberInRange
<1> QED
  BY <1>2, <1>3 DEF FileNumber

LEMMA ServedAreIndices ==
  \A p \in Pass : 0..LastServed(p) \subseteq Indices
BY NumCommandsRange, LastServedType DEF Indices

LEMMA CompleteResponseRecordsInv ==
  ASSUME SessionInv, AnswerInv, RecordsInv, NEW m \in net, pc[m.to] = "parse",
         CompleteResponse(m.to, m)
  PROVE  RecordsInv'
<1>1. /\ m.to \in Clients /\ m.ci \in Indices /\ pc[m.to] = "parse"
      /\ pass[m.to] \in Pass /\ m.ci \notin answered[m.to]
  BY ReceivedFacts
<1>2. PICK c \in Clients, i \in Indices, p \in Pass :
        c = m.to /\ i = m.ci /\ p = pass[m.to]
  BY <1>1
<1> DEFINE kind == CommandAt(i)
           k == FileNumber(p, i)
<1>3. PICK vec : /\ vec = Store(responses[m.to][m.ci], m)
                 /\ IsVectorFull(vec)
                 /\ HandleResponse(m.to, m.ci, vec)
  BY DEF CompleteResponse
<1>4. vec # <<>> /\ Intact(vec) /\ vec[1].pass = p /\ vec[1].ci = i
  BY <1>2, <1>3, HandledIsWhole
<1>5. /\ Handles(c, kind, k, vec)
      /\ kind \in Shots => k \in Files
  BY <1>1, <1>2, <1>3, HandlesAtCorner
<1>6. /\ answered'[c] = answered[c] \cup {i}
      /\ \A d \in Clients \ {c} :
           answered'[d] = answered[d] /\ pc'[d] = pc[d] /\ pass'[d] = pass[d]
      /\ \/ pc'[c] = "parse" /\ pass'[c] = p
         \/ /\ answered'[c] = 0..LastServed(p)
            /\ pass'[c] = 2
            /\ pc'[c] = IF p = 1 THEN "send" ELSE "done"
  BY <1>2, AnsweredAfter
<1>7. Belongs(vec, kind, k)
  BY <1>4 DEF Belongs
<1>8. /\ pc[c] = "parse" /\ pass[c] = p /\ i \notin answered[c]
      /\ answered[c] \subseteq Indices
  BY <1>1, <1>2 DEF SessionInv, TypeOK
<1>9. \A d \in Clients, f \in Files : \A line \in positionFile'[d][f] :
        \/ /\ line \in positionFile[d][f]
           /\ d = c /\ f = k /\ kind \in PositionKinds => positionFileWritten[c][k]
        \/ d = c /\ f = k /\ kind \in PositionKinds /\ line = <<kind, vec>>
  <2> SUFFICES ASSUME NEW d \in Clients, NEW f \in Files, NEW line \in positionFile'[d][f]
               PROVE  \/ /\ line \in positionFile[d][f]
                         /\ d = c /\ f = k /\ kind \in PositionKinds =>
                              positionFileWritten[c][k]
                      \/ d = c /\ f = k /\ kind \in PositionKinds /\ line = <<kind, vec>>
    OBVIOUS
  <2> HIDE DEF kind, k
  <2>1. positionFile'[d][f] =
          IF d = c /\ f = k /\ kind \in PositionKinds
          THEN (IF positionFileWritten[c][k] THEN positionFile[c][k] ELSE {})
                 \cup {<<kind, vec>>}
          ELSE positionFile[d][f]
    BY <1>5 DEF Handles
  <2> QED
    BY <2>1
<1> HIDE DEF kind, k
(* FilesFaithful: what is written now belongs where it is written. *)
<1>10. FilesFaithful'
  <2> SUFFICES ASSUME NEW d \in Clients, NEW f \in Files
               PROVE  /\ imageFile'[d][f] # <<>> => Belongs(imageFile'[d][f], "IMAGE", f)
                      /\ \A line \in positionFile'[d][f] : Belongs(line[2], line[1], f)
    BY DEF FilesFaithful, Belongs, Intact
  <2>1. /\ imageFile[d][f] # <<>> => Belongs(imageFile[d][f], "IMAGE", f)
        /\ \A line \in positionFile[d][f] : Belongs(line[2], line[1], f)
    BY DEF RecordsInv, FilesFaithful
  <2>2. imageFile'[d][f] = IF d = c /\ f = k /\ kind = "IMAGE" THEN vec ELSE imageFile[d][f]
    BY <1>5 DEF Handles
  <2>3. ASSUME NEW line \in positionFile'[d][f] PROVE Belongs(line[2], line[1], f)
    <3>1. CASE line \in positionFile[d][f]
      BY <2>1, <3>1
    <3>2. CASE f = k /\ line = <<kind, vec>>
      BY <1>7, <3>2
    <3> QED
      BY <1>9, <3>1, <3>2
  <2> QED
    BY <1>7, <2>1, <2>2, <2>3
(* A line that is kept is of this pass, and of another kind. *)
<1>11. ASSUME kind \in PositionKinds, k \in Files, positionFileWritten[c][k],
              NEW line \in positionFile[c][k]
       PROVE  line[2][1].pass = p /\ line[1] # kind
  <2> DEFINE chunk == line[2][1]
  <2>1. chunk.pass = p /\ chunk.ci \in answered[c]
    BY <1>8, <1>11 DEF RecordsInv, WrittenInv
  <2>2. CommandAt(chunk.ci) = line[1] /\ FileNumber(chunk.pass, chunk.ci) = k
    BY <1>11 DEF RecordsInv, FilesFaithful, Belongs
  <2>3. ASSUME line[1] = kind PROVE FALSE
    <3>1. /\ chunk.ci \in Indices /\ chunk.ci # i
          /\ CommandAt(chunk.ci) = CommandAt(i) /\ CommandAt(i) \in Shots
      BY <1>8, <1>11, <2>1, <2>2, <2>3 DEF kind, Shots
    <3>2. FileNumber(p, chunk.ci) = FileNumber(p, i)
      BY <2>1, <2>2 DEF k
    <3>3. Waypoint[chunk.ci] \in Nat /\ Waypoint[i] \in Nat
      BY <3>1, ShotFile
    <3>4. Waypoint[chunk.ci] = Waypoint[i]
      BY <3>2, <3>3, PolygonAssumption DEF FileNumber
    <3> QED
      BY <3>1, <3>4, OneShotPerCorner
  <2> QED
    BY <2>1, <2>3
<1>12. OneCornerPerFile'
  <2> SUFFICES ASSUME NEW d \in Clients, NEW f \in Files,
                      NEW a \in positionFile'[d][f], NEW b \in positionFile'[d][f]
               PROVE  a[2][1].pass = b[2][1].pass /\ (a[1] = b[1] => a = b)
    BY DEF OneCornerPerFile
  <2>1. CASE a \in positionFile[d][f] /\ b \in positionFile[d][f]
    BY <2>1 DEF RecordsInv, OneCornerPerFile
  <2>2. CASE d = c /\ f = k /\ kind \in PositionKinds
    <3>1. ASSUME NEW line \in positionFile'[c][k], line # <<kind, vec>>
          PROVE  line[2][1].pass = p /\ line[1] # kind
      BY <1>9, <1>11, <2>2, <3>1
    <3>2. <<kind, vec>>[1] = kind /\ <<kind, vec>>[2][1].pass = p
      BY <1>4
    <3>3. CASE a # <<kind, vec>> /\ b # <<kind, vec>>
      <4>1. a \in positionFile[d][f] /\ b \in positionFile[d][f]
        BY <1>9, <3>3
      <4> QED
        BY <2>1, <4>1
    <3> QED
      BY <2>2, <3>1, <3>2, <3>3
  <2> QED
    BY <1>9, <2>1, <2>2
<1>13. \A f \in Files : positionFileWritten'[c][f] <=>
         (f = k /\ kind \in PositionKinds) \/ positionFileWritten[c][f]
  BY <1>5 DEF Handles
(* WrittenInv: the first write of a pass leaves lines of this pass only. *)
<1>14. WrittenInv'
  <2> SUFFICES ASSUME NEW d \in Clients, NEW f \in Files, NEW line \in positionFile'[d][f]
               PROVE  /\ line[2][1].pass \in 1..pass'[d]
                      /\ pc'[d] = "send" => line[2][1].pass < pass'[d]
                      /\ pc'[d] = "parse" =>
                           /\ positionFileWritten'[d][f] <=> line[2][1].pass = pass'[d]
                           /\ positionFileWritten'[d][f] => line[2][1].ci \in answered'[d]
    BY DEF WrittenInv
  <2> DEFINE chunk == line[2][1]
  <2>1. CASE d # c
    <3>1. line \in positionFile[d][f] /\ positionFileWritten'[d][f] = positionFileWritten[d][f]
      BY <1>5, <1>9, <2>1 DEF Handles
    <3> QED
      BY <1>6, <2>1, <3>1 DEF RecordsInv, WrittenInv
  <2>2. CASE /\ d = c /\ line \in positionFile[c][f]
             /\ f = k /\ kind \in PositionKinds => positionFileWritten[c][k]
    <3>1. /\ chunk.pass \in 1..p
          /\ positionFileWritten[c][f] <=> chunk.pass = p
          /\ positionFileWritten[c][f] => chunk.ci \in answered[c]
      BY <1>8, <2>2 DEF RecordsInv, WrittenInv
    <3>2. positionFileWritten'[c][f] <=> positionFileWritten[c][f]
      BY <1>13, <2>2
    <3> HIDE DEF chunk
    <3>3. p = 1 => chunk.pass < 2
      BY <3>1
    <3> QED
      BY <1>6, <2>2, <3>1, <3>2, <3>3 DEF Pass, chunk
  <2>3. CASE d = c /\ f = k /\ kind \in PositionKinds /\ line = <<kind, vec>>
    <3>1. chunk.pass = p /\ chunk.ci = i
      BY <1>4, <2>3
    <3>2. positionFileWritten'[c][f]
      BY <1>13, <2>3
    <3> HIDE DEF chunk
    <3> QED
      BY <1>6, <2>3, <3>1, <3>2 DEF Pass, chunk
  <2> QED
    BY <1>9, <2>1, <2>2, <2>3
(* RecordedInv: what the answer brings is recorded, and nothing else is lost. *)
<1>15. ASSUME NEW j \in Indices, NEW q \in Pass, Recorded(c, q, j),
              q = p => (CommandAt(j) \in PositionKinds =>
                          positionFileWritten[c][FileNumber(q, j)]),
              q # p => Waypoint[j] < N /\ p = 2
       PROVE  Recorded(c, q, j)'
  <2> DEFINE f == FileNumber(q, j)
  <2>1. SUFFICES ASSUME CommandAt(j) \in Shots PROVE Recorded(c, q, j)'
    BY DEF Recorded, Shots
  <2>2. f \in Files
    BY <2>1, ShotFile
  <2> HIDE DEF f
  <2>3. ASSUME imageFile[c][f] # <<>> PROVE imageFile'[c][f] # <<>>
    BY <1>4, <1>5, <2>2, <2>3 DEF Handles
  <2>4. ASSUME CommandAt(j) \in PositionKinds PROVE positionFile[c][f] \subseteq positionFile'[c][f]
    <3>1. f = k /\ kind \in PositionKinds => positionFileWritten[c][f]
      <4>1. CASE q = p
        BY <1>15, <2>4, <4>1 DEF f
      <4>2. CASE q # p
        <5>1. q = 1 /\ p = 2 /\ Waypoint[j] < N
          BY <1>15, <4>2 DEF Pass
        <5>2. f = Waypoint[j] /\ Waypoint[j] \in Nat
          BY <2>1, <5>1, ShotFile DEF f
        <5>3. kind \in PositionKinds => k = Waypoint[i] + N /\ Waypoint[i] \in Nat
          BY <5>1, ShotFile DEF k, kind, Shots
        <5> QED
          BY <5>1, <5>2, <5>3, PolygonAssumption
      <4> QED
        BY <4>1, <4>2
    <3>2. positionFile'[c][f] =
            IF f = k /\ kind \in PositionKinds
            THEN (IF positionFileWritten[c][k] THEN positionFile[c][k] ELSE {})
                   \cup {<<kind, vec>>}
            ELSE positionFile[c][f]
      BY <1>5, <2>2 DEF Handles
    <3> QED
      BY <3>1, <3>2
  <2> QED
    BY <2>3, <2>4, <1>15 DEF Recorded, f
<1>16. ASSUME NEW j \in answered'[c]
       PROVE  /\ Recorded(c, p, j)'
              /\ CommandAt(j) \in PositionKinds => positionFileWritten'[c][FileNumber(p, j)]
  <2>1. CASE j = i
    <3>1. CommandAt(j) = kind /\ FileNumber(p, j) = k
      BY <2>1 DEF kind, k
    <3>2. kind = "IMAGE" => imageFile'[c][k] # <<>>
      BY <1>4, <1>5 DEF Handles, Shots
    <3>3. kind \in PositionKinds =>
            <<kind, vec>> \in positionFile'[c][k] /\ positionFileWritten'[c][k]
      BY <1>5, <1>13 DEF Handles, Shots
    <3>4. <<kind, vec>>[1] = kind
      OBVIOUS
    <3> QED
      BY <3>1, <3>2, <3>3, <3>4 DEF Recorded
  <2>2. CASE j \in answered[c]
    <3>1. /\ Recorded(c, p, j) /\ j \in Indices
          /\ CommandAt(j) \in PositionKinds => positionFileWritten[c][FileNumber(p, j)]
      BY <1>8, <2>2 DEF RecordsInv, RecordedInv
    <3>2. Recorded(c, p, j)'
      BY <1>15, <3>1
    <3>3. CommandAt(j) \in PositionKinds => FileNumber(p, j) \in Files
      BY <3>1, ShotFile DEF Shots
    <3> QED
      BY <1>13, <3>1, <3>2, <3>3
  <2> QED
    BY <1>6, <2>1, <2>2
<1>17. RecordedInv'
  <2> SUFFICES ASSUME NEW d \in Clients
               PROVE  /\ pc'[d] = "parse" => \A j \in answered'[d] :
                           /\ Recorded(d, pass[d], j)'
                           /\ CommandAt(j) \in PositionKinds =>
                                positionFileWritten'[d][FileNumber(pass'[d], j)]
                      /\ pass'[d] = 2 => \A j \in 0..LastServed(1) :
                           Waypoint[j] < N => Recorded(d, 1, j)'
                      /\ pc'[d] = "done" =>
                           pass'[d] = 2 /\ \A j \in 0..LastServed(2) : Recorded(d, 2, j)'
    BY DEF RecordedInv, Recorded
  <2>1. CASE d # c
    <3>1. \A f \in Files : /\ imageFile'[d][f] = imageFile[d][f]
                           /\ positionFile'[d][f] = positionFile[d][f]
                           /\ positionFileWritten'[d][f] = positionFileWritten[d][f]
      BY <1>5, <2>1 DEF Handles
    <3>2. answered'[d] = answered[d] /\ pc'[d] = pc[d] /\ pass'[d] = pass[d]
      BY <1>6, <2>1
    <3>3. \A q \in Pass, j \in Indices : Recorded(d, q, j) => Recorded(d, q, j)'
      <4> SUFFICES ASSUME NEW q \in Pass, NEW j \in Indices, Recorded(d, q, j)
                   PROVE  Recorded(d, q, j)'
        OBVIOUS
      <4>1. CommandAt(j) \in Shots => FileNumber(q, j) \in Files
        BY ShotFile
      <4> QED
        BY <3>1, <4>1 DEF Recorded, Shots
    <3>4. pass[d] \in Pass /\ answered[d] \subseteq Indices /\ 1 \in Pass /\ 2 \in Pass
      BY DEF SessionInv, TypeOK, Pass
    <3>5. \A q \in Pass, j \in Indices :
            CommandAt(j) \in PositionKinds => FileNumber(q, j) \in Files
      BY ShotFile DEF Shots
    <3>6. 0..LastServed(1) \subseteq Indices /\ 0..LastServed(2) \subseteq Indices
      BY <3>4, ServedAreIndices
    <3>7. /\ pc[d] = "parse" => \A j \in answered[d] :
               /\ Recorded(d, pass[d], j)
               /\ CommandAt(j) \in PositionKinds =>
                    positionFileWritten[d][FileNumber(pass[d], j)]
          /\ pass[d] = 2 => \A j \in 0..LastServed(1) :
               Waypoint[j] < N => Recorded(d, 1, j)
          /\ pc[d] = "done" =>
               pass[d] = 2 /\ \A j \in 0..LastServed(2) : Recorded(d, 2, j)
      BY DEF RecordsInv, RecordedInv
    <3> QED
      BY <3>1, <3>2, <3>3, <3>4, <3>5, <3>6, <3>7
  <2>2. CASE d = c
    <3>1. ASSUME pc'[c] = "parse", NEW j \in answered'[c]
          PROVE  /\ Recorded(c, pass[c], j)'
                 /\ CommandAt(j) \in PositionKinds =>
                      positionFileWritten'[c][FileNumber(pass'[c], j)]
      <4>1. pass'[c] = p
        BY <1>6, <3>1
      <4> QED
        BY <1>16, <4>1 DEF Recorded
    <3>2. ASSUME pass'[c] = 2, NEW j \in 0..LastServed(1), Waypoint[j] < N
          PROVE  Recorded(c, 1, j)'
      <4>1. CASE p = 1
        BY <1>6, <1>16, <3>2, <4>1
      <4>2. CASE p = 2
        <5>1. Recorded(c, 1, j)
          BY <1>8, <3>2, <4>2 DEF RecordsInv, RecordedInv
        <5>2. j \in Indices /\ 1 \in Pass
          BY ServedAreIndices DEF Pass
        <5> QED
          BY <1>15, <3>2, <4>2, <5>1, <5>2
      <4> QED
        BY <4>1, <4>2 DEF Pass
    <3>3. pc'[c] = "done" => pass'[c] = 2 /\ \A j \in 0..LastServed(2) : Recorded(c, 2, j)'
      BY <1>6, <1>16 DEF Pass
    <3> QED
      BY <2>2, <3>1, <3>2, <3>3
  <2> QED
    BY <2>1, <2>2
<1> QED
  BY <1>10, <1>12, <1>14, <1>17 DEF RecordsInv

(* A position file is cleared by a client that exits before it wrote to it. *)
LEMMA ClearedRecordsInv ==
  ASSUME SessionInv, RecordsInv, NEW c \in Clients, NEW i \in Indices,
         pc[c] = "parse", pc' = [pc EXCEPT ![c] = "quit"],
         ResponseKind(i) \in PositionKinds,
         positionFile' = [positionFile EXCEPT ![c][SideNumber(pass[c], i)] = {}],
         UNCHANGED <<imageFile, positionFileWritten, answered, pass>>
  PROVE  RecordsInv'
<1>1. CommandAt(i) \in Shots
  <2>1. ResponseKind(i) # "none"
    BY DEF PositionKinds
  <2> QED
    BY <2>1, KindsAgree DEF Shots, Indices
<1>2. /\ pass[c] \in Pass /\ i \in Nat
      /\ pc \in [Clients -> {"send", "parse", "done", "quit"}]
      /\ positionFile \in [Clients -> [Files -> SUBSET (PositionKinds \X Seq(Chunk))]]
  BY DEF SessionInv, TypeOK, Indices
<1>3. PICK k : k = FileNumber(pass[c], i) /\ k = SideNumber(pass[c], i) /\ k \in Files
  BY <1>1, <1>2, SideIsFile, SideNumberInRange
<1>4. \A d \in Clients, f \in Files :
        /\ positionFile'[d][f] = IF d = c /\ f = k THEN {} ELSE positionFile[d][f]
        /\ pc'[d] = IF d = c THEN "quit" ELSE pc[d]
  BY <1>2, <1>3
<1>5. FilesFaithful'
  BY <1>4 DEF RecordsInv, FilesFaithful
<1>6. OneCornerPerFile'
  BY <1>4 DEF RecordsInv, OneCornerPerFile
<1>7. WrittenInv'
  BY <1>4 DEF RecordsInv, WrittenInv
<1>8. ASSUME NEW d \in Clients, NEW p \in Pass, NEW j \in Indices, Recorded(d, p, j),
             d # c \/ (pass[c] = 2 /\ p = 1 /\ Waypoint[j] < N)
      PROVE  Recorded(d, p, j)'
  <2>1. CommandAt(j) \in Shots => FileNumber(p, j) \in Files
    BY ShotFile
  <2>2. ASSUME d = c, CommandAt(j) \in Shots PROVE FileNumber(p, j) # k
    <3>1. p = 1 /\ pass[c] = 2 /\ Waypoint[j] < N
      BY <1>8, <2>2
    <3>2. FileNumber(p, j) = Waypoint[j] /\ Waypoint[j] \in Nat
      BY <2>2, <3>1, ShotFile
    <3>3. k = Waypoint[i] + N /\ Waypoint[i] \in Nat
      BY <1>1, <1>2, <1>3, <3>1, ShotFile
    <3> QED
      BY <3>1, <3>2, <3>3, PolygonAssumption
  <2>3. CommandAt(j) \in PositionKinds =>
          positionFile'[d][FileNumber(p, j)] = positionFile[d][FileNumber(p, j)]
    BY <1>4, <2>1, <2>2 DEF Shots
  <2> QED
    BY <1>8, <2>3 DEF Recorded
<1>9. RecordedInv'
  <2> SUFFICES ASSUME NEW d \in Clients
               PROVE  /\ pc'[d] = "parse" => \A j \in answered'[d] :
                           /\ Recorded(d, pass[d], j)'
                           /\ CommandAt(j) \in PositionKinds =>
                                positionFileWritten'[d][FileNumber(pass'[d], j)]
                      /\ pass'[d] = 2 => \A j \in 0..LastServed(1) :
                           Waypoint[j] < N => Recorded(d, 1, j)'
                      /\ pc'[d] = "done" =>
                           pass'[d] = 2 /\ \A j \in 0..LastServed(2) : Recorded(d, 2, j)'
    BY DEF RecordedInv, Recorded
  <2>1. /\ 1 \in Pass /\ 2 \in Pass /\ pass[d] \in Pass /\ answered[d] \subseteq Indices
        /\ 0..LastServed(1) \subseteq Indices /\ 0..LastServed(2) \subseteq Indices
    BY ServedAreIndices DEF SessionInv, TypeOK, Pass
  <2>2. /\ pc[d] = "parse" => \A j \in answered[d] :
             /\ Recorded(d, pass[d], j)
             /\ CommandAt(j) \in PositionKinds =>
                  positionFileWritten[d][FileNumber(pass[d], j)]
        /\ pass[d] = 2 => \A j \in 0..LastServed(1) :
             Waypoint[j] < N => Recorded(d, 1, j)
        /\ pc[d] = "done" =>
             pass[d] = 2 /\ \A j \in 0..LastServed(2) : Recorded(d, 2, j)
    BY DEF RecordsInv, RecordedInv
  <2>3. CASE d # c
    <3>1. pc'[d] = pc[d] /\ pass'[d] = pass[d] /\ answered'[d] = answered[d]
      BY <1>2, <2>3
    <3> QED
      BY <1>8, <2>1, <2>2, <2>3, <3>1
  <2>4. CASE d = c
    <3>1. pc'[c] = "quit" /\ pass'[c] = pass[c]
      BY <1>2
    <3> QED
      BY <1>8, <2>1, <2>2, <2>4, <3>1
  <2> QED
    BY <2>3, <2>4
<1> QED
  BY <1>5, <1>6, <1>7, <1>9 DEF RecordsInv

LEMMA StepRecordsInv ==
  ASSUME MaxDup = 0, SessionInv, AnswerInv, RecordsInv, [Next]_vars
  PROVE  RecordsInv'
<1>1. CASE \E c \in Clients : StartPass(c)
  BY <1>1, StartPassRecordsInv
<1>2. CASE \E c \in Clients : Receive(c)
  <2>1. PICK c \in Clients : Receive(c)
    BY <1>2
  <2>2. PICK m \in net : /\ pc[c] = "parse" /\ m.to = c
                         /\ KeepChunk(c, m) \/ CompleteResponse(c, m)
    BY <2>1 DEF Receive
  <2>3. CASE KeepChunk(c, m)
    <3>1. UNCHANGED <<imageFile, positionFile, positionFileWritten, answered, pass, pc>>
      BY <2>3 DEF KeepChunk
    <3> QED
      BY <3>1, SameRecordsInv
  <2>4. CASE CompleteResponse(c, m)
    BY <2>2, <2>4, CompleteResponseRecordsInv
  <2> QED
    BY <2>2, <2>3, <2>4
<1>3. CASE ServerStep \/ Lose \/ Discard \/ Terminated \/ UNCHANGED vars
  <2>1. UNCHANGED clientVars
    BY <1>3 DEF ServerStep, ReceiveRequest, ServeCommand, SkipAnswer, RefuseCommand,
       ServeFails, ServerStops, Lose, Discard, Terminated, vars
  <2>2. /\ UNCHANGED <<imageFile, positionFile, positionFileWritten, answered, pass>>
        /\ UNCHANGED pc
    BY <2>1 DEF clientVars
  <2> QED
    BY <2>2, SameRecordsInv
<1>4. CASE \E c \in Clients : Quits(c)
  <2>1. PICK c \in Clients : Quits(c)
    BY <1>4
  <2>2. /\ UNCHANGED <<imageFile, positionFileWritten, answered, pass>>
        /\ pc' = [pc EXCEPT ![c] = "quit"]
    BY <2>1, QuitStep DEF SessionInv
  <2>3. CASE UNCHANGED positionFile
    <3>1. \A d \in Clients : pc'[d] = pc[d] \/ pc'[d] = "quit"
      BY <2>2 DEF SessionInv, TypeOK
    <3> QED
      BY <2>2, <2>3, <3>1, SameRecordsInv
  <2>4. CASE ~UNCHANGED positionFile
    <3>1. HandleFails(c)
      BY <2>1, <2>4 DEF Quits, RequestFails, RecvFails
    <3>2. PICK m \in net :
            /\ pc[c] = "parse" /\ ResponseKind(m.ci) \in PositionKinds
            /\ positionFile' = [positionFile EXCEPT ![c][SideNumber(pass[c], m.ci)] = {}]
      BY <2>4, <3>1 DEF HandleFails
    <3>3. m.ci \in Indices
      BY DEF SessionInv, TypeOK
    <3> QED
      BY <2>2, <3>2, <3>3, ClearedRecordsInv
  <2> QED
    BY <2>3, <2>4
<1> QED
  BY <1>1, <1>2, <1>3, <1>4 DEF Next, ClientStep, Quits


-----------------------------------------------------------------------------
LEMMA InitFilesInv == Init => FilesInv
<1> SUFFICES ASSUME Init PROVE FilesInv
  OBVIOUS
<1>1. AnswerInv
  BY DEF Init, AnswerInv
<1>2. LatestInv
  <2>1. NumCommands(1) \in Nat \ {0}
    BY SidesRange DEF Pass
  <2> QED
    BY <2>1 DEF Init, LatestInv
<1>3. FilesFaithful /\ OneCornerPerFile /\ WrittenInv
  BY DEF Init, FilesFaithful, OneCornerPerFile, WrittenInv
<1>4. RecordedInv
  BY DEF Init, RecordedInv
<1> QED
  BY <1>1, <1>2, <1>3, <1>4 DEF FilesInv

(***************************************************************************)
(* Whatever the network loses and whatever fails, the parts of an answer   *)
(* end up in their places, and the files hold what has been answered.      *)
(***************************************************************************)
THEOREM FilesInStep == ASSUME MaxDup = 0 PROVE Spec => []FilesInv
<1>1. Init => FilesInv
  BY InitFilesInv
<1>2. SessionInv /\ FilesInv /\ [Next]_vars => FilesInv'
  BY StepAnswerInv, StepLatestInv, StepRecordsInv DEF FilesInv, RecordsInv
<1> QED
  BY <1>1, <1>2, StaysInStep, PTL DEF Spec

(***************************************************************************)
(* Every file holds, complete and in order, an answer to a command of the  *)
(* right kind at the corner its number stands for.                         *)
(***************************************************************************)
THEOREM FilesAreFaithful == ASSUME MaxDup = 0 PROVE Spec => []FilesFaithful
<1>1. FilesInv => FilesFaithful
  BY DEF FilesInv
<1> QED
  BY <1>1, FilesInStep, PTL

(***************************************************************************)
(* A position file never mixes two corners or two passes, and has at most  *)
(* one line of a kind.                                                     *)
(***************************************************************************)
THEOREM FilesAreUnmixed == ASSUME MaxDup = 0 PROVE Spec => []OneCornerPerFile
<1>1. FilesInv => OneCornerPerFile
  BY DEF FilesInv
<1> QED
  BY <1>1, FilesInStep, PTL

(* Every file number of a pass has a command of each kind the server serves. *)
LEMMA ShotOfFile ==
  ASSUME NEW k \in 0..(2 * N - 1), NEW kind \in Shots
  PROVE  \E p \in Pass : \E i \in 0..LastServed(p) :
           /\ i \in Indices /\ CommandAt(i) = kind /\ FileNumber(p, i) = k
           /\ p = 1 => Waypoint[i] < N
<1> DEFINE p == IF k < N THEN 1 ELSE 2
           w == IF k < N THEN k ELSE k - N
           i == IndexOf(kind, w)
<1>1. /\ p \in Pass /\ w \in Nat /\ w <= N - 1
      /\ k = w + (IF p = 1 THEN 0 ELSE N)
      /\ 1 \in Pass /\ 2 \in Pass
  BY PolygonAssumption DEF Pass
<1>2. LastServed(p) \in Nat /\ 8 * N - 6 <= LastServed(p)
  BY <1>1, PolygonAssumption DEF LastServed, NumCommands, Sides, Pass
<1> HIDE DEF p, w
<1>3. i \in Nat /\ CommandAt(i) = kind /\ (i + 4) \div 8 = w
  BY <1>1, ShotIndex
<1>4. i <= 8 * N - 7
  <2>1. PlaceOf(kind) \in {0, 1, 2, 3}
    BY DEF PlaceOf, Shots, PositionKinds
  <2> QED
    BY <1>1, <2>1, PolygonAssumption DEF IndexOf
<1>5. i \in 0..LastServed(p)
  BY <1>2, <1>3, <1>4, PolygonAssumption
<1>6. i \in Indices
  BY <1>1, <1>5, ServedAreIndices
<1> HIDE DEF i
<1>7. Waypoint[i] = w
  BY <1>3, <1>6, CornerAt
<1>8. FileNumber(p, i) = k
  BY <1>1, <1>7 DEF FileNumber
<1>9. p = 1 => Waypoint[i] < N
  BY <1>1, <1>7, PolygonAssumption
<1> QED
  BY <1>1, <1>3, <1>5, <1>6, <1>8, <1>9

(***************************************************************************)
(* A client that is done has an image and three position lines under each  *)
(* of the 2N file numbers: it counted the right answers, put them where    *)
(* they belong, and the second pass overwrote none of the first but where  *)
(* both use a number.                                                      *)
(***************************************************************************)
THEOREM DoneIsComplete == ASSUME MaxDup = 0 PROVE Spec => []DoneMeansComplete
<1>1. SessionInv /\ FilesInv => DoneMeansComplete
  <2> SUFFICES ASSUME SessionInv, FilesInv, NEW c \in Clients, pc[c] = "done",
                      NEW k \in 0..(2 * N - 1)
               PROVE  /\ imageFile[c][k] # <<>>
                      /\ {line[1] : line \in positionFile[c][k]} = PositionKinds
    BY DEF DoneMeansComplete
  <2>1. /\ \A i \in 0..LastServed(1) : Waypoint[i] < N => Recorded(c, 1, i)
        /\ \A i \in 0..LastServed(2) : Recorded(c, 2, i)
    BY DEF FilesInv, RecordedInv
  <2>2. ASSUME NEW kind \in Shots
        PROVE  /\ kind = "IMAGE" => imageFile[c][k] # <<>>
               /\ kind \in PositionKinds => \E line \in positionFile[c][k] : line[1] = kind
    <3>1. PICK p \in Pass : \E i \in 0..LastServed(p) :
            /\ i \in Indices /\ CommandAt(i) = kind /\ FileNumber(p, i) = k
            /\ p = 1 => Waypoint[i] < N
      BY ShotOfFile
    <3>2. PICK i \in 0..LastServed(p) :
            /\ CommandAt(i) = kind /\ FileNumber(p, i) = k
            /\ p = 1 => Waypoint[i] < N
      BY <3>1
    <3>3. Recorded(c, p, i)
      BY <2>1, <3>2 DEF Pass
    <3> QED
      BY <3>2, <3>3 DEF Recorded
  <2>3. k \in Files
    BY PolygonAssumption DEF Files, MaxFiles
  <2>4. positionFile[c][k] \subseteq PositionKinds \X Seq(Chunk)
    BY <2>3 DEF SessionInv, TypeOK
  <2>5. \A line \in positionFile[c][k] : line[1] \in PositionKinds
    BY <2>4
  <2>6. \A kind \in PositionKinds : \E line \in positionFile[c][k] : line[1] = kind
    BY <2>2 DEF Shots
  <2>7. {line[1] : line \in positionFile[c][k]} = PositionKinds
    BY <2>5, <2>6
  <2> QED
    BY <2>2, <2>7 DEF Shots
<1> QED
  BY <1>1, StaysInStep, FilesInStep, PTL

(***************************************************************************)
(* If every command has an answer of at least a byte, an answer of which   *)
(* nothing was lost and nothing is still to come has been handled.         *)
(***************************************************************************)
THEOREM ArrivedAreHandled ==
  ASSUME MaxDup = 0, NoEmptyBody PROVE Spec => []ArrivedIsHandled
<1>1. SessionInv /\ FilesInv => ArrivedIsHandled
  <2> SUFFICES ASSUME SessionInv, FilesInv, NEW c \in Clients,
                      pc[c] = "parse", request.from = c, request.pass = pass[c],
                      losses = 0, NEW ci \in 0..(commandIndex - 1),
                      ci \notin answered[c], \A m \in net : m.to # c \/ m.ci # ci
               PROVE  FALSE
    BY DEF ArrivedIsHandled
  <2>1. /\ commandIndex \in Nat /\ pass[c] \in Pass
        /\ commandIndex < NumCommands(pass[c])
    BY DEF SessionInv, TypeOK, FilesInv, LatestInv
  <2>2. ci \in Indices /\ ci < commandIndex
    BY <2>1, NumCommandsRange DEF Indices
  <2>3. /\ Answering(c, ci)
        /\ responses[c][ci] # <<>> => ~IsVectorFull(responses[c][ci])
    BY <2>2 DEF FilesInv, AnswerInv
  <2>4. Pending(c, ci)
    BY <2>2 DEF Pending, Sent
  <2>5. PICK len \in BodyLengths[CommandAt(ci)] :
          Fits(c, ci, len) /\ Complete(c, ci, len)
    BY <2>3, <2>4 DEF Answering
  <2>6. NumMessages(len) \in Nat \ {0}
    BY <2>2, LengthType, NumMessagesType
  <2>7. \A j \in 1..NumMessages(len) :
          responses[c][ci] # <<>> /\ responses[c][ci][j] # Empty
    BY <2>5 DEF Complete
  <2>8. responses[c][ci] # <<>> /\ Len(responses[c][ci]) = NumMessages(len)
    BY <2>5, <2>6, <2>7 DEF Fits
  <2>9. IsVectorFull(responses[c][ci])
    BY <2>7, <2>8 DEF IsVectorFull
  <2> QED
    BY <2>3, <2>8, <2>9
<1> QED
  BY <1>1, StaysInStep, FilesInStep, PTL
=============================================================================
