----------------------------- MODULE TraceProofs ------------------------------
(***************************************************************************)
(* PolygonSession implements PolygonTrace: every step of a client is one   *)
(* of PolygonTrace or changes nothing a reader of its files can see.       *)
(***************************************************************************)
EXTENDS TraceRefinement, FilesProofs

(* PolygonTrace's constant operators are those of PolygonSession. *)
LEMMA SameTraceOperators ==
  /\ Trace!Files = Files
  /\ Trace!PositionKinds = PositionKinds
  /\ \A p : Trace!Snapshots(p) = Shots \X (0..Sides(p))
  /\ \A p, w : Trace!FileNumber(p, w) = IF p = 1 THEN w ELSE w + N
BY DEF Trace!Files, Files, Trace!MaxFiles, MaxFiles, Trace!PositionKinds, PositionKinds,
   Trace!Snapshots, Shots, Trace!Sides, Sides, Trace!FileNumber

-----------------------------------------------------------------------------
(***************************************************************************)
(* What a pass has to record.                                              *)
(***************************************************************************)
LEMMA SnapshotFacts ==
  ASSUME NEW p \in Pass
  PROVE  /\ SnapshotIndices[p] \subseteq 0..LastServed(p)
         /\ SnapshotIndices[p] \subseteq Indices
         /\ \A i \in 0..LastServed(p) : i \in SnapshotIndices[p] <=> CommandAt(i) \in Shots
<1>1. /\ SnapshotIndices[p] = {i \in 0..(NumCommands(p) - 1) : CommandAt(i) \in Shots}
      /\ LastServed(p) \in Nat /\ NumCommands(p) - 1 = LastServed(p) + 1
      /\ LastServed(p) + 1 = 8 * Sides(p) + 3 /\ Sides(p) \in 3..8
  BY SidesRange, LastServedType DEF SnapshotIndices, Shots
<1>2. CommandAt(LastServed(p) + 1) \notin Shots
  <2>1. \A j \in Nat : ~(j < 4) /\ (j - 4) % 8 = 7 => CommandAt(j) = "STOP"
    BY DEF CommandAt, SideCommands
  <2>2. ~(LastServed(p) + 1 < 4) /\ (LastServed(p) + 1 - 4) % 8 = 7
    BY <1>1
  <2>3. CommandAt(LastServed(p) + 1) = "STOP"
    BY <1>1, <2>1, <2>2
  <2> QED
    BY <2>3 DEF Shots, PositionKinds
<1>3. SnapshotIndices[p] \subseteq 0..LastServed(p)
  <2> SUFFICES ASSUME NEW i \in SnapshotIndices[p] PROVE i \in 0..LastServed(p)
    OBVIOUS
  <2>1. i \in 0..(LastServed(p) + 1) /\ CommandAt(i) \in Shots
    BY <1>1
  <2>2. i # LastServed(p) + 1
    BY <1>2, <2>1
  <2> QED
    BY <1>1, <2>1, <2>2
<1>4. 0..LastServed(p) \subseteq Indices
  BY ServedAreIndices
<1>5. \A i \in 0..LastServed(p) : i \in SnapshotIndices[p] <=> CommandAt(i) \in Shots
  BY <1>1
<1> QED
  BY <1>3, <1>4, <1>5

(* Its commands record all kinds at all of its corners. *)
LEMMA AllSnapshots ==
  ASSUME NEW p \in Pass
  PROVE  {Snapshot[i] : i \in SnapshotIndices[p]} = Shots \X (0..Sides(p))
<1>1. /\ LastServed(p) = 8 * Sides(p) + 2 /\ Sides(p) \in 3..8
      /\ \A i \in SnapshotIndices[p] : i \in 0..LastServed(p) /\ i \in Indices
      /\ \A i \in 0..LastServed(p) :
           i \in Indices /\ (i \in SnapshotIndices[p] <=> CommandAt(i) \in Shots)
  BY SidesRange, LastServedType, SnapshotFacts, ServedAreIndices
<1>2. ASSUME NEW i \in SnapshotIndices[p]
      PROVE  Snapshot[i] \in Shots \X (0..Sides(p))
  <2>1. i \in Indices /\ i \in 0..LastServed(p) /\ CommandAt(i) \in Shots
    BY <1>1
  <2>2. Waypoint[i] = (i + 4) \div 8
    BY <2>1, CornerAt
  <2>3. Waypoint[i] \in 0..Sides(p)
    BY <1>1, <2>1, <2>2
  <2> QED
    BY <2>1, <2>3 DEF Snapshot
<1>3. ASSUME NEW kind \in Shots, NEW w \in 0..Sides(p)
      PROVE  \E i \in SnapshotIndices[p] : Snapshot[i] = <<kind, w>>
  <2> DEFINE i == IndexOf(kind, w)
  <2>1. w \in Nat
    OBVIOUS
  <2>2. i \in Nat /\ CommandAt(i) = kind /\ (i + 4) \div 8 = w
    BY <2>1, ShotIndex
  <2>3. i <= LastServed(p)
    <3>1. PlaceOf(kind) \in {0, 1, 2, 3}
      BY DEF PlaceOf, Shots, PositionKinds
    <3> QED
      BY <1>1, <3>1 DEF IndexOf
  <2> HIDE DEF i
  <2>4. i \in SnapshotIndices[p] /\ i \in Indices
    BY <1>1, <2>2, <2>3
  <2>5. Waypoint[i] = w
    BY <2>2, <2>4, CornerAt
  <2>6. Snapshot[i] = <<kind, w>>
    BY <2>2, <2>4, <2>5 DEF Snapshot
  <2> QED
    BY <2>4, <2>6
<1> QED
  BY <1>2, <1>3

(* And each of them once. *)
LEMMA SnapshotsDiffer ==
  ASSUME NEW i \in Indices, NEW j \in Indices, CommandAt(i) \in Shots,
         Snapshot[i] = Snapshot[j]
  PROVE  i = j
<1>1. CommandAt(i) = CommandAt(j) /\ Waypoint[i] = Waypoint[j]
  BY DEF Snapshot
<1> QED
  BY <1>1, OneShotPerCorner

-----------------------------------------------------------------------------
LEMMA InitTraces == Init => Trace!Init
<1> SUFFICES ASSUME Init PROVE Trace!Init
  OBVIOUS
<1>1. AbsToRecord = [c \in Clients |-> {}]
  BY DEF Init, AbsToRecord, Left
<1>2. AbsImages = [c \in Clients |-> [k \in Files |-> <<>>]]
  BY DEF Init, AbsImages, Shown
<1>3. AbsPositions = [c \in Clients |-> [k \in Files |-> {}]]
  BY DEF Init, AbsPositions
<1> QED
  BY <1>1, <1>2, <1>3, SameTraceOperators DEF Init, Trace!Init

(* Steps of the server, of the network, and those that keep a chunk. *)
LEMMA OthersStutter ==
  ASSUME UNCHANGED <<pass, pc, answered, imageFile, positionFile>>
  PROVE  UNCHANGED Trace!vars
<1>1. AbsToRecord' = AbsToRecord
  BY DEF AbsToRecord, Left, Unanswered
<1>2. AbsImages' = AbsImages /\ AbsPositions' = AbsPositions
  BY DEF AbsImages, AbsPositions
<1> QED
  BY <1>1, <1>2 DEF Trace!vars

LEMMA StartPassBegins ==
  ASSUME SessionInv, NEW c \in Clients, StartPass(c)
  PROVE  Trace!Begin(c)
<1>1. /\ pc[c] = "send" /\ pc' = [pc EXCEPT ![c] = "parse"]
      /\ answered' = [answered EXCEPT ![c] = {}]
      /\ UNCHANGED <<pass, imageFile, positionFile>>
  BY DEF StartPass
<1>2. /\ pc'[c] = "parse" /\ answered'[c] = {}
      /\ \A d \in Clients \ {c} : pc'[d] = pc[d] /\ answered'[d] = answered[d]
      /\ pass[c] \in Pass
  BY <1>1 DEF SessionInv, TypeOK
<1>3. Left(c)' = Shots \X (0..Sides(pass[c]))
  <2>1. Left(c)' = {Snapshot[i] : i \in SnapshotIndices[pass[c]]}
    BY <1>1, <1>2 DEF Left, Unanswered
  <2> QED
    BY <1>2, <2>1, AllSnapshots
<1>4. \A d \in Clients \ {c} : Left(d)' = Left(d)
  BY <1>1, <1>2 DEF Left, Unanswered
<1>5. AbsToRecord' = [AbsToRecord EXCEPT ![c] = Trace!Snapshots(pass[c])]
  BY <1>3, <1>4, SameTraceOperators DEF AbsToRecord
<1>6. AbsImages' = AbsImages /\ AbsPositions' = AbsPositions
  BY <1>1 DEF AbsImages, AbsPositions
<1> QED
  BY <1>1, <1>5, <1>6 DEF Trace!Begin

(***************************************************************************)
(* A client that exits gives up, and a position file it has just cleared   *)
(* is one it was to write to in this pass.                                 *)
(***************************************************************************)
LEMMA QuitGivesUp ==
  ASSUME SessionInv, FilesInv, NEW c \in Clients, Quits(c)
  PROVE  Trace!GiveUp(c)
<1>1. /\ pc[c] \in {"send", "parse"} /\ pc' = [pc EXCEPT ![c] = "quit"]
      /\ UNCHANGED <<pass, answered, imageFile>>
  BY QuitStep DEF SessionInv
<1>2. /\ pc'[c] = "quit" /\ \A d \in Clients \ {c} : pc'[d] = pc[d]
      /\ pass[c] \in Pass
  BY <1>1 DEF SessionInv, TypeOK
<1>3. AbsToRecord' = [AbsToRecord EXCEPT ![c] = {}]
  <2>1. Left(c)' = {} /\ \A d \in Clients \ {c} : Left(d)' = Left(d)
    BY <1>1, <1>2 DEF Left, Unanswered
  <2>2. AbsToRecord' = [d \in Clients |-> Left(d)']
    BY DEF AbsToRecord
  <2>3. AbsToRecord = [d \in Clients |-> Left(d)]
    BY DEF AbsToRecord
  <2> QED
    BY <2>1, <2>2, <2>3
<1>4. AbsImages' = AbsImages
  BY <1>1 DEF AbsImages
<1>5. CASE UNCHANGED positionFile
  <2>1. AbsPositions' = AbsPositions
    BY <1>5 DEF AbsPositions
  <2> QED
    BY <1>1, <1>3, <1>4, <2>1 DEF Trace!GiveUp
<1>6. CASE ~UNCHANGED positionFile
  <2>1. PICK m \in net :
          /\ m.to = c /\ pc[c] = "parse" /\ ResponseKind(m.ci) \in PositionKinds
          /\ ~positionFileWritten[c][SideNumber(pass[c], m.ci)]
          /\ positionFile' = [positionFile EXCEPT ![c][SideNumber(pass[c], m.ci)] = {}]
    BY <1>6 DEF Quits, RequestFails, RecvFails, HandleFails
  <2>2. PICK i \in Indices : i = m.ci
    BY DEF SessionInv, TypeOK
  <2>3. i \in Nat /\ i \notin answered[c] /\ i \in 0..LastServed(pass[c])
    <3>1. i \in Nat /\ LastServed(pass[c]) \in Nat
      BY <1>2, LastServedType DEF Indices
    <3> QED
      BY <2>1, <2>2, <3>1, ReceivedFacts
  <2>4. CommandAt(i) \in Shots
    <3>1. ResponseKind(i) # "none"
      BY <2>1, <2>2 DEF PositionKinds
    <3> QED
      BY <2>3, <3>1, KindsAgree DEF Shots
  <2>5. Snapshot[i] \in AbsToRecord[c] /\ Snapshot[i][2] = Waypoint[i]
    <3>1. i \in SnapshotIndices[pass[c]]
      BY <1>2, <2>3, <2>4, SnapshotFacts
    <3> QED
      BY <2>1, <2>3, <3>1 DEF AbsToRecord, Left, Unanswered, Snapshot
  <2>6. PICK k \in Files : /\ k = SideNumber(pass[c], i)
                           /\ k = Trace!FileNumber(pass[c], Waypoint[i])
    <3>1. SideNumber(pass[c], i) = FileNumber(pass[c], i)
      BY <1>2, <2>4, SideIsFile
    <3>2. FileNumber(pass[c], i) \in Files /\ Waypoint[i] \in Nat
      BY <1>2, <2>4, ShotFile
    <3>3. FileNumber(pass[c], i) = Trace!FileNumber(pass[c], Waypoint[i])
      BY <3>2, SameTraceOperators, PolygonAssumption DEF FileNumber
    <3> QED
      BY <3>1, <3>2, <3>3
  <2>7. \A d \in Clients, f \in Files :
          positionFile'[d][f] = IF d = c /\ f = k THEN {} ELSE positionFile[d][f]
    BY <2>1, <2>2, <2>6 DEF SessionInv, TypeOK
  <2>8. {line \in AbsPositions[c][k] : line[2] = pass[c]} = {}
    <3>1. \A line \in positionFile[c][k] : line[2][1].pass # pass[c]
      BY <2>1, <2>2, <2>6 DEF FilesInv, WrittenInv
    <3>2. \A line : Told(line)[2] = line[2][1].pass
      BY DEF Told
    <3> QED
      BY <3>1, <3>2 DEF AbsPositions
  <2>9. AbsPositions' = [AbsPositions EXCEPT ![c][k] = {}]
    <3>1. ASSUME NEW d \in Clients, NEW f \in Files
          PROVE  {Told(line) : line \in positionFile'[d][f]} =
                   IF d = c /\ f = k THEN {}
                   ELSE {Told(line) : line \in positionFile[d][f]}
      BY <2>7
    <3>2. AbsPositions' =
            [d \in Clients |-> [f \in Files |-> {Told(line) : line \in positionFile'[d][f]}]]
      BY DEF AbsPositions, Told
    <3> QED
      BY <3>1, <3>2 DEF AbsPositions
  <2> QED
    BY <1>1, <1>3, <1>4, <2>5, <2>6, <2>8, <2>9 DEF Trace!GiveUp
<1> QED
  BY <1>5, <1>6

(***************************************************************************)
(* A complete response takes what it answers off the list, and the client  *)
(* goes on when the list is empty.                                         *)
(***************************************************************************)
LEMMA CompleteTakesOff ==
  ASSUME SessionInv, NEW m \in net, pc[m.to] = "parse", CompleteResponse(m.to, m)
  PROVE  LET c == m.to
             i == m.ci
         IN  /\ \A d \in Clients \ {c} : Left(d)' = Left(d)
             /\ Left(c)' = Left(c) \ {Snapshot[i]}
             /\ CommandAt(i) \in Shots <=> Snapshot[i] \in Left(c)
             /\ \/ UNCHANGED <<pass, pc>>
                \/ Left(c)' = {} /\ Trace!GoOn(c)
<1>1. /\ m.to \in Clients /\ m.ci \in Indices /\ pc[m.to] = "parse"
      /\ pass[m.to] \in Pass /\ m.ci \notin answered[m.to]
      /\ m.ci \in 0..LastServed(pass[m.to])
  <2>1. m.ci \in Nat /\ \A p \in Pass : LastServed(p) \in Nat
    BY ReceivedFacts, LastServedType DEF Indices
  <2> QED
    BY <2>1, ReceivedFacts
<1>2. PICK c \in Clients, i \in Indices, p \in Pass :
        c = m.to /\ i = m.ci /\ p = pass[m.to]
  BY <1>1
<1>3. /\ answered'[c] = answered[c] \cup {i}
      /\ \A d \in Clients \ {c} :
           answered'[d] = answered[d] /\ pc'[d] = pc[d] /\ pass'[d] = pass[d]
      /\ \/ pc'[c] = "parse" /\ pass'[c] = p
         \/ /\ answered'[c] = 0..LastServed(p)
            /\ pass'[c] = 2
            /\ pc'[c] = IF p = 1 THEN "send" ELSE "done"
  BY <1>2, AnsweredAfter
<1>4. /\ pc[c] = "parse" /\ pass[c] = p /\ i \notin answered[c]
      /\ i \in 0..LastServed(p)
  BY <1>1, <1>2
<1>5. /\ SnapshotIndices[p] \subseteq 0..LastServed(p)
      /\ SnapshotIndices[p] \subseteq Indices
      /\ i \in SnapshotIndices[p] <=> CommandAt(i) \in Shots
      /\ \A j \in SnapshotIndices[p] : CommandAt(j) \in Shots
  BY <1>4, SnapshotFacts
<1>6. Left(c) = {Snapshot[j] : j \in SnapshotIndices[p] \ answered[c]}
  BY <1>4 DEF Left, Unanswered
<1>7. \A j \in SnapshotIndices[p] : Snapshot[j] = Snapshot[i] => j = i
  BY <1>5, SnapshotsDiffer
<1>8. Left(c) \ {Snapshot[i]} = {Snapshot[j] : j \in SnapshotIndices[p] \ answered'[c]}
  BY <1>3, <1>6, <1>7
<1>9. CommandAt(i) \in Shots <=> Snapshot[i] \in Left(c)
  BY <1>4, <1>5, <1>6, <1>7
<1>10. Left(c)' = Left(c) \ {Snapshot[i]}
  <2>1. CASE pc'[c] = "parse" /\ pass'[c] = p
    BY <1>8, <2>1 DEF Left, Unanswered
  <2>2. CASE answered'[c] = 0..LastServed(p) /\ pc'[c] \in {"send", "done"}
    <3>1. SnapshotIndices[p] \ answered'[c] = {}
      BY <1>5, <2>2
    <3>2. Left(c)' = {}
      BY <2>2 DEF Left
    <3> QED
      BY <1>8, <3>1, <3>2
  <2> QED
    BY <1>3, <2>1, <2>2
<1>11. \A d \in Clients \ {c} : Left(d)' = Left(d)
  BY <1>3 DEF Left, Unanswered
<1>12. UNCHANGED <<pass, pc>> \/ (Left(c)' = {} /\ Trace!GoOn(c))
  <2> DEFINE left == numCommands[c] - 1
  <2>1. ContinueOrReturn(c, left)
    BY <1>2 DEF CompleteResponse
  <2>2. CASE UNCHANGED <<pass, pc>>
    BY <2>2
  <2>3. CASE pass[c] = 1 /\ pc' = [pc EXCEPT ![c] = "send"] /\ pass' = [pass EXCEPT ![c] = 2]
    <3>1. pc'[c] = "send"
      BY <2>3 DEF SessionInv, TypeOK
    <3> QED
      BY <2>3, <3>1 DEF Left, Trace!GoOn
  <2>4. CASE pass[c] = 2 /\ pc' = [pc EXCEPT ![c] = "done"] /\ UNCHANGED pass
    <3>1. pc'[c] = "done"
      BY <2>4 DEF SessionInv, TypeOK
    <3> QED
      BY <2>4, <3>1 DEF Left, Trace!GoOn
  <2> QED
    BY <2>1, <2>2, <2>3, <2>4 DEF ContinueOrReturn
<1> QED
  BY <1>2, <1>9, <1>10, <1>11, <1>12

(* What it records goes where PolygonTrace has it recorded. *)
LEMMA CompleteRecords ==
  ASSUME SessionInv, FilesInv, NEW m \in net, pc[m.to] = "parse",
         CompleteResponse(m.to, m)
  PROVE  LET c == m.to
             kind == CommandAt(m.ci)
             w == Waypoint[m.ci]
         IN  /\ kind = "IMAGE" => Trace!TakeImage(c, w)
             /\ kind \in PositionKinds => Trace!WriteLine(c, kind, w)
             /\ kind \notin Shots => UNCHANGED <<AbsImages, AbsPositions>>
<1>1. /\ m.to \in Clients /\ m.ci \in Indices /\ pc[m.to] = "parse"
      /\ pass[m.to] \in Pass
  BY ReceivedFacts
<1>2. PICK c \in Clients, i \in Indices, p \in Pass :
        c = m.to /\ i = m.ci /\ p = pass[m.to]
  BY <1>1
<1> DEFINE kind == CommandAt(i)
           k == FileNumber(p, i)
           w == Waypoint[i]
<1>3. PICK vec : /\ vec = Store(responses[m.to][m.ci], m)
                 /\ IsVectorFull(vec)
                 /\ HandleResponse(m.to, m.ci, vec)
  BY DEF CompleteResponse
<1>4. vec # <<>> /\ vec[1].pass = p /\ vec[1].ci = i
  BY <1>2, <1>3, HandledIsWhole DEF FilesInv
<1>5. /\ Handles(c, kind, k, vec)
      /\ kind \in Shots => k \in Files
  BY <1>1, <1>2, <1>3, HandlesAtCorner
<1>6. Shown(vec) = <<p, w>> /\ Told(<<kind, vec>>) = <<kind, p, w>>
  BY <1>4 DEF Shown, Told
<1>7. /\ kind \in Shots => Trace!FileNumber(pass[c], w) = k
      /\ pass[c] = p /\ pc[c] = "parse"
      /\ "IMAGE" \notin PositionKinds
  <2>1. kind \in Shots => k = IF p = 1 THEN w ELSE w + N
    BY ShotFile DEF Pass
  <2> QED
    BY <1>1, <1>2, <2>1, SameTraceOperators DEF PositionKinds
<1> HIDE DEF kind, k, w
<1>8. ASSUME kind \notin PositionKinds PROVE AbsPositions' = AbsPositions
  <2>1. \A d \in Clients, f \in Files : positionFile'[d][f] = positionFile[d][f]
    BY <1>5, <1>8 DEF Handles
  <2> QED
    BY <2>1 DEF AbsPositions
<1>9. ASSUME kind # "IMAGE" PROVE AbsImages' = AbsImages
  <2>1. \A d \in Clients, f \in Files : imageFile'[d][f] = imageFile[d][f]
    BY <1>5, <1>9 DEF Handles
  <2> QED
    BY <2>1 DEF AbsImages
<1>10. ASSUME kind = "IMAGE" PROVE Trace!TakeImage(c, w)
  <2>1. \A d \in Clients, f \in Files :
          Shown(imageFile'[d][f]) = IF d = c /\ f = k THEN <<p, w>> ELSE Shown(imageFile[d][f])
    BY <1>5, <1>6, <1>10 DEF Handles
  <2>2. AbsImages' = [d \in Clients |-> [f \in Files |-> Shown(imageFile'[d][f])]]
    BY DEF AbsImages, Shown
  <2>3. AbsImages' = [AbsImages EXCEPT ![c][k] = <<p, w>>]
    BY <1>5, <1>10, <2>1, <2>2 DEF AbsImages, Shots
  <2> QED
    BY <1>7, <1>8, <1>10, <2>3 DEF Trace!TakeImage, Shots
<1>11. ASSUME kind \in PositionKinds PROVE Trace!WriteLine(c, kind, w)
  <2> DEFINE lines == {Told(line) : line \in positionFile[c][k]}
             kept == {line \in lines : line[2] = p}
  <2>1. \A line \in positionFile[c][k] : positionFileWritten[c][k] <=> Told(line)[2] = p
    <3>1. k \in Files
      BY <1>5, <1>11 DEF Shots
    <3>2. \A line \in positionFile[c][k] : positionFileWritten[c][k] <=> line[2][1].pass = p
      BY <1>7, <3>1 DEF FilesInv, WrittenInv
    <3>3. \A line : Told(line)[2] = line[2][1].pass
      BY DEF Told
    <3> QED
      BY <3>2, <3>3
  <2>2. kept = IF positionFileWritten[c][k] THEN lines ELSE {}
    BY <2>1
  <2>3. ASSUME NEW d \in Clients, NEW f \in Files
        PROVE  {Told(line) : line \in positionFile'[d][f]} =
                 IF d = c /\ f = k THEN kept \cup {<<kind, p, w>>}
                 ELSE {Told(line) : line \in positionFile[d][f]}
    <3>1. positionFile'[d][f] =
            IF d = c /\ f = k
            THEN (IF positionFileWritten[c][k] THEN positionFile[c][k] ELSE {})
                   \cup {<<kind, vec>>}
            ELSE positionFile[d][f]
      BY <1>5, <1>11 DEF Handles
    <3>2. CASE d = c /\ f = k
      <4>1. {Told(line) : line \in positionFile'[d][f]} =
              {Told(line) : line \in IF positionFileWritten[c][k] THEN positionFile[c][k] ELSE {}}
                \cup {<<kind, p, w>>}
        BY <1>6, <3>1, <3>2
      <4> QED
        BY <2>2, <3>2, <4>1
    <3> QED
      BY <3>1, <3>2
  <2>4. AbsPositions' =
          [d \in Clients |-> [f \in Files |-> {Told(line) : line \in positionFile'[d][f]}]]
    BY DEF AbsPositions, Told
  <2> HIDE DEF kept
  <2>5. AbsPositions' = [AbsPositions EXCEPT ![c][k] = kept \cup {<<kind, p, w>>}]
    BY <2>3, <2>4 DEF AbsPositions
  <2>6. AbsPositions[c][k] = lines
    BY <1>5, <1>11 DEF AbsPositions, Shots
  <2>7. AbsImages' = AbsImages
    BY <1>7, <1>9, <1>11
  <2> QED
    BY <1>7, <1>11, <2>5, <2>6, <2>7 DEF Trace!WriteLine, Shots, kept
<1> QED
  BY <1>2, <1>7, <1>8, <1>9, <1>10, <1>11 DEF kind, w, Shots

LEMMA CompleteTraces ==
  ASSUME SessionInv, FilesInv, NEW m \in net, pc[m.to] = "parse",
         CompleteResponse(m.to, m)
  PROVE  Trace!Record(m.to) \/ Trace!Return(m.to) \/ UNCHANGED Trace!vars
<1>1. PICK c \in Clients, i \in Indices : c = m.to /\ i = m.ci
  BY ReceivedFacts
<1>2. pc[c] = "parse" /\ Snapshot[i] = <<CommandAt(i), Waypoint[i]>>
  BY <1>1, ReceivedFacts DEF Snapshot
<1>3. /\ \A d \in Clients \ {c} : Left(d)' = Left(d)
      /\ Left(c)' = Left(c) \ {Snapshot[i]}
      /\ CommandAt(i) \in Shots <=> Snapshot[i] \in Left(c)
      /\ \/ UNCHANGED <<pass, pc>>
         \/ Left(c)' = {} /\ Trace!GoOn(c)
  BY <1>1, CompleteTakesOff
<1>4. /\ CommandAt(i) = "IMAGE" => Trace!TakeImage(c, Waypoint[i])
      /\ CommandAt(i) \in PositionKinds => Trace!WriteLine(c, CommandAt(i), Waypoint[i])
      /\ CommandAt(i) \notin Shots => UNCHANGED <<AbsImages, AbsPositions>>
  BY <1>1, CompleteRecords
<1>5. /\ AbsToRecord[c] = Left(c) /\ AbsToRecord'[c] = Left(c)'
      /\ AbsToRecord' = [AbsToRecord EXCEPT ![c] = @ \ {Snapshot[i]}]
  <2>1. AbsToRecord' = [d \in Clients |-> Left(d)']
    BY DEF AbsToRecord
  <2>2. AbsToRecord = [d \in Clients |-> Left(d)]
    BY DEF AbsToRecord
  <2> QED
    BY <1>3, <2>1, <2>2
<1>6. CASE CommandAt(i) \in Shots
  <2>1. Snapshot[i] \in AbsToRecord[c]
    BY <1>3, <1>5, <1>6
  <2>2. Snapshot[i][1] = CommandAt(i) /\ Snapshot[i][2] = Waypoint[i]
    BY <1>2
  <2>3. Trace!Record(c)
    BY <1>2, <1>3, <1>4, <1>5, <1>6, <2>1, <2>2, SameTraceOperators
       DEF Trace!Record, Shots
  <2> QED
    BY <1>1, <2>3
<1>7. CASE CommandAt(i) \notin Shots
  <2>1. Left(c)' = Left(c)
    BY <1>3, <1>7
  <2>2. AbsToRecord' = AbsToRecord
    BY <1>3, <2>1 DEF AbsToRecord
  <2>3. CASE UNCHANGED <<pass, pc>>
    BY <1>4, <1>7, <2>2, <2>3 DEF Trace!vars
  <2>4. CASE Left(c)' = {} /\ Trace!GoOn(c)
    <3>1. Trace!Return(c)
      BY <1>2, <1>4, <1>5, <1>7, <2>1, <2>2, <2>4 DEF Trace!Return
    <3> QED
      BY <1>1, <3>1
  <2> QED
    BY <1>3, <2>3, <2>4
<1> QED
  BY <1>6, <1>7

LEMMA StepTraces ==
  ASSUME SessionInv, FilesInv, [Next]_vars
  PROVE  Trace!Next \/ UNCHANGED Trace!vars
<1>1. ASSUME NEW c \in Clients, StartPass(c) PROVE Trace!Next
  BY <1>1, StartPassBegins DEF Trace!Next
<1>2. ASSUME NEW c \in Clients, Quits(c) PROVE Trace!Next
  BY <1>2, QuitGivesUp DEF Trace!Next
<1>3. ASSUME NEW c \in Clients, Receive(c) PROVE Trace!Next \/ UNCHANGED Trace!vars
  <2>1. PICK m \in net : /\ pc[c] = "parse" /\ m.to = c
                         /\ KeepChunk(c, m) \/ CompleteResponse(c, m)
    BY <1>3 DEF Receive
  <2>2. CASE KeepChunk(c, m)
    BY <2>2, OthersStutter DEF KeepChunk
  <2>3. CASE CompleteResponse(c, m)
    BY <2>1, <2>3, CompleteTraces DEF Trace!Next
  <2> QED
    BY <2>1, <2>2, <2>3
<1>4. CASE ServerStep \/ Lose \/ Discard \/ Terminated \/ UNCHANGED vars
  <2>1. UNCHANGED clientVars
    BY <1>4 DEF ServerStep, ReceiveRequest, ServeCommand, SkipAnswer, RefuseCommand,
       ServeFails, ServerStops, Lose, Discard, Terminated, vars
  <2>2. UNCHANGED <<pass, pc, answered, imageFile, positionFile>>
    BY <2>1 DEF clientVars
  <2> QED
    BY <2>2, OthersStutter
<1> QED
  BY <1>1, <1>2, <1>3, <1>4 DEF Next, ClientStep, Quits

(***************************************************************************)
(* PolygonSession implements PolygonTrace: whatever order the chunks come  *)
(* in, and whatever is lost or fails on the way, a reader of the client's  *)
(* files sees every snapshot recorded once, in its place, and the client   *)
(* goes on when it has them all.                                          *)
(***************************************************************************)
THEOREM SessionImplementsTrace == ASSUME MaxDup = 0 PROVE Spec => TracesPolygons
<1>1. Init => Trace!Init
  BY InitTraces
<1>2. SessionInv /\ FilesInv /\ [Next]_vars => [Trace!Next]_Trace!vars
  BY StepTraces
<1> QED
  BY <1>1, <1>2, StaysInStep, FilesInStep, PTL DEF Spec, TracesPolygons, Trace!Spec
=============================================================================
