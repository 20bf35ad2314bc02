--------------------------- MODULE TraceRefinement ---------------------------
(***************************************************************************)
(* PolygonSession implements PolygonTrace.                                 *)
(***************************************************************************)
EXTENDS FilesInvariant

(* What the answer to command i records. *)
Snapshot == [i \in Indices |-> <<CommandAt(i), Waypoint[i]>>]

SnapshotIndices ==
  [p \in Pass |-> {i \in 0 .. NumCommands(p) - 1 :
                     CommandAt(i) \in {"IMAGE"} \cup PositionKinds}]

Unanswered(c) == SnapshotIndices[pass[c]] \ answered[c]

(* What is left to record. *)
Left(c) ==
  IF pc[c] = "parse" THEN {Snapshot[i] : i \in Unanswered(c)} ELSE {}

(* What the bytes in an image file were recorded for. *)
Shown(vec) ==
  IF vec = <<>> THEN <<>> ELSE <<vec[1].pass, Waypoint[vec[1].ci]>>

(* And those in a line of a position file. *)
Told(line) == <<line[1], line[2][1].pass, Waypoint[line[2][1].ci]>>

AbsToRecord == [c \in Clients |-> Left(c)]

AbsImages == [c \in Clients |-> [k \in Files |-> Shown(imageFile[c][k])]]

AbsPositions ==
  [c \in Clients |-> [k \in Files |-> {Told(line) : line \in positionFile[c][k]}]]

Trace ==
  INSTANCE PolygonTrace WITH
    toRecord  <- AbsToRecord,
    images    <- AbsImages,
    positions <- AbsPositions

(***************************************************************************)
(* Seen from its files, each client does what PolygonTrace promises: every *)
(* answer is recorded once, under the number of its corner, whatever the   *)
(* order of the chunks, and parseResponseSequence returns when every       *)
(* corner is recorded and never before.  Losses and failures may stop it,  *)
(* but not make it do anything else.                                       *)
(***************************************************************************)
TracesPolygons == Trace!Spec
==============================================================================
