----------------------------- MODULE PolygonTrace ----------------------------
(***************************************************************************)
(* What robotClient promises, without a server or a network: a client      *)
(* traces two polygons one after the other and records, in any order but   *)
(* exactly once, every picture and every position of every corner of the   *)
(* polygon it is at.  It goes on when nothing is left to record, and if it *)
(* ever is done, all of both polygons has been recorded.                   *)
(***************************************************************************)
EXTENDS CommandSequence

CONSTANT Clients

VARIABLES
  pass,       (* the polygon a client is tracing                           *)
  pc,         (* "send" before a polygon, "parse" in it, "done" or "quit"  *)
  toRecord,   (* what is left: <<kind, corner>>                            *)
  images,     (* by file number, the <<pass, corner>> the image shows      *)
  positions   (* by file number, the lines: <<kind, pass, corner>>         *)

vars == <<pass, pc, toRecord, images, positions>>

Files == 0 .. MaxFiles - 1

Snapshots(p) == ({"IMAGE"} \cup PositionKinds) \X (0 .. Sides(p))

(* The file number of corner w: the second polygon starts at file N. *)
FileNumber(p, w) == IF p = 1 THEN w ELSE w + N

Begin(c) ==
  /\ pc[c] = "send"
  /\ pc' = [pc EXCEPT ![c] = "parse"]
  /\ toRecord' = [toRecord EXCEPT ![c] = Snapshots(pass[c])]
  /\ UNCHANGED <<pass, images, positions>>

GoOn(c) ==
  \/ /\ pass[c] = 1
     /\ pass' = [pass EXCEPT ![c] = 2]
     /\ pc' = [pc EXCEPT ![c] = "send"]
  \/ /\ pass[c] = 2
     /\ pc' = [pc EXCEPT ![c] = "done"]
     /\ UNCHANGED pass

TakeImage(c, w) ==
  /\ images' = [images EXCEPT ![c][FileNumber(pass[c], w)] = <<pass[c], w>>]
  /\ UNCHANGED positions

(* Lines another polygon left in the file are dropped. *)
WriteLine(c, kind, w) ==
  /\ positions' =
       [positions EXCEPT ![c][FileNumber(pass[c], w)] =
          {line \in @ : line[2] = pass[c]} \cup {<<kind, pass[c], w>>}]
  /\ UNCHANGED images

Record(c) ==
  /\ pc[c] = "parse"
  /\ \E s \in toRecord[c] :
       /\ toRecord' = [toRecord EXCEPT ![c] = @ \ {s}]
       /\ \/ s[1] = "IMAGE" /\ TakeImage(c, s[2])
          \/ s[1] \in PositionKinds /\ WriteLine(c, s[1], s[2])
  /\ \/ toRecord'[c] = {} /\ GoOn(c)
     \/ UNCHANGED <<pass, pc>>

Return(c) ==
  /\ pc[c] = "parse"
  /\ toRecord[c] = {}
  /\ GoOn(c)
  /\ UNCHANGED <<toRecord, images, positions>>

(* It may give up at any time, in the middle of WriteLine as well. *)
GiveUp(c) ==
  /\ pc[c] \in {"send", "parse"}
  /\ pc' = [pc EXCEPT ![c] = "quit"]
  /\ toRecord' = [toRecord EXCEPT ![c] = {}]
  /\ \/ UNCHANGED positions
     \/ \E s \in toRecord[c] :
          positions' =
            [positions EXCEPT ![c][FileNumber(pass[c], s[2])] =
               {line \in @ : line[2] = pass[c]}]
  /\ UNCHANGED <<pass, images>>

Init ==
  /\ pass = [c \in Clients |-> 1]
  /\ pc = [c \in Clients |-> "send"]
  /\ toRecord = [c \in Clients |-> {}]
  /\ images = [c \in Clients |-> [k \in Files |-> <<>>]]
  /\ positions = [c \in Clients |-> [k \in Files |-> {}]]

Next == \E c \in Clients : Begin(c) \/ Record(c) \/ Return(c) \/ GiveUp(c)

Spec == Init /\ [][Next]_vars
==============================================================================
