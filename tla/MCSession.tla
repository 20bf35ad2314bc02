------------------------------ MODULE MCSession -------------------------------
(***************************************************************************)
(* Instances of PolygonSession for TLC.                                    *)
(***************************************************************************)
EXTENDS TraceRefinement

(* An image of one byte more than a message, lasers that fill theirs. *)
ChunkedBodies ==
  [kind \in Kinds |-> CASE kind = "IMAGE"  -> {985}
                        [] kind = "LASERS" -> {984}
                        [] OTHER           -> {20}]

SmallBodies == [kind \in Kinds |-> {20}]

(* Every command of a request that does not ask for an image. *)
NoImages == {i \in Indices : CommandAt(i) # "IMAGE"}

(* A robot whose answers to some commands may have no body. *)
SomeEmptyBodies ==
  [kind \in Kinds |-> IF kind = "IMAGE" THEN {20} ELSE {0, 20}]
=============================================================================
