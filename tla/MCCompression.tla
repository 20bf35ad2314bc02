--------------------------- MODULE MCCompression ---------------------------
(***************************************************************************)
(* Instances of Compression for TLC.  A message is up to MaxPieces pieces  *)
(* and an end.  With two-byte tokens, five of the pieces are tokens, so    *)
(* that there can be more of them than trimDictionary keeps; <<2>> shifts  *)
(* what follows it off the token boundaries; 3 is the escape character, 2  *)
(* the length byte of an entry, 0 the null that ends the dictionary.       *)
(***************************************************************************)
EXTENDS CompressionInvariant, SequencesExt

CONSTANT MaxPieces   (* bound of the model only *)

Pieces == {<<0, 0>>, <<0, 2>>, <<1, 3>>, <<2, 3>>, <<3, 1>>, <<2>>}

Ends == {<<1>>, <<0, 3>>}

PiecedMessages ==
  {FlattenSeq(m) \o e : m \in BoundedSeq(Pieces, MaxPieces), e \in Ends}
============================================================================
