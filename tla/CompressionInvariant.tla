------------------------ MODULE CompressionInvariant -------------------------
(***************************************************************************)
(* The inductive invariant behind the theorems about Compression: what     *)
(* encodeMessage has written falls into the header and the codes of the    *)
(* turns of its loop, and decodeMessage reads it at the same cuts.         *)
(***************************************************************************)
EXTENDS Compression

HeaderLen == Cardinality(dictionary) * (TokenLen + 1) + 1

LastCut == cuts[Len(cuts)]

(* The entries have numbers below the escape character.                    *)
DictionaryInv ==
  /\ IsFiniteSet(dictionary)
  /\ Cardinality(dictionary) <= Escape
  /\ dictionary # {} => TokenLen < Len(message)

-----------------------------------------------------------------------------
(* Between the cuts a and b, one byte of the message stands for itself.    *)
IsLiteral(a, b) ==
  LET x == message[a.plain + 1]
  IN  /\ b = Cut(IF x = Escape THEN a.code + 2 ELSE a.code + 1, a.plain + 1)
      /\ sent[a.code + 1] = x
      /\ x = Escape => sent[a.code + 2] = Escape

(* Between the cuts a and b, three bytes stand for r copies of a token.    *)
IsRepeat(a, b) ==
  \E t \in dictionary, r \in 1 .. Escape :
    /\ b = Cut(a.code + 3, a.plain + r * TokenLen)
    /\ sent[a.code + 1] = Escape
    /\ sent[a.code + 2] = Key(dictionary, t)
    /\ sent[a.code + 3] = r
    /\ \A i \in 1 .. r * TokenLen :
         message[a.plain + i] = t[((i - 1) % TokenLen) + 1]

HeaderInv ==
  LET h == Header(dictionary) IN \A i \in 1 .. HeaderLen : sent[i] = h[i]

CutsInRange ==
  \A k \in 1 .. Len(cuts) :
    /\ HeaderLen <= cuts[k].code /\ cuts[k].code <= Len(sent)
    /\ cuts[k].plain <= Len(message)

CodesInv ==
  \A k \in 1 .. Len(cuts) - 1 :
    IsLiteral(cuts[k], cuts[k + 1]) \/ IsRepeat(cuts[k], cuts[k + 1])

(* The header, and a code between every two cuts.                          *)
CutsInv ==
  /\ cuts # << >>
  /\ cuts[1] = Cut(HeaderLen, 0)
  /\ HeaderInv /\ CutsInRange /\ CodesInv

(* Behind the last cut, the bytes the loop of encodeMessage stops short of.*)
RestInv ==
  /\ LastCut.plain >= Len(message) - TokenLen
  /\ Len(sent) = LastCut.code + (Len(message) - LastCut.plain)
  /\ \A i \in 1 .. Len(message) - LastCut.plain :
       sent[LastCut.code + i] = message[LastCut.plain + i]

-----------------------------------------------------------------------------
(* decodeMessage has read the first Len(keys) entries.                     *)
KeysInv ==
  /\ Len(keys) <= Cardinality(dictionary)
  /\ \A k \in 1 .. Len(keys) : keys[k] = Entry(dictionary, k - 1)

(* What is decoded begins with the first n bytes of the message.           *)
Decoded(n) ==
  n <= Len(decoded) /\ \A i \in 1 .. n : decoded[i] = message[i]

(* decodeMessage stands at the cut k with all that comes before it.        *)
AtCut(k) ==
  /\ position = cuts[k].code + 1
  /\ Len(decoded) = cuts[k].plain
  /\ Decoded(cuts[k].plain)

(***************************************************************************)
(* decodeMessage stands behind the last cut.  What comes then is read byte *)
(* by byte if there is no escape character in it.                          *)
(***************************************************************************)
BehindLastCut ==
  /\ LastCut.code < position
  /\ Decoded(LastCut.plain)
  /\ ~EscapeAtTheEnd =>
       /\ stage # "undefined"
       /\ position <= Len(sent) + 1
       /\ stage = "done" => position = Len(sent) + 1
       /\ Len(decoded) = LastCut.plain + (position - 1 - LastCut.code)
       /\ Decoded(Len(decoded))

(***************************************************************************)
(* What holds at each stage, of a message sent as it is and of another.    *)
(***************************************************************************)
StageInv ==
  /\ stage = "new" => dictionary = {} /\ sent = << >> /\ cuts = << >>
  /\ stage \in {"new", "encode", "sent"} => keys = << >>
  /\ stage \in {"new", "encode", "sent", "keys"} => decoded = << >>
  /\ dictionary = {} /\ stage # "new" =>
       /\ stage \in {"sent", "done"}
       /\ sent = <<0>> \o message /\ cuts = << >>
       /\ stage = "done" => decoded = message
  /\ dictionary # {} => CutsInv
  /\ stage = "encode" =>
       /\ dictionary # {}
       /\ position - TokenLen < Len(message)
       /\ LastCut = Cut(Len(sent), position - TokenLen)
  /\ dictionary # {} /\ stage # "encode" => RestInv
  /\ KeysInv
  /\ stage = "keys" => position = Len(keys) * (TokenLen + 1) + 1
  /\ stage \in {"decode", "done", "undefined"} => Len(keys) = Cardinality(dictionary)
  /\ stage \in {"decode", "done", "undefined"} /\ dictionary # {} =>
       \/ stage = "decode" /\ \E k \in 1 .. Len(cuts) - 1 : AtCut(k)
       \/ BehindLastCut

CompressionInv == CompressionTypeOK /\ DictionaryInv /\ StageInv
==============================================================================
