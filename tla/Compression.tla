----------------------------- MODULE Compression -----------------------------
(***************************************************************************)
(* The encoding an image goes through between the server (encodeMessage)   *)
(* and the client (decodeMessage), Compression.cpp.  A behaviour encodes   *)
(* one message and decodes the result; a step is one turn of a loop of the *)
(* code.  Bytes are naturals below Base, strings sequences of them.  The   *)
(* sizes the code fixes (4, 6, 254, 256) are constants here, so that the   *)
(* small instances TLC can enumerate meet every one of them as a limit.    *)
(***************************************************************************)
EXTENDS Integers, Sequences, FiniteSets

CONSTANTS
  Messages,   (* the messages to encode                                     *)
  TokenLen,   (* length of a dictionary entry: 4 in the code                *)
  MinCount,   (* occurrences that earn a token its entry: 6                 *)
  Escape,     (* ESCAPECHAR: 254                                            *)
  Base        (* number of byte values: 256                                 *)

Byte == 0 .. Base - 1

ASSUME CompressionAssumption ==
  /\ Base \in Nat
  /\ TokenLen \in Byte \ {0}
  /\ Escape \in Byte \ {0}
  /\ MinCount \in Nat \ {0}
  /\ Messages \subseteq Seq(Byte)

VARIABLES
  stage,       (* "new", "encode", "sent", "keys", "decode", "done"; or     *)
               (* "undefined": decodeMessage indexed a vector or a string   *)
               (* past its end, and what follows is up to the build         *)
  message,     (* what the server encodes                                   *)
  dictionary,  (* tokens that have an entry                                 *)
  position,    (* the loop variable: position in encodeMessage, 1 + pos in  *)
               (* decodeMessage                                             *)
  sent,        (* the encoded message                                       *)
  keys,        (* the entries decodeMessage has parsed                      *)
  decoded,     (* what decodeMessage has put in ret                         *)
  cuts         (* history: how many bytes of sent stand for how many of the *)
               (* message, before each turn of encodeMessage's loop         *)

vars == <<stage, message, dictionary, position, sent, keys, decoded, cuts>>

(***************************************************************************)
(* createDictionary and trimDictionary.  Tokens are counted at multiples   *)
(* of TokenLen, up to the last one that ends before the message does.      *)
(***************************************************************************)
Count(m, t) ==
  Cardinality({k \in 1 .. (Len(m) - 1) \div TokenLen :
                 SubSeq(m, TokenLen * (k - 1) + 1, TokenLen * k) = t})

Tokens(m) == {SubSeq(m, TokenLen * (k - 1) + 1, TokenLen * k) :
                k \in 1 .. (Len(m) - 1) \div TokenLen}

(* The order of the keys of a map<string, int>. *)
Before(t, u) ==
  \E k \in 1 .. TokenLen : /\ t[k] < u[k]
                           /\ \A j \in 1 .. k - 1 : t[j] = u[j]

Ahead(m, t, u) == \/ Count(m, t) > Count(m, u)
                  \/ Count(m, t) = Count(m, u) /\ Before(u, t)

(* Mutant: every token that earns an entry gets one. *)
Untrimmed(m, worth) == worth

(* Mutant: one entry too many, whose number is the escape character. *)
TrimOneLate(m, worth) ==
  {t \in worth : Cardinality({u \in worth : Ahead(m, u, t)}) <= Escape}

(* The Escape tokens with the highest counts. *)
TrimDictionary(m, worth) ==
  {t \in worth : Cardinality({u \in worth : Ahead(m, u, t)}) < Escape}

CreateDictionary(m) ==
  TrimDictionary(m, {t \in Tokens(m) : Count(m, t) >= MinCount})

(***************************************************************************)
(* encodeMessage.                                                          *)
(***************************************************************************)
(* The number of t's entry, counted from 0. *)
Key(dict, t) == Cardinality({u \in dict : Before(u, t)})

Entry(dict, k) == CHOOSE t \in dict : Key(dict, t) = k

(* The entries, each behind a byte that holds its length, and a null. *)
Header(dict) ==
  [i \in 1 .. Cardinality(dict) * (TokenLen + 1) + 1 |->
     LET k == (i - 1) \div (TokenLen + 1)
         j == (i - 1) % (TokenLen + 1)
     IN IF k = Cardinality(dict) THEN 0
        ELSE IF j = 0 THEN TokenLen ELSE Entry(dict, k)[j]]

(* The token that ends at byte p, counted from 1. *)
TokenAt(p) == SubSeq(message, p - TokenLen + 1, p)

(* Mutant: an escape character is not doubled. *)
LiteralUndoubled(b) == <<b>>

Literal(b) == IF b = Escape THEN <<b, b>> ELSE <<b>>

(* Mutant: the number of copies is not limited to what a byte holds. *)
GoesOnUnlimited(p, r) ==
  /\ p + r * TokenLen < Len(message)
  /\ TokenAt(p + r * TokenLen) = TokenAt(p)

(* The loop that counts copies of the token at p does not stop after r. *)
GoesOn(p, r) ==
  /\ r < Escape - 1
  /\ p + r * TokenLen < Len(message)
  /\ TokenAt(p + r * TokenLen) = TokenAt(p)

(* How many copies of the token at p one command stands for. *)
Repeats(p) ==
  CHOOSE r \in 1 .. Len(message) :
    ~GoesOn(p, r) /\ \A j \in 1 .. r - 1 : GoesOn(p, j)

Cut(code, plain) == [code |-> code, plain |-> plain]

(* No token has an entry: a null byte and the message as it is. *)
SendUncompressed ==
  /\ stage = "new"
  /\ CreateDictionary(message) = {}
  /\ sent' = <<0>> \o message
  /\ stage' = "sent"
  /\ UNCHANGED <<message, dictionary, position, keys, decoded, cuts>>

WriteHeader ==
  /\ stage = "new"
  /\ CreateDictionary(message) # {}
  /\ dictionary' = CreateDictionary(message)
  /\ sent' = Header(dictionary')
  /\ position' = TokenLen
  /\ cuts' = <<Cut(Len(sent'), 0)>>
  /\ stage' = "encode"
  /\ UNCHANGED <<message, keys, decoded>>

WriteLiteral ==
  /\ stage = "encode"
  /\ position < Len(message)
  /\ TokenAt(position) \notin dictionary
  /\ sent' = sent \o Literal(TokenAt(position)[1])
  /\ position' = position + 1
  /\ cuts' = Append(cuts, Cut(Len(sent'), position' - TokenLen))
  /\ UNCHANGED <<stage, message, dictionary, keys, decoded>>

WriteRepeats ==
  /\ stage = "encode"
  /\ position < Len(message)
  /\ TokenAt(position) \in dictionary
  /\ LET r == Repeats(position)
     IN /\ sent' = sent \o <<Escape, Key(dictionary, TokenAt(position)), r % Base>>
        /\ position' = position + r * TokenLen
  /\ cuts' = Append(cuts, Cut(Len(sent'), position' - TokenLen))
  /\ UNCHANGED <<stage, message, dictionary, keys, decoded>>

(* The bytes the loop above stops short of are copied as they are. *)
WriteRest ==
  /\ stage = "encode"
  /\ position >= Len(message)
  /\ sent' = sent \o SubSeq(message, position - TokenLen + 1, Len(message))
  /\ stage' = "sent"
  /\ UNCHANGED <<message, dictionary, position, keys, decoded, cuts>>

(***************************************************************************)
(* decodeMessage.                                                          *)
(***************************************************************************)
ReadUncompressed ==
  /\ stage = "sent"
  /\ sent[1] = 0
  /\ decoded' = Tail(sent)
  /\ stage' = "done"
  /\ UNCHANGED <<message, dictionary, position, sent, keys, cuts>>

StartDecoding ==
  /\ stage = "sent"
  /\ sent[1] # 0
  /\ position' = 1
  /\ stage' = "keys"
  /\ UNCHANGED <<message, dictionary, sent, keys, decoded, cuts>>

ReadKey ==
  /\ stage = "keys"
  /\ sent[position] # 0
  /\ keys' = Append(keys, SubSeq(sent, position + 1, position + sent[position]))
  /\ position' = position + 1 + sent[position]
  /\ UNCHANGED <<stage, message, dictionary, sent, decoded, cuts>>

EndOfKeys ==
  /\ stage = "keys"
  /\ sent[position] = 0
  /\ position' = position + 1
  /\ stage' = "decode"
  /\ UNCHANGED <<message, dictionary, sent, keys, decoded, cuts>>

CopyByte ==
  /\ stage = "decode"
  /\ position <= Len(sent)
  /\ sent[position] # Escape
  /\ decoded' = Append(decoded, sent[position])
  /\ position' = position + 1
  /\ UNCHANGED <<stage, message, dictionary, sent, keys, cuts>>

(* A string holds a null byte behind its last one. *)
ByteAt(p) == IF p = Len(sent) + 1 THEN 0 ELSE sent[p]

CopyEscape ==
  /\ stage = "decode"
  /\ position <= Len(sent)
  /\ sent[position] = Escape
  /\ ByteAt(position + 1) = Escape
  /\ decoded' = Append(decoded, Escape)
  /\ position' = position + 2
  /\ UNCHANGED <<stage, message, dictionary, sent, keys, cuts>>

(* The byte behind the escape character and the one after it are there,    *)
(* and the first is the number of an entry.                                *)
Readable == /\ position + 2 <= Len(sent) + 1
            /\ sent[position + 1] < Len(keys)

Copies(t, r) == [i \in 1 .. r * Len(t) |-> t[((i - 1) % Len(t)) + 1]]

Expand ==
  /\ stage = "decode"
  /\ position <= Len(sent)
  /\ sent[position] = Escape
  /\ ByteAt(position + 1) # Escape
  /\ Readable
  /\ decoded' = decoded \o Copies(keys[sent[position + 1] + 1], ByteAt(position + 2))
  /\ position' = position + 3
  /\ UNCHANGED <<stage, message, dictionary, sent, keys, cuts>>

ReadPastEnd ==
  /\ stage = "decode"
  /\ position <= Len(sent)
  /\ sent[position] = Escape
  /\ ByteAt(position + 1) # Escape
  /\ ~Readable
  /\ stage' = "undefined"
  /\ UNCHANGED <<message, dictionary, position, sent, keys, decoded, cuts>>

EndOfMessage ==
  /\ stage = "decode"
  /\ position > Len(sent)
  /\ stage' = "done"
  /\ UNCHANGED <<message, dictionary, position, sent, keys, decoded, cuts>>

(***************************************************************************)
(* The specification.                                                      *)
(***************************************************************************)
Init ==
  /\ message \in Messages
  /\ stage = "new"
  /\ dictionary = {}
  /\ position = 0
  /\ sent = << >>
  /\ keys = << >>
  /\ decoded = << >>
  /\ cuts = << >>

Encode == SendUncompressed \/ WriteHeader \/ WriteLiteral \/ WriteRepeats \/ WriteRest

Decode == \/ ReadUncompressed \/ StartDecoding \/ ReadKey \/ EndOfKeys
          \/ CopyByte \/ CopyEscape \/ Expand \/ ReadPastEnd \/ EndOfMessage

Next == Encode \/ Decode

Spec == Init /\ [][Next]_vars

(***************************************************************************)
(* Properties.                                                             *)
(***************************************************************************)
(* CompressionTypeOK: the type of each local variable of encodeMessage and *)
(* decodeMessage.  A run length is a byte whatever it stands for, since    *)
(* WriteRepeats keeps the low byte; RunLengthsExact says that it fits.     *)
CompressionTypeOK ==
  /\ stage \in {"new", "encode", "sent", "keys", "decode", "done", "undefined"}
  /\ message \in Seq(Byte)
  /\ \A t \in dictionary : t \in Seq(Byte) /\ Len(t) = TokenLen
  /\ position \in Nat
  /\ sent \in Seq(Byte)
  /\ keys \in Seq(Seq(Byte))
  /\ decoded \in Seq(Byte)
  /\ cuts \in Seq([code : Nat, plain : Nat])

(* RunLengthsExact: the number encodeMessage writes for a run of copies is *)
(* the number of copies it has passed over in the message.  The loop that  *)
(* counts them stops in time for a byte to hold it (Compression.cpp:513).  *)
RunLengthsExact ==
  \A k \in 1 .. Len(cuts) - 1 :
    cuts[k + 1].code = cuts[k].code + 3 =>
      cuts[k + 1].plain = cuts[k].plain + TokenLen * sent[cuts[k].code + 3]

EscapeAtTheEnd ==
  \E i \in 1 .. Len(message) : i > Len(message) - TokenLen /\ message[i] = Escape

Finished == stage \in {"done", "undefined"}

(* RoundTrip: what decodeMessage returns is what encodeMessage was given,  *)
(* whatever bytes the image holds (Compression.cpp:314, of decoded #       *)
(* messageReceived: "Will never happen in final version of code").         *)
RoundTrip == Finished => stage = "done" /\ decoded = message

(* RoundTripBeforeTheEnd: the round trip is exact for every message that   *)
(* has no escape character among its last TokenLen bytes, the ones         *)
(* WriteRest may copy: entry numbers, run lengths, the bytes of the        *)
(* dictionary and doubled escape characters are never taken for one        *)
(* another, whatever else the message holds.                               *)
RoundTripBeforeTheEnd ==
  Finished /\ ~EscapeAtTheEnd => stage = "done" /\ decoded = message

(* NothingLost: an escape character at the end garbles what follows it and *)
(* nothing before: the result of decodeMessage begins with all of the      *)
(* message but its last TokenLen bytes.                                    *)
NothingLost ==
  Finished => \A i \in 1 .. Len(message) - TokenLen :
                i <= Len(decoded) /\ decoded[i] = message[i]
==============================================================================
