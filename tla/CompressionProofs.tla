------------------------- MODULE CompressionProofs --------------------------
(***************************************************************************)
(* Proofs about the encoding of images: the dictionary is a numbering of   *)
(* at most Escape tokens, and decodeMessage undoes encodeMessage but for   *)
(* the last TokenLen bytes, for every message and all sizes.               *)
(***************************************************************************)
EXTENDS CompressionInvariant, FiniteSetTheorems, WellFoundedInduction, TLAPS

-----------------------------------------------------------------------------
(***************************************************************************)
(* Numbers and ranks.                                                      *)
(***************************************************************************)
LEMMA Minimum ==
  ASSUME NEW S \in SUBSET Nat, S # {}
  PROVE  \E x \in S : \A y \in S : x <= y
<1> DEFINE Less == {ss \in Nat \X Nat : ss[1] < ss[2]}
<1>1. IsWellFoundedOn(Less, Nat)
  BY NatLessThanWellFounded DEF OpToRel
<1> HIDE DEF Less
<1>2. PICK x \in S : \A y \in S : <<y, x>> \notin Less
  BY <1>1, WFMin
<1>3. \A y \in S : ~(y < x)
  BY <1>2 DEF Less
<1> QED
  BY <1>3

LEMMA SameFunction ==
  ASSUME NEW S, NEW T, NEW f \in [S -> T], NEW g \in [S -> T], \A x \in S : f[x] = g[x]
  PROVE  f = g
OBVIOUS

Below(S, R, x) == {u \in S : <<u, x>> \in R}

(* In a strict total order on a finite set, how many elements are less     *)
(* than one numbers it.                                                    *)
LEMMA Ranks ==
  ASSUME NEW S, IsFiniteSet(S), NEW R,
         \A x, y \in S : <<x, y>> \in R => <<y, x>> \notin R,
         \A x, y, z \in S : <<x, y>> \in R /\ <<y, z>> \in R => <<x, z>> \in R,
         \A x, y \in S : x # y => <<x, y>> \in R \/ <<y, x>> \in R
  PROVE  /\ \A x \in S : /\ Cardinality(Below(S, R, x)) \in Nat
                         /\ Cardinality(Below(S, R, x)) < Cardinality(S)
         /\ \A x, y \in S :
              Cardinality(Below(S, R, x)) = Cardinality(Below(S, R, y)) => x = y
<1> DEFINE below(x) == Below(S, R, x)
           rank(x) == Cardinality(below(x))
<1>1. ASSUME NEW x \in S
      PROVE  IsFiniteSet(below(x)) /\ rank(x) \in Nat /\ rank(x) < Cardinality(S)
  <2>1. below(x) \in SUBSET (S \ {x}) /\ below(x) \in SUBSET S
    BY DEF Below
  <2>2. /\ IsFiniteSet(S \ {x}) /\ Cardinality(S \ {x}) = Cardinality(S) - 1
        /\ Cardinality(S) \in Nat
    BY FS_RemoveElement, FS_CardinalityType
  <2> HIDE DEF below
  <2>3. /\ IsFiniteSet(below(x)) /\ Cardinality(below(x)) <= Cardinality(S \ {x})
        /\ Cardinality(below(x)) \in Nat
    BY <2>1, <2>2, FS_Subset, FS_CardinalityType
  <2> QED
    BY <2>2, <2>3
<1>2. ASSUME NEW x \in S, NEW y \in S, <<x, y>> \in R
      PROVE  rank(x) # rank(y)
  <2>1. below(x) \in SUBSET below(y) /\ x \in below(y) /\ x \notin below(x)
    BY <1>2 DEF Below
  <2>2. IsFiniteSet(below(x)) /\ IsFiniteSet(below(y))
    BY <1>1
  <2> HIDE DEF below
  <2> QED
    BY <2>1, <2>2, FS_Subset
<1>3. ASSUME NEW x \in S, NEW y \in S, rank(x) = rank(y)
      PROVE  x = y
  BY <1>2, <1>3
<1> QED
  BY <1>1, <1>3

-----------------------------------------------------------------------------
(***************************************************************************)
(* The order of the keys of a map<string, int>.                            *)
(***************************************************************************)
Token == {t \in Seq(Byte) : Len(t) = TokenLen}

LEMMA Sizes ==
  /\ Byte \subseteq Nat /\ Base \in Nat
  /\ TokenLen \in Nat \ {0} /\ Escape \in Nat \ {0}
  /\ TokenLen \in Byte /\ Escape \in Byte /\ 0 \in Byte
  /\ Escape < Base /\ TokenLen < Base
BY CompressionAssumption DEF Byte

LEMMA TokenBytes ==
  ASSUME NEW t \in Token
  PROVE  /\ t \in Seq(Byte) /\ Len(t) = TokenLen
         /\ t \in [1 .. TokenLen -> Byte]
         /\ \A k \in 1 .. TokenLen : t[k] \in Byte /\ t[k] \in Nat
<1>1. t \in Seq(Byte) /\ Len(t) = TokenLen
  BY DEF Token
<1>2. t \in [1 .. TokenLen -> Byte]
  BY <1>1
<1>3. \A k \in 1 .. TokenLen : t[k] \in Byte
  BY <1>2
<1> QED
  BY <1>1, <1>2, <1>3, Sizes

LEMMA BeforeIsAsymmetric ==
  ASSUME NEW t \in Token, NEW u \in Token, Before(t, u)
  PROVE  ~Before(u, t)
<1>1. PICK k \in 1 .. TokenLen : t[k] < u[k] /\ \A j \in 1 .. k - 1 : t[j] = u[j]
  BY DEF Before
<1>2. SUFFICES ASSUME NEW l \in 1 .. TokenLen,
                      u[l] < t[l] /\ \A j \in 1 .. l - 1 : u[j] = t[j]
               PROVE  FALSE
  BY DEF Before
<1>3. k \in Int /\ l \in Int
  BY Sizes
<1>4. t[k] \in Nat /\ u[k] \in Nat /\ t[l] \in Nat /\ u[l] \in Nat
  BY TokenBytes
<1>5. CASE k < l
  <2>1. k \in 1 .. l - 1
    BY <1>3, <1>5
  <2> QED
    BY <1>1, <1>2, <1>4, <2>1
<1>6. CASE l < k
  <2>1. l \in 1 .. k - 1
    BY <1>3, <1>6
  <2> QED
    BY <1>1, <1>2, <1>4, <2>1
<1>7. CASE k = l
  BY <1>1, <1>2, <1>4, <1>7
<1> QED
  BY <1>3, <1>5, <1>6, <1>7

LEMMA BeforeIsTransitive ==
  ASSUME NEW t \in Token, NEW u \in Token, NEW v \in Token, Before(t, u), Before(u, v)
  PROVE  Before(t, v)
<1>1. PICK k \in 1 .. TokenLen : t[k] < u[k] /\ \A j \in 1 .. k - 1 : t[j] = u[j]
  BY DEF Before
<1>2. PICK l \in 1 .. TokenLen : u[l] < v[l] /\ \A j \in 1 .. l - 1 : u[j] = v[j]
  BY DEF Before
<1>3. k \in Int /\ l \in Int
  BY Sizes
<1>4. /\ t[k] \in Nat /\ u[k] \in Nat /\ v[k] \in Nat
      /\ t[l] \in Nat /\ u[l] \in Nat /\ v[l] \in Nat
  BY TokenBytes
<1>5. CASE k <= l
  <2>1. t[k] < v[k]
    <3>1. CASE k = l
      BY <1>1, <1>2, <1>4, <3>1
    <3>2. CASE k < l
      <4>1. k \in 1 .. l - 1
        BY <1>3, <3>2
      <4> QED
        BY <1>1, <1>2, <4>1
    <3> QED
      BY <1>3, <1>5, <3>1, <3>2
  <2>2. \A j \in 1 .. k - 1 : j \in 1 .. l - 1
    BY <1>3, <1>5
  <2>3. \A j \in 1 .. k - 1 : t[j] = v[j]
    BY <1>1, <1>2, <2>2
  <2> QED
    BY <2>1, <2>3 DEF Before
<1>6. CASE l < k
  <2>1. l \in 1 .. k - 1
    BY <1>3, <1>6
  <2>2. t[l] < v[l]
    BY <1>1, <1>2, <2>1
  <2>3. \A j \in 1 .. l - 1 : j \in 1 .. k - 1
    BY <1>3, <1>6
  <2>4. \A j \in 1 .. l - 1 : t[j] = v[j]
    BY <1>1, <1>2, <2>3
  <2> QED
    BY <2>2, <2>4 DEF Before
<1> QED
  BY <1>3, <1>5, <1>6

(* Of two different tokens one comes first: where they first differ.       *)
LEMMA BeforeIsTotal ==
  ASSUME NEW t \in Token, NEW u \in Token, t # u
  PROVE  Before(t, u) \/ Before(u, t)
<1> DEFINE Differ == {k \in 1 .. TokenLen : t[k] # u[k]}
<1>1. Differ \in SUBSET Nat
  BY Sizes
<1>2. Differ # {}
  <2> SUFFICES ASSUME Differ = {} PROVE FALSE
    OBVIOUS
  <2>1. \A k \in 1 .. TokenLen : t[k] = u[k]
    OBVIOUS
  <2> HIDE DEF Differ
  <2>2. t \in [1 .. TokenLen -> Byte] /\ u \in [1 .. TokenLen -> Byte]
    BY TokenBytes
  <2>3. t = u
    <3>1. PICK D : D = 1 .. TokenLen
      OBVIOUS
    <3>2. t \in [D -> Byte] /\ u \in [D -> Byte] /\ \A k \in D : t[k] = u[k]
      BY <2>1, <2>2, <3>1
    <3> HIDE <3>1
    <3> QED
      BY <3>2, SameFunction
  <2> QED
    BY <2>3
<1>3. PICK k \in Differ : \A j \in Differ : k <= j
  BY <1>1, <1>2, Minimum
<1>4. k \in 1 .. TokenLen /\ t[k] # u[k] /\ k \in Int
  BY Sizes
<1>5. \A j \in 1 .. k - 1 : t[j] = u[j]
  <2> SUFFICES ASSUME NEW j \in 1 .. k - 1, t[j] # u[j] PROVE FALSE
    OBVIOUS
  <2>1. j \in 1 .. TokenLen /\ ~(k <= j)
    BY <1>4, Sizes
  <2> QED
    BY <1>3, <2>1
<1>6. t[k] \in Nat /\ u[k] \in Nat
  BY <1>4, TokenBytes
<1>7. t[k] < u[k] \/ u[k] < t[k]
  BY <1>4, <1>6
<1> QED
  BY <1>4, <1>5, <1>7 DEF Before

-----------------------------------------------------------------------------
(***************************************************************************)
(* Arithmetic with lengths of tokens.                                      *)
(***************************************************************************)
LEMMA Division ==
  ASSUME NEW a \in Int, NEW w \in Nat \ {0}
  PROVE  /\ a \div w \in Int /\ w * (a \div w) <= a /\ a < w * (a \div w) + w
         /\ a % w \in Int /\ 0 <= a % w /\ a % w < w
<1>1. a \div w \in Int /\ w * (a \div w) <= a /\ a < w * (a \div w) + w
  OBVIOUS
<1>2. a % w \in Int /\ 0 <= a % w /\ a % w < w
  OBVIOUS
<1> QED
  BY <1>1, <1>2

LEMMA Quotient ==
  ASSUME NEW k \in Nat, NEW w \in Nat \ {0}, NEW j \in 0 .. w - 1
  PROVE  (k * w + j) \div w = k /\ (k * w + j) % w = j
OBVIOUS

LEMMA Products ==
  ASSUME NEW a \in Int, NEW b \in Int, NEW w \in Nat
  PROVE  /\ w * a \in Int /\ w * b \in Int
         /\ a <= b => w * a <= w * b
         /\ w * (a - 1) = w * a - w
         /\ w * (a + 1) = w * a + w
OBVIOUS

-----------------------------------------------------------------------------
(***************************************************************************)
(* The dictionary.                                                         *)
(***************************************************************************)
LEMMA CountType ==
  ASSUME NEW m \in Seq(Byte)
  PROVE  \A t : Count(m, t) \in Nat
<1> DEFINE n == (Len(m) - 1) \div TokenLen
<1>1. n \in Int
  BY Sizes, Division
<1> HIDE DEF n
<1>2. IsFiniteSet(1 .. n)
  BY <1>1, FS_Interval
<1> SUFFICES ASSUME NEW t PROVE Count(m, t) \in Nat
  OBVIOUS
<1> DEFINE places == {k \in 1 .. n : SubSeq(m, TokenLen * (k - 1) + 1, TokenLen * k) = t}
<1>3. places \in SUBSET (1 .. n)
  OBVIOUS
<1>4. Count(m, t) = Cardinality(places)
  BY DEF Count, n
<1> HIDE DEF places
<1> QED
  BY <1>2, <1>3, <1>4, FS_Subset, FS_CardinalityType

(* The tokens of a message are whole and lie before its last byte.         *)
LEMMA TokensOfMessage ==
  ASSUME NEW m \in Seq(Byte)
  PROVE  /\ IsFiniteSet(Tokens(m)) /\ Tokens(m) \subseteq Token
         /\ Tokens(m) # {} => TokenLen < Len(m)
<1> DEFINE n == (Len(m) - 1) \div TokenLen
           token(k) == SubSeq(m, TokenLen * (k - 1) + 1, TokenLen * k)
<1>1. n \in Int /\ TokenLen * n <= Len(m) - 1 /\ TokenLen \in Nat /\ Len(m) \in Nat
  BY Sizes, Division
<1>2. Tokens(m) = {token(k) : k \in 1 .. n}
  BY DEF Tokens
<1> HIDE DEF n
<1>3. ASSUME NEW k \in 1 .. n
      PROVE  token(k) \in Token /\ TokenLen < Len(m)
  <2>1. k \in Int /\ 1 <= k /\ k <= n
    BY <1>1
  <2>2. /\ TokenLen * k \in Int /\ TokenLen * k <= Len(m) - 1
        /\ TokenLen * (k - 1) = TokenLen * k - TokenLen
        /\ TokenLen <= TokenLen * k
    BY <1>1, <2>1
  <2> DEFINE b == TokenLen * k
  <2>3. b \in Int /\ b <= Len(m) - 1 /\ TokenLen <= b
    BY <2>2
  <2>4. token(k) = SubSeq(m, b - TokenLen + 1, b)
    BY <2>2
  <2> HIDE DEF b, token
  <2>5. SubSeq(m, b - TokenLen + 1, b) \in Seq(Byte)
    BY <2>3, <1>1
  <2>6. Len(SubSeq(m, b - TokenLen + 1, b)) = TokenLen
    BY <2>3, <1>1
  <2> QED
    BY <1>1, <2>3, <2>4, <2>5, <2>6 DEF Token
<1>4. IsFiniteSet(Tokens(m))
  <2> DEFINE f == [k \in 1 .. n |-> token(k)]
  <2>1. f \in Surjection(1 .. n, Tokens(m))
    BY <1>2 DEF Surjection
  <2>2. IsFiniteSet(1 .. n)
    BY <1>1, FS_Interval
  <2> HIDE DEF f
  <2> QED
    BY <2>1, <2>2, FS_Surjection
<1> HIDE DEF token
<1> QED
  BY <1>2, <1>3, <1>4

LEMMA AheadIsAnOrder ==
  ASSUME NEW m \in Seq(Byte), NEW t \in Token, NEW u \in Token
  PROVE  /\ Ahead(m, t, u) => ~Ahead(m, u, t)
         /\ t # u => Ahead(m, t, u) \/ Ahead(m, u, t)
         /\ \A v \in Token : Ahead(m, t, u) /\ Ahead(m, u, v) => Ahead(m, t, v)
<1>1. \A x : Count(m, x) \in Nat
  BY CountType
<1>2. Ahead(m, t, u) => ~Ahead(m, u, t)
  BY <1>1, BeforeIsAsymmetric DEF Ahead
<1>3. t # u => Ahead(m, t, u) \/ Ahead(m, u, t)
  BY <1>1, BeforeIsTotal DEF Ahead
<1>4. ASSUME NEW v \in Token, Ahead(m, t, u), Ahead(m, u, v)
      PROVE  Ahead(m, t, v)
  BY <1>1, <1>4, BeforeIsTransitive DEF Ahead
<1> QED
  BY <1>2, <1>3, <1>4

(* trimDictionary leaves at most Escape of the tokens: their ranks differ. *)
LEMMA TrimmedSize ==
  ASSUME NEW m \in Seq(Byte), NEW W \in SUBSET Token, IsFiniteSet(W)
  PROVE  /\ IsFiniteSet(TrimDictionary(m, W))
         /\ Cardinality(TrimDictionary(m, W)) <= Escape
<1> DEFINE R == {p \in W \X W : Ahead(m, p[1], p[2])}
           rank(x) == Cardinality(Below(W, R, x))
           D == TrimDictionary(m, W)
           f == [t \in D |-> rank(t)]
<1>1. /\ \A x \in W : rank(x) \in Nat
      /\ \A x, y \in W : rank(x) = rank(y) => x = y
  <2>1. \A x, y \in W : <<x, y>> \in R => <<y, x>> \notin R
    BY AheadIsAnOrder
  <2>2. \A x, y, z \in W : <<x, y>> \in R /\ <<y, z>> \in R => <<x, z>> \in R
    BY AheadIsAnOrder
  <2>3. \A x, y \in W : x # y => <<x, y>> \in R \/ <<y, x>> \in R
    BY AheadIsAnOrder
  <2> HIDE DEF R
  <2> QED
    BY <2>1, <2>2, <2>3, Ranks
<1> DEFINE ahead(t) == {u \in W : Ahead(m, u, t)}
<1>2. D = {t \in W : Cardinality(ahead(t)) < Escape}
  BY DEF TrimDictionary
<1>3. D = {t \in W : rank(t) < Escape}
  <2>1. ASSUME NEW t \in W
        PROVE  ahead(t) = Below(W, R, t)
    <3>1. \A u \in W : Ahead(m, u, t) <=> <<u, t>> \in R
      OBVIOUS
    <3> HIDE DEF R
    <3> QED
      BY <3>1 DEF Below
  <2> HIDE DEF ahead, R, D
  <2> QED
    BY <1>2, <2>1
<1> HIDE DEF rank, D, R
<1>4. f \in Injection(D, 0 .. Escape - 1)
  <2>1. \A t \in D : t \in W /\ rank(t) \in 0 .. Escape - 1
    BY <1>1, <1>3, Sizes
  <2> QED
    BY <1>1, <2>1 DEF Injection, IsInjective
<1>5. IsFiniteSet(0 .. Escape - 1) /\ Cardinality(0 .. Escape - 1) = Escape
  <2>1. 0 \in Int /\ Escape - 1 \in Int /\ ~(0 > Escape - 1) /\ Escape - 1 - 0 + 1 = Escape
    BY Sizes
  <2> QED
    BY <2>1, FS_Interval
<1> HIDE DEF f
<1> QED
  BY <1>4, <1>5, FS_Injection DEF D

LEMMA DictionaryOfMessage ==
  ASSUME NEW m \in Seq(Byte)
  PROVE  /\ IsFiniteSet(CreateDictionary(m)) /\ CreateDictionary(m) \subseteq Token
         /\ Cardinality(CreateDictionary(m)) <= Escape
         /\ CreateDictionary(m) # {} => TokenLen < Len(m)
<1> DEFINE W == {t \in Tokens(m) : Count(m, t) >= MinCount}
<1>1. /\ IsFiniteSet(Tokens(m)) /\ Tokens(m) \subseteq Token
      /\ Tokens(m) # {} => TokenLen < Len(m)
  BY TokensOfMessage
<1>2. W \in SUBSET Tokens(m) /\ W \in SUBSET Token
  BY <1>1
<1>3. CreateDictionary(m) = TrimDictionary(m, W)
  BY DEF CreateDictionary
<1> HIDE DEF W
<1>4. IsFiniteSet(W)
  BY <1>1, <1>2, FS_Subset
<1>5. TrimDictionary(m, W) \subseteq W
  BY DEF TrimDictionary
<1>6. IsFiniteSet(TrimDictionary(m, W)) /\ Cardinality(TrimDictionary(m, W)) <= Escape
  BY <1>2, <1>4, TrimmedSize
<1> QED
  BY <1>1, <1>2, <1>3, <1>5, <1>6
-----------------------------------------------------------------------------
(***************************************************************************)
(* The numbers of the entries, and the header that lists them.             *)
(***************************************************************************)
LEMMA KeysNumberEntries ==
  ASSUME NEW dict \in SUBSET Token, IsFiniteSet(dict)
  PROVE  /\ Cardinality(dict) \in Nat
         /\ \A t \in dict : /\ Key(dict, t) \in Nat /\ Key(dict, t) < Cardinality(dict)
                            /\ Entry(dict, Key(dict, t)) = t
         /\ \A k \in 0 .. Cardinality(dict) - 1 :
              Entry(dict, k) \in dict /\ Key(dict, Entry(dict, k)) = k
<1> DEFINE R == {p \in dict \X dict : Before(p[1], p[2])}
           n == Cardinality(dict)
<1>1. /\ \A t \in dict : Key(dict, t) \in Nat /\ Key(dict, t) < n
      /\ \A t, u \in dict : Key(dict, t) = Key(dict, u) => t = u
  <2>1. \A t, u \in dict : <<t, u>> \in R => <<u, t>> \notin R
    BY BeforeIsAsymmetric
  <2>2. \A t, u, v \in dict : <<t, u>> \in R /\ <<u, v>> \in R => <<t, v>> \in R
    BY BeforeIsTransitive
  <2>3. \A t, u \in dict : t # u => <<t, u>> \in R \/ <<u, t>> \in R
    BY BeforeIsTotal
  <2>4. ASSUME NEW t \in dict
        PROVE  Key(dict, t) = Cardinality(Below(dict, R, t))
    <3> DEFINE before == {u \in dict : Before(u, t)}
    <3>1. \A u \in dict : Before(u, t) <=> <<u, t>> \in R
      OBVIOUS
    <3>2. before = Below(dict, R, t)
      <4> HIDE DEF R
      <4> QED
        BY <3>1 DEF Below
    <3>3. Key(dict, t) = Cardinality(before)
      BY DEF Key
    <3> HIDE DEF before, R
    <3> QED
      BY <3>2, <3>3
  <2> HIDE DEF R
  <2>5. /\ \A t \in dict : /\ Cardinality(Below(dict, R, t)) \in Nat
                           /\ Cardinality(Below(dict, R, t)) < n
        /\ \A t, u \in dict :
             Cardinality(Below(dict, R, t)) = Cardinality(Below(dict, R, u)) => t = u
    BY <2>1, <2>2, <2>3, Ranks
  <2> QED
    BY <2>4, <2>5
<1>2. n \in Nat
  BY FS_CardinalityType
<1>3. ASSUME NEW k \in 0 .. n - 1
      PROVE  \E t \in dict : Key(dict, t) = k
  <2> DEFINE f == [t \in dict |-> Key(dict, t)]
  <2>1. f \in Injection(dict, 0 .. n - 1)
    <3>1. \A t \in dict : Key(dict, t) \in 0 .. n - 1
      BY <1>1, <1>2
    <3> HIDE DEF n
    <3> QED
      BY <1>1, <3>1 DEF Injection, IsInjective
  <2>2. IsFiniteSet(0 .. n - 1) /\ Cardinality(0 .. n - 1) = n
    <3>1. 0 \in Int /\ n - 1 \in Int /\ (0 > n - 1 <=> n = 0) /\ n - 1 - 0 + 1 = n
      BY <1>2
    <3> QED
      BY <3>1, FS_Interval
  <2> HIDE DEF f
  <2>3. f \in Surjection(dict, 0 .. n - 1)
    BY <2>1, <2>2, FS_Injection
  <2>4. \A j \in 0 .. n - 1 : \E t \in dict : f[t] = j
    <3> HIDE DEF n
    <3> QED
      BY <2>3 DEF Surjection
  <2> QED
    BY <2>4 DEF f
<1> HIDE DEF n
<1>4. ASSUME NEW k \in 0 .. n - 1
      PROVE  Entry(dict, k) \in dict /\ Key(dict, Entry(dict, k)) = k
  BY <1>3 DEF Entry
<1>5. ASSUME NEW t \in dict
      PROVE  Entry(dict, Key(dict, t)) = t
  <2>1. Key(dict, t) \in 0 .. n - 1
    BY <1>1, <1>2
  <2> QED
    BY <1>1, <1>4, <2>1
<1> QED
  BY <1>1, <1>2, <1>4, <1>5 DEF n

LEMMA HeaderBytes ==
  ASSUME NEW dict \in SUBSET Token, IsFiniteSet(dict), Cardinality(dict) <= Escape
  PROVE  LET n == Cardinality(dict)
             w == TokenLen + 1
         IN  /\ Header(dict) \in Seq(Byte) /\ Len(Header(dict)) = n * w + 1
             /\ n * w \in Nat
             /\ Header(dict)[n * w + 1] = 0
             /\ \A k \in 0 .. n - 1 :
                  /\ k * w \in Nat /\ k * w + 1 + TokenLen <= n * w
                  /\ Header(dict)[k * w + 1] = TokenLen
                  /\ \A j \in 1 .. TokenLen :
                       Header(dict)[k * w + 1 + j] = Entry(dict, k)[j]
<1> DEFINE n == Cardinality(dict)
           w == TokenLen + 1
           byte(i) == LET k == (i - 1) \div w
                          j == (i - 1) % w
                      IN IF k = n THEN 0 ELSE IF j = 0 THEN TokenLen ELSE Entry(dict, k)[j]
<1>1. n \in Nat /\ w \in Nat \ {0} /\ TokenLen \in Nat /\ w - 1 = TokenLen
  BY KeysNumberEntries, Sizes
<1>2. Header(dict) = [i \in 1 .. n * w + 1 |-> byte(i)]
  BY DEF Header
<1>3. n * w \in Nat
  BY <1>1
<1>4. \A k \in 0 .. n - 1 : Entry(dict, k) \in Token
  BY KeysNumberEntries
<1> HIDE DEF n, w
<1>5. ASSUME NEW i \in 1 .. n * w + 1
      PROVE  byte(i) \in Byte
  <2> DEFINE k == (i - 1) \div w
             j == (i - 1) % w
  <2>1. i - 1 \in Int /\ 0 <= i - 1 /\ i - 1 <= n * w
    BY <1>3
  <2>2. k \in Int /\ j \in Int /\ w * k <= i - 1 /\ i - 1 < w * k + w /\ 0 <= j /\ j < w
    <3> DEFINE a == i - 1
    <3>1. a \in Int
      BY <2>1
    <3> HIDE DEF a
    <3> QED
      BY <1>1, <3>1, Division DEF a
  <2> HIDE DEF k, j
  <2>3. 0 <= k
    <3> SUFFICES ASSUME k <= -1 PROVE FALSE
      BY <2>2
    <3>1. w * k <= w * (-1) /\ w * (-1) = -w
      BY <1>1, <2>2
    <3> QED
      BY <1>1, <2>1, <2>2, <3>1
  <2>4. k <= n
    <3> SUFFICES ASSUME n + 1 <= k PROVE FALSE
      BY <1>1, <2>2
    <3>1. w * (n + 1) <= w * k /\ w * (n + 1) = n * w + w
      BY <1>1, <2>2
    <3> QED
      BY <1>1, <1>3, <2>1, <2>2, <3>1
  <2>5. byte(i) = IF k = n THEN 0 ELSE IF j = 0 THEN TokenLen ELSE Entry(dict, k)[j]
    BY DEF k, j
  <2>6. ASSUME k # n, j # 0 PROVE Entry(dict, k)[j] \in Byte
    <3>1. k \in 0 .. n - 1 /\ j \in 1 .. TokenLen
      BY <1>1, <2>2, <2>3, <2>4, <2>6
    <3> QED
      BY <1>4, <3>1, TokenBytes
  <2> HIDE DEF byte
  <2> QED
    BY <2>5, <2>6, Sizes
<1>6. Header(dict) \in Seq(Byte) /\ Len(Header(dict)) = n * w + 1
  <2>1. Header(dict) \in [1 .. n * w + 1 -> Byte] /\ n * w + 1 \in Nat
    <3> HIDE DEF byte
    <3> QED
      BY <1>2, <1>3, <1>5
  <2> QED
    BY <2>1
<1>7. ASSUME NEW k \in 0 .. n, NEW j \in 0 .. TokenLen, k * w + j <= n * w
      PROVE  /\ k * w \in Nat /\ k * w + j + 1 \in 1 .. n * w + 1
             /\ Header(dict)[k * w + j + 1] =
                  IF k = n THEN 0 ELSE IF j = 0 THEN TokenLen ELSE Entry(dict, k)[j]
  <2>1. k \in Nat /\ j \in 0 .. w - 1 /\ k * w \in Nat
    BY <1>1
  <2>2. (k * w + j) \div w = k /\ (k * w + j) % w = j
    BY <1>1, <2>1, Quotient
  <2> DEFINE i == k * w + j + 1
  <2>3. i - 1 = k * w + j /\ i \in 1 .. n * w + 1
    BY <1>3, <1>7, <2>1
  <2>4. byte(i) = IF k = n THEN 0 ELSE IF j = 0 THEN TokenLen ELSE Entry(dict, k)[j]
    <3> HIDE DEF i
    <3>1. (i - 1) \div w = k /\ (i - 1) % w = j
      BY <2>2, <2>3
    <3> QED
      BY <3>1
  <2> HIDE DEF byte, i
  <2>5. Header(dict)[i] = byte(i)
    BY <1>2, <2>3
  <2> QED
    BY <2>1, <2>3, <2>4, <2>5 DEF i
<1>8. Header(dict)[n * w + 1] = 0
  <2>1. n \in 0 .. n /\ 0 \in 0 .. TokenLen /\ n * w + 0 <= n * w /\ n * w + 0 + 1 = n * w + 1
    BY <1>1, <1>3
  <2> QED
    BY <1>7, <2>1
<1>9. ASSUME NEW k \in 0 .. n - 1
      PROVE  /\ k * w \in Nat /\ k * w + 1 + TokenLen <= n * w
             /\ Header(dict)[k * w + 1] = TokenLen
             /\ \A j \in 1 .. TokenLen :
                  Header(dict)[k * w + 1 + j] = Entry(dict, k)[j]
  <2>1. k \in 0 .. n /\ k \in Nat /\ k # n /\ k * w \in Nat
    BY <1>1
  <2>2. k * w + 1 + TokenLen <= n * w
    <3>1. w * (k + 1) <= w * n /\ w * (k + 1) = k * w + w /\ w * n = n * w
      BY <1>1, <2>1
    <3> QED
      BY <1>1, <1>3, <2>1, <3>1
  <2>3. Header(dict)[k * w + 1] = TokenLen
    <3>1. 0 \in 0 .. TokenLen /\ k * w + 0 <= n * w /\ k * w + 0 + 1 = k * w + 1
      BY <1>1, <1>3, <2>1, <2>2
    <3> QED
      BY <1>7, <2>1, <3>1
  <2>4. ASSUME NEW j \in 1 .. TokenLen
        PROVE  Header(dict)[k * w + 1 + j] = Entry(dict, k)[j]
    <3>1. /\ j \in 0 .. TokenLen /\ j # 0
          /\ k * w + j <= n * w /\ k * w + j + 1 = k * w + 1 + j
      BY <1>1, <1>3, <2>1, <2>2
    <3> QED
      BY <1>7, <2>1, <3>1
  <2> QED
    BY <2>1, <2>2, <2>3, <2>4
<1> QED
  BY <1>3, <1>6, <1>8, <1>9 DEF n, w
-----------------------------------------------------------------------------
(***************************************************************************)
(* Tokens of the message, and how often one is repeated.                   *)
(***************************************************************************)
LEMMA TokenInMessage ==
  ASSUME message \in Seq(Byte), NEW p \in Nat, TokenLen <= p, p <= Len(message)
  PROVE  /\ TokenAt(p) \in Token
         /\ \A i \in 1 .. TokenLen : TokenAt(p)[i] = message[p - TokenLen + i]
<1>1. TokenLen \in Nat \ {0} /\ Len(message) \in Nat
  BY Sizes
<1>2. TokenAt(p) \in Seq(Byte) /\ Len(TokenAt(p)) = TokenLen
  BY <1>1 DEF TokenAt
<1>3. ASSUME NEW i \in 1 .. TokenLen
      PROVE  TokenAt(p)[i] = message[p - TokenLen + i]
  BY <1>1 DEF TokenAt
<1> QED
  BY <1>2, <1>3 DEF Token

(* The inner loop of encodeMessage ends, at the first place where it may.  *)
LEMMA RepeatsEnds ==
  ASSUME message \in Seq(Byte), NEW p \in Nat, TokenLen <= p, p < Len(message)
  PROVE  /\ Repeats(p) \in 1 .. Len(message)
         /\ \A j \in 1 .. Repeats(p) - 1 : GoesOn(p, j)
         /\ Repeats(p) <= Escape
         /\ p + (Repeats(p) - 1) * TokenLen < Len(message)
<1> DEFINE n == Len(message)
           S == {r \in 1 .. n : ~GoesOn(p, r)}
<1>1. n \in Nat /\ TokenLen \in Nat \ {0} /\ Escape \in Nat \ {0} /\ n # 0
  BY Sizes
<1>2. n \in S
  <2>1. n \in 1 .. n /\ n <= n * TokenLen
    BY <1>1
  <2>2. ~(p + n * TokenLen < n)
    BY <1>1, <2>1
  <2> QED
    BY <2>1, <2>2 DEF GoesOn
<1>3. S \in SUBSET Nat /\ S # {}
  BY <1>2
<1> HIDE DEF S
<1>4. PICK x \in S : \A y \in S : x <= y
  BY <1>3, Minimum
<1>5. x \in 1 .. n /\ ~GoesOn(p, x) /\ \A j \in 1 .. x - 1 : GoesOn(p, j)
  <2>1. x \in 1 .. n /\ ~GoesOn(p, x) /\ x \in Nat
    BY <1>1 DEF S
  <2>2. ASSUME NEW j \in 1 .. x - 1, ~GoesOn(p, j)
        PROVE  FALSE
    <3>1. j \in 1 .. n /\ ~(x <= j)
      BY <1>1, <2>1
    <3> QED
      BY <1>4, <2>2, <3>1 DEF S
  <2> QED
    BY <2>1, <2>2
<1> DEFINE r == Repeats(p)
<1>6. r \in 1 .. n /\ ~GoesOn(p, r) /\ \A j \in 1 .. r - 1 : GoesOn(p, j)
  <2>1. r = CHOOSE i \in 1 .. n : ~GoesOn(p, i) /\ \A j \in 1 .. i - 1 : GoesOn(p, j)
    BY DEF Repeats
  <2>2. \E i \in 1 .. n : ~GoesOn(p, i) /\ \A j \in 1 .. i - 1 : GoesOn(p, j)
    BY <1>5
  <2> HIDE DEF r
  <2> QED
    BY <2>1, <2>2
<1> HIDE DEF r
<1>7. r <= Escape /\ p + (r - 1) * TokenLen < n
  <2>1. r \in Nat /\ 1 <= r
    BY <1>1, <1>6
  <2>2. CASE r = 1
    <3>1. (r - 1) * TokenLen = 0
      BY <1>1, <2>2
    <3> QED
      BY <1>1, <2>2, <3>1
  <2>3. CASE r # 1
    <3>1. r - 1 \in 1 .. r - 1
      BY <2>1, <2>3
    <3>2. GoesOn(p, r - 1)
      BY <1>6, <3>1
    <3>3. r - 1 < Escape - 1 /\ p + (r - 1) * TokenLen < n
      BY <3>2 DEF GoesOn
    <3> QED
      BY <1>1, <2>1, <3>3
  <2> QED
    BY <2>2, <2>3
<1> QED
  BY <1>6, <1>7 DEF r

(* What one command stands for are copies of the token, byte by byte.      *)
LEMMA RepeatedBytes ==
  ASSUME message \in Seq(Byte), NEW p \in Nat, TokenLen <= p, p < Len(message)
  PROVE  \A i \in 1 .. Repeats(p) * TokenLen :
           message[p - TokenLen + i] = TokenAt(p)[((i - 1) % TokenLen) + 1]
<1> DEFINE r == Repeats(p)
<1>1. /\ TokenLen \in Nat \ {0} /\ r \in Nat \ {0} /\ Len(message) \in Nat
      /\ p + (r - 1) * TokenLen < Len(message)
      /\ \A j \in 1 .. r - 1 : GoesOn(p, j)
  BY RepeatsEnds, Sizes
<1> HIDE DEF r
<1> SUFFICES ASSUME NEW i \in 1 .. r * TokenLen
             PROVE  message[p - TokenLen + i] = TokenAt(p)[((i - 1) % TokenLen) + 1]
  BY DEF r
<1>2. r * TokenLen \in Nat /\ i \in Int /\ 1 <= i /\ i <= r * TokenLen
  BY <1>1
<1>3. PICK j \in Int : TokenLen * j <= i - 1 /\ i - 1 < TokenLen * j + TokenLen
  <2> DEFINE a == i - 1
  <2>1. a \in Int
    BY <1>2
  <2> HIDE DEF a
  <2>2. /\ a \div TokenLen \in Int /\ TokenLen * (a \div TokenLen) <= a
        /\ a < TokenLen * (a \div TokenLen) + TokenLen
    BY <1>1, <2>1, Division
  <2>3. \E j \in Int : TokenLen * j <= a /\ a < TokenLen * j + TokenLen
    BY <2>2
  <2> QED
    BY <2>3 DEF a
<1>4. 0 <= j /\ j <= r - 1
  <2>1. ASSUME j <= -1 PROVE FALSE
    <3>1. TokenLen * j <= TokenLen * (-1) /\ TokenLen * (-1) = -TokenLen /\ TokenLen * j \in Int
      BY <1>1, <1>3, <2>1
    <3> QED
      BY <1>1, <1>2, <1>3, <3>1
  <2>2. ASSUME r <= j PROVE FALSE
    <3>1. TokenLen * r <= TokenLen * j /\ TokenLen * r = r * TokenLen /\ TokenLen * j \in Int
      BY <1>1, <1>3, <2>2
    <3> QED
      BY <1>1, <1>2, <1>3, <3>1
  <2> QED
    BY <1>1, <1>3, <2>1, <2>2
<1> DEFINE k == i - 1 - TokenLen * j
           q == p + j * TokenLen
<1>5. /\ k \in 0 .. TokenLen - 1 /\ i - 1 = j * TokenLen + k /\ j \in Nat
      /\ j * TokenLen \in Nat
  BY <1>1, <1>2, <1>3, <1>4
<1>6. (i - 1) % TokenLen = k
  <2> HIDE DEF k
  <2> QED
    BY <1>1, <1>5, Quotient
<1>7. q \in Nat /\ TokenLen <= q /\ q <= Len(message)
  <2>1. TokenLen * j <= TokenLen * (r - 1)
    BY <1>1, <1>3, <1>4
  <2>2. j * TokenLen <= (r - 1) * TokenLen
    BY <1>1, <1>3, <2>1
  <2> QED
    BY <1>1, <1>5, <2>2
<1>8. TokenAt(q) = TokenAt(p)
  <2>1. CASE j = 0
    <3>1. j * TokenLen = 0
      BY <1>1, <2>1
    <3>2. q = p
      BY <3>1
    <3> QED
      BY <3>2
  <2>2. CASE j # 0
    <3>1. j \in 1 .. r - 1
      BY <1>1, <1>4, <1>5, <2>2
    <3> QED
      BY <1>1, <3>1 DEF GoesOn
  <2> QED
    BY <2>1, <2>2
<1>9. k + 1 \in 1 .. TokenLen /\ q - TokenLen + (k + 1) = p - TokenLen + i
  BY <1>1, <1>2, <1>5
<1> HIDE DEF k, q
<1>10. TokenAt(q)[k + 1] = message[q - TokenLen + (k + 1)]
  BY <1>7, <1>9, TokenInMessage
<1> QED
  BY <1>6, <1>8, <1>9, <1>10

LEMMA CopiesOfToken ==
  ASSUME NEW t \in Token, NEW r \in Nat
  PROVE  /\ Copies(t, r) \in Seq(Byte) /\ Len(Copies(t, r)) = r * TokenLen
         /\ r * TokenLen \in Nat
         /\ \A i \in 1 .. r * TokenLen : Copies(t, r)[i] = t[((i - 1) % TokenLen) + 1]
<1>1. TokenLen \in Nat \ {0} /\ r * TokenLen \in Nat /\ Len(t) = TokenLen
  BY Sizes, TokenBytes
<1>2. Copies(t, r) = [i \in 1 .. r * TokenLen |-> t[((i - 1) % TokenLen) + 1]]
  BY <1>1 DEF Copies
<1>3. ASSUME NEW i \in 1 .. r * TokenLen
      PROVE  t[((i - 1) % TokenLen) + 1] \in Byte
  <2>1. i - 1 \in Int
    BY <1>1
  <2>2. (i - 1) % TokenLen \in Int /\ 0 <= (i - 1) % TokenLen /\ (i - 1) % TokenLen < TokenLen
    BY <1>1, <2>1, Division
  <2>3. ((i - 1) % TokenLen) + 1 \in 1 .. TokenLen
    BY <1>1, <2>2
  <2> QED
    BY <2>3, TokenBytes
<1>4. Copies(t, r) \in [1 .. r * TokenLen -> Byte]
  BY <1>2, <1>3
<1> QED
  BY <1>1, <1>2, <1>4
-----------------------------------------------------------------------------
(***************************************************************************)
(* The steps of encodeMessage.                                             *)
(***************************************************************************)
CutType == [code : Nat, plain : Nat]

LEMMA CutFields ==
  ASSUME NEW a \in Nat, NEW b \in Nat
  PROVE  Cut(a, b) \in CutType /\ Cut(a, b).code = a /\ Cut(a, b).plain = b
BY DEF Cut, CutType

LEMMA Types ==
  ASSUME CompressionTypeOK, DictionaryInv
  PROVE  /\ message \in Seq(Byte) /\ Len(message) \in Nat
         /\ sent \in Seq(Byte) /\ Len(sent) \in Nat
         /\ decoded \in Seq(Byte) /\ Len(decoded) \in Nat
         /\ cuts \in Seq(CutType) /\ Len(cuts) \in Nat /\ Len(keys) \in Nat
         /\ position \in Nat
         /\ dictionary \in SUBSET Token /\ IsFiniteSet(dictionary)
         /\ Cardinality(dictionary) \in Nat
         /\ HeaderLen \in Nat /\ 1 <= HeaderLen
         /\ \A k \in 1 .. Len(cuts) :
              cuts[k] \in CutType /\ cuts[k].code \in Nat /\ cuts[k].plain \in Nat
<1>1. /\ message \in Seq(Byte) /\ sent \in Seq(Byte) /\ decoded \in Seq(Byte)
      /\ position \in Nat /\ cuts \in Seq(CutType) /\ keys \in Seq(Seq(Byte))
  BY DEF CompressionTypeOK, CutType
<1>2. /\ Len(message) \in Nat /\ Len(sent) \in Nat /\ Len(decoded) \in Nat
      /\ Len(cuts) \in Nat /\ Len(keys) \in Nat
  BY <1>1
<1>3. dictionary \in SUBSET Token /\ IsFiniteSet(dictionary)
  BY DEF CompressionTypeOK, DictionaryInv, Token
<1>4. Cardinality(dictionary) \in Nat
  BY <1>3, FS_CardinalityType
<1>5. Cardinality(dictionary) * (TokenLen + 1) \in Nat
  BY <1>4, Sizes
<1>6. HeaderLen \in Nat /\ 1 <= HeaderLen
  BY <1>5 DEF HeaderLen
<1>7. \A k \in 1 .. Len(cuts) : cuts[k] \in CutType
  BY <1>1
<1>8. \A k \in 1 .. Len(cuts) : cuts[k].code \in Nat /\ cuts[k].plain \in Nat
  BY <1>7 DEF CutType
<1> QED
  BY <1>1, <1>2, <1>3, <1>4, <1>6, <1>7, <1>8

(* A code stays what it is when bytes are written behind it.               *)
LEMMA CodeStays ==
  ASSUME NEW a \in CutType, NEW b \in CutType, b.code <= Len(sent),
         sent \in Seq(Byte), IsLiteral(a, b) \/ IsRepeat(a, b),
         \A i \in 1 .. Len(sent) : sent'[i] = sent[i],
         UNCHANGED <<message, dictionary>>
  PROVE  (IsLiteral(a, b) \/ IsRepeat(a, b))'
<1>1. a.code \in Nat /\ a.plain \in Nat /\ Len(sent) \in Nat
  BY DEF CutType
<1>2. CASE IsLiteral(a, b)
  <2> DEFINE x == message[a.plain + 1]
  <2>1. /\ sent[a.code + 1] = x /\ (x = Escape => sent[a.code + 2] = Escape)
        /\ b = Cut(IF x = Escape THEN a.code + 2 ELSE a.code + 1, a.plain + 1)
    BY <1>2 DEF IsLiteral
  <2>2. /\ b.code = IF x = Escape THEN a.code + 2 ELSE a.code + 1
    BY <2>1 DEF Cut
  <2>3. a.code + 1 \in 1 .. Len(sent) /\ (x = Escape => a.code + 2 \in 1 .. Len(sent))
    BY <1>1, <2>2
  <2>4. sent'[a.code + 1] = x /\ (x = Escape => sent'[a.code + 2] = Escape)
    BY <2>1, <2>3
  <2>5. x = message'[a.plain + 1]
    OBVIOUS
  <2> HIDE DEF x
  <2>6. IsLiteral(a, b)'
    BY <2>1, <2>4, <2>5 DEF IsLiteral, Cut
  <2> QED
    BY <2>6
<1>3. CASE IsRepeat(a, b)
  <2>1. PICK t \in dictionary, r \in 1 .. Escape :
          /\ sent[a.code + 1] = Escape
          /\ sent[a.code + 2] = Key(dictionary, t)
          /\ sent[a.code + 3] = r
          /\ b = Cut(a.code + 3, a.plain + r * TokenLen)
          /\ \A i \in 1 .. r * TokenLen :
               message[a.plain + i] = t[((i - 1) % TokenLen) + 1]
    BY <1>3 DEF IsRepeat
  <2>2. b.code = a.code + 3
    BY <2>1 DEF Cut
  <2>3. a.code + 1 \in 1 .. Len(sent) /\ a.code + 2 \in 1 .. Len(sent) /\ a.code + 3 \in 1 .. Len(sent)
    BY <1>1, <2>2
  <2>4. /\ sent'[a.code + 1] = Escape
        /\ sent'[a.code + 2] = Key(dictionary, t)
        /\ sent'[a.code + 3] = r
    BY <2>1, <2>3
  <2>5. IsRepeat(a, b)'
    BY <2>1, <2>4 DEF IsRepeat, Cut, Key, Before
  <2> QED
    BY <2>5
<1> QED
  BY <1>2, <1>3

(* A cut has the same code behind it under another name.                   *)
LEMMA SameCode ==
  ASSUME NEW k, NEW a, NEW b, a = cuts'[k], b = cuts'[k + 1],
         (IsLiteral(a, b) \/ IsRepeat(a, b))'
  PROVE  (IsLiteral(cuts[k], cuts[k + 1]) \/ IsRepeat(cuts[k], cuts[k + 1]))'
<1>1. CASE IsLiteral(a, b)'
  <2>1. IsLiteral(cuts[k], cuts[k + 1])'
    BY <1>1 DEF IsLiteral
  <2> QED
    BY <2>1
<1>2. CASE IsRepeat(a, b)'
  <2>1. IsRepeat(cuts[k], cuts[k + 1])'
    BY <1>2 DEF IsRepeat
  <2> QED
    BY <2>1
<1> QED
  BY <1>1, <1>2

(* One turn of the loop adds one code.                                     *)
LEMMA TurnKeepsCuts ==
  ASSUME CompressionTypeOK, DictionaryInv, CutsInv, LastCut.code = Len(sent),
         NEW x \in Seq(Byte), sent' = sent \o x,
         NEW a \in CutType, a = LastCut,
         NEW c \in CutType, c.code = Len(sent'), c.plain <= Len(message),
         (IsLiteral(a, c) \/ IsRepeat(a, c))',
         cuts' = Append(cuts, c),
         UNCHANGED <<message, dictionary>>
  PROVE  CutsInv' /\ LastCut' = c
<1> DEFINE n == Len(cuts)
<1>1. /\ sent \in Seq(Byte) /\ Len(sent) \in Nat /\ cuts \in Seq(CutType) /\ n \in Nat
      /\ HeaderLen \in Nat /\ 1 <= HeaderLen
  BY Types
<1>2. n # 0 /\ cuts[1] = Cut(HeaderLen, 0)
  BY <1>1 DEF CutsInv
<1>3. /\ sent' \in Seq(Byte) /\ Len(sent') = Len(sent) + Len(x) /\ Len(x) \in Nat
      /\ \A i \in 1 .. Len(sent) : sent'[i] = sent[i]
  BY <1>1
<1>4. c.code \in Nat /\ c.plain \in Nat
  BY DEF CutType
<1>5. /\ cuts' \in Seq(CutType) /\ Len(cuts') = n + 1 /\ cuts'[n + 1] = c
      /\ \A k \in 1 .. n : cuts'[k] = cuts[k]
  BY <1>1
<1>6. LastCut' = c
  BY <1>5 DEF LastCut
<1>7. HeaderLen' = HeaderLen
  BY DEF HeaderLen
<1>8. cuts' # << >> /\ cuts'[1] = Cut(HeaderLen, 0)
  BY <1>1, <1>2, <1>5
<1>9. /\ \A i \in 1 .. HeaderLen : sent[i] = Header(dictionary)[i]
      /\ \A k \in 1 .. n : /\ HeaderLen <= cuts[k].code /\ cuts[k].code <= Len(sent)
                           /\ cuts[k].plain <= Len(message)
      /\ \A k \in 1 .. n - 1 :
           IsLiteral(cuts[k], cuts[k + 1]) \/ IsRepeat(cuts[k], cuts[k + 1])
  BY DEF CutsInv, HeaderInv, CutsInRange, CodesInv
<1>10. HeaderLen <= Len(sent)
  <2>1. 1 \in 1 .. n
    BY <1>1, <1>2
  <2>2. cuts[1].code = HeaderLen
    BY <1>1, <1>2, CutFields
  <2> QED
    BY <1>9, <2>1, <2>2
<1>11. \A i \in 1 .. HeaderLen : sent'[i] = Header(dictionary)[i]
  BY <1>1, <1>3, <1>9, <1>10
<1>12. \A k \in 1 .. n + 1 :
         /\ HeaderLen <= cuts'[k].code /\ cuts'[k].code <= Len(sent')
         /\ cuts'[k].plain <= Len(message)
  <2> SUFFICES ASSUME NEW k \in 1 .. n + 1
               PROVE  /\ HeaderLen <= cuts'[k].code /\ cuts'[k].code <= Len(sent')
                      /\ cuts'[k].plain <= Len(message)
    OBVIOUS
  <2>1. CASE k = n + 1
    BY <1>1, <1>3, <1>4, <1>5, <1>10, <2>1
  <2>2. CASE k # n + 1
    <3>1. k \in 1 .. n
      BY <1>1, <2>2
    <3>2. cuts[k].code \in Nat /\ cuts'[k] = cuts[k]
      BY <1>5, <3>1, Types
    <3>3. /\ HeaderLen <= cuts[k].code /\ cuts[k].code <= Len(sent)
          /\ cuts[k].plain <= Len(message)
      BY <1>9, <3>1
    <3> QED
      BY <1>1, <1>3, <3>2, <3>3
  <2> QED
    BY <2>1, <2>2
<1>13. \A k \in 1 .. n : (IsLiteral(cuts[k], cuts[k + 1]) \/ IsRepeat(cuts[k], cuts[k + 1]))'
  <2> SUFFICES ASSUME NEW k \in 1 .. n
               PROVE  (IsLiteral(cuts[k], cuts[k + 1]) \/ IsRepeat(cuts[k], cuts[k + 1]))'
    OBVIOUS
  <2>1. CASE k = n
    <3>1. a = cuts'[k] /\ c = cuts'[k + 1]
      BY <1>1, <1>2, <1>5, <2>1 DEF LastCut
    <3> QED
      BY <3>1, SameCode
  <2>2. CASE k # n
    <3>1. k \in 1 .. n - 1 /\ k + 1 \in 1 .. n /\ k \in 1 .. n
      BY <1>1, <2>2
    <3>2. PICK d \in CutType, e \in CutType : d = cuts[k] /\ e = cuts[k + 1]
      BY <1>1, <3>1
    <3>3. e.code <= Len(sent) /\ (IsLiteral(d, e) \/ IsRepeat(d, e))
      BY <1>9, <3>1, <3>2
    <3>4. (IsLiteral(d, e) \/ IsRepeat(d, e))'
      BY <1>1, <1>3, <3>3, CodeStays
    <3>5. d = cuts'[k] /\ e = cuts'[k + 1]
      BY <1>5, <3>1, <3>2
    <3> QED
      BY <3>4, <3>5, SameCode
  <2> QED
    BY <2>1, <2>2
<1>14. HeaderInv'
  BY <1>7, <1>11 DEF HeaderInv
<1>15. CutsInRange'
  BY <1>5, <1>7, <1>12 DEF CutsInRange
<1>16. CodesInv'
  <2>1. Len(cuts') - 1 = n
    BY <1>1, <1>5
  <2> QED
    BY <1>13, <2>1 DEF CodesInv
<1> QED
  BY <1>6, <1>7, <1>8, <1>14, <1>15, <1>16 DEF CutsInv, Cut
LEMMA Concatenation ==
  ASSUME NEW S, NEW s \in Seq(S), NEW x \in Seq(S)
  PROVE  /\ s \o x \in Seq(S) /\ Len(s) \in Nat /\ Len(x) \in Nat
         /\ Len(s \o x) = Len(s) + Len(x)
         /\ \A i \in 1 .. Len(s) : (s \o x)[i] = s[i]
         /\ \A i \in 1 .. Len(x) : (s \o x)[Len(s) + i] = x[i]
OBVIOUS

LEMMA InEncode ==
  ASSUME CompressionInv, stage = "encode"
  PROVE  /\ CompressionTypeOK /\ DictionaryInv /\ CutsInv /\ dictionary # {}
         /\ keys = << >> /\ decoded = << >>
         /\ position \in Nat /\ TokenLen \in Nat
         /\ TokenLen <= position /\ position - TokenLen < Len(message)
         /\ LastCut \in CutType
         /\ LastCut.code = Len(sent) /\ LastCut.plain = position - TokenLen
<1>1. /\ CompressionTypeOK /\ DictionaryInv /\ CutsInv /\ dictionary # {}
      /\ keys = << >> /\ decoded = << >>
      /\ position - TokenLen < Len(message)
      /\ LastCut = Cut(Len(sent), position - TokenLen)
  BY DEF CompressionInv, StageInv
<1>2. /\ position \in Nat /\ TokenLen \in Nat /\ Len(cuts) \in Nat
      /\ \A k \in 1 .. Len(cuts) : cuts[k] \in CutType /\ cuts[k].plain \in Nat
      /\ cuts \in Seq(CutType)
  BY <1>1, Types, Sizes
<1>3. Len(cuts) \in 1 .. Len(cuts)
  <2>1. cuts # << >>
    BY <1>1 DEF CutsInv
  <2> QED
    BY <1>2, <2>1
<1>4. LastCut \in CutType /\ LastCut.plain \in Nat
  BY <1>2, <1>3 DEF LastCut
<1>5. LastCut.code = Len(sent) /\ LastCut.plain = position - TokenLen
  BY <1>1 DEF Cut
<1>6. TokenLen <= position
  BY <1>2, <1>4, <1>5
<1> QED
  BY <1>1, <1>2, <1>4, <1>5, <1>6

(* A turn that writes x for the bytes up to the token that ends at q.      *)
LEMMA Turn ==
  ASSUME CompressionInv, stage = "encode",
         NEW x \in Seq(Byte), sent' = sent \o x,
         NEW q \in Nat, position' = q, TokenLen <= q, q - TokenLen < Len(message),
         NEW c \in CutType, c = Cut(Len(sent'), q - TokenLen), cuts' = Append(cuts, c),
         NEW a \in CutType, a = LastCut, (IsLiteral(a, c) \/ IsRepeat(a, c))',
         UNCHANGED <<stage, message, dictionary, keys, decoded>>
  PROVE  CompressionInv'
<1>1. /\ CompressionTypeOK /\ DictionaryInv /\ CutsInv /\ dictionary # {}
      /\ keys = << >> /\ decoded = << >>
      /\ LastCut.code = Len(sent)
  BY InEncode
<1>2. c.code = Len(sent') /\ c.plain = q - TokenLen
  BY DEF Cut
<1>3. CutsInv' /\ LastCut' = c
  <2>1. c.plain <= Len(message)
    BY <1>1, <1>2, Types, Sizes
  <2> QED
    BY <1>1, <1>2, <2>1, TurnKeepsCuts
<1>4. CompressionTypeOK'
  <2>1. sent' \in Seq(Byte) /\ cuts' \in Seq(CutType)
    <3>1. sent \in Seq(Byte) /\ cuts \in Seq(CutType)
      BY <1>1, Types
    <3> QED
      BY <3>1
  <2> QED
    BY <1>1, <2>1 DEF CompressionTypeOK, CutType
<1>5. DictionaryInv'
  BY <1>1 DEF DictionaryInv
<1>6. StageInv'
  <2>1. KeysInv'
    <3>1. Cardinality(dictionary) \in Nat /\ dictionary' = dictionary /\ keys' = << >>
      BY <1>1, Types
    <3> QED
      BY <3>1 DEF KeysInv
  <2>2. (position - TokenLen < Len(message))' /\ (LastCut = Cut(Len(sent), position - TokenLen))'
    BY <1>3 DEF Cut
  <2> QED
    BY <1>1, <1>3, <2>1, <2>2 DEF StageInv
<1> QED
  BY <1>4, <1>5, <1>6 DEF CompressionInv

LEMMA WriteLiteralStep ==
  ASSUME CompressionInv, WriteLiteral
  PROVE  CompressionInv'
<1>1. /\ stage = "encode" /\ position < Len(message)
      /\ sent' = sent \o Literal(TokenAt(position)[1])
      /\ position' = position + 1
      /\ cuts' = Append(cuts, Cut(Len(sent'), position' - TokenLen))
      /\ UNCHANGED <<stage, message, dictionary, keys, decoded>>
  BY DEF WriteLiteral
<1>2. /\ CompressionTypeOK /\ DictionaryInv
      /\ position \in Nat /\ TokenLen \in Nat \ {0} /\ TokenLen <= position
      /\ position - TokenLen < Len(message)
      /\ LastCut \in CutType
      /\ LastCut.code = Len(sent) /\ LastCut.plain = position - TokenLen
  BY <1>1, InEncode, Sizes
<1>3. /\ message \in Seq(Byte) /\ Len(message) \in Nat
      /\ sent \in Seq(Byte) /\ Len(sent) \in Nat
  BY <1>2, Types
<1>4. PICK b \in Byte : b = message[position - TokenLen + 1] /\ b = TokenAt(position)[1]
  <2>1. 1 \in 1 .. TokenLen /\ position - TokenLen + 1 \in 1 .. Len(message)
    BY <1>1, <1>2, <1>3
  <2>2. TokenAt(position)[1] = message[position - TokenLen + 1]
    BY <1>1, <1>2, <1>3, <2>1, TokenInMessage
  <2>3. message[position - TokenLen + 1] \in Byte
    BY <1>3, <2>1
  <2> QED
    BY <2>2, <2>3
<1>5. PICK x \in Seq(Byte) :
        /\ x = Literal(b) /\ x[1] = b
        /\ b = Escape => Len(x) = 2 /\ x[2] = Escape
        /\ b # Escape => Len(x) = 1
  <2>1. CASE b = Escape
    <3>1. Literal(b) = <<b, b>> /\ <<b, b>> \in Seq(Byte)
      BY <2>1 DEF Literal
    <3> QED
      BY <2>1, <3>1
  <2>2. CASE b # Escape
    <3>1. Literal(b) = <<b>> /\ <<b>> \in Seq(Byte)
      BY <2>2 DEF Literal
    <3> QED
      BY <2>2, <3>1
  <2> QED
    BY <2>1, <2>2
<1>6. PICK q \in Nat : q = position + 1
  BY <1>2
<1>7. /\ sent' = sent \o x
      /\ Len(sent') = IF b = Escape THEN Len(sent) + 2 ELSE Len(sent) + 1
      /\ sent'[Len(sent) + 1] = b /\ (b = Escape => sent'[Len(sent) + 2] = Escape)
  <2>1. sent' = sent \o x
    BY <1>1, <1>4, <1>5
  <2>2. Len(sent') = Len(sent) + Len(x) /\ \A i \in 1 .. Len(x) : sent'[Len(sent) + i] = x[i]
    BY <1>3, <2>1, Concatenation
  <2>3. PICK n \in Nat : n = Len(x)
    OBVIOUS
  <2>4. n = IF b = Escape THEN 2 ELSE 1
    BY <1>5, <2>3
  <2>5. 1 \in 1 .. n /\ (b = Escape => 2 \in 1 .. n)
    BY <2>4
  <2>6. Len(sent') = Len(sent) + n /\ \A i \in 1 .. n : sent'[Len(sent) + i] = x[i]
    BY <2>2, <2>3
  <2> QED
    BY <1>3, <1>5, <2>1, <2>4, <2>5, <2>6
<1>8. PICK c \in CutType : c = Cut(Len(sent'), q - TokenLen)
  <2>1. Len(sent') \in Nat /\ q - TokenLen \in Nat
    BY <1>2, <1>3, <1>5, <1>6, <1>7
  <2> QED
    BY <2>1, CutFields
<1>9. PICK a \in CutType : a = LastCut
  BY <1>2
<1>10. IsLiteral(a, c)'
  <2>1. a.code = Len(sent) /\ a.plain = position - TokenLen
    BY <1>2, <1>9
  <2>2. sent'[a.code + 1] = b /\ (b = Escape => sent'[a.code + 2] = Escape)
    BY <1>7, <2>1
  <2>3. c = Cut(IF b = Escape THEN a.code + 2 ELSE a.code + 1, a.plain + 1)
    <3>1. Len(sent') = IF b = Escape THEN a.code + 2 ELSE a.code + 1
      BY <1>3, <1>5, <1>7, <2>1
    <3>2. q - TokenLen = a.plain + 1
      BY <1>2, <1>6, <2>1
    <3> QED
      BY <1>8, <3>1, <3>2
  <2>4. message'[a.plain + 1] = b
    BY <1>1, <1>4, <2>1
  <2> QED
    BY <2>2, <2>3, <2>4 DEF IsLiteral, Cut
<1>11. position' = q /\ TokenLen <= q /\ q - TokenLen < Len(message)
  BY <1>1, <1>2, <1>3, <1>6
<1>12. cuts' = Append(cuts, c)
  BY <1>1, <1>6, <1>8
<1>13. (IsLiteral(a, c) \/ IsRepeat(a, c))'
  BY <1>10
<1> QED
  BY <1>1, <1>7, <1>8, <1>9, <1>11, <1>12, <1>13, Turn

LEMMA WriteRepeatsStep ==
  ASSUME CompressionInv, WriteRepeats
  PROVE  CompressionInv'
<1> USE DEF WriteRepeats
<1>t. PICK t \in dictionary : t = TokenAt(position)
  OBVIOUS
<1>k. PICK k : k = Key(dictionary, t)
  OBVIOUS
<1>r. PICK r : r = Repeats(position)
  OBVIOUS
<1> DEFINE x == <<Escape, k, r>>
<1>1. /\ stage = "encode" /\ position < Len(message) /\ t \in dictionary
      /\ sent' = sent \o <<Escape, k, r % Base>>
      /\ position' = position + r * TokenLen
      /\ cuts' = Append(cuts, Cut(Len(sent'), position' - TokenLen))
      /\ UNCHANGED <<stage, message, dictionary, keys, decoded>>
  BY <1>t, <1>k, <1>r
<1> HIDE DEF WriteRepeats
<1>2. /\ CompressionTypeOK /\ DictionaryInv
      /\ position \in Nat /\ TokenLen \in Nat \ {0} /\ TokenLen <= position
      /\ position - TokenLen < Len(message)
      /\ LastCut \in CutType
      /\ LastCut.code = Len(sent) /\ LastCut.plain = position - TokenLen
  BY <1>1, InEncode, Sizes
<1>3. /\ message \in Seq(Byte) /\ Len(message) \in Nat
      /\ sent \in Seq(Byte) /\ Len(sent) \in Nat
      /\ dictionary \in SUBSET Token /\ IsFiniteSet(dictionary)
      /\ Cardinality(dictionary) <= Escape
  BY <1>2, Types DEF DictionaryInv
<1>4. /\ r \in 1 .. Len(message) /\ r <= Escape
      /\ position + (r - 1) * TokenLen < Len(message)
  BY <1>1, <1>2, <1>3, <1>r, RepeatsEnds
<1>5. \A i \in 1 .. r * TokenLen :
        message[position - TokenLen + i] = t[((i - 1) % TokenLen) + 1]
  BY <1>1, <1>2, <1>3, <1>t, <1>r, RepeatedBytes
<1>6. k \in Nat /\ k < Escape
  <2>1. Cardinality(dictionary) \in Nat /\ k \in Nat /\ k < Cardinality(dictionary)
    BY <1>1, <1>3, <1>k, KeysNumberEntries
  <2> QED
    BY <1>3, <2>1, Sizes
<1>7. r \in 1 .. Escape /\ r \in Byte /\ k \in Byte /\ Escape \in Byte /\ r % Base = r
  <2>1. r \in Nat /\ 1 <= r /\ r < Base /\ k < Base
    BY <1>3, <1>4, <1>6, Sizes
  <2> QED
    BY <1>4, <1>6, <2>1, Sizes DEF Byte
<1>8. /\ x \in Seq(Byte) /\ Len(x) = 3 /\ x[1] = Escape /\ x[2] = k /\ x[3] = r
      /\ sent' = sent \o x
  BY <1>1, <1>7
<1>9. PICK q \in Nat : q = position + r * TokenLen /\ r * TokenLen \in Nat
  BY <1>2, <1>7, Sizes
<1> HIDE DEF x
<1>10. /\ Len(sent') = Len(sent) + 3
       /\ \A i \in 1 .. 3 : sent'[Len(sent) + i] = x[i]
  <2>1. /\ Len(sent \o x) = Len(sent) + Len(x)
        /\ \A i \in 1 .. Len(x) : (sent \o x)[Len(sent) + i] = x[i]
    <3>1. PICK y \in Seq(Byte), z \in Seq(Byte) : y = sent /\ z = x
      BY <1>3, <1>8
    <3>2. /\ Len(y \o z) = Len(y) + Len(z)
          /\ \A i \in 1 .. Len(z) : (y \o z)[Len(y) + i] = z[i]
      BY Concatenation
    <3> QED
      BY <3>1, <3>2
  <2> QED
    BY <1>8, <2>1
<1>11. (r - 1) * TokenLen = r * TokenLen - TokenLen /\ TokenLen <= r * TokenLen
  BY <1>2, <1>7, Sizes
<1>12. PICK c \in CutType : c = Cut(Len(sent'), q - TokenLen)
  <2>1. Len(sent') \in Nat /\ q - TokenLen \in Nat
    BY <1>2, <1>3, <1>9, <1>10
  <2> QED
    BY <2>1, CutFields
<1>13. PICK a \in CutType : a = LastCut
  BY <1>2
<1>14. IsRepeat(a, c)'
  <2>1. a.code = Len(sent) /\ a.plain = position - TokenLen
    BY <1>2, <1>13
  <2>2. sent'[a.code + 1] = Escape /\ sent'[a.code + 2] = k /\ sent'[a.code + 3] = r
    BY <1>8, <1>10, <2>1
  <2>3. c = Cut(a.code + 3, a.plain + r * TokenLen)
    <3>1. Len(sent') = a.code + 3 /\ q - TokenLen = a.plain + r * TokenLen
      BY <1>2, <1>9, <1>10, <2>1
    <3> QED
      BY <1>12, <3>1
  <2>4. \A i \in 1 .. r * TokenLen : message'[a.plain + i] = t[((i - 1) % TokenLen) + 1]
    BY <1>1, <1>5, <2>1
  <2>5. k = Key(dictionary, t)' /\ dictionary' = dictionary /\ t \in dictionary
    BY <1>1, <1>k DEF Key, Before
  <2> QED
    BY <1>7, <2>2, <2>3, <2>4, <2>5 DEF IsRepeat, Cut
<1>15. position' = q /\ TokenLen <= q /\ q - TokenLen < Len(message)
  BY <1>1, <1>2, <1>3, <1>4, <1>9, <1>11
<1>16. cuts' = Append(cuts, c)
  BY <1>1, <1>9, <1>12
<1>17. (IsLiteral(a, c) \/ IsRepeat(a, c))'
  BY <1>14
<1> QED
  BY <1>1, <1>8, <1>12, <1>13, <1>15, <1>16, <1>17, Turn
LEMMA InitCompression == ASSUME Init PROVE CompressionInv
<1>1. message \in Seq(Byte)
  BY CompressionAssumption DEF Init
<1>2. CompressionTypeOK
  BY <1>1 DEF Init, CompressionTypeOK
<1>3. IsFiniteSet(dictionary) /\ Cardinality(dictionary) = 0 /\ dictionary = {}
  BY FS_EmptySet DEF Init
<1>4. DictionaryInv
  BY <1>3, Sizes DEF DictionaryInv
<1>5. KeysInv
  BY <1>3 DEF Init, KeysInv
<1>6. StageInv
  BY <1>5 DEF Init, StageInv
<1> QED
  BY <1>2, <1>4, <1>6 DEF CompressionInv

LEMMA InNew ==
  ASSUME CompressionInv, stage = "new"
  PROVE  /\ CompressionTypeOK /\ DictionaryInv /\ dictionary = {} /\ sent = << >> /\ cuts = << >>
         /\ keys = << >> /\ decoded = << >> /\ message \in Seq(Byte)
BY DEF CompressionInv, StageInv, CompressionTypeOK

LEMMA SendUncompressedStep ==
  ASSUME CompressionInv, SendUncompressed
  PROVE  CompressionInv'
<1>1. /\ CompressionTypeOK /\ DictionaryInv /\ dictionary = {} /\ cuts = << >>
      /\ keys = << >> /\ decoded = << >> /\ message \in Seq(Byte)
      /\ sent' = <<0>> \o message /\ stage' = "sent"
      /\ UNCHANGED <<message, dictionary, position, keys, decoded, cuts>>
  BY InNew DEF SendUncompressed
<1>2. sent' \in Seq(Byte)
  <2>1. <<0>> \in Seq(Byte)
    BY Sizes
  <2> QED
    BY <1>1, <2>1, Concatenation
<1>3. CompressionTypeOK'
  BY <1>1, <1>2 DEF CompressionTypeOK
<1>4. DictionaryInv'
  BY <1>1 DEF DictionaryInv
<1>5. KeysInv'
  <2>1. Cardinality(dictionary) = 0
    BY <1>1, FS_EmptySet
  <2> QED
    BY <1>1, <2>1 DEF KeysInv
<1>6. StageInv'
  BY <1>1, <1>5 DEF StageInv
<1> QED
  BY <1>3, <1>4, <1>6 DEF CompressionInv

LEMMA WriteHeaderStep ==
  ASSUME CompressionInv, WriteHeader
  PROVE  CompressionInv'
<1>1. /\ CompressionTypeOK /\ keys = << >> /\ decoded = << >> /\ message \in Seq(Byte)
      /\ CreateDictionary(message) # {}
      /\ sent' = Header(dictionary') /\ position' = TokenLen /\ stage' = "encode"
      /\ cuts' = <<Cut(Len(sent'), 0)>>
      /\ UNCHANGED <<message, keys, decoded>>
  BY InNew DEF WriteHeader
<1>2. PICK d \in SUBSET Token :
        /\ d = dictionary' /\ d # {} /\ IsFiniteSet(d) /\ Cardinality(d) <= Escape
        /\ TokenLen < Len(message)
  <2>1. dictionary' = CreateDictionary(message)
    BY DEF WriteHeader
  <2>2. /\ CreateDictionary(message) \in SUBSET Token
        /\ IsFiniteSet(CreateDictionary(message))
        /\ Cardinality(CreateDictionary(message)) <= Escape
        /\ TokenLen < Len(message)
    BY <1>1, DictionaryOfMessage
  <2> QED
    BY <1>1, <2>1, <2>2
<1>3. Cardinality(d) \in Nat /\ Len(message) \in Nat /\ TokenLen \in Nat
  BY <1>1, <1>2, KeysNumberEntries, Sizes
<1> DEFINE l == Cardinality(d) * (TokenLen + 1) + 1
<1>4. Header(d) \in Seq(Byte) /\ Len(Header(d)) = l /\ l \in Nat
  BY <1>2, HeaderBytes
<1>5. HeaderLen' = l
  BY <1>2 DEF HeaderLen
<1> HIDE DEF l
<1>6. sent' \in Seq(Byte) /\ Len(sent') = l /\ sent' = Header(d)
  BY <1>1, <1>2, <1>4
<1>7. PICK c \in CutType : c = Cut(l, 0) /\ c.code = l /\ c.plain = 0
  <2>1. l \in Nat /\ 0 \in Nat
    BY <1>4
  <2> QED
    BY <2>1, CutFields
<1>8. cuts' = <<c>> /\ cuts' \in Seq(CutType) /\ Len(cuts') = 1 /\ cuts'[1] = c
  BY <1>1, <1>6, <1>7
<1>9. LastCut' = c
  BY <1>8 DEF LastCut
<1>10. CompressionTypeOK'
  <2>1. \A t \in d : t \in Seq(Byte) /\ Len(t) = TokenLen
    BY DEF Token
  <2>2. position' \in Nat
    BY <1>1, <1>3
  <2> QED
    BY <1>1, <1>2, <1>6, <1>8, <2>1, <2>2 DEF CompressionTypeOK, CutType
<1>11. DictionaryInv'
  BY <1>1, <1>2 DEF DictionaryInv
<1>12. CutsInv'
  <2>1. HeaderInv'
    <3>1. \A i \in 1 .. l : sent'[i] = Header(d)[i]
      BY <1>6
    <3> QED
      BY <1>2, <1>5, <3>1 DEF HeaderInv
  <2>2. CutsInRange'
    <3>1. ASSUME NEW k \in 1 .. 1
          PROVE  l <= cuts'[k].code /\ cuts'[k].code <= l /\ cuts'[k].plain <= Len(message)
      BY <1>3, <1>4, <1>7, <1>8
    <3> QED
      BY <1>1, <1>5, <1>6, <1>8, <3>1 DEF CutsInRange
  <2>3. CodesInv'
    BY <1>8 DEF CodesInv
  <2>4. (cuts # << >> /\ cuts[1] = Cut(HeaderLen, 0))'
    BY <1>5, <1>7, <1>8 DEF Cut
  <2> QED
    BY <2>1, <2>2, <2>3, <2>4 DEF CutsInv
<1>13. StageInv'
  <2>1. KeysInv'
    BY <1>1, <1>2, <1>3 DEF KeysInv
  <2>2. (position - TokenLen < Len(message))' /\ (LastCut = Cut(Len(sent), position - TokenLen))'
    <3>1. position' - TokenLen = 0 /\ 0 < Len(message')
      BY <1>1, <1>2, <1>3
    <3> QED
      BY <1>6, <1>7, <1>9, <3>1 DEF Cut
  <2> QED
    BY <1>1, <1>2, <1>12, <2>1, <2>2 DEF StageInv
<1> QED
  BY <1>10, <1>11, <1>13 DEF CompressionInv

(* Bytes written behind the last cut leave what stands before it.          *)
LEMMA CutsStay ==
  ASSUME CompressionTypeOK, DictionaryInv, CutsInv, NEW x \in Seq(Byte), sent' = sent \o x,
         UNCHANGED <<message, dictionary, cuts>>
  PROVE  CutsInv'
<1>1. /\ sent \in Seq(Byte) /\ Len(sent) \in Nat /\ cuts \in Seq(CutType)
      /\ Len(cuts) \in Nat /\ HeaderLen \in Nat
      /\ \A k \in 1 .. Len(cuts) :
           cuts[k] \in CutType /\ cuts[k].code \in Nat /\ cuts[k].plain \in Nat
  BY Types
<1>2. /\ Len(sent') = Len(sent) + Len(x) /\ Len(x) \in Nat
      /\ \A i \in 1 .. Len(sent) : sent'[i] = sent[i]
  BY <1>1, Concatenation
<1>3. HeaderLen' = HeaderLen
  BY DEF HeaderLen
<1>4. /\ cuts # << >> /\ cuts[1] = Cut(HeaderLen, 0)
      /\ HeaderInv /\ CutsInRange /\ CodesInv
  BY DEF CutsInv
<1>5. HeaderInv'
  <2>1. HeaderLen <= Len(sent)
    <3>1. 1 \in 1 .. Len(cuts)
      BY <1>1, <1>4
    <3>2. HeaderLen <= cuts[1].code /\ cuts[1].code <= Len(sent) /\ cuts[1].code \in Nat
      BY <1>1, <1>4, <3>1 DEF CutsInRange
    <3> QED
      BY <1>1, <3>2
  <2>2. \A i \in 1 .. HeaderLen : sent'[i] = sent[i]
    BY <1>1, <1>2, <2>1
  <2> QED
    BY <1>3, <1>4, <2>2 DEF HeaderInv
<1>6. CutsInRange'
  <2>1. ASSUME NEW k \in 1 .. Len(cuts)
        PROVE  /\ HeaderLen <= cuts[k].code /\ cuts[k].code <= Len(sent')
               /\ cuts[k].plain <= Len(message)
    <3>1. /\ HeaderLen <= cuts[k].code /\ cuts[k].code <= Len(sent)
          /\ cuts[k].plain <= Len(message) /\ cuts[k].code \in Nat
      BY <1>1, <1>4 DEF CutsInRange
    <3> QED
      BY <1>1, <1>2, <3>1
  <2> QED
    BY <1>3, <2>1 DEF CutsInRange
<1>7. CodesInv'
  <2>1. ASSUME NEW k \in 1 .. Len(cuts) - 1
        PROVE  (IsLiteral(cuts[k], cuts[k + 1]) \/ IsRepeat(cuts[k], cuts[k + 1]))'
    <3>1. k \in 1 .. Len(cuts) /\ k + 1 \in 1 .. Len(cuts)
      BY <1>1
    <3>2. PICK a \in CutType, b \in CutType : a = cuts[k] /\ b = cuts[k + 1]
      BY <1>1, <3>1
    <3>3. IsLiteral(a, b) \/ IsRepeat(a, b)
      BY <1>4, <3>2 DEF CodesInv
    <3>4. b.code <= Len(sent)
      BY <1>4, <3>1, <3>2 DEF CutsInRange
    <3>5. (IsLiteral(a, b) \/ IsRepeat(a, b))'
      BY <1>1, <1>2, <3>3, <3>4, CodeStays
    <3>6. a = cuts'[k] /\ b = cuts'[k + 1]
      BY <3>2
    <3> QED
      BY <3>5, <3>6, SameCode
  <2> QED
    BY <2>1 DEF CodesInv
<1> QED
  BY <1>3, <1>4, <1>5, <1>6, <1>7 DEF CutsInv, Cut

LEMMA WriteRestStep ==
  ASSUME CompressionInv, WriteRest
  PROVE  CompressionInv'
<1> DEFINE x == SubSeq(message, position - TokenLen + 1, Len(message))
<1>1. /\ stage = "encode" /\ position >= Len(message)
      /\ sent' = sent \o x /\ stage' = "sent"
      /\ UNCHANGED <<message, dictionary, position, keys, decoded, cuts>>
  BY DEF WriteRest
<1>2. /\ CompressionTypeOK /\ DictionaryInv /\ CutsInv /\ dictionary # {}
      /\ keys = << >> /\ decoded = << >>
      /\ position \in Nat /\ TokenLen \in Nat
      /\ TokenLen <= position /\ position - TokenLen < Len(message)
      /\ LastCut.code = Len(sent) /\ LastCut.plain = position - TokenLen
  BY <1>1, InEncode
<1>3. /\ message \in Seq(Byte) /\ Len(message) \in Nat
      /\ sent \in Seq(Byte) /\ Len(sent) \in Nat
  BY <1>2, Types
<1>4. PICK p \in Nat, n \in Nat : p = position - TokenLen /\ n = Len(message) - p
  <2>1. position - TokenLen \in Nat /\ Len(message) - (position - TokenLen) \in Nat
    BY <1>2, <1>3
  <2> QED
    BY <2>1
<1>5. x \in Seq(Byte) /\ Len(x) = n /\ \A i \in 1 .. n : x[i] = message[p + i]
  <2>1. x = SubSeq(message, p + 1, Len(message)) /\ p + n = Len(message) /\ p \in Nat
    BY <1>3, <1>4
  <2> HIDE DEF x
  <2> QED
    BY <1>3, <2>1
<1> HIDE DEF x
<1>6. /\ sent' \in Seq(Byte) /\ Len(sent') = Len(sent) + n
      /\ \A i \in 1 .. n : sent'[Len(sent) + i] = message[p + i]
  <2>1. PICK y \in Seq(Byte), z \in Seq(Byte) : y = sent /\ z = x
    BY <1>3, <1>5
  <2>2. /\ y \o z \in Seq(Byte) /\ Len(y \o z) = Len(y) + Len(z)
        /\ \A i \in 1 .. Len(z) : (y \o z)[Len(y) + i] = z[i]
    BY Concatenation
  <2> QED
    BY <1>1, <1>5, <2>1, <2>2
<1>7. CutsInv'
  BY <1>1, <1>2, <1>5, CutsStay
<1>8. LastCut' = LastCut
  BY <1>1 DEF LastCut
<1>9. RestInv'
  <2>1. p >= Len(message) - TokenLen
    BY <1>1, <1>2, <1>3, <1>4
  <2>2. LastCut'.code = Len(sent) /\ LastCut'.plain = p
    BY <1>2, <1>4, <1>8
  <2>3. Len(message) - p = n
    BY <1>4
  <2> QED
    BY <1>1, <1>6, <2>1, <2>2, <2>3 DEF RestInv
<1>10. CompressionTypeOK'
  BY <1>1, <1>2, <1>6 DEF CompressionTypeOK
<1>11. DictionaryInv'
  BY <1>1, <1>2 DEF DictionaryInv
<1>12. StageInv'
  <2>1. Cardinality(dictionary) \in Nat
    BY <1>2, Types
  <2>2. KeysInv'
    BY <1>1, <1>2, <2>1 DEF KeysInv
  <2> QED
    BY <1>1, <1>2, <1>7, <1>9, <2>2 DEF StageInv
<1> QED
  BY <1>10, <1>11, <1>12 DEF CompressionInv
-----------------------------------------------------------------------------
(***************************************************************************)
(* The steps of decodeMessage.                                             *)
(***************************************************************************)
LEMMA SameCuts ==
  ASSUME UNCHANGED <<message, dictionary, sent, cuts>>
  PROVE  /\ HeaderLen' = HeaderLen /\ LastCut' = LastCut
         /\ CutsInv => CutsInv'
         /\ RestInv => RestInv'
         /\ EscapeAtTheEnd' = EscapeAtTheEnd
<1>1. HeaderLen' = HeaderLen /\ LastCut' = LastCut
  BY DEF HeaderLen, LastCut
<1>2. HeaderInv => HeaderInv'
  BY <1>1 DEF HeaderInv
<1>3. CutsInRange => CutsInRange'
  BY <1>1 DEF CutsInRange
<1>4. CodesInv => CodesInv'
  BY DEF CodesInv, IsLiteral, IsRepeat
<1>5. RestInv => RestInv'
  BY <1>1 DEF RestInv
<1>6. EscapeAtTheEnd' = EscapeAtTheEnd
  BY DEF EscapeAtTheEnd
<1> QED
  BY <1>1, <1>2, <1>3, <1>4, <1>5, <1>6 DEF CutsInv

(* decodeMessage has been given an encoded message with a header.          *)
LEMMA InDecode ==
  ASSUME CompressionInv, stage \in {"keys", "decode"}
  PROVE  /\ CompressionTypeOK /\ DictionaryInv /\ dictionary # {}
         /\ CutsInv /\ RestInv /\ KeysInv
BY DEF CompressionInv, StageInv

(* A turn of the loop that ends at the cut k.                              *)
LEMMA Arrive ==
  ASSUME CompressionTypeOK, DictionaryInv, CutsInv, RestInv,
         UNCHANGED <<message, dictionary, sent, cuts>>,
         NEW k \in 1 .. Len(cuts), stage' = "decode",
         position' = cuts[k].code + 1, Len(decoded') = cuts[k].plain,
         \A i \in 1 .. cuts[k].plain : decoded'[i] = message[i]
  PROVE  (\E j \in 1 .. Len(cuts) - 1 : AtCut(j))' \/ BehindLastCut'
<1>1. /\ Len(cuts) \in Nat /\ Len(sent) \in Nat /\ Len(message) \in Nat
      /\ cuts[k].code \in Nat /\ cuts[k].plain \in Nat
  BY Types
<1>2. CASE k < Len(cuts)
  <2>1. k \in 1 .. Len(cuts') - 1
    BY <1>1, <1>2
  <2>2. AtCut(k)'
    BY <1>1 DEF AtCut, Decoded
  <2> QED
    BY <2>1, <2>2
<1>3. CASE k = Len(cuts)
  <2>1. LastCut' = cuts[k]
    BY <1>3 DEF LastCut
  <2>2. cuts[k].code <= Len(sent)
    BY DEF CutsInv, CutsInRange
  <2>3. /\ cuts[k].code < position' /\ position' <= Len(sent') + 1
        /\ position' - 1 - cuts[k].code = 0
    BY <1>1, <2>2
  <2>4. Decoded(LastCut.plain)'
    BY <1>1, <2>1 DEF Decoded
  <2>5. Decoded(Len(decoded))'
    BY <1>1, <2>1, <2>4 DEF Decoded
  <2> QED
    BY <1>1, <2>1, <2>3, <2>4, <2>5 DEF BehindLastCut
<1> QED
  BY <1>1, <1>2, <1>3

(* A turn of the loop, its start or its end.                               *)
LEMMA AfterTurn ==
  ASSUME CompressionInv, stage \in {"keys", "decode"},
         stage = "keys" => Len(keys) = Cardinality(dictionary),
         stage' \in {"decode", "done", "undefined"},
         position' \in Nat, decoded' \in Seq(Byte),
         UNCHANGED <<message, dictionary, sent, keys, cuts>>,
         \/ stage' = "decode" /\ (\E k \in 1 .. Len(cuts) - 1 : AtCut(k))'
         \/ BehindLastCut'
  PROVE  CompressionInv'
<1>1. /\ CompressionTypeOK /\ DictionaryInv /\ dictionary # {}
      /\ CutsInv /\ RestInv /\ KeysInv
  BY InDecode
<1>2. CutsInv' /\ RestInv'
  BY <1>1, SameCuts
<1>3. CompressionTypeOK'
  BY <1>1 DEF CompressionTypeOK
<1>4. DictionaryInv'
  BY <1>1 DEF DictionaryInv
<1>5. KeysInv' /\ Len(keys') = Cardinality(dictionary')
  BY <1>1 DEF KeysInv, CompressionInv, StageInv
<1>6. StageInv'
  BY <1>1, <1>2, <1>5 DEF StageInv
<1> QED
  BY <1>3, <1>4, <1>6 DEF CompressionInv
(* At a cut that is not the last one, decodeMessage finds a byte, a        *)
(* doubled escape character, or a command with the number of an entry.     *)
LEMMA CodeAtCut ==
  ASSUME CompressionInv, stage = "decode", NEW k \in 1 .. Len(cuts) - 1, AtCut(k)
  PROVE  /\ position \in Nat /\ position <= Len(sent) /\ k + 1 \in 1 .. Len(cuts)
         /\ \/ /\ sent[position] # Escape
               /\ sent[position] = message[Len(decoded) + 1]
               /\ cuts[k + 1].code = position
               /\ cuts[k + 1].plain = Len(decoded) + 1
            \/ /\ sent[position] = Escape /\ message[Len(decoded) + 1] = Escape
               /\ position + 1 <= Len(sent) /\ sent[position + 1] = Escape
               /\ cuts[k + 1].code = position + 1
               /\ cuts[k + 1].plain = Len(decoded) + 1
            \/ /\ sent[position] = Escape
               /\ position + 2 <= Len(sent)
               /\ sent[position + 1] # Escape /\ sent[position + 1] < Len(keys)
               /\ sent[position + 2] \in Nat
               /\ keys[sent[position + 1] + 1] \in Token
               /\ cuts[k + 1].code = position + 2
               /\ cuts[k + 1].plain = Len(decoded) + sent[position + 2] * TokenLen
               /\ \A i \in 1 .. sent[position + 2] * TokenLen :
                    message[Len(decoded) + i] =
                      keys[sent[position + 1] + 1][((i - 1) % TokenLen) + 1]
<1>1. /\ CompressionTypeOK /\ DictionaryInv /\ dictionary # {}
      /\ CutsInv /\ RestInv /\ KeysInv
  BY InDecode
<1>2. /\ Len(cuts) \in Nat /\ Len(sent) \in Nat /\ Len(decoded) \in Nat
      /\ position \in Nat /\ Len(keys) \in Nat
      /\ dictionary \in SUBSET Token /\ IsFiniteSet(dictionary)
      /\ TokenLen \in Nat /\ Escape \in Nat
  BY <1>1, Types, Sizes
<1>3. k \in 1 .. Len(cuts) /\ k + 1 \in 1 .. Len(cuts)
  BY <1>2
<1>4. PICK a \in CutType, b \in CutType : a = cuts[k] /\ b = cuts[k + 1]
  BY <1>1, <1>3, Types
<1>5. a.code \in Nat /\ a.plain \in Nat
  BY <1>4 DEF CutType
<1>6. position = a.code + 1 /\ Len(decoded) = a.plain
  BY <1>4 DEF AtCut
<1>7. b.code <= Len(sent)
  BY <1>1, <1>3, <1>4 DEF CutsInv, CutsInRange
<1>8. IsLiteral(a, b) \/ IsRepeat(a, b)
  BY <1>1, <1>4 DEF CutsInv, CodesInv
<1>9. Len(keys) = Cardinality(dictionary) /\ Cardinality(dictionary) <= Escape
  BY <1>1 DEF CompressionInv, StageInv, DictionaryInv
<1>10. /\ a.code + 1 + 1 = a.code + 2 /\ a.code + 1 + 2 = a.code + 3
       /\ a.code + 1 \in Nat /\ a.code + 2 \in Nat /\ a.plain + 1 \in Nat
       /\ a.code + 3 \in Nat
  BY <1>5
<1>11. CASE IsLiteral(a, b)
  <2>1. CASE message[a.plain + 1] = Escape
    <3>1. b = Cut(a.code + 2, a.plain + 1) /\ sent[a.code + 1] = Escape /\ sent[a.code + 2] = Escape
      BY <1>11, <2>1 DEF IsLiteral
    <3>2. b.code = a.code + 2 /\ b.plain = a.plain + 1
      BY <1>10, <3>1, CutFields
    <3>3. position + 1 = a.code + 2 /\ position + 1 <= Len(sent) /\ position <= Len(sent)
      BY <1>2, <1>5, <1>6, <1>7, <3>2
    <3>4. /\ sent[position] = Escape /\ message[Len(decoded) + 1] = Escape
          /\ sent[position + 1] = Escape
          /\ cuts[k + 1].code = position + 1 /\ cuts[k + 1].plain = Len(decoded) + 1
      BY <1>4, <1>6, <2>1, <3>1, <3>2, <3>3
    <3> QED
      BY <1>2, <1>3, <3>3, <3>4
  <2>2. CASE message[a.plain + 1] # Escape
    <3>1. b = Cut(a.code + 1, a.plain + 1) /\ sent[a.code + 1] = message[a.plain + 1]
      BY <1>11, <2>2 DEF IsLiteral
    <3>2. b.code = a.code + 1 /\ b.plain = a.plain + 1
      BY <1>10, <3>1, CutFields
    <3>3. position <= Len(sent)
      BY <1>6, <1>7, <3>2
    <3>4. /\ sent[position] # Escape /\ sent[position] = message[Len(decoded) + 1]
          /\ cuts[k + 1].code = position /\ cuts[k + 1].plain = Len(decoded) + 1
      BY <1>4, <1>6, <2>2, <3>1, <3>2
    <3> QED
      BY <1>2, <1>3, <3>3, <3>4
  <2> QED
    BY <2>1, <2>2
<1>12. CASE IsRepeat(a, b)
  <2>1. PICK t \in dictionary, r \in 1 .. Escape :
          /\ sent[a.code + 1] = Escape
          /\ sent[a.code + 2] = Key(dictionary, t)
          /\ sent[a.code + 3] = r
          /\ b = Cut(a.code + 3, a.plain + r * TokenLen)
          /\ \A i \in 1 .. r * TokenLen :
               message[a.plain + i] = t[((i - 1) % TokenLen) + 1]
    BY <1>12 DEF IsRepeat
  <2>2. t \in Token /\ r \in Nat /\ r * TokenLen \in Nat
    <3>1. t \in Token /\ r \in Nat
      BY <1>2, <2>1
    <3> QED
      BY <3>1, CopiesOfToken
  <2>3. b.code = a.code + 3 /\ b.plain = a.plain + r * TokenLen
    <3>1. a.plain + r * TokenLen \in Nat
      BY <1>5, <2>2
    <3> QED
      BY <1>10, <2>1, <3>1, CutFields
  <2>4. /\ Key(dictionary, t) \in Nat /\ Key(dictionary, t) < Cardinality(dictionary)
        /\ Entry(dictionary, Key(dictionary, t)) = t
        /\ Cardinality(dictionary) \in Nat
    BY <1>2, <2>1, KeysNumberEntries
  <2>5. PICK q \in Nat : q = Key(dictionary, t)
    BY <2>4
  <2>6. q < Len(keys) /\ q # Escape /\ q + 1 \in 1 .. Len(keys) /\ q + 1 - 1 = q
    BY <1>2, <1>9, <2>4, <2>5
  <2>7. keys[q + 1] = t
    BY <1>1, <2>4, <2>5, <2>6 DEF KeysInv
  <2>8. /\ position + 1 = a.code + 2 /\ position + 2 = a.code + 3
        /\ position + 2 <= Len(sent)
    BY <1>2, <1>5, <1>6, <1>7, <2>3
  <2>9. sent[position + 1] = q /\ sent[position + 2] = r /\ sent[position] = Escape
    BY <1>6, <2>1, <2>5, <2>8
  <2>10. position <= Len(sent)
    BY <1>2, <2>8
  <2>11. \A i \in 1 .. sent[position + 2] * TokenLen :
           message[Len(decoded) + i] =
             keys[sent[position + 1] + 1][((i - 1) % TokenLen) + 1]
    BY <1>6, <2>1, <2>7, <2>9
  <2> QED
    BY <1>2, <1>3, <1>4, <1>6, <2>2, <2>3, <2>6, <2>7, <2>8, <2>9, <2>10, <2>11
<1> QED
  BY <1>8, <1>11, <1>12

(* Behind the last cut there is no escape character unless the message has *)
(* one among its last bytes.                                               *)
LEMMA ByteAtTheEnd ==
  ASSUME CompressionInv, stage = "decode", BehindLastCut, ~EscapeAtTheEnd,
         position <= Len(sent)
  PROVE  sent[position] # Escape /\ sent[position] = message[Len(decoded) + 1]
<1>1. /\ CompressionTypeOK /\ DictionaryInv /\ CutsInv /\ RestInv
  BY InDecode
<1>2. /\ Len(cuts) \in Nat /\ Len(sent) \in Nat /\ Len(message) \in Nat
      /\ Len(decoded) \in Nat /\ position \in Nat /\ TokenLen \in Nat
      /\ \A k \in 1 .. Len(cuts) :
           cuts[k] \in CutType /\ cuts[k].code \in Nat /\ cuts[k].plain \in Nat
  BY <1>1, Types, Sizes
<1>3. Len(cuts) \in 1 .. Len(cuts)
  BY <1>1, <1>2 DEF CutsInv, CompressionTypeOK
<1>4. PICK c \in Nat, p \in Nat : c = LastCut.code /\ p = LastCut.plain
  BY <1>2, <1>3 DEF LastCut
<1>5. /\ p >= Len(message) - TokenLen
      /\ Len(sent) = c + (Len(message) - p)
      /\ \A i \in 1 .. Len(message) - p : sent[c + i] = message[p + i]
  BY <1>1, <1>4 DEF RestInv
<1>6. c < position /\ Len(decoded) = p + (position - 1 - c)
  BY <1>4 DEF BehindLastCut
<1>7. PICK i \in Nat : i = position - c
  BY <1>2, <1>6
<1>8. /\ i \in 1 .. Len(message) - p /\ c + i = position /\ p + i = Len(decoded) + 1
      /\ p + i \in 1 .. Len(message) /\ p + i > Len(message) - TokenLen
  BY <1>2, <1>5, <1>6, <1>7
<1>9. sent[position] = message[p + i]
  BY <1>5, <1>8
<1>10. message[p + i] # Escape
  BY <1>8 DEF EscapeAtTheEnd
<1> QED
  BY <1>8, <1>9, <1>10
(* From one cut to the next.                                               *)
LEMMA NextCut ==
  ASSUME CompressionInv, stage = "decode", NEW k \in 1 .. Len(cuts) - 1, AtCut(k),
         NEW x \in Seq(Byte), decoded' = decoded \o x,
         cuts[k + 1].plain = Len(decoded) + Len(x),
         \A i \in 1 .. Len(x) : x[i] = message[Len(decoded) + i],
         position' = cuts[k + 1].code + 1, stage' = stage,
         UNCHANGED <<message, dictionary, sent, keys, cuts>>
  PROVE  CompressionInv'
<1>1. CompressionTypeOK /\ DictionaryInv /\ CutsInv /\ RestInv
  BY InDecode
<1>2. /\ decoded \in Seq(Byte) /\ Len(decoded) \in Nat /\ Len(cuts) \in Nat
      /\ k + 1 \in 1 .. Len(cuts) /\ cuts[k + 1].code \in Nat
  BY <1>1, Types
<1>3. /\ decoded' \in Seq(Byte) /\ Len(decoded') = cuts[k + 1].plain
      /\ \A i \in 1 .. Len(decoded) : decoded'[i] = decoded[i]
      /\ \A i \in 1 .. Len(x) : decoded'[Len(decoded) + i] = x[i]
      /\ Len(x) \in Nat
  BY <1>2, Concatenation
<1>4. \A i \in 1 .. Len(decoded) : decoded[i] = message[i]
  BY DEF AtCut, Decoded
<1>5. ASSUME NEW i \in 1 .. cuts[k + 1].plain
      PROVE  decoded'[i] = message[i]
  <2>1. CASE i <= Len(decoded)
    <3>1. i \in 1 .. Len(decoded)
      BY <1>2, <1>3, <2>1
    <3> QED
      BY <1>3, <1>4, <3>1
  <2>2. CASE i > Len(decoded)
    <3>1. PICK j \in 1 .. Len(x) : i = Len(decoded) + j
      <4>1. i - Len(decoded) \in 1 .. Len(x) /\ i = Len(decoded) + (i - Len(decoded))
        BY <1>2, <1>3, <2>2
      <4> QED
        BY <4>1
    <3> QED
      BY <1>3, <3>1
  <2> QED
    BY <1>2, <1>3, <2>1, <2>2
<1>6. (\E j \in 1 .. Len(cuts) - 1 : AtCut(j))' \/ BehindLastCut'
  BY <1>1, <1>2, <1>3, <1>5, Arrive
<1>7. position' \in Nat
  BY <1>2
<1> QED
  BY <1>3, <1>6, <1>7, AfterTurn

(* Behind the last cut, whatever decodeMessage makes of what it finds.     *)
LEMMA StillBehind ==
  ASSUME CompressionInv, stage = "decode", BehindLastCut,
         NEW x \in Seq(Byte), decoded' = decoded \o x,
         NEW q \in Nat, position < q, position' = q, stage' = stage,
         ~EscapeAtTheEnd => /\ Len(x) = 1 /\ x[1] = message[Len(decoded) + 1]
                            /\ q = position + 1 /\ position <= Len(sent),
         UNCHANGED <<message, dictionary, sent, keys, cuts>>
  PROVE  CompressionInv'
<1>1. CompressionTypeOK /\ DictionaryInv /\ CutsInv /\ RestInv
  BY InDecode
<1>2. /\ decoded \in Seq(Byte) /\ Len(decoded) \in Nat /\ Len(cuts) \in Nat
      /\ position \in Nat /\ Len(sent) \in Nat
      /\ \A k \in 1 .. Len(cuts) :
           cuts[k] \in CutType /\ cuts[k].code \in Nat /\ cuts[k].plain \in Nat
  BY <1>1, Types
<1>3. /\ decoded' \in Seq(Byte) /\ Len(decoded') = Len(decoded) + Len(x)
      /\ \A i \in 1 .. Len(decoded) : decoded'[i] = decoded[i]
      /\ \A i \in 1 .. Len(x) : decoded'[Len(decoded) + i] = x[i]
      /\ Len(x) \in Nat
  BY <1>2, Concatenation
<1>4. Len(cuts) \in 1 .. Len(cuts)
  BY <1>1, <1>2 DEF CutsInv, CompressionTypeOK
<1>5. PICK c \in Nat, p \in Nat : c = LastCut.code /\ p = LastCut.plain
  BY <1>2, <1>4 DEF LastCut
<1>6. LastCut' = LastCut /\ EscapeAtTheEnd' = EscapeAtTheEnd
  BY SameCuts
<1>7. c < position' /\ c < position
  BY <1>2, <1>5 DEF BehindLastCut
<1>8. Decoded(p)'
  <2>1. p <= Len(decoded) /\ \A i \in 1 .. p : decoded[i] = message[i]
    BY <1>5 DEF BehindLastCut, Decoded
  <2>2. \A i \in 1 .. p : i \in 1 .. Len(decoded)
    BY <1>2, <2>1
  <2> QED
    BY <1>2, <1>3, <2>1, <2>2 DEF Decoded
<1>9. ASSUME ~EscapeAtTheEnd
      PROVE  /\ position' <= Len(sent) + 1
             /\ Len(decoded') = p + (position' - 1 - c)
             /\ Decoded(Len(decoded))'
  <2>1. /\ Len(decoded) = p + (position - 1 - c)
        /\ \A i \in 1 .. Len(decoded) : decoded[i] = message[i]
    BY <1>5, <1>9 DEF BehindLastCut, Decoded
  <2>2. position' = position + 1 /\ position <= Len(sent) /\ Len(decoded') = Len(decoded) + 1
    BY <1>3, <1>9
  <2>3. decoded'[Len(decoded) + 1] = message[Len(decoded) + 1]
    <3>1. 1 \in 1 .. Len(x) /\ x[1] = message[Len(decoded) + 1]
      <4>1. Len(x) = 1 /\ x[1] = message[Len(decoded) + 1]
        BY <1>9
      <4>2. 1 \in 1 .. 1
        OBVIOUS
      <4> QED
        BY <4>1, <4>2
    <3>2. PICK d : d = decoded'
      OBVIOUS
    <3>3. \A i \in 1 .. Len(x) : d[Len(decoded) + i] = x[i]
      BY <1>3, <3>2
    <3>4. d[Len(decoded) + 1] = x[1]
      BY <3>1, <3>3
    <3> QED
      BY <3>1, <3>2, <3>4
  <2>4. ASSUME NEW i \in 1 .. Len(decoded')
        PROVE  decoded'[i] = message'[i]
    <3>1. i \in 1 .. Len(decoded) \/ i = Len(decoded) + 1
      BY <1>2, <2>2
    <3> QED
      BY <1>3, <2>1, <2>3, <3>1
  <2>5. Decoded(Len(decoded))'
    <3>1. Len(decoded') <= Len(decoded')
      BY <1>2, <2>2
    <3> QED
      BY <2>4, <3>1 DEF Decoded
  <2> QED
    BY <1>2, <2>1, <2>2, <2>5
<1>10. BehindLastCut'
  BY <1>5, <1>6, <1>7, <1>8, <1>9 DEF BehindLastCut
<1> QED
  BY <1>3, <1>10, AfterTurn

(* Where decodeMessage can be at the start of a turn.                      *)
LEMMA Places ==
  ASSUME CompressionInv, stage = "decode"
  PROVE  BehindLastCut \/ \E k \in 1 .. Len(cuts) - 1 : AtCut(k)
BY InDecode DEF CompressionInv, StageInv
(* What the steps of the loop may cite.                                    *)
LEMMA InTurn ==
  ASSUME CompressionInv, stage = "decode", position <= Len(sent)
  PROVE  /\ CompressionTypeOK /\ DictionaryInv
         /\ position \in Nat /\ Len(sent) \in Nat /\ Len(decoded) \in Nat
         /\ sent[position] \in Byte /\ decoded \in Seq(Byte)
         /\ \A k \in 1 .. Len(keys) : keys[k] \in Token
<1>1. CompressionTypeOK /\ DictionaryInv /\ CutsInv /\ KeysInv
  BY InDecode
<1>2. /\ position \in Nat /\ sent \in Seq(Byte) /\ Len(sent) \in Nat
      /\ decoded \in Seq(Byte) /\ Len(decoded) \in Nat
      /\ Len(cuts) \in Nat /\ Len(keys) \in Nat /\ Cardinality(dictionary) \in Nat
      /\ dictionary \in SUBSET Token /\ IsFiniteSet(dictionary)
      /\ \A k \in 1 .. Len(cuts) :
           cuts[k] \in CutType /\ cuts[k].code \in Nat /\ cuts[k].plain \in Nat
  BY <1>1, Types
<1>3. position >= 1
  <2>1. CASE BehindLastCut
    <3>1. Len(cuts) \in 1 .. Len(cuts)
      BY <1>1, <1>2 DEF CutsInv, CompressionTypeOK
    <3>2. LastCut.code \in Nat /\ LastCut.code < position
      BY <1>2, <2>1, <3>1 DEF LastCut, BehindLastCut
    <3> QED
      BY <1>2, <3>2
  <2>2. CASE \E k \in 1 .. Len(cuts) - 1 : AtCut(k)
    <3>1. PICK k \in 1 .. Len(cuts) : position = cuts[k].code + 1
      <4>1. 1 .. Len(cuts) - 1 \subseteq 1 .. Len(cuts)
        BY <1>2
      <4> QED
        BY <2>2, <4>1 DEF AtCut
    <3> QED
      BY <1>2, <3>1
  <2> QED
    BY <2>1, <2>2, Places
<1>4. sent[position] \in Byte
  <2>1. position \in 1 .. Len(sent)
    BY <1>2, <1>3
  <2> QED
    BY <1>2, <2>1
<1>5. ASSUME NEW k \in 1 .. Len(keys)
      PROVE  keys[k] \in Token
  <2>1. k - 1 \in 0 .. Cardinality(dictionary) - 1
    BY <1>1, <1>2 DEF KeysInv
  <2>2. Entry(dictionary, k - 1) \in dictionary
    BY <1>2, <2>1, KeysNumberEntries
  <2> QED
    BY <1>1, <1>2, <2>2 DEF KeysInv
<1> QED
  BY <1>1, <1>2, <1>4, <1>5

LEMMA CopyByteStep ==
  ASSUME CompressionInv, CopyByte
  PROVE  CompressionInv'
<1>1. /\ stage = "decode" /\ position <= Len(sent) /\ sent[position] # Escape
      /\ decoded' = Append(decoded, sent[position]) /\ position' = position + 1
      /\ UNCHANGED <<stage, message, dictionary, sent, keys, cuts>>
  BY DEF CopyByte
<1>2. /\ position \in Nat /\ Len(decoded) \in Nat /\ decoded \in Seq(Byte)
      /\ sent[position] \in Byte
  BY <1>1, InTurn
<1>3. PICK b \in Byte : b = sent[position]
  BY <1>2
<1>4. PICK x \in Seq(Byte) : x = <<b>>
  <2>1. <<b>> \in Seq(Byte)
    OBVIOUS
  <2> QED
    BY <2>1
<1>5. Len(x) = 1 /\ x[1] = b /\ decoded' = decoded \o x
  BY <1>1, <1>2, <1>3, <1>4
<1>6. ASSUME NEW k \in 1 .. Len(cuts) - 1, AtCut(k)
      PROVE  CompressionInv'
  <2>1. /\ b = message[Len(decoded) + 1]
        /\ cuts[k + 1].code = position /\ cuts[k + 1].plain = Len(decoded) + 1
    BY <1>1, <1>3, <1>6, CodeAtCut
  <2>2. \A i \in 1 .. Len(x) : x[i] = message[Len(decoded) + i]
    <3>1. \A i \in 1 .. Len(x) : i = 1
      BY <1>5
    <3> QED
      BY <1>5, <2>1, <3>1
  <2> QED
    BY <1>1, <1>5, <1>6, <2>1, <2>2, NextCut
<1>7. CASE BehindLastCut
  <2>1. position + 1 \in Nat /\ position < position + 1
    BY <1>2
  <2>2. ~EscapeAtTheEnd => b = message[Len(decoded) + 1]
    BY <1>1, <1>3, <1>7, ByteAtTheEnd
  <2> QED
    BY <1>1, <1>5, <1>7, <2>1, <2>2, StillBehind
<1> QED
  BY <1>1, <1>6, <1>7, Places

LEMMA CopyEscapeStep ==
  ASSUME CompressionInv, CopyEscape
  PROVE  CompressionInv'
<1>1. /\ stage = "decode" /\ position <= Len(sent) /\ sent[position] = Escape
      /\ ByteAt(position + 1) = Escape
      /\ decoded' = Append(decoded, Escape) /\ position' = position + 2
      /\ UNCHANGED <<stage, message, dictionary, sent, keys, cuts>>
  BY DEF CopyEscape
<1>2. /\ position \in Nat /\ Len(decoded) \in Nat /\ decoded \in Seq(Byte)
      /\ Len(sent) \in Nat /\ Escape \in Byte
  BY <1>1, InTurn, Sizes
<1>3. PICK x \in Seq(Byte) : x = <<Escape>>
  <2>1. <<Escape>> \in Seq(Byte)
    BY <1>2
  <2> QED
    BY <2>1
<1>4. Len(x) = 1 /\ x[1] = Escape /\ decoded' = decoded \o x
  BY <1>1, <1>2, <1>3
<1>5. ASSUME NEW k \in 1 .. Len(cuts) - 1, AtCut(k)
      PROVE  CompressionInv'
  <2>1. /\ message[Len(decoded) + 1] = Escape
        /\ cuts[k + 1].code = position + 1 /\ cuts[k + 1].plain = Len(decoded) + 1
    <3>1. position + 2 <= Len(sent) => sent[position + 1] = Escape
      <4>1. position + 2 <= Len(sent) => position + 1 # Len(sent) + 1
        BY <1>2
      <4> QED
        BY <1>1, <4>1 DEF ByteAt
    <3> QED
      BY <1>1, <1>5, <3>1, CodeAtCut
  <2>2. \A i \in 1 .. Len(x) : x[i] = message[Len(decoded) + i]
    <3>1. \A i \in 1 .. Len(x) : i = 1
      BY <1>4
    <3> QED
      BY <1>4, <2>1, <3>1
  <2>3. position' = cuts[k + 1].code + 1
    BY <1>1, <1>2, <2>1
  <2> QED
    BY <1>1, <1>4, <1>5, <2>1, <2>2, <2>3, NextCut
<1>6. CASE BehindLastCut
  <2>1. position + 2 \in Nat /\ position < position + 2
    BY <1>2
  <2>2. EscapeAtTheEnd
    BY <1>1, <1>6, ByteAtTheEnd
  <2> QED
    BY <1>1, <1>4, <1>6, <2>1, <2>2, StillBehind
<1> QED
  BY <1>1, <1>5, <1>6, Places

LEMMA ExpandStep ==
  ASSUME CompressionInv, Expand
  PROVE  CompressionInv'
<1>1. /\ stage = "decode" /\ position <= Len(sent) /\ sent[position] = Escape
      /\ ByteAt(position + 1) # Escape
      /\ position + 2 <= Len(sent) + 1 /\ sent[position + 1] < Len(keys)
      /\ decoded' = decoded \o Copies(keys[sent[position + 1] + 1], ByteAt(position + 2))
      /\ position' = position + 3
      /\ UNCHANGED <<stage, message, dictionary, sent, keys, cuts>>
  BY DEF Expand, Readable
<1>2. /\ CompressionTypeOK /\ DictionaryInv
      /\ position \in Nat /\ Len(decoded) \in Nat /\ decoded \in Seq(Byte)
      /\ Len(sent) \in Nat /\ \A k \in 1 .. Len(keys) : keys[k] \in Token
  BY <1>1, InTurn
<1>3. /\ Len(keys) \in Nat /\ TokenLen \in Nat
      /\ \A i \in 1 .. Len(sent) : sent[i] \in Nat
  <2>1. sent \in Seq(Byte) /\ Byte \subseteq Nat /\ Len(keys) \in Nat /\ TokenLen \in Nat
    BY <1>2, Types, Sizes
  <2>2. \A i \in 1 .. Len(sent) : sent[i] \in Byte
    BY <1>2, <2>1
  <2> QED
    BY <2>1, <2>2
<1>4. PICK q \in Nat : q = sent[position + 1]
  <2>1. position + 1 \in 1 .. Len(sent)
    BY <1>1, <1>2
  <2> QED
    BY <1>3, <2>1
<1>5. PICK t \in Token : t = keys[q + 1]
  <2>1. q + 1 \in 1 .. Len(keys)
    BY <1>1, <1>3, <1>4
  <2> QED
    BY <1>2, <2>1
<1>6. PICK r \in Nat : r = ByteAt(position + 2)
  <2>1. CASE position + 2 = Len(sent) + 1
    BY <2>1 DEF ByteAt
  <2>2. CASE position + 2 # Len(sent) + 1
    <3>1. position + 2 \in 1 .. Len(sent)
      BY <1>1, <1>2, <2>2
    <3>2. sent[position + 2] \in Nat
      BY <1>3, <3>1
    <3> QED
      BY <2>2, <3>2 DEF ByteAt
  <2> QED
    BY <2>1, <2>2
<1>7. PICK x \in Seq(Byte) : x = Copies(t, r)
  BY CopiesOfToken
<1>8. /\ decoded' = decoded \o x /\ Len(x) = r * TokenLen
      /\ \A i \in 1 .. r * TokenLen : x[i] = t[((i - 1) % TokenLen) + 1]
  BY <1>1, <1>4, <1>5, <1>6, <1>7, CopiesOfToken
<1>9. ASSUME NEW k \in 1 .. Len(cuts) - 1, AtCut(k)
      PROVE  CompressionInv'
  <2>1. ~(position + 1 <= Len(sent) /\ sent[position + 1] = Escape)
    <3>1. position + 1 <= Len(sent) => position + 1 # Len(sent) + 1
      BY <1>2
    <3> QED
      BY <1>1, <3>1 DEF ByteAt
  <2>2. /\ position + 2 <= Len(sent)
        /\ cuts[k + 1].code = position + 2
        /\ cuts[k + 1].plain = Len(decoded) + sent[position + 2] * TokenLen
        /\ \A i \in 1 .. sent[position + 2] * TokenLen :
             message[Len(decoded) + i] =
               keys[sent[position + 1] + 1][((i - 1) % TokenLen) + 1]
    BY <1>1, <1>9, <2>1, CodeAtCut
  <2>3. r = sent[position + 2]
    <3>1. position + 2 # Len(sent) + 1
      BY <1>2, <2>2
    <3> QED
      BY <1>6, <3>1 DEF ByteAt
  <2>4. \A i \in 1 .. Len(x) : x[i] = message[Len(decoded) + i]
    BY <1>4, <1>5, <1>8, <2>2, <2>3
  <2>5. cuts[k + 1].plain = Len(decoded) + Len(x) /\ position' = cuts[k + 1].code + 1
    BY <1>1, <1>2, <1>8, <2>2, <2>3
  <2> QED
    BY <1>1, <1>8, <1>9, <2>4, <2>5, NextCut
<1>10. CASE BehindLastCut
  <2>1. position + 3 \in Nat /\ position < position + 3
    BY <1>2
  <2>2. EscapeAtTheEnd
    BY <1>1, <1>10, ByteAtTheEnd
  <2> QED
    BY <1>1, <1>8, <1>10, <2>1, <2>2, StillBehind
<1> QED
  BY <1>1, <1>9, <1>10, Places
LEMMA ReadPastEndStep ==
  ASSUME CompressionInv, ReadPastEnd
  PROVE  CompressionInv'
<1>1. /\ stage = "decode" /\ position <= Len(sent) /\ sent[position] = Escape
      /\ ByteAt(position + 1) # Escape /\ ~Readable /\ stage' = "undefined"
      /\ UNCHANGED <<message, dictionary, position, sent, keys, decoded, cuts>>
  BY DEF ReadPastEnd
<1>2. position \in Nat /\ Len(sent) \in Nat /\ decoded \in Seq(Byte)
  BY <1>1, InTurn
<1>3. ASSUME NEW k \in 1 .. Len(cuts) - 1, AtCut(k)
      PROVE  FALSE
  <2>1. ~(position + 1 <= Len(sent) /\ sent[position + 1] = Escape)
    <3>1. position + 1 <= Len(sent) => position + 1 # Len(sent) + 1
      BY <1>2
    <3> QED
      BY <1>1, <3>1 DEF ByteAt
  <2>2. position + 2 <= Len(sent) /\ sent[position + 1] < Len(keys)
    BY <1>1, <1>3, <2>1, CodeAtCut
  <2>3. position + 2 <= Len(sent) + 1
    BY <1>2, <2>2
  <2> QED
    BY <1>1, <2>2, <2>3 DEF Readable
<1>4. BehindLastCut
  BY <1>1, <1>3, Places
<1>5. EscapeAtTheEnd
  BY <1>1, <1>4, ByteAtTheEnd
<1>6. BehindLastCut'
  <2>1. LastCut' = LastCut /\ EscapeAtTheEnd'
    BY <1>1, <1>5, SameCuts
  <2>2. (LastCut.code < position)' /\ Decoded(LastCut.plain)'
    BY <1>1, <1>4, <2>1 DEF BehindLastCut, Decoded
  <2> QED
    BY <2>1, <2>2 DEF BehindLastCut
<1> QED
  BY <1>1, <1>2, <1>6, AfterTurn

LEMMA EndOfMessageStep ==
  ASSUME CompressionInv, EndOfMessage
  PROVE  CompressionInv'
<1>1. /\ stage = "decode" /\ position > Len(sent) /\ stage' = "done"
      /\ UNCHANGED <<message, dictionary, position, sent, keys, decoded, cuts>>
  BY DEF EndOfMessage
<1>2. CompressionTypeOK /\ DictionaryInv
  BY <1>1, InDecode
<1>3. position \in Nat /\ Len(sent) \in Nat /\ decoded \in Seq(Byte)
  BY <1>2, Types
<1>4. ASSUME NEW k \in 1 .. Len(cuts) - 1, AtCut(k)
      PROVE  FALSE
  <2>1. position <= Len(sent)
    BY <1>1, <1>4, CodeAtCut
  <2> QED
    BY <1>1, <1>3, <2>1
<1>5. BehindLastCut
  BY <1>1, <1>4, Places
<1>6. BehindLastCut'
  <2>1. LastCut' = LastCut /\ EscapeAtTheEnd' = EscapeAtTheEnd
    BY <1>1, SameCuts
  <2>2. (LastCut.code < position)' /\ Decoded(LastCut.plain)'
    BY <1>1, <1>5, <2>1 DEF BehindLastCut, Decoded
  <2>3. ~EscapeAtTheEnd =>
          /\ stage' # "undefined"
          /\ position' = Len(sent') + 1
          /\ Len(decoded') = LastCut.plain + (position' - 1 - LastCut.code)
          /\ Decoded(Len(decoded))'
    <3>1. ~EscapeAtTheEnd =>
            /\ position <= Len(sent) + 1
            /\ Len(decoded) = LastCut.plain + (position - 1 - LastCut.code)
            /\ Decoded(Len(decoded))
      BY <1>5 DEF BehindLastCut
    <3>2. position <= Len(sent) + 1 => position = Len(sent) + 1
      BY <1>1, <1>3
    <3>3. Decoded(Len(decoded)) => Decoded(Len(decoded))'
      BY <1>1 DEF Decoded
    <3> QED
      BY <1>1, <3>1, <3>2, <3>3
  <2>4. position' = Len(sent') + 1 => position' <= Len(sent') + 1
    BY <1>1, <1>3
  <2> QED
    BY <2>1, <2>2, <2>3, <2>4 DEF BehindLastCut
<1> QED
  BY <1>1, <1>3, <1>6, AfterTurn

(* The first byte tells the two kinds of encoded message apart.            *)
LEMMA FirstByte ==
  ASSUME CompressionInv, stage = "sent"
  PROVE  /\ CompressionTypeOK /\ DictionaryInv /\ keys = << >> /\ decoded = << >>
         /\ dictionary = {} => sent[1] = 0 /\ Tail(sent) = message
         /\ dictionary # {} => sent[1] # 0
<1>1. CompressionTypeOK /\ DictionaryInv /\ keys = << >> /\ decoded = << >>
  BY DEF CompressionInv, StageInv
<1>2. /\ message \in Seq(Byte) /\ dictionary \in SUBSET Token /\ IsFiniteSet(dictionary)
      /\ Cardinality(dictionary) \in Nat /\ HeaderLen \in Nat /\ 1 <= HeaderLen
  BY <1>1, Types
<1>3. CASE dictionary = {}
  <2>1. sent = <<0>> \o message
    BY <1>3 DEF CompressionInv, StageInv
  <2>2. PICK z \in Seq(Byte), m \in Seq(Byte) : z = <<0>> /\ m = message
    <3>1. <<0>> \in Seq(Byte)
      BY Sizes
    <3> QED
      BY <1>2, <3>1
  <2>3. (z \o m)[1] = 0 /\ Tail(z \o m) = m
    BY <2>2
  <2> QED
    BY <1>1, <1>3, <2>1, <2>2, <2>3
<1>4. CASE dictionary # {}
  <2>1. sent[1] = Header(dictionary)[1]
    <3>1. HeaderInv
      BY <1>4 DEF CompressionInv, StageInv, CutsInv
    <3>2. 1 \in 1 .. HeaderLen
      BY <1>2
    <3> QED
      BY <3>1, <3>2 DEF HeaderInv
  <2>2. Header(dictionary)[1] = TokenLen
    <3>1. Cardinality(dictionary) # 0
      BY <1>2, <1>4, FS_EmptySet
    <3>2. 0 \in 0 .. Cardinality(dictionary) - 1
      BY <1>2, <3>1
    <3>3. Header(dictionary)[0 * (TokenLen + 1) + 1] = TokenLen
      BY <1>1, <1>2, <3>2, HeaderBytes DEF DictionaryInv
    <3>4. 0 * (TokenLen + 1) + 1 = 1
      BY Sizes
    <3> QED
      BY <3>3, <3>4
  <2> QED
    BY <1>1, <1>4, <2>1, <2>2, Sizes
<1> QED
  BY <1>3, <1>4
LEMMA ReadUncompressedStep ==
  ASSUME CompressionInv, ReadUncompressed
  PROVE  CompressionInv'
<1>1. /\ stage = "sent" /\ sent[1] = 0 /\ decoded' = Tail(sent) /\ stage' = "done"
      /\ UNCHANGED <<message, dictionary, position, sent, keys, cuts>>
  BY DEF ReadUncompressed
<1>2. /\ CompressionTypeOK /\ DictionaryInv /\ keys = << >>
      /\ dictionary = {} /\ decoded' = message
  BY <1>1, FirstByte
<1>3. CompressionTypeOK'
  BY <1>1, <1>2 DEF CompressionTypeOK
<1>4. DictionaryInv'
  BY <1>1, <1>2 DEF DictionaryInv
<1>5. StageInv'
  <2>1. Cardinality(dictionary) = 0
    BY <1>2, FS_EmptySet
  <2>2. KeysInv'
    BY <1>1, <1>2, <2>1 DEF KeysInv
  <2>3. sent' = <<0>> \o message' /\ cuts' = << >>
    BY <1>1, <1>2 DEF CompressionInv, StageInv
  <2> QED
    BY <1>1, <1>2, <2>1, <2>2, <2>3 DEF StageInv
<1> QED
  BY <1>3, <1>4, <1>5 DEF CompressionInv

LEMMA StartDecodingStep ==
  ASSUME CompressionInv, StartDecoding
  PROVE  CompressionInv'
<1>1. /\ stage = "sent" /\ sent[1] # 0 /\ position' = 1 /\ stage' = "keys"
      /\ UNCHANGED <<message, dictionary, sent, keys, decoded, cuts>>
  BY DEF StartDecoding
<1>2. /\ CompressionTypeOK /\ DictionaryInv /\ keys = << >> /\ decoded = << >> /\ dictionary # {}
  BY <1>1, FirstByte
<1>3. CutsInv' /\ RestInv'
  BY <1>1, <1>2, SameCuts DEF CompressionInv, StageInv
<1>4. CompressionTypeOK'
  BY <1>1, <1>2 DEF CompressionTypeOK
<1>5. DictionaryInv'
  BY <1>1, <1>2 DEF DictionaryInv
<1>6. StageInv'
  <2>1. Cardinality(dictionary) \in Nat
    BY <1>2, Types
  <2>2. KeysInv'
    BY <1>1, <1>2, <2>1 DEF KeysInv
  <2>3. position' = Len(keys') * (TokenLen + 1) + 1
    BY <1>1, <1>2, Sizes
  <2> QED
    BY <1>1, <1>2, <1>3, <2>2, <2>3 DEF StageInv
<1> QED
  BY <1>4, <1>5, <1>6 DEF CompressionInv

(* Where decodeMessage stands in the header, and what it finds there.      *)
LEMMA InHeader ==
  ASSUME CompressionInv, stage = "keys"
  PROVE  LET k == Len(keys)
             w == TokenLen + 1
         IN  /\ position = k * w + 1 /\ k * w \in Nat /\ k \in Nat
             /\ decoded = << >>
             /\ sent[position] = 0 <=> k = Cardinality(dictionary)
             /\ sent[position] = 0 => position = HeaderLen
             /\ sent[position] # 0 =>
                  /\ k + 1 <= Cardinality(dictionary) /\ sent[position] = TokenLen
                  /\ Entry(dictionary, k) \in Token
                  /\ position + TokenLen <= Len(sent)
                  /\ \A j \in 1 .. TokenLen : sent[position + j] = Entry(dictionary, k)[j]
<1> DEFINE w == TokenLen + 1
<1>1. CompressionTypeOK /\ DictionaryInv /\ dictionary # {} /\ CutsInv /\ KeysInv
  BY InDecode
<1>2. /\ sent \in Seq(Byte) /\ Len(sent) \in Nat /\ Len(keys) \in Nat /\ Len(cuts) \in Nat
      /\ dictionary \in SUBSET Token /\ IsFiniteSet(dictionary)
      /\ Cardinality(dictionary) \in Nat /\ HeaderLen \in Nat /\ 1 <= HeaderLen
      /\ \A i \in 1 .. Len(cuts) :
           cuts[i] \in CutType /\ cuts[i].code \in Nat /\ cuts[i].plain \in Nat
  BY <1>1, Types
<1>3. /\ decoded = << >> /\ position = Len(keys) * w + 1
  BY DEF CompressionInv, StageInv
<1>4. w \in Nat /\ TokenLen \in Nat \ {0}
  BY Sizes
<1> HIDE DEF w
<1>5. PICK k \in Nat, n \in Nat : k = Len(keys) /\ n = Cardinality(dictionary)
  BY <1>2
<1>6. k <= n
  BY <1>1, <1>5 DEF KeysInv
<1>7. HeaderLen = n * w + 1 /\ HeaderLen <= Len(sent)
  <2>1. HeaderLen = n * w + 1
    BY <1>5 DEF HeaderLen, w
  <2>2. 1 \in 1 .. Len(cuts)
    BY <1>1, <1>2 DEF CutsInv, CompressionTypeOK
  <2>3. HeaderLen <= cuts[1].code /\ cuts[1].code <= Len(sent) /\ cuts[1].code \in Nat
    BY <1>1, <1>2, <2>2 DEF CutsInv, CutsInRange
  <2> QED
    BY <1>2, <2>1, <2>3
<1>8. \A i \in 1 .. n * w + 1 : sent[i] = Header(dictionary)[i]
  BY <1>1, <1>7 DEF CutsInv, HeaderInv
<1>9. /\ n * w \in Nat /\ Header(dictionary)[n * w + 1] = 0
      /\ \A i \in 0 .. n - 1 :
           /\ i * w \in Nat /\ i * w + 1 + TokenLen <= n * w
           /\ Header(dictionary)[i * w + 1] = TokenLen
           /\ \A j \in 1 .. TokenLen :
                Header(dictionary)[i * w + 1 + j] = Entry(dictionary, i)[j]
  BY <1>1, <1>2, <1>5, HeaderBytes DEF DictionaryInv, w
<1>10. CASE k = n
  <2>1. sent[position] = 0 /\ position = HeaderLen /\ k * w \in Nat
    <3>1. n * w + 1 \in 1 .. n * w + 1
      BY <1>9
    <3> QED
      BY <1>3, <1>5, <1>7, <1>8, <1>9, <1>10, <3>1
  <2> QED
    BY <1>3, <1>5, <1>10, <2>1 DEF w
<1>11. CASE k # n
  <2>1. k \in 0 .. n - 1 /\ k + 1 <= n
    BY <1>6, <1>11
  <2>2. PICK p \in Nat : p = k * w
    BY <1>9, <2>1
  <2>3. /\ p + 1 + TokenLen <= n * w /\ Header(dictionary)[p + 1] = TokenLen
        /\ \A j \in 1 .. TokenLen : Header(dictionary)[p + 1 + j] = Entry(dictionary, k)[j]
    BY <1>9, <2>1, <2>2
  <2>4. p + 1 \in 1 .. n * w + 1 /\ \A j \in 1 .. TokenLen : p + 1 + j \in 1 .. n * w + 1
    BY <1>4, <1>9, <2>3
  <2>5. /\ sent[p + 1] = TokenLen
        /\ \A j \in 1 .. TokenLen : sent[p + 1 + j] = Entry(dictionary, k)[j]
    BY <1>8, <2>3, <2>4
  <2>6. Entry(dictionary, k) \in Token
    BY <1>2, <1>5, <2>1, KeysNumberEntries
  <2>7. p + 1 + TokenLen <= Len(sent)
    BY <1>2, <1>4, <1>7, <1>9, <2>3
  <2>8. position = p + 1 /\ TokenLen # 0
    BY <1>3, <1>4, <1>5, <2>2
  <2> QED
    BY <1>3, <1>5, <1>11, <2>1, <2>2, <2>5, <2>6, <2>7, <2>8 DEF w
<1> QED
  BY <1>10, <1>11
LEMMA ReadKeyStep ==
  ASSUME CompressionInv, ReadKey
  PROVE  CompressionInv'
<1>1. /\ stage = "keys" /\ sent[position] # 0
      /\ keys' = Append(keys, SubSeq(sent, position + 1, position + sent[position]))
      /\ position' = position + 1 + sent[position]
      /\ UNCHANGED <<stage, message, dictionary, sent, decoded, cuts>>
  BY DEF ReadKey
<1>2. CompressionTypeOK /\ DictionaryInv /\ dictionary # {} /\ CutsInv /\ RestInv /\ KeysInv
  BY <1>1, InDecode
<1>3. /\ sent \in Seq(Byte) /\ Len(sent) \in Nat /\ position \in Nat
      /\ keys \in Seq(Seq(Byte)) /\ TokenLen \in Nat /\ Cardinality(dictionary) \in Nat
  BY <1>2, Types, Sizes DEF CompressionTypeOK
<1>4. PICK k \in Nat : k = Len(keys)
  BY <1>3
<1>5. PICK t \in Token : t = Entry(dictionary, k)
  BY <1>1, <1>4, InHeader
<1>6. /\ position = k * (TokenLen + 1) + 1 /\ k * (TokenLen + 1) \in Nat
      /\ decoded = << >> /\ k + 1 <= Cardinality(dictionary)
      /\ sent[position] = TokenLen /\ position + TokenLen <= Len(sent)
      /\ \A j \in 1 .. TokenLen : sent[position + j] = t[j]
  BY <1>1, <1>4, <1>5, InHeader
<1>7. SubSeq(sent, position + 1, position + sent[position]) = t
  <2>1. PICK p \in Nat, e \in Nat : p = position /\ e = position + TokenLen
    BY <1>3
  <2>2. PICK u \in Seq(Byte) : u = SubSeq(sent, p + 1, e)
    <3>1. p + 1 >= 1 /\ e <= Len(sent) /\ e - p = TokenLen
      BY <1>3, <1>6, <2>1
    <3>2. SubSeq(sent, p + 1, e) \in Seq(Byte)
      BY <1>3, <3>1
    <3> QED
      BY <3>2
  <2>3. Len(u) = TokenLen /\ \A j \in 1 .. TokenLen : u[j] = sent[p + j]
    <3>1. e - p = TokenLen /\ e <= Len(sent)
      BY <1>3, <1>6, <2>1
    <3> QED
      BY <1>3, <2>2, <3>1
  <2>4. u \in [1 .. TokenLen -> Byte] /\ t \in [1 .. TokenLen -> Byte]
    BY <2>3, TokenBytes
  <2>5. \A j \in 1 .. TokenLen : u[j] = t[j]
    BY <1>6, <2>1, <2>3
  <2>6. u = t
    <3>1. PICK D : D = 1 .. TokenLen
      OBVIOUS
    <3>2. u \in [D -> Byte] /\ t \in [D -> Byte] /\ \A j \in D : u[j] = t[j]
      BY <2>4, <2>5, <3>1
    <3> QED
      BY <3>2, SameFunction
  <2> QED
    BY <1>6, <2>1, <2>2, <2>6
<1>8. t \in Seq(Byte)
  BY TokenBytes
<1>9. /\ keys' = Append(keys, t) /\ keys' \in Seq(Seq(Byte)) /\ Len(keys') = k + 1
      /\ keys'[k + 1] = t /\ \A i \in 1 .. k : keys'[i] = keys[i]
  <2>1. keys' = Append(keys, t)
    BY <1>1, <1>7
  <2> QED
    BY <1>3, <1>4, <1>8, <2>1
<1>10. position' = (k + 1) * (TokenLen + 1) + 1
  <2>1. PICK w \in Nat : w = TokenLen + 1
    BY <1>3
  <2>2. w * (k + 1) = w * k + w /\ w * k \in Int
    BY Products
  <2>3. position' = k * w + 1 + 1 + TokenLen
    BY <1>1, <1>6, <2>1
  <2>4. (k + 1) * w = w * (k + 1) /\ k * w = w * k
    OBVIOUS
  <2> QED
    BY <1>3, <2>1, <2>2, <2>3, <2>4
<1>11. CutsInv' /\ RestInv'
  BY <1>1, <1>2, SameCuts
<1>12. KeysInv'
  <2>1. ASSUME NEW i \in 1 .. k + 1
        PROVE  keys'[i] = Entry(dictionary, i - 1)
    <3>1. CASE i = k + 1
      <4>1. i - 1 = k
        BY <3>1
      <4> QED
        BY <1>5, <1>9, <3>1, <4>1
    <3>2. CASE i # k + 1
      <4>1. i \in 1 .. k
        BY <3>2
      <4> QED
        BY <1>2, <1>4, <1>9, <4>1 DEF KeysInv
    <3> QED
      BY <3>1, <3>2
  <2> QED
    BY <1>1, <1>6, <1>9, <2>1 DEF KeysInv
<1>13. CompressionTypeOK'
  <2>1. position' \in Nat
    BY <1>1, <1>3, <1>6
  <2> QED
    BY <1>1, <1>2, <1>9, <2>1 DEF CompressionTypeOK
<1>14. DictionaryInv'
  BY <1>1, <1>2 DEF DictionaryInv
<1>15. StageInv'
  <2>1. position' = Len(keys') * (TokenLen + 1) + 1
    BY <1>9, <1>10
  <2> QED
    BY <1>1, <1>2, <1>6, <1>11, <1>12, <2>1 DEF StageInv
<1> QED
  BY <1>13, <1>14, <1>15 DEF CompressionInv

LEMMA EndOfKeysStep ==
  ASSUME CompressionInv, EndOfKeys
  PROVE  CompressionInv'
<1>1. /\ stage = "keys" /\ sent[position] = 0
      /\ position' = position + 1 /\ stage' = "decode"
      /\ UNCHANGED <<message, dictionary, sent, keys, decoded, cuts>>
  BY DEF EndOfKeys
<1>2. CompressionTypeOK /\ DictionaryInv /\ CutsInv /\ RestInv
  BY <1>1, InDecode
<1>3. position \in Nat /\ Len(cuts) \in Nat /\ HeaderLen \in Nat
  BY <1>2, Types
<1>4. Len(keys) = Cardinality(dictionary) /\ position = HeaderLen /\ decoded = << >>
  BY <1>1, InHeader
<1>5. 1 \in 1 .. Len(cuts) /\ cuts[1].code = HeaderLen /\ cuts[1].plain = 0
  <2>1. cuts # << >> /\ cuts[1] = Cut(HeaderLen, 0)
    BY <1>2 DEF CutsInv
  <2>2. 1 \in 1 .. Len(cuts)
    BY <1>2, <1>3, <2>1 DEF CompressionTypeOK
  <2> QED
    BY <1>3, <2>1, <2>2, CutFields
<1>6. /\ Len(decoded') = cuts[1].plain /\ position' = cuts[1].code + 1
      /\ \A i \in 1 .. cuts[1].plain : decoded'[i] = message[i]
  BY <1>1, <1>4, <1>5
<1>7. (\E j \in 1 .. Len(cuts) - 1 : AtCut(j))' \/ BehindLastCut'
  BY <1>1, <1>2, <1>5, <1>6, Arrive
<1>8. position' \in Nat /\ decoded' \in Seq(Byte)
  BY <1>1, <1>3, <1>4
<1> QED
  BY <1>1, <1>4, <1>7, <1>8, AfterTurn

-----------------------------------------------------------------------------
(***************************************************************************)
(* The theorems.                                                           *)
(***************************************************************************)
LEMMA SameState ==
  ASSUME CompressionInv, UNCHANGED vars
  PROVE  CompressionInv'
<1>1. /\ UNCHANGED <<stage, message, dictionary, position, sent, keys, decoded, cuts>>
      /\ CompressionTypeOK /\ DictionaryInv /\ StageInv
  BY DEF vars, CompressionInv
<1>2. CompressionTypeOK'
  BY <1>1 DEF CompressionTypeOK
<1>3. DictionaryInv'
  BY <1>1 DEF DictionaryInv
<1>4. (CutsInv => CutsInv') /\ (RestInv => RestInv') /\ (KeysInv => KeysInv')
  BY <1>1, SameCuts DEF KeysInv
<1>5. /\ (BehindLastCut => BehindLastCut')
      /\ \A k : AtCut(k) => AtCut(k)'
      /\ LastCut' = LastCut
  BY <1>1, SameCuts DEF BehindLastCut, AtCut, Decoded
<1>6. StageInv'
  BY <1>1, <1>4, <1>5 DEF StageInv, Cut
<1> QED
  BY <1>2, <1>3, <1>6 DEF CompressionInv
(* CodesAreCut: for every message and all sizes, what encodeMessage has    *)
(* written is the header of its entries, one code for each turn of its     *)
(* loop and the bytes it stops short of, and decodeMessage reads it at the *)
(* same cuts (Compression.cpp, encodeMessage and decodeMessage).           *)
THEOREM CodesAreCut == Spec => []CompressionInv
<1>1. Init => CompressionInv
  BY InitCompression
<1>2. CompressionInv /\ [Next]_vars => CompressionInv'
  <2> SUFFICES ASSUME CompressionInv, [Next]_vars
               PROVE  CompressionInv'
    OBVIOUS
  <2>1. CASE SendUncompressed
    BY <2>1, SendUncompressedStep
  <2>2. CASE WriteHeader
    BY <2>2, WriteHeaderStep
  <2>3. CASE WriteLiteral
    BY <2>3, WriteLiteralStep
  <2>4. CASE WriteRepeats
    BY <2>4, WriteRepeatsStep
  <2>5. CASE WriteRest
    BY <2>5, WriteRestStep
  <2>6. CASE ReadUncompressed
    BY <2>6, ReadUncompressedStep
  <2>7. CASE StartDecoding
    BY <2>7, StartDecodingStep
  <2>8. CASE ReadKey
    BY <2>8, ReadKeyStep
  <2>9. CASE EndOfKeys
    BY <2>9, EndOfKeysStep
  <2>10. CASE CopyByte
    BY <2>10, CopyByteStep
  <2>11. CASE CopyEscape
    BY <2>11, CopyEscapeStep
  <2>12. CASE Expand
    BY <2>12, ExpandStep
  <2>13. CASE ReadPastEnd
    BY <2>13, ReadPastEndStep
  <2>14. CASE EndOfMessage
    BY <2>14, EndOfMessageStep
  <2>15. CASE UNCHANGED vars
    BY <2>15, SameState
  <2> QED
    BY <2>1, <2>2, <2>3, <2>4, <2>5, <2>6, <2>7, <2>8, <2>9, <2>10, <2>11, <2>12,
       <2>13, <2>14, <2>15 DEF Next, Encode, Decode
<1> QED
  BY <1>1, <1>2, PTL DEF Spec

(* RunLengthsHold: for every message and all sizes, the byte written for a *)
(* run is the number of copies it stands for (Compression.cpp:513-524): it *)
(* never wraps around, because the loop that counts them is limited.       *)
THEOREM RunLengthsHold == Spec => []RunLengthsExact
<1>1. CompressionInv => RunLengthsExact
  <2> SUFFICES ASSUME CompressionInv, NEW k \in 1 .. Len(cuts) - 1,
                      cuts[k + 1].code = cuts[k].code + 3
               PROVE  cuts[k + 1].plain =
                        cuts[k].plain + TokenLen * sent[cuts[k].code + 3]
    BY DEF RunLengthsExact
  <2>1. CompressionTypeOK /\ DictionaryInv
    BY DEF CompressionInv
  <2>2. /\ Len(cuts) \in Nat /\ cuts \in Seq(CutType)
        /\ \A i \in 1 .. Len(cuts) :
             cuts[i] \in CutType /\ cuts[i].code \in Nat /\ cuts[i].plain \in Nat
    BY <2>1, Types
  <2>3. k \in 1 .. Len(cuts)
    BY <2>2
  <2>4. cuts[k].code \in Nat /\ cuts[k].plain \in Nat
    BY <2>2, <2>3
  <2>5. dictionary # {}
    <3>1. cuts # << >>
      BY <2>2, <2>3
    <3> QED
      BY <3>1 DEF CompressionInv, StageInv
  <2>6. IsLiteral(cuts[k], cuts[k + 1]) \/ IsRepeat(cuts[k], cuts[k + 1])
    BY <2>5 DEF CompressionInv, StageInv, CutsInv, CodesInv
  <2>7. ~IsLiteral(cuts[k], cuts[k + 1])
    BY <2>4 DEF IsLiteral, Cut
  <2>8. PICK t \in dictionary, r \in 1 .. Escape :
          /\ cuts[k + 1] = Cut(cuts[k].code + 3, cuts[k].plain + r * TokenLen)
          /\ sent[cuts[k].code + 3] = r
    BY <2>6, <2>7 DEF IsRepeat
  <2>9. cuts[k + 1].plain = cuts[k].plain + r * TokenLen
    BY <2>8 DEF Cut
  <2>10. r * TokenLen = TokenLen * r
    BY CompressionAssumption DEF Byte
  <2> QED
    BY <2>8, <2>9, <2>10
<1> QED
  BY <1>1, CodesAreCut, PTL

(* What is left once decodeMessage has returned.                           *)
LEMMA WhenFinished ==
  ASSUME CompressionInv, Finished, dictionary # {}
  PROVE  /\ BehindLastCut /\ RestInv
         /\ LastCut.code \in Nat /\ LastCut.plain \in Nat
<1>1. CompressionTypeOK /\ DictionaryInv /\ CutsInv /\ RestInv /\ BehindLastCut
  BY DEF CompressionInv, StageInv, Finished
<1>2. Len(cuts) \in Nat /\ \A k \in 1 .. Len(cuts) :
        cuts[k] \in CutType /\ cuts[k].code \in Nat /\ cuts[k].plain \in Nat
  BY <1>1, Types
<1>3. Len(cuts) \in 1 .. Len(cuts)
  BY <1>1, <1>2 DEF CutsInv, CompressionTypeOK
<1> QED
  BY <1>1, <1>2, <1>3 DEF LastCut

LEMMA FinishedUncompressed ==
  ASSUME CompressionInv, Finished, dictionary = {}
  PROVE  stage = "done" /\ decoded = message
BY DEF CompressionInv, StageInv, Finished

(* RoundTripHolds: for every message and all sizes, decodeMessage returns  *)
(* what encodeMessage was given and reads past the end of nothing, unless  *)
(* an escape character is among the last TokenLen bytes.                   *)
THEOREM RoundTripHolds == Spec => []RoundTripBeforeTheEnd
<1>1. CompressionInv => RoundTripBeforeTheEnd
  <2> SUFFICES ASSUME CompressionInv, Finished, ~EscapeAtTheEnd, dictionary # {}
               PROVE  stage = "done" /\ decoded = message
    BY FinishedUncompressed DEF RoundTripBeforeTheEnd
  <2>1. BehindLastCut /\ RestInv /\ LastCut.code \in Nat /\ LastCut.plain \in Nat
    BY WhenFinished
  <2>2. PICK c \in Nat, p \in Nat : c = LastCut.code /\ p = LastCut.plain
    BY <2>1
  <2>3. CompressionTypeOK /\ DictionaryInv
    BY DEF CompressionInv
  <2>4. /\ message \in Seq(Byte) /\ Len(message) \in Nat
        /\ decoded \in Seq(Byte) /\ Len(decoded) \in Nat /\ Len(sent) \in Nat
    BY <2>3, Types
  <2>5. stage = "done"
    BY <2>1 DEF BehindLastCut, Finished
  <2>6. /\ position = Len(sent) + 1
        /\ Len(decoded) = p + (position - 1 - c)
        /\ \A i \in 1 .. Len(decoded) : decoded[i] = message[i]
    BY <2>1, <2>2, <2>5 DEF BehindLastCut, Decoded
  <2>7. Len(sent) = c + (Len(message) - p)
    BY <2>1, <2>2 DEF RestInv
  <2>8. Len(decoded) = Len(message)
    BY <2>4, <2>6, <2>7
  <2>9. PICK D : D = 1 .. Len(message)
    OBVIOUS
  <2>10. decoded \in [D -> Byte] /\ message \in [D -> Byte]
    BY <2>4, <2>8, <2>9
  <2>11. decoded = message
    BY <2>6, <2>8, <2>9, <2>10, SameFunction
  <2> QED
    BY <2>5, <2>11
<1> QED
  BY <1>1, CodesAreCut, PTL

(* BeginningSurvives: for every message and all sizes, what decodeMessage  *)
(* returns begins with all of the message but its last TokenLen bytes,     *)
(* whatever follows an escape character among those.                       *)
THEOREM BeginningSurvives == Spec => []NothingLost
<1>1. CompressionInv => NothingLost
  <2> SUFFICES ASSUME CompressionInv, Finished, NEW i \in 1 .. Len(message) - TokenLen
               PROVE  i <= Len(decoded) /\ decoded[i] = message[i]
    BY DEF NothingLost
  <2>1. CompressionTypeOK /\ DictionaryInv
    BY DEF CompressionInv
  <2>2. Len(message) \in Nat /\ Len(decoded) \in Nat /\ TokenLen \in Nat
    BY <2>1, Types, Sizes
  <2>3. CASE dictionary = {}
    <3>1. decoded = message
      BY <2>3, FinishedUncompressed
    <3> QED
      BY <2>2, <3>1
  <2>4. CASE dictionary # {}
    <3>1. BehindLastCut /\ RestInv /\ LastCut.plain \in Nat
      BY <2>4, WhenFinished
    <3>2. PICK p \in Nat : p = LastCut.plain
      BY <3>1
    <3>3. /\ p >= Len(message) - TokenLen /\ p <= Len(decoded)
          /\ \A j \in 1 .. p : decoded[j] = message[j]
      BY <3>1, <3>2 DEF RestInv, BehindLastCut, Decoded
    <3>4. i \in 1 .. p
      BY <2>2, <3>3
    <3> QED
      BY <2>2, <3>3, <3>4
  <2> QED
    BY <2>3, <2>4
<1> QED
  BY <1>1, CodesAreCut, PTL
=============================================================================
