---------------------------- MODULE AnswersProofs -----------------------------
(***************************************************************************)
(* The client and the server agree on which pass they are in and on what   *)
(* has been answered: SessionInv is kept by every step, whatever is lost   *)
(* or fails, as long as the network delivers no response twice.  If it     *)
(* does, SupplyInv is still kept: it bounds by how much the client may be  *)
(* wrong.                                                                  *)
(***************************************************************************)
EXTENDS SessionProofs

LEMMA TypePart == SessionInv => TypeInv
BY DEF SessionInv, TypeInv

LEMMA InitSessionInv == Init => SessionInv
<1> SUFFICES ASSUME Init PROVE SessionInv
  OBVIOUS
<1>1. TypeInv
  BY InitTypeInv
<1>2. PendingInv /\ ServingInv /\ NetInv
  BY DEF Init, PendingInv, ServingInv, NetInv
<1>3. CountInv
  BY DEF Init, CountInv, Counted
<1> QED
  BY <1>1, <1>2, <1>3 DEF SessionInv, TypeInv

-----------------------------------------------------------------------------
(***************************************************************************)
(* A client that is not receiving has left no trace.                       *)
(***************************************************************************)
LEMMA NoTrace ==
  ASSUME SessionInv, NEW c \in Clients, pc[c] = "send"
  PROVE  /\ ~Serving(c)
         /\ \A r \in requests : r.from # c
         /\ \A m \in net : m.to # c
         /\ \A ci \in Indices : responses[c][ci] = <<>>
BY DEF SessionInv, PendingInv, ServingInv, NetInv, CountInv, Counted, Serving

LEMMA StartPassSessionInv ==
  ASSUME SessionInv, NEW c \in Clients, StartPass(c)
  PROVE  SessionInv'
<1> DEFINE r == [from |-> c, pass |-> pass[c],
                 bytes |-> SentBytes(pass[c], robotIDLen[c])]
<1>1. TypeInv'
  BY TypePart, StartPassTypeInv
<1>2. TypeOK
  BY DEF SessionInv
<1>3. /\ requests' = requests \cup {r}
      /\ pc[c] = "send" /\ pc' = [pc EXCEPT ![c] = "parse"]
      /\ numCommands' = [numCommands EXCEPT ![c] = NumCommands(pass[c])]
      /\ answered' = [answered EXCEPT ![c] = {}]
      /\ UNCHANGED <<pass, responses, net, server, request, commandIndex>>
  BY DEF StartPass, serverVars
<1>4. r.from = c /\ r.pass = pass[c]
  OBVIOUS
<1>5. /\ pc'[c] = "parse" /\ answered'[c] = {}
      /\ numCommands'[c] = NumCommands(pass[c])
      /\ \A d \in Clients \ {c} : /\ pc'[d] = pc[d] /\ answered'[d] = answered[d]
                                  /\ numCommands'[d] = numCommands[d]
  BY <1>2, <1>3 DEF TypeOK
<1>6. /\ ~Serving(c)
      /\ \A q \in requests : q.from # c
      /\ \A m \in net : m.to # c
      /\ \A ci \in Indices : responses[c][ci] = <<>>
  BY <1>3, NoTrace
<1>7. /\ \A q \in requests : q.from \in Clients
      /\ \A m \in net : m.to \in Clients
      /\ request.from \in Clients
  BY <1>2 DEF TypeOK, Request, Message
<1> HIDE DEF r
<1>8. PendingInv'
  BY <1>3, <1>4, <1>5, <1>6, <1>7 DEF SessionInv, PendingInv, Serving
<1>9. ServingInv'
  BY <1>3, <1>5, <1>6, <1>7 DEF SessionInv, ServingInv, Serving
<1>10. NetInv'
  BY <1>3, <1>5, <1>6, <1>7 DEF SessionInv, NetInv, Awaited
<1>11. CountInv'
  <2>1. NumCommands(pass[c]) \in 28..68
    BY <1>2, SidesRange, PolygonAssumption DEF TypeOK, Pass, NumCommands, Sides
  <2>2. Cardinality({}) = 0
    BY FS_EmptySet
  <2>3. Counted(c)'
    <3>1. pc'[c] = "parse" /\ responses'[c] = responses[c]
      BY <1>3, <1>5
    <3>2. numCommands'[c] = NumCommands(pass'[c]) - Cardinality(answered'[c])
      BY <1>3, <1>5, <2>1, <2>2
    <3>3. numCommands'[c] > 1
      BY <1>5, <2>1
    <3> QED
      BY <1>5, <1>6, <3>1, <3>2, <3>3 DEF Counted
  <2>4. ASSUME NEW d \in Clients \ {c} PROVE Counted(d)'
    <3>1. Counted(d)
      BY DEF SessionInv, CountInv
    <3> QED
      BY <1>3, <1>5, <3>1 DEF Counted
  <2> QED
    BY <2>3, <2>4 DEF CountInv
<1> QED
  BY <1>1, <1>8, <1>9, <1>10, <1>11 DEF SessionInv, TypeInv

-----------------------------------------------------------------------------
(***************************************************************************)
(* What the client knows of a message it receives.                         *)
(***************************************************************************)
LEMMA ReceivedFacts ==
  ASSUME SessionInv, NEW m \in net
  PROVE  /\ m \in Message /\ m.to \in Clients /\ m.ci \in Indices
         /\ m.seq \in Nat /\ m.num \in Nat /\ m.seq < m.num
         /\ responses[m.to][m.ci] \in Seq(Chunk)
         /\ pass[m.to] \in Pass
         /\ m.ci \notin answered[m.to] /\ m.ci <= LastServed(pass[m.to])
         /\ \A r \in requests : r.from # m.to
         /\ Serving(m.to) => m.ci < commandIndex
<1>1. m \in Message /\ m.ci \in Indices /\ m.seq < m.num
  BY DEF SessionInv, TypeOK
<1>2. m.to \in Clients /\ m.seq \in Nat /\ m.num \in Nat
  BY <1>1 DEF Message
<1> QED
  BY <1>1, <1>2 DEF SessionInv, TypeOK, NetInv, PendingInv, ServingInv, Serving

(***************************************************************************)
(* Storing m leaves the place of every other message free; a full response *)
(* therefore has no other message in the network.                          *)
(***************************************************************************)
LEMMA OthersAwaited ==
  ASSUME SessionInv, NEW m \in net, NEW k \in net, k # m, k.to = m.to, k.ci = m.ci,
         NEW vec, vec = Store(responses[m.to][m.ci], m)
  PROVE  /\ Len(vec) <= k.seq \/ vec[k.seq + 1] = Empty
         /\ ~IsVectorFull(vec)
<1> DEFINE old == responses[m.to][m.ci]
<1>1. /\ k.seq # m.seq /\ k.num = m.num
      /\ Len(old) <= k.seq \/ old[k.seq + 1] = Empty
  BY DEF SessionInv, NetInv, Awaited
<1>2. /\ k.seq \in Nat /\ m.seq \in Nat /\ m.num \in Nat /\ k.seq < m.num
      /\ old \in Seq(Chunk) /\ m \in Message /\ m.seq < m.num
  BY <1>1, ReceivedFacts
<1> HIDE DEF old
<1>3. /\ vec \in Seq(Chunk) /\ m.num <= Len(vec)
      /\ \A i \in 1..Len(vec) :
           vec[i] = IF i = m.seq + 1 THEN m.data
                    ELSE IF i <= Len(old) THEN old[i] ELSE Empty
  <2>1. vec = Store(old, m)
    BY DEF old
  <2>2. /\ Store(old, m) \in Seq(Chunk) /\ m.num <= Len(Store(old, m))
        /\ \A i \in 1..Len(Store(old, m)) :
             Store(old, m)[i] = IF i = m.seq + 1 THEN m.data
                                ELSE IF i <= Len(old) THEN old[i] ELSE Empty
    BY <1>2, StoreFacts
  <2> QED
    BY <2>1, <2>2, Zenon
<1>4. Len(vec) \in Nat /\ Len(old) \in Nat
  BY <1>2, <1>3
<1>5. k.seq + 1 \in 1..Len(vec) /\ k.seq + 1 # m.seq + 1
  BY <1>1, <1>2, <1>3, <1>4
<1>6. vec[k.seq + 1] = Empty
  BY <1>1, <1>2, <1>3, <1>4, <1>5
<1> QED
  BY <1>5, <1>6 DEF IsVectorFull

LEMMA KeepChunkSessionInv ==
  ASSUME SessionInv, NEW m \in net, pc[m.to] = "parse", KeepChunk(m.to, m),
         net' = net \ {m}, TypeInv', UNCHANGED <<robotIDLen, serverVars, requests, losses>>
  PROVE  SessionInv'
<1> DEFINE c == m.to
           vec == Store(responses[c][m.ci], m)
<1>1. /\ responses' = [responses EXCEPT ![c][m.ci] = vec]
      /\ UNCHANGED <<pass, pc, numCommands, answered, requests, server, request,
                     commandIndex>>
  BY DEF KeepChunk, serverVars
<1>2. /\ c \in Clients /\ m.ci \in Indices
      /\ pc[c] = "parse" /\ m.ci \notin answered[c] /\ m.ci <= LastServed(pass[c])
      /\ \A r \in requests : r.from # c
      /\ Serving(c) => m.ci < commandIndex
  BY ReceivedFacts
<1>3. /\ responses'[c][m.ci] = vec
      /\ \A d \in Clients, ci \in Indices :
           d # c \/ ci # m.ci => responses'[d][ci] = responses[d][ci]
  BY <1>1, <1>2 DEF SessionInv, TypeOK
<1>4. /\ \A q \in requests : q.from \in Clients
      /\ \A k \in net : k.to \in Clients /\ k.ci \in Indices
      /\ request.from \in Clients
  BY DEF SessionInv, TypeOK, Request, Message
<1>5. \A d \in Clients : pass[d] \in Pass /\ LastServed(pass[d]) \in Nat
  BY LastServedType DEF SessionInv, TypeOK
<1>6. \A k \in net : k # m /\ k.to = c /\ k.ci = m.ci =>
        Len(vec) <= k.seq \/ vec[k.seq + 1] = Empty
  BY OthersAwaited
<1>7. Indices \subseteq Nat /\ commandIndex \in Nat
  BY DEF Indices, SessionInv, TypeOK
<1> HIDE DEF c, vec
<1>8. PendingInv'
  BY <1>1, <1>2, <1>3, <1>4 DEF SessionInv, PendingInv, Serving
<1>9. ServingInv'
  BY <1>1, <1>2, <1>3, <1>4, <1>7 DEF SessionInv, ServingInv, Serving
<1>10. NetInv'
  <2> SUFFICES ASSUME NEW k \in net \ {m}
               PROVE  /\ pc[k.to] \in {"parse", "quit"}
                      /\ k.data # Empty => k.data.pass = pass[k.to]
                      /\ k.ci \notin answered[k.to]
                      /\ k.ci <= LastServed(pass[k.to])
                      /\ Awaited(k)'
                      /\ \A j \in net \ {m} : j.to = k.to /\ j.ci = k.ci =>
                           j.num = k.num /\ (j.seq = k.seq => j = k)
    BY <1>1 DEF NetInv
  <2>1. Awaited(k)'
    <3>1. CASE k.to = c /\ k.ci = m.ci
      BY <1>3, <1>6, <3>1 DEF Awaited
    <3>2. CASE k.to # c \/ k.ci # m.ci
      BY <1>3, <1>4, <3>2 DEF Awaited, SessionInv, NetInv
    <3> QED
      BY <3>1, <3>2
  <2> QED
    BY <2>1 DEF SessionInv, NetInv
<1>11. CountInv'
  <2> SUFFICES ASSUME NEW d \in Clients PROVE Counted(d)'
    BY DEF CountInv
  <2>1. Counted(d)
    BY DEF SessionInv, CountInv
  <2> QED
    BY <1>1, <1>2, <1>3, <1>5, <1>7, <2>1 DEF Counted
<1> QED
  BY <1>8, <1>9, <1>10, <1>11 DEF SessionInv, TypeInv

(***************************************************************************)
(* A client whose count is down to one has every answer it waits for.      *)
(***************************************************************************)
LEMMA AllAnswered ==
  ASSUME NEW p \in Pass, NEW S \in SUBSET (0..LastServed(p)),
         NumCommands(p) - Cardinality(S) <= 1
  PROVE  S = 0..LastServed(p) /\ NumCommands(p) - Cardinality(S) = 1
<1>1. NumCommands(p) \in Nat /\ LastServed(p) \in Nat /\ LastServed(p) = NumCommands(p) - 2
  BY SidesRange, LastServedType
<1>2. IsFiniteSet(0..LastServed(p)) /\ Cardinality(0..LastServed(p)) = LastServed(p) + 1
  BY <1>1, FS_Interval
<1>3. /\ IsFiniteSet(S) /\ Cardinality(S) <= LastServed(p) + 1
      /\ LastServed(p) + 1 = Cardinality(S) => S = 0..LastServed(p)
  <2> DEFINE U == 0..LastServed(p)
  <2>1. IsFiniteSet(U) /\ Cardinality(U) = LastServed(p) + 1 /\ S \in SUBSET U
    BY <1>2
  <2> HIDE DEF U
  <2>2. /\ IsFiniteSet(S) /\ Cardinality(S) <= Cardinality(U)
        /\ Cardinality(U) = Cardinality(S) => U = S
    BY <2>1, FS_Subset
  <2> QED
    BY <2>1, <2>2 DEF U
<1>4. Cardinality(S) \in Nat
  BY <1>3, FS_CardinalityType
<1> QED
  BY <1>1, <1>3, <1>4

LEMMA AnsweredType ==
  ASSUME NEW p \in Pass, NEW S \in SUBSET (0..LastServed(p))
  PROVE  IsFiniteSet(S) /\ Cardinality(S) \in Nat
<1> DEFINE U == 0..LastServed(p)
<1>1. IsFiniteSet(U)
  BY LastServedType, FS_Interval
<1> HIDE DEF U
<1>2. S \in SUBSET U
  BY DEF U
<1> QED
  BY <1>1, <1>2, FS_Subset, FS_CardinalityType

LEMMA OneMoreAnswered ==
  ASSUME NEW p \in Pass, NEW S \in SUBSET (0..LastServed(p)), NEW ci \in Nat,
         ci \notin S, ci <= LastServed(p)
  PROVE  /\ S \cup {ci} \in SUBSET (0..LastServed(p))
         /\ Cardinality(S) \in Nat
         /\ Cardinality(S \cup {ci}) = Cardinality(S) + 1
<1>1. LastServed(p) \in Nat
  BY LastServedType
<1>2. IsFiniteSet(S) /\ Cardinality(S) \in Nat
  BY AnsweredType
<1>4. Cardinality(S \cup {ci}) = Cardinality(S) + 1
  BY <1>2, FS_AddElement
<1> QED
  BY <1>1, <1>2, <1>4

LEMMA CompleteResponseSessionInv ==
  ASSUME SessionInv, NEW m \in net, pc[m.to] = "parse", CompleteResponse(m.to, m),
         net' = net \ {m}, TypeInv', UNCHANGED <<robotIDLen, serverVars, requests, losses>>
  PROVE  SessionInv'
<1> DEFINE c == m.to
           vec == Store(responses[c][m.ci], m)
           left == numCommands[c] - 1
<1>1. /\ IsVectorFull(vec)
      /\ responses' = [responses EXCEPT ![c][m.ci] = <<>>]
      /\ numCommands' = [numCommands EXCEPT ![c] = left]
      /\ answered' = [answered EXCEPT ![c] = @ \cup {m.ci}]
      /\ ContinueOrReturn(c, left)
      /\ UNCHANGED <<requests, server, request, commandIndex>>
  BY DEF CompleteResponse, serverVars
<1>2. /\ c \in Clients /\ m.ci \in Indices
      /\ pc[c] = "parse" /\ m.ci \notin answered[c] /\ m.ci <= LastServed(pass[c])
      /\ pass[c] \in Pass
      /\ \A r \in requests : r.from # c
      /\ Serving(c) => m.ci < commandIndex
  BY ReceivedFacts
<1>3. \A k \in net : k # m /\ k.to = c => k.ci # m.ci
  BY <1>1, OthersAwaited
<1>4. /\ \A q \in requests : q.from \in Clients
      /\ \A k \in net : k.to \in Clients /\ k.ci \in Indices
      /\ request.from \in Clients /\ request.pass \in Pass
      /\ Indices \subseteq Nat /\ commandIndex \in Nat
  BY DEF SessionInv, TypeOK, Request, Message, Indices
<1>5. /\ numCommands[c] = NumCommands(pass[c]) - Cardinality(answered[c])
      /\ numCommands[c] > 1
      /\ answered[c] \in SUBSET (0..LastServed(pass[c]))
      /\ \A ci \in Indices : ci \in answered[c] \/ ci > LastServed(pass[c]) =>
           responses[c][ci] = <<>>
  BY <1>2 DEF SessionInv, CountInv, Counted
<1> HIDE DEF c, vec, left
<1>6. /\ responses'[c][m.ci] = <<>>
      /\ \A d \in Clients, ci \in Indices :
           d # c \/ ci # m.ci => responses'[d][ci] = responses[d][ci]
      /\ answered'[c] = answered[c] \cup {m.ci} /\ numCommands'[c] = left
      /\ \A d \in Clients \ {c} :
           answered'[d] = answered[d] /\ numCommands'[d] = numCommands[d]
  BY <1>1, <1>2 DEF SessionInv, TypeOK
<1>7. \A d \in Clients \ {c} : pc'[d] = pc[d] /\ pass'[d] = pass[d]
  BY <1>1, <1>2 DEF ContinueOrReturn, SessionInv, TypeOK
<1>8. /\ answered'[c] \in SUBSET (0..LastServed(pass[c]))
      /\ left = NumCommands(pass[c]) - Cardinality(answered'[c])
  <2>1. NumCommands(pass[c]) \in Nat /\ m.ci \in Nat
    <3>1. m.ci \in Nat
      BY <1>2, <1>4
    <3> QED
      BY <1>2, <3>1, SidesRange
  <2>2. /\ answered[c] \cup {m.ci} \in SUBSET (0..LastServed(pass[c]))
        /\ Cardinality(answered[c]) \in Nat
        /\ Cardinality(answered[c] \cup {m.ci}) = Cardinality(answered[c]) + 1
    BY <1>2, <1>5, <2>1, OneMoreAnswered
  <2> QED
    BY <1>5, <1>6, <2>1, <2>2 DEF left
<1>9. \/ /\ left > 1 /\ pc'[c] = "parse" /\ pass'[c] = pass[c]
      \/ /\ left = 1 /\ pc'[c] \in {"send", "done"}
         /\ answered'[c] = 0..LastServed(pass[c])
  <2>4. NumCommands(pass[c]) \in Int /\ Cardinality(answered'[c]) \in Int
    BY <1>2, <1>8, SidesRange, AnsweredType
  <2>1. left > 1 \/ left <= 1
    BY <1>5, <1>2, SidesRange, <1>1 DEF ContinueOrReturn
  <2>2. CASE left > 1
    <3>1. left \in Int
      BY <1>2, <1>5, <1>8, <2>4
    <3>2. UNCHANGED <<pc, pass>>
      BY <1>1, <2>2, <3>1 DEF ContinueOrReturn
    <3> QED
      BY <1>2, <2>2, <3>2
  <2>3. CASE left <= 1
    <3>1. answered'[c] = 0..LastServed(pass[c]) /\ left = 1
      BY <1>2, <1>8, <2>3, AllAnswered
    <3>2. pc'[c] \in {"send", "done"}
      BY <1>1, <1>2, <3>1 DEF ContinueOrReturn, SessionInv, TypeOK
    <3> QED
      BY <3>1, <3>2
  <2> QED
    BY <2>1, <2>2, <2>3

(* When the client returns, it has left no trace. *)
<1>10. left = 1 => /\ ~Serving(c)
                   /\ \A k \in net \ {m} : k.to # c
                   /\ \A ci \in Indices : responses'[c][ci] = <<>>
  <2> SUFFICES ASSUME left = 1
               PROVE  /\ ~Serving(c)
                      /\ \A k \in net \ {m} : k.to # c
                      /\ \A ci \in Indices : responses'[c][ci] = <<>>
    OBVIOUS
  <2>1. answered[c] \cup {m.ci} = 0..LastServed(pass[c])
    BY <1>6, <1>9
  <2>2. ~Serving(c)
    <3>1. SUFFICES ASSUME Serving(c) PROVE FALSE
      OBVIOUS
    <3>2. commandIndex \in Indices /\ commandIndex <= LastServed(pass[c])
      BY <3>1, TypePart, ServedIndex
         DEF SessionInv, PlaceInv, ServingInv, Serving
    <3>3. commandIndex \notin answered[c] /\ m.ci < commandIndex
      BY <1>2, <3>1, <3>2, <1>4 DEF SessionInv, ServingInv, Serving
    <3>4. commandIndex \in 0..LastServed(pass[c]) /\ commandIndex # m.ci
      BY <1>2, <1>4, <3>2, <3>3, LastServedType
    <3> QED
      BY <2>1, <3>3, <3>4
  <2>3. ASSUME NEW k \in net \ {m} PROVE k.to # c
    <3>1. SUFFICES ASSUME k.to = c PROVE FALSE
      OBVIOUS
    <3>2. k.ci \notin answered[c] /\ k.ci # m.ci /\ k.ci <= LastServed(pass[c])
      BY <1>3, <3>1 DEF SessionInv, NetInv
    <3>3. k.ci \in 0..LastServed(pass[c])
      <4>1. k.ci \in Nat
        BY <1>4
      <4> QED
        BY <1>2, <3>2, <4>1, LastServedType
    <3> QED
      BY <2>1, <3>2, <3>3
  <2>4. ASSUME NEW ci \in Indices PROVE responses'[c][ci] = <<>>
    <3>1. CASE ci = m.ci
      BY <1>6, <3>1
    <3>2. CASE ci # m.ci
      <4>1. ci \in answered[c] \/ ci > LastServed(pass[c])
        BY <1>2, <1>4, <2>1, <3>2, LastServedType
      <4> QED
        BY <1>2, <1>5, <1>6, <3>2, <4>1
    <3> QED
      BY <3>1, <3>2
  <2> QED
    BY <2>2, <2>3, <2>4
<1>11. PendingInv'
  <2>1. \A q \in requests : q.from \in Clients \ {c}
    BY <1>2, <1>4
  <2>2. \A q \in requests : /\ pc'[q.from] = pc[q.from] /\ pass'[q.from] = pass[q.from]
                            /\ answered'[q.from] = answered[q.from]
                            /\ \A ci \in Indices :
                                 responses'[q.from][ci] = responses[q.from][ci]
    BY <1>6, <1>7, <2>1
  <2> QED
    BY <1>1, <2>2 DEF SessionInv, PendingInv, Serving
<1>12. ServingInv'
  <2>1. CASE Serving(c)
    <3>1. pc'[c] = "parse" /\ pass'[c] = pass[c]
      BY <1>9, <1>10, <2>1
    <3> QED
      BY <1>1, <1>2, <1>4, <1>6, <2>1, <3>1 DEF SessionInv, ServingInv, Serving
  <2>2. CASE ~Serving(c)
    BY <1>1, <1>4, <1>6, <1>7, <2>2 DEF SessionInv, ServingInv, Serving
  <2> QED
    BY <2>1, <2>2
<1>13. NetInv'
  <2> SUFFICES ASSUME NEW k \in net \ {m}
               PROVE  /\ pc'[k.to] \in {"parse", "quit"}
                      /\ k.data # Empty => k.data.pass = pass'[k.to]
                      /\ k.ci \notin answered'[k.to]
                      /\ k.ci <= LastServed(pass'[k.to])
                      /\ Awaited(k)'
                      /\ \A j \in net \ {m} : j.to = k.to /\ j.ci = k.ci =>
                           j.num = k.num /\ (j.seq = k.seq => j = k)
    BY DEF NetInv
  <2>1. k.to \in Clients /\ (k.to # c \/ k.ci # m.ci) /\ k.ci \in Indices
    BY <1>3, <1>4
  <2>2. pc'[k.to] = pc[k.to] /\ pass'[k.to] = pass[k.to]
    BY <1>2, <1>7, <1>9, <1>10, <2>1
  <2>3. k.ci \notin answered[k.to] => k.ci \notin answered'[k.to]
    BY <1>6, <2>1
  <2>4. Awaited(k) => Awaited(k)'
    BY <1>6, <2>1 DEF Awaited
  <2> QED
    BY <2>2, <2>3, <2>4 DEF SessionInv, NetInv
<1>14. CountInv'
  <2> SUFFICES ASSUME NEW d \in Clients PROVE Counted(d)'
    BY DEF CountInv
  <2>1. Counted(d)
    BY DEF SessionInv, CountInv
  <2>2. CASE d # c
    BY <1>6, <1>7, <2>1, <2>2 DEF Counted
  <2>3. CASE d = c
    <3>1. CASE left > 1
      <4>1. pc'[c] = "parse" /\ pass'[c] = pass[c]
        BY <1>9, <3>1
      <4>2. \A ci \in Indices : ci \in answered'[c] \/ ci > LastServed(pass[c]) =>
              responses'[c][ci] = <<>>
        BY <1>2, <1>5, <1>6
      <4> QED
        BY <1>6, <1>8, <2>3, <3>1, <4>1, <4>2 DEF Counted
    <3>2. CASE left = 1
      BY <1>6, <1>9, <1>10, <2>3, <3>2 DEF Counted
    <3> QED
      BY <1>9, <3>1, <3>2
  <2> QED
    BY <2>2, <2>3
<1> QED
  BY <1>11, <1>12, <1>13, <1>14 DEF SessionInv, TypeInv

(* Without duplication a message received is gone from the network. *)
LEMMA ReceiveSessionInv ==
  ASSUME MaxDup = 0, SessionInv, NEW c \in Clients, Receive(c)
  PROVE  SessionInv'
<1>1. PICK m \in net :
        /\ m.to = c /\ pc[c] = "parse"
        /\ Deliver(m) /\ (KeepChunk(c, m) \/ CompleteResponse(c, m))
        /\ UNCHANGED <<robotIDLen, serverVars, requests, losses>>
  BY DEF Receive
<1>2. net' = net \ {m}
  BY <1>1 DEF Deliver, SessionInv, TypeOK
<1>3. TypeInv'
  BY TypePart, ReceiveTypeInv
<1>4. CASE KeepChunk(c, m)
  BY <1>1, <1>2, <1>3, <1>4, KeepChunkSessionInv
<1>5. CASE CompleteResponse(c, m)
  BY <1>1, <1>2, <1>3, <1>5, CompleteResponseSessionInv
<1> QED
  BY <1>1, <1>4, <1>5

(* A client that quits leaves what is meant for it where it is. *)
LEMMA QuitSessionInv ==
  ASSUME SessionInv, NEW c \in Clients, Quits(c)
  PROVE  SessionInv'
<1>1. TypeInv'
  BY TypePart, OtherStepsTypeInv, HandleFailsTypeInv DEF Quits
<1>2. /\ pc[c] \in {"send", "parse"} /\ pc' = [pc EXCEPT ![c] = "quit"]
      /\ UNCHANGED <<pass, numCommands, responses, answered, server, request,
                     commandIndex, requests>>
  BY QuitStep DEF SessionInv
<1>3. net' \subseteq net
  BY QuitStep DEF SessionInv
<1>4. /\ pc'[c] = "quit"
      /\ \A d \in Clients \ {c} : pc'[d] = pc[d]
      /\ \A q \in requests : q.from \in Clients
      /\ \A k \in net : k.to \in Clients
      /\ request.from \in Clients
  BY <1>2 DEF SessionInv, TypeOK, Request, Message
<1>5. PendingInv'
  BY <1>2, <1>3, <1>4 DEF SessionInv, PendingInv, Serving
<1>6. ServingInv'
  BY <1>2, <1>3, <1>4 DEF SessionInv, ServingInv
<1>7. NetInv'
  BY <1>2, <1>3, <1>4 DEF SessionInv, NetInv, Awaited
<1>8. CountInv'
  BY <1>2, <1>4 DEF SessionInv, CountInv, Counted
<1> QED
  BY <1>1, <1>5, <1>6, <1>7, <1>8 DEF SessionInv, TypeInv

-----------------------------------------------------------------------------
LEMMA ReceiveRequestSessionInv ==
  ASSUME SessionInv, ReceiveRequest
  PROVE  SessionInv'
<1>1. TypeInv'
  BY TypePart, ReceiveRequestTypeInv
<1>2. PICK r \in requests :
        /\ request' = r /\ requests' = requests \ {r}
        /\ server = "recv" /\ server' = "serve" /\ commandIndex' = 0
        /\ UNCHANGED <<pass, pc, numCommands, responses, answered, net>>
  BY DEF ReceiveRequest, clientVars
<1>3. /\ pc[r.from] \in {"parse", "quit"} /\ pass[r.from] = r.pass /\ answered[r.from] = {}
      /\ \A m \in net : m.to # r.from
      /\ \A ci \in Indices : responses[r.from][ci] = <<>>
      /\ \A q \in requests : q.from = r.from => q = r
  BY <1>2 DEF SessionInv, PendingInv
<1>4. PendingInv'
  BY <1>2, <1>3 DEF SessionInv, PendingInv, Serving
<1>5. ServingInv'
  BY <1>2, <1>3 DEF ServingInv
<1>6. NetInv'
  BY <1>2 DEF SessionInv, NetInv, Awaited
<1>7. CountInv'
  BY <1>2 DEF SessionInv, CountInv, Counted
<1> QED
  BY <1>1, <1>4, <1>5, <1>6, <1>7 DEF SessionInv, TypeInv

(***************************************************************************)
(* sendResponse adds messages of a command nobody has seen an answer of.   *)
(***************************************************************************)
LEMMA SentIsAwaited ==
  ASSUME SessionInv, server = "serve",
         NEW len \in Nat, NEW k \in Nat, k <= NumMessages(len),
         net' = net \cup SendResponse(len, k),
         UNCHANGED <<pass, pc, responses, answered>>
  PROVE  NetInv'
<1> DEFINE new == SendResponse(len, k)
           c == request.from
<1>1. \A m \in new :
        /\ m.to = c /\ m.ci = commandIndex /\ m.num = NumMessages(len) /\ m.seq \in Nat
        /\ m.data # Empty => m.data.pass = request.pass
        /\ \A n \in new : n.seq = m.seq => n = m
  BY SendResponseFacts DEF SessionInv, Message
<1>2. /\ pc[c] \in {"parse", "quit"} /\ pass[c] = request.pass
      /\ commandIndex \in Indices /\ commandIndex <= LastServed(pass[c])
      /\ commandIndex \notin answered[c] /\ responses[c][commandIndex] = <<>>
      /\ \A m \in net : m.to = c => m.ci < commandIndex
  <2>1. commandIndex \in Indices /\ Indices \subseteq Nat
    BY TypePart, ServedIndex DEF Indices
  <2> QED
    BY <2>1 DEF SessionInv, ServingInv, PlaceInv, Indices
<1>3. commandIndex \in Nat /\ \A m \in net : m.ci \in Nat
  BY DEF SessionInv, TypeOK, Message
<1> HIDE DEF new, c
<1>4. net' = net \cup new
  BY DEF new
<1>5. \A m \in net, n \in new : ~(m.to = n.to /\ m.ci = n.ci)
  BY <1>1, <1>2, <1>3
<1>6. ASSUME NEW m \in new PROVE Awaited(m)
  <2>1. responses[m.to][m.ci] = <<>> /\ m.seq \in Nat
    BY <1>1, <1>2
  <2> QED
    BY <2>1 DEF Awaited
<1>7. ASSUME NEW m \in net'
      PROVE  /\ pc[m.to] \in {"parse", "quit"}
             /\ m.data # Empty => m.data.pass = pass[m.to]
             /\ m.ci \notin answered[m.to]
             /\ m.ci <= LastServed(pass[m.to])
             /\ Awaited(m)
             /\ \A n \in net' : n.to = m.to /\ n.ci = m.ci =>
                  n.num = m.num /\ (n.seq = m.seq => n = m)
  <2>1. CASE m \in net
    BY <1>4, <1>5, <2>1 DEF SessionInv, NetInv
  <2>2. CASE m \in new
    BY <1>1, <1>2, <1>4, <1>5, <1>6, <2>2
  <2> QED
    BY <1>4, <2>1, <2>2
<1> QED
  BY <1>7 DEF NetInv, Awaited

LEMMA ServeCommandSessionInv ==
  ASSUME SessionInv, ServeCommand
  PROVE  SessionInv'
<1>1. TypeInv'
  BY TypePart, ServeCommandTypeInv
<1>2. /\ server = "serve" /\ commandIndex' = commandIndex + 1
      /\ UNCHANGED <<request, requests, pass, pc, numCommands, responses, answered>>
  BY DEF ServeCommand, clientVars
<1>3. PICK len \in BodyLengths[Command] :
        net' = net \cup SendResponse(len, NumMessages(len))
  BY DEF ServeCommand
<1>4. len \in Nat /\ NumMessages(len) \in Nat
  BY TypePart, BodyType, NumMessagesType
<1>5. /\ \A m \in SendResponse(len, NumMessages(len)) :
             m.to = request.from /\ m.ci = commandIndex
      /\ commandIndex \in Nat /\ Indices \subseteq Nat
      /\ \A m \in net : m.ci \in Nat
  <2>1. \A m \in SendResponse(len, NumMessages(len)) :
          m.to = request.from /\ m.ci = commandIndex
    BY <1>4, SendResponseFacts DEF SessionInv
  <2> QED
    BY <2>1 DEF SessionInv, TypeOK, Indices, Message
<1>6. PendingInv'
  BY <1>2, <1>3, <1>5 DEF SessionInv, PendingInv, Serving
<1>7. ServingInv'
  <2> DEFINE c == request.from
  <2>1. /\ pc[c] \in {"parse", "quit"} /\ pass[c] = request.pass
        /\ \A m \in net : m.to = c => m.ci < commandIndex
        /\ \A ci \in Indices : ci >= commandIndex =>
             ci \notin answered[c] /\ responses[c][ci] = <<>>
    BY <1>2 DEF SessionInv, ServingInv
  <2>2. \A m \in net' : m.to = c => m.ci < commandIndex + 1
    BY <1>3, <1>5, <2>1
  <2>3. \A ci \in Indices : ci >= commandIndex + 1 => ci >= commandIndex
    BY <1>5
  <2> QED
    BY <1>2, <2>1, <2>2, <2>3 DEF ServingInv
<1>8. NetInv'
  BY <1>2, <1>3, <1>4, SentIsAwaited
<1>9. CountInv'
  BY <1>2 DEF SessionInv, CountInv, Counted
<1> QED
  BY <1>1, <1>6, <1>7, <1>8, <1>9 DEF SessionInv, TypeInv

LEMMA SkipAnswerSessionInv ==
  ASSUME SessionInv, SkipAnswer
  PROVE  SessionInv'
<1>1. TypeInv'
  BY TypePart, SkipAnswerTypeInv
<1>2. /\ server = "serve" /\ commandIndex' = commandIndex + 1
      /\ UNCHANGED <<request, requests, net, pass, pc, numCommands, responses, answered>>
  BY DEF SkipAnswer, clientVars
<1>3. /\ commandIndex \in Nat /\ Indices \subseteq Nat
      /\ \A m \in net : m.ci \in Nat
  BY DEF SessionInv, TypeOK, Indices, Message
<1>4. PendingInv'
  BY <1>2 DEF SessionInv, PendingInv, Serving
<1>5. ServingInv'
  <2>1. /\ pc[request.from] \in {"parse", "quit"} /\ pass[request.from] = request.pass
        /\ \A m \in net : m.to = request.from => m.ci < commandIndex
        /\ \A ci \in Indices : ci >= commandIndex =>
             ci \notin answered[request.from] /\ responses[request.from][ci] = <<>>
    BY <1>2 DEF SessionInv, ServingInv
  <2>2. \A m \in net : m.to = request.from => m.ci < commandIndex + 1
    BY <1>3, <2>1
  <2>3. \A ci \in Indices : ci >= commandIndex + 1 => ci >= commandIndex
    BY <1>3
  <2> QED
    BY <1>2, <2>1, <2>2, <2>3 DEF ServingInv
<1>6. NetInv'
  BY <1>2 DEF SessionInv, NetInv, Awaited
<1>7. CountInv'
  BY <1>2 DEF SessionInv, CountInv, Counted
<1> QED
  BY <1>1, <1>4, <1>5, <1>6, <1>7 DEF SessionInv, TypeInv

LEMMA ServeFailsSessionInv ==
  ASSUME SessionInv, ServeFails
  PROVE  SessionInv'
<1>1. TypeInv'
  BY TypePart, ServeFailsTypeInv
<1>2. /\ server = "serve" /\ server' = "down"
      /\ UNCHANGED <<request, requests, pass, pc, numCommands, responses, answered>>
  BY DEF ServeFails, clientVars
<1>3. PICK len \in BodyLengths[Command] :
        \E k \in 0..(NumMessages(len) - 1) : net' = net \cup SendResponse(len, k)
  BY DEF ServeFails
<1>4. PICK k \in 0..(NumMessages(len) - 1) : net' = net \cup SendResponse(len, k)
  BY <1>3
<1>5. len \in Nat /\ NumMessages(len) \in Nat
  BY TypePart, BodyType, NumMessagesType
<1>6. k \in Nat /\ k <= NumMessages(len)
  BY <1>5
<1>7. \A m \in SendResponse(len, k) : m.to = request.from
  BY <1>5, <1>6, SendResponseFacts DEF SessionInv
<1>8. PendingInv'
  BY <1>2, <1>4, <1>7 DEF SessionInv, PendingInv, Serving
<1>9. ServingInv'
  BY <1>2 DEF ServingInv
<1>10. NetInv'
  BY <1>2, <1>4, <1>5, <1>6, SentIsAwaited
<1>11. CountInv'
  BY <1>2 DEF SessionInv, CountInv, Counted
<1> QED
  BY <1>1, <1>8, <1>9, <1>10, <1>11 DEF SessionInv, TypeInv

(* A program stops, a datagram is gone: less can only be easier. *)
LEMMA OtherStepsSessionInv ==
  ASSUME SessionInv,
         \/ RefuseCommand \/ ServerStops \/ Lose \/ Discard \/ Terminated
         \/ UNCHANGED vars
  PROVE  SessionInv'
<1>1. TypeInv'
  BY TypePart, OtherStepsTypeInv
<1>2. /\ requests' \subseteq requests /\ net' \subseteq net
      /\ server' = server \/ server' = "down"
      /\ UNCHANGED <<request, commandIndex, pass, pc, numCommands, responses, answered>>
  BY DEF RefuseCommand, ServerStops, Lose, Discard, Terminated, vars,
         serverVars, clientVars, netVars
<1>3. PendingInv'
  BY <1>2 DEF SessionInv, PendingInv, Serving
<1>4. ServingInv'
  BY <1>2 DEF SessionInv, ServingInv
<1>5. NetInv'
  BY <1>2 DEF SessionInv, NetInv, Awaited
<1>6. CountInv'
  BY <1>2 DEF SessionInv, CountInv, Counted
<1> QED
  BY <1>1, <1>3, <1>4, <1>5, <1>6 DEF SessionInv, TypeInv

-----------------------------------------------------------------------------
LEMMA StepSessionInv ==
  ASSUME MaxDup = 0, SessionInv, [Next]_vars
  PROVE  SessionInv'
BY StartPassSessionInv, ReceiveSessionInv, QuitSessionInv,
   ReceiveRequestSessionInv, ServeCommandSessionInv, SkipAnswerSessionInv,
   ServeFailsSessionInv, OtherStepsSessionInv DEF Next, ClientStep, ServerStep, Quits

(***************************************************************************)
(* Whatever the network loses and whatever fails, the client and the       *)
(* server stay in step.                                                    *)
(***************************************************************************)
THEOREM StaysInStep == ASSUME MaxDup = 0 PROVE Spec => []SessionInv
<1>1. Init => SessionInv
  BY InitSessionInv
<1>2. SessionInv /\ [Next]_vars => SessionInv'
  BY StepSessionInv
<1> QED
  BY <1>1, <1>2, PTL DEF Spec

(***************************************************************************)
(* No response reaches a client that is not waiting for it, or in another  *)
(* pass than the one it answers: the constant ID does no harm.             *)
(***************************************************************************)
THEOREM ResponsesAreCurrent == ASSUME MaxDup = 0 PROVE Spec => []NoStaleResponses
<1>1. SessionInv => NoStaleResponses
  BY DEF SessionInv, NetInv, NoStaleResponses
<1> QED
  BY <1>1, StaysInStep, PTL

(***************************************************************************)
(* The server's loop is over by the time parseResponseSequence returns.    *)
(***************************************************************************)
THEOREM ServerInStep == ASSUME MaxDup = 0 PROVE Spec => []ServesCurrentPass
<1>1. SessionInv => ServesCurrentPass
  BY DEF SessionInv, ServingInv, ServesCurrentPass
<1> QED
  BY <1>1, StaysInStep, PTL

(***************************************************************************)
(* numCommands is the number of commands without an answer, and above one  *)
(* as long as the client receives.                                         *)
(***************************************************************************)
THEOREM CountIsRight == ASSUME MaxDup = 0 PROVE Spec => []AnswersCounted
<1>1. SessionInv => AnswersCounted
  BY DEF SessionInv, CountInv, Counted, AnswersCounted
<1> QED
  BY <1>1, StaysInStep, PTL

-----------------------------------------------------------------------------
(***************************************************************************)
(* Responses delivered twice.  First, how many elements of a set are to    *)
(* spare when one for each key not in R is put aside.                      *)
(***************************************************************************)
LEMMA KeysFinite ==
  ASSUME NEW S, IsFiniteSet(S)
  PROVE  /\ IsFiniteSet(Keys(S)) /\ Cardinality(Keys(S)) <= Cardinality(S)
         /\ Cardinality(Keys(S)) \in Nat /\ Cardinality(S) \in Nat
<1> DEFINE f == [x \in S |-> x[1]]
<1>1. f \in Surjection(S, Keys(S))
  BY DEF Surjection, Keys
<1> HIDE DEF f
<1>2. IsFiniteSet(Keys(S)) /\ Cardinality(Keys(S)) <= Cardinality(S)
  BY <1>1, FS_Surjection
<1> QED
  BY <1>2, FS_CardinalityType

LEMMA SpareType ==
  ASSUME NEW S, NEW R, IsFiniteSet(S)
  PROVE  /\ IsFiniteSet(Keys(S) \ R) /\ Cardinality(Keys(S) \ R) \in Nat
         /\ Cardinality(S) \in Nat
         /\ Spare(S, R) \in Nat
<1>1. /\ IsFiniteSet(Keys(S)) /\ Cardinality(Keys(S)) <= Cardinality(S)
      /\ Cardinality(Keys(S)) \in Nat /\ Cardinality(S) \in Nat
  BY KeysFinite
<1>2. (Keys(S) \ R) \in SUBSET Keys(S)
  OBVIOUS
<1>3. IsFiniteSet(Keys(S) \ R) /\ Cardinality(Keys(S) \ R) <= Cardinality(Keys(S))
  BY <1>1, <1>2, FS_Subset
<1>4. Cardinality(Keys(S) \ R) \in Nat
  BY <1>3, FS_CardinalityType
<1> QED
  BY <1>1, <1>3, <1>4 DEF Spare

LEMMA UnionBound ==
  ASSUME NEW S, NEW T, IsFiniteSet(S), IsFiniteSet(T)
  PROVE  /\ IsFiniteSet(S \cup T) /\ Cardinality(S \cup T) \in Nat
         /\ Cardinality(S) \in Nat /\ Cardinality(T) \in Nat
         /\ Cardinality(S \cup T) <= Cardinality(S) + Cardinality(T)
<1>1. /\ IsFiniteSet(S \cup T)
      /\ Cardinality(S \cup T) = Cardinality(S) + Cardinality(T) - Cardinality(S \cap T)
  BY FS_Union
<1>2. Cardinality(S \cap T) \in Nat
  BY FS_Intersection, FS_CardinalityType
<1> QED
  BY <1>1, <1>2, FS_CardinalityType

LEMMA SpareOfFewer ==
  ASSUME NEW S, NEW T \in SUBSET S, NEW R, IsFiniteSet(S)
  PROVE  IsFiniteSet(T) /\ Spare(T, R) <= Spare(S, R)
<1> DEFINE U == S \ T
           A == Keys(S) \ R
           B == Keys(T) \ R
           C == Keys(U)
<1>1. IsFiniteSet(T) /\ IsFiniteSet(U)
  BY FS_Subset, FS_Difference
<1>2. Cardinality(S) = Cardinality(T) + Cardinality(U)
  <2>1. S = T \cup U /\ T \cap U = {}
    OBVIOUS
  <2> HIDE DEF U
  <2>2. Cardinality(T \cup U) = Cardinality(T) + Cardinality(U) - Cardinality(T \cap U)
    BY <1>1, FS_Union
  <2>3. Cardinality(T) \in Nat /\ Cardinality(U) \in Nat
    BY <1>1, FS_CardinalityType
  <2>4. Cardinality(T \cap U) = 0
    BY <2>1, FS_EmptySet
  <2>5. Cardinality(S) = Cardinality(T \cup U)
    BY <2>1
  <2> QED
    BY <2>2, <2>3, <2>4, <2>5
<1>3. A \in SUBSET (B \cup C)
  BY DEF Keys
<1>4. /\ Spare(S, R) = Cardinality(S) - Cardinality(A)
      /\ Spare(T, R) = Cardinality(T) - Cardinality(B)
  BY DEF Spare
<1>5. /\ IsFiniteSet(A) /\ IsFiniteSet(B) /\ IsFiniteSet(C)
      /\ Cardinality(C) <= Cardinality(U)
  BY <1>1, SpareType, KeysFinite
<1> HIDE DEF U, A, B, C
<1>6. Cardinality(A) <= Cardinality(B \cup C)
  <2>1. IsFiniteSet(B \cup C)
    BY <1>5, UnionBound
  <2> QED
    BY <1>3, <2>1, FS_Subset
<1>7. Cardinality(B \cup C) <= Cardinality(B) + Cardinality(C)
  BY <1>5, UnionBound
<1>8. /\ Cardinality(A) \in Nat /\ Cardinality(B) \in Nat /\ Cardinality(C) \in Nat
      /\ Cardinality(B \cup C) \in Nat
      /\ Cardinality(S) \in Nat /\ Cardinality(T) \in Nat /\ Cardinality(U) \in Nat
  BY <1>1, <1>5, UnionBound, FS_CardinalityType
<1> QED
  BY <1>1, <1>2, <1>4, <1>5, <1>6, <1>7, <1>8

(* Another set and another R, compared by their parts. *)
LEMMA SpareBound ==
  ASSUME NEW S, NEW T, NEW R, NEW Q, IsFiniteSet(S), IsFiniteSet(T), NEW k \in Int,
         NEW A, A \subseteq Keys(T) \ Q,
         Cardinality(T) - Cardinality(A) <= Cardinality(S) - Cardinality(Keys(S) \ R) + k
  PROVE  Spare(T, Q) <= Spare(S, R) + k
<1> DEFINE B == Keys(T) \ Q
<1>1. IsFiniteSet(B) /\ Cardinality(B) \in Nat /\ Cardinality(T) \in Nat
  BY SpareType
<1>2. Spare(T, Q) = Cardinality(T) - Cardinality(B)
  BY DEF Spare
<1>3. A \in SUBSET B
  OBVIOUS
<1> HIDE DEF B
<1>4. Cardinality(A) <= Cardinality(B) /\ Cardinality(A) \in Nat
  BY <1>1, <1>3, FS_Subset, FS_CardinalityType
<1>5. /\ Spare(S, R) = Cardinality(S) - Cardinality(Keys(S) \ R)
      /\ Cardinality(S) \in Nat /\ Cardinality(Keys(S) \ R) \in Nat
  BY SpareType DEF Spare
<1> QED
  BY <1>1, <1>2, <1>4, <1>5

(* Keys can be dropped one by one. *)
LEMMA KeysWithout ==
  ASSUME NEW S, NEW R, NEW k, IsFiniteSet(S)
  PROVE  /\ Keys(S) \ (R \cup {k}) = (Keys(S) \ R) \ {k}
         /\ Cardinality((Keys(S) \ R) \ {k}) >= Cardinality(Keys(S) \ R) - 1
         /\ Cardinality((Keys(S) \ R) \ {k}) \in Nat
<1> DEFINE A == Keys(S) \ R
<1>1. Keys(S) \ (R \cup {k}) = A \ {k}
  OBVIOUS
<1>2. IsFiniteSet(A) /\ Cardinality(A) \in Nat
  BY SpareType
<1> HIDE DEF A
<1>3. /\ IsFiniteSet(A \ {k}) /\ Cardinality(A \ {k}) >= Cardinality(A) - 1
  BY <1>2, FS_RemoveElement
<1>4. Cardinality(A \ {k}) \in Nat
  BY <1>3, FS_CardinalityType
<1> QED
  BY <1>1, <1>3, <1>4 DEF A

(* One element more. *)
LEMMA SpareOfOneMore ==
  ASSUME NEW S, NEW x, NEW T \in SUBSET (S \cup {x}), NEW R, IsFiniteSet(S)
  PROVE  IsFiniteSet(T) /\ Spare(T, R) <= Spare(S, R) + 1
<1> DEFINE V == S \cup {x}
           A == Keys(S) \ R
<1>1. /\ IsFiniteSet(V) /\ Cardinality(V) <= Cardinality(S) + 1
      /\ Cardinality(A) \in Nat /\ Cardinality(S) \in Nat /\ Cardinality(V) \in Nat
  <2>1. /\ IsFiniteSet({x}) /\ Cardinality({x}) = 1
    BY FS_Singleton
  <2> QED
    BY <2>1, UnionBound, SpareType
<1>2. A \subseteq Keys(V) \ R
  BY DEF Keys
<1>3. Cardinality(V) - Cardinality(A) <= Cardinality(S) - Cardinality(Keys(S) \ R) + 1
  BY <1>1
<1>4. T \in SUBSET V
  OBVIOUS
<1> HIDE DEF V, A
<1>5. Spare(V, R) <= Spare(S, R) + 1
  BY <1>1, <1>2, <1>3, SpareBound
<1>6. IsFiniteSet(T) /\ Spare(T, R) <= Spare(V, R)
  BY <1>1, <1>4, SpareOfFewer
<1>7. Spare(T, R) \in Nat /\ Spare(V, R) \in Nat /\ Spare(S, R) \in Nat
  BY <1>1, <1>6, SpareType
<1> QED
  BY <1>5, <1>6, <1>7

(* An element in place of another with the same key. *)
LEMMA SpareOfAnother ==
  ASSUME NEW S, NEW y \in S, NEW x, x[1] = y[1],
         NEW T \in SUBSET ((S \ {y}) \cup {x}), NEW R, IsFiniteSet(S)
  PROVE  IsFiniteSet(T) /\ Spare(T, R) <= Spare(S, R)
<1> DEFINE V == (S \ {y}) \cup {x}
           A == Keys(S) \ R
<1>1. /\ IsFiniteSet(V) /\ Cardinality(V) <= Cardinality(S)
      /\ Cardinality(A) \in Nat /\ Cardinality(S) \in Nat /\ Cardinality(V) \in Nat
  <2>1. /\ IsFiniteSet({x}) /\ Cardinality({x}) = 1
    BY FS_Singleton
  <2>2. IsFiniteSet(S \ {y}) /\ Cardinality(S \ {y}) = Cardinality(S) - 1
    BY FS_RemoveElement
  <2>3. Cardinality(A) \in Nat /\ Cardinality(S) \in Nat
    BY SpareType
  <2>4. /\ IsFiniteSet(V) /\ Cardinality(V) \in Nat
        /\ Cardinality(V) <= Cardinality(S \ {y}) + Cardinality({x})
    BY <2>1, <2>2, UnionBound
  <2> QED
    BY <2>1, <2>2, <2>3, <2>4
<1>2. A \subseteq Keys(V) \ R
  BY DEF Keys
<1>3. Cardinality(V) - Cardinality(A) <= Cardinality(S) - Cardinality(Keys(S) \ R) + 0
  BY <1>1
<1>4. T \in SUBSET V
  OBVIOUS
<1> HIDE DEF V, A
<1>5. Spare(V, R) <= Spare(S, R) + 0
  BY <1>1, <1>2, <1>3, SpareBound
<1>6. IsFiniteSet(T) /\ Spare(T, R) <= Spare(V, R)
  BY <1>1, <1>4, SpareOfFewer
<1>7. Spare(T, R) \in Nat /\ Spare(V, R) \in Nat /\ Spare(S, R) \in Nat
  BY <1>1, <1>6, SpareType
<1> QED
  BY <1>5, <1>6, <1>7

(* An element is used up, its key new to R or not. *)
LEMMA SpareOfUsed ==
  ASSUME NEW S, NEW y \in S, NEW T \in SUBSET (S \ {y}), NEW R, IsFiniteSet(S)
  PROVE  /\ IsFiniteSet(T)
         /\ y[1] \in R => Spare(T, R) <= Spare(S, R) - 1
         /\ y[1] \notin R => Spare(T, R \cup {y[1]}) <= Spare(S, R)
<1> DEFINE V == S \ {y}
           A == Keys(S) \ R
<1>1. /\ IsFiniteSet(V) /\ Cardinality(V) = Cardinality(S) - 1
      /\ Cardinality(A) \in Nat /\ Cardinality(S) \in Nat /\ Cardinality(V) \in Nat
  <2>1. IsFiniteSet(V) /\ Cardinality(V) = Cardinality(S) - 1
    BY FS_RemoveElement
  <2>2. Cardinality(A) \in Nat /\ Cardinality(S) \in Nat /\ Cardinality(V) \in Nat
    BY <2>1, SpareType
  <2> QED
    BY <2>1, <2>2
<1>2. T \in SUBSET V
  OBVIOUS
<1>3. ASSUME y[1] \in R PROVE Spare(V, R) <= Spare(S, R) + (-1)
  <2>1. A \subseteq Keys(V) \ R
    BY <1>3 DEF Keys
  <2>2. /\ Cardinality(V) - Cardinality(A) <= Cardinality(S) - Cardinality(Keys(S) \ R) + (-1)
        /\ -1 \in Int
    BY <1>1
  <2> HIDE DEF V, A
  <2> QED
    BY <1>1, <2>1, <2>2, SpareBound
<1>4. Spare(V, R \cup {y[1]}) <= Spare(S, R) + 0
  <2>1. A \ {y[1]} \subseteq Keys(V) \ (R \cup {y[1]})
    BY DEF Keys
  <2>2. Cardinality(A \ {y[1]}) >= Cardinality(A) - 1 /\ Cardinality(A \ {y[1]}) \in Nat
    BY KeysWithout
  <2>3. Cardinality(V) - Cardinality(A \ {y[1]})
          <= Cardinality(S) - Cardinality(Keys(S) \ R) + 0
    BY <1>1, <2>2
  <2> HIDE DEF V, A
  <2> QED
    BY <1>1, <2>1, <2>3, SpareBound
<1> HIDE DEF V
<1>5. \A Q : IsFiniteSet(T) /\ Spare(T, Q) <= Spare(V, Q)
  BY <1>1, <1>2, SpareOfFewer
<1>6. \A Q : Spare(T, Q) \in Nat /\ Spare(V, Q) \in Nat /\ Spare(S, Q) \in Nat
  BY <1>1, <1>5, SpareType
<1> QED
  BY <1>3, <1>4, <1>5, <1>6

(* A key is new to R, and nothing may have been used up. *)
LEMMA SpareOfDouble ==
  ASSUME NEW S, NEW T \in SUBSET S, NEW R, NEW k, IsFiniteSet(S)
  PROVE  IsFiniteSet(T) /\ Spare(T, R \cup {k}) <= Spare(S, R) + 1
<1>1. IsFiniteSet(T) /\ Spare(T, R \cup {k}) <= Spare(S, R \cup {k})
  BY SpareOfFewer
<1>2. Spare(S, R \cup {k}) <= Spare(S, R) + 1
  <2>1. /\ Keys(S) \ (R \cup {k}) = (Keys(S) \ R) \ {k}
        /\ Cardinality((Keys(S) \ R) \ {k}) >= Cardinality(Keys(S) \ R) - 1
        /\ Cardinality((Keys(S) \ R) \ {k}) \in Nat
    BY KeysWithout
  <2>2. Cardinality(S) \in Nat /\ Cardinality(Keys(S) \ R) \in Nat
    BY SpareType
  <2>3. /\ Spare(S, R \cup {k}) = Cardinality(S) - Cardinality((Keys(S) \ R) \ {k})
        /\ Spare(S, R) = Cardinality(S) - Cardinality(Keys(S) \ R)
    BY <2>1, Zenon DEF Spare
  <2> QED
    BY <2>1, <2>2, <2>3
<1>3. /\ Spare(T, R \cup {k}) \in Nat /\ Spare(S, R \cup {k}) \in Nat
      /\ Spare(S, R) \in Nat
  BY <1>1, SpareType
<1> QED
  BY <1>1, <1>2, <1>3

(* A pass begins: each of its commands has a key. *)
LEMMA SpareAtStart ==
  ASSUME NEW S, NEW F, NEW n \in Nat, IsFiniteSet(S), IsFiniteSet(F),
         Cardinality(F) <= n + 1, 0..n \subseteq Keys(F), NEW T \in SUBSET (S \cup F)
  PROVE  IsFiniteSet(T) /\ Spare(T, {}) <= Cardinality(S)
<1> DEFINE V == S \cup F
           A == 0..n
<1>1. IsFiniteSet(A) /\ Cardinality(A) = n + 1
  BY FS_Interval
<1>2. /\ IsFiniteSet(V) /\ Cardinality(V) \in Nat /\ Cardinality(S) \in Nat
      /\ Cardinality(F) \in Nat /\ Cardinality(V) <= Cardinality(S) + Cardinality(F)
  BY UnionBound
<1>3. A \in SUBSET (Keys(V) \ {})
  BY DEF Keys
<1>4. T \in SUBSET V
  OBVIOUS
<1> HIDE DEF V, A
<1>5. /\ IsFiniteSet(Keys(V) \ {}) /\ Cardinality(Keys(V) \ {}) \in Nat
      /\ Spare(V, {}) = Cardinality(V) - Cardinality(Keys(V) \ {})
  BY <1>2, SpareType DEF Spare
<1>6. Cardinality(A) <= Cardinality(Keys(V) \ {})
  BY <1>3, <1>5, FS_Subset
<1>7. IsFiniteSet(T) /\ Spare(T, {}) <= Spare(V, {})
  BY <1>2, <1>4, SpareOfFewer
<1>8. Spare(T, {}) \in Nat
  BY <1>7, SpareType
<1> QED
  BY <1>1, <1>2, <1>5, <1>6, <1>7, <1>8

(* A pass ends: what is left, if the keys are among 0..n. *)
LEMMA SpareAtEnd ==
  ASSUME NEW S, NEW R, NEW n \in Nat, IsFiniteSet(S),
         Keys(S) \subseteq 0..n, R \subseteq 0..n
  PROVE  /\ Cardinality(R) \in Nat /\ Cardinality(S) \in Nat
         /\ Cardinality(S) <= Spare(S, R) + (n + 1) - Cardinality(R)
<1> DEFINE A == Keys(S) \ R
           U == 0..n
<1>1. IsFiniteSet(U) /\ Cardinality(U) = n + 1
  BY FS_Interval
<1>2. A \in SUBSET (U \ R) /\ R \in SUBSET U /\ U \cap R = R
  OBVIOUS
<1>3. Spare(S, R) = Cardinality(S) - Cardinality(A)
  BY DEF Spare
<1>4. Cardinality(A) \in Nat /\ Cardinality(S) \in Nat
  BY SpareType
<1> HIDE DEF A, U
<1>5. IsFiniteSet(R) /\ Cardinality(R) \in Nat
  BY <1>1, <1>2, FS_Subset, FS_CardinalityType
<1>6. IsFiniteSet(U \ R) /\ Cardinality(U \ R) = n + 1 - Cardinality(R)
  <2>1. /\ IsFiniteSet(U \ R)
        /\ Cardinality(U \ R) = Cardinality(U) - Cardinality(U \cap R)
    BY <1>1, FS_Difference
  <2>2. Cardinality(U \cap R) = Cardinality(R)
    BY <1>2
  <2> QED
    BY <1>1, <1>5, <2>1, <2>2
<1>7. Cardinality(A) <= Cardinality(U \ R)
  BY <1>2, <1>6, FS_Subset
<1> QED
  BY <1>3, <1>4, <1>5, <1>6, <1>7

(***************************************************************************)
(* The first chunks in a state, and in the state after a step.             *)
(***************************************************************************)
LEMMA SupplyParts ==
  ASSUME TypeOK, NEW c \in Clients
  PROVE  /\ \A x \in SentTo(c) : \E m \in net : /\ m.to = c /\ m.seq = 0
                                                /\ x = <<m.ci, "sent", m>>
         /\ \A m \in net : m.to = c /\ m.seq = 0 => <<m.ci, "sent", m>> \in Supply(c)
         /\ \A i \in Indices : responses[c][i] # <<>> /\ responses[c][i][1] # Empty =>
              <<i, "kept", 0>> \in Supply(c)
         /\ \A i \in Indices : \A p \in Pass : IsDue(c, p, i) =>
              <<i, "due", p>> \in Supply(c)
<1>1. /\ \A x \in SentTo(c) : \E m \in net : /\ m.to = c /\ m.seq = 0
                                             /\ x = <<m.ci, "sent", m>>
      /\ \A m \in net : m.to = c /\ m.seq = 0 => <<m.ci, "sent", m>> \in SentTo(c)
  BY DEF SentTo
<1>2. \A i \in Indices : responses[c][i] # <<>> /\ responses[c][i][1] # Empty =>
        <<i, "kept", 0>> \in Kept(c)
  BY DEF Kept
<1>3. \A i \in Indices : \A p \in Pass : IsDue(c, p, i) => <<i, "due", p>> \in Due(c)
  <2> SUFFICES ASSUME NEW i \in Indices, NEW p \in Pass, IsDue(c, p, i)
               PROVE  <<i, "due", p>> \in Due(c)
    OBVIOUS
  <2>1. PICK x \in Indices \X {"due"} \X Pass : x = <<i, "due", p>>
    OBVIOUS
  <2>2. x[1] = i /\ x[3] = p
    BY <2>1
  <2> QED
    BY <2>1, <2>2 DEF Due
<1> QED
  BY <1>1, <1>2, <1>3 DEF Supply

LEMMA IndicesFinite == IsFiniteSet(Indices) /\ IsFiniteSet(Pass)
<1>1. 0 \in Int /\ 1 \in Int /\ 2 \in Int /\ NumCommands(1) - 1 \in Int
  BY NumCommandsRange DEF Pass
<1> QED
  BY <1>1, FS_Interval DEF Indices, Pass

LEMMA SupplyFinite ==
  ASSUME IsFiniteSet(net), NEW c \in Clients
  PROVE  IsFiniteSet(Supply(c))
<1>1. IsFiniteSet(SentTo(c))
  <2> DEFINE D == {k \in net : k.to = c /\ k.seq = 0}
             f == [m \in D |-> <<m.ci, "sent", m>>]
  <2>1. D \in SUBSET net
    OBVIOUS
  <2>2. f \in Surjection(D, SentTo(c))
    BY DEF Surjection, SentTo
  <2> HIDE DEF D, f
  <2>3. IsFiniteSet(D)
    BY <2>1, FS_Subset
  <2> QED
    BY <2>2, <2>3, FS_Surjection
<1>2. IsFiniteSet(Kept(c))
  <2> DEFINE D == {j \in Indices : responses[c][j] # <<>> /\ responses[c][j][1] # Empty}
             f == [i \in D |-> <<i, "kept", 0>>]
  <2>1. D \in SUBSET Indices
    OBVIOUS
  <2>2. f \in Surjection(D, Kept(c))
    BY DEF Surjection, Kept
  <2> HIDE DEF D, f
  <2>3. IsFiniteSet(D)
    BY <2>1, IndicesFinite, FS_Subset
  <2> QED
    BY <2>2, <2>3, FS_Surjection
<1>3. IsFiniteSet(Due(c))
  <2> DEFINE D == Indices \X Pass
             E == Indices \X {"due"} \X Pass
             f == [x \in D |-> <<x[1], "due", x[2]>>]
  <2>1. IsFiniteSet(D)
    BY IndicesFinite, FS_Product
  <2>2. f \in Surjection(D, E)
    <3>1. f \in [D -> E]
      OBVIOUS
    <3>2. ASSUME NEW y \in E PROVE \E x \in D : f[x] = y
      <4>1. PICK i \in Indices, p \in Pass : y = <<i, "due", p>>
        OBVIOUS
      <4>2. <<i, p>> \in D /\ f[<<i, p>>] = y
        BY <4>1
      <4> QED
        BY <4>2
    <3> QED
      BY <3>1, <3>2 DEF Surjection
  <2>3. Due(c) \in SUBSET E
    BY DEF Due
  <2> HIDE DEF D, E, f
  <2>4. IsFiniteSet(E)
    BY <2>1, <2>2, FS_Surjection
  <2> QED
    BY <2>3, <2>4, FS_Subset
<1> QED
  BY <1>1, <1>2, <1>3, FS_Union DEF Supply

(* Numbers the balance is struck with. *)
LEMMA BalanceTypes ==
  ASSUME TypeOK, NoTraceOfLast, NEW c \in Clients
  PROVE  /\ dups \in Nat /\ numCommands[c] \in Int /\ pass[c] \in Pass
         /\ NumCommands(pass[c]) \in Nat
         /\ IsFiniteSet(answered[c]) /\ Cardinality(answered[c]) \in Nat
         /\ CountedTwice(c) =
              NumCommands(pass[c]) - numCommands[c] - Cardinality(answered[c])
         /\ CountedTwice(c) \in Int
<1>1. /\ dups \in Nat /\ numCommands[c] \in Int /\ pass[c] \in Pass
      /\ NumCommands(pass[c]) \in Nat
  <2>1. dups \in Nat /\ numCommands[c] \in Int /\ pass[c] \in Pass
    BY DEF TypeOK
  <2>2. \A p \in Pass : NumCommands(p) \in Nat
    BY SidesRange
  <2> QED
    BY <2>1, <2>2
<1>2. IsFiniteSet(answered[c]) /\ Cardinality(answered[c]) \in Nat
  <2>1. answered[c] \in SUBSET (0..LastServed(1))
    BY DEF NoTraceOfLast
  <2>2. 1 \in Pass
    BY DEF Pass
  <2> QED
    BY <2>1, <2>2, AnsweredType
<1>3. CountedTwice(c) =
        NumCommands(pass[c]) - numCommands[c] - Cardinality(answered[c])
  BY DEF CountedTwice
<1> QED
  BY <1>1, <1>2, <1>3

(* With no more first chunks the balance stays. *)
LEMMA FewerBalanced ==
  ASSUME TypeOK, NoTraceOfLast, IsFiniteSet(net), NEW c \in Clients, Balanced(c),
         Supply(c)' \subseteq Supply(c),
         pc'[c] = pc[c] \/ pc'[c] \in {"done", "quit"},
         pass'[c] = pass[c], answered'[c] = answered[c], numCommands'[c] = numCommands[c],
         dups' \in Nat, dups <= dups'
  PROVE  Balanced(c)'
<1>1. PICK S, T, R : S = Supply(c) /\ T = Supply(c)' /\ R = answered[c]
  OBVIOUS
<1>2. IsFiniteSet(S) /\ T \in SUBSET S
  BY <1>1, SupplyFinite
<1>3. /\ IsFiniteSet(T) /\ Cardinality(T) <= Cardinality(S)
      /\ Spare(T, R) <= Spare(S, R)
  BY <1>2, FS_Subset, SpareOfFewer
<1>4. /\ Cardinality(T) \in Nat /\ Cardinality(S) \in Nat
      /\ Spare(T, R) \in Nat /\ Spare(S, R) \in Nat
  BY <1>2, <1>3, SpareType
<1>5. CountedTwice(c)' = CountedTwice(c)
  BY DEF CountedTwice
<1>6. CountedTwice(c) \in Int /\ dups \in Nat
  BY BalanceTypes
<1>7. /\ pc[c] = "send" => Cardinality(S) <= dups
      /\ pc[c] = "parse" => CountedTwice(c) + Spare(S, R) <= dups
  BY <1>1 DEF Balanced
<1>8. pc'[c] = "send" => Cardinality(T) <= dups'
  BY <1>3, <1>4, <1>6, <1>7
<1>9. pc'[c] = "parse" => CountedTwice(c)' + Spare(T, R) <= dups'
  <2>1. PICK k \in Int : k = CountedTwice(c) /\ k = CountedTwice(c)'
    BY <1>5, <1>6
  <2> QED
    BY <1>3, <1>4, <1>6, <1>7, <2>1
<1> QED
  BY <1>1, <1>8, <1>9 DEF Balanced

(* The steps of programs and network that send and store nothing. *)
LEMMA OtherStepsSupply ==
  ASSUME TypeOK, NEW c \in Clients,
         net' \subseteq net, requests' \subseteq requests,
         server' = server \/ server' = "down",
         UNCHANGED <<request, commandIndex, responses>>
  PROVE  Supply(c)' \subseteq Supply(c)
<1>1. SentTo(c)' \subseteq SentTo(c)
  BY DEF SentTo
<1>2. Kept(c)' = Kept(c)
  BY DEF Kept
<1>3. \A p \in Pass : \A i \in Indices : IsDue(c, p, i)' => IsDue(c, p, i)
  BY DEF IsDue, Serving
<1>4. Due(c)' \subseteq Due(c)
  BY <1>3 DEF Due
<1> QED
  BY <1>1, <1>2, <1>4 DEF Supply

(* A request on its way or being served: its commands are due either way. *)
LEMMA ReceiveRequestSupply ==
  ASSUME TypeOK, NEW c \in Clients, ReceiveRequest
  PROVE  Supply(c)' \subseteq Supply(c)
<1>1. PICK r \in requests : request' = r /\ requests' = requests \ {r}
  BY DEF ReceiveRequest
<1>2. UNCHANGED <<net, responses>> /\ commandIndex' = 0 /\ server' = "serve"
  BY DEF ReceiveRequest, clientVars
<1>3. SentTo(c)' = SentTo(c) /\ Kept(c)' = Kept(c)
  BY <1>2 DEF SentTo, Kept
<1>4. \A p \in Pass : \A i \in Indices : IsDue(c, p, i)' => IsDue(c, p, i)
  BY <1>1, <1>2 DEF IsDue, Serving
<1>5. Due(c)' \subseteq Due(c)
  BY <1>4 DEF Due
<1> QED
  BY <1>3, <1>5 DEF Supply

(* A client asks for the commands of its next pass, and others do not. *)
LEMMA StartPassSupply ==
  ASSUME TypeOK, NEW c \in Clients, NEW d \in Clients, StartPass(d)
  PROVE  /\ c # d => Supply(c)' \subseteq Supply(c)
         /\ Supply(d)' \subseteq
              Supply(d) \cup {<<i, "due", pass[d]>> : i \in 0..LastServed(pass[d])}
<1>1. /\ requests' = requests \cup {[from |-> d, pass |-> pass[d],
                                     bytes |-> SentBytes(pass[d], robotIDLen[d])]}
      /\ UNCHANGED <<net, responses, server, request, commandIndex>>
  BY DEF StartPass, serverVars
<1>2. \A b \in Clients : SentTo(b)' = SentTo(b) /\ Kept(b)' = Kept(b)
  BY <1>1 DEF SentTo, Kept
<1>3. \A b \in Clients : \A p \in Pass : \A i \in Indices :
        IsDue(b, p, i)' => \/ IsDue(b, p, i)
                           \/ b = d /\ p = pass[d] /\ i <= LastServed(p)
  BY <1>1 DEF IsDue, Serving
<1>4. c # d => Due(c)' \subseteq Due(c)
  BY <1>3 DEF Due
<1>5. Due(d)' \subseteq Due(d) \cup {<<i, "due", pass[d]>> : i \in 0..LastServed(pass[d])}
  <2> SUFFICES ASSUME NEW x \in Due(d)', x \notin Due(d)
               PROVE  \E i \in 0..LastServed(pass[d]) : x = <<i, "due", pass[d]>>
    OBVIOUS
  <2>1. PICK i \in Indices, p \in Pass : x = <<i, "due", p>>
    BY DEF Due
  <2>2. x[1] = i /\ x[3] = p /\ x \in Indices \X {"due"} \X Pass
    BY <2>1
  <2>3. IsDue(d, p, i)' /\ ~IsDue(d, p, i)
    BY <2>2 DEF Due
  <2>4. p = pass[d] /\ i <= LastServed(p)
    BY <1>3, <2>3
  <2>5. i \in 0..LastServed(p)
    BY <2>4, LastServedType, NumCommandsRange DEF Indices
  <2> QED
    BY <2>1, <2>4, <2>5
<1> QED
  BY <1>2, <1>4, <1>5 DEF Supply

(* What the server sends of its command takes the place of what was due. *)
LEMMA ServeSupply ==
  ASSUME TypeInv, RequestInv, NEW c \in Clients,
         server = "serve", NEW len \in Nat, NEW k \in Nat, k <= NumMessages(len),
         net' = net \cup SendResponse(len, k),
         server' = "down" \/ commandIndex' = commandIndex + 1,
         UNCHANGED <<request, requests, responses>>
  PROVE  \/ Supply(c)' \subseteq Supply(c)
         \/ \E y \in Supply(c) : \E x :
              x[1] = y[1] /\ Supply(c)' \subseteq (Supply(c) \ {y}) \cup {x}
<1>1. /\ commandIndex \in Nat /\ request.pass \in Pass /\ request.from \in Clients
      /\ commandIndex <= LastServed(request.pass)
  BY DEF TypeInv, TypeOK, PlaceInv, Request
<1>2. commandIndex \in Indices
  BY <1>1, NumCommandsRange, LastServedType DEF Indices
<1>3. /\ \A m \in SendResponse(len, k) : m.to = request.from /\ m.ci = commandIndex
      /\ \A m, n \in SendResponse(len, k) : n.seq = m.seq => n = m
  BY SendResponseFacts DEF TypeInv
<1>4. Kept(c)' = Kept(c)
  BY DEF Kept
<1>5. \A p \in Pass : \A i \in Indices : IsDue(c, p, i)' => IsDue(c, p, i)
  BY <1>1 DEF IsDue, Serving, Indices
<1>6. Due(c)' \subseteq Due(c)
  BY <1>5 DEF Due
<1>7. CASE \A m \in SendResponse(len, k) : m.to # c \/ m.seq # 0
  <2>1. SentTo(c)' \subseteq SentTo(c)
    BY <1>7 DEF SentTo
  <2> QED
    BY <1>4, <1>6, <2>1 DEF Supply
<1>8. CASE \E m \in SendResponse(len, k) : m.to = c /\ m.seq = 0
  <2>1. PICK m \in SendResponse(len, k) : m.to = c /\ m.seq = 0
    BY <1>8
  <2>2. request.from = c /\ m.ci = commandIndex
    BY <1>3, <2>1
  <2>3. PICK i \in Indices, p \in Pass : i = commandIndex /\ p = request.pass
    BY <1>1, <1>2
  <2>4. PICK x : x = <<i, "sent", m>>
    OBVIOUS
  <2>5. PICK y \in Indices \X {"due"} \X Pass : y = <<i, "due", p>>
    OBVIOUS
  <2>6. x[1] = i /\ y[1] = i /\ y[2] = "due" /\ y[3] = p /\ x[2] = "sent"
    BY <2>4, <2>5
  <2>7. SentTo(c)' \subseteq SentTo(c) \cup {x}
    BY <1>3, <2>1, <2>2, <2>3, <2>4 DEF SentTo
  <2>8. IsDue(c, p, i)
    BY <1>1, <2>2, <2>3 DEF IsDue, Serving
  <2>9. y \in Supply(c)
    BY <2>6, <2>8 DEF Due, Supply
  <2>10. ~IsDue(c, p, i)'
    BY <1>1, <2>2, <2>3 DEF IsDue, Serving, RequestInv
  <2>11. y \notin Due(c)'
    BY <2>6, <2>10 DEF Due
  <2>12. \A z \in SentTo(c) \cup Kept(c) : z # y
    <3>1. \A z \in SentTo(c) \cup Kept(c) : z[2] # "due"
      BY DEF SentTo, Kept
    <3> QED
      BY <2>6, <3>1
  <2>13. Supply(c)' \subseteq (Supply(c) \ {y}) \cup {x}
    BY <1>4, <1>6, <2>7, <2>11, <2>12 DEF Supply
  <2> QED
    BY <2>6, <2>9, <2>13
<1> QED
  BY <1>7, <1>8

(* The first place of a vector a message is stored in. *)
LEMMA StoredFirst ==
  ASSUME TypeOK, NEW m \in net, NEW old, old = responses[m.to][m.ci],
         NEW vec, vec = Store(old, m)
  PROVE  /\ vec # <<>>
         /\ IsVectorFull(vec) => vec[1] # Empty
         /\ m.seq # 0 /\ vec[1] # Empty => old # <<>> /\ old[1] # Empty
<1>1. /\ m \in Message /\ m.seq < m.num /\ m.num \in Nat /\ m.seq \in Nat
      /\ old \in Seq(Chunk)
  BY DEF TypeOK, Message
<1>2. /\ vec \in Seq(Chunk) /\ m.num <= Len(vec)
      /\ \A i \in 1..Len(vec) :
           vec[i] = IF i = m.seq + 1 THEN m.data
                    ELSE IF i <= Len(old) THEN old[i] ELSE Empty
  BY <1>1, StoreFacts
<1>3. Len(vec) \in Nat /\ Len(old) \in Nat
  BY <1>1, <1>2
<1>4. 1 \in 1..Len(vec)
  BY <1>1, <1>2, <1>3
<1>5. vec # <<>>
  BY <1>4
<1>6. vec[1] = IF 1 = m.seq + 1 THEN m.data
               ELSE IF 1 <= Len(old) THEN old[1] ELSE Empty
  BY <1>2, <1>4
<1>7. Len(old) >= 1 => old # <<>>
  OBVIOUS
<1> QED
  BY <1>1, <1>3, <1>4, <1>5, <1>6, <1>7 DEF IsVectorFull

(* What a client that receives message m may count by before and after. *)
LEMMA ReceiveSupply ==
  ASSUME TypeOK, NEW m \in net, NEW d \in Clients, m.to = d, Deliver(m),
         KeepChunk(d, m) \/ CompleteResponse(d, m),
         UNCHANGED <<serverVars, requests>>
  PROVE  /\ \A c \in Clients \ {d} : Supply(c)' \subseteq Supply(c)
         /\ KeepChunk(d, m) /\ net' = net \ {m} =>
              \/ Supply(d)' \subseteq Supply(d)
              \/ \E y \in Supply(d) : \E x :
                   x[1] = y[1] /\ Supply(d)' \subseteq (Supply(d) \ {y}) \cup {x}
         /\ KeepChunk(d, m) => \E x : Supply(d)' \subseteq Supply(d) \cup {x}
         /\ CompleteResponse(d, m) /\ net' = net \ {m} =>
              \E y \in Supply(d) : y[1] = m.ci /\ Supply(d)' \subseteq Supply(d) \ {y}
         /\ CompleteResponse(d, m) => Supply(d)' \subseteq Supply(d)
<1> DEFINE vec == Store(responses[d][m.ci], m)
           x == <<m.ci, "kept", 0>>
           y == <<m.ci, "sent", m>>
<1>1. m.ci \in Indices /\ m.seq \in Nat
  BY DEF TypeOK, Message
<1>2. \A c \in Clients : Due(c)' = Due(c)
  BY DEF Due, IsDue, Serving, serverVars
<1>3. \A c \in Clients : SentTo(c)' \subseteq SentTo(c)
  BY DEF Deliver, SentTo
<1>4. m.seq = 0 => y \in Supply(d) /\ (net' = net \ {m} => y \notin Supply(d)')
  <2>1. m.seq = 0 => y \in Supply(d)
    BY SupplyParts
  <2>2. \A z \in Kept(d)' \cup Due(d)' : z[2] # "sent"
    BY DEF Kept, Due
  <2>3. net' = net \ {m} => y \notin SentTo(d)'
    BY DEF SentTo
  <2>4. y[2] = "sent"
    OBVIOUS
  <2> HIDE DEF y
  <2> QED
    BY <2>1, <2>2, <2>3, <2>4 DEF Supply
<1>5. /\ responses' = [responses EXCEPT ![d][m.ci] = responses'[d][m.ci]]
      /\ KeepChunk(d, m) => responses'[d][m.ci] = vec
      /\ CompleteResponse(d, m) => responses'[d][m.ci] = <<>> /\ IsVectorFull(vec)
  BY <1>1 DEF KeepChunk, CompleteResponse, TypeOK
<1>6. /\ \A c \in Clients \ {d} : \A j \in Indices : responses'[c][j] = responses[c][j]
      /\ \A j \in Indices \ {m.ci} : responses'[d][j] = responses[d][j]
  BY <1>1, <1>5 DEF TypeOK
<1>7. /\ \A c \in Clients \ {d} : Kept(c)' = Kept(c)
      /\ Kept(d)' \subseteq Kept(d) \cup {x}
  BY <1>6 DEF Kept
<1>8. \A c \in Clients \ {d} : Supply(c)' \subseteq Supply(c)
  BY <1>2, <1>3, <1>7 DEF Supply
<1>9. /\ IsVectorFull(vec) => vec[1] # Empty
      /\ m.seq # 0 /\ vec[1] # Empty => x \in Supply(d)
  BY <1>1, StoredFirst, SupplyParts
<1>10. CASE KeepChunk(d, m)
  <2>1. ~CompleteResponse(d, m)
    BY <1>10 DEF KeepChunk, CompleteResponse
  <2>2. Supply(d)' \subseteq Supply(d) \cup {x}
    BY <1>2, <1>3, <1>7 DEF Supply
  <2>3. CASE m.seq = 0
    BY <1>4, <1>8, <2>1, <2>2, <2>3
  <2>4. CASE m.seq # 0
    <3>1. x \in Kept(d)' => vec[1] # Empty
      BY <1>1, <1>5, <1>10 DEF Kept
    <3>2. x \notin SentTo(d)' /\ x \notin Due(d)'
      BY DEF SentTo, Due
    <3>3. x \in Supply(d)' => x \in Supply(d)
      BY <1>9, <2>4, <3>1, <3>2 DEF Supply
    <3>4. Supply(d)' \subseteq Supply(d)
      BY <2>2, <3>3
    <3> QED
      BY <1>8, <2>1, <3>4
  <2> QED
    BY <2>3, <2>4
<1>11. CASE CompleteResponse(d, m)
  <2>1. ~KeepChunk(d, m)
    BY <1>11 DEF KeepChunk, CompleteResponse
  <2>2. x \notin Kept(d)'
    BY <1>1, <1>5, <1>11 DEF Kept
  <2>3. Supply(d)' \subseteq Supply(d) /\ x \notin Supply(d)'
    <3>1. x \notin SentTo(d)' /\ x \notin Due(d)'
      BY DEF SentTo, Due
    <3> QED
      BY <1>2, <1>3, <1>7, <2>2, <3>1 DEF Supply
  <2>4. ASSUME net' = net \ {m}
        PROVE  \E z \in Supply(d) : z[1] = m.ci /\ Supply(d)' \subseteq Supply(d) \ {z}
    <3>1. CASE m.seq = 0
      BY <1>4, <2>3, <2>4, <3>1
    <3>2. CASE m.seq # 0
      BY <1>5, <1>9, <1>11, <2>3, <3>2
    <3> QED
      BY <3>1, <3>2
  <2> QED
    BY <1>8, <2>1, <2>3, <2>4
<1> QED
  BY <1>10, <1>11

-----------------------------------------------------------------------------
(***************************************************************************)
(* Each pass is asked for once.                                            *)
(***************************************************************************)
LEMMA PassesStarted ==
  ASSUME TypeOK, [Next]_vars
  PROVE  \A c \in Clients : \A p \in Pass : Started(c, p) => Started(c, p)'
<1> USE DEF TypeOK, Started
<1>1. ASSUME NEW d \in Clients, StartPass(d)
      PROVE  \A c \in Clients : \A p \in Pass : Started(c, p) => Started(c, p)'
  BY <1>1 DEF StartPass
<1>2. ASSUME NEW d \in Clients, Receive(d)
      PROVE  \A c \in Clients : \A p \in Pass : Started(c, p) => Started(c, p)'
  <2>1. pc[d] = "parse" /\ \E m \in net : KeepChunk(d, m) \/ CompleteResponse(d, m)
    BY <1>2 DEF Receive
  <2>2. \/ UNCHANGED <<pc, pass>>
        \/ /\ pass[d] = 1 /\ pc' = [pc EXCEPT ![d] = "send"]
           /\ pass' = [pass EXCEPT ![d] = 2]
        \/ /\ pass[d] = 2 /\ pc' = [pc EXCEPT ![d] = "done"]
           /\ UNCHANGED pass
    BY <2>1 DEF KeepChunk, CompleteResponse, ContinueOrReturn
  <2> QED
    BY <2>1, <2>2 DEF Pass
<1>3. ASSUME NEW d \in Clients, Quits(d)
      PROVE  \A c \in Clients : \A p \in Pass : Started(c, p) => Started(c, p)'
  <2>1. pc' = [pc EXCEPT ![d] = "quit"] /\ pass' = pass
    BY <1>3, QuitStep
  <2> QED
    BY <2>1
<1>4. CASE ServerStep \/ Lose \/ Discard \/ Terminated \/ UNCHANGED vars
  <2>1. UNCHANGED <<pc, pass>>
    BY <1>4 DEF ServerStep, ReceiveRequest, ServeCommand, SkipAnswer, RefuseCommand,
       ServeFails, ServerStops, Lose, Discard, Terminated, clientVars, vars
  <2> QED
    BY <2>1
<1> QED
  BY <1>1, <1>2, <1>3, <1>4 DEF Next, ClientStep, Quits

(* Apart from a new request and its receipt, nothing is asked for or begun. *)
LEMMA NothingBegun ==
  ASSUME [Next]_vars, ~ReceiveRequest, \A c \in Clients : ~StartPass(c)
  PROVE  /\ requests' \subseteq requests /\ request' = request
         /\ server' = "serve" => server = "serve"
<1>1. CASE \E c \in Clients : Receive(c) \/ Quits(c)
  BY <1>1 DEF Receive, Quits, RequestFails, HandleFails, RecvFails, serverVars, netVars
<1>2. CASE ServeCommand \/ SkipAnswer \/ ServeFails
  BY <1>2 DEF ServeCommand, SkipAnswer, ServeFails
<1>3. CASE RefuseCommand \/ ServerStops \/ Lose \/ Discard \/ Terminated \/ UNCHANGED vars
  BY <1>3 DEF RefuseCommand, ServerStops, Lose, Discard, Terminated, serverVars, netVars,
     vars
<1> QED
  BY <1>1, <1>2, <1>3 DEF Next, ClientStep, ServerStep, Quits

LEMMA StepRequestInv ==
  ASSUME TypeOK, RequestInv, [Next]_vars
  PROVE  RequestInv'
<1>1. /\ request.from \in Clients /\ request.pass \in Pass
      /\ \A r \in requests : r.from \in Clients /\ r.pass \in Pass
  BY DEF TypeOK, Request
<1>2. \A c \in Clients : \A p \in Pass : Started(c, p) => Started(c, p)'
  BY PassesStarted
<1>3. ASSUME NEW c \in Clients, StartPass(c) PROVE RequestInv'
  <2> DEFINE new == [from |-> c, pass |-> pass[c],
                     bytes |-> SentBytes(pass[c], robotIDLen[c])]
  <2>1. /\ pc[c] = "send" /\ pc' = [pc EXCEPT ![c] = "parse"]
        /\ requests' = requests \cup {new}
        /\ UNCHANGED <<pass, server, request>>
    BY <1>3 DEF StartPass, serverVars
  <2>2. new.from = c /\ new.pass = pass[c]
    OBVIOUS
  <2> HIDE DEF new
  <2>3. ~Started(c, pass[c]) /\ Started(c, pass[c])'
    <3>1. pass[c] \in 1 .. 2 /\ pc'[c] = "parse" /\ pass' = pass
      BY <2>1 DEF TypeOK, Pass
    <3>2. ~(pass[c] < pass[c])
      BY <3>1
    <3> QED
      BY <2>1, <3>1, <3>2 DEF Started
  <2>4. \A r \in requests : r.from # c \/ r.pass # pass[c]
    BY <2>3 DEF RequestInv
  <2>5. server = "serve" => c # request.from \/ pass[c] # request.pass
    BY <2>3 DEF RequestInv
  <2>6. ASSUME NEW r \in requests'
        PROVE  /\ Started(r.from, r.pass)'
               /\ \A q \in requests' : q.from = r.from /\ q.pass = r.pass => q = r
               /\ server = "serve" => r.from # request.from \/ r.pass # request.pass
    <3>1. CASE r = new
      BY <2>1, <2>2, <2>3, <2>4, <2>5, <3>1 DEF Started
    <3>2. CASE r \in requests
      BY <1>1, <1>2, <2>1, <2>2, <2>4, <3>2 DEF RequestInv
    <3> QED
      BY <2>1, <3>1, <3>2
  <2>7. server = "serve" => Started(request.from, request.pass)'
    BY <1>1, <1>2, <2>1 DEF RequestInv, Started
  <2> QED
    BY <2>1, <2>6, <2>7 DEF RequestInv
<1>4. CASE ReceiveRequest
  <2>1. PICK r \in requests : request' = r /\ requests' = requests \ {r}
    BY <1>4 DEF ReceiveRequest
  <2>2. UNCHANGED <<pass, pc>>
    BY <1>4 DEF ReceiveRequest, clientVars
  <2>3. \A q \in requests : q.from = r.from /\ q.pass = r.pass => q = r
    BY <2>1 DEF RequestInv
  <2> QED
    BY <1>1, <2>1, <2>2, <2>3 DEF RequestInv, Started
<1>5. CASE ~ReceiveRequest /\ \A c \in Clients : ~StartPass(c)
  <2>1. /\ requests' \subseteq requests /\ request' = request
        /\ server' = "serve" => server = "serve"
    BY <1>5, NothingBegun
  <2>2. \A r \in requests' : Started(r.from, r.pass)'
    BY <1>1, <1>2, <2>1 DEF RequestInv
  <2>3. server' = "serve" => Started(request.from, request.pass)'
    BY <1>1, <1>2, <2>1 DEF RequestInv
  <2> QED
    BY <2>1, <2>2, <2>3 DEF RequestInv, Started
<1> QED
  BY <1>3, <1>4, <1>5

-----------------------------------------------------------------------------
(***************************************************************************)
(* The last command leaves no trace, and the network holds finitely many   *)
(* responses.                                                              *)
(***************************************************************************)
LEMMA SendResponseFinite ==
  ASSUME NEW len \in Nat, NEW k \in Nat
  PROVE  IsFiniteSet(SendResponse(len, k))
<1> DEFINE D == 0..(k - 1)
           f == [i \in D |->
                  [to |-> request.from, ci |-> commandIndex, num |-> NumMessages(len),
                   seq |-> i, data |-> ResponseChunk(len, i)]]
<1>1. f \in Surjection(D, SendResponse(len, k))
  BY DEF Surjection, SendResponse
<1>2. IsFiniteSet(D)
  <2>1. 0 \in Int /\ k - 1 \in Int
    OBVIOUS
  <2> QED
    BY <2>1, FS_Interval
<1> HIDE DEF D, f
<1> QED
  BY <1>1, <1>2, FS_Surjection

(* Whether the server's command is carried out or a call of it fails. *)
LEMMA ServeSends ==
  ASSUME TypeInv, ServeCommand \/ SkipAnswer \/ ServeFails
  PROVE  /\ server = "serve" /\ UNCHANGED <<request, requests, dups, clientVars>>
         /\ server' = "down" \/ commandIndex' = commandIndex + 1
         /\ \E len \in Nat : \E k \in Nat : /\ k <= NumMessages(len)
                                            /\ net' = net \cup SendResponse(len, k)
<1>1. CASE ServeCommand
  <2>1. PICK len \in BodyLengths[Command] :
          net' = net \cup SendResponse(len, NumMessages(len))
    BY <1>1 DEF ServeCommand
  <2>2. len \in Nat /\ NumMessages(len) \in Nat
    BY BodyType, NumMessagesType
  <2>3. NumMessages(len) <= NumMessages(len)
    BY <2>2
  <2>4. \E n \in Nat : \E k \in Nat : k <= NumMessages(n) /\ net' = net \cup SendResponse(n, k)
    BY <2>1, <2>2, <2>3
  <2> QED
    BY <1>1, <2>4 DEF ServeCommand
<1>2. CASE ServeFails
  <2>1. PICK len \in BodyLengths[Command] :
          \E k \in 0..(NumMessages(len) - 1) : net' = net \cup SendResponse(len, k)
    BY <1>2 DEF ServeFails
  <2>2. PICK k \in 0..(NumMessages(len) - 1) : net' = net \cup SendResponse(len, k)
    BY <2>1
  <2>3. len \in Nat /\ NumMessages(len) \in Nat
    BY BodyType, NumMessagesType
  <2>4. k \in Nat /\ k <= NumMessages(len)
    BY <2>3
  <2>5. \E n \in Nat : \E j \in Nat : j <= NumMessages(n) /\ net' = net \cup SendResponse(n, j)
    BY <2>2, <2>3, <2>4
  <2> QED
    BY <1>2, <2>5 DEF ServeFails
<1>3. CASE SkipAnswer
  <2>1. SendResponse(0, 0) = {}
    BY DEF SendResponse
  <2>2. NumMessages(0) \in Nat
    BY NumMessagesType
  <2>3. net' = net \cup SendResponse(0, 0) /\ 0 <= NumMessages(0)
    BY <1>3, <2>1, <2>2 DEF SkipAnswer
  <2>4. \E n \in Nat : \E k \in Nat : k <= NumMessages(n) /\ net' = net \cup SendResponse(n, k)
    BY <2>3
  <2> QED
    BY <1>3, <2>4 DEF SkipAnswer
<1> QED
  BY <1>1, <1>2, <1>3

(* What every step but the receipt of a response leaves alone. *)
LEMMA NothingReceived ==
  ASSUME [Next]_vars, \A c \in Clients : ~StartPass(c) /\ ~Receive(c)
  PROVE  UNCHANGED <<pass, numCommands, responses, answered>>
<1>1. CASE \E c \in Clients : Quits(c)
  BY <1>1 DEF Quits, RequestFails, HandleFails, RecvFails
<1>2. CASE ServerStep \/ Lose \/ Discard \/ Terminated \/ UNCHANGED vars
  BY <1>2 DEF ServerStep, ReceiveRequest, ServeCommand, SkipAnswer, RefuseCommand,
     ServeFails, ServerStops, Lose, Discard, Terminated, clientVars, vars
<1> QED
  BY <1>1, <1>2 DEF Next, ClientStep, Quits

LEMMA NothingSent ==
  ASSUME [Next]_vars, ~ServeCommand, ~SkipAnswer, ~ServeFails
  PROVE  net' \subseteq net
<1>1. CASE \E c \in Clients : Receive(c)
  BY <1>1 DEF Receive, Deliver
<1>2. CASE \E c \in Clients : StartPass(c) \/ Quits(c)
  BY <1>2 DEF StartPass, Quits, RequestFails, HandleFails, RecvFails, Deliver, netVars
<1>3. CASE ReceiveRequest \/ RefuseCommand \/ ServerStops \/ Lose \/ Discard
           \/ Terminated \/ UNCHANGED vars
  BY <1>3 DEF ReceiveRequest, RefuseCommand, ServerStops, Lose, Discard, Terminated,
     netVars, vars
<1> QED
  BY <1>1, <1>2, <1>3 DEF Next, ClientStep, ServerStep, Quits

LEMMA LastServedOfFirst ==
  /\ 1 \in Pass /\ LastServed(1) \in Nat
  /\ \A p \in Pass : LastServed(p) \in Nat /\ LastServed(p) <= LastServed(1)
<1>1. 1 \in Pass
  BY DEF Pass
<1> QED
  BY <1>1, NumCommandsRange, LastServedType

LEMMA StepNoTrace ==
  ASSUME TypeInv, NoTraceOfLast, IsFiniteSet(net), [Next]_vars
  PROVE  NoTraceOfLast' /\ IsFiniteSet(net)'
<1>1. IsFiniteSet(net') /\ \A m \in net' : m.ci <= LastServed(1)
  <2>1. CASE ServeCommand \/ SkipAnswer \/ ServeFails
    <3>1. PICK len \in Nat, k \in Nat :
            k <= NumMessages(len) /\ net' = net \cup SendResponse(len, k)
      BY <2>1, ServeSends
    <3>2. IsFiniteSet(SendResponse(len, k))
      BY SendResponseFinite
    <3>3. \A m \in SendResponse(len, k) : m.ci = commandIndex
      BY <3>1, SendResponseFacts DEF TypeInv
    <3>4. commandIndex <= LastServed(1)
      <4>1. /\ server = "serve" /\ request.pass \in Pass /\ commandIndex \in Nat
            /\ commandIndex <= LastServed(request.pass)
        BY <2>1 DEF ServeCommand, SkipAnswer, ServeFails, TypeInv, TypeOK, PlaceInv, Request
      <4> QED
        BY <4>1, LastServedOfFirst
    <3> QED
      BY <3>1, <3>2, <3>3, <3>4, UnionBound DEF NoTraceOfLast
  <2>2. CASE ~ServeCommand /\ ~SkipAnswer /\ ~ServeFails
    <3>1. net' \in SUBSET net
      BY <2>2, NothingSent
    <3> QED
      BY <3>1, FS_Subset DEF NoTraceOfLast
  <2> QED
    BY <2>1, <2>2
<1>2. \A c \in Clients :
        /\ answered'[c] \subseteq 0..LastServed(1)
        /\ \A ci \in Indices : ci > LastServed(1) => responses'[c][ci] = <<>>
  <2>1. ASSUME NEW d \in Clients, StartPass(d), NEW c \in Clients
        PROVE  /\ answered'[c] \subseteq 0..LastServed(1)
               /\ \A ci \in Indices : ci > LastServed(1) => responses'[c][ci] = <<>>
    BY <2>1 DEF StartPass, NoTraceOfLast, TypeInv, TypeOK
  <2>2. ASSUME NEW d \in Clients, Receive(d), NEW c \in Clients
        PROVE  /\ answered'[c] \subseteq 0..LastServed(1)
               /\ \A ci \in Indices : ci > LastServed(1) => responses'[c][ci] = <<>>
    <3>1. PICK m \in net : KeepChunk(d, m) \/ CompleteResponse(d, m)
      BY <2>2 DEF Receive
    <3>2. m.ci \in Nat /\ m.ci \in Indices /\ m.ci <= LastServed(1) /\ LastServed(1) \in Nat
      BY LastServedOfFirst DEF NoTraceOfLast, TypeInv, TypeOK, Message
    <3>3. /\ responses' = [responses EXCEPT ![d][m.ci] = responses'[d][m.ci]]
          /\ \/ answered' = answered
             \/ answered' = [answered EXCEPT ![d] = @ \cup {m.ci}]
      BY <3>1, <3>2 DEF KeepChunk, CompleteResponse, TypeInv, TypeOK
    <3>4. answered'[c] \subseteq answered[c] \cup {m.ci}
      BY <3>3 DEF TypeInv, TypeOK
    <3>5. \A ci \in Indices : ci # m.ci => responses'[c][ci] = responses[c][ci]
      <4>1. PICK w : responses' = [responses EXCEPT ![d][m.ci] = w]
        BY <3>3
      <4>2. responses \in [Clients -> [Indices -> Seq(Chunk)]]
        BY DEF TypeInv, TypeOK
      <4> QED
        BY <3>2, <4>1, <4>2
    <3>6. \A ci \in Indices : ci > LastServed(1) => ci # m.ci
      BY <3>2
    <3>7. m.ci \in 0..LastServed(1)
      BY <3>2
    <3> QED
      BY <3>4, <3>5, <3>6, <3>7 DEF NoTraceOfLast
  <2>3. CASE \A c \in Clients : ~StartPass(c) /\ ~Receive(c)
    BY <2>3, NothingReceived DEF NoTraceOfLast
  <2> QED
    BY <2>1, <2>2, <2>3
<1> QED
  BY <1>1, <1>2 DEF NoTraceOfLast

(* So the first chunks are those of the other commands. *)
LEMMA SupplyKeys ==
  ASSUME TypeOK, NoTraceOfLast, NEW c \in Clients
  PROVE  Keys(Supply(c)) \subseteq 0..LastServed(1)
<1> SUFFICES ASSUME NEW x \in Supply(c) PROVE x[1] \in 0..LastServed(1)
  BY DEF Keys
<1>1. \A i \in Indices : i \in Nat
  BY DEF Indices
<1>2. CASE x \in SentTo(c)
  <2>1. PICK m \in net : x = <<m.ci, "sent", m>>
    BY <1>2 DEF SentTo
  <2>2. m.ci \in Nat /\ m.ci <= LastServed(1) /\ x[1] = m.ci
    BY <2>1 DEF NoTraceOfLast, TypeOK, Message
  <2> QED
    BY <2>2, LastServedOfFirst
<1>3. CASE x \in Kept(c)
  <2>1. PICK j \in Indices : x = <<j, "kept", 0>> /\ responses[c][j] # <<>>
    BY <1>3 DEF Kept
  <2>2. ~(j > LastServed(1)) /\ x[1] = j
    BY <2>1 DEF NoTraceOfLast
  <2> QED
    BY <1>1, <2>2, LastServedOfFirst
<1>4. CASE x \in Due(c)
  <2>1. x[1] \in Indices /\ x[3] \in Pass /\ x[1] <= LastServed(x[3])
    BY <1>4 DEF Due, IsDue
  <2> QED
    BY <1>1, <2>1, LastServedOfFirst
<1> QED
  BY <1>2, <1>3, <1>4 DEF Supply

-----------------------------------------------------------------------------
(***************************************************************************)
(* Every step keeps the balance.                                           *)
(***************************************************************************)
(* A first chunk for each command of a pass. *)
LEMMA FirstChunks ==
  ASSUME NEW n \in Nat, NEW p
  PROVE  LET F == {<<i, "due", p>> : i \in 0..n}
         IN  IsFiniteSet(F) /\ Cardinality(F) <= n + 1 /\ 0..n \subseteq Keys(F)
<1> DEFINE D == 0..n
           F == {<<i, "due", p>> : i \in D}
           f == [i \in D |-> <<i, "due", p>>]
<1>1. f \in Surjection(D, F)
  BY DEF Surjection
<1>2. IsFiniteSet(D) /\ Cardinality(D) = n + 1
  BY FS_Interval
<1>3. D \subseteq Keys(F)
  <2> SUFFICES ASSUME NEW i \in D PROVE \E x \in F : x[1] = i
    BY DEF Keys
  <2>1. <<i, "due", p>> \in F
    OBVIOUS
  <2> QED
    BY <2>1
<1> HIDE DEF f, F
<1>4. IsFiniteSet(F) /\ Cardinality(F) <= Cardinality(D)
  BY <1>1, <1>2, FS_Surjection
<1> QED
  BY <1>2, <1>3, <1>4 DEF F

LEMMA StartPassBalanced ==
  ASSUME TypeOK, NoTraceOfLast, IsFiniteSet(net), NEW c \in Clients, Balanced(c),
         NEW d \in Clients, StartPass(d)
  PROVE  Balanced(c)'
<1>1. /\ pc[d] = "send" /\ pc' = [pc EXCEPT ![d] = "parse"]
      /\ numCommands' = [numCommands EXCEPT ![d] = NumCommands(pass[d])]
      /\ answered' = [answered EXCEPT ![d] = {}]
      /\ UNCHANGED <<pass, dups>>
  BY DEF StartPass
<1>2. dups \in Nat /\ dups <= dups
  BY DEF TypeOK
<1>3. CASE c # d
  <2>1. Supply(c)' \subseteq Supply(c)
    BY <1>3, StartPassSupply
  <2>2. pc'[c] = pc[c] /\ answered'[c] = answered[c] /\ numCommands'[c] = numCommands[c]
    BY <1>1, <1>3 DEF TypeOK
  <2> QED
    BY <1>1, <1>2, <2>1, <2>2, FewerBalanced
<1>4. CASE c = d
  <2>1. PICK p \in Pass : p = pass[c]
    BY DEF TypeOK
  <2>2. PICK n \in Nat : n = LastServed(p)
    BY LastServedType
  <2>3. PICK S, T : S = Supply(c) /\ T = Supply(c)'
    OBVIOUS
  <2> DEFINE F == {<<i, "due", p>> : i \in 0..n}
  <2>4. IsFiniteSet(F) /\ Cardinality(F) <= n + 1 /\ 0..n \subseteq Keys(F)
    BY FirstChunks
  <2>5. T \in SUBSET (S \cup F)
    BY <1>4, <2>1, <2>2, <2>3, StartPassSupply
  <2>6. IsFiniteSet(S) /\ Cardinality(S) \in Nat /\ Cardinality(S) <= dups
    BY <1>1, <1>4, <2>3, SupplyFinite, FS_CardinalityType DEF Balanced
  <2> HIDE DEF F
  <2>7. IsFiniteSet(T) /\ Spare(T, {}) <= Cardinality(S)
    BY <2>4, <2>5, <2>6, SpareAtStart
  <2>8. Spare(T, {}) \in Nat
    BY <2>7, SpareType
  <2>9. /\ pc'[c] = "parse" /\ answered'[c] = {} /\ pass'[c] = p
        /\ numCommands'[c] = NumCommands(p)
    BY <1>1, <1>4, <2>1 DEF TypeOK
  <2>10. NumCommands(p) \in Nat
    BY SidesRange
  <2>11. CountedTwice(c)' = 0
    BY <2>9, <2>10, FS_EmptySet DEF CountedTwice
  <2>12. CountedTwice(c)' + Spare(T, {}) <= dups'
    BY <1>1, <1>2, <2>6, <2>7, <2>8, <2>11
  <2> QED
    BY <2>3, <2>9, <2>12 DEF Balanced
<1> QED
  BY <1>3, <1>4

(* One first chunk takes the place of another. *)
LEMMA AnotherBalanced ==
  ASSUME TypeOK, NoTraceOfLast, IsFiniteSet(net), NEW c \in Clients, Balanced(c),
         NEW y \in Supply(c), NEW x, x[1] = y[1],
         Supply(c)' \subseteq (Supply(c) \ {y}) \cup {x},
         UNCHANGED <<pc[c], pass[c], answered[c], numCommands[c], dups>>
  PROVE  Balanced(c)'
<1>1. PICK S, T, R : S = Supply(c) /\ T = Supply(c)' /\ R = answered[c]
  OBVIOUS
<1>2. IsFiniteSet(S) /\ T \in SUBSET ((S \ {y}) \cup {x}) /\ y \in S
  BY <1>1, SupplyFinite
<1>3. IsFiniteSet(T) /\ Spare(T, R) <= Spare(S, R)
  BY <1>2, SpareOfAnother
<1>4. Cardinality(T) <= Cardinality(S)
  <2>1. /\ IsFiniteSet(S \ {y}) /\ Cardinality(S \ {y}) = Cardinality(S) - 1
        /\ IsFiniteSet({x}) /\ Cardinality({x}) = 1
    BY <1>2, FS_RemoveElement, FS_Singleton
  <2>2. /\ IsFiniteSet((S \ {y}) \cup {x}) /\ Cardinality((S \ {y}) \cup {x}) \in Nat
        /\ Cardinality((S \ {y}) \cup {x}) <= Cardinality(S \ {y}) + Cardinality({x})
    BY <2>1, UnionBound
  <2>3. Cardinality(T) <= Cardinality((S \ {y}) \cup {x})
    BY <1>2, <2>2, FS_Subset
  <2>4. Cardinality(T) \in Nat /\ Cardinality(S) \in Nat
    BY <1>2, <1>3, FS_CardinalityType
  <2> QED
    BY <2>1, <2>2, <2>3, <2>4
<1>5. /\ Cardinality(T) \in Nat /\ Cardinality(S) \in Nat
      /\ Spare(T, R) \in Nat /\ Spare(S, R) \in Nat
  BY <1>2, <1>3, SpareType
<1>6. PICK k \in Int : k = CountedTwice(c) /\ k = CountedTwice(c)'
  <2>1. CountedTwice(c)' = CountedTwice(c)
    BY DEF CountedTwice
  <2> QED
    BY <2>1, BalanceTypes
<1>7. /\ pc[c] = "send" => Cardinality(S) <= dups
      /\ pc[c] = "parse" => k + Spare(S, R) <= dups
  BY <1>1, <1>6 DEF Balanced
<1>8. dups \in Nat
  BY DEF TypeOK
<1>9. /\ pc'[c] = "send" => Cardinality(T) <= dups'
      /\ pc'[c] = "parse" => k + Spare(T, R) <= dups'
  BY <1>3, <1>4, <1>5, <1>7, <1>8
<1> QED
  BY <1>1, <1>6, <1>9 DEF Balanced

LEMMA ServeBalanced ==
  ASSUME TypeInv, RequestInv, NoTraceOfLast, IsFiniteSet(net), NEW c \in Clients,
         Balanced(c), ServeCommand \/ SkipAnswer \/ ServeFails
  PROVE  Balanced(c)'
<1>1. /\ server = "serve" /\ UNCHANGED <<request, requests, dups, clientVars>>
      /\ server' = "down" \/ commandIndex' = commandIndex + 1
  BY ServeSends
<1>2. PICK len \in Nat, k \in Nat :
        k <= NumMessages(len) /\ net' = net \cup SendResponse(len, k)
  BY ServeSends
<1>3. UNCHANGED <<pc, pass, answered, numCommands, responses>> /\ TypeOK
  BY <1>1 DEF clientVars, TypeInv
<1>4. \/ Supply(c)' \subseteq Supply(c)
      \/ \E y \in Supply(c) : \E x :
           x[1] = y[1] /\ Supply(c)' \subseteq (Supply(c) \ {y}) \cup {x}
  BY <1>1, <1>2, <1>3, ServeSupply
<1>5. CASE Supply(c)' \subseteq Supply(c)
  <2>1. dups' \in Nat /\ dups <= dups'
    BY <1>1 DEF TypeInv, TypeOK
  <2> QED
    BY <1>3, <1>5, <2>1, FewerBalanced
<1>6. CASE \E y \in Supply(c) : \E x :
             x[1] = y[1] /\ Supply(c)' \subseteq (Supply(c) \ {y}) \cup {x}
  BY <1>1, <1>3, <1>6, AnotherBalanced
<1> QED
  BY <1>4, <1>5, <1>6

(* A response more is counted, and a first chunk used up or kept. *)
LEMMA OneMoreCounted ==
  ASSUME TypeOK, NoTraceOfLast, IsFiniteSet(net), NEW m \in net, NEW d \in Clients,
         m.to = d, pc[d] = "parse", Balanced(d), Deliver(m), CompleteResponse(d, m),
         UNCHANGED <<serverVars, requests>>
  PROVE  /\ numCommands'[d] \in Int /\ NumCommands(pass[d]) \in Nat
         /\ dups' \in Nat /\ Cardinality(answered'[d]) \in Nat
         /\ IsFiniteSet(Supply(d)') /\ Spare(Supply(d)', answered'[d]) \in Nat
         /\ NumCommands(pass[d]) - numCommands'[d] - Cardinality(answered'[d])
              + Spare(Supply(d)', answered'[d]) <= dups'
<1>1. PICK S, T, R, ci :
        S = Supply(d) /\ T = Supply(d)' /\ R = answered[d] /\ ci = m.ci
  OBVIOUS
<1>2. PICK left \in Int, n \in Nat, k \in Int :
        /\ left = numCommands[d] /\ n = NumCommands(pass[d]) /\ k = CountedTwice(d)
  BY BalanceTypes
<1>3. /\ dups \in Nat /\ IsFiniteSet(R) /\ Cardinality(R) \in Nat
      /\ k = n - left - Cardinality(R)
  BY <1>1, <1>2, BalanceTypes
<1>4. answered'[d] = R \cup {ci} /\ numCommands'[d] = left - 1
  BY <1>1, <1>2 DEF CompleteResponse, TypeOK
<1>5. IsFiniteSet(S) /\ T \in SUBSET S
  BY <1>1, SupplyFinite, ReceiveSupply
<1>6. k + Spare(S, R) <= dups
  BY <1>1, <1>2 DEF Balanced
<1>7. /\ IsFiniteSet(R \cup {ci})
      /\ ci \in R => R \cup {ci} = R
      /\ ci \notin R => Cardinality(R \cup {ci}) = Cardinality(R) + 1
  <2>1. R \cup {ci} = {ci} \cup R
    OBVIOUS
  <2> QED
    BY <1>3, FS_AddElement
<1>8. Cardinality(R \cup {ci}) \in Nat
  BY <1>7, FS_CardinalityType
<1>9. /\ IsFiniteSet(T) /\ Spare(T, R) <= Spare(S, R)
      /\ Spare(T, R \cup {ci}) <= Spare(S, R) + 1
  BY <1>5, SpareOfFewer, SpareOfDouble
<1>10. /\ Spare(T, R) \in Nat /\ Spare(S, R) \in Nat /\ Spare(T, R \cup {ci}) \in Nat
  BY <1>5, <1>9, SpareType
<1>11. n - (left - 1) - Cardinality(R \cup {ci}) + Spare(T, R \cup {ci}) <= dups'
       /\ dups' \in Nat
  <2>1. CASE net' = net \ {m} /\ dups' = dups
    <3>1. PICK y \in S : y[1] = ci /\ T \subseteq S \ {y}
      <4>1. \E y \in Supply(d) : y[1] = m.ci /\ Supply(d)' \subseteq Supply(d) \ {y}
        BY <2>1, ReceiveSupply
      <4> QED
        BY <1>1, <4>1
    <3>2. T \in SUBSET (S \ {y})
      BY <3>1
    <3>3. /\ ci \in R => Spare(T, R) <= Spare(S, R) - 1
          /\ ci \notin R => Spare(T, R \cup {ci}) <= Spare(S, R)
      BY <1>5, <3>1, <3>2, SpareOfUsed
    <3>4. CASE ci \in R
      <4>1. Spare(T, R) <= Spare(S, R) - 1
        BY <3>3, <3>4
      <4>2. n - (left - 1) - Cardinality(R) + Spare(T, R) <= dups
        BY <1>2, <1>3, <1>6, <1>10, <4>1
      <4>3. /\ Cardinality(R \cup {ci}) = Cardinality(R)
            /\ Spare(T, R \cup {ci}) = Spare(T, R)
        BY <1>7, <3>4
      <4> QED
        BY <1>2, <1>3, <1>10, <2>1, <4>2, <4>3
    <3>5. CASE ci \notin R
      BY <1>2, <1>3, <1>6, <1>7, <1>10, <2>1, <3>3, <3>5
    <3> QED
      BY <3>4, <3>5
  <2>2. CASE dups' = dups + 1
    <3>1. CASE ci \in R
      <4>1. n - (left - 1) - Cardinality(R) + Spare(T, R) <= dups + 1
        BY <1>2, <1>3, <1>6, <1>9, <1>10
      <4>2. /\ Cardinality(R \cup {ci}) = Cardinality(R)
            /\ Spare(T, R \cup {ci}) = Spare(T, R)
        BY <1>7, <3>1
      <4> QED
        BY <1>2, <1>3, <1>10, <2>2, <4>1, <4>2
    <3>2. CASE ci \notin R
      BY <1>2, <1>3, <1>6, <1>7, <1>9, <1>10, <2>2, <3>2
    <3> QED
      BY <3>1, <3>2
  <2> QED
    BY <2>1, <2>2 DEF Deliver
<1> QED
  BY <1>1, <1>2, <1>4, <1>8, <1>9, <1>10, <1>11

(* So few commands are without an answer when the client returns. *)
LEMMA ReturnsShort ==
  ASSUME TypeOK, NoTraceOfLast, IsFiniteSet(net), NEW m \in net, NEW d \in Clients,
         m.to = d, pc[d] = "parse", Balanced(d), Deliver(m), CompleteResponse(d, m),
         UNCHANGED <<serverVars, requests>>, numCommands'[d] <= 1
  PROVE  Cardinality(answered'[d]) + dups' >= NumCommands(pass[d]) - 1
BY OneMoreCounted

LEMMA CompleteBalanced ==
  ASSUME TypeOK, NoTraceOfLast, IsFiniteSet(net), NEW m \in net, NEW d \in Clients,
         m.to = d, pc[d] = "parse", Balanced(d), Deliver(m), CompleteResponse(d, m),
         UNCHANGED <<serverVars, requests>>
  PROVE  Balanced(d)'
<1>1. PICK T, Q : T = Supply(d)' /\ Q = answered'[d]
  OBVIOUS
<1>2. PICK left \in Int, n \in Nat :
        left = numCommands'[d] /\ n = NumCommands(pass[d])
  BY OneMoreCounted
<1>3. /\ dups' \in Nat /\ Cardinality(Q) \in Nat /\ IsFiniteSet(T) /\ Spare(T, Q) \in Nat
      /\ n - left - Cardinality(Q) + Spare(T, Q) <= dups'
  BY <1>1, <1>2, OneMoreCounted
<1>4. numCommands' = [numCommands EXCEPT ![d] = @ - 1] /\ ContinueOrReturn(d, numCommands[d] - 1)
  BY DEF CompleteResponse
<1>5. left = numCommands[d] - 1
  BY <1>2, <1>4 DEF TypeOK
<1>6. CASE left > 1 /\ UNCHANGED <<pc, pass>>
  <2>1. CountedTwice(d)' + Spare(T, Q) <= dups'
    BY <1>1, <1>2, <1>3, <1>6 DEF CountedTwice
  <2> QED
    BY <1>1, <1>6, <2>1 DEF Balanced
<1>7. CASE left <= 1 /\ pass[d] = 1 /\ pc'[d] = "send"
  <2>1. PICK j \in Nat : j = LastServed(1) /\ j = n - 2
    BY <1>2, <1>7, LastServedOfFirst DEF LastServed
  <2>2. Keys(T) \subseteq 0..j /\ Q \subseteq 0..j
    <3>1. Supply(d)' \subseteq Supply(d)
      BY ReceiveSupply
    <3>2. Keys(T) \subseteq Keys(Supply(d))
      BY <1>1, <3>1 DEF Keys
    <3>3. answered'[d] = answered[d] \cup {m.ci}
      BY DEF CompleteResponse, TypeOK
    <3>4. m.ci \in 0..j
      BY <2>1 DEF NoTraceOfLast, TypeOK, Message
    <3> QED
      BY <1>1, <2>1, <3>2, <3>3, <3>4, SupplyKeys DEF NoTraceOfLast
  <2>3. Cardinality(T) \in Nat /\ Cardinality(T) <= Spare(T, Q) + (j + 1) - Cardinality(Q)
    BY <1>3, <2>2, SpareAtEnd
  <2>4. Cardinality(T) <= dups'
    BY <1>2, <1>3, <1>7, <2>1, <2>3
  <2> QED
    BY <1>1, <1>7, <2>4 DEF Balanced
<1>8. CASE pc'[d] = "done"
  BY <1>8 DEF Balanced
<1> QED
  BY <1>4, <1>5, <1>6, <1>7, <1>8 DEF ContinueOrReturn, TypeOK

LEMMA ReceiveBalanced ==
  ASSUME TypeOK, NoTraceOfLast, IsFiniteSet(net), NEW c \in Clients, Balanced(c),
         NEW d \in Clients, Receive(d)
  PROVE  Balanced(c)'
<1>1. PICK m \in net :
        /\ pc[d] = "parse" /\ m.to = d /\ Deliver(m)
        /\ KeepChunk(d, m) \/ CompleteResponse(d, m)
        /\ UNCHANGED <<serverVars, requests>>
  BY DEF Receive
<1>2. dups \in Nat /\ dups' \in Nat /\ (dups' = dups \/ dups' = dups + 1) /\ dups <= dups'
  BY <1>1 DEF Deliver, TypeOK
<1>3. CASE c # d
  <2>1. Supply(c)' \subseteq Supply(c)
    BY <1>1, <1>3, ReceiveSupply
  <2>2. /\ pc'[c] = pc[c] /\ pass'[c] = pass[c] /\ answered'[c] = answered[c]
        /\ numCommands'[c] = numCommands[c]
    BY <1>1, <1>3 DEF KeepChunk, CompleteResponse, ContinueOrReturn, TypeOK
  <2> QED
    BY <1>2, <2>1, <2>2, FewerBalanced
<1>4. CASE c = d /\ CompleteResponse(d, m)
  BY <1>1, <1>4, CompleteBalanced
<1>5. CASE c = d /\ KeepChunk(d, m)
  <2>1. UNCHANGED <<pc, pass, answered, numCommands>>
    BY <1>5 DEF KeepChunk
  <2>2. CASE net' = net \ {m} /\ dups' = dups
    <3>1. \/ Supply(c)' \subseteq Supply(c)
          \/ \E y \in Supply(c) : \E x :
               x[1] = y[1] /\ Supply(c)' \subseteq (Supply(c) \ {y}) \cup {x}
      BY <1>1, <1>5, <2>2, ReceiveSupply
    <3> QED
      BY <1>2, <2>1, <2>2, <3>1, FewerBalanced, AnotherBalanced
  <2>3. CASE dups' = dups + 1
    <3>1. PICK S, T, R, x :
            /\ S = Supply(c) /\ T = Supply(c)' /\ R = answered[c]
            /\ T \in SUBSET (S \cup {x})
      <4>1. \E x : Supply(c)' \subseteq Supply(c) \cup {x}
        BY <1>1, <1>5, ReceiveSupply
      <4> QED
        BY <4>1
    <3>2. IsFiniteSet(S)
      BY <3>1, SupplyFinite
    <3>3. IsFiniteSet(T) /\ Spare(T, R) <= Spare(S, R) + 1
      BY <3>1, <3>2, SpareOfOneMore
    <3>4. Spare(T, R) \in Nat /\ Spare(S, R) \in Nat
      BY <3>2, <3>3, SpareType
    <3>5. PICK k \in Int : k = CountedTwice(c) /\ k = CountedTwice(c)'
      <4>1. CountedTwice(c)' = CountedTwice(c)
        BY <2>1 DEF CountedTwice
      <4> QED
        BY <4>1, BalanceTypes
    <3>6. k + Spare(S, R) <= dups
      BY <1>1, <1>5, <3>1, <3>5 DEF Balanced
    <3>7. k + Spare(T, R) <= dups'
      BY <1>2, <2>3, <3>3, <3>4, <3>6
    <3> QED
      BY <1>1, <1>5, <2>1, <3>1, <3>5, <3>7 DEF Balanced
  <2> QED
    BY <1>1, <2>2, <2>3 DEF Deliver
<1> QED
  BY <1>1, <1>3, <1>4, <1>5

LEMMA StepBalanced ==
  ASSUME TypeInv, SupplyInv, [Next]_vars, NEW c \in Clients
  PROVE  Balanced(c)'
<1>1. TypeOK /\ RequestInv /\ NoTraceOfLast /\ IsFiniteSet(net) /\ Balanced(c)
  BY DEF TypeInv, SupplyInv
<1>2. dups \in Nat /\ dups <= dups
  BY <1>1 DEF TypeOK
<1>3. CASE \E d \in Clients : StartPass(d)
  BY <1>1, <1>3, StartPassBalanced
<1>4. CASE \E d \in Clients : Receive(d)
  BY <1>1, <1>4, ReceiveBalanced
<1>5. CASE ServeCommand \/ SkipAnswer \/ ServeFails
  BY <1>1, <1>5, ServeBalanced
<1>6. CASE ReceiveRequest
  <2>1. Supply(c)' \subseteq Supply(c)
    BY <1>1, <1>6, ReceiveRequestSupply
  <2>2. UNCHANGED <<pc, pass, answered, numCommands, dups>>
    BY <1>6 DEF ReceiveRequest, clientVars
  <2> QED
    BY <1>1, <1>2, <2>1, <2>2, FewerBalanced
<1>7. CASE \/ \E d \in Clients : Quits(d)
           \/ RefuseCommand \/ ServerStops \/ Lose \/ Discard \/ Terminated \/ UNCHANGED vars
  <2>1. /\ net' \subseteq net /\ requests' \subseteq requests
        /\ server' = server \/ server' = "down"
        /\ UNCHANGED <<request, commandIndex, responses, pass, answered, numCommands>>
        /\ pc'[c] = pc[c] \/ pc'[c] = "quit"
        /\ dups' \in {dups, dups + 1}
    <3>1. ASSUME NEW d \in Clients, Quits(d)
          PROVE  /\ net' \subseteq net /\ requests' \subseteq requests
                 /\ server' = server
                 /\ UNCHANGED <<request, commandIndex, responses, pass, answered,
                                numCommands>>
                 /\ pc'[c] = pc[c] \/ pc'[c] = "quit"
                 /\ dups' \in {dups, dups + 1}
      BY <1>1, <3>1, QuitStep DEF TypeOK
    <3>2. CASE \/ RefuseCommand \/ ServerStops \/ Lose \/ Discard \/ Terminated
               \/ UNCHANGED vars
      BY <3>2 DEF RefuseCommand, ServerStops, Lose, Discard, Terminated,
         vars, serverVars, clientVars, netVars
    <3> QED
      BY <1>7, <3>1, <3>2
  <2>2. Supply(c)' \subseteq Supply(c)
    BY <1>1, <2>1, OtherStepsSupply
  <2>3. pc'[c] = pc[c] \/ pc'[c] \in {"done", "quit"}
    BY <2>1
  <2>4. dups' \in Nat /\ dups <= dups'
    BY <1>2, <2>1
  <2> QED
    BY <1>1, <2>1, <2>2, <2>3, <2>4, FewerBalanced
<1> QED
  BY <1>3, <1>4, <1>5, <1>6, <1>7 DEF Next, ClientStep, ServerStep, Quits

LEMMA InitSupplyInv == Init => SupplyInv
<1> SUFFICES ASSUME Init PROVE SupplyInv
  OBVIOUS
<1>1. RequestInv /\ NoTraceOfLast
  BY DEF Init, RequestInv, NoTraceOfLast
<1>2. IsFiniteSet(net)
  BY FS_EmptySet DEF Init
<1>3. ASSUME NEW c \in Clients PROVE Balanced(c)
  <2>1. Supply(c) = {}
    BY DEF Init, Supply, SentTo, Kept, Due, IsDue, Serving
  <2> QED
    BY <2>1, FS_EmptySet DEF Init, Balanced
<1> QED
  BY <1>1, <1>2, <1>3 DEF SupplyInv

(***************************************************************************)
(* However many responses are delivered twice, a client has no more first  *)
(* chunks to count by than commands that it has not counted yet, but for   *)
(* as many as were delivered twice.                                        *)
(***************************************************************************)
THEOREM SupplyIsBounded == Spec => []SupplyInv
<1>1. Init => SupplyInv
  BY InitSupplyInv
<1>2. ASSUME TypeInv, SupplyInv, [Next]_vars PROVE SupplyInv'
  <2>1. RequestInv'
    BY <1>2, StepRequestInv DEF TypeInv, SupplyInv
  <2>2. NoTraceOfLast' /\ IsFiniteSet(net)'
    BY <1>2, StepNoTrace DEF SupplyInv
  <2>3. \A c \in Clients : Balanced(c)'
    BY <1>2, StepBalanced
  <2> QED
    BY <2>1, <2>2, <2>3 DEF SupplyInv
<1> QED
  BY <1>1, <1>2, TypeCorrect, PTL DEF Spec

(***************************************************************************)
(* Each command a client is without an answer to when it returns from a    *)
(* pass, but for the last, is paid for by a response delivered twice, in   *)
(* this pass or in the one before.                                         *)
(***************************************************************************)
THEOREM ShortByDuplicates == Spec => ShortOnlyByDuplicates
<1> DEFINE Short ==
      \A c \in Clients :
        pc[c] = "parse" /\ pc'[c] \in {"send", "done"} =>
          Cardinality(answered'[c]) + dups' >= NumCommands(pass[c]) - 1
<1>1. ASSUME TypeInv, SupplyInv, [Next]_vars PROVE Short
  <2> SUFFICES ASSUME NEW c \in Clients, pc[c] = "parse", pc'[c] \in {"send", "done"}
               PROVE  Cardinality(answered'[c]) + dups' >= NumCommands(pass[c]) - 1
    OBVIOUS
  <2>1. Receive(c)
    <3>1. ASSUME NEW d \in Clients, StartPass(d) PROVE FALSE
      BY <1>1, <3>1 DEF StartPass, TypeInv, TypeOK
    <3>2. ASSUME NEW d \in Clients, Quits(d) PROVE FALSE
      BY <1>1, <3>2, QuitStep DEF TypeInv, TypeOK
    <3>3. ASSUME NEW d \in Clients, Receive(d), d # c PROVE FALSE
      BY <1>1, <3>3 DEF Receive, KeepChunk, CompleteResponse, ContinueOrReturn,
         TypeInv, TypeOK
    <3>4. CASE ServerStep \/ Lose \/ Discard \/ Terminated \/ UNCHANGED vars
      BY <3>4 DEF ServerStep, ReceiveRequest, ServeCommand, SkipAnswer, RefuseCommand,
         ServeFails, ServerStops, Lose, Discard, Terminated, clientVars, vars
    <3> QED
      BY <1>1, <3>1, <3>2, <3>3, <3>4 DEF Next, ClientStep, Quits
  <2>2. PICK m \in net :
          /\ m.to = c /\ Deliver(m)
          /\ KeepChunk(c, m) \/ CompleteResponse(c, m)
          /\ UNCHANGED <<serverVars, requests>>
    BY <2>1 DEF Receive
  <2>3. CompleteResponse(c, m)
    BY <2>2 DEF KeepChunk
  <2>4. numCommands'[c] <= 1
    BY <1>1, <2>3 DEF CompleteResponse, ContinueOrReturn, TypeInv, TypeOK
  <2>5. TypeOK /\ NoTraceOfLast /\ IsFiniteSet(net) /\ Balanced(c)
    BY <1>1 DEF TypeInv, SupplyInv
  <2> QED
    BY <2>2, <2>3, <2>4, <2>5, ReturnsShort
<1>2. Spec => [][Short]_vars
  BY <1>1, TypeCorrect, SupplyIsBounded, PTL DEF Spec
<1> QED
  BY <1>2 DEF ShortOnlyByDuplicates
=============================================================================
