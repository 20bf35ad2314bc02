---------------------------- MODULE LegacyProofs -----------------------------
(***************************************************************************)
(* Theorems about LegacyRequest.                                           *)
(***************************************************************************)
EXTENDS LegacyRequest, FiniteSetTheorems, TLAPS

LegacyMessage == [id : Int, num : Nat, seq : Nat, length : Nat, answer : Nat]

Result == [messages : Seq(LegacyMessage), length : Int]

(* Types of what LegacyTypeOK says nothing about. *)
DataTypes ==
  /\ messages \in Seq(LegacyMessage)
  /\ answers \in [0 .. MaxCalls - 1 -> Seq(BodyLengths)]
  /\ results \in [0 .. MaxCalls - 1 -> Result]

(***************************************************************************)
(* NoAlarmOutside for every choice of the constants.                       *)
(***************************************************************************)
THEOREM NoLateAlarm == LegacySpec => []NoAlarmOutside
<1>1. LegacyInit => NoAlarmOutside
  BY DEF LegacyInit, NoAlarmOutside
<1>2. NoAlarmOutside /\ [LegacyNext]_legacyVars => NoAlarmOutside'
  BY DEF NoAlarmOutside, LegacyNext, Call, CallFails, RecvFirst, RecvMore,
     StoreMessage, RecvOther, Waiting, RecvFails, Reassemble, TimedOut, Answer, Lose,
     legacyVars
<1> QED
  BY <1>1, <1>2, PTL DEF LegacySpec

-----------------------------------------------------------------------------
(***************************************************************************)
(* The messages of an answer.                                              *)
(***************************************************************************)
LEMMA PartsFacts ==
  ASSUME NEW len \in Nat
  PROVE  /\ Parts(len) \in Nat /\ Parts(len) >= 1
         /\ \A i \in 0 .. Parts(len) - 1 :
              /\ PartLength(len, i) \in HeaderSize .. HeaderSize + PayloadSize
              /\ i = Parts(len) - 1 =>
                   PartLength(len, i) = HeaderSize + (len - i * PayloadSize)
<1>1. Parts(len) = IF len = 0 THEN 1 ELSE (len + 983) \div 984
  BY DEF Parts, PayloadSize, HeaderSize
<1>2. /\ Parts(len) \in Nat /\ Parts(len) >= 1
      /\ (Parts(len) - 1) * 984 <= len /\ len <= Parts(len) * 984
  BY <1>1
<1> DEFINE P == Parts(len)
<1> HIDE DEF P
<1>3. ASSUME NEW i \in 0 .. P - 1
      PROVE  /\ PartLength(len, i) \in 16 .. 1000
             /\ i = P - 1 => PartLength(len, i) = 16 + (len - i * 984)
  <2>1. PartLength(len, i) = 16 + (IF i < P - 1 THEN 984 ELSE len - i * 984)
    BY DEF PartLength, HeaderSize, PayloadSize, P
  <2>2. P \in Nat /\ P >= 1 /\ (P - 1) * 984 <= len /\ len <= P * 984
    BY <1>2 DEF P
  <2>3. CASE i < P - 1
    BY <2>1, <2>2, <2>3
  <2>4. CASE i = P - 1
    BY <2>1, <2>2, <2>4
  <2> QED
    BY <2>2, <2>3, <2>4
<1> QED
  BY <1>2, <1>3 DEF P, HeaderSize, PayloadSize

(* An element of a sequence of lengths. *)
LEMMA LengthIsNat ==
  ASSUME NEW s \in Seq(BodyLengths), NEW k \in 1 .. Len(s)
  PROVE  s[k] \in Nat /\ k \in Nat
<1>1. s[k] \in BodyLengths
  OBVIOUS
<1>2. BodyLengths \subseteq Nat
  BY LegacyAssumption
<1>3. k \in Nat
  OBVIOUS
<1> QED
  BY <1>1, <1>2, <1>3

LEMMA GenuineFacts ==
  ASSUME DataTypes, NEW m, Genuine(m)
  PROVE  /\ m \in LegacyMessage /\ m # None
         /\ m.seq < m.num
         /\ m.length \in HeaderSize .. HeaderSize + PayloadSize
         /\ answers[m.id][m.answer] \in Nat
         /\ m.num = Parts(answers[m.id][m.answer])
         /\ m.seq = m.num - 1 =>
              answers[m.id][m.answer] = m.seq * PayloadSize + (m.length - HeaderSize)
<1> DEFINE len == answers[m.id][m.answer]
<1>1. m.id \in 0 .. MaxCalls - 1 /\ m.answer \in 1 .. Len(answers[m.id])
  BY DEF Genuine
<1>2. MaxCalls \in Nat /\ BodyLengths \subseteq Nat
  BY LegacyAssumption
<1>3. len \in Nat /\ m.answer \in Nat
  <2>1. answers[m.id] \in Seq(BodyLengths)
    BY <1>1 DEF DataTypes
  <2> QED
    BY <1>1, <2>1, LengthIsNat
<1>4. PICK i \in 0 .. Parts(len) - 1 :
        m = [id |-> m.id, num |-> Parts(len), seq |-> i,
             length |-> PartLength(len, i), answer |-> m.answer]
  BY DEF Genuine, AnswerMessages
<1> HIDE DEF len
<1>5. /\ Parts(len) \in Nat /\ Parts(len) >= 1
      /\ PartLength(len, i) \in HeaderSize .. HeaderSize + PayloadSize
      /\ i = Parts(len) - 1 => PartLength(len, i) = HeaderSize + (len - i * PayloadSize)
  BY <1>3, PartsFacts
<1>6. m.num = Parts(len) /\ m.seq = i /\ m.length = PartLength(len, i)
  BY <1>4
<1>7. HeaderSize = 16 /\ PayloadSize = 984
  BY DEF HeaderSize, PayloadSize
<1>8. m \in LegacyMessage
  <2>1. m.id \in Int /\ m.answer \in Nat /\ i \in Nat /\ PartLength(len, i) \in Nat
    <3>1. m.id \in Int
      BY <1>1, <1>2
    <3>2. i \in Nat /\ PartLength(len, i) \in Nat
      BY <1>5, <1>7
    <3> QED
      BY <1>3, <3>1, <3>2
  <2> QED
    BY <1>4, <1>5, <2>1 DEF LegacyMessage
<1>9. m # None
  BY <1>1, <1>2 DEF None
<1>10. m.seq = m.num - 1 => len = m.seq * PayloadSize + (m.length - HeaderSize)
  BY <1>3, <1>5, <1>6, <1>7
<1> QED
  BY <1>3, <1>5, <1>6, <1>8, <1>9, <1>10 DEF len

(* The messages the server sends. *)
LEMMA SentAreGenuine ==
  ASSUME NEW id, NEW len \in Nat, NEW k, NEW m \in AnswerMessages(id, len, k)
  PROVE  m.id = id /\ m.answer = k
BY DEF AnswerMessages

(* A message that was one of an answer's still is when there are more. *)
LEMMA GenuineKept ==
  ASSUME DataTypes, NEW id \in 0 .. MaxCalls - 1, NEW len \in BodyLengths,
         answers' = [answers EXCEPT ![id] = Append(@, len)],
         NEW m, Genuine(m)
  PROVE  Genuine(m)'
<1>1. answers[id] \in Seq(BodyLengths) /\ answers[m.id] \in Seq(BodyLengths)
  BY DEF DataTypes, Genuine
<1>2. m.id \in 0 .. MaxCalls - 1 /\ m.answer \in 1 .. Len(answers[m.id])
  BY DEF Genuine
<1>3. /\ m.answer \in 1 .. Len(answers'[m.id])
      /\ answers'[m.id][m.answer] = answers[m.id][m.answer]
  <2>1. CASE m.id = id
    <3>1. answers'[m.id] = Append(answers[m.id], len)
      BY <2>1 DEF DataTypes
    <3> QED
      BY <1>1, <1>2, <3>1
  <2>2. CASE m.id # id
    BY <1>2, <2>2 DEF DataTypes
  <2> QED
    BY <2>1, <2>2
<1> QED
  BY <1>2, <1>3 DEF Genuine
-----------------------------------------------------------------------------
(***************************************************************************)
(* The invariant, and the steps that leave the call's locals alone.        *)
(***************************************************************************)
AllInv ==
  /\ LegacyTypeOK
  /\ DataTypes
  /\ LegacyInv
  /\ ReturnsOwnAnswer
  /\ UndefinedOnlyIfLastFirst

LEMMA InitAllInv == LegacyInit => AllInv
<1> SUFFICES ASSUME LegacyInit PROVE AllInv
  OBVIOUS
<1>1. MaxCalls \in Nat /\ MaxLoss \in Nat /\ MaxDup \in Nat
  BY LegacyAssumption
<1>2. LegacyTypeOK
  <2>1. messages = <<>> /\ Len(<<>>) = 0
    BY DEF LegacyInit
  <2>2. numReceived \in 0 .. Len(messages)
    BY <2>1 DEF LegacyInit
  <2>3. lastMessageLength \in 0 .. HeaderSize + PayloadSize
    BY DEF LegacyInit, HeaderSize, PayloadSize
  <2>4. pc = "idle" /\ ID \in 0 .. MaxCalls /\ losses \in 0 .. MaxLoss /\ dups \in 0 .. MaxDup
    BY <1>1 DEF LegacyInit
  <2> QED
    BY <2>2, <2>3, <2>4 DEF LegacyInit, LegacyTypeOK
<1>3. DataTypes
  <2>1. <<>> \in Seq(LegacyMessage) /\ <<>> \in Seq(BodyLengths)
    OBVIOUS
  <2>2. [messages |-> <<>>, length |-> 0] \in Result
    BY <2>1 DEF Result
  <2>3. answers \in [0 .. MaxCalls - 1 -> Seq(BodyLengths)]
    BY <2>1 DEF LegacyInit
  <2>4. results \in [0 .. MaxCalls - 1 -> Result]
    BY <2>2 DEF LegacyInit
  <2>5. messages \in Seq(LegacyMessage)
    BY <2>1 DEF LegacyInit
  <2> QED
    BY <2>3, <2>4, <2>5 DEF DataTypes
<1>4. LegacyInv
  BY DEF LegacyInit, LegacyInv
<1>5. ReturnsOwnAnswer
  BY DEF LegacyInit, ReturnsOwnAnswer
<1>6. UndefinedOnlyIfLastFirst
  BY DEF LegacyInit, UndefinedOnlyIfLastFirst
<1> QED
  BY <1>2, <1>3, <1>4, <1>5, <1>6 DEF AllInv

(* A call, a failure, a timeout, a message of another call, a loss. *)
LEMMA QuietStep ==
  ASSUME AllInv,
         UNCHANGED <<ID, callVars, historyVars>>,
         net' \subseteq net,
         requests' \subseteq 0 .. MaxCalls - 1,
         \/ pc' = pc
         \/ pc' = "quit"
         \/ pc = "idle" /\ pc' = "first",
         timer' \in BOOLEAN, losses' \in 0 .. MaxLoss, dups' \in 0 .. MaxDup
  PROVE  AllInv'
<1>1. LegacyTypeOK'
  BY DEF AllInv, LegacyTypeOK, callVars
<1>2. DataTypes'
  BY DEF AllInv, DataTypes, callVars, historyVars
<1>3. LegacyInv'
  <2>1. \A m \in net' : Genuine(m)'
    BY DEF AllInv, LegacyInv, Genuine, historyVars
  <2>2. PlacesInv => PlacesInv'
    BY DEF PlacesInv, Filled, Genuine, callVars, historyVars
  <2>3. (pc' = "whole" => pc = "whole") /\ VectorInv => VectorInv'
    BY DEF VectorInv, Filled, callVars
  <2> QED
    BY <2>1, <2>2, <2>3 DEF AllInv, LegacyInv, callVars, historyVars
<1>4. ReturnsOwnAnswer'
  BY DEF AllInv, ReturnsOwnAnswer, historyVars
<1>5. UndefinedOnlyIfLastFirst'
  BY DEF AllInv, UndefinedOnlyIfLastFirst, historyVars, callVars
<1> QED
  BY <1>1, <1>2, <1>3, <1>4, <1>5 DEF AllInv

LEMMA TakeFacts ==
  ASSUME AllInv, NEW m \in net, Take(m)
  PROVE  net' \subseteq net /\ dups' \in 0 .. MaxDup
BY LegacyAssumption DEF Take, AllInv, LegacyTypeOK

(* A call that has heard from the server was answered. *)
LEMMA HeardIsAnswered ==
  ASSUME AllInv, pc \in {"more", "whole", "undefined"}
  PROVE  ID \in 0 .. MaxCalls - 1 /\ answers[ID] # <<>>
<1>1. firstSeq + 1 \in Filled
  BY DEF AllInv, LegacyInv, VectorInv
<1>2. PICK m : m = messages[firstSeq + 1]
  OBVIOUS
<1>3. Genuine(m) /\ m.id = ID
  BY <1>1, <1>2 DEF AllInv, LegacyInv, PlacesInv
<1> QED
  BY <1>3 DEF Genuine

LEMMA StepAnswer ==
  ASSUME AllInv, Answer
  PROVE  AllInv'
<1>1. PICK id \in requests, len \in BodyLengths :
        /\ net' = net \cup AnswerMessages(id, len, Len(answers[id]) + 1)
        /\ answers' = [answers EXCEPT ![id] = Append(@, len)]
        /\ \/ requests' = requests \ {id} /\ UNCHANGED dups
           \/ dups < MaxDup /\ dups' = dups + 1 /\ UNCHANGED requests
  BY DEF Answer
<1>2. UNCHANGED <<pc, ID, timer, callVars, results, losses>>
  BY DEF Answer
<1>3. id \in 0 .. MaxCalls - 1 /\ len \in Nat /\ answers[id] \in Seq(BodyLengths)
  BY LegacyAssumption DEF AllInv, LegacyInv, DataTypes
<1>4. answers' \in [0 .. MaxCalls - 1 -> Seq(BodyLengths)]
  BY <1>1, <1>3 DEF AllInv, DataTypes
<1>5. /\ answers'[id] = Append(answers[id], len)
      /\ Len(answers'[id]) = Len(answers[id]) + 1
      /\ answers'[id][Len(answers[id]) + 1] = len
  BY <1>1, <1>3 DEF AllInv, DataTypes
<1>6. \A i \in 0 .. MaxCalls - 1 : i # id => answers'[i] = answers[i]
  BY <1>1 DEF AllInv, DataTypes
<1>7. \A i \in 0 .. MaxCalls - 1 :
        answers[i] # <<>> => /\ answers'[i] # <<>>
                             /\ Len(answers'[i]) = 1 => answers'[i] = answers[i]
  <2> SUFFICES ASSUME NEW i \in 0 .. MaxCalls - 1, answers[i] # <<>>
               PROVE  /\ answers'[i] # <<>>
                      /\ Len(answers'[i]) = 1 => answers'[i] = answers[i]
    OBVIOUS
  <2>1. answers[i] \in Seq(BodyLengths)
    BY DEF AllInv, DataTypes
  <2>2. Len(answers[i]) \in Nat /\ Len(answers[i]) # 0
    BY <2>1
  <2> QED
    BY <1>5, <1>6, <2>2
<1>8. \A m : Genuine(m) => Genuine(m)'
  BY <1>1, <1>3, GenuineKept DEF AllInv
<1>9. LegacyTypeOK'
  BY <1>1, <1>2, LegacyAssumption DEF AllInv, LegacyTypeOK, callVars
<1>10. DataTypes'
  BY <1>2, <1>4 DEF AllInv, DataTypes, callVars
<1>11. LegacyInv'
  <2>1. ASSUME NEW m \in AnswerMessages(id, len, Len(answers[id]) + 1)
        PROVE  Genuine(m)'
    <3>1. m.id = id /\ m.answer = Len(answers[id]) + 1
      BY <1>3, SentAreGenuine
    <3>2. Len(answers[id]) \in Nat
      BY <1>3
    <3> QED
      BY <1>3, <1>5, <3>1, <3>2 DEF Genuine
  <2>2. \A m \in net' : Genuine(m)'
    BY <1>1, <1>8, <2>1 DEF AllInv, LegacyInv
  <2>3. PlacesInv => PlacesInv'
    <3> SUFFICES ASSUME PlacesInv, NEW i \in Filled'
                 PROVE  /\ Genuine(messages[i])'
                        /\ messages'[i].id = ID'
                        /\ messages'[i].seq = i - 1
      BY DEF PlacesInv
    <3>1. messages' = messages /\ ID' = ID /\ i \in Filled
      BY <1>2 DEF callVars, Filled
    <3>2. PICK m : m = messages[i]
      OBVIOUS
    <3>3. Genuine(m)'
      BY <1>8, <3>1, <3>2 DEF PlacesInv
    <3> QED
      BY <3>1, <3>2, <3>3 DEF PlacesInv, Genuine
  <2>4. VectorInv => VectorInv'
    BY <1>2 DEF VectorInv, Filled, callVars
  <2>5. \A i \in 0 .. ID - 1 : answers'[i] # <<>>
    BY <1>7, LegacyAssumption DEF AllInv, LegacyInv, LegacyTypeOK
  <2> QED
    BY <1>1, <1>2, <2>2, <2>3, <2>4, <2>5 DEF AllInv, LegacyInv, callVars
<1>12. ReturnsOwnAnswer'
  <2>1. \A i \in 0 .. ID - 1 : i \in 0 .. MaxCalls - 1 /\ answers[i] # <<>>
    BY LegacyAssumption DEF AllInv, LegacyInv, LegacyTypeOK
  <2> QED
    BY <1>2, <1>7, <2>1 DEF AllInv, ReturnsOwnAnswer
<1>13. UndefinedOnlyIfLastFirst'
  BY <1>2, <1>7, HeardIsAnswered DEF AllInv, UndefinedOnlyIfLastFirst, callVars
<1> QED
  BY <1>9, <1>10, <1>11, <1>12, <1>13 DEF AllInv
-----------------------------------------------------------------------------
(***************************************************************************)
(* The first message of a call.                                            *)
(***************************************************************************)
LEMMA NetFacts ==
  ASSUME AllInv, NEW m \in net
  PROVE  /\ Genuine(m) /\ m \in LegacyMessage /\ m # None
         /\ m.seq \in 0 .. m.num - 1 /\ m.num \in Nat /\ m.num >= 1
         /\ m.length \in HeaderSize .. HeaderSize + PayloadSize
<1>1. Genuine(m) /\ DataTypes
  BY DEF AllInv, LegacyInv
<1>2. /\ m \in LegacyMessage /\ m # None /\ m.seq < m.num
      /\ m.length \in HeaderSize .. HeaderSize + PayloadSize
  BY <1>1, GenuineFacts
<1>3. m.seq \in Nat /\ m.num \in Nat
  BY <1>2 DEF LegacyMessage
<1> QED
  BY <1>1, <1>2, <1>3

LEMMA StepRecvFirst ==
  ASSUME AllInv, RecvFirst
  PROVE  AllInv'
<1>1. PICK m \in net :
        /\ m.id = ID
        /\ Take(m)
        /\ messages' = [i \in 1 .. m.num |-> IF i = m.seq + 1 THEN m ELSE None]
        /\ numReceived' = 1
        /\ lastMessageLength' = IF m.num = 1 THEN m.length ELSE 0
        /\ firstSeq' = m.seq
        /\ pc' = IF m.num = 1 THEN "whole" ELSE "more"
  BY DEF RecvFirst
<1>2. UNCHANGED <<ID, timer, historyVars, requests, losses>>
  BY DEF RecvFirst
<1>3. /\ Genuine(m) /\ m \in LegacyMessage /\ m # None
      /\ m.seq \in 0 .. m.num - 1 /\ m.num \in Nat /\ m.num >= 1
      /\ m.length \in 16 .. 1000
  BY NetFacts DEF HeaderSize, PayloadSize
<1>4. net' \subseteq net /\ dups' \in 0 .. MaxDup
  BY <1>1, TakeFacts
<1>5. messages' \in Seq(LegacyMessage) /\ Len(messages') = m.num
  <2>1. None \in LegacyMessage
    BY DEF None, LegacyMessage
  <2>2. messages' \in [1 .. m.num -> LegacyMessage]
    BY <1>1, <1>3, <2>1
  <2> QED
    BY <1>3, <2>2
<1>6. m.seq + 1 \in 1 .. m.num /\ messages'[m.seq + 1] = m
  BY <1>1, <1>3
<1>7. Filled' = {m.seq + 1}
  <2>1. Filled' = {i \in 1 .. m.num : messages'[i] # None}
    BY <1>5 DEF Filled
  <2>2. \A i \in 1 .. m.num : i # m.seq + 1 => messages'[i] = None
    BY <1>1
  <2> QED
    BY <1>3, <1>6, <2>1, <2>2
<1>8. Cardinality(Filled') = 1
  BY <1>7, FS_Singleton
<1>9. LegacyTypeOK'
  BY <1>1, <1>2, <1>3, <1>4, <1>5
     DEF AllInv, LegacyTypeOK, HeaderSize, PayloadSize
<1>10. DataTypes'
  BY <1>2, <1>5 DEF AllInv, DataTypes, historyVars
<1>11. \A x : Genuine(x) => Genuine(x)'
  BY <1>2 DEF Genuine, historyVars
<1>12. PlacesInv'
  <2> SUFFICES ASSUME NEW i \in Filled'
               PROVE  /\ Genuine(messages[i])'
                      /\ messages'[i].id = ID'
                      /\ messages'[i].seq = i - 1
    BY DEF PlacesInv
  <2>1. i = m.seq + 1 /\ messages'[i] = m
    BY <1>6, <1>7
  <2>2. Genuine(m)'
    BY <1>3, <1>11
  <2>3. Genuine(messages[i])'
    BY <2>1, <2>2 DEF Genuine
  <2>4. messages'[i].id = ID' /\ messages'[i].seq = i - 1
    BY <1>1, <1>2, <1>3, <2>1
  <2> QED
    BY <2>3, <2>4
<1>13. VectorInv'
  <2>1. firstSeq' + 1 \in Filled' /\ messages'[firstSeq' + 1].num = Len(messages')
    BY <1>1, <1>5, <1>6, <1>7
  <2>2. numReceived' = Cardinality(Filled')
    BY <1>1, <1>8
  <2>3. CASE m.num = 1
    <3>1. m.seq = 0 /\ Filled' = {1} /\ Len(messages') = 1 /\ messages'[1] = m
      BY <1>3, <1>5, <1>6, <1>7, <2>3
    <3>2. lastMessageLength' = messages'[1].length /\ 1 .. 1 = {1}
      BY <1>1, <2>3, <3>1
    <3> QED
      BY <2>1, <2>2, <3>1, <3>2 DEF VectorInv
  <2>4. CASE m.num # 1
    <3>1. lastMessageLength' = 0 /\ pc' # "whole"
      BY <1>1, <2>4
    <3>2. Len(messages') \in Filled' => firstSeq' = Len(messages') - 1
      BY <1>1, <1>3, <1>5, <1>7
    <3>3. Len(messages') # 1
      BY <1>5, <2>4
    <3> QED
      BY <2>1, <2>2, <3>1, <3>2, <3>3 DEF VectorInv
  <2> QED
    BY <2>3, <2>4
<1>14. LegacyInv'
  BY <1>1, <1>2, <1>4, <1>11, <1>12, <1>13 DEF AllInv, LegacyInv, historyVars
<1>15. ReturnsOwnAnswer'
  BY <1>2 DEF AllInv, ReturnsOwnAnswer, historyVars
<1>16. UndefinedOnlyIfLastFirst'
  BY <1>1 DEF UndefinedOnlyIfLastFirst
<1> QED
  BY <1>9, <1>10, <1>14, <1>15, <1>16 DEF AllInv
-----------------------------------------------------------------------------
(***************************************************************************)
(* The messages that follow.                                               *)
(***************************************************************************)
(* If the request was answered once, the vector has its answer's length. *)
LEMMA OneAnswer ==
  ASSUME AllInv, pc \in {"more", "whole", "undefined"}, Len(answers[ID]) = 1,
         NEW m, Genuine(m), m.id = ID
  PROVE  /\ m.answer = 1
         /\ m.num = Len(messages)
         /\ Len(messages) = Parts(answers[ID][1])
<1>1. \A x : Genuine(x) /\ x.id = ID => x.answer = 1
  BY DEF Genuine
<1>2. DataTypes /\ firstSeq + 1 \in Filled
  BY DEF AllInv, LegacyInv, VectorInv
<1>3. PICK f : f = messages[firstSeq + 1]
  OBVIOUS
<1>4. Genuine(f) /\ f.id = ID /\ f.num = Len(messages)
  BY <1>2, <1>3 DEF AllInv, LegacyInv, PlacesInv, VectorInv
<1>5. f.num = Parts(answers[f.id][f.answer]) /\ m.num = Parts(answers[m.id][m.answer])
  BY <1>2, <1>4, GenuineFacts
<1>6. m.answer = 1 /\ f.answer = 1
  BY <1>1, <1>4
<1> QED
  BY <1>4, <1>5, <1>6

LEMMA LenFacts ==
  ASSUME AllInv
  PROVE  /\ Len(messages) \in Nat /\ messages \in [1 .. Len(messages) -> LegacyMessage]
         /\ Filled \subseteq 1 .. Len(messages)
         /\ IsFiniteSet(Filled) /\ Cardinality(Filled) \in Nat
         /\ Cardinality(Filled) <= Len(messages)
         /\ Cardinality(Filled) = Len(messages) => Filled = 1 .. Len(messages)
         /\ IsFiniteSet(1 .. Len(messages)) /\ Cardinality(1 .. Len(messages)) = Len(messages)
<1>1. Len(messages) \in Nat /\ messages \in [1 .. Len(messages) -> LegacyMessage]
  BY DEF AllInv, DataTypes
<1>2. Filled \subseteq 1 .. Len(messages)
  BY DEF Filled
<1>3. IsFiniteSet(1 .. Len(messages)) /\ Cardinality(1 .. Len(messages)) = Len(messages)
  BY <1>1, FS_Interval
<1>4. /\ IsFiniteSet(Filled) /\ Cardinality(Filled) <= Len(messages)
      /\ Cardinality(Filled) = Len(messages) => Filled = 1 .. Len(messages)
  <2>1. Filled \in SUBSET (1 .. Len(messages))
    BY <1>2
  <2> QED
    BY <1>3, <2>1, FS_Subset
<1> QED
  BY <1>1, <1>2, <1>3, <1>4, FS_CardinalityType

LEMMA LenOf ==
  ASSUME NEW n \in Nat, NEW s \in [1 .. n -> LegacyMessage]
  PROVE  s \in Seq(LegacyMessage) /\ Len(s) = n
OBVIOUS

(* The loop keeps a message for an empty place. *)
LEMMA StepStore ==
  ASSUME AllInv, pc = "more", NEW m \in net, m.id = ID, m.seq < Len(messages),
         messages[m.seq + 1] = None,
         messages' = [messages EXCEPT ![m.seq + 1] = m],
         numReceived' = numReceived + 1,
         lastMessageLength' = IF m.seq = Len(messages) - 1 THEN m.length
                              ELSE lastMessageLength,
         pc' = IF numReceived + 1 < Len(messages) THEN "more" ELSE "whole",
         net' \subseteq net, dups' \in 0 .. MaxDup,
         UNCHANGED <<ID, timer, firstSeq, historyVars, requests, losses>>
  PROVE  AllInv'
<1>1. /\ Genuine(m) /\ m \in LegacyMessage /\ m # None
      /\ m.seq \in 0 .. m.num - 1 /\ m.num \in Nat /\ m.length \in 16 .. 1000
  BY NetFacts DEF HeaderSize, PayloadSize
<1>2. /\ Len(messages) \in Nat /\ messages \in [1 .. Len(messages) -> LegacyMessage]
      /\ Filled \subseteq 1 .. Len(messages)
      /\ IsFiniteSet(Filled) /\ Cardinality(Filled) \in Nat
  BY LenFacts
<1>3. m.seq + 1 \in 1 .. Len(messages)
  BY <1>1, <1>2
<1>4. /\ messages' \in [1 .. Len(messages) -> LegacyMessage]
      /\ messages'[m.seq + 1] = m
      /\ \A i \in 1 .. Len(messages) : i # m.seq + 1 => messages'[i] = messages[i]
  BY <1>1, <1>2, <1>3
<1>5. messages' \in Seq(LegacyMessage) /\ Len(messages') = Len(messages)
  BY <1>2, <1>4, LenOf
<1>6. m.seq + 1 \notin Filled /\ Filled' = Filled \cup {m.seq + 1}
  BY <1>1, <1>3, <1>4, <1>5 DEF Filled
<1>7. Cardinality(Filled') = Cardinality(Filled) + 1
  BY <1>2, <1>6, FS_AddElement
<1>8. PlacesInv /\ VectorInv /\ DataTypes /\ LegacyTypeOK
  BY DEF AllInv, LegacyInv
<1>9. numReceived < Len(messages) /\ numReceived = Cardinality(Filled)
  BY <1>8 DEF LegacyTypeOK, VectorInv
<1>10. LegacyTypeOK'
  <2>1. numReceived' \in 0 .. Len(messages')
    BY <1>2, <1>5, <1>9
  <2>2. lastMessageLength' \in 0 .. HeaderSize + PayloadSize
    BY <1>1, <1>8 DEF LegacyTypeOK, HeaderSize, PayloadSize
  <2>3. pc' = "more" => numReceived' < Len(messages')
    BY <1>2, <1>5, <1>9
  <2> QED
    BY <1>8, <2>1, <2>2, <2>3 DEF LegacyTypeOK
<1>11. DataTypes'
  BY <1>5, <1>8 DEF DataTypes, historyVars
<1>12. \A x : Genuine(x) => Genuine(x)'
  BY DEF Genuine, historyVars
<1>13. PlacesInv'
  <2> SUFFICES ASSUME NEW i \in Filled'
               PROVE  /\ Genuine(messages[i])'
                      /\ messages'[i].id = ID'
                      /\ messages'[i].seq = i - 1
    BY DEF PlacesInv
  <2>1. CASE i = m.seq + 1
    <3>1. messages'[i] = m /\ Genuine(m)'
      BY <1>1, <1>4, <1>12, <2>1
    <3>2. Genuine(messages[i])'
      BY <3>1 DEF Genuine
    <3> QED
      BY <1>1, <2>1, <3>1, <3>2
  <2>2. CASE i # m.seq + 1
    <3>1. i \in Filled /\ messages'[i] = messages[i]
      BY <1>2, <1>4, <1>6, <2>2
    <3>2. PICK x : x = messages[i]
      OBVIOUS
    <3>3. Genuine(x)' /\ x.id = ID /\ x.seq = i - 1
      BY <1>8, <1>12, <3>1, <3>2 DEF PlacesInv
    <3>4. Genuine(messages[i])'
      BY <3>1, <3>2, <3>3 DEF Genuine
    <3> QED
      BY <3>1, <3>2, <3>3, <3>4
  <2> QED
    BY <2>1, <2>2
<1>14. VectorInv'
  <2>1. firstSeq + 1 \in Filled /\ messages[firstSeq + 1].num = Len(messages)
    BY <1>8 DEF VectorInv
  <2>2. firstSeq + 1 \in 1 .. Len(messages) /\ firstSeq + 1 # m.seq + 1
    BY <1>2, <1>6, <2>1
  <2>3. firstSeq' + 1 \in Filled' /\ messages'[firstSeq' + 1].num = Len(messages')
    BY <1>4, <1>5, <1>6, <2>1, <2>2
  <2>4. numReceived' = Cardinality(Filled')
    BY <1>7, <1>9
  <2>5. lastMessageLength' =
          IF Len(messages') \in Filled' /\ (Len(messages') = 1 \/ firstSeq' # Len(messages') - 1)
          THEN messages'[Len(messages')].length ELSE 0
    <3>1. CASE m.seq = Len(messages) - 1
      <4>1. Len(messages) = m.seq + 1
        BY <1>2, <3>1
      <4>2. Len(messages') \in Filled' /\ messages'[Len(messages')] = m
        BY <1>4, <1>5, <1>6, <4>1
      <4>3. firstSeq # Len(messages) - 1
        BY <2>2, <4>1, <3>1
      <4> QED
        BY <1>5, <3>1, <4>2, <4>3
    <3>2. CASE m.seq # Len(messages) - 1
      <4>1. Len(messages) # m.seq + 1
        BY <1>1, <1>2, <3>2
      <4>2. Len(messages') \in Filled' <=> Len(messages) \in Filled
        BY <1>5, <1>6, <4>1
      <4>3. Len(messages) \in Filled => messages'[Len(messages)] = messages[Len(messages)]
        BY <1>2, <1>4, <4>1
      <4> QED
        BY <1>5, <1>8, <3>2, <4>2, <4>3 DEF VectorInv
    <3> QED
      BY <3>1, <3>2
  <2>6. pc' = "whole" => Filled' = 1 .. Len(messages')
    <3>1. Filled' \subseteq 1 .. Len(messages)
      BY <1>2, <1>3, <1>6
    <3>2. IsFiniteSet(1 .. Len(messages)) /\ Cardinality(1 .. Len(messages)) = Len(messages)
      BY LenFacts
    <3>3. pc' = "whole" => Cardinality(Filled') = Len(messages)
      BY <1>2, <1>7, <1>9
    <3> QED
      BY <1>5, <3>1, <3>2, <3>3, FS_Subset
  <2> QED
    BY <2>3, <2>4, <2>5, <2>6 DEF VectorInv
<1>15. LegacyInv'
  BY <1>12, <1>13, <1>14 DEF AllInv, LegacyInv, historyVars
<1>16. ReturnsOwnAnswer'
  BY DEF AllInv, ReturnsOwnAnswer, historyVars
<1>17. UndefinedOnlyIfLastFirst'
  BY DEF UndefinedOnlyIfLastFirst
<1> QED
  BY <1>10, <1>11, <1>15, <1>16, <1>17 DEF AllInv

(* The vector as it was, whatever the network keeps. *)
LEMMA SameVector ==
  ASSUME AllInv, pc = "more",
         UNCHANGED <<ID, timer, callVars, historyVars, requests, losses>>,
         pc' \in {"more", "undefined"},
         net' \subseteq net, dups' \in 0 .. MaxDup,
         UndefinedOnlyIfLastFirst'
  PROVE  AllInv'
<1>1. PlacesInv' /\ VectorInv'
  <2>1. PlacesInv /\ VectorInv
    BY DEF AllInv, LegacyInv
  <2> QED
    BY <2>1 DEF PlacesInv, VectorInv, Filled, Genuine, callVars, historyVars
<1>2. LegacyTypeOK'
  BY DEF AllInv, LegacyTypeOK, callVars
<1>3. DataTypes'
  BY DEF AllInv, DataTypes, callVars, historyVars
<1>4. LegacyInv'
  BY <1>1 DEF AllInv, LegacyInv, Genuine, historyVars
<1>5. ReturnsOwnAnswer'
  BY DEF AllInv, ReturnsOwnAnswer, historyVars
<1> QED
  BY <1>2, <1>3, <1>4, <1>5 DEF AllInv

LEMMA StepRecvMore ==
  ASSUME AllInv, RecvMore
  PROVE  AllInv'
<1>1. PICK m \in net :
        /\ m.id = ID
        /\ Take(m)
        /\ \/ m.seq < Len(messages) /\ StoreMessage(m)
           \/ /\ m.seq >= Len(messages)
              /\ pc' = "undefined"
              /\ UNCHANGED <<messages, numReceived, lastMessageLength>>
  BY DEF RecvMore
<1>2. pc = "more" /\ UNCHANGED <<ID, timer, firstSeq, historyVars, requests, losses>>
  BY DEF RecvMore
<1>3. net' \subseteq net /\ dups' \in 0 .. MaxDup
  BY <1>1, TakeFacts
<1>4. CASE m.seq < Len(messages) /\ messages[m.seq + 1] = None /\ StoreMessage(m)
  BY <1>1, <1>2, <1>3, <1>4, StepStore DEF StoreMessage
<1>5. CASE messages[m.seq + 1] # None /\ StoreMessage(m)
  <2>1. UNCHANGED callVars /\ pc' = "more"
    BY <1>2, <1>5 DEF StoreMessage, callVars
  <2>2. UndefinedOnlyIfLastFirst'
    BY <2>1 DEF UndefinedOnlyIfLastFirst
  <2> QED
    BY <1>2, <1>3, <2>1, <2>2, SameVector
<1>6. CASE /\ m.seq >= Len(messages)
           /\ pc' = "undefined"
           /\ UNCHANGED <<messages, numReceived, lastMessageLength>>
  <2>1. UNCHANGED callVars
    BY <1>2, <1>6 DEF callVars
  <2>2. Len(answers[ID]) # 1
    <3> SUFFICES ASSUME Len(answers[ID]) = 1 PROVE FALSE
      OBVIOUS
    <3>1. Genuine(m) /\ m.seq \in 0 .. m.num - 1 /\ m.num \in Nat
      BY NetFacts
    <3>2. m.num = Len(messages)
      BY <1>1, <1>2, <3>1, OneAnswer
    <3>3. m.seq >= Len(messages)
      BY <1>6
    <3>4. m.seq \in Nat /\ m.seq < m.num
      BY <3>1
    <3> QED
      BY <3>1, <3>2, <3>3, <3>4
  <2>3. UndefinedOnlyIfLastFirst'
    BY <1>2, <2>2 DEF UndefinedOnlyIfLastFirst, historyVars
  <2> QED
    BY <1>2, <1>3, <1>6, <2>1, <2>3, SameVector
<1> QED
  BY <1>1, <1>4, <1>5, <1>6 DEF StoreMessage
-----------------------------------------------------------------------------
(***************************************************************************)
(* The call returns.                                                       *)
(***************************************************************************)
(* What all places of a vector that is whole hold. *)
LEMMA WholeFacts ==
  ASSUME AllInv, pc = "whole"
  PROVE  /\ Len(messages) \in Nat /\ Len(messages) >= 1
         /\ \A i \in 1 .. Len(messages) : /\ Genuine(messages[i])
                                          /\ messages[i].id = ID
                                          /\ messages[i].seq = i - 1
         /\ messages[Len(messages)].length \in 16 .. 1000
         /\ Len(messages) = 1 \/ firstSeq # Len(messages) - 1 =>
              lastMessageLength = messages[Len(messages)].length
         /\ ~(Len(messages) = 1 \/ firstSeq # Len(messages) - 1) => lastMessageLength = 0
<1>1. PlacesInv /\ VectorInv /\ DataTypes
  BY DEF AllInv, LegacyInv
<1>2. Len(messages) \in Nat /\ Filled = 1 .. Len(messages) /\ firstSeq + 1 \in 1 .. Len(messages)
  BY <1>1, LenFacts DEF VectorInv
<1>3. Len(messages) >= 1 /\ Len(messages) \in 1 .. Len(messages)
  BY <1>2
<1>4. \A i \in 1 .. Len(messages) : /\ Genuine(messages[i])
                                    /\ messages[i].id = ID
                                    /\ messages[i].seq = i - 1
  BY <1>1, <1>2 DEF PlacesInv
<1>5. messages[Len(messages)].length \in 16 .. 1000
  <2>1. PICK m : m = messages[Len(messages)]
    OBVIOUS
  <2>2. Genuine(m)
    BY <1>3, <1>4, <2>1
  <2>3. m.length \in HeaderSize .. HeaderSize + PayloadSize
    BY <1>1, <2>2, GenuineFacts
  <2> QED
    BY <2>1, <2>3 DEF HeaderSize, PayloadSize
<1>6. lastMessageLength =
        IF Len(messages) = 1 \/ firstSeq # Len(messages) - 1
        THEN messages[Len(messages)].length ELSE 0
  BY <1>1, <1>2, <1>3 DEF VectorInv
<1> QED
  BY <1>2, <1>3, <1>4, <1>5, <1>6

(* What is returned has the length of the only answer there was. *)
LEMMA RightLength ==
  ASSUME AllInv, pc = "whole", lastMessageLength >= HeaderSize, Len(answers[ID]) = 1
  PROVE  /\ ResponseLength = answers[ID][1]
         /\ Len(messages) = Parts(ResponseLength)
<1>1. /\ Len(messages) \in Nat /\ Len(messages) >= 1
      /\ \A i \in 1 .. Len(messages) : /\ Genuine(messages[i])
                                       /\ messages[i].id = ID
                                       /\ messages[i].seq = i - 1
      /\ Len(messages) = 1 \/ firstSeq # Len(messages) - 1 =>
           lastMessageLength = messages[Len(messages)].length
      /\ ~(Len(messages) = 1 \/ firstSeq # Len(messages) - 1) => lastMessageLength = 0
  BY WholeFacts
<1>2. lastMessageLength = messages[Len(messages)].length
  BY <1>1 DEF HeaderSize
<1>3. PICK m : m = messages[Len(messages)]
  OBVIOUS
<1>4. Len(messages) \in 1 .. Len(messages)
  BY <1>1
<1>5. Genuine(m) /\ m.id = ID /\ m.seq = Len(messages) - 1
  BY <1>1, <1>3, <1>4
<1>6. /\ m.answer = 1 /\ m.num = Len(messages)
      /\ Len(messages) = Parts(answers[ID][1])
  BY <1>5, OneAnswer
<1>7. DataTypes
  BY DEF AllInv
<1>8. m.seq = m.num - 1 =>
        answers[m.id][m.answer] = m.seq * PayloadSize + (m.length - HeaderSize)
  BY <1>5, <1>7, GenuineFacts
<1>9. answers[ID][1] = (Len(messages) - 1) * PayloadSize + (m.length - HeaderSize)
  BY <1>5, <1>6, <1>8
<1> QED
  BY <1>2, <1>3, <1>6, <1>9 DEF ResponseLength

LEMMA StepReturn ==
  ASSUME AllInv, pc = "whole", timer' = FALSE,
         lastMessageLength >= HeaderSize,
         results' = [results EXCEPT ![ID] =
                       [messages |-> messages, length |-> ResponseLength]],
         ID' = ID + 1, pc' = "idle",
         messages' = <<>>, numReceived' = 0, lastMessageLength' = 0, firstSeq' = 0,
         UNCHANGED <<answers, netVars>>
  PROVE  AllInv'
<1>1. ID \in 0 .. MaxCalls - 1 /\ answers[ID] # <<>>
  BY HeardIsAnswered
<1>2. MaxCalls \in Nat /\ ID \in Nat /\ ID + 1 \in 0 .. MaxCalls
  BY <1>1, LegacyAssumption
<1>3. messages' \in Seq(LegacyMessage) /\ Len(messages') = 0
  <2>1. <<>> \in Seq(LegacyMessage) /\ Len(<<>>) = 0
    OBVIOUS
  <2> QED
    BY <2>1
<1>4. LegacyTypeOK'
  <2>1. numReceived' \in 0 .. Len(messages')
    BY <1>3
  <2>2. lastMessageLength' \in 0 .. HeaderSize + PayloadSize
    BY DEF HeaderSize, PayloadSize
  <2> QED
    BY <1>2, <2>1, <2>2 DEF AllInv, LegacyTypeOK, netVars
<1>5. [messages |-> messages, length |-> ResponseLength] \in Result
  <2>1. messages \in Seq(LegacyMessage) /\ Len(messages) \in Nat
    BY LenFacts DEF AllInv, DataTypes
  <2>2. lastMessageLength \in Int
    BY DEF AllInv, LegacyTypeOK, HeaderSize, PayloadSize
  <2>3. ResponseLength \in Int
    BY <2>1, <2>2 DEF ResponseLength, HeaderSize, PayloadSize
  <2> QED
    BY <2>1, <2>3 DEF Result
<1>6. DataTypes'
  BY <1>1, <1>3, <1>5 DEF AllInv, DataTypes
<1>7. LegacyInv'
  <2>1. \A id \in 0 .. ID' - 1 : answers'[id] # <<>>
    BY <1>1, <1>2 DEF AllInv, LegacyInv
  <2>2. requests' \subseteq 0 .. MaxCalls - 1 /\ \A m \in net' : Genuine(m)'
    BY DEF AllInv, LegacyInv, Genuine, netVars
  <2> QED
    BY <2>1, <2>2 DEF LegacyInv
<1>8. ReturnsOwnAnswer'
  <2> SUFFICES ASSUME NEW id \in 0 .. ID
               PROVE  LET r == results'[id]
                      IN  /\ \A i \in 1 .. Len(r.messages) :
                               r.messages[i].id = id /\ r.messages[i].seq = i - 1
                          /\ Len(answers[id]) = 1 =>
                               /\ r.length = answers[id][1]
                               /\ Len(r.messages) = Parts(r.length)
    BY <1>2 DEF ReturnsOwnAnswer
  <2>1. CASE id = ID
    <3>1. results'[id] = [messages |-> messages, length |-> ResponseLength]
      BY <1>1, <2>1 DEF AllInv, DataTypes
    <3>2. \A i \in 1 .. Len(messages) : messages[i].id = id /\ messages[i].seq = i - 1
      BY <2>1, WholeFacts
    <3>3. Len(answers[id]) = 1 => /\ ResponseLength = answers[id][1]
                                  /\ Len(messages) = Parts(ResponseLength)
      BY <2>1, RightLength
    <3> QED
      BY <3>1, <3>2, <3>3
  <2>2. CASE id # ID
    <3>1. id \in 0 .. ID - 1 /\ id \in 0 .. MaxCalls - 1
      BY <1>1, <1>2, <2>2
    <3>2. results'[id] = results[id]
      BY <2>2, <3>1 DEF AllInv, DataTypes
    <3> QED
      BY <3>1, <3>2 DEF AllInv, ReturnsOwnAnswer
  <2> QED
    BY <2>1, <2>2
<1>9. UndefinedOnlyIfLastFirst'
  BY DEF UndefinedOnlyIfLastFirst
<1> QED
  BY <1>4, <1>6, <1>7, <1>8, <1>9 DEF AllInv

(* memcpy with the length that was never recorded. *)
LEMMA StepOverrun ==
  ASSUME AllInv, pc = "whole", timer' = FALSE,
         lastMessageLength < HeaderSize, pc' = "undefined",
         UNCHANGED <<ID, callVars, results>>,
         UNCHANGED <<answers, netVars>>
  PROVE  AllInv'
<1>1. LegacyTypeOK'
  BY DEF AllInv, LegacyTypeOK, callVars, netVars
<1>2. DataTypes'
  BY DEF AllInv, DataTypes, callVars
<1>3. PlacesInv' /\ VectorInv'
  <2>1. PlacesInv /\ VectorInv
    BY DEF AllInv, LegacyInv
  <2> QED
    BY <2>1 DEF PlacesInv, VectorInv, Filled, Genuine, callVars
<1>4. LegacyInv'
  BY <1>3 DEF AllInv, LegacyInv, Genuine, netVars
<1>5. ReturnsOwnAnswer'
  BY DEF AllInv, ReturnsOwnAnswer
<1>6. UndefinedOnlyIfLastFirst'
  <2>1. Len(messages) \in Nat /\ Len(messages) >= 1
    BY WholeFacts
  <2>2. ~(Len(messages) = 1 \/ firstSeq # Len(messages) - 1)
    <3>1. Len(messages) = 1 \/ firstSeq # Len(messages) - 1 =>
            lastMessageLength = messages[Len(messages)].length
      BY WholeFacts
    <3>2. messages[Len(messages)].length \in 16 .. 1000
      BY WholeFacts
    <3>3. lastMessageLength # messages[Len(messages)].length
      <4>1. lastMessageLength \in 0 .. 1000
        BY DEF HeaderSize, PayloadSize, AllInv, LegacyTypeOK
      <4>2. lastMessageLength < 16
        BY DEF HeaderSize
      <4>3. \A x \in 16 .. 1000 : lastMessageLength # x
        BY <4>1, <4>2
      <4> QED
        BY <3>2, <4>3
    <3> QED
      BY <3>1, <3>3
  <2> QED
    BY <2>1, <2>2 DEF UndefinedOnlyIfLastFirst, callVars
<1> QED
  BY <1>1, <1>2, <1>4, <1>5, <1>6 DEF AllInv

-----------------------------------------------------------------------------
LEMMA StepAllInv == AllInv /\ [LegacyNext]_legacyVars => AllInv'
<1> SUFFICES ASSUME AllInv, [LegacyNext]_legacyVars PROVE AllInv'
  OBVIOUS
<1>1. /\ ID \in 0 .. MaxCalls /\ MaxCalls \in Nat /\ timer \in BOOLEAN
      /\ losses \in 0 .. MaxLoss /\ dups \in 0 .. MaxDup
      /\ requests \subseteq 0 .. MaxCalls - 1
  BY LegacyAssumption DEF AllInv, LegacyTypeOK, LegacyInv
<1>2. CASE Call
  <2>1. requests' \subseteq 0 .. MaxCalls - 1
    BY <1>1, <1>2 DEF Call
  <2>2. timer' \in BOOLEAN
    BY <1>2 DEF Call
  <2> QED
    BY <1>1, <1>2, <2>1, <2>2, QuietStep DEF Call
<1>3. CASE CallFails
  BY <1>1, <1>3, QuietStep DEF CallFails, netVars
<1>4. CASE RecvFirst
  BY <1>4, StepRecvFirst
<1>5. CASE RecvMore
  BY <1>5, StepRecvMore
<1>6. CASE RecvOther
  <2>1. PICK m \in net : Take(m)
    BY <1>6 DEF RecvOther
  <2>2. net' \subseteq net /\ dups' \in 0 .. MaxDup
    BY <2>1, TakeFacts
  <2> QED
    BY <1>1, <1>6, <2>2, QuietStep DEF RecvOther
<1>7. CASE RecvFails
  BY <1>1, <1>7, QuietStep DEF RecvFails, netVars
<1>8. CASE Reassemble
  BY <1>8, StepReturn, StepOverrun DEF Reassemble
<1>9. CASE TimedOut
  BY <1>1, <1>9, QuietStep DEF TimedOut, netVars
<1>10. CASE Answer
  BY <1>10, StepAnswer
<1>11. CASE Lose
  <2>1. net' \subseteq net /\ requests' \subseteq requests
    BY <1>11 DEF Lose
  <2>2. losses' \in 0 .. MaxLoss
    BY <1>1, <1>11, LegacyAssumption DEF Lose
  <2> QED
    BY <1>1, <1>11, <2>1, <2>2, QuietStep DEF Lose
<1>12. CASE UNCHANGED legacyVars
  BY <1>1, <1>12, QuietStep DEF legacyVars, netVars
<1> QED
  BY <1>2, <1>3, <1>4, <1>5, <1>6, <1>7, <1>8, <1>9, <1>10, <1>11, <1>12 DEF LegacyNext

(***************************************************************************)
(* The invariant holds however many calls there are, whatever the lengths  *)
(* of their answers and however often the network loses or repeats one.    *)
(***************************************************************************)
LEMMA AllInvHolds == LegacySpec => []AllInv
BY InitAllInv, StepAllInv, PTL DEF LegacySpec

(***************************************************************************)
(* The messages received are counted and their places are within the       *)
(* vector; the length of the last is one a datagram may have.              *)
(***************************************************************************)
THEOREM LegacyTypesOK == LegacySpec => []LegacyTypeOK
<1>1. AllInv => LegacyTypeOK
  BY DEF AllInv
<1> QED
  BY <1>1, AllInvHolds, PTL

(***************************************************************************)
(* LegacyInv for every choice of the constants: the vector of a call holds *)
(* only messages of the answers to it, each in its place, and the count of *)
(* places filled and the length of the last are those of the vector.       *)
(***************************************************************************)
THEOREM VectorIsOwn == LegacySpec => []LegacyInv
<1>1. AllInv => LegacyInv
  BY DEF AllInv
<1> QED
  BY <1>1, AllInvHolds, PTL

(***************************************************************************)
(* ReturnsOwnAnswer for every choice of the constants: late answers to     *)
(* earlier calls, and messages in any order and any number of copies, do   *)
(* not get into what a call returns.                                       *)
(***************************************************************************)
THEOREM AnswersAreOwn == LegacySpec => []ReturnsOwnAnswer
<1>1. AllInv => ReturnsOwnAnswer
  BY DEF AllInv
<1> QED
  BY <1>1, AllInvHolds, PTL

(***************************************************************************)
(* UndefinedOnlyIfLastFirst for every choice of the constants: a request   *)
(* answered once meets undefined behaviour in one case only, the last of   *)
(* several messages arriving first.                                        *)
(***************************************************************************)
THEOREM OnlyLastFirstIsUndefined == LegacySpec => []UndefinedOnlyIfLastFirst
<1>1. AllInv => UndefinedOnlyIfLastFirst
  BY DEF AllInv
<1> QED
  BY <1>1, AllInvHolds, PTL
=============================================================================
