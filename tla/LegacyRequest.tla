---------------------------- MODULE LegacyRequest ----------------------------
(***************************************************************************)
(* sendRequest, the request with one response and a timeout which          *)
(* clientMessenger.h still offers beside sendRequestNoResponse.  The       *)
(* client numbers its requests and ignores messages with another number;   *)
(* SIGALRM may end it at any time between setTimer and stopTimer.  The     *)
(* server it needs answers a request whenever it arrives and sends the     *)
(* answer with sendResponse; UDP may lose, repeat and reorder both.        *)
(***************************************************************************)
EXTENDS Integers, Sequences, FiniteSets

CONSTANTS
  MaxCalls,     (* bound: calls of sendRequest                              *)
  Timeouts,     (* seconds the caller may be willing to wait                *)
  BodyLengths,  (* lengths an answer may have                               *)
  MaxLoss,      (* bound: datagrams the network loses                       *)
  MaxDup        (* bound: datagrams the network delivers once more          *)

ASSUME LegacyAssumption ==
  /\ MaxCalls \in Nat
  /\ Timeouts \subseteq Nat
  /\ BodyLengths \subseteq Nat
  /\ MaxLoss \in Nat
  /\ MaxDup \in Nat

VARIABLES
  pc,                 (* "idle", "first", "more", "whole" inside sendRequest,
                         "quit", or "undefined" after undefined behaviour   *)
  ID,                 (* number of the call                                 *)
  timer,              (* whether the interval timer is armed                *)
  messages,           (* the message received for each place, or None       *)
  numReceived,        (* places filled                                      *)
  lastMessageLength,  (* bytes of the message in the last place             *)
  firstSeq,           (* history: place of the message received first       *)
  results,            (* history: by call, what sendRequest returned        *)
  answers,            (* history: by call, the lengths of the answers sent  *)
  requests,           (* network: numbers of requests on their way          *)
  net,                (* network: messages on their way                     *)
  losses, dups        (* network: how many were lost, delivered again       *)

callVars == <<messages, numReceived, lastMessageLength, firstSeq>>
historyVars == <<results, answers>>
netVars == <<requests, net, losses, dups>>
legacyVars == <<pc, ID, timer, callVars, historyVars, netVars>>

-----------------------------------------------------------------------------
HeaderSize == 16
PayloadSize == 1000 - HeaderSize

Parts(len) == IF len = 0 THEN 1 ELSE (len + PayloadSize - 1) \div PayloadSize

PartLength(len, i) ==
  HeaderSize + (IF i < Parts(len) - 1 THEN PayloadSize ELSE len - i * PayloadSize)

(* The messages of one answer; k tells two answers to one request apart. *)
AnswerMessages(id, len, k) ==
  {[id |-> id, num |-> Parts(len), seq |-> i, length |-> PartLength(len, i),
    answer |-> k] : i \in 0 .. Parts(len) - 1}

None == [id |-> -1, num |-> 0, seq |-> 0, length |-> 0, answer |-> 0]

Waiting == pc \in {"first", "more"}

-----------------------------------------------------------------------------
(***************************************************************************)
(* The client.                                                             *)
(***************************************************************************)
(* send(), then setTimer: a timeout of no time at all disarms the timer. *)
Call ==
  /\ pc = "idle" /\ ID < MaxCalls
  /\ requests' = requests \cup {ID}
  /\ \E timeout \in Timeouts : timer' = (timeout > 0)
  /\ pc' = "first"
  /\ UNCHANGED <<ID, callVars, historyVars, net, losses, dups>>

(* send() fails. *)
CallFails ==
  /\ pc = "idle" /\ ID < MaxCalls
  /\ pc' = "quit"
  /\ UNCHANGED <<ID, timer, callVars, historyVars, netVars>>

(* recv() takes a message; the network may keep a copy. *)
Take(m) ==
  \/ net' = net \ {m} /\ UNCHANGED dups
  \/ dups < MaxDup /\ dups' = dups + 1 /\ UNCHANGED net

(* Mutant: recvMessage takes whatever comes. *)
RecvAnyFirst ==
  /\ pc = "first"
  /\ \E m \in net :
       /\ Take(m)
       /\ messages' = [i \in 1 .. m.num |-> IF i = m.seq + 1 THEN m ELSE None]
       /\ numReceived' = 1
       /\ lastMessageLength' = IF m.num = 1 THEN m.length ELSE 0
       /\ firstSeq' = m.seq
       /\ pc' = IF m.num = 1 THEN "whole" ELSE "more"
  /\ UNCHANGED <<ID, timer, historyVars, requests, losses>>

(* Mutant: the timer is stopped once the server has been heard of. *)
RecvFirstStops ==
  /\ pc = "first"
  /\ \E m \in net :
       /\ m.id = ID
       /\ Take(m)
       /\ messages' = [i \in 1 .. m.num |-> IF i = m.seq + 1 THEN m ELSE None]
       /\ numReceived' = 1
       /\ lastMessageLength' = IF m.num = 1 THEN m.length ELSE 0
       /\ firstSeq' = m.seq
       /\ pc' = IF m.num = 1 THEN "whole" ELSE "more"
  /\ timer' = FALSE
  /\ UNCHANGED <<ID, historyVars, requests, losses>>

(* The first message with the right number says how many there are. *)
RecvFirst ==
  /\ pc = "first"
  /\ \E m \in net :
       /\ m.id = ID
       /\ Take(m)
       /\ messages' = [i \in 1 .. m.num |-> IF i = m.seq + 1 THEN m ELSE None]
       /\ numReceived' = 1
       /\ lastMessageLength' = IF m.num = 1 THEN m.length ELSE 0
       /\ firstSeq' = m.seq
       /\ pc' = IF m.num = 1 THEN "whole" ELSE "more"
  /\ UNCHANGED <<ID, timer, historyVars, requests, losses>>

(* Mutant: a message that comes again is counted again. *)
StoreAgain(m) ==
  /\ messages' = [messages EXCEPT ![m.seq + 1] = m]
  /\ numReceived' = numReceived + 1
  /\ lastMessageLength' = IF m.seq = Len(messages) - 1 THEN m.length
                          ELSE lastMessageLength
  /\ pc' = IF numReceived + 1 < Len(messages) THEN "more" ELSE "whole"

(* Mutant: the loop goes on when every place is filled. *)
StoreAndWait(m) ==
  /\ messages[m.seq + 1] = None
  /\ messages' = [messages EXCEPT ![m.seq + 1] = m]
  /\ numReceived' = numReceived + 1
  /\ lastMessageLength' = IF m.seq = Len(messages) - 1 THEN m.length
                          ELSE lastMessageLength
  /\ pc' = IF numReceived + 1 <= Len(messages) THEN "more" ELSE "whole"

(* A message for a place of the vector: kept if the place is empty. *)
StoreMessage(m) ==
  \/ /\ messages[m.seq + 1] = None
     /\ messages' = [messages EXCEPT ![m.seq + 1] = m]
     /\ numReceived' = numReceived + 1
     /\ lastMessageLength' = IF m.seq = Len(messages) - 1 THEN m.length
                             ELSE lastMessageLength
     /\ pc' = IF numReceived + 1 < Len(messages) THEN "more" ELSE "whole"
  \/ /\ messages[m.seq + 1] # None
     /\ UNCHANGED <<messages, numReceived, lastMessageLength, pc>>

(* One iteration of the loop; a place beyond the vector is undefined. *)
RecvMore ==
  /\ pc = "more"
  /\ \E m \in net :
       /\ m.id = ID
       /\ Take(m)
       /\ \/ m.seq < Len(messages) /\ StoreMessage(m)
          \/ /\ m.seq >= Len(messages)
             /\ pc' = "undefined"
             /\ UNCHANGED <<messages, numReceived, lastMessageLength>>
  /\ UNCHANGED <<ID, timer, firstSeq, historyVars, requests, losses>>

(* recvMessage goes on to the next message if the number is not this call's. *)
RecvOther ==
  /\ Waiting
  /\ \E m \in net : m.id # ID /\ Take(m)
  /\ UNCHANGED <<pc, ID, timer, callVars, historyVars, requests, losses>>

ResponseLength ==
  (Len(messages) - 1) * PayloadSize + (lastMessageLength - HeaderSize)

(* Mutant: the timer is left running. *)
ReassembleArmed ==
  /\ pc = "whole"
  /\ lastMessageLength >= HeaderSize
  /\ results' = [results EXCEPT ![ID] =
                   [messages |-> messages, length |-> ResponseLength]]
  /\ ID' = ID + 1
  /\ pc' = "idle"
  /\ messages' = <<>>
  /\ numReceived' = 0
  /\ lastMessageLength' = 0
  /\ firstSeq' = 0
  /\ UNCHANGED <<timer, answers, netVars>>

(***************************************************************************)
(* The messages are copied into one buffer.  If the last place was filled  *)
(* by the first of several messages its length was never recorded: 16 is   *)
(* taken off zero and memcpy is asked for nearly all of the address space. *)
(***************************************************************************)
Reassemble ==
  /\ pc = "whole"
  /\ timer' = FALSE
  /\ \/ /\ lastMessageLength >= HeaderSize
        /\ results' = [results EXCEPT ![ID] =
                         [messages |-> messages, length |-> ResponseLength]]
        /\ ID' = ID + 1
        /\ pc' = "idle"
        /\ messages' = <<>>
        /\ numReceived' = 0
        /\ lastMessageLength' = 0
        /\ firstSeq' = 0
     \/ /\ lastMessageLength < HeaderSize
        /\ pc' = "undefined"
        /\ UNCHANGED <<ID, callVars, results>>
  /\ UNCHANGED <<answers, netVars>>

(* recv() fails: nobody listens on the server's port. *)
RecvFails ==
  /\ Waiting
  /\ pc' = "quit"
  /\ UNCHANGED <<ID, timer, callVars, historyVars, netVars>>

(* SIGALRM: the handler quits, wherever the client is. *)
TimedOut ==
  /\ timer
  /\ pc \in {"first", "more", "whole"}
  /\ pc' = "quit"
  /\ timer' = FALSE
  /\ UNCHANGED <<ID, callVars, historyVars, netVars>>

-----------------------------------------------------------------------------
(***************************************************************************)
(* The server answers a request, which the network may deliver again.      *)
(***************************************************************************)
Answer ==
  /\ \E id \in requests : \E len \in BodyLengths :
       /\ net' = net \cup AnswerMessages(id, len, Len(answers[id]) + 1)
       /\ answers' = [answers EXCEPT ![id] = Append(@, len)]
       /\ \/ requests' = requests \ {id} /\ UNCHANGED dups
          \/ dups < MaxDup /\ dups' = dups + 1 /\ UNCHANGED requests
  /\ UNCHANGED <<pc, ID, timer, callVars, results, losses>>

Lose ==
  /\ losses < MaxLoss
  /\ losses' = losses + 1
  /\ \/ \E m \in net : net' = net \ {m} /\ UNCHANGED requests
     \/ \E id \in requests : requests' = requests \ {id} /\ UNCHANGED net
  /\ UNCHANGED <<pc, ID, timer, callVars, historyVars, dups>>

-----------------------------------------------------------------------------
LegacyInit ==
  /\ pc = "idle"
  /\ ID = 0
  /\ timer = FALSE
  /\ messages = <<>>
  /\ numReceived = 0
  /\ lastMessageLength = 0
  /\ firstSeq = 0
  /\ results = [id \in 0 .. MaxCalls - 1 |-> [messages |-> <<>>, length |-> 0]]
  /\ answers = [id \in 0 .. MaxCalls - 1 |-> <<>>]
  /\ requests = {}
  /\ net = {}
  /\ losses = 0
  /\ dups = 0

LegacyNext ==
  \/ Call \/ CallFails \/ RecvFirst \/ RecvMore \/ RecvOther \/ RecvFails
  \/ Reassemble \/ TimedOut \/ Answer \/ Lose

LegacySpec == LegacyInit /\ [][LegacyNext]_legacyVars

(* The timer runs out, and copying takes no time. *)
FairLegacySpec ==
  LegacySpec /\ WF_legacyVars(TimedOut) /\ WF_legacyVars(Reassemble)

-----------------------------------------------------------------------------
(* Types, and the numbers of places and of messages in them. *)
LegacyTypeOK ==
  /\ pc \in {"idle", "first", "more", "whole", "quit", "undefined"}
  /\ ID \in 0 .. MaxCalls
  /\ timer \in BOOLEAN
  /\ numReceived \in 0 .. Len(messages)
  /\ lastMessageLength \in 0 .. HeaderSize + PayloadSize
  /\ pc = "more" => numReceived < Len(messages)
  /\ losses \in 0 .. MaxLoss /\ dups \in 0 .. MaxDup

(***************************************************************************)
(* What sendRequest returns is made of the messages of its own request,    *)
(* each in its place, never of an answer to an earlier call that came      *)
(* late; and if the server answered the request once it is that answer,    *)
(* whole and of the right length, however often its messages came and in   *)
(* whatever order.                                                         *)
(***************************************************************************)
ReturnsOwnAnswer ==
  \A id \in 0 .. ID - 1 :
    LET r == results[id]
    IN  /\ \A i \in 1 .. Len(r.messages) :
             r.messages[i].id = id /\ r.messages[i].seq = i - 1
        /\ Len(answers[id]) = 1 => /\ r.length = answers[id][1]
                                   /\ Len(r.messages) = Parts(r.length)

(***************************************************************************)
(* A client whose request was answered once comes to undefined behaviour   *)
(* only if the last of several messages was the first to arrive, and then  *)
(* it does not return: an answer of one message, or one whose last message *)
(* is overtaken by none, is safe.                                          *)
(***************************************************************************)
UndefinedOnlyIfLastFirst ==
  pc = "undefined" /\ Len(answers[ID]) = 1 =>
    /\ Len(messages) > 1
    /\ firstSeq = Len(messages) - 1

(***************************************************************************)
(* The timer is armed inside sendRequest only: a call that has returned    *)
(* is not ended by its timeout while the client does something else.       *)
(***************************************************************************)
NoAlarmOutside == timer => pc # "idle"

(***************************************************************************)
(* clientMessenger.h:16-17: the client does not wait for a response after  *)
(* the timeout, whatever was lost or failed to come.                       *)
(***************************************************************************)
EveryCallEnds ==
  (pc \in {"first", "more", "whole"} /\ timer) ~>
    pc \in {"idle", "quit", "undefined"}
-----------------------------------------------------------------------------
(***************************************************************************)
(* The inductive invariant behind the safety properties.                   *)
(***************************************************************************)
(* m is a message of an answer the server gave. *)
Genuine(m) ==
  /\ m.id \in 0 .. MaxCalls - 1
  /\ m.answer \in 1 .. Len(answers[m.id])
  /\ m \in AnswerMessages(m.id, answers[m.id][m.answer], m.answer)

Filled == {i \in 1 .. Len(messages) : messages[i] # None}

(* The message in a place is one of this call's, and it belongs there. *)
PlacesInv ==
  \A i \in Filled :
    /\ Genuine(messages[i])
    /\ messages[i].id = ID
    /\ messages[i].seq = i - 1

(***************************************************************************)
(* The locals of a call that has heard from the server: the message that   *)
(* came first made the vector, the places filled were counted, and the     *)
(* length of the last message is known if the loop saw it come.            *)
(***************************************************************************)
VectorInv ==
  /\ firstSeq + 1 \in Filled
  /\ messages[firstSeq + 1].num = Len(messages)
  /\ numReceived = Cardinality(Filled)
  /\ lastMessageLength =
       IF Len(messages) \in Filled /\ (Len(messages) = 1 \/ firstSeq # Len(messages) - 1)
       THEN messages[Len(messages)].length ELSE 0
  /\ pc = "whole" => Filled = 1 .. Len(messages)

(***************************************************************************)
(* Everything on the network was sent by the client or the server, the     *)
(* locals are those of a fresh call or of one that has heard from the      *)
(* server, and a call that has returned was answered.                      *)
(***************************************************************************)
LegacyInv ==
  /\ requests \subseteq 0 .. MaxCalls - 1
  /\ \A m \in net : Genuine(m)
  /\ \A id \in 0 .. ID - 1 : answers[id] # <<>>
  /\ pc \in {"idle", "first"} => messages = <<>> /\ numReceived = 0
  /\ pc \in {"more", "whole", "undefined"} => PlacesInv /\ VectorInv
=============================================================================
