# Verification of robotClient and robotServer

A TLA+ development kept beside the programs of this repository: models of the
code under `src/`, the TLC runs that check them on small instances, and theorems
about them that TLAPS proves for every value of the constants.

## The system

`robotClient` makes a robot trace two polygons, first N sides, then N-1
(4 <= N <= 8), and collects an image and three kinds of position data at every
corner. It talks to `robotServer` over UDP; the server drives the robot over
HTTP. All commands of a pass go out in one request; the server answers every
command with one or more numbered messages.

| component | source | state | operations |
|---|---|---|---|
| command sequence | `client.cpp` | none | `sendCommandSequence`, `main` |
| request sender | `clientMessenger.cpp` 44-149 | socket, robot ID | `setupMessenger`, `sendRequestNoResponse` |
| response receiver, file writer | `clientParseResponseSequence.cpp` | `responses`, `numCommands`, `firstLoop`, `numSides`, `positionFileWritten`, the files | `parseResponseSequence` and what it calls |
| request loop | `server.cpp`, `serverReceiveEntireMessage.cpp` | `received`, `position`, `commandIndex`, global `clientAddress`, a robot socket per command | one iteration per command: connect, write, wait, read, send |
| response sender | `serverMessenger.cpp` | none | `sendResponse` |
| image compression | `Compression.cpp` | none | `encodeMessage` (server), `decodeMessage` (client) |
| request with response and timer | `clientMessenger.cpp` 152-313 | `ID`, `messages`, timer | `sendRequest`, `recvMessage`, `setTimer`, `stopTimer`, `timedOut`; in the interface, but not called by `main` any more |
| socket setup, quitting, logging | `setupClientSocket.inc`, `utility.cpp` | none | |
| dispatcher draft | `serverParseMessage.cpp` | - | not compiled |

They interact by datagrams alone: client to server one request per pass, server to
client the messages of each response. Neither acknowledges anything, and the ID
that would tell requests apart is 0 everywhere (README of the repository, "lack of
a random generator for the ID").

**What is hard.** Chunks and responses arrive in any order. The client decodes
*what* an answer is from its command index alone and *which pass* it belongs to
from nothing at all: that works only because the client never starts a pass while
something of the other is alive. The client waits for one answer less than it
asked for, because `send()` is given a length that leaves out as many bytes as
the header has and so cuts off the last command; the two errors cancel out for a
robot ID of up to four characters, but the cut also takes digits of the angle of the
TURN before it. The server's work on one command is a dozen
calls, each of which may fail, while the clients go on. Lost, duplicated or empty messages, a robot
connection that fails half way, several clients on one single-threaded server,
file numbers and array bounds computed from indices: all of it is easy to break
and hard to test. `PROJECT.json` lists each hazard at its line.

**What makes the parts correct.** Sequence and decoding: the client's arithmetic
gives the kind and the corner of each command. Server: it serves the pass its
client waits for, the robot rests while it is photographed and moves for as long as the
command that arrived says, and there is a descriptor for every command. Sender and
receiver: chunks come together again as they were, every complete response is
handled once, the count is the number of answers missing. Client: when it is
done, its files are complete and hold what their names say. Compression:
decoding undoes encoding.

## Modules

| module | models | how |
|---|---|---|
| `CommandSequence` | `client.cpp`, the lengths of `sendRequestNoResponse`, the decoding arithmetic of `clientParseResponseSequence.cpp` | constant operators: `CommandAt`, `SentBytes`, `ResponseKind`, `SideNumber`, ... |
| `PolygonTrace` | what a client promises, without server or network | abstract specification: record every corner of two polygons once, in any order |
| `PolygonSession` | client, server, robot and network together; a command is one step | one action per operation, see below |
| `SessionProperties` | - | invariants, action and liveness properties |
| `SessionInvariant` | - | the inductive invariants of requests, server, network and count, without and with duplicates |
| `FilesInvariant` | - | the inductive invariant of vectors and files, on top of it |
| `TraceRefinement` | - | the mapping under which `PolygonSession` implements `PolygonTrace` |
| `SessionProofs` | - | arithmetic lemmas, types, standstill of the robot |
| `AnswersProofs` | - | both are inductive, and what follows from them |
| `FilesProofs` | - | `FilesInvariant` is inductive, and what follows from it |
| `TraceProofs` | - | `PolygonSession` implements `PolygonTrace` |
| `MCSession` | - | instances of the above for TLC |
| `RobotServer` | the server's loop call by call, its clock and its descriptors, with the clients and the network of `PolygonSession` | one action per call, see below |
| `RobotProperties` | - | its properties, its inductive invariants, the mapping to `PolygonSession` |
| `RobotProofs` | - | that its loop is in order, the refinement, the bound on the clock's error |
| `SocketProofs` | - | types; how many descriptors the server needs, no more and no fewer; what of `PolygonSession` holds of the server call by call |
| `MCRobot` | - | instances for TLC |
| `LegacyRequest` | `sendRequest`, `recvMessage` and the timer, with a server that answers each request | one action per operation; its properties and its inductive invariant are in the module |
| `LegacyProofs` | - | the proofs of its safety properties |
| `MCLegacy` | - | its instance for TLC |
| `Compression` | `createDictionary`, `trimDictionary`, `encodeMessage`, `decodeMessage` | one message from encoder to decoder, one action per turn of a loop; its properties are in the module |
| `CompressionInvariant` | - | its inductive invariant |
| `CompressionProofs` | - | that the invariant is inductive, and what follows from it |
| `MCCompression` | - | its instances for TLC |

Three levels describe the same programs: `RobotServer` implements `PolygonSession`,
which implements `PolygonTrace`; so `RobotServer` does, too (`CallsTracePolygons`).

`PolygonSession`, action by action:

| action | code |
|---|---|
| `StartPass(c)` | `sendCommandSequence`, `sendRequestNoResponse`, then `parseResponseSequence` up to its loop |
| `RequestFails(c)` | `send()` fails or is short: `quit()` |
| `Receive(c)` | one iteration of the `while` loop: `KeepChunk` if the vector still has holes, else `CompleteResponse` (`handleResponse`, `clear()`, count down, and the return to `main` when the loop ends) |
| `HandleFails(c)` | the same iteration, but the program ends in it: `appendToFile` finds that a file was not opened and exits, before or after `writePositionData` has cleared the file, or `decodeMessage` leaves its string |
| `RecvFails(c)` | `recv()` reports that no server is there: `quit()` |
| `ReceiveRequest` | `receiveEntireMessage`, and the start of the command loop |
| `ServeCommand` | one iteration of the `do` loop: `getNextCommand`, the robot's HTTP request and answer, `sendResponse`, the loop test |
| `SkipAnswer` | the same iteration for an answer without the end of a header, if what `server.cpp:190` takes for its length is so negative that `sendResponse` has no message to send |
| `RefuseCommand` | `generateHTTPRequest` or `getRobotPortForRequestStr` finds nothing to do: the program cannot go on |
| `ServeFails` | a call in the loop fails and `quit()` ends the server, with any part of the messages sent |
| `ServerStops` | Ctrl-C, or `recvfrom()` fails |
| `Lose`, `Discard` | the network loses a datagram; one arrives for a client that has exited |

`RobotServer` keeps the client's, the network's and the server's other actions
(`SharedStep`) and splits an iteration of the `do` loop (`ServeStep`):

| action | code |
|---|---|
| `Connect`, `ConnectFails` | `getNextCommand`, `setupClientSocket`: a descriptor that nothing closes; none left, or nobody answers |
| `WriteRequest`, `WriteFails` | `generateHTTPRequest`, `write()` between two `getTime()`, then `sleep` and `usleep` for the rest of a MOVE or a TURN; a short or failed `write()` |
| `ReadAnswer` | `read()` to the end, `strstr`, `encodeMessage` for an image |
| `ReadHeadless`, `ReadFails` | an answer without the end of a header, survived or not |
| `SendMessage`, `SendLast`, `SendFails` | one `sendto()` of `sendResponse`; the last one goes on to `commandIndex + 1` and the loop test |

An answer without the end of a header is undefined behaviour: `strstr` returns NULL, and
`httpBodyLength` is what a difference of addresses leaves in an `int`. If it is -984 or
less, `sendResponse` computes no message, nothing is sent, and the loop goes on to the
next command (`SkipAnswer`, `ReadHeadless`; `MaxSkip` bounds how often). Between that and
0 the one message would have a size no buffer has, above it the body is read from address
4, and an image is given to `encodeMessage` with such a length: the server ends there
(`ServeFails`, `ReadFails`). `Headless` is the set of commands answered so; it has no
image, as the assumption on it says.

Its variable `sendable` is a prophecy: how many messages of the answer `sendto()` will
take. The mapping to `PolygonSession` needs it, because there the answer is in the
network, or the server down, in one step: the one in which the answer has been read
(`Committed`). From then on the mapped network holds the messages still to be sent
(`Unsent`), the mapped server is where the loop test will take it, and before it the
mapped robot still moves as it did when the command was read. `motionBefore` and
`motionTime` are history variables. A clock unit is a tenth of a second when
`Second = 10`; `GetTime` is in tenths of a unit because the code divides the
microseconds by ten million, and a `write()` begins at any unit of a second.

How long a MOVE or a TURN is to last is what `sscanf` reads of the command that arrived
(`DurationsRead`). The text of the last TURN of a pass is cut to 24 characters less the
length of the robot ID, `TURN -0.7853981634 ` and five to one of the digits of the angle:
with an ID of four characters and N = 4 the server reads 1 in place of 1.5707963268.
`CutDurations` is what may be read of a cut command, never more than all of it.

`LegacyRequest`: `Call` is `send()` and `setTimer`; `RecvFirst`, `RecvMore` and
`RecvOther` are `recvMessage` and the loop around it (a message of another ID is
skipped); `Reassemble` is `stopTimer` and the copying; `TimedOut` the signal handler,
`CallFails` and `RecvFails` `quit()`. `Answer` is the server's side. Where the code
writes out of a vector's bounds, or asks `memcpy` for a length below zero, the model
stops at `pc = "undefined"`.

`Compression`, action by action: `SendUncompressed` and `WriteHeader` start
`encodeMessage` (with `createDictionary` and `trimDictionary` as `CreateDictionary`),
`WriteLiteral` and `WriteRepeats` are the two branches of its loop (the inner loop is
`Repeats`), `WriteRest` the loop after it; `ReadUncompressed` and `StartDecoding` begin
`decodeMessage`, `ReadKey` and `EndOfKeys` are its first loop, `CopyByte`, `CopyEscape`
and `Expand` the branches of its second. A dictionary is the set of its tokens: their
numbers follow from the order of the map's keys. `ReadPastEnd` is the branch of
`Expand` that indexes `keys` or the string out of bounds; what the program does then is
undefined, so the model stops at `stage = "undefined"` and claims nothing of the rest.
It meets the other models in one fact: an encoded image has at least one byte
(`SessionAssumption`).

Data is abstracted to what the properties tell apart: a command to its kind and
length, a response to its length, a chunk to the range of bytes of the answer it
holds and which command of which pass it answers. Neither program reads that
description, the properties do. `answered` is a history variable; `losses` counts answers
that were not sent like datagrams that were lost, as no client can tell them apart. The server's
`quit()` and a crash are both `"down"`: a NULL passed to `strlen` in
`server.cpp:133` cannot be survived.

Operators commented "Mutant" are plausible slips of the code; each stands in front
of the definition it would replace, and putting it there breaks the property
`PROJECT.json` pairs it with. No specification uses them.

## Runs

The runs of `PolygonSession` and `RobotServer` use N = 4 and one digit of L: N only
changes how often the same side is repeated (the proofs are for all N), L only the
length of MOVE. Images of 985 bytes take two messages, one of them of a single byte;
laser answers of 984 bytes fill one message; other bodies have 20.

| run | configuration | bounds | shows |
|---|---|---|---|
| `session` | `MCSession.cfg` | 2 clients, robot IDs of 4 characters, 3 responses in flight | all properties over a network that reorders, clients do not get mixed up, both finish; 195396 states |
| `faults` | `MCFaults.cfg` | robot IDs of 4 and 5, one loss, one answer not sent, any failure of robot and server, `send()` and the file of a GPS answer failing, 2 in flight | nothing wrong is written, nobody is done too early, the client does what `PolygonTrace` promises; 571658 states |
| `duplicates` | `MCDuplicates.cfg` | 2 responses delivered again, 2 in flight | types hold, nobody waits for ever, and a pass ends short by at most one answer per duplicate; 82191 states |
| `robot_server` | `MCRobot.cfg` | 2 clients, 123 or 124 descriptors, any call fails, the last answer of the first pass may have no header, `write()` takes 0 or 1 unit, MOVE 1 s, TURN 2.2 s, cut 1.4 s | the server call by call implements `PolygonSession`; descriptors and clock; 159340 states |
| `legacy` | `MCLegacy.cfg` | 2 calls with and without a timeout, answers of 1, 2 and 3 messages, one loss, one duplicate | late and repeated messages are told apart, the timer ends every wait; 68747 states |
| `compression` | `MCCompression.cfg` | messages of up to 5 of 6 pieces and one of 2 ends, tokens of 2 bytes, escape character 3, 4 byte values | decoding undoes encoding, but for an escape character at the end, and reads the encoded message at the cuts it was written with; 349694 states |
| `v_images_kept` | `VImagesKept.cfg` | reliable | pass 2 overwrites image-N of pass 1 |
| `v_robot_stopped` | `VRobotStopped.cfg` | reliable | the robot is left turning after a pass |
| `v_client_ends` | `VEveryClientEnds.cfg` | one loss | the client waits for ever |
| `v_empty_body` | `VArrivedIsHandled.cfg` | empty bodies | a response without a body is never handled |
| `v_round_trip` | `VRoundTrip.cfg` | up to 3 pieces | an escape character at the end is read as a reference to the dictionary |
| `v_motion_time` | `VMotionTime.cfg` | 1 client | a `write()` that crosses a second makes the robot stop too early |

**Why the bounds are enough.** `MaxInFlight` bounds the messages in the network: two
are enough to reorder two responses or two chunks, three to have a chunk of one
response overtaken by two of another. The server is blocked by the bound only while a
client has messages to receive, so it never hides a step. In `RobotServer` the bound
is checked when the answer has been read, for all of its messages. Robot IDs of 0 to 4
characters send the same commands, 5 is the first that does not. `SessionAssumption`
leaves out empty images: `encodeMessage` returns at least its dictionary's end. In
`faults`, every command but an image may be answered without a header; in `robot_server`,
for the number of its states, one: the cut TURN at the end of the first pass, after which
the loop test must find the end of the request. `HandleFails` is the same for the kinds of
position data, and for an image only leaves the file as it was. Two
clients that trace four and three sides make the server open 2 * 62 = 124 sockets, so
124 descriptors are just enough and 123 one too few. One unit of `write()` is enough
to cross a second, where `getTime` goes wrong by the most. In `legacy`, two calls are
enough for an answer of one to come in the other, three messages for a hole in the
middle; with one duplicate a request can be answered twice or a message come twice.

`Compression` has the sizes 4, 6, 254 and 256 of the code as constants. With tokens of
two bytes, every token in the dictionary from its first occurrence on, an escape
character of 3 and 4 byte values, the messages are short enough to enumerate and still
meet every limit: more distinct tokens than entries, more repeats than one command may
stand for, nulls, length bytes and escape characters as data, tokens in the dictionary
and off it, and matches that are not at a multiple of the token length.

A duplicate is a second copy that stays in the network when the first is received.
Deadlock is checked in `session` and `duplicates` (`Terminated` is the legal end: all
clients have returned, the server waits). The others really can stop: a lost datagram
is never asked for again (`faults`, `v_client_ends`), a server that is down answers
nobody (`robot_server`), a call without a timeout waits for ever or the caller is
finished (`legacy`), and a decoded message is the end (`compression`).

**Fairness.** `PolygonSession`: weak fairness of `StartPass`, `Receive`,
`ReceiveRequest`, `ServeCommand` and `Discard`: the programs do nothing else while
these are possible, `recv()` returns when a datagram is there, the server's calls
return (its sleeps are finite and the robot closes the connection after its answer),
and datagrams do not travel for ever. None is assumed of losses, failures and
duplicates. Messages are not received in a fair order: weak fairness of `Receive` is
enough, as the network is finite. `RobotServer`: the same, with the server's calls
together as `ServerWork` (one thread, one call enabled at a time), and of
`ConnectFails` only where the descriptors are used up, so that `socket()` returns
there too. `LegacyRequest`: only that an armed timer expires and copying ends; nothing
is assumed of the network or the server.

## Findings

1. `getSideNumber` adds `numSides + 1` in the second pass, where `numSides` is
   already N-1: the second pass starts at file N and overwrites what the first
   recorded at its last corner (`v_images_kept`).
2. `send(..., packetLen, 0)` leaves out the last `headLen` bytes: the final STOP
   never arrives and the robot keeps turning (`v_robot_stopped`). Of the angle of the
   last TURN some digits are missing as well, so the server waits for less (1.4 s in
   place of 2.2 s for N = 4 and a robot ID of four characters) before it takes the next
   request; the robot turns on all the same. With a robot ID of five characters or more
   the last TURN is unusable, and the server ends.
3. The README's timeouts are gone: one lost datagram and the client waits for
   ever (`v_client_ends`).
4. An answer with an empty body is taken for one that has not arrived
   (`v_empty_body`).
5. The loop at the end of `encodeMessage` does not double the escape character. An
   image with one among its last four bytes, and a dictionary, is decoded wrongly at
   its end, or `decodeMessage` reads out of bounds (`v_round_trip`). Everything before
   those bytes comes back (`NothingLost`).
6. `getTime` divides the microseconds by ten million: a `write()` that crosses a
   second seems to have taken up to 0.9 s longer than it did, and the robot is
   stopped that much too early (`v_motion_time`, of a command that was not cut).
   `MotionTimeBound`: never more, but for the last command of a request, of which
   finding 2 takes its share first.

Not counted as findings, as no document of the repository says otherwise, but worth
knowing: a duplicate is counted as another answer, so a pass may end before all of it
is recorded (`ShortOnlyByDuplicates` says by how much); the server leaves a socket open
per command, so that it stops after as many commands as it has descriptors
(`SocketPerCommand`: no fewer are needed for all passes; `DescriptorsSuffice`: no more); and `sendRequest`, if it were called, does not record the length
of the last message when that is the first of several to arrive, and then copies with a
length below zero (`UndefinedOnlyIfLastFirst` says that nothing else leads there).

## Proofs

Proved with TLAPS for every set of clients, N in 4..8, every length of robot ID
that leaves the request in one datagram (`OneDatagramAssumption`), every length of
body and every bound; losses and failures are included throughout. All that is assumed
of the constants is in the modules' `ASSUME`s and in the hypotheses named here.

* `TypesOK`, from the inductive `TypeInv`: types alone are not inductive, because
  that a command index is in range depends on where the server is in the bytes of
  the request. `PlaceInv` says so: `position = Offset(commandIndex)`, and the
  request ends 12 bytes before its terminator, while the last STOP starts 5 bytes
  before it (`OffsetStep`, `OffsetOfLast`, `SentBytesBound`).
* `SideNumberInRange`, `KindsAgree`: the client's arithmetic on command indices.
* `StillWhileLooking`: `ScreenshotAtRest`, from the motion after each place of a
  side.
* `StaysInStep`: `SessionInv` is inductive if `MaxDup = 0`, and from it
  `ResponsesAreCurrent` (`NoStaleResponses`), `ServerInStep`
  (`ServesCurrentPass`) and `CountIsRight` (`AnswersCounted`). The argument: while
  a request is on its way it is the only trace of its pass (`PendingInv`); what
  the server has not come to has left no trace (`ServingInv`); a message in the
  network is for a command not answered, and its place in the vector is free
  (`NetInv`), so a full vector has no message left behind; and the count is right
  (`CountInv`). When the count reaches one, every command but the last is
  answered (a subset of `0..n` with `n+1` elements is all of it), so the server
  has left its loop and the network is empty of this client's messages. The
  assumption `MaxDup = 0` is needed: with a duplicate the client may return early,
  and answers to the pass it has left are still on their way.
* `ServerCarriesOn`: `RobotInv` is inductive, if no answer of the robot is empty
  (`NoEmptyBody`; an empty message does not say which pass it belongs to), for any
  `MaxDup`. `StageInv` ties the stage of a command to the locals of the loop; `OnceInv`
  says that each pass of each client is served once, so that what is in the network of
  the pass being served answers earlier commands or is an earlier message; `RoomInv`
  that the messages still to be sent fit the bound on the network.
* `RobotImplementsSession`: `ImplementsSession`, from `RobotInv`. `Connect`,
  `WriteRequest` and the sends map to stutters; `ReadAnswer` to `ServeCommand` if all
  its messages will be sent and to `ServeFails` if not, `ReadHeadless` to `SkipAnswer`;
  the failures before it to
  `ServeFails` without a message; the shared steps to themselves, because a message a
  client takes is not one still to be sent (`SentIsNotUnsent`, from `OnceInv`).
* `MotionTimeIsBounded`: `MotionTimeBound`, from `GetTime(t) = 10 t - 9 (t % Second)`
  (`WaitIsLongEnough`), for whatever duration the server reads. A command with another
  behind it in the request is whole, so it reads all of it; only what it reads of the last
  one is up to `CutDurations`.
* `FilesInStep`: `FilesInv` is inductive together with `SessionInv`, if `MaxDup = 0`.
  `FilesFaithful` alone is not: that a full vector is an answer put together rightly
  depends on what its holes are filled with. `AnswerInv` says so for what is stored and
  what is on its way alike: all of it is pieces of one answer, each with the number of
  its place (`Fits`), and a vector with a full set of pieces never stays. `LatestInv`
  dates the server's request, `WrittenInv` ties `positionFileWritten` to the pass of the
  lines in a file (a set flag means this pass, so the next write appends; a clear one an
  earlier pass, so it truncates), and `RecordedInv` says that what was answered is in its
  file and that the second pass overwrites nothing but the last corner of the first.
  From it `FilesAreFaithful` (`FilesFaithful`), `FilesAreUnmixed` (`OneCornerPerFile`) and
  `DoneIsComplete` (`DoneMeansComplete`); the last with `CountInv`, as above.
* `ArrivedAreHandled`: `ArrivedIsHandled`, from `Complete`, the part of `AnswerInv` that
  says nothing of an answer the server has sent is missing while nothing was lost. It
  needs `NoEmptyBody` as well: an empty piece is taken for a hole (finding 4).
* `SessionImplementsTrace`: `TracesPolygons`, step by step from `FilesInv`. A vector that
  becomes full records a corner that was not recorded before (its command is not in
  `answered`), the return from the loop ends a pass of which nothing is missing
  (`CountInv` again), and every other step stutters.
* `LegacyProofs`: without hypotheses. `NoLateAlarm` and `LegacyTypesOK` are inductive
  almost as they stand. `VectorIsOwn` is `LegacyInv`: everything in the network was sent
  for a call that was made (`Genuine`), the vector holds messages of the present call in
  their places (`PlacesInv`), `numReceived` is the number of places filled - a repeated
  message fills none - and `lastMessageLength` is known unless the last message came
  first (`VectorInv`). From it `AnswersAreOwn` (`ReturnsOwnAnswer`: when as many places are
  filled as there are, all are) and `OnlyLastFirstIsUndefined`
  (`UndefinedOnlyIfLastFirst`).
* `SocketProofs`, for every finite set of clients: `SocketInv` compares `sockets` with the
  set of commands the server may have connected for (`Opened`). A pass is waiting, being
  served or over, and `Progress` is where it has come to; `Connect` is the only action that
  adds a member, and adds one. `EnoughDescriptors` (`DescriptorsSuffice`) follows because
  the command about to be served is not a member yet.
* `OneSocketPerCommand` (`SocketPerCommand`) needs the other direction too, if `MaxDup = 0`
  and no answer is empty. `EvidentInv` counts from below: a command of which there is a
  trace (`Evident`: an answer, a chunk kept or on its way, the server's place, or a pass that
  is over) has its descriptor. No step but `Connect` may leave a new trace, and the difficult
  one is the client's: returning from a pass makes all of its commands evident at once, so
  each must have been so before, which is what `CountInv` says (`LastAnswered`). That holds
  on this level because `SessionInv` carries over (`CallsStayInStep`). When all are done,
  every command is evident and the descriptors are at most as many by `DescriptorsSuffice`.
* What is proved of whole commands carries over to single calls: `Atomic == INSTANCE
  TraceProofs WITH ...` is all of the development of `PolygonSession`, under the mapping of
  `ImplementsSession` (`SameSession`: the instance's specification is the one that
  `RobotServer` implements). With `RobotImplementsSession`, and so if no answer is empty and
  `MaxDup = 0`, this gives `CallsStayInStep` (`SessionInv` of the mapped state),
  `CallsTracePolygons` (`RobotServer` implements `PolygonTrace`) and `FilesHoldCallByCall`
  (`FilesFaithful`, `OneCornerPerFile`, `DoneMeansComplete`: the clients' variables are mapped
  to themselves).
* `ShortByDuplicates` (`ShortOnlyByDuplicates`), without hypotheses. `CountInv` says nothing
  with duplicates, as a response may be counted again and a message of the first pass may be
  counted in the second. What can be bounded is what a client may still count by: a response
  is only counted when its first chunk is there, so `Supply(c)` holds the first chunks on
  their way, those kept in `responses`, and one for each command the server has still to
  come to, be it of a pass the client has left. `Balanced(c)` says that the responses counted
  more than once (`CountedTwice`), together with the first chunks to spare when one is put
  aside for each command not answered (`Spare`), are at most as many as were delivered twice;
  between the passes, that all first chunks are. The steps (`StartPassBalanced`,
  `ServeBalanced`, `ReceiveBalanced`) come down to how `Spare` changes when an element is
  added, used up or replaced (`SpareOfOneMore`, `SpareOfUsed`, `SpareOfAnother`, ...), facts
  about finite sets that need no induction. `SupplyIsBounded` is `SupplyInv`: the balance
  with what it needs, that each pass is asked for once (`RequestInv`), that the last command
  leaves no trace (`NoTraceOfLast`) and that the network is finite.

* `CompressionProofs`: without hypotheses, for every message and all the sizes that
  `CompressionAssumption` allows, those of the code among them. `cuts` is a history
  variable: how far into the encoded and the plain message each turn of `encodeMessage`'s
  loop came. `CodesAreCut` is `CompressionInv`: the header holds the entries in the order
  of their keys, between two cuts is one literal byte, one doubled escape character or one
  command (`IsLiteral`, `IsRepeat`), behind the last are the bytes the loop stops short
  of (`RestInv`), and `decodeMessage` is at one of the cuts with all of the message up to
  there, or behind the last (`AtCut`, `BehindLastCut`). `RoundTripBeforeTheEnd` alone is not
  inductive, as it says nothing of a message that is not decoded yet. The invariant rests on:
  - `Ranks`: in a strict total order on a finite set, how many elements are less than one
    numbers it. For the order of `trimDictionary` (`Ahead`: counts, then keys) this bounds the
    dictionary by the escape character (`DictionaryOfMessage`), for the order of a map's
    keys (`Before`) it makes `Key` and `Entry` inverse to each other (`KeysNumberEntries`),
    so that the second byte of a command is never the escape character;
  - `HeaderBytes`: where the entries and the null are in the header;
  - `RepeatsEnds` and `RepeatedBytes`: the loop that counts copies ends within the message
    and at a number a byte holds, and all it has passed are copies.

  From it `RunLengthsHold` (`RunLengthsExact`: a command's third byte is the number of
  copies passed over; `WriteRepeats` keeps the low byte as the code does, so that is the
  work of `RepeatsEnds`), `RoundTripHolds` (`RoundTripBeforeTheEnd`) and
  `BeginningSurvives` (`NothingLost`); `v_round_trip` shows that the escape character at the
  end has to be excluded (finding 5).

The hypotheses `MaxDup = 0` and `NoEmptyBody` are satisfied by the programs on any network
that does not duplicate and by every body but an empty one; what happens without them is
what `duplicates` and `v_empty_body` show. The runs check the inductive invariants
themselves: `faults` does `SessionInv` and `FilesInv`, `duplicates` `SupplyInv`,
`robot_server` `RobotInv`, `SocketInv` and `EvidentInv`, `legacy` `LegacyInv`,
`compression` `CompressionInv`.

Only model-checked are the liveness properties `EveryClientDone`, `DoneUnlessDown` and
`EveryCallEnds`: out of the prover's reach, as are ENABLED and induction over data. Every
safety property the passing runs check is a theorem.

## Not modelled

* Requests of more than one datagram. They need a robot ID of some 165 characters or
  more; the second datagram starts in the middle of a command and the server takes it
  for a request of its own, so what happens depends on the characters it reads as
  lengths. `OneDatagramAssumption` leaves them out, and no property covers the
  commented-out loop of `receiveEntireMessage`.
* The buffers the server never frees, and `malloc` failing.
* Writing errors behind the opening of a file: the streams are not tested after that, so
  the client goes on and counts the answer. `HandleFails` has the tests of `appendToFile`.
* How often a line is in a position file: `positionFile` is a set, which a line appended a
  second time does not change. Without duplicates there is none (`FilesInv`).
* The name `position-10.txt`, 16 bytes in an array of 15 (`clientParseResponseSequence.cpp`
  187, from N = 6 on). Where the last byte goes is up to the compiler; `PROJECT.json` goes
  through the cases among the hazards. The theorems for N >= 6 take it for harmless, or for
  the end of the client (`HandleFails`).
* How much of a robot's answer is missing when `read()` fails half way: the client cannot
  tell, and a body is as long as the server has read (`BodyLengths`).
* The loop of `setupClientSocket` over addresses: only its result matters, and it
  depends on the resolver alone.
* The text of commands and HTTP requests, and the JSON of the robot's answers.
* `serverParseMessage.cpp`: it is not part of the programs and does not compile.

## Open

* Requests of more than one datagram: a model of them has to keep the bytes of the commands,
  which are abstracted here.
* With a robot that gives empty answers, `RobotInv` is not known to hold: an empty message
  does not show which pass it belongs to, so `OnceInv` would need a history variable for it.
* How many answers a client misses with duplicates is bounded, but not which: with them a file
  of the second pass may hold an answer of the first.
