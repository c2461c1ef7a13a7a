------------------------------ MODULE ChunkPool ------------------------------
(***************************************************************************)
(* The audio path of the bridge: a fixed pool of chunks that circulates    *)
(* between the I2S reader task and the HTTP server's task through two      *)
(* FreeRTOS queues of pointers, queue_free and queue_filled, and the two   *)
(* parties that decide when it moves: the websocket clients and the task   *)
(* ("pump") that queues one sendAudioPacket work item per websocket and    *)
(* pass.                                                                   *)
(*                                                                         *)
(* One action is one FreeRTOS call of one task, together with the plain    *)
(* memory writes around it that no other task can observe separately.      *)
(* The server itself is up for the whole behaviour; Bridge adds its start  *)
(* and stop.                                                               *)
(***************************************************************************)
EXTENDS Integers, Sequences, FiniteSets

CONSTANTS
  BUFFER_SLOTS,       \* config.h: chunks in the pool, capacity of both queues
  BUFFER_SLOT_BYTES,  \* config.h: bytes of storage of a chunk
  SequenceModulus,    \* 2^32 in the code: audio_frame_sequence wraps
  MAX_HTTP_CLIENTS,   \* config.h: sessions the server accepts
  Clients,            \* the clients; a session's socket is named by its client
  NoClient,
  Blocks,             \* audio contents an I2S read can return
  Torn,               \* storage whose read has not completed
  Silence,            \* the payload of a frame encoded from len = 0
  MaxWork,            \* datagrams the control socket's mailbox holds
  Faults              \* which faults the environment may produce

ASSUME SlotsAssumption ==
  /\ BUFFER_SLOTS \in Nat \ {0}
  /\ BUFFER_SLOT_BYTES \in Nat \ {0}
  /\ SequenceModulus \in Nat \ {0}
  /\ MaxWork \in Nat

ASSUME AudioAssumption == Torn \notin Blocks /\ Silence \notin Blocks

ASSUME ClientAssumption == NoClient \notin Clients

VARIABLES
  queue_free,     \* chunks ready to be read into
  queue_filled,   \* chunks holding audio to send
  len,            \* Chunk::len
  storage,        \* what the chunk's bytes are
  reader,         \* i2SReadTask: program counter and the chunk in its hands
  httpd,          \* the server's task: program counter, chunk, socket, size
  sequence,       \* audio_frame_sequence
  sent,           \* the last audio frame put on a wire
  work,           \* sockets of the queued sendAudioPacket work items
  pass,           \* wssServerSendMessages: sockets left in this pass
  visiting,       \* the socket it found to be a websocket's, until its work is queued
  send_messages,  \* its flag: another pass will follow
  session,        \* what the server holds for each client
  failed          \* history: a sendAudioPacket has failed since the boot

vars == <<queue_free, queue_filled, len, storage, reader, httpd, sequence,
          sent, work, pass, visiting, send_messages, session, failed>>
audioVars  == <<queue_free, queue_filled, len, storage>>
serverVars == <<httpd, sequence, sent, work, failed>>
pumpVars   == <<pass, visiting, send_messages>>

-----------------------------------------------------------------------------
Chunks  == 1..BUFFER_SLOTS
NoChunk == 0
Audio   == Blocks \cup {Torn, Silence}

ReaderIdle == [pc |-> "check", chunk |-> NoChunk]
HttpdIdle  == [pc |-> "idle", chunk |-> NoChunk, fd |-> NoClient, size |-> 0]

\* The client list of httpd: every accepted socket, upgraded or not, until the
\* server closes it.
Sessions   == {c \in Clients : session[c] \notin {"away", "dialing"}}
Websockets == {c \in Sessions : session[c] # "http"}

checkConnectionActive == Sessions # {}

\* initializeQueue, the static initialisers, and a server without sessions.
Init ==
  /\ queue_free = [i \in 1..BUFFER_SLOTS |-> i]
  /\ queue_filled = <<>>
  /\ len = [c \in Chunks |-> 0]
  /\ storage = [c \in Chunks |-> Torn]
  /\ reader = ReaderIdle
  /\ httpd = HttpdIdle
  /\ sequence = 0
  /\ sent = [seq |-> 0, audio |-> Silence]
  /\ work = <<>>
  /\ pass = {}
  /\ visiting = NoClient
  /\ send_messages = TRUE
  /\ session = [c \in Clients |-> "away"]
  /\ failed = FALSE

\* abort() restarts the chip: everything in RAM is initialised again and every
\* TCP connection is gone.
Reboot ==
  /\ queue_free' = [i \in 1..BUFFER_SLOTS |-> i]
  /\ queue_filled' = <<>>
  /\ len' = [c \in Chunks |-> 0]
  /\ storage' = [c \in Chunks |-> Torn]
  /\ reader' = ReaderIdle
  /\ httpd' = HttpdIdle
  /\ sequence' = 0
  /\ sent' = [seq |-> 0, audio |-> Silence]
  /\ work' = <<>>
  /\ pass' = {}
  /\ visiting' = NoClient
  /\ send_messages' = TRUE
  /\ session' = [c \in Clients |-> "away"]
  /\ failed' = FALSE

-----------------------------------------------------------------------------
(* The queues, and variants: no test for room, a send to the front, a peek *)

HasRoomUntested(q) == TRUE
PutInFront(q, c)   == <<c>> \o q
RestPeeked(q)      == q

HasRoom(q) == Len(q) < BUFFER_SLOTS
\* xQueueSend
Put(q, c)  == Append(q, c)
\* xQueueReceive returns the head
Rest(q)    == Tail(q)

-----------------------------------------------------------------------------
(* i2SReadTask and i2SWriteTask *)

\* The check at the top of the loop. Without a session the task only delays.
ReaderCheck ==
  /\ reader.pc = "check"
  /\ checkConnectionActive
  /\ reader' = [reader EXCEPT !.pc = "take"]
  /\ UNCHANGED <<audioVars, serverVars, pumpVars, session>>

\* A variant that overwrites unsent audio when no chunk is free.
ReaderTakeSteals ==
  /\ reader.pc = "take"
  /\ \/ /\ queue_free # <<>>
        /\ reader' = [pc |-> "read", chunk |-> Head(queue_free)]
        /\ queue_free' = Rest(queue_free)
        /\ UNCHANGED queue_filled
     \/ /\ queue_free = <<>> /\ queue_filled # <<>>
        /\ reader' = [pc |-> "read", chunk |-> Head(queue_filled)]
        /\ queue_filled' = Rest(queue_filled)
        /\ UNCHANGED queue_free
  /\ UNCHANGED <<len, storage, serverVars, pumpVars, session>>

\* xQueueReceive(queue_free, 0); i2s_channel_read then copies DMA buffers into
\* the chunk's storage for as long as the task is at "read".
ReaderTake ==
  /\ reader.pc = "take"
  /\ \/ /\ queue_free = <<>>
        /\ reader' = ReaderIdle
        /\ UNCHANGED audioVars
     \/ /\ queue_free # <<>>
        /\ reader' = [pc |-> "read", chunk |-> Head(queue_free)]
        /\ queue_free' = Rest(queue_free)
        /\ storage' = [storage EXCEPT ![Head(queue_free)] = Torn]
        /\ UNCHANGED <<queue_filled, len>>
  /\ UNCHANGED <<serverVars, pumpVars, session>>

\* i2s_channel_read returned ESP_OK with n > 0 bytes.
ReadDone(b, n) ==
  /\ reader.pc = "read"
  /\ storage' = [storage EXCEPT ![reader.chunk] = b]
  /\ len' = [len EXCEPT ![reader.chunk] = n]
  /\ reader' = [reader EXCEPT !.pc = "put"]
  /\ UNCHANGED <<queue_free, queue_filled, serverVars, pumpVars, session>>

\* A variant that continues without giving the chunk back.
ReadEmptyForgets ==
  /\ "i2s" \in Faults
  /\ reader.pc = "read"
  /\ reader' = ReaderIdle
  /\ UNCHANGED <<audioVars, serverVars, pumpVars, session>>

\* A variant without the test of bytes_read.
ReadEmptyPuts ==
  /\ "i2s" \in Faults
  /\ reader.pc = "read"
  /\ len' = [len EXCEPT ![reader.chunk] = 0]
  /\ reader' = [reader EXCEPT !.pc = "put"]
  /\ UNCHANGED <<queue_free, queue_filled, storage, serverVars, pumpVars, session>>

\* i2s_channel_read returned ESP_OK without a byte.
ReadEmpty ==
  /\ "i2s" \in Faults
  /\ reader.pc = "read"
  /\ reader' = [reader EXCEPT !.pc = "giveback"]
  /\ UNCHANGED <<audioVars, serverVars, pumpVars, session>>

\* xQueueSend(queue_filled, 0): with the queue full the task logs an error and
\* forgets the chunk.
ReaderPut ==
  /\ reader.pc = "put"
  /\ \/ /\ HasRoom(queue_filled)
        /\ queue_filled' = Put(queue_filled, reader.chunk)
     \/ /\ ~HasRoom(queue_filled)
        /\ UNCHANGED queue_filled
  /\ reader' = ReaderIdle
  /\ UNCHANGED <<queue_free, len, storage, serverVars, pumpVars, session>>

\* xQueueSend(queue_free, portMAX_DELAY)
ReaderGiveBack ==
  /\ reader.pc = "giveback"
  /\ HasRoom(queue_free)
  /\ queue_free' = Put(queue_free, reader.chunk)
  /\ reader' = ReaderIdle
  /\ UNCHANGED <<queue_filled, len, storage, serverVars, pumpVars, session>>

ReaderNext ==
  \/ ReaderCheck
  \/ ReaderTake
  \/ \E b \in Blocks, n \in 1..BUFFER_SLOT_BYTES : ReadDone(b, n)
  \/ ReadEmpty
  \/ ReaderPut
  \/ ReaderGiveBack

\* A read that fails aborts, and so does a failed or empty write of the writer
\* task, which shares nothing else with the rest of the system.
I2SReadFails ==
  /\ "i2s" \in Faults
  /\ reader.pc = "read"
  /\ Reboot

I2SWriteFails ==
  /\ "i2s" \in Faults
  /\ Reboot

-----------------------------------------------------------------------------
(* wssServerSendMessages *)

\* httpd_get_client_list copies the sockets; the pass works on the copy.
PumpList ==
  /\ send_messages
  /\ pass = {} /\ visiting = NoClient
  /\ Sessions # {}
  /\ pass' = Sessions
  /\ UNCHANGED <<audioVars, reader, serverVars, visiting, send_messages, session>>

\* One iteration over the copied list, up to httpd_ws_get_fd_info.
PumpVisit(c) ==
  /\ visiting = NoClient
  /\ c \in pass
  /\ pass' = pass \ {c}
  /\ visiting' = IF c \in Websockets THEN c ELSE NoClient
  /\ UNCHANGED <<audioVars, reader, serverVars, send_messages, session>>

\* httpd_queue_work sends a datagram to the control socket, whatever has become of the
\* client since. With the mailbox full it may be refused, which ends the pump after
\* this pass, or be lost without a word.
PumpQueue ==
  /\ visiting # NoClient
  /\ visiting' = NoClient
  /\ \/ /\ Len(work) < MaxWork
        /\ work' = Append(work, visiting)
        /\ UNCHANGED send_messages
     \/ /\ Len(work) >= MaxWork
        /\ send_messages' \in {send_messages, FALSE}
        /\ UNCHANGED work
  /\ UNCHANGED <<audioVars, reader, httpd, sequence, sent, failed, pass, session>>

PumpNext == PumpList \/ (\E c \in Clients : PumpVisit(c)) \/ PumpQueue

-----------------------------------------------------------------------------
(* The server's task: work items, then requests, then new connections *)

\* npb::enc_bytes: how long the data field is, whenever a pass of pb_encode asks.
EncBytes(c) == len[c]

\* The first half of sendAudioPacket, up to the first pass of pb_encode, which
\* only sums up sizes. With queue_filled empty the work item does nothing.
StartSend ==
  /\ httpd.pc = "idle"
  /\ work # <<>>
  /\ work' = Tail(work)
  /\ \/ /\ queue_filled = <<>>
        /\ UNCHANGED <<queue_filled, httpd, sequence>>
     \/ /\ queue_filled # <<>>
        /\ queue_filled' = Rest(queue_filled)
        /\ sequence' = (sequence + 1) % SequenceModulus
        /\ httpd' = [pc |-> "encode", chunk |-> Head(queue_filled),
                     fd |-> Head(work), size |-> EncBytes(Head(queue_filled))]
  /\ UNCHANGED <<queue_free, len, storage, reader, sent, pumpVars, session, failed>>

\* A variant that numbers frames with audio_frame_sequence++.
FrameSequencePostfix == (sequence + SequenceModulus - 1) % SequenceModulus

\* The number in the frame, which ++audio_frame_sequence has just made.
FrameSequence == sequence

\* A variant that sends in a loop whose test is inverted: it goes on while the send
\* succeeds.
SendOkLoops ==
  /\ httpd.pc = "encode"
  /\ EncBytes(httpd.chunk) = httpd.size
  /\ httpd.fd \in Sessions
  /\ sent' = [seq |-> FrameSequence,
              audio |-> IF httpd.size = 0 THEN Silence ELSE storage[httpd.chunk]]
  /\ UNCHANGED <<audioVars, reader, httpd, sequence, work, pumpVars, session, failed>>

\* encodeAndSendPayload succeeds: both passes of pb_encode saw the same length
\* and the socket took the frame. A client that has left still has a socket.
SendOk ==
  /\ httpd.pc = "encode"
  /\ EncBytes(httpd.chunk) = httpd.size
  /\ httpd.fd \in Sessions
  /\ sent' = [seq |-> FrameSequence,
              audio |-> IF httpd.size = 0 THEN Silence ELSE storage[httpd.chunk]]
  /\ httpd' = [pc |-> "return", chunk |-> httpd.chunk, fd |-> NoClient, size |-> 0]
  /\ UNCHANGED <<audioVars, reader, sequence, work, pumpVars, session, failed>>

\* It fails: pb_encode found another length in its second pass, or the session
\* is gone, or the send timed out or was refused.
SendFails ==
  /\ httpd.pc = "encode"
  /\ \/ EncBytes(httpd.chunk) # httpd.size
     \/ httpd.fd \notin Sessions
     \/ session[httpd.fd] = "gone"
     \/ "send" \in Faults
  /\ failed' = TRUE
  /\ httpd' = [pc |-> "resend", chunk |-> httpd.chunk, fd |-> NoClient, size |-> 0]
  /\ UNCHANGED <<audioVars, reader, sequence, sent, work, pumpVars, session>>

\* xQueueSend(queue_filled, portMAX_DELAY), then on to the code after the branch
Resend ==
  /\ httpd.pc = "resend"
  /\ HasRoom(queue_filled)
  /\ queue_filled' = Put(queue_filled, httpd.chunk)
  /\ httpd' = [httpd EXCEPT !.pc = "return"]
  /\ UNCHANGED <<queue_free, len, storage, reader, sequence, sent, work, pumpVars,
                 session, failed>>

\* A variant that clears the chunk and forgets it.
ReturnChunkForgets ==
  /\ httpd.pc = "return"
  /\ len' = [len EXCEPT ![httpd.chunk] = 0]
  /\ httpd' = HttpdIdle
  /\ UNCHANGED <<queue_free, queue_filled, storage, reader, sequence, sent, work, pumpVars,
                 session, failed>>

\* chunk->len = 0 and xQueueSend(queue_free, 0)
ReturnChunk ==
  /\ httpd.pc = "return"
  /\ len' = [len EXCEPT ![httpd.chunk] = 0]
  /\ \/ /\ HasRoom(queue_free)
        /\ queue_free' = Put(queue_free, httpd.chunk)
        /\ httpd' = HttpdIdle
     \/ /\ ~HasRoom(queue_free)
        /\ httpd' = [httpd EXCEPT !.pc = "blocked"]
        /\ UNCHANGED queue_free
  /\ UNCHANGED <<queue_filled, storage, reader, sequence, sent, work, pumpVars,
                 session, failed>>

\* xQueueSend(queue_free, portMAX_DELAY)
ReturnBlocked ==
  /\ httpd.pc = "blocked"
  /\ HasRoom(queue_free)
  /\ queue_free' = Put(queue_free, httpd.chunk)
  /\ httpd' = HttpdIdle
  /\ UNCHANGED <<queue_filled, len, storage, reader, sequence, sent, work, pumpVars,
                 session, failed>>

HttpdSend == StartSend \/ SendOk \/ SendFails \/ Resend \/ ReturnChunk \/ ReturnBlocked

\* What the server does for a session, when it is not in a work item.
HttpdServe(c, from, to) ==
  /\ httpd.pc = "idle"
  /\ session[c] = from
  /\ session' = [session EXCEPT ![c] = to]
  /\ UNCHANGED <<audioVars, reader, serverVars, pumpVars>>

Accept(c)  == Cardinality(Sessions) < MAX_HTTP_CLIENTS /\ HttpdServe(c, "dialing", "http")
\* wsHandler on the GET of the handshake
Upgrade(c) == HttpdServe(c, "http", "open")
\* wsHandler, dispatchProtobufRequest and handleHelloRequest on the client's
\* hello. wsHandler ignores the result of the dispatch: whether the response
\* could be sent or not, the session goes on.
Hello(c)   == HttpdServe(c, "open", "served")
Close(c)   == HttpdServe(c, "gone", "away")

HttpdRequest(c) == Accept(c) \/ Upgrade(c) \/ Hello(c) \/ Close(c)

-----------------------------------------------------------------------------
(* The clients: ws_test.py connects and says hello; a browser may leave *)

Connect(c) ==
  /\ session[c] = "away"
  /\ session' = [session EXCEPT ![c] = "dialing"]
  /\ UNCHANGED <<audioVars, reader, serverVars, pumpVars>>

Leave(c) ==
  /\ "leave" \in Faults
  /\ session[c] \in {"open", "served"}
  /\ session' = [session EXCEPT ![c] = "gone"]
  /\ UNCHANGED <<audioVars, reader, serverVars, pumpVars>>

Next ==
  \/ ReaderNext
  \/ I2SReadFails
  \/ I2SWriteFails
  \/ PumpNext
  \/ HttpdSend
  \/ \E c \in Clients : HttpdRequest(c) \/ Connect(c) \/ Leave(c)

Spec == Init /\ [][Next]_vars

(***************************************************************************)
(* Every task runs when it can: FreeRTOS time-slices tasks of equal        *)
(* priority and the higher ones block. The server selects over its control *)
(* socket, its sessions and its listening socket and serves each one that  *)
(* is ready in every round, hence strong fairness for what it can only do  *)
(* between two work items. Clients and faults owe nothing.                 *)
(***************************************************************************)
Fairness ==
  /\ WF_vars(ReaderNext)
  /\ WF_vars(PumpNext)
  /\ WF_vars(SendOk \/ SendFails \/ Resend \/ ReturnChunk \/ ReturnBlocked)
  /\ SF_vars(StartSend)
  /\ \A c \in Clients : SF_vars(Accept(c)) /\ SF_vars(Upgrade(c))
                        /\ SF_vars(Hello(c)) /\ SF_vars(Close(c))

FairSpec == Spec /\ Fairness

-----------------------------------------------------------------------------
(* Properties *)

ReaderPcs == {"check", "take", "read", "put", "giveback"}
HttpdPcs  == {"idle", "encode", "resend", "return", "blocked"}
SessionStates == {"away", "dialing", "http", "open", "served", "gone"}

QueuesOK ==
  /\ queue_free \in Seq(Chunks) /\ Len(queue_free) <= BUFFER_SLOTS
  /\ queue_filled \in Seq(Chunks) /\ Len(queue_filled) <= BUFFER_SLOTS

StorageOK ==
  /\ len \in [Chunks -> 0..BUFFER_SLOT_BYTES]
  /\ storage \in [Chunks -> Blocks \cup {Torn}]

ReaderOK ==
  /\ reader \in [pc : ReaderPcs, chunk : Chunks \cup {NoChunk}]
  /\ (reader.pc \in {"check", "take"}) <=> (reader.chunk = NoChunk)

HttpdOK ==
  /\ httpd \in [pc : HttpdPcs, chunk : Chunks \cup {NoChunk},
                fd : Clients \cup {NoClient}, size : 0..BUFFER_SLOT_BYTES]
  /\ (httpd.pc = "idle") <=> (httpd.chunk = NoChunk)
  /\ (httpd.pc = "encode") <=> (httpd.fd # NoClient)

WireOK ==
  /\ sequence \in 0..(SequenceModulus - 1)
  /\ sent \in [seq : 0..(SequenceModulus - 1), audio : Audio]

ServerOK ==
  /\ work \in Seq(Clients) /\ Len(work) <= MaxWork
  /\ pass \in SUBSET Clients
  /\ visiting \in Clients \cup {NoClient}
  /\ send_messages \in BOOLEAN
  /\ session \in [Clients -> SessionStates]
  /\ failed \in BOOLEAN

\* The type invariant: in particular no queue is ever over its capacity, and a
\* task holds a chunk exactly when its program counter says so.
TypeOK == QueuesOK /\ StorageOK /\ ReaderOK /\ HttpdOK /\ WireOK /\ ServerOK

\* How many references to chunks the queues and the tasks hold between them.
HeldByReader == IF reader.chunk = NoChunk THEN 0 ELSE 1
HeldByHttpd  == IF httpd.chunk = NoChunk THEN 0 ELSE 1
References   == Len(queue_free) + Len(queue_filled) + HeldByReader + HeldByHttpd

\* http_server.cpp:197 sends "so we don't lose access to a chunk". A failed send
\* adds a reference and a reader that finds queue_filled full drops one; the
\* drops never outnumber the additions, so the pool never runs dry.
RefsNeverLost == References >= BUFFER_SLOTS

\* Until a send fails there is one reference for each chunk.
HealthyCount == ~failed => References = BUFFER_SLOTS

Holds(q, c) == \E i \in 1..Len(q) : q[i] = c
NoRepeat(q) == \A i, j \in 1..Len(q) : q[i] = q[j] => i = j

\* Until a send fails every chunk has one owner: no chunk is twice in a queue,
\* in both queues, or in a queue and in a task's hands, and the reader never
\* writes the storage the server is encoding.
HealthyOwnership ==
  ~failed =>
    /\ NoRepeat(queue_free)
    /\ NoRepeat(queue_filled)
    /\ \A c \in Chunks : ~(Holds(queue_free, c) /\ Holds(queue_filled, c))
    /\ ~Holds(queue_free, reader.chunk) /\ ~Holds(queue_filled, reader.chunk)
    /\ ~Holds(queue_free, httpd.chunk) /\ ~Holds(queue_filled, httpd.chunk)
    /\ reader.chunk = httpd.chunk => reader.chunk = NoChunk

\* Until a send fails no send of a chunk can find its queue full: the reader
\* drops nothing and neither task waits for the other.
HealthySendsSucceed ==
  ~failed =>
    /\ reader.pc = "put" => Len(queue_filled) < BUFFER_SLOTS
    /\ reader.pc = "giveback" => Len(queue_free) < BUFFER_SLOTS
    /\ httpd.pc = "return" => Len(queue_free) < BUFFER_SLOTS
    /\ httpd.pc \notin {"resend", "blocked"}

Whole(c) == len[c] > 0 /\ storage[c] \in Blocks

\* Until a send fails every chunk waiting in queue_filled, and the one being
\* encoded, holds a completed read, and both passes of pb_encode agree on its
\* length: no frame is empty or torn.
HealthyFramesWhole ==
  ~failed =>
    /\ \A i \in 1..Len(queue_filled) : Whole(queue_filled[i])
    /\ httpd.pc = "encode" => Whole(httpd.chunk) /\ httpd.size = len[httpd.chunk]
    /\ reader.pc = "put" => Whole(reader.chunk)

\* Until a send fails the frames on the wire are numbered without a gap: the
\* counter is ahead of the last frame sent only while the next one is encoded.
SequenceGapless ==
  ~failed => sequence = IF httpd.pc = "encode"
                        THEN (sent.seq + 1) % SequenceModulus ELSE sent.seq

\* The two ways the server's task waits for a queue slot nobody will free: on
\* queue_filled, of which it is the only consumer, and on queue_free while the
\* reader waits for a session only this task could open.
Wedged ==
  \/ httpd.pc = "resend" /\ Len(queue_filled) = BUFFER_SLOTS
  \/ /\ httpd.pc = "blocked" /\ Len(queue_free) = BUFFER_SLOTS
     /\ Sessions = {} /\ reader.pc = "check"

\* A wedged server stays wedged until the chip restarts.
WedgedForever == [][Wedged => Wedged' \/ Reboot]_vars

\* http_server.cpp:184 puts a chunk back into queue_filled "for re-sending":
\* what waits in queue_filled has audio in it.
FilledHasAudio == \A i \in 1..Len(queue_filled) : len[queue_filled[i]] > 0

\* ws_test.py:40 "Expect and decode hello response": a hello that has reached the
\* server's session is handled (or the client leaves, or the chip restarts).
HelloHandled == \A c \in Clients : session[c] = "open" ~> session[c] # "open"

\* Somebody asks for audio: the pump runs and has a websocket to queue work for.
Draining == send_messages /\ Websockets # {}

\* Until a send fails, a chunk that was filled comes back to queue_free while somebody
\* asks for audio.
FilledReturns ==
  \A k \in Chunks : Holds(queue_filled, k) ~> Holds(queue_free, k) \/ ~Draining \/ failed

-----------------------------------------------------------------------------
(* The pipe that the pool implements *)

\* The chunks whose audio has not been sent: the one in the server's hands until
\* its frame is out, then those in queue_filled.
InHand == IF httpd.pc = "encode" THEN 1 ELSE 0
PipeChunk(i) == IF i <= InHand THEN httpd.chunk ELSE queue_filled[i - InHand]
Pipe == [i \in 1..(InHand + Len(queue_filled)) |-> storage[PipeChunk(i)]]

Fifo == INSTANCE AudioFifo WITH
  Capacity <- BUFFER_SLOTS, Nothing <- Silence,
  pipe <- Pipe, out <- sent.audio, draining <- Draining, broken <- failed

\* Until a send fails the pool behaves as a FIFO pipe of audio: no block
\* that i2SReadTask read is lost, repeated, reordered or torn on its way through
\* sendAudioPacket, and it is sent as long as somebody asks for audio.
FifoSpec == Fifo!Spec
=============================================================================
