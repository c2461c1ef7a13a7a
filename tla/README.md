# ham-bridge: TLA+ verification project

ham-bridge is ESP32-S3 firmware (FreeRTOS, ESP-IDF) that reads audio from an I2S codec and
pushes it over websockets to clients on the Ethernet, with a small display and three buttons on
the device. These modules model its concurrent core, TLC checks them on small instances, and
TLAPS proves the safety part for every value of the constants. All source lines below are
relative to `src/`.

## Inventory

| Part | Source | State | Operations | Hard behaviour |
|---|---|---|---|---|
| Audio path | `main/i2s_handler.cpp` | `pool`, `chunks`, `queue_free`, `queue_filled` | `initializeQueue`, `i2SReadTask`, `i2SWriteTask` | a fixed pool shared by two tasks through queues of pointers; full and empty queues; aborts |
| Websocket server | `main/http_server.cpp` | sessions and work items of esp_http_server, `audio_frame_sequence` | `sendAudioPacket`, `wsHandler`, `wssServerSendMessages`, `checkConnectionActive` | failed sends, clients that leave, socket numbers used again, a bounded mailbox, one task for everything |
| Server life cycle | `main/http_server.cpp`, `main/ethernet_handler.cpp` | the global `server`, the handlers of the default event loop | `connectHandler`, `disconnectHandler`, `startWssServer`, `stopWssServer`, `wssServerTask` | a global read by three tasks without a lock; a stop that waits for the server's task |
| Boot | `main/main.cpp` | what is initialised | `app_main` | order of the steps, with the link and the timer already running; which errors abort and restart the chip |
| Request handlers | `main/request_handlers.cpp` | `proto_stream_buf` | `dispatchProtobufRequest`, `handleHelloRequest`, `handlePingRequest`, `encodeAndSendPayload` | `pb_encode` runs twice over a buffer another task might own; requests that get no answer |
| Buttons | `main/input_handler.cpp` | `current_button_state`, `input_queue` | `buttonPollingISR`, `processInputsTask` | phantom presses, a full queue, bouncing contacts |
| Menu and display | `main/screen_handler.cpp` | `display_state` (navigation stack), `display_mutex` | `processIncomingInput`, `screenRefreshTask` | two tasks on one stack; range checks that throw; two different tests of an item's neighbours |
| Key and certificate | `main/key_cert_manager.cpp` | two blobs in the flash (NVS), the bundle in RAM | `initKeyCertBundleFromNvs`, `generateNewKeyCertBundle`, `attachKeyCertBundleToConfig` | power cuts between two writes; devices without a pair |
| Test client | `helpers/ws_test.py` | - | connect, hello, play | takes the first message for the response |
| UART watcher | `helpers/uart_watch.py` | packet buffer, current packet, log | `packetize_header`, `packetize_fixed`, `run` | framing of a byte stream; packets of different length |

Interactions: the reader and the server's task exchange chunks through the two queues; the pump
(`wssServerTask`) hands work items to the server's task through its control socket; the event
loop's task starts and stops the instance that both use; the button timer feeds the input task
through `input_queue`; the input task and the screen task exclude each other with
`display_mutex`; the certificate bundle is read by the event loop's task when the server starts.
The UART watcher runs on the developer's PC and shares nothing with the rest.

What makes each part correct:

* audio path: no chunk is lost, none has two owners, frames are whole, in order and numbered
  without a gap, no task waits for ever, and a stopped server leaves nothing behind;
* requests: each is answered once, in order and to its own client; a session id names one
  session; only the client itself, or a frame of its own that cannot be received, ends a session;
* life cycle: nothing is used before it is initialised, one instance at most, a stop that
  returns, an address that leads to a server, no use of a freed handle;
* front panel: no press can crash it, going back leads to where one came from, no drawing of
  half-changed state, presses do what the display announces, no task keeps the mutex;
* certificate store: no mixed pair, an identity that never changes, a device that boots;
* UART watcher: no byte lost between packets, a screen and a log that follow the packets.

## Modules

| Module | What it is |
|---|---|
| `ChunkPool` | audio path, pump, work items and sessions, with the server up |
| `Bridge` | `ChunkPool` under a server that is started and stopped |
| `AudioFifo` | abstract: a bounded FIFO pipe of audio blocks that drains |
| `ChunkPoolProofs`, `BridgeProofs` | theorems about both |
| `WsServer` | sockets, sessions, requests and responses, work items by socket number |
| `RpcSession` | abstract: requests answered once, in order, to whoever asked |
| `WsServerProofs` | theorems about `WsServer` |
| `FrontPanel` | buttons, menu, display |
| `Navigator` | abstract: a cursor in a tree of menus, one atomic move for each handled button |
| `FrontPanelProofs` | theorems about `FrontPanel` |
| `ServerLifecycle` | boot, link, event loop, server instance, pump |
| `ServerLifecycleProofs` | theorems about `ServerLifecycle` |
| `KeyCertStore` | flash, bundle, boot and power cuts |
| `KeyCertStoreProofs` | theorems about `KeyCertStore` |
| `UartWatch` | framing and bookkeeping of the UART watcher |
| `UartWatchProofs` | theorems about `UartWatch` |
| `SequenceFacts` | lemmas on slices, suffixes and concatenation for `UartWatchProofs` |
| `MCWsServer`, `MCFrontPanel`, `MCKeyCertStore`, `MCUartWatch` | instances for TLC: symmetry, menus, devices, framings |

Definitions named after a code entity model it; `PROJECT.json` ("map") gives the lines of each.
Definitions whose comment begins with "Variant" (or "A variant") are wrong forms of a definition
that follows them. No specification uses them; put in its place they show that a property
notices the mistake.

### ChunkPool

An action is one FreeRTOS call of one task with the plain writes around it. The reader goes
`check -> take -> read -> put | giveback`, each a separate step, so a client can leave after the
check and the server can run during a read (`storage` is `Torn` meanwhile). The server's task goes
`idle -> encode -> [resend ->] return [-> blocked]`: `StartSend` is `sendAudioPacket` up to the
first, sizing pass of `pb_encode`, `SendOk`/`SendFails` are the second pass and the websocket send,
`Resend` is the send of line 186, after which, as in the code, control goes on to line 193
(`ReturnChunk`). `pass` is the pump's copy of the client list, taken at once and used one socket
at a time, so sockets go stale; `visiting` is the socket that `httpd_ws_get_fd_info` has just called a
websocket (`PumpVisit`, line 306) and whose work is yet to be queued (`PumpQueue`, lines 310 to 313).
`work` is the control socket's mailbox; when it is full the pump may be refused, which ends it
(line 324), or the datagram is lost. esp_http_server serves sessions
only between work items. A session goes `away -> dialing -> http -> open -> served -> gone`.

`failed` is a history variable: a send has failed since the boot. The properties whose name begins
with `Healthy` (and `SequenceGapless`) are promises until then. Afterwards the code really breaks
them (see Findings), while `RefsNeverLost` and `WedgedForever` hold always. `AudioFifo` has the same
reservation: its pipe may break (`Fail`), which `failed` stands for, and then owes nothing.

Contents are model values; a length is 0 or 1 where the code has up to 24576; everything else
about a frame is abstracted.

### Bridge

`Start` and `Stop` are `connectHandler` and `disconnectHandler` up to `httpd_stop`'s shutdown
message, which goes to the end of the same mailbox the work items use: `ahead` counts the items it
is behind. `ServerWork` is `StartSend` unless the message is next, `Ended` is the end of the
instance's task, with its sessions and the items behind the message, and the return of
`httpd_stop`. The reader, the pump, the queues and what they hold live on. A message that finds the
mailbox full may be lost (`instance = "deaf"`): `httpd_stop` then waits for ever, and so does
everything that depends on the event loop. A message that is refused changes nothing here; what it
means for the handle is in `ServerLifecycle`, and so is the window of the freed handle. `PumpEnds` is
the pump whose null test came before the handle was cleared. What it was about to queue then
(`visiting`) may instead reach the next instance, with a socket number of the last one: `Pump` has
this, the send fails, and what follows is what follows from any failed send.

That a wedged server is never stopped needs no property of its own: `WedgedForever` says that it
stays wedged, and `NothingLeft` that a stopped one is not.

### WsServer

One action is one call of wsHandler to `httpd_ws_recv_frame` (`RecvLength`, `RecvPayload`), with
the checks and returns that follow it, or the response (`Respond`, `RespondFails`); between two
frames the same task runs work items (`RunWork`), accepts (`Accept`) and closes (`Close`). A socket
number is the lowest free one, as lwIP gives it, and a work item keeps the number it was queued
with, whoever has it when the item runs. Frames are reduced to kinds: hello, ping, the requests
without a handler, what does not decode, what is not binary, and the three that wsHandler cannot
receive: those for which its first `httpd_ws_recv_frame` fails (`malformed`: a header that is wrong,
unmasked or late), those whose length it refuses (`badlength`), and those whose payload does not
arrive while their client is there (`stalled`). For these three, and for a payload that its client
left before sending, wsHandler returns an error, upon which esp_http_server closes the session.

What a work item does to the chunks is left out here, and clients' requests are one step in
`ChunkPool`: the two modules describe the same task at two places of detail.

### FrontPanel

`Poll(level)` is one call of `buttonPollingISR` (the esp_timer task runs it to the end before the
next) that finds the pins at any levels, bounces included. `ReceiveInput` takes a press together
with the references to the current layer, which the code takes before the mutex; `Increment`,
`Decrement`, `ConfirmValue`, `ConfirmEnter` and `ConfirmBack` are the cases of
`processIncomingInput`. Entering and leaving take two steps each, with the mutex held (`PushLayer`,
`PopLayer`), so that the screen task could observe the state in between if the mutex did not prevent
it. The screen task is `UpdateDisplayState`, `StartDraw`, `FinishDraw`; `shown` is what the display
then shows: the layer and the kinds of the items in the three rows. The tests of the neighbours are
written as each function has them: `Above` and `Below` are drawScreen's, `MayIncrement` and
`MayDecrement` are processIncomingInput's. `StartDraw` includes drawScreen's early return for a
layer without a menu (lines 226 to 228), which `DrawsWhenFree` shows is never taken. A range check
that fails or a null item that is followed sets `crashed`. The menu is a parameter. `MenuAssumption`
asks that it be no deeper than `nav_stack`: the guard of line 426 compares the depth before the
increment and would let a fifth layer through to `at()`. The shipped menu has two levels.

### ServerLifecycle

`main` and `ready` are `app_main`: its steps in their order, and what they have initialised. Any
`ESP_ERROR_CHECK` may fail and restart the chip, and an early error makes `app_main` return
(`MainReturns`). The link, the event loop and setupEthernet's handler run in between. `heap` says
what is at each address an instance can have: nothing, a running instance, one whose task is in a
work item that never returns (`wedged`; ChunkPool shows how that comes about), or one whose task has
ended. `httpd_stop` is three steps: the shutdown message (`StopServer`), the task's end after the
work items that came before it, which `ahead` counts (`EndInstance`), freeing (`StopReturns`). The
assignment `server = nullptr` is a fourth (`ClearServer`). The message may also be lost in a full
mailbox (`loop = "lost"`: the event loop's task waits for ever), or refused, for whatever reason
(`StopRefused`): disconnectHandler then logs an error, and handle and instance stay (line 264). Each
read of `server` by the pump is a step of its own; a read through a freed handle returns anything,
or crashes (`FreedHandleCrash`). An event finds only the handlers registered by then.

### KeyCertStore

A blob is named by the pair it belongs to. `pending` is what the open NVS handle has written and
not committed; after a cut all of it, the first write of it, or nothing is in the flash
(`Survives`). A device comes with a complete pair, with blobs of size zero, or with a flash that
was never written. Blobs of size zero are the only way into the generation code (line 227): a
flash that was never written aborts before it, see Findings. `CutOrFailure` stands for power cuts
and for any failing call, at every step, `MaxCuts` times.

### UartWatch

`Captured(b)` is one byte, through a generator (`HeaderByte`, `SkipByte`, `FixedByte`) to the body
of run's loop if it completes a packet (`Show`). The program is one process, so nothing comes in
between. Positions count from 1; times are numbers of packets, and whether `PAINT_INTERVAL` is over
is open. `stream` and `packets` are history: the properties compare what the generators made of the
stream, and what `run` made of the packets, with definitions over the whole of both.

## Runs

| Run | Instance | Shows |
|---|---|---|
| `chunk_pool` | `Bridge`: 2 chunks, 1 client, mailbox of 1, starts and stops, all faults | the safety properties of the pool, `NothingLeft`, `WedgedForever` |
| `chunk_healthy` | `Bridge`: 2 chunks, 2 blocks, counter modulo 3, mailbox of 1, I2S faults, fair, up to the first failed send | the pool implements `AudioFifo`, liveness included; `SequenceGapless` across the wrap; `FilledReturns`, `HelloServed`, `StopReturns` |
| `chunk_resend` | `ChunkPool`, failed sends | violated: `FilledHasAudio` |
| `chunk_hello` | `ChunkPool`, failed sends, fair | violated: `HelloHandled` |
| `requests` | `WsServer`: 2 clients, 2 sockets, 4 kinds of frames, 2 frames for each connection, mailbox of 1, clients that leave, fair | `WsServer` implements `RpcSession`, liveness included; session ids; who ends a session |
| `hello_first` | `WsServer`: 1 client | violated: `HelloFirst` |
| `front_panel` | 3 menus that fill an array of 3 slots and `nav_stack`, queue of 3, fair | no crash, paths, drawings that announce what happens, the panel at home after the phantom presses, refinement of `Navigator`, liveness |
| `server_life` | 2 addresses, 3 events, mailbox of 2, all faults, fair | order of the boot, one instance, stops that finish, addresses that lead to a server that runs |
| `pump_survives` | 1 address, no faults | violated: `PumpSurvives` |
| `key_cert` | 3 pairs, 3 kinds of device, 3 cuts, fair | pairing, identity, booting |
| `fresh_device` | a flash never written, no cuts, fair | violated: `Boots` |
| `uart_watch` | 4 headers and 2 fixed lengths, every stream of 9 bytes | framing, the screen, highlights and the log |

Bounds. Two chunks are the least with which one can be read while the other is sent; the pool of the
code has three, and the theorems hold for every size. A mailbox of one is full as soon as
the pump is one step ahead, can lose the shutdown message, and still has a work item before that
message and, when this one runs, another behind it; the mailbox of two of `server_life` holds both at
once. Two sockets and two clients let a number go to the other client; two frames let a request wait behind
another frame or one that ends the session. The ping is a hello without a session id (`Response`),
so `requests` sends hellos, garbage, malformed and stalled frames only; frames without an answer and
frames that are not binary take the path of garbage, refused lengths that of malformed frames. A
response that is lost (`"send"` in `Faults`) makes the abstract service lossy and is not in that
run. The menu of `front_panel` is the shipped one with a submenu in the place of its second menu's
values, so that a layer has one above and one below; 3 slots instead of 10 make the first array
full; a queue of three overflows with the phantom presses and one more. Two addresses are needed for
a second start to lose the first instance. Three events make an address, a disconnect and an address
wait together. Three pairs let two generations be cut and a third finish; three cuts are one at each
write. Nine bytes are three packets of the two-byte header, or a longer, a shorter and a longer one
of the header of one byte. Symmetry is declared in `hello_first` only, which has no liveness
property.

`chunk_healthy` explores states up to the first failed send (`UntilFailure`, a state constraint). None
of its properties promises anything of a behaviour after that: `SequenceGapless`, `FilledReturns`,
`HelloServed` and `StopReturns` say so themselves, and a broken `AudioFifo` owes nothing. A failed send
is possible there even though the link and the clients have no faults, by the race of `Pump` above.
Whatever holds with failures is checked in `chunk_pool`, which has no constraint.

Deadlock is checked except in `server_life` (without memory for `ip_got_sem` the link is never
started, `app_main` may return early, and with a wedged instance the event loop never returns: the
system really stops there) and in `uart_watch`, where the capture ends.

Fairness. FreeRTOS runs every task that is ready (tasks of equal priority share time, higher ones
block), so each task has weak fairness. esp_http_server selects over its control socket, its
sessions and the listening socket and serves every ready one in each round, so what it can only
do between two work items has strong fairness; `WsServer` assumes this of its sessions only, and not
even that work items run. Each of the front panel's two tasks finds `display_mutex` free again and
again, because the screen task sleeps for 100 ms between drawings and a press is handled in
microseconds: strong fairness for taking it. Nothing is assumed of fingers, clients, the link or
faults, nor in KeyCertStore of starts of the server.

## Findings

1. `chunk_resend`: after a failed send, `sendAudioPacket` (lines 183-194) has no return in the
   branch that puts the chunk back "for re-sending": it clears the length and frees the chunk as
   well. What is re-sent is empty, and the chunk has two owners from then on.
2. `chunk_hello`: the blocking send of line 186 is on the server's own task, the only consumer of
   that queue. With an extra reference left by one failed send, the next failed
   send can wait for ever.
3. `pump_survives`: a disconnect between the pump's null test (286) and
   `httpd_get_client_list` (296) makes the pump return (330); no audio is sent until a restart.
4. `fresh_device`: the flash of a new device has no `tls_store` namespace, which cannot be opened
   READONLY (line 186); `app_main` aborts, for ever.
5. `hello_first`: the pump sends audio to every websocket, also to one that has not said hello; the
   test client (`ws_test.py:40`) takes the first message for its hello's response.
Two more things are as the code does them, contradicted by no promise of the repository. A work item
names its client by a socket number (`http_server.cpp:311`), which may belong to another client when
it runs: `RunWork` sends to whoever has it. And a header of equal bytes is found again one byte after
it was found (`uart_watch.py:159`): no byte is lost (`StreamSplit`), but the packet in between is
short of its header, so only headers that do not overlap themselves are asked for whole packets.

## Proofs

TLAPS proves every safety property of the passing runs, and the step part of the three refinements.
Of the liveness properties it proves the safety part of some: that each step of a task brings the
end nearer, or that the task is never without a step it can take. The theorems hold for all values
of the constants under the named assumptions: sizes are positive naturals, model values are
distinct, menus fit `nav_stack`, devices come with a pair or without one, a header is not empty.

* `ChunkPoolProofs`. Types first (one lemma for each task, one step for each action). The references
  to chunks are then counted: every step that takes a reference from one place puts it into another,
  except `ReaderPut` with a full queue (one less) and `Resend` (one more). A drop requires
  `queue_filled` to be full, that is `BUFFER_SLOTS` references beside the reader's own, so the total
  never falls below `BUFFER_SLOTS` (`NeverLost`) for any faults. Until a send fails the count is
  exact, and with it no queue is full when a task holds a chunk. Ownership and whole frames follow
  from the moves of one chunk at a time. `Refinement` proves of every behaviour that each step of
  the pool is a step of `AudioFifo` or a stutter: a put is `ReaderPut`, a delivery is `SendOk`, which
  is why the refinement mapping counts the chunk in the server's hands until its frame is out, and
  the first `SendFails` breaks the pipe.
  `OnlyAfterFailure` says of findings 1 and 2 that nothing but a failed send leads to them: until
  then the server is not wedged and no empty chunk waits.
* `BridgeProofs`. A step of `Bridge` is a step of `ChunkPool`, or one of the instance that leaves the
  chunks alone, so the step lemmas above carry over. New is `NothingLeft`, which needs to know of
  each state of the instance what may be left: `ahead` never exceeds the mailbox, and only a
  running or stopping instance has a task that takes work. Of `StopReturns`, `StopApproaches` and
  `StopNeverStuck` are the safety part: while no send fails, each step of a work item lowers
  `Remaining` and nothing raises it, and the server's task has a next step (`AheadOK`: the items that
  the shutdown message is behind are in the mailbox).
* `WsServerProofs`. `IndInv` ties the sockets to the connections: a socket has at most one client, a
  client at most one socket, a client's frames and answers exist only with a session, and the
  handler's socket has a client and a frame that is handled. From it follow `SessionIdOwned`,
  `OwnFrameEnds` (each way in which wsHandler returns an error is a frame of the session's own
  client that cannot be received, or a client that has left) and `RpcRefinement`: the frame in the
  handler counts as pending until its response is out. `AnsweredOnce` is about the whole of a
  connection: answers come in the order of the requests, none twice, and all of them before those of
  the requests that wait (`LinesInOrder` numbers them through). `WaitingCanBeServed` is the safety
  part of the abstract service's liveness: the session of a client that waits is one the server's
  task can read from.
* `FrontPanelProofs`. `NoCrash` and `PathOK` are not inductive alone. `IndInv` adds `MutexOK` (who
  is in a critical section holds the mutex), `InputOK` (the references taken before the mutex
  still mean the current layer, since only the input task changes `nav_depth`) and `LevelsOK` (a
  menu at layer k is at least k deep in the tree, so the stack cannot overflow). `ShowsWhatItDoes`
  adds that the display shows a whole frame. `StaysHome` lists the states from the first poll to the
  last phantom press (`PhantomsOK`); it holds of menus whose first item is a value and of queues with
  room for three (`PhantomsCancel`), as the shipped ones are. For liveness, `HolderCanRelease` says
  that the mutex is free or its holder can go on, `PressHasItsCase` that a press that was taken has a
  case, and `DrawsWhenFree` that a frame is drawn in full: drawScreen's early return is never taken.
* `ServerLifecycleProofs`. `IndInv` adds `FreedOnlyWhileClearing` and `StopOK`: while a handler
  waits for `httpd_stop` the instance exists, and when it has returned it does not. The event loop
  runs one handler at a time, so nobody else changes `server` or `heap` in between. `BootOrder`
  adds what is initialised at each step of `app_main`, and that `connectHandler` is registered
  only after the last of them, which makes `ReadyBeforeUse` hold although the link comes up
  earlier. `InstanceLife` is what `Bridge` assumes of the instance: it starts with an empty
  mailbox, begins to stop with its message behind what is in the mailbox then, or is deaf for ever, and
  ends with an empty mailbox before there is another (`NoWorkLeft`), or with a restart of the chip.
  `StopApproaches` and `StopNeverStuck` are the safety part of `StopFinishes`: `AheadOK` says that the
  items before the message are in the mailbox, each item the task runs is one less, nothing the pump
  queues is one more, and an instance whose message is next ends.
* `KeyCertStoreProofs`. `IndInv` adds `GenerateOK`: a pair is generated only while the flash holds
  no certificate, and what the handle has written is of that pair; and `CertHasKey`, which is
  stronger than `StorePaired`, since a cut leaves at worst a key without its certificate. What the
  flash first held decides for ever: with both blobs no boot aborts over them (`ProvisionedStays`),
  without them every boot does (`FreshNeverBoots`, finding 4 for all such devices and any cuts).
* `UartWatchProofs`. `PaintedCurrent`: a packet that is not painted does not differ from the one
  before as far as it goes, so it is a prefix of what is on the screen. `StreamIsSplit` is
  `StreamSplit` for every framing and every stream. Its invariant `SplitInv` adds that with a header
  nothing is dropped before the first one, and that from then on the waiting bytes begin with it, so
  that packets and waiting bytes together are the stream from there on. Whole packets need that a
  header which does not overlap itself is in no packet but at its start (a later one would have
  ended it). `ChangesAreNoted` follows with `RunInv`, the values that `run` compares with are those of
  the last packet: the changes up to a new packet are the earlier ones and its own. The lemmas
  about concatenation are in `SequenceFacts`; `FlattenSeq` is a recursive function and the induction
  theorems cannot be used, so what it computes is proved by the least counterexample.

Model-checked only: liveness (`HelloServed`, `FilledReturns`, `StopReturns`, `InputHandled`,
`DisplayCatchesUp`, `StopFinishes`, `AddressServed`, `ProvisionedBoots`, and the fairness of `AudioFifo`
and `RpcSession` in `FifoSpec` and `RpcSpec`), which is out of the prover's reach: it needs fairness and
ENABLED.

## Not modelled, and why

* The registers that `i2sDriverInit`, `es8388CodecInit` and the display's and Ethernet's drivers
  write: each is one step of the boot that succeeds or aborts.
* The content of protobuf messages, RSA and X.509, pixels, labels, the clock's digits, colours of the
  watcher: data that no property tells apart. Of `nanopb_helper.hpp` only the encoder of a chunk is
  there, because it reads what another task might write; the others see constants.
* The memory of `resp_arg`: an item that is never run leaks it; the models have no malloc.
* The four-byte items of `input_queue` received into one byte (`main/input_handler.cpp:77`, 109):
  the first byte, which is used, is right; what the others overwrite depends on stack layout.
* `getIpAddr`, which nothing calls, and `MenuItemEditable`, which is declared only.
* The test client's playback, sigrok and its output, schematics, icons, build settings.

## Plan

Done, in this order, the audio path first because everything the device is for passes through it:
`ChunkPool` with `AudioFifo`, `FrontPanel` with `Navigator`, `ServerLifecycle`, `KeyCertStore`,
`WsServer` with `RpcSession`, `Bridge`, `UartWatch`, and their proofs.

What could follow:

1. `WsServer` under `Bridge`: requests and the chunks of work items on one task, with socket numbers
   in the pump's list. `ChunkPool` has the task's work items and `WsServer` its requests; a property
   that needs both in detail has not come up.
2. The memory of `resp_arg`, counted over lost work items and shutdowns.
