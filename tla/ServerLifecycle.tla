--------------------------- MODULE ServerLifecycle ---------------------------
(***************************************************************************)
(* How the bridge comes up and how the websocket server comes and goes:    *)
(* app_main, the Ethernet link, the default event loop, which starts and   *)
(* stops the server in the handlers of its events, the instance of         *)
(* esp_http_server behind the global `server`, and wssServerTask, whose    *)
(* pump loop uses that global without a lock.                              *)
(*                                                                         *)
(* Only what a work item means to the instance's life is modelled: whether *)
(* it returns. ChunkPool models what it does, and when it never returns.   *)
(***************************************************************************)
EXTENDS Integers, Sequences, FiniteSets

CONSTANTS
  Handles,    \* addresses httpd_start can give an instance; malloc may reuse them
  Null,       \* nullptr
  MaxEvents,  \* events the default event loop's queue holds
  MaxWork,    \* datagrams the control socket's mailbox holds
  Faults      \* which faults the environment may produce

ASSUME HandlesAssumption == Handles # {} /\ Null \notin Handles

ASSUME BoundsAssumption == MaxEvents \in Nat /\ MaxWork \in Nat

VARIABLES
  main,        \* app_main: what it does next
  ready,       \* the parts of the bridge that are initialised
  link,        \* the Ethernet link: "off" until esp_eth_start
  ip_got_sem,  \* the semaphore of setupEthernet
  events,      \* the default event loop's queue
  handlers,    \* the event handlers registered
  loop,        \* the event loop's task: where in a handler it is
  server,      \* the global handle
  heap,        \* what is at each address
  work,        \* work items in each instance's mailbox
  ahead,       \* work items that the shutdown message is behind
  client,      \* a websocket client is connected
  pump         \* wssServerTask: program counter, resp_arg->hd

vars == <<main, ready, link, ip_got_sem, events, handlers, loop, server, heap, work,
          ahead, client, pump>>
bootVars  == <<main, ready, ip_got_sem>>
eventVars == <<link, events, handlers>>
httpdVars == <<heap, work, ahead, client>>

Parts == {"i2s", "codec", "queues", "keys"}

PumpOff == [pc |-> "off", hd |-> Null]

Init ==
  /\ main = "drivers"
  /\ ready = {}
  /\ link = "off"
  /\ ip_got_sem = "none"
  /\ events = <<>>
  /\ handlers = {}
  /\ loop = "idle"
  /\ server = Null
  /\ heap = [h \in Handles |-> "free"]
  /\ work = [h \in Handles |-> 0]
  /\ ahead = 0
  /\ client = FALSE
  /\ pump = PumpOff

\* abort() and a fatal exception restart the chip.
Reboot ==
  /\ main' = "drivers"
  /\ ready' = {}
  /\ link' = "off"
  /\ ip_got_sem' = "none"
  /\ events' = <<>>
  /\ handlers' = {}
  /\ loop' = "idle"
  /\ server' = Null
  /\ heap' = [h \in Handles |-> "free"]
  /\ work' = [h \in Handles |-> 0]
  /\ ahead' = 0
  /\ client' = FALSE
  /\ pump' = PumpOff

-----------------------------------------------------------------------------
(* app_main *)

\* app_main goes on, with these parts initialised.
MainGoes(from, to, parts) ==
  /\ main = from
  /\ main' = to
  /\ ready' = ready \cup parts
  /\ UNCHANGED <<eventVars, loop, server, httpdVars>>

\* Buttons, display, NVS and the event loop.
MainDrivers == MainGoes("drivers", "i2s", {}) /\ UNCHANGED <<ip_got_sem, pump>>

\* i2sDriverInit: both channels are created, configured and enabled.
MainI2s == MainGoes("i2s", "codec", {"i2s"}) /\ UNCHANGED <<ip_got_sem, pump>>

\* Variant: app_main goes on without looking at the result.
MainCodecUnchecked ==
  /\ MainGoes("codec", "queues", {}) \/ MainGoes("codec", "queues", {"codec"})
  /\ UNCHANGED <<ip_got_sem, pump>>

\* es8388CodecInit, on the channels. Each of its steps may fail, after which it
\* returns ESP_FAIL and app_main aborts.
MainCodec == MainGoes("codec", "queues", {"codec"}) /\ UNCHANGED <<ip_got_sem, pump>>

\* initializeQueue
MainQueues ==
  MainGoes("queues", "ethernet", {"queues"}) /\ UNCHANGED <<ip_got_sem, pump>>

\* setupEthernet; it returns before an address is assigned. Without memory for
\* the semaphore it returns without starting the link.
MainEthernet ==
  /\ main = "ethernet"
  /\ main' = "keys"
  /\ \/ /\ ip_got_sem' = "empty"
        /\ handlers' = handlers \cup {"gotIpEventHandler"}
        /\ link' = "down"
     \/ /\ "memory" \in Faults
        /\ UNCHANGED <<ip_got_sem, handlers, link>>
  /\ UNCHANGED <<ready, events, loop, server, httpdVars, pump>>

\* SNTP, and initKeyCertBundleFromNvs with a pair of blobs in the flash.
MainKeys == MainGoes("keys", "tasks", {"keys"}) /\ UNCHANGED <<ip_got_sem, pump>>

\* xTaskCreate of the reader, wssServerTask and the others; the statistics loop.
MainTasks ==
  /\ MainGoes("tasks", "running", {})
  /\ pump' = [pump EXCEPT !.pc = "connect"]
  /\ UNCHANGED ip_got_sem

\* esp_flash_get_size fails: app_main returns and nothing else is ever started.
MainReturns ==
  /\ "boot" \in Faults
  /\ MainGoes("drivers", "returned", {})
  /\ UNCHANGED <<ip_got_sem, pump>>

\* An ESP_ERROR_CHECK of app_main, setupEthernet or wssServerTask fails.
MainAborts ==
  /\ "boot" \in Faults
  /\ \/ main \notin {"tasks", "running", "returned"}
     \/ pump.pc \in {"connect", "disconnect"}
  /\ Reboot

MainNext == \/ MainDrivers \/ MainI2s \/ MainCodec \/ MainQueues \/ MainEthernet
            \/ MainKeys \/ MainTasks

-----------------------------------------------------------------------------
(* The link, DHCP and the driver's events *)

LinkUp ==
  /\ link = "down"
  /\ link' = "up"
  /\ UNCHANGED <<bootVars, events, handlers, loop, server, httpdVars, pump>>

\* A lease, or a new address when the lease is renewed.
GotIp ==
  /\ link \in {"up", "ip"}
  /\ Len(events) < MaxEvents
  /\ link' = "ip"
  /\ events' = Append(events, "GOT_IP")
  /\ UNCHANGED <<bootVars, handlers, loop, server, httpdVars, pump>>

LinkDown ==
  /\ link \in {"up", "ip"}
  /\ Len(events) < MaxEvents
  /\ link' = "down"
  /\ events' = Append(events, "DISCONNECTED")
  /\ UNCHANGED <<bootVars, handlers, loop, server, httpdVars, pump>>

-----------------------------------------------------------------------------
(* The event loop's task *)

NextEvent(event) ==
  /\ loop = "idle"
  /\ events # <<>>
  /\ Head(events) = event
  /\ events' = Tail(events)
  /\ ip_got_sem' = IF event = "GOT_IP" /\ "gotIpEventHandler" \in handlers
                   THEN "given" ELSE ip_got_sem

\* Variant: connectHandler does not look at server.
MayStartAlways == "connectHandler" \in handlers

\* connectHandler, when it does not only log.
MayStart == "connectHandler" \in handlers /\ server = Null

\* The event finds no handler of the server, or one that only logs.
IgnoreEvent ==
  /\ \/ NextEvent("GOT_IP") /\ ~MayStart
     \/ /\ NextEvent("DISCONNECTED")
        /\ "disconnectHandler" \in handlers => server = Null
  /\ UNCHANGED <<main, ready, link, handlers, loop, server, httpdVars, pump>>

\* connectHandler, up to the return of httpd_start. The instance's task runs from
\* here on; its URI handler is not registered yet.
StartServer ==
  /\ NextEvent("GOT_IP")
  /\ MayStart
  /\ \E h \in Handles :
       /\ heap[h] = "free"
       /\ heap' = [heap EXCEPT ![h] = "running"]
       /\ server' = h
  /\ loop' = "register"
  /\ UNCHANGED <<main, ready, link, handlers, work, ahead, client, pump>>

\* httpd_start fails: an error is logged and startWssServer returns.
StartFails ==
  /\ "start" \in Faults
  /\ NextEvent("GOT_IP")
  /\ MayStart
  /\ loop' = "failed"
  /\ UNCHANGED <<main, ready, link, handlers, server, httpdVars, pump>>

\* httpd_register_uri_handler after a start that succeeded; the handler returns.
StartReturns ==
  /\ loop \in {"register", "failed"}
  /\ loop' = "idle"
  /\ UNCHANGED <<bootVars, eventVars, server, httpdVars, pump>>

Alive(h) == h # Null /\ heap[h] \in {"running", "wedged"}

\* Variant: the mailbox's size is not checked.
FullNever(h) == FALSE

Full(h) == Alive(h) /\ work[h] >= MaxWork

\* disconnectHandler, up to the shutdown message that httpd_stop puts at the end of the
\* instance's mailbox. httpd_stop then waits for the instance's task to end. A full
\* mailbox may lose the message ("lost"), as it loses work items.
StopServer ==
  /\ NextEvent("DISCONNECTED")
  /\ "disconnectHandler" \in handlers
  /\ server # Null
  /\ loop' = "stop" \/ (Full(server) /\ loop' = "lost")
  /\ ahead' = work[server]
  /\ UNCHANGED <<main, ready, link, handlers, server, heap, work, client, pump>>

\* The message is refused: httpd_stop returns an error, which disconnectHandler logs.
\* The handle stays, and so does the instance.
StopRefused ==
  /\ NextEvent("DISCONNECTED")
  /\ "disconnectHandler" \in handlers
  /\ server # Null
  /\ Full(server) \/ "stop" \in Faults
  /\ UNCHANGED <<main, ready, link, handlers, loop, server, httpdVars, pump>>

\* httpd_stop sees that the task has ended, frees the instance and returns ESP_OK.
StopReturns ==
  /\ loop = "stop"
  /\ heap[server] = "ended"
  /\ heap' = [heap EXCEPT ![server] = "free"]
  /\ work' = [work EXCEPT ![server] = 0]
  /\ loop' = "clear"
  /\ UNCHANGED <<bootVars, eventVars, server, ahead, client, pump>>

\* Variant: the handle is kept.
ClearServerForgets ==
  /\ loop = "clear"
  /\ loop' = "idle"
  /\ UNCHANGED <<bootVars, eventVars, server, httpdVars, pump>>

\* server = nullptr, a step later.
ClearServer ==
  /\ loop = "clear"
  /\ server' = Null
  /\ loop' = "idle"
  /\ UNCHANGED <<bootVars, eventVars, httpdVars, pump>>

LoopNext == \/ IgnoreEvent \/ StartServer \/ StartReturns \/ StopServer \/ StopRefused
            \/ StopReturns \/ ClearServer

-----------------------------------------------------------------------------
(* The instance's task *)

\* Variant: a work item that finds no audio waits for some, which the reader only
\* provides while there is a client.
MayRunWithClient(h) == heap[h] = "running" /\ work[h] > 0 /\ client

MayRun(h) == heap[h] = "running" /\ work[h] > 0

\* The next work item of an instance, unless the shutdown message is next.
TakesWork(h) ==
  /\ MayRun(h)
  /\ \/ loop # "stop" /\ UNCHANGED ahead
     \/ loop = "stop" /\ ahead > 0 /\ ahead' = ahead - 1

\* It runs and returns.
RunWork ==
  \E h \in Handles :
    /\ TakesWork(h)
    /\ work' = [work EXCEPT ![h] = @ - 1]
    /\ UNCHANGED <<bootVars, eventVars, loop, server, heap, client, pump>>

\* It never returns.
Wedge ==
  /\ "wedge" \in Faults
  /\ \E h \in Handles :
       /\ TakesWork(h)
       /\ work' = [work EXCEPT ![h] = @ - 1]
       /\ heap' = [heap EXCEPT ![h] = "wedged"]
  /\ UNCHANGED <<bootVars, eventVars, loop, server, client, pump>>

\* The task takes the shutdown message, closes every session and ends. The work items
\* behind the message never run.
EndInstance ==
  /\ loop = "stop"
  /\ heap[server] = "running"
  /\ ahead = 0
  /\ heap' = [heap EXCEPT ![server] = "ended"]
  /\ client' = FALSE
  /\ UNCHANGED <<bootVars, eventVars, loop, server, work, ahead, pump>>

\* A client connects to /ws, or leaves; a wedged instance does not notice.
ClientOpens ==
  /\ ~client
  /\ link = "ip"
  /\ server # Null
  /\ heap[server] = "running"
  /\ loop # "register"
  /\ client' = TRUE
  /\ UNCHANGED <<bootVars, eventVars, loop, server, heap, work, ahead, pump>>

ClientLeaves ==
  /\ client
  /\ \A h \in Handles : heap[h] # "wedged"
  /\ client' = FALSE
  /\ UNCHANGED <<bootVars, eventVars, loop, server, heap, work, ahead, pump>>

-----------------------------------------------------------------------------
(* wssServerTask *)

RegisterConnect ==
  /\ pump.pc = "connect"
  /\ handlers' = handlers \cup {"connectHandler"}
  /\ pump' = [pump EXCEPT !.pc = "disconnect"]
  /\ UNCHANGED <<bootVars, link, events, loop, server, httpdVars>>

RegisterDisconnect ==
  /\ pump.pc = "disconnect"
  /\ handlers' = handlers \cup {"disconnectHandler"}
  /\ pump' = [pump EXCEPT !.pc = "check"]
  /\ UNCHANGED <<bootVars, link, events, loop, server, httpdVars>>

PumpGoes(pc) ==
  /\ pump' = [pump EXCEPT !.pc = pc]
  /\ UNCHANGED <<bootVars, eventVars, loop, server, httpdVars>>

\* The null test at the top of the loop; with a null handle it only delays.
PumpCheck ==
  /\ pump.pc = "check"
  /\ server # Null
  /\ PumpGoes("list")

Dangling(h) == h # Null /\ heap[h] = "free"

\* httpd_get_client_list reads server again. On a null handle it fails, which ends
\* the pump; on freed memory anything can come back.
PumpList ==
  /\ pump.pc = "list"
  /\ \/ (server = Null \/ Dangling(server)) /\ PumpGoes("ended")
     \/ (server # Null /\ (client \/ Dangling(server))) /\ PumpGoes("visit")
     \/ (server # Null /\ (~client \/ Dangling(server))) /\ PumpGoes("check")

\* httpd_ws_get_fd_info reads server once more.
PumpVisit ==
  /\ pump.pc = "visit"
  /\ \/ (server # Null /\ (client \/ Dangling(server))) /\ PumpGoes("hand")
     \/ (server = Null \/ ~client \/ Dangling(server)) /\ PumpGoes("check")

\* resp_arg->hd = server
PumpHand ==
  /\ pump.pc = "hand"
  /\ pump' = [pc |-> "queue", hd |-> server]
  /\ UNCHANGED <<bootVars, eventVars, loop, server, httpdVars>>

\* httpd_queue_work. A full mailbox refuses the item or loses it without a word, and
\* of an instance that has ended or is freed anything can come back. A failure ends the
\* pump after this pass. Behind the shutdown message an item is accepted and never run,
\* and its resp_arg never deleted.
QueueWork ==
  /\ pump.pc = "queue"
  /\ \/ /\ Alive(pump.hd) /\ ~Full(pump.hd)
        /\ work' = [work EXCEPT ![pump.hd] = @ + 1]
        /\ pump' = [pc |-> "check", hd |-> Null]
     \/ /\ pump.hd # Null /\ (Full(pump.hd) \/ ~Alive(pump.hd))
        /\ pump' \in {[pc |-> "check", hd |-> Null], [pc |-> "ended", hd |-> Null]}
        /\ UNCHANGED work
     \/ /\ pump.hd = Null
        /\ pump' = [pc |-> "ended", hd |-> Null]
        /\ UNCHANGED work
  /\ UNCHANGED <<bootVars, eventVars, loop, server, heap, ahead, client>>

\* The reader's checkConnectionActive, or the pump, follows a freed handle into a
\* fatal exception.
FreedHandleCrash ==
  /\ main = "running"
  /\ Dangling(server)
  /\ Reboot

PumpNext == \/ RegisterConnect \/ RegisterDisconnect \/ PumpCheck \/ PumpList
            \/ PumpVisit \/ PumpHand \/ QueueWork

-----------------------------------------------------------------------------
HttpdNext == RunWork \/ EndInstance

LinkNext == LinkUp \/ GotIp \/ LinkDown

ClientNext == ClientOpens \/ ClientLeaves

FaultNext == MainReturns \/ MainAborts \/ StartFails \/ Wedge \/ FreedHandleCrash

Next == MainNext \/ LinkNext \/ LoopNext \/ HttpdNext \/ ClientNext \/ PumpNext \/ FaultNext

Spec == Init /\ [][Next]_vars

\* FreeRTOS runs every task that is ready. Nothing is assumed of the link, of the
\* clients and of faults.
Fairness ==
  /\ WF_vars(MainNext)
  /\ WF_vars(LoopNext)
  /\ WF_vars(HttpdNext)
  /\ WF_vars(PumpNext)

FairSpec == Spec /\ Fairness

-----------------------------------------------------------------------------
(* Properties *)

\* Every variable has its type, and what a task waits for exists. Code: the
\* globals of http_server.cpp and ethernet_handler.cpp.
TypeOK ==
  /\ main \in {"drivers", "i2s", "codec", "queues", "ethernet", "keys", "tasks", "running",
               "returned"}
  /\ ready \subseteq Parts
  /\ link \in {"off", "down", "up", "ip"}
  /\ ip_got_sem \in {"none", "empty", "given"}
  /\ events \in Seq({"GOT_IP", "DISCONNECTED"}) /\ Len(events) <= MaxEvents
  /\ handlers \subseteq {"gotIpEventHandler", "connectHandler", "disconnectHandler"}
  /\ loop \in {"idle", "register", "failed", "stop", "lost", "clear"}
  /\ server \in Handles \cup {Null}
  /\ heap \in [Handles -> {"free", "running", "wedged", "ended"}]
  /\ work \in [Handles -> 0..MaxWork]
  /\ ahead \in 0..MaxWork
  /\ client \in BOOLEAN
  /\ pump \in [pc : {"off", "connect", "disconnect", "check", "list", "visit", "hand",
                     "queue", "ended"},
               hd : Handles \cup {Null}]

\* No instance is ever lost: whatever runs or still occupies memory is the one the
\* global refers to, so there is at most one and a disconnect can stop it. Code: the
\* null tests of connectHandler and disconnectHandler and the event loop, which runs
\* one handler at a time.
NoOrphan == \A h \in Handles : heap[h] # "free" => server = h

\* Whenever a server instance exists, or the reader and the pump run, everything they
\* use is initialised, although the link, the event loop and setupEthernet's handler
\* are at work while app_main is still busy. Code: the order of app_main, its
\* ESP_ERROR_CHECKs, and that only wssServerTask registers connectHandler.
UsedWhenReady ==
  main = "running" \/ (\E h \in Handles : heap[h] # "free") => ready = Parts

Wedged == \E h \in Handles : heap[h] = "wedged"

\* Once its shutdown message has arrived disconnectHandler returns, unless a work item
\* of the instance never does: neither what the pump goes on putting into the mailbox
\* nor clients that come and go keep the instance alive. (A message that is lost leaves
\* disconnectHandler waiting, one that is refused ends it with an error.) Code:
\* disconnectHandler, stopWssServer, wssServerSendMessages.
StopFinishes == loop = "stop" ~> loop # "stop" \/ Wedged

EventIn(event) == \E i \in DOMAIN events : events[i] = event

\* A server that runs, that knows its handler, and that nobody is about to stop.
Serving ==
  /\ loop = "idle" /\ ~EventIn("DISCONNECTED")
  /\ server # Null /\ heap[server] = "running"

\* Once connectHandler is registered, every address that the link gets and keeps leads
\* to a server that runs, whatever events were in the queue before it: stops, refused or
\* not, of an instance that was there, and starts of others. The exceptions: the start
\* fails, the instance to be stopped first is wedged or never gets its shutdown message,
\* or the chip restarts. Code: connectHandler and disconnectHandler, their null tests
\* and what they leave in `server`.
AddressServed ==
  ("connectHandler" \in handlers /\ link = "ip" /\ EventIn("GOT_IP"))
    ~> \/ Serving
       \/ link # "ip"
       \/ loop \in {"failed", "lost"} \/ Wedged
       \/ main = "drivers"

\* "SendMessages looping, server ref is nullptr": a pass that finds no server waits for
\* the next one instead of ending the pump.
PumpSurvives == [][server = Null /\ pump.pc = "list" => pump'.pc # "ended"]_vars
=============================================================================
