-------------------------------- MODULE Bridge --------------------------------
(***************************************************************************)
(* The audio path of ChunkPool under a server that comes and goes: the     *)
(* event loop starts an instance of esp_http_server when the bridge gets   *)
(* an address and stops it when the link is lost, while the reader, the    *)
(* pump and the queues live on, with whatever is in them.                  *)
(*                                                                         *)
(* httpd_stop sends the instance's task a shutdown message through the     *)
(* mailbox of the work items and waits for the task to end. The task takes *)
(* the message between two work items, and ends its sessions. The handle   *)
(* that the other tasks share is the subject of ServerLifecycle.           *)
(***************************************************************************)
EXTENDS ChunkPool

VARIABLES
  instance,   \* "none", "running", "stopping", or "deaf": stopping, message lost
  ahead       \* work items that the shutdown message is behind

bridgeVars == <<vars, instance, ahead>>

BridgeInit == Init /\ instance = "none" /\ ahead = 0

-----------------------------------------------------------------------------
(* The event loop: connectHandler and disconnectHandler *)

Start ==
  /\ instance = "none"
  /\ instance' = "running"
  /\ UNCHANGED <<vars, ahead>>

\* Variant: disconnectHandler does not wait for the task.
StopAtOnce == instance = "running" /\ instance' = "none" /\ ahead' = 0 /\ UNCHANGED vars

\* The message goes to the end of the mailbox. A full mailbox may lose it, as it
\* loses work items. (If it is refused, nothing changes: httpd_stop returns an error
\* and the instance runs on.)
Stop ==
  /\ instance = "running"
  /\ \/ Len(work) < MaxWork /\ instance' = "stopping"
     \/ Len(work) >= MaxWork /\ instance' \in {"stopping", "deaf"}
  /\ ahead' = Len(work)
  /\ UNCHANGED vars

\* The task takes the shutdown message, closes every session and ends. Work items
\* behind the message are lost; httpd_stop returns.
Ended ==
  /\ instance = "stopping"
  /\ httpd.pc = "idle"
  /\ ahead = 0
  /\ instance' = "none"
  /\ work' = <<>>
  /\ session' = [c \in Clients |-> "away"]
  /\ UNCHANGED <<audioVars, reader, httpd, sequence, sent, failed, pumpVars, ahead>>

-----------------------------------------------------------------------------
(* The tasks of ChunkPool *)

\* i2SReadTask, and clients, of which none finds a server to dial when there is none.
Others ==
  /\ \/ ReaderNext
     \/ \E c \in Clients : Leave(c) \/ (instance # "none" /\ Connect(c))
  /\ UNCHANGED <<instance, ahead>>

\* The pump. What it hands to httpd_queue_work goes to the instance that is there then,
\* be it another one than that of whose client it found a websocket.
Pump ==
  /\ PumpList \/ (\E c \in Clients : PumpVisit(c)) \/ (instance # "none" /\ PumpQueue)
  /\ UNCHANGED <<instance, ahead>>

\* The handle is cleared between two of its uses in a pass: httpd_get_client_list after
\* the null test, or httpd_queue_work after httpd_ws_get_fd_info, fails, and the task
\* leaves its loop, at once or after this pass.
PumpEnds ==
  /\ instance = "none"
  /\ \/ visiting # NoClient
     \/ send_messages /\ pass = {}
  /\ send_messages' = FALSE
  /\ visiting' = NoClient
  /\ UNCHANGED <<audioVars, reader, serverVars, pass, session, instance, ahead>>

\* The next work item, unless the shutdown message is next.
ServerWork ==
  /\ instance # "none"
  /\ StartSend
  /\ \/ instance # "stopping" /\ UNCHANGED ahead
     \/ instance = "stopping" /\ ahead > 0 /\ ahead' = ahead - 1
  /\ UNCHANGED instance

\* The rest of a work item.
ServerSend ==
  /\ SendOk \/ SendFails \/ Resend \/ ReturnChunk \/ ReturnBlocked
  /\ UNCHANGED <<instance, ahead>>

ServerRequest(c) ==
  /\ instance # "none"
  /\ HttpdRequest(c)
  /\ UNCHANGED <<instance, ahead>>

Restart ==
  /\ I2SReadFails \/ I2SWriteFails
  /\ instance' = "none"
  /\ ahead' = 0

BridgeNext ==
  \/ Start \/ Stop \/ Ended
  \/ Others \/ Pump \/ PumpEnds
  \/ ServerWork \/ ServerSend
  \/ \E c \in Clients : ServerRequest(c)
  \/ Restart

BridgeSpec == BridgeInit /\ [][BridgeNext]_bridgeVars

(***************************************************************************)
(* As in ChunkPool: the tasks run, and the server's task serves its        *)
(* mailbox in every round. Nothing is assumed of the link.                 *)
(***************************************************************************)
BridgeFairness ==
  /\ WF_bridgeVars(ReaderNext /\ UNCHANGED <<instance, ahead>>)
  /\ WF_bridgeVars(Pump \/ (visiting # NoClient /\ PumpEnds))
  /\ WF_bridgeVars(ServerSend)
  /\ SF_bridgeVars(ServerWork) /\ SF_bridgeVars(Ended)
  /\ \A c \in Clients : SF_bridgeVars(ServerRequest(c))

BridgeFairSpec == BridgeSpec /\ BridgeFairness

\* The states that a run explores whose properties only speak of the time before a
\* send fails.
UntilFailure == ~failed

-----------------------------------------------------------------------------
(* Properties *)

BridgeTypeOK ==
  /\ TypeOK
  /\ instance \in {"none", "running", "stopping", "deaf"}
  /\ ahead \in 0..MaxWork

\* An instance leaves nothing behind: without one the server's task holds no chunk,
\* no work item waits for the next one and no client has a session. (What the pump is
\* about to queue, it may still queue at the next one: see Pump.) Code: that
\* disconnectHandler clears `server` after stopWssServer has returned, and the work
\* items, which httpd_stop lets finish.
NothingLeft ==
  instance = "none" => httpd.pc = "idle" /\ work = <<>> /\ Sessions = {}

\* Until a send fails, what a client says is heard: a hello that has reached the server's
\* session is handled, although the task that handles it also runs the work items, or
\* the session ends with its instance or its client. Code: sendAudioPacket, wsHandler.
HelloServed == \A c \in Clients : session[c] = "open" ~> session[c] # "open" \/ failed

\* Until a send fails, disconnectHandler returns: however many work items wait, each
\* of them gives its chunk back. (A shutdown message that is lost leaves it waiting,
\* and so does a server that is wedged.) Code: stopWssServer, sendAudioPacket.
StopReturns == instance = "stopping" ~> instance # "stopping" \/ failed
=============================================================================
