------------------------------- MODULE WsServer -------------------------------
(***************************************************************************)
(* Requests and sessions of the websocket server: wsHandler, the dispatch  *)
(* of protobuf envelopes, the hello and ping handlers, and the sockets     *)
(* they and the pump's work items are addressed by.                        *)
(*                                                                         *)
(* esp_http_server runs all of it on one task. Between two frames it may   *)
(* run a work item, close a session or accept a connection; the numbers    *)
(* of closed sockets are used again, lowest first. What a work item does   *)
(* to the chunks is the subject of ChunkPool.                              *)
(***************************************************************************)
EXTENDS Integers, Sequences

CONSTANTS
  Clients, NoClient,
  Fds,         \* socket numbers of the MAX_HTTP_CLIENTS sessions
  Kinds,       \* the kinds of frames the clients send
  MaxFrames,   \* bound: frames sent over one connection
  MaxWork,     \* datagrams the control socket's mailbox holds
  Faults       \* which faults the environment may produce

\* "unanswered" is a decoded envelope that is neither hello nor ping, "garbage"
\* does not decode, "control" is a frame that is not binary, and "badlength" is
\* empty or longer than MAX_WS_PAYLOAD_SIZE. The header of a "malformed" one cannot
\* be read (not masked, or it does not arrive in time), and the payload of a
\* "stalled" one does not arrive in time: what becomes of a frame on its way is
\* decided when it is sent.
Answered == {"hello", "ping"}
AllKinds == Answered \cup {"unanswered", "garbage", "control", "badlength", "malformed",
                          "stalled"}

ASSUME ClientAssumption == NoClient \notin Clients
ASSUME FdsAssumption == Fds \subseteq Nat
ASSUME KindsAssumption == Kinds \subseteq AllKinds
ASSUME BoundsAssumption == MaxFrames \in Nat /\ MaxWork \in Nat

VARIABLES
  conn,      \* each client: "away", "dialing", "up", or "left" unnoticed
  socket,    \* for each number the session's client, and whether it is upgraded
  inbox,     \* frames of each client the server has not read
  asked,     \* how many frames each client has sent
  answers,   \* the responses on each client's connection, in order
  first,     \* the kind of the first message on each client's connection
  httpd,     \* the server's task: where in wsHandler, for which socket and frame
  work       \* sendAudioPacket work items: the socket number of each

vars == <<conn, socket, inbox, asked, answers, first, httpd, work>>
connVars == <<conn, socket, inbox, asked>>
outVars  == <<answers, first>>

Frames    == [kind : Kinds, id : 1..MaxFrames]
Responses == [request_id : 1..MaxFrames, result : Answered, session_id : Fds \cup {0}]

Closed    == [client |-> NoClient, ws |-> FALSE]
Idle      == [pc |-> "idle"]
Holder(f) == socket[f].client

Init ==
  /\ conn = [c \in Clients |-> "away"]
  /\ socket = [f \in Fds |-> Closed]
  /\ inbox = [c \in Clients |-> <<>>]
  /\ asked = [c \in Clients |-> 0]
  /\ answers = [c \in Clients |-> <<>>]
  /\ first = [c \in Clients |-> "none"]
  /\ httpd = Idle
  /\ work = <<>>

-----------------------------------------------------------------------------
(* The clients *)

Connect(c) ==
  /\ conn[c] = "away"
  /\ conn' = [conn EXCEPT ![c] = "dialing"]
  /\ UNCHANGED <<socket, inbox, asked, outVars, httpd, work>>

\* A client whose handshake is done sends a frame, numbered for its request_id.
Send(c, kind) ==
  /\ conn[c] = "up"
  /\ \E f \in Fds : socket[f] = [client |-> c, ws |-> TRUE]
  /\ asked[c] < MaxFrames
  /\ asked' = [asked EXCEPT ![c] = @ + 1]
  /\ inbox' = [inbox EXCEPT ![c] = Append(@, [kind |-> kind, id |-> asked[c] + 1])]
  /\ UNCHANGED <<conn, socket, outVars, httpd, work>>

\* It goes away; the server may still read what it sent.
Leave(c) ==
  /\ "leave" \in Faults
  /\ conn[c] = "up"
  /\ conn' = [conn EXCEPT ![c] = "left"]
  /\ UNCHANGED <<socket, inbox, asked, outVars, httpd, work>>

-----------------------------------------------------------------------------
(* esp_http_server: accepting and closing *)

Free == {f \in Fds : Holder(f) = NoClient}

Accept(c) ==
  /\ httpd = Idle
  /\ conn[c] = "dialing"
  /\ \E f \in Free : /\ \A g \in Free : f <= g
                     /\ socket' = [socket EXCEPT ![f] = [client |-> c, ws |-> FALSE]]
  /\ conn' = [conn EXCEPT ![c] = "up"]
  /\ UNCHANGED <<inbox, asked, outVars, httpd, work>>

\* The socket is closed, whatever was on the connection is gone.
EndSession(f) ==
  /\ socket' = [socket EXCEPT ![f] = Closed]
  /\ conn' = [conn EXCEPT ![Holder(f)] = "away"]
  /\ inbox' = [inbox EXCEPT ![Holder(f)] = <<>>]
  /\ asked' = [asked EXCEPT ![Holder(f)] = 0]
  /\ answers' = [answers EXCEPT ![Holder(f)] = <<>>]
  /\ first' = [first EXCEPT ![Holder(f)] = "none"]
  /\ httpd' = Idle
  /\ UNCHANGED work

\* The end of a connection is noticed when reading from it fails, whatever was sent
\* before.
Close(f) ==
  /\ httpd = Idle
  /\ Holder(f) # NoClient
  /\ conn[Holder(f)] = "left"
  /\ EndSession(f)

-----------------------------------------------------------------------------
(* wsHandler, dispatchProtobufRequest and the request handlers *)

\* The GET of the handshake, which its client may have sent before it left.
Handshake(f) ==
  /\ httpd = Idle
  /\ Holder(f) # NoClient
  /\ ~socket[f].ws
  /\ socket' = [socket EXCEPT ![f].ws = TRUE]
  /\ UNCHANGED <<conn, inbox, asked, outVars, httpd, work>>

\* The first httpd_ws_recv_frame returns ESP_OK.
Readable(frame) == frame.kind # "malformed"

ValidLength(frame) == frame.kind # "badlength"

Accepted(frame) == Readable(frame) /\ ValidLength(frame)

\* The first httpd_ws_recv_frame and the check of the length. A result other than
\* ESP_OK makes esp_http_server close the session.
RecvLength(f) ==
  /\ httpd = Idle
  /\ socket[f].ws
  /\ inbox[Holder(f)] # <<>>
  /\ \/ /\ Accepted(Head(inbox[Holder(f)]))
        /\ httpd' = [pc |-> "payload", fd |-> f, frame |-> Head(inbox[Holder(f)])]
        /\ inbox' = [inbox EXCEPT ![Holder(f)] = Tail(@)]
        /\ UNCHANGED <<conn, socket, asked, outVars, work>>
     \/ /\ ~Accepted(Head(inbox[Holder(f)]))
        /\ EndSession(f)

\* The second httpd_ws_recv_frame can return ESP_OK.
Complete(frame) == frame.kind # "stalled"

\* Both switches: only two of the requests have a handler.
Handled(frame) == frame.kind \in Answered

\* Variant: wsHandler returns dispatchProtobufRequest's result.
RecvPayloadReturns ==
  /\ httpd.pc = "payload"
  /\ Complete(httpd.frame)
  /\ \/ /\ Handled(httpd.frame)
        /\ httpd' = [httpd EXCEPT !.pc = "respond"]
        /\ UNCHANGED <<connVars, outVars, work>>
     \/ ~Handled(httpd.frame) /\ EndSession(httpd.fd)

\* The second httpd_ws_recv_frame and the dispatch. Its result is not used: a frame
\* that does not decode leaves the session open.
RecvPayload ==
  /\ httpd.pc = "payload"
  /\ Complete(httpd.frame)
  /\ httpd' = IF Handled(httpd.frame) THEN [httpd EXCEPT !.pc = "respond"] ELSE Idle
  /\ UNCHANGED <<connVars, outVars, work>>

\* The second httpd_ws_recv_frame fails: its client left before the payload had
\* arrived, or is there and the payload is not. The session is closed.
RecvPayloadFails ==
  /\ httpd.pc = "payload"
  /\ conn[Holder(httpd.fd)] = "left" \/ ~Complete(httpd.frame)
  /\ EndSession(httpd.fd)

\* Variants: the session is named by the request; the request_id is left out.
ResponseNamesRequest(f, frame) ==
  [request_id |-> frame.id, result |-> frame.kind, session_id |-> frame.id]
ResponseUnnumbered(f, frame) ==
  [request_id |-> 1, result |-> frame.kind, session_id |-> f]

\* handleHelloRequest and handlePingRequest
Response(f, frame) ==
  [request_id |-> frame.id, result |-> frame.kind,
   session_id |-> IF frame.kind = "hello" THEN f ELSE 0]

Message(c, kind) ==
  first' = [first EXCEPT ![c] = IF @ = "none" THEN kind ELSE @]

\* encodeAndSendPayload to the socket of the request
Respond ==
  /\ httpd.pc = "respond"
  /\ answers' = [answers EXCEPT ![Holder(httpd.fd)] =
                   Append(@, Response(httpd.fd, httpd.frame))]
  /\ Message(Holder(httpd.fd), "response")
  /\ httpd' = Idle
  /\ UNCHANGED <<connVars, work>>

\* It fails: logged, and the session goes on.
RespondFails ==
  /\ httpd.pc = "respond"
  /\ conn[Holder(httpd.fd)] = "left" \/ "send" \in Faults
  /\ httpd' = Idle
  /\ UNCHANGED <<connVars, outVars, work>>

Serve(f) == Handshake(f) \/ RecvLength(f) \/ Close(f)

HandlerNext == RecvPayload \/ RecvPayloadFails \/ Respond \/ RespondFails

-----------------------------------------------------------------------------
(* The pump and its work items *)

RoomForTwo == Len(work) <= MaxWork   \* variant

Room == Len(work) < MaxWork

\* The pump finds a websocket in the client list and queues a work item for it.
QueueWork(f) ==
  /\ socket[f].ws
  /\ Room
  /\ work' = Append(work, f)
  /\ UNCHANGED <<connVars, outVars, httpd>>

\* sendAudioPacket sends to whoever has the socket now, or has no chunk to send, or
\* the send fails.
RunWork ==
  /\ httpd = Idle
  /\ work # <<>>
  /\ work' = Tail(work)
  /\ \/ UNCHANGED first
     \/ Holder(Head(work)) # NoClient /\ Message(Holder(Head(work)), "audio")
  /\ UNCHANGED <<connVars, answers, httpd>>

-----------------------------------------------------------------------------
Next ==
  \/ \E c \in Clients : Connect(c) \/ Leave(c) \/ Accept(c)
  \/ \E c \in Clients, kind \in Kinds : Send(c, kind)
  \/ \E f \in Fds : Serve(f) \/ QueueWork(f)
  \/ HandlerNext
  \/ RunWork

Spec == Init /\ [][Next]_vars

(***************************************************************************)
(* The server's task runs and serves, in every round, each session that    *)
(* has something to read: strong fairness for a session, since a handler   *)
(* of another one or a work item disables it for a while. Nothing else is  *)
(* owed, not even that work items run or connections are accepted.         *)
(***************************************************************************)
Fairness == WF_vars(HandlerNext) /\ \A f \in Fds : SF_vars(Serve(f))

FairSpec == Spec /\ Fairness

-----------------------------------------------------------------------------
(* Properties *)

\* Every variable has its type; the mailbox is never over its capacity, and a request
\* handler has a request it can handle. Code: the locals of wsHandler, AsyncRespArg,
\* and the assertions of the handlers.
TypeOK ==
  /\ conn \in [Clients -> {"away", "dialing", "up", "left"}]
  /\ socket \in [Fds -> [client : Clients \cup {NoClient}, ws : BOOLEAN]]
  /\ inbox \in [Clients -> Seq(Frames)]
  /\ asked \in [Clients -> 0..MaxFrames]
  /\ answers \in [Clients -> Seq(Responses)]
  /\ first \in [Clients -> {"none", "audio", "response"}]
  /\ httpd \in {Idle} \cup [pc : {"payload", "respond"}, fd : Fds, frame : Frames]
  /\ httpd.pc = "respond" => Handled(httpd.frame)
  /\ work \in Seq(Fds) /\ Len(work) <= MaxWork

\* The session_id a client was told in its hello response names its session, and
\* no other client's, as long as the session lasts: handleHelloRequest takes the
\* socket's number, which esp_http_server uses again for others later.
SessionIdOwned ==
  \A c \in Clients : \A i \in DOMAIN answers[c] :
    answers[c][i].result = "hello" =>
      /\ answers[c][i].session_id \in Fds
      /\ Holder(answers[c][i].session_id) = c

\* A client that has not left loses its session only when a frame of its own cannot be
\* received: its header is refused, its length is, or its payload does not arrive.
\* Neither a frame that does not decode, nor a request nobody handles, nor a response
\* that cannot be sent, nor anything another client does costs it the session. Code:
\* wsHandler's returns, and that it does not pass on the result of
\* dispatchProtobufRequest.
NotReceived(c) ==
  \/ httpd.pc = "idle" /\ inbox[c] # <<>> /\ ~Accepted(Head(inbox[c]))
  \/ httpd.pc = "payload" /\ Holder(httpd.fd) = c /\ ~Complete(httpd.frame)

OwnFrameEnds ==
  [][\A c \in Clients : conn[c] = "up" /\ conn'[c] = "away" => NotReceived(c)]_vars

\* "Expect and decode hello response": the first message ws_test.py receives on a
\* connection is a response.
HelloFirst == \A c \in Clients : first[c] # "audio"

\* The server implements RpcSession: ws_test.py waits without a timeout, and its
\* hello or ping is answered, once, in order, with its own request_id, and to itself,
\* unless its session ends, or a send fails, after which wsHandler goes on. Code: the
\* whole way from wsHandler to encodeAndSendPayload, with work items and other
\* sessions in between. The frame in the handler is not served yet.
Serving(c) == httpd.pc # "idle" /\ Holder(httpd.fd) = c

Here    == {c \in Clients : conn[c] = "up"}
Pending == [c \in Clients |-> IF Serving(c) THEN <<httpd.frame>> \o inbox[c] ELSE inbox[c]]
Reply(r)   == [request_id |-> r.request_id, result |-> r.result]
Replies(s) == [i \in DOMAIN s |-> Reply(s[i])]
Given      == [c \in Clients |-> Replies(answers[c])]

Rpc == INSTANCE RpcSession WITH
  Lossy <- "send" \in Faults, here <- Here, pending <- Pending, answers <- Given

RpcSpec == Rpc!Spec
=============================================================================
