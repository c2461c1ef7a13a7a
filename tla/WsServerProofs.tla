---------------------------- MODULE WsServerProofs ----------------------------
(***************************************************************************)
(* What holds of requests and sessions for any number of clients, sockets, *)
(* frames and work items and every combination of faults. Everything rests *)
(* on the book-keeping of sockets (SessionsOK): a client has at most one,  *)
(* it has one exactly while its session lasts, and nothing is kept for a   *)
(* client without one.                                                     *)
(***************************************************************************)
EXTENDS WsServer, TLAPS, SequenceTheorems

SessionsOK ==
  /\ \A f, g \in Fds : Holder(f) = Holder(g) /\ Holder(f) # NoClient => f = g
  /\ \A c \in Clients : conn[c] \in {"up", "left"} <=> \E f \in Fds : Holder(f) = c
  /\ \A c \in Clients :
       conn[c] \in {"away", "dialing"} => inbox[c] = <<>> /\ answers[c] = <<>>
  /\ \A f \in Fds : socket[f].ws => Holder(f) # NoClient
  /\ httpd # Idle => Holder(httpd.fd) # NoClient

IndInv == TypeOK /\ SessionsOK /\ SessionIdOwned

\* The server starts in the invariant.
LEMMA InitIndInv == Init => IndInv
<1> SUFFICES ASSUME Init PROVE IndInv
  OBVIOUS
<1>1. TypeOK
  <2>1. socket \in [Fds -> [client : Clients \cup {NoClient}, ws : BOOLEAN]]
    BY DEF Init, Closed
  <2>2. asked \in [Clients -> 0..MaxFrames]
    BY BoundsAssumption DEF Init
  <2>3. inbox \in [Clients -> Seq(Frames)] /\ answers \in [Clients -> Seq(Responses)]
    BY DEF Init
  <2>4. work \in Seq(Fds) /\ Len(work) <= MaxWork
    BY BoundsAssumption DEF Init
  <2> QED
    BY <2>1, <2>2, <2>3, <2>4 DEF Init, TypeOK, Idle
<1>2. SessionsOK
  BY ClientAssumption DEF Init, SessionsOK, Closed, Holder
<1>3. SessionIdOwned
  BY DEF Init, SessionIdOwned
<1> QED
  BY <1>1, <1>2, <1>3 DEF IndInv

\* A step that only the handler's position and the logs of sockets see.
LEMMA SameSessions ==
  ASSUME IndInv, TypeOK', UNCHANGED <<conn, answers>>,
         \A f \in Fds : /\ socket'[f].client = socket[f].client
                        /\ socket'[f].ws => Holder(f) # NoClient,
         \A c \in Clients : conn[c] \in {"away", "dialing"} => inbox'[c] = <<>>,
         httpd' # Idle => Holder(httpd'.fd) # NoClient /\ httpd'.fd \in Fds
  PROVE  IndInv'
<1>1. SessionsOK'
  BY DEF IndInv, SessionsOK, Holder
<1>2. SessionIdOwned'
  BY DEF IndInv, SessionIdOwned, Holder
<1> QED
  BY <1>1, <1>2 DEF IndInv

\* The handler's position, when it is not idle.
LEMMA HttpdBusy ==
  ASSUME TypeOK, httpd.pc # "idle"
  PROVE  /\ httpd \in [pc : {"payload", "respond"}, fd : Fds, frame : Frames]
         /\ httpd.fd \in Fds /\ httpd.frame \in Frames /\ httpd # Idle
         /\ httpd.pc = "respond" => httpd.frame.kind \in Answered
BY DEF TypeOK, Idle, Handled

LEMMA ConnectStep == ASSUME IndInv, NEW c \in Clients, Connect(c) PROVE IndInv'
<1>1. TypeOK'
  BY DEF IndInv, TypeOK, Connect, outVars
<1>2. SessionsOK'
  BY DEF IndInv, TypeOK, SessionsOK, Connect, outVars, Holder
<1>3. SessionIdOwned'
  BY DEF IndInv, SessionIdOwned, Connect, outVars, Holder
<1> QED
  BY <1>1, <1>2, <1>3 DEF IndInv

LEMMA LeaveStep == ASSUME IndInv, NEW c \in Clients, Leave(c) PROVE IndInv'
<1>1. TypeOK'
  BY DEF IndInv, TypeOK, Leave, outVars
<1>2. SessionsOK'
  BY DEF IndInv, TypeOK, SessionsOK, Leave, outVars, Holder
<1>3. SessionIdOwned'
  BY DEF IndInv, SessionIdOwned, Leave, outVars, Holder
<1> QED
  BY <1>1, <1>2, <1>3 DEF IndInv

LEMMA AcceptStep == ASSUME IndInv, NEW c \in Clients, Accept(c) PROVE IndInv'
<1>1. PICK f \in Free : socket' = [socket EXCEPT ![f] = [client |-> c, ws |-> FALSE]]
  BY DEF Accept
<1>2. f \in Fds /\ Holder(f) = NoClient
  BY <1>1 DEF Free
<1>3. TypeOK'
  BY <1>1, <1>2 DEF IndInv, TypeOK, Accept, outVars
<1>4. SessionsOK'
  <2>1. \A g \in Fds : Holder(g) # c
    BY DEF IndInv, SessionsOK, Accept
  <2>2. \A g \in Fds : Holder(g)' = IF g = f THEN c ELSE Holder(g)
    BY <1>1, <1>2 DEF IndInv, TypeOK, Holder
  <2>3. \A g, h \in Fds : Holder(g)' = Holder(h)' /\ Holder(g)' # NoClient => g = h
    BY <2>1, <2>2 DEF IndInv, SessionsOK
  <2>4. \A d \in Clients : conn'[d] = IF d = c THEN "up" ELSE conn[d]
    BY DEF IndInv, TypeOK, Accept
  <2>5. \A d \in Clients : conn'[d] \in {"up", "left"} <=> \E g \in Fds : Holder(g)' = d
    BY <1>2, <2>1, <2>2, <2>4, ClientAssumption DEF IndInv, SessionsOK
  <2>6. \A d \in Clients :
          conn'[d] \in {"away", "dialing"} => inbox'[d] = <<>> /\ answers'[d] = <<>>
    BY <2>4 DEF IndInv, SessionsOK, Accept, outVars
  <2>7. \A g \in Fds : socket'[g].ws => Holder(g)' # NoClient
    BY <1>1, <1>2, <2>2 DEF IndInv, TypeOK, SessionsOK
  <2>8. httpd' = Idle
    BY DEF Accept
  <2> QED
    BY <2>3, <2>5, <2>6, <2>7, <2>8 DEF SessionsOK
<1>5. SessionIdOwned'
  <2>1. \A g \in Fds : g # f => Holder(g)' = Holder(g)
    BY <1>1, <1>2 DEF IndInv, TypeOK, Holder
  <2>2. answers' = answers
    BY DEF Accept, outVars
  <2> QED
    BY <1>2, <2>1, <2>2, ClientAssumption DEF IndInv, SessionIdOwned
<1> QED
  BY <1>3, <1>4, <1>5 DEF IndInv

LEMMA SendStep ==
  ASSUME IndInv, NEW c \in Clients, NEW kind \in Kinds, Send(c, kind)
  PROVE  IndInv'
<1>1. asked[c] \in 0..MaxFrames /\ asked[c] + 1 \in 1..MaxFrames
  BY BoundsAssumption DEF IndInv, TypeOK, Send
<1>2. [kind |-> kind, id |-> asked[c] + 1] \in Frames
  BY <1>1 DEF Frames
<1>3. TypeOK'
  BY <1>1, <1>2, BoundsAssumption DEF IndInv, TypeOK, Send, outVars
<1>4. \A d \in Clients : conn[d] \in {"away", "dialing"} => inbox'[d] = <<>>
  BY DEF IndInv, TypeOK, SessionsOK, Send
<1>5. UNCHANGED <<conn, socket, answers, httpd>>
  BY DEF Send, outVars
<1> QED
  BY <1>3, <1>4, <1>5, SameSessions, HttpdBusy DEF IndInv, SessionsOK, TypeOK

\* The end of a session, whoever ends it.
LEMMA EndStep ==
  ASSUME IndInv, NEW f \in Fds, Holder(f) # NoClient,
         httpd = Idle \/ httpd.fd = f, EndSession(f)
  PROVE  IndInv'
<1> DEFINE c == Holder(f)
<1>1. c \in Clients
  BY DEF IndInv, TypeOK, Holder
<1>2. TypeOK'
  BY <1>1, BoundsAssumption DEF IndInv, TypeOK, EndSession, Closed, Idle
<1>3. \A g \in Fds : Holder(g)' = IF g = f THEN NoClient ELSE Holder(g)
  BY DEF IndInv, TypeOK, EndSession, Closed, Holder
<1>4. \A d \in Clients : /\ conn'[d] = IF d = c THEN "away" ELSE conn[d]
                         /\ inbox'[d] = IF d = c THEN <<>> ELSE inbox[d]
                         /\ answers'[d] = IF d = c THEN <<>> ELSE answers[d]
  BY DEF IndInv, TypeOK, EndSession
<1>5. \A g \in Fds : g # f => Holder(g) # c
  BY DEF IndInv, SessionsOK
<1>6. SessionsOK'
  <2>1. \A g, h \in Fds : Holder(g)' = Holder(h)' /\ Holder(g)' # NoClient => g = h
    BY <1>3 DEF IndInv, SessionsOK
  <2>2. \A d \in Clients : conn'[d] \in {"up", "left"} <=> \E g \in Fds : Holder(g)' = d
    BY <1>3, <1>4, <1>5, ClientAssumption DEF IndInv, SessionsOK
  <2>3. \A d \in Clients :
          conn'[d] \in {"away", "dialing"} => inbox'[d] = <<>> /\ answers'[d] = <<>>
    BY <1>4 DEF IndInv, SessionsOK
  <2>4. \A g \in Fds : socket'[g].ws => Holder(g)' # NoClient
    BY <1>3 DEF IndInv, TypeOK, SessionsOK, EndSession, Closed
  <2>5. httpd' = Idle
    BY DEF EndSession
  <2> QED
    BY <2>1, <2>2, <2>3, <2>4, <2>5 DEF SessionsOK
<1>7. SessionIdOwned'
  BY <1>1, <1>3, <1>4 DEF IndInv, SessionIdOwned
<1> QED
  BY <1>2, <1>6, <1>7 DEF IndInv

LEMMA HandshakeStep == ASSUME IndInv, NEW f \in Fds, Handshake(f) PROVE IndInv'
<1>1. TypeOK'
  BY DEF IndInv, TypeOK, Handshake, outVars
<1>2. \A g \in Fds : /\ socket'[g].client = socket[g].client
                     /\ socket'[g].ws => Holder(g) # NoClient
  BY DEF IndInv, TypeOK, SessionsOK, Handshake, Holder
<1>3. UNCHANGED <<conn, answers, inbox>> /\ httpd' = Idle
  BY DEF Handshake, outVars
<1> QED
  BY <1>1, <1>2, <1>3, SameSessions DEF IndInv, SessionsOK

LEMMA CloseStep == ASSUME IndInv, NEW f \in Fds, Close(f) PROVE IndInv'
BY EndStep DEF Close

LEMMA RecvLengthStep == ASSUME IndInv, NEW f \in Fds, RecvLength(f) PROVE IndInv'
<1>1. Holder(f) \in Clients /\ Holder(f) # NoClient
  BY ClientAssumption DEF IndInv, TypeOK, SessionsOK, RecvLength, Holder
<1>2. CASE EndSession(f)
  BY <1>1, <1>2, EndStep DEF RecvLength
<1>3. CASE ~EndSession(f)
  <2> DEFINE c == Holder(f)
  <2>1. /\ httpd' = [pc |-> "payload", fd |-> f, frame |-> Head(inbox[c])]
        /\ inbox' = [inbox EXCEPT ![c] = Tail(@)]
        /\ UNCHANGED <<conn, socket, asked, outVars, work>>
    BY <1>3 DEF RecvLength
  <2>2. Head(inbox[c]) \in Frames /\ Tail(inbox[c]) \in Seq(Frames)
    BY <1>1, HeadTailProperties DEF IndInv, TypeOK, RecvLength
  <2>3. TypeOK'
    BY <1>1, <2>1, <2>2 DEF IndInv, TypeOK, outVars
  <2>4. \A d \in Clients : conn[d] \in {"away", "dialing"} => inbox'[d] = <<>>
    <3>1. conn[c] \in {"up", "left"}
      BY <1>1 DEF IndInv, SessionsOK
    <3> QED
      BY <1>1, <2>1, <3>1 DEF IndInv, TypeOK, SessionsOK
  <2>5. UNCHANGED <<conn, socket, answers>> /\ httpd'.fd = f
    BY <2>1 DEF outVars
  <2> QED
    BY <1>1, <2>3, <2>4, <2>5, SameSessions DEF IndInv, SessionsOK
<1> QED
  BY <1>2, <1>3

LEMMA RecvPayloadStep == ASSUME IndInv, RecvPayload PROVE IndInv'
<1>1. httpd \in [pc : {"payload", "respond"}, fd : Fds, frame : Frames] /\ httpd # Idle
  BY HttpdBusy DEF IndInv, RecvPayload
<1>2. httpd' = Idle \/ httpd' = [httpd EXCEPT !.pc = "respond"]
  BY DEF RecvPayload
<1>3. TypeOK'
  <2>1. /\ httpd' \in {Idle} \cup [pc : {"payload", "respond"}, fd : Fds, frame : Frames]
        /\ httpd'.pc = "respond" => Handled(httpd'.frame)
    BY <1>1 DEF RecvPayload, Idle
  <2> QED
    BY <2>1 DEF IndInv, TypeOK, RecvPayload, connVars, outVars
<1>4. UNCHANGED <<conn, socket, inbox, answers>>
  BY DEF RecvPayload, connVars, outVars
<1>5. httpd' # Idle => httpd'.fd = httpd.fd /\ httpd.fd \in Fds
  BY <1>1, <1>2
<1> QED
  BY <1>1, <1>3, <1>4, <1>5, SameSessions DEF IndInv, SessionsOK

LEMMA RecvPayloadFailsStep == ASSUME IndInv, RecvPayloadFails PROVE IndInv'
BY EndStep, HttpdBusy DEF IndInv, SessionsOK, RecvPayloadFails

LEMMA RespondStep == ASSUME IndInv, Respond PROVE IndInv'
<1> DEFINE f == httpd.fd
           c == Holder(httpd.fd)
           r == Response(httpd.fd, httpd.frame)
<1>1. /\ f \in Fds /\ httpd.frame \in Frames
      /\ c \in Clients /\ c # NoClient
      /\ conn[c] \in {"up", "left"}
  BY HttpdBusy DEF IndInv, TypeOK, SessionsOK, Respond, Holder
<1>2. answers' = [answers EXCEPT ![c] = Append(@, r)]
  BY DEF Respond
<1>3. TypeOK'
  <2>1. httpd.frame.kind \in Answered
    BY HttpdBusy DEF IndInv, Respond
  <2>2. f \in Fds \cup {0} /\ httpd.frame.id \in 1..MaxFrames
    BY <1>1 DEF Frames
  <2>3. r \in Responses
    BY <2>1, <2>2 DEF Responses, Response
  <2>4. answers' \in [Clients -> Seq(Responses)]
    BY <1>1, <1>2, <2>3 DEF IndInv, TypeOK
  <2>5. first' \in [Clients -> {"none", "audio", "response"}]
    BY DEF IndInv, TypeOK, Respond, Message
  <2> QED
    BY <2>4, <2>5 DEF IndInv, TypeOK, Respond, connVars, Idle
<1>4. SessionsOK'
  BY <1>1, <1>2 DEF IndInv, SessionsOK, Respond, connVars, Holder
<1>5. SessionIdOwned'
  BY <1>1, <1>2 DEF IndInv, SessionIdOwned, Respond, connVars, Holder, Response
<1> QED
  BY <1>3, <1>4, <1>5 DEF IndInv

LEMMA RespondFailsStep == ASSUME IndInv, RespondFails PROVE IndInv'
<1>1. TypeOK'
  BY DEF IndInv, TypeOK, RespondFails, connVars, outVars, Idle
<1>2. UNCHANGED <<conn, socket, inbox, answers>> /\ httpd' = Idle
  BY DEF RespondFails, connVars, outVars
<1> QED
  BY <1>1, <1>2, SameSessions DEF IndInv, SessionsOK

\* A step that neither sessions nor requests see.
LEMMA SameRequests ==
  ASSUME IndInv, TypeOK', UNCHANGED <<conn, socket, inbox, answers, httpd>>
  PROVE  IndInv'
BY HttpdBusy, SameSessions DEF IndInv, SessionsOK, TypeOK

LEMMA QueueWorkStep == ASSUME IndInv, NEW f \in Fds, QueueWork(f) PROVE IndInv'
<1>1. Holder(f) \in Clients
  BY DEF IndInv, TypeOK, SessionsOK, QueueWork, Holder
<1>2. /\ work' \in Seq(Fds)
      /\ Len(work') <= MaxWork
  BY <1>1, BoundsAssumption DEF IndInv, TypeOK, QueueWork, Room
<1>3. TypeOK'
  BY <1>2 DEF IndInv, TypeOK, QueueWork, connVars, outVars
<1> QED
  BY <1>3, SameRequests DEF QueueWork, connVars, outVars

LEMMA RunWorkStep == ASSUME IndInv, RunWork PROVE IndInv'
<1>1. /\ work' \in Seq(Fds)
      /\ Len(work') <= MaxWork
  BY HeadTailProperties, LenProperties, BoundsAssumption DEF IndInv, TypeOK, RunWork
<1>2. first' \in [Clients -> {"none", "audio", "response"}]
  BY DEF IndInv, TypeOK, RunWork, Message
<1>3. TypeOK'
  BY <1>1, <1>2 DEF IndInv, TypeOK, RunWork, connVars
<1> QED
  BY <1>3, SameRequests DEF RunWork, connVars

\* Every step keeps the invariant.
LEMMA NextIndInv == ASSUME IndInv, [Next]_vars PROVE IndInv'
<1>1. CASE Next
  <2>1. CASE \E c \in Clients : Connect(c) \/ Leave(c) \/ Accept(c)
    BY <2>1, ConnectStep, LeaveStep, AcceptStep
  <2>2. CASE \E c \in Clients, kind \in Kinds : Send(c, kind)
    BY <2>2, SendStep
  <2>3. CASE \E f \in Fds : Serve(f) \/ QueueWork(f)
    BY <2>3, HandshakeStep, RecvLengthStep, CloseStep, QueueWorkStep DEF Serve
  <2>4. CASE HandlerNext
    BY <2>4, RecvPayloadStep, RecvPayloadFailsStep, RespondStep, RespondFailsStep
       DEF HandlerNext
  <2>5. CASE RunWork
    BY <2>5, RunWorkStep
  <2> QED
    BY <1>1, <2>1, <2>2, <2>3, <2>4, <2>5 DEF Next
<1>2. CASE UNCHANGED vars
  <2>1. TypeOK'
    BY <1>2 DEF IndInv, TypeOK, vars
  <2> QED
    BY <1>2, <2>1, SameRequests DEF vars
<1> QED
  BY <1>1, <1>2

\* The whole invariant holds in every reachable state.
THEOREM Invariance == Spec => []IndInv
<1>1. Init => IndInv
  BY InitIndInv
<1>2. IndInv /\ [Next]_vars => IndInv'
  BY NextIndInv
<1> QED
  BY <1>1, <1>2, PTL DEF Spec

\* Types: in particular no request handler is ever entered with a frame its
\* assertion refuses.
THEOREM TypeCorrect == Spec => []TypeOK
<1>1. IndInv => TypeOK
  BY DEF IndInv
<1> QED
  BY <1>1, Invariance, PTL

\* The session_id of a hello response is its client's own, for the whole session.
THEOREM SessionIdsOwned == Spec => []SessionIdOwned
<1>1. IndInv => SessionIdOwned
  BY DEF IndInv
<1> QED
  BY <1>1, Invariance, PTL

-----------------------------------------------------------------------------
(* Whose frame ends a session *)

\* Only EndSession takes a connection down, and only that of the socket's holder.
LEMMA EndsOwn ==
  ASSUME IndInv, NEW f \in Fds, EndSession(f), NEW c \in Clients,
         conn[c] = "up", conn'[c] = "away"
  PROVE  c = Holder(f)
BY DEF IndInv, TypeOK, EndSession

LEMMA OwnFrameStep ==
  ASSUME IndInv, Next, NEW c \in Clients, conn[c] = "up", conn'[c] = "away"
  PROVE  NotReceived(c)
<1>1. CASE \E d \in Clients : Connect(d) \/ Leave(d) \/ Accept(d)
  BY <1>1 DEF IndInv, TypeOK, Connect, Leave, Accept
<1>2. CASE \E d \in Clients, kind \in Kinds : Send(d, kind)
  BY <1>2 DEF Send
<1>3. ASSUME NEW f \in Fds, Serve(f) \/ QueueWork(f)
      PROVE  NotReceived(c)
  <2>1. CASE RecvLength(f)
    BY <2>1, EndsOwn DEF RecvLength, NotReceived, Idle
  <2>2. CASE Close(f)
    BY <2>2, EndsOwn DEF Close
  <2>3. CASE Handshake(f) \/ QueueWork(f)
    BY <2>3 DEF Handshake, QueueWork, connVars
  <2> QED
    BY <1>3, <2>1, <2>2, <2>3 DEF Serve
<1>4. CASE HandlerNext
  <2>1. CASE RecvPayloadFails
    <3>1. httpd.fd \in Fds /\ c = Holder(httpd.fd)
      BY <2>1, EndsOwn, HttpdBusy DEF RecvPayloadFails, IndInv
    <3> QED
      BY <2>1, <3>1 DEF RecvPayloadFails, NotReceived
  <2>2. CASE RecvPayload \/ Respond \/ RespondFails
    BY <2>2 DEF RecvPayload, Respond, RespondFails, connVars
  <2> QED
    BY <1>4, <2>1, <2>2 DEF HandlerNext
<1>5. CASE RunWork
  BY <1>5 DEF RunWork, connVars
<1> QED
  BY <1>1, <1>2, <1>3, <1>4, <1>5 DEF Next

\* Of a client that has not left only a frame of its own that cannot be received ends
\* the session, whatever else the server's task does.
THEOREM OwnFrameEndsHolds == Spec => OwnFrameEnds
<1> DEFINE Ends == \A c \in Clients : conn[c] = "up" /\ conn'[c] = "away" => NotReceived(c)
<1>1. IndInv /\ [Next]_vars => [Ends]_vars
  BY OwnFrameStep
<1> QED
  BY <1>1, Invariance, PTL DEF Spec, OwnFrameEnds

-----------------------------------------------------------------------------
(* The server implements RpcSession *)

\* The frame in the handler, put before those not read yet.
LEMMA ConsProperties ==
  ASSUME NEW S, NEW x \in S, NEW s \in Seq(S)
  PROVE  /\ <<x>> \o s \in Seq(S)
         /\ <<x>> \o s # <<>>
         /\ Head(<<x>> \o s) = x
         /\ Tail(<<x>> \o s) = s
         /\ \A y \in S : Append(<<x>> \o s, y) = <<x>> \o Append(s, y)
<1>1. <<x>> \in Seq(S) /\ Len(<<x>>) = 1
  OBVIOUS
<1>2. /\ <<x>> \o s \in Seq(S)
      /\ Len(<<x>> \o s) = 1 + Len(s)
      /\ \A i \in 1..(1 + Len(s)) : (<<x>> \o s)[i] = IF i <= 1 THEN x ELSE s[i - 1]
  BY <1>1, ConcatProperties
<1>3. Len(s) \in Nat
  BY LenProperties
<1>4. <<x>> \o s # <<>> /\ Head(<<x>> \o s) = x
  BY <1>2, <1>3
<1>5. Tail(<<x>> \o s) = s
  <2>1. /\ Tail(<<x>> \o s) \in Seq(S)
        /\ Len(Tail(<<x>> \o s)) = Len(s)
        /\ \A i \in 1..Len(s) : Tail(<<x>> \o s)[i] = s[i]
    BY <1>2, <1>3, <1>4, HeadTailProperties
  <2> QED
    BY <2>1, SeqEqual
<1>6. ASSUME NEW y \in S
      PROVE  Append(<<x>> \o s, y) = <<x>> \o Append(s, y)
  <2>1. /\ Append(s, y) \in Seq(S) /\ Len(Append(s, y)) = Len(s) + 1
        /\ \A i \in 1..(Len(s) + 1) :
             Append(s, y)[i] = IF i = Len(s) + 1 THEN y ELSE s[i]
    BY <1>3
  <2>2. /\ <<x>> \o Append(s, y) \in Seq(S)
        /\ Len(<<x>> \o Append(s, y)) = Len(s) + 2
        /\ \A i \in 1..(Len(s) + 2) :
             (<<x>> \o Append(s, y))[i] = IF i <= 1 THEN x ELSE Append(s, y)[i - 1]
    BY <1>1, <1>3, <2>1, ConcatProperties
  <2>3. /\ Append(<<x>> \o s, y) \in Seq(S)
        /\ Len(Append(<<x>> \o s, y)) = Len(s) + 2
        /\ \A i \in 1..(Len(s) + 2) :
             Append(<<x>> \o s, y)[i] = IF i = Len(s) + 2 THEN y ELSE (<<x>> \o s)[i]
    BY <1>2, <1>3
  <2>4. \A i \in 1..(Len(s) + 2) :
          Append(<<x>> \o s, y)[i] = (<<x>> \o Append(s, y))[i]
    BY <1>2, <1>3, <2>1, <2>2, <2>3
  <2> QED
    BY <2>2, <2>3, <2>4, SeqEqual
<1> QED
  BY <1>2, <1>4, <1>5, <1>6

LEMMA HeadConsTail ==
  ASSUME NEW S, NEW s \in Seq(S), s # <<>>
  PROVE  <<Head(s)>> \o Tail(s) = s
<1>1. /\ Head(s) \in S /\ Tail(s) \in Seq(S) /\ Len(Tail(s)) = Len(s) - 1
      /\ Len(s) \in Nat /\ Len(s) > 0 /\ Head(s) = s[1]
      /\ \A i \in 1..Len(Tail(s)) : Tail(s)[i] = s[i + 1]
  BY HeadTailProperties, LenProperties, EmptySeq
<1>2. <<Head(s)>> \in Seq(S) /\ Len(<<Head(s)>>) = 1 /\ <<Head(s)>>[1] = Head(s)
  BY <1>1
<1>3. /\ <<Head(s)>> \o Tail(s) \in Seq(S)
      /\ Len(<<Head(s)>> \o Tail(s)) = Len(s)
      /\ \A i \in 1..Len(s) :
           (<<Head(s)>> \o Tail(s))[i] = IF i <= 1 THEN Head(s) ELSE Tail(s)[i - 1]
  BY <1>1, <1>2, ConcatProperties
<1>4. \A i \in 1..Len(s) : (<<Head(s)>> \o Tail(s))[i] = s[i]
  BY <1>1, <1>3
<1> QED
  BY <1>3, <1>4, SeqEqual

LEMMA RepliesEmpty == Replies(<<>>) = <<>>
BY DEF Replies

LEMMA RepliesAppend ==
  ASSUME NEW s \in Seq(Responses), NEW r \in Responses
  PROVE  Replies(Append(s, r)) = Append(Replies(s), Reply(r))
<1> DEFINE T == {Reply(q) : q \in Responses}
<1>1. /\ Append(s, r) \in Seq(Responses) /\ Len(Append(s, r)) = Len(s) + 1
      /\ Len(s) \in Nat
      /\ \A i \in 1..(Len(s) + 1) :
           /\ Append(s, r)[i] = IF i = Len(s) + 1 THEN r ELSE s[i]
           /\ i # Len(s) + 1 => s[i] \in Responses
  OBVIOUS
<1>2. Replies(s) \in Seq(T) /\ Len(Replies(s)) = Len(s)
  BY <1>1 DEF Replies
<1>3. Replies(Append(s, r)) \in Seq(T) /\ Len(Replies(Append(s, r))) = Len(s) + 1
  BY <1>1 DEF Replies
<1>4. /\ Append(Replies(s), Reply(r)) \in Seq(T)
      /\ Len(Append(Replies(s), Reply(r))) = Len(s) + 1
      /\ \A i \in 1..(Len(s) + 1) :
           Append(Replies(s), Reply(r))[i] = IF i = Len(s) + 1 THEN Reply(r) ELSE Replies(s)[i]
  BY <1>1, <1>2
<1>5. \A i \in 1..(Len(s) + 1) :
        Replies(Append(s, r))[i] = Append(Replies(s), Reply(r))[i]
  <2>1. \A i \in 1..(Len(s) + 1) : Replies(Append(s, r))[i] = Reply(Append(s, r)[i])
    BY <1>1 DEF Replies
  <2>2. \A i \in 1..Len(s) : Replies(s)[i] = Reply(s[i])
    BY <1>1 DEF Replies
  <2> QED
    BY <1>1, <1>4, <2>1, <2>2
<1> QED
  BY <1>1, <1>3, <1>4, <1>5, SeqEqual

\* Where nobody is served the frames not read are all that is pending.
LEMMA PendingIdle == ASSUME httpd.pc = "idle" PROVE Pending = [c \in Clients |-> inbox[c]]
BY DEF Pending, Serving

LEMMA InitRefines == Init => Rpc!Init
BY RepliesEmpty DEF Init, Idle, Rpc!Init, Here, Pending, Serving, Given

\* The end of a session is the end of it, whatever was pending.
LEMMA EndRefines ==
  ASSUME IndInv, NEW f \in Fds, Holder(f) # NoClient,
         httpd = Idle \/ httpd.fd = f, EndSession(f)
  PROVE  Holder(f) \in Clients /\ Rpc!End(Holder(f))
<1> DEFINE c == Holder(f)
<1>1. c \in Clients
  BY DEF IndInv, TypeOK, Holder
<1>2. \A d \in Clients : /\ conn'[d] = IF d = c THEN "away" ELSE conn[d]
                         /\ inbox'[d] = IF d = c THEN <<>> ELSE inbox[d]
                         /\ answers'[d] = IF d = c THEN <<>> ELSE answers[d]
  BY DEF IndInv, TypeOK, EndSession
<1>3. Here' = Here \ {c}
  BY <1>1, <1>2 DEF Here
<1>4. Pending' = [Pending EXCEPT ![c] = <<>>]
  <2>1. httpd'.pc = "idle"
    BY DEF EndSession, Idle
  <2>2. \A d \in Clients : d # c => ~Serving(d)
    BY DEF Serving, Idle
  <2>3. \A d \in Clients : Pending'[d] = inbox'[d] /\ (d # c => Pending[d] = inbox[d])
    BY <2>1, <2>2 DEF Pending, Serving
  <2> QED
    BY <1>2, <2>3 DEF Pending
<1>5. Given' = [Given EXCEPT ![c] = <<>>]
  BY <1>2, RepliesEmpty DEF Given
<1> QED
  BY <1>1, <1>3, <1>4, <1>5 DEF Rpc!End

\* A step that only clients and their connections see.
LEMMA MoveRefines ==
  ASSUME UNCHANGED <<inbox, answers, httpd>>,
         httpd = Idle \/ \A f \in Fds : socket'[f] = socket[f], IndInv
  PROVE  Rpc!Move
<1>1. \A c \in Clients : Serving(c)' = Serving(c)
  <2>1. CASE httpd = Idle
    BY <2>1 DEF Serving, Idle
  <2>2. CASE httpd # Idle
    BY <2>2 DEF Serving, IndInv, TypeOK, Holder
  <2> QED
    BY <2>1, <2>2
<1>2. Pending' = Pending
  BY <1>1 DEF Pending
<1>3. Given' = Given /\ Here' \in SUBSET Clients
  BY DEF Given, Here
<1> QED
  BY <1>2, <1>3 DEF Rpc!Move

LEMMA SendRefines ==
  ASSUME IndInv, NEW c \in Clients, NEW kind \in Kinds, Send(c, kind)
  PROVE  Rpc!Ask(c)
<1> DEFINE frame == [kind |-> kind, id |-> asked[c] + 1]
<1>1. frame \in Frames
  BY BoundsAssumption DEF IndInv, TypeOK, Send, Frames
<1>2. inbox' = [inbox EXCEPT ![c] = Append(@, frame)] /\ inbox \in [Clients -> Seq(Frames)]
  BY DEF Send, IndInv, TypeOK
<1>3. \A d \in Clients : Serving(d)' = Serving(d) /\ (Serving(d) => httpd.frame \in Frames)
  BY HttpdBusy DEF Send, Serving, Holder, IndInv
<1>4. \A d \in Clients : Pending'[d] = IF d = c THEN Append(Pending[c], frame) ELSE Pending[d]
  <2>1. CASE Serving(c)
    <3>1. Append(<<httpd.frame>> \o inbox[c], frame) = <<httpd.frame>> \o Append(inbox[c], frame)
      BY <1>1, <1>2, <1>3, <2>1, ConsProperties
    <3> QED
      BY <1>2, <1>3, <2>1, <3>1 DEF Pending, Send
  <2>2. CASE ~Serving(c)
    BY <1>2, <1>3, <2>2 DEF Pending, Send
  <2> QED
    BY <2>1, <2>2
<1>5. Pending' = [Pending EXCEPT ![c] = Append(@, frame)]
  BY <1>4 DEF Pending
<1>6. Here' = Here /\ Given' = Given /\ c \in Here
  BY DEF Here, Given, Send, outVars
<1> QED
  BY <1>1, <1>5, <1>6 DEF Rpc!Ask

\* Reading a frame's length moves it from the socket to the handler.
LEMMA RecvLengthRefines ==
  ASSUME IndInv, NEW f \in Fds, RecvLength(f)
  PROVE  UNCHANGED Rpc!vars \/ (Holder(f) \in Clients /\ Rpc!End(Holder(f)))
<1>1. Holder(f) \in Clients /\ Holder(f) # NoClient
  BY ClientAssumption DEF IndInv, TypeOK, SessionsOK, RecvLength, Holder
<1>2. CASE EndSession(f)
  BY <1>1, <1>2, EndRefines DEF RecvLength
<1>3. CASE ~EndSession(f)
  <2> DEFINE c == Holder(f)
  <2>1. /\ httpd' = [pc |-> "payload", fd |-> f, frame |-> Head(inbox[c])]
        /\ inbox' = [inbox EXCEPT ![c] = Tail(@)]
        /\ inbox[c] \in Seq(Frames) /\ inbox[c] # <<>> /\ inbox \in [Clients -> Seq(Frames)]
        /\ UNCHANGED <<conn, socket, answers>> /\ httpd = Idle
    BY <1>1, <1>3 DEF RecvLength, outVars, IndInv, TypeOK
  <2>2. \A d \in Clients : Serving(d)' <=> d = c
    BY <2>1 DEF Serving, Holder
  <2>3. Pending'[c] = inbox[c]
    <3>1. Pending'[c] = <<Head(inbox[c])>> \o Tail(inbox[c])
      BY <1>1, <2>1, <2>2 DEF Pending
    <3> QED
      BY <1>1, <2>1, <3>1, HeadConsTail
  <2>4. \A d \in Clients : d # c => Pending'[d] = inbox[d]
    BY <1>1, <2>1, <2>2 DEF Pending
  <2>5. Pending = [d \in Clients |-> inbox[d]]
    BY <2>1, PendingIdle DEF Idle
  <2>6. Pending' = Pending
    BY <2>3, <2>4, <2>5 DEF Pending
  <2> QED
    BY <2>1, <2>6 DEF Rpc!vars, Here, Given
<1> QED
  BY <1>2, <1>3

\* What is pending when the handler returns: the frame it had is served.
LEMMA ServedPending ==
  ASSUME IndInv, httpd.pc # "idle", httpd' = Idle, UNCHANGED connVars
  PROVE  /\ Holder(httpd.fd) \in Clients
         /\ Pending[Holder(httpd.fd)] # <<>>
         /\ Head(Pending[Holder(httpd.fd)]) = httpd.frame
         /\ Pending' = [Pending EXCEPT ![Holder(httpd.fd)] = Tail(@)]
         /\ Here' = Here
<1> DEFINE c == Holder(httpd.fd)
<1>1. c \in Clients /\ httpd.frame \in Frames /\ inbox[c] \in Seq(Frames)
  BY HttpdBusy DEF IndInv, TypeOK, SessionsOK, Holder
<1>2. \A d \in Clients : Serving(d) <=> d = c
  BY DEF Serving
<1>3. Pending[c] = <<httpd.frame>> \o inbox[c]
  BY <1>1, <1>2 DEF Pending
<1>4. Pending[c] # <<>> /\ Head(Pending[c]) = httpd.frame /\ Tail(Pending[c]) = inbox[c]
  BY <1>1, <1>3, ConsProperties
<1>5. \A d \in Clients : Pending'[d] = inbox[d]
  BY DEF Pending, Serving, Idle, connVars
<1>6. \A d \in Clients : d # c => Pending[d] = inbox[d]
  BY <1>2 DEF Pending
<1>7. Pending' = [Pending EXCEPT ![c] = Tail(@)]
  BY <1>1, <1>4, <1>5, <1>6 DEF Pending
<1> QED
  BY <1>1, <1>4, <1>7 DEF Here, connVars

\* A frame that is no request is dropped; a request goes on to its handler.
LEMMA RecvPayloadRefines ==
  ASSUME IndInv, RecvPayload
  PROVE  UNCHANGED Rpc!vars \/ \E c \in Clients : Rpc!Pass(c)
<1>1. httpd \in [pc : {"payload", "respond"}, fd : Fds, frame : Frames]
      /\ httpd.pc # "idle" /\ UNCHANGED connVars /\ Given' = Given /\ Here' = Here
  BY HttpdBusy DEF IndInv, RecvPayload, Given, Here, connVars, outVars
<1>2. CASE Handled(httpd.frame)
  <2>1. httpd' = [httpd EXCEPT !.pc = "respond"]
    BY <1>2 DEF RecvPayload
  <2>2. \A c \in Clients : (Serving(c)' <=> Serving(c)) /\ httpd'.frame = httpd.frame
    BY <1>1, <2>1 DEF Serving, Holder, connVars
  <2> QED
    BY <1>1, <2>2 DEF Rpc!vars, Pending, connVars
<1>3. CASE ~Handled(httpd.frame)
  <2>1. httpd' = Idle
    BY <1>3 DEF RecvPayload
  <2> QED
    BY <1>1, <1>3, <2>1, ServedPending DEF Rpc!Pass, Rpc!Take, Handled
<1> QED
  BY <1>2, <1>3

LEMMA RespondRefines ==
  ASSUME IndInv, Respond
  PROVE  \E c \in Clients : Rpc!Answer(c)
<1> DEFINE c == Holder(httpd.fd)
           r == Response(httpd.fd, httpd.frame)
<1>1. /\ httpd.fd \in Fds /\ httpd.frame \in Frames /\ httpd.frame.kind \in Answered
      /\ httpd.pc # "idle" /\ httpd' = Idle /\ UNCHANGED connVars
      /\ answers' = [answers EXCEPT ![c] = Append(@, r)]
  BY HttpdBusy DEF IndInv, Respond
<1>2. /\ c \in Clients
      /\ Pending[c] # <<>>
      /\ Head(Pending[c]) = httpd.frame
      /\ Pending' = [Pending EXCEPT ![c] = Tail(@)]
      /\ Here' = Here
  BY <1>1, ServedPending
<1>3. httpd.frame.id \in 1..MaxFrames /\ httpd.fd \in Fds \cup {0}
  BY <1>1 DEF Frames
<1>4. r \in Responses
  BY <1>1, <1>3 DEF Responses, Response
<1>5. answers \in [Clients -> Seq(Responses)]
  BY DEF IndInv, TypeOK
<1>6. Given' = [Given EXCEPT ![c] = Append(@, Reply(r))]
  BY <1>1, <1>2, <1>4, <1>5, RepliesAppend DEF Given
<1>7. Reply(r) = [request_id |-> httpd.frame.id, result |-> httpd.frame.kind]
  BY DEF Reply, Response
<1> QED
  BY <1>1, <1>2, <1>6, <1>7 DEF Rpc!Answer, Rpc!Take

LEMMA RespondFailsRefines ==
  ASSUME IndInv, RespondFails
  PROVE  \E c \in Clients : Rpc!Pass(c)
<1> DEFINE c == Holder(httpd.fd)
<1>1. httpd.pc # "idle" /\ httpd' = Idle /\ UNCHANGED connVars /\ Given' = Given
  BY DEF RespondFails, Given, outVars
<1>2. /\ c \in Clients
      /\ Pending[c] # <<>>
      /\ Pending' = [Pending EXCEPT ![c] = Tail(@)]
      /\ Here' = Here
  BY <1>1, ServedPending
<1>3. "send" \in Faults \/ c \notin Here
  BY DEF RespondFails, Here
<1> QED
  BY <1>1, <1>2, <1>3 DEF Rpc!Pass, Rpc!Take

\* A step that no request sees.
LEMMA WorkRefines ==
  ASSUME UNCHANGED <<conn, inbox, answers, httpd>>,
         \A f \in Fds : socket'[f].client = socket[f].client, IndInv
  PROVE  UNCHANGED Rpc!vars
<1>1. \A c \in Clients : Serving(c)' <=> Serving(c)
  BY HttpdBusy DEF Serving, Holder, IndInv
<1> QED
  BY <1>1 DEF Rpc!vars, Here, Pending, Given

LEMMA StepRefines ==
  ASSUME IndInv, [Next]_vars
  PROVE  [Rpc!Next]_(Rpc!vars)
<1>1. ASSUME NEW c \in Clients, Connect(c) \/ Leave(c) \/ Accept(c)
      PROVE  Rpc!Next
  BY <1>1, MoveRefines DEF Connect, Leave, Accept, outVars, Rpc!Next
<1>2. ASSUME NEW c \in Clients, NEW kind \in Kinds, Send(c, kind)
      PROVE  Rpc!Next
  BY <1>2, SendRefines DEF Rpc!Next
<1>3. ASSUME NEW f \in Fds, RecvLength(f)
      PROVE  [Rpc!Next]_(Rpc!vars)
  BY <1>3, RecvLengthRefines DEF Rpc!Next, Rpc!Serve
<1>4. ASSUME NEW f \in Fds, Close(f)
      PROVE  Rpc!Next
  BY <1>4, EndRefines DEF Close, Rpc!Next, Rpc!Serve
<1>5. ASSUME NEW f \in Fds, Handshake(f)
      PROVE  UNCHANGED Rpc!vars
  BY <1>5, WorkRefines DEF Handshake, outVars, IndInv, TypeOK
<1>6. ASSUME NEW f \in Fds, QueueWork(f)
      PROVE  UNCHANGED Rpc!vars
  BY <1>6, WorkRefines DEF QueueWork, connVars, outVars
<1>7. CASE HandlerNext
  <2>1. CASE RecvPayload
    BY <2>1, RecvPayloadRefines DEF Rpc!Next, Rpc!Serve
  <2>2. CASE RecvPayloadFails
    <3>1. httpd.fd \in Fds /\ Holder(httpd.fd) # NoClient
      BY <2>2, HttpdBusy DEF RecvPayloadFails, IndInv, SessionsOK
    <3> QED
      BY <2>2, <3>1, EndRefines DEF RecvPayloadFails, Rpc!Next, Rpc!Serve
  <2>3. CASE Respond
    BY <2>3, RespondRefines DEF Rpc!Next, Rpc!Serve
  <2>4. CASE RespondFails
    BY <2>4, RespondFailsRefines DEF Rpc!Next, Rpc!Serve
  <2> QED
    BY <1>7, <2>1, <2>2, <2>3, <2>4 DEF HandlerNext
<1>8. CASE RunWork
  BY <1>8, WorkRefines DEF RunWork, connVars
<1>9. CASE UNCHANGED vars
  BY <1>9, WorkRefines DEF vars
<1> QED
  BY <1>1, <1>2, <1>3, <1>4, <1>5, <1>6, <1>7, <1>8, <1>9 DEF Next, Serve

\* The server implements what RpcSession promises of every step: answers in order,
\* once, with their own number, to the client that asked. That no frame waits for
\* ever is checked by TLC.
THEOREM RpcRefinement == Spec => Rpc!Init /\ [][Rpc!Next]_(Rpc!vars)
<1>1. Init => Rpc!Init
  BY InitRefines
<1>2. IndInv /\ [Next]_vars => [Rpc!Next]_(Rpc!vars)
  BY StepRefines
<1> QED
  BY <1>1, <1>2, Invariance, PTL DEF Spec

-----------------------------------------------------------------------------
(* The numbers of requests and answers on one connection *)

\* The frames not read, the answers given and the frame in the handler, if there is
\* one, of a client that has sent n frames: in the order in which they were sent.
InOrder(frames, given, current, n) ==
  /\ \A i, j \in DOMAIN frames : i < j => frames[i].id < frames[j].id
  /\ \A i, j \in DOMAIN given : i < j => given[i].request_id < given[j].request_id
  /\ \A i \in DOMAIN given, j \in DOMAIN frames : given[i].request_id < frames[j].id
  /\ \A i \in DOMAIN given, id \in current : given[i].request_id < id
  /\ \A j \in DOMAIN frames, id \in current : id < frames[j].id
  /\ \A j \in DOMAIN frames : frames[j].id <= n
  /\ \A i \in DOMAIN given : given[i].request_id <= n
  /\ \A id \in current : id <= n

\* The numbers of the frame in the handler, if it is c's.
Current(c) == IF Serving(c) THEN {httpd.frame.id} ELSE {}

LinesInOrder == \A c \in Clients : InOrder(inbox[c], answers[c], Current(c), asked[c])

LEMMA NumberTypes ==
  /\ \A frame \in Frames : frame.id \in Nat
  /\ \A r \in Responses : r.request_id \in Nat
<1>1. 1..MaxFrames \subseteq Nat
  BY BoundsAssumption
<1> QED
  BY <1>1 DEF Frames, Responses

LEMMA OrderEmpty == InOrder(<<>>, <<>>, {}, 0)
BY DEF InOrder

LEMMA OrderSend ==
  ASSUME NEW frames \in Seq(Frames), NEW given \in Seq(Responses), NEW n \in Nat,
         NEW current \in SUBSET Nat, NEW frame \in Frames, frame.id = n + 1,
         InOrder(frames, given, current, n)
  PROVE  InOrder(Append(frames, frame), given, current, n + 1)
<1>1. /\ Len(frames) \in Nat /\ DOMAIN frames = 1..Len(frames)
      /\ DOMAIN Append(frames, frame) = 1..(Len(frames) + 1)
      /\ \A i \in 1..Len(frames) : Append(frames, frame)[i] = frames[i]
      /\ Append(frames, frame)[Len(frames) + 1] = frame
  OBVIOUS
<1>2. /\ \A i \in DOMAIN frames : frames[i] \in Frames
      /\ \A i \in DOMAIN given : given[i] \in Responses
  OBVIOUS
<1> QED
  BY <1>1, <1>2, NumberTypes DEF InOrder

LEMMA OrderTake ==
  ASSUME NEW frames \in Seq(Frames), NEW given \in Seq(Responses), NEW n \in Nat,
         frames # <<>>, InOrder(frames, given, {}, n)
  PROVE  InOrder(Tail(frames), given, {Head(frames).id}, n)
<1>1. /\ Len(frames) \in Nat /\ Len(frames) > 0 /\ DOMAIN frames = 1..Len(frames)
      /\ DOMAIN Tail(frames) = 1..(Len(frames) - 1)
      /\ \A i \in 1..(Len(frames) - 1) : Tail(frames)[i] = frames[i + 1]
      /\ Head(frames) = frames[1]
  BY HeadTailProperties, LenProperties, EmptySeq
<1> QED
  BY <1>1 DEF InOrder

LEMMA OrderAnswer ==
  ASSUME NEW frames \in Seq(Frames), NEW given \in Seq(Responses), NEW n \in Nat,
         NEW r \in Responses, InOrder(frames, given, {r.request_id}, n)
  PROVE  InOrder(frames, Append(given, r), {}, n)
<1>1. /\ Len(given) \in Nat /\ DOMAIN given = 1..Len(given)
      /\ DOMAIN Append(given, r) = 1..(Len(given) + 1)
      /\ \A i \in 1..Len(given) : Append(given, r)[i] = given[i]
      /\ Append(given, r)[Len(given) + 1] = r
  OBVIOUS
<1>2. \A i \in DOMAIN given : given[i] \in Responses
  OBVIOUS
<1> QED
  BY <1>1, <1>2, NumberTypes DEF InOrder

LEMMA OrderDrop ==
  ASSUME NEW frames, NEW given, NEW n, NEW current, InOrder(frames, given, current, n)
  PROVE  InOrder(frames, given, {}, n)
BY DEF InOrder

\* A step that leaves c's frames, answers and the frame in the handler.
LEMMA OrderSame ==
  ASSUME LinesInOrder, NEW c \in Clients, inbox'[c] = inbox[c], answers'[c] = answers[c],
         asked'[c] = asked[c], Current(c)' = Current(c)
  PROVE  InOrder(inbox[c], answers[c], Current(c), asked[c])'
<1>1. InOrder(inbox[c], answers[c], Current(c), asked[c])
  BY DEF LinesInOrder
<1> QED
  BY <1>1 DEF InOrder

LEMMA OrderEnd ==
  ASSUME IndInv, LinesInOrder, NEW f \in Fds, Holder(f) # NoClient,
         httpd = Idle \/ httpd.fd = f, EndSession(f)
  PROVE  LinesInOrder'
<1> SUFFICES ASSUME NEW c \in Clients
             PROVE  InOrder(inbox[c], answers[c], Current(c), asked[c])'
  BY DEF LinesInOrder
<1>1. Current(c)' = {}
  BY DEF EndSession, Current, Serving, Idle
<1>2. CASE c = Holder(f)
  <2>1. inbox'[c] = <<>> /\ answers'[c] = <<>> /\ asked'[c] = 0
    BY <1>2 DEF EndSession, IndInv, TypeOK
  <2> QED
    BY <1>1, <2>1 DEF InOrder
<1>3. CASE c # Holder(f)
  <2>1. inbox'[c] = inbox[c] /\ answers'[c] = answers[c] /\ asked'[c] = asked[c]
    BY <1>3 DEF EndSession, IndInv, TypeOK
  <2>2. ~Serving(c)
    BY <1>3 DEF Serving, Idle
  <2> QED
    BY <1>1, <2>1, <2>2, OrderSame DEF Current
<1> QED
  BY <1>2, <1>3

LEMMA NextLinesInOrder == IndInv /\ LinesInOrder /\ [Next]_vars => LinesInOrder'
<1> SUFFICES ASSUME IndInv, LinesInOrder, [Next]_vars PROVE LinesInOrder'
  OBVIOUS
<1> DEFINE Line(c) == InOrder(inbox[c], answers[c], Current(c), asked[c])
<1>1. ASSUME \A c \in Clients : Line(c)' PROVE LinesInOrder'
  BY <1>1 DEF LinesInOrder
<1>2. \A c \in Clients : /\ inbox[c] \in Seq(Frames) /\ answers[c] \in Seq(Responses)
                         /\ asked[c] \in Nat
  BY BoundsAssumption DEF IndInv, TypeOK
<1>3. CASE \E c \in Clients : Connect(c) \/ Leave(c) \/ Accept(c)
  <2>1. UNCHANGED <<inbox, answers, asked, httpd>>
    BY <1>3 DEF Connect, Leave, Accept, outVars
  <2>2. \A c \in Clients : Serving(c)' = Serving(c)
    BY <1>3, <2>1 DEF Connect, Leave, Accept, Serving, Holder, Idle
  <2>3. \A c \in Clients : Current(c)' = Current(c)
    BY <2>1, <2>2 DEF Current
  <2> QED
    BY <1>1, <2>1, <2>3, OrderSame
<1>4. ASSUME NEW d \in Clients, NEW kind \in Kinds, Send(d, kind)
      PROVE  LinesInOrder'
  <2> DEFINE frame == [kind |-> kind, id |-> asked[d] + 1]
  <2>1. \A c \in Clients : Current(c)' = Current(c)
    BY <1>4 DEF Send, Current, Serving, Holder
  <2>2. ASSUME NEW c \in Clients, c # d PROVE Line(c)'
    BY <1>4, <2>1, <2>2, OrderSame DEF Send, outVars, IndInv, TypeOK
  <2>3. /\ frame \in Frames /\ frame.id = asked[d] + 1
        /\ inbox'[d] = Append(inbox[d], frame) /\ asked'[d] = asked[d] + 1
        /\ answers'[d] = answers[d]
    BY <1>4, BoundsAssumption DEF Send, outVars, IndInv, TypeOK, Frames
  <2>4. Current(d) \in SUBSET Nat
    BY HttpdBusy, BoundsAssumption DEF IndInv, Current, Serving, Frames
  <2>5. Line(d)
    BY DEF LinesInOrder
  <2>6. InOrder(Append(inbox[d], frame), answers[d], Current(d), asked[d] + 1)
    <3> HIDE DEF frame
    <3> QED
      BY <1>2, <2>3, <2>4, <2>5, OrderSend
  <2>7. Line(d)'
    BY <2>1, <2>3, <2>6 DEF InOrder
  <2> QED
    BY <1>1, <2>2, <2>7
<1>5. ASSUME NEW f \in Fds, Handshake(f) PROVE LinesInOrder'
  <2>1. UNCHANGED <<inbox, answers, asked, httpd>> /\ httpd = Idle
    BY <1>5 DEF Handshake, outVars
  <2>2. \A c \in Clients : Current(c)' = Current(c)
    BY <2>1 DEF Current, Serving, Idle
  <2> QED
    BY <1>1, <2>1, <2>2, OrderSame
<1>6. ASSUME NEW f \in Fds, Close(f) PROVE LinesInOrder'
  BY <1>6, OrderEnd DEF Close
<1>7. ASSUME NEW f \in Fds, RecvLength(f) PROVE LinesInOrder'
  <2>0. Holder(f) \in Clients
    BY <1>7, ClientAssumption DEF IndInv, TypeOK, SessionsOK, RecvLength, Holder
  <2> PICK d \in Clients : d = Holder(f)
    BY <2>0
  <2>1. Holder(f) = d /\ Holder(f) # NoClient /\ httpd = Idle
    BY <1>7, ClientAssumption DEF RecvLength
  <2>2. CASE EndSession(f)
    BY <2>1, <2>2, OrderEnd
  <2>3. CASE ~EndSession(f)
    <3>1. /\ httpd' = [pc |-> "payload", fd |-> f, frame |-> Head(inbox[d])]
          /\ inbox' = [inbox EXCEPT ![d] = Tail(@)]
          /\ UNCHANGED <<socket, asked, answers>> /\ inbox[d] # <<>>
      BY <1>7, <2>1, <2>3 DEF RecvLength, outVars
    <3>2. \A c \in Clients : /\ Current(c) = {}
                             /\ Current(c)' = IF c = d THEN {Head(inbox[d]).id} ELSE {}
      BY <2>1, <3>1 DEF Current, Serving, Holder, Idle
    <3>3. ASSUME NEW c \in Clients, c # d PROVE Line(c)'
      BY <3>1, <3>2, <3>3, OrderSame DEF IndInv, TypeOK
    <3>4. InOrder(inbox[d], answers[d], {}, asked[d])
      BY <2>1, <3>2 DEF LinesInOrder
    <3>5. InOrder(Tail(inbox[d]), answers[d], {Head(inbox[d]).id}, asked[d])
      BY <1>2, <3>1, <3>4, OrderTake
    <3>6. inbox'[d] = Tail(inbox[d]) /\ answers'[d] = answers[d] /\ asked'[d] = asked[d]
      BY <2>1, <3>1 DEF IndInv, TypeOK
    <3>7. Line(d)'
      BY <2>1, <3>1, <3>2, <3>5, <3>6
    <3> QED
      BY <1>1, <3>3, <3>7
  <2> QED
    BY <2>2, <2>3
<1>8. CASE RecvPayload
  <2>1. httpd.pc # "idle" /\ UNCHANGED <<socket, inbox, asked, answers>>
    BY <1>8 DEF RecvPayload, connVars, outVars
  <2>2. httpd \in [pc : {"payload", "respond"}, fd : Fds, frame : Frames]
    BY <2>1, HttpdBusy DEF IndInv
  <2>3. CASE Handled(httpd.frame)
    <3>1. httpd' = [httpd EXCEPT !.pc = "respond"]
      BY <1>8, <2>3 DEF RecvPayload
    <3>2. \A c \in Clients : Current(c)' = Current(c)
      BY <2>1, <2>2, <3>1 DEF Current, Serving, Holder
    <3> QED
      BY <1>1, <2>1, <3>2, OrderSame
  <2>4. CASE ~Handled(httpd.frame)
    <3>1. \A c \in Clients : Current(c)' = {}
      BY <1>8, <2>4 DEF RecvPayload, Current, Serving, Idle
    <3>2. \A c \in Clients : Line(c)'
      BY <2>1, <3>1, OrderDrop DEF LinesInOrder, InOrder
    <3> QED
      BY <1>1, <3>2
  <2> QED
    BY <2>3, <2>4
<1>9. CASE RecvPayloadFails
  BY <1>9, OrderEnd, HttpdBusy DEF IndInv, SessionsOK, RecvPayloadFails
<1>10. CASE Respond
  <2>1. /\ httpd.fd \in Fds /\ httpd.frame \in Frames /\ httpd.frame.kind \in Answered
        /\ httpd.pc # "idle" /\ Holder(httpd.fd) \in Clients
    BY <1>10, HttpdBusy DEF IndInv, TypeOK, SessionsOK, Respond, Holder
  <2>3. /\ Response(httpd.fd, httpd.frame) \in Responses
        /\ Response(httpd.fd, httpd.frame).request_id = httpd.frame.id
    BY <2>1 DEF Responses, Response, Frames
  <2> PICK d \in Clients, r \in Responses :
         d = Holder(httpd.fd) /\ r = Response(httpd.fd, httpd.frame)
    BY <2>1, <2>3
  <2>2. /\ httpd' = Idle /\ UNCHANGED <<inbox, asked>>
        /\ answers' = [answers EXCEPT ![d] = Append(@, r)]
    BY <1>10 DEF Respond, connVars
  <2>4. \A c \in Clients : /\ Current(c) = IF c = d THEN {httpd.frame.id} ELSE {}
                           /\ Current(c)' = {}
    BY <2>1, <2>2 DEF Current, Serving, Idle
  <2>5. ASSUME NEW c \in Clients, c # d PROVE Line(c)'
    BY <2>2, <2>4, <2>5, OrderSame DEF IndInv, TypeOK
  <2>6. InOrder(inbox[d], answers[d], {r.request_id}, asked[d])
    BY <2>1, <2>3, <2>4 DEF LinesInOrder
  <2>7. InOrder(inbox[d], Append(answers[d], r), {}, asked[d])
    BY <1>2, <2>6, OrderAnswer
  <2>8. answers'[d] = Append(answers[d], r)
    BY <2>1, <2>2 DEF IndInv, TypeOK
  <2>9. Line(d)'
    BY <2>1, <2>2, <2>4, <2>7, <2>8
  <2> QED
    BY <1>1, <2>5, <2>9
<1>11. CASE RespondFails
  <2>1. UNCHANGED <<inbox, asked, answers>> /\ \A c \in Clients : Current(c)' = {}
    BY <1>11 DEF RespondFails, connVars, outVars, Current, Serving, Idle
  <2>2. \A c \in Clients : Line(c)'
    BY <2>1, OrderDrop DEF LinesInOrder, InOrder
  <2> QED
    BY <1>1, <2>2
<1>12. CASE (\E f \in Fds : QueueWork(f)) \/ RunWork \/ UNCHANGED vars
  <2>1. UNCHANGED <<socket, inbox, answers, asked, httpd>>
    BY <1>12 DEF QueueWork, RunWork, connVars, outVars, vars
  <2>2. \A c \in Clients : Current(c)' = Current(c)
    BY <2>1 DEF Current, Serving, Holder
  <2> QED
    BY <1>1, <2>1, <2>2, OrderSame
<1> QED
  BY <1>3, <1>4, <1>5, <1>6, <1>7, <1>8, <1>9, <1>10, <1>11, <1>12
     DEF Next, Serve, HandlerNext

LEMMA OrderInvariance == Spec => []LinesInOrder
<1>1. Init => LinesInOrder
  <2> SUFFICES ASSUME Init, NEW c \in Clients
               PROVE  InOrder(inbox[c], answers[c], Current(c), asked[c])
    BY DEF LinesInOrder
  <2>1. inbox[c] = <<>> /\ answers[c] = <<>> /\ asked[c] = 0 /\ Current(c) = {}
    BY DEF Init, Current, Serving, Idle
  <2> QED
    BY <2>1, OrderEmpty
<1> QED
  BY <1>1, NextLinesInOrder, Invariance, PTL DEF Spec

\* The answers a client has are to requests it sent over this connection, each to one of
\* its own, in the order it sent them and none twice, and what it still waits for was
\* sent after all of them: ws_test.py may take the next answer for that of its next
\* request. Work items and other sessions run in between, and socket numbers are used
\* again.
THEOREM AnsweredOnce ==
  Spec => [](\A c \in Clients :
               /\ \A i \in DOMAIN answers[c] : answers[c][i].request_id <= asked[c]
               /\ \A i, j \in DOMAIN answers[c] :
                    i < j => answers[c][i].request_id < answers[c][j].request_id
               /\ \A i \in DOMAIN answers[c], j \in DOMAIN Pending[c] :
                    answers[c][i].request_id < Pending[c][j].id)
<1> DEFINE Once(c) == /\ \A i \in DOMAIN answers[c] : answers[c][i].request_id <= asked[c]
                      /\ \A i, j \in DOMAIN answers[c] :
                           i < j => answers[c][i].request_id < answers[c][j].request_id
                      /\ \A i \in DOMAIN answers[c], j \in DOMAIN Pending[c] :
                           answers[c][i].request_id < Pending[c][j].id
<1>1. IndInv /\ LinesInOrder => \A c \in Clients : Once(c)
  <2> SUFFICES ASSUME IndInv, LinesInOrder, NEW c \in Clients PROVE Once(c)
    OBVIOUS
  <2>1. InOrder(inbox[c], answers[c], Current(c), asked[c]) /\ inbox[c] \in Seq(Frames)
    BY DEF LinesInOrder, IndInv, TypeOK
  <2>2. CASE ~Serving(c)
    <3>1. Pending[c] = inbox[c]
      BY <2>2 DEF Pending
    <3> QED
      BY <2>1, <3>1 DEF InOrder
  <2>3. CASE Serving(c)
    <3>1. Pending[c] = <<httpd.frame>> \o inbox[c] /\ Current(c) = {httpd.frame.id}
      BY <2>3 DEF Pending, Current
    <3>2. httpd.frame \in Frames
      BY <2>3, HttpdBusy DEF IndInv, Serving
    <3>3. /\ <<httpd.frame>> \in Seq(Frames) /\ Len(<<httpd.frame>>) = 1
          /\ <<httpd.frame>>[1] = httpd.frame
      BY <3>2
    <3>4. /\ Len(inbox[c]) \in Nat /\ DOMAIN inbox[c] = 1..Len(inbox[c])
          /\ DOMAIN Pending[c] = 1..(1 + Len(inbox[c]))
          /\ \A j \in DOMAIN Pending[c] :
               Pending[c][j] = IF j = 1 THEN httpd.frame ELSE inbox[c][j - 1]
      BY <2>1, <3>1, <3>3, ConcatProperties
    <3>5. \A i \in DOMAIN answers[c] : answers[c][i].request_id < httpd.frame.id
      BY <2>1, <3>1 DEF InOrder
    <3>6. \A i \in DOMAIN answers[c], j \in DOMAIN inbox[c] :
            answers[c][i].request_id < inbox[c][j].id
      BY <2>1 DEF InOrder
    <3>7. ASSUME NEW i \in DOMAIN answers[c], NEW j \in DOMAIN Pending[c]
          PROVE  answers[c][i].request_id < Pending[c][j].id
      <4>1. j # 1 => j - 1 \in DOMAIN inbox[c]
        BY <3>4
      <4> QED
        BY <3>4, <3>5, <3>6, <4>1
    <3> QED
      BY <2>1, <3>7 DEF InOrder
  <2> QED
    BY <2>2, <2>3
<1> QED
  BY <1>1, Invariance, OrderInvariance, PTL

-----------------------------------------------------------------------------
(* Whoever waits can be served *)

\* Frames are only read from sockets whose handshake is done.
Upgraded ==
  /\ \A c \in Clients : inbox[c] # <<>> => \E f \in Fds : Holder(f) = c /\ socket[f].ws
  /\ httpd # Idle => socket[httpd.fd].ws

LEMMA NextUpgraded == IndInv /\ Upgraded /\ [Next]_vars => Upgraded'
<1> SUFFICES ASSUME IndInv, Upgraded, [Next]_vars PROVE Upgraded'
  OBVIOUS
<1>1. ASSUME NEW f \in Fds, Holder(f) # NoClient, EndSession(f)
      PROVE  Upgraded'
  <2>1. /\ httpd' = Idle /\ socket' = [socket EXCEPT ![f] = Closed]
        /\ inbox' = [inbox EXCEPT ![Holder(f)] = <<>>]
    BY <1>1 DEF EndSession
  <2>2. \A c \in Clients : inbox'[c] # <<>> => c # Holder(f) /\ inbox[c] # <<>>
    BY <2>1 DEF IndInv, TypeOK
  <2>3. \A g \in Fds : g # f => socket'[g] = socket[g]
    BY <2>1 DEF IndInv, TypeOK
  <2> QED
    BY <2>1, <2>2, <2>3 DEF Upgraded, Holder
<1>2. ASSUME NEW c \in Clients, Connect(c) \/ Leave(c) PROVE Upgraded'
  BY <1>2 DEF Connect, Leave, Upgraded, Holder
<1>3. ASSUME NEW c \in Clients, Accept(c) PROVE Upgraded'
  <2>1. PICK f \in Free : socket' = [socket EXCEPT ![f] = [client |-> c, ws |-> FALSE]]
    BY <1>3 DEF Accept
  <2>2. \A g \in Fds : socket[g].ws => g # f /\ socket'[g] = socket[g]
    BY <2>1 DEF IndInv, TypeOK, SessionsOK, Free
  <2>3. inbox' = inbox /\ httpd' = httpd /\ httpd = Idle
    BY <1>3 DEF Accept
  <2> QED
    BY <2>2, <2>3 DEF Upgraded, Holder
<1>4. ASSUME NEW c \in Clients, NEW kind \in Kinds, Send(c, kind) PROVE Upgraded'
  <2>1. \E f \in Fds : Holder(f) = c /\ socket[f].ws
    BY <1>4 DEF Send, Holder
  <2>2. UNCHANGED <<socket, httpd>> /\ \A d \in Clients : d # c => inbox'[d] = inbox[d]
    BY <1>4 DEF Send, IndInv, TypeOK
  <2> QED
    BY <2>1, <2>2 DEF Upgraded, Holder
<1>5. ASSUME NEW f \in Fds, Handshake(f) PROVE Upgraded'
  BY <1>5 DEF Handshake, Upgraded, Holder, IndInv, TypeOK
<1>6. ASSUME NEW f \in Fds, RecvLength(f) PROVE Upgraded'
  <2>1. Holder(f) # NoClient /\ Holder(f) \in Clients
    BY <1>6, ClientAssumption DEF IndInv, TypeOK, SessionsOK, RecvLength, Holder
  <2>2. CASE EndSession(f)
    BY <1>1, <2>1, <2>2
  <2>3. CASE ~EndSession(f)
    <3>1. /\ httpd' = [pc |-> "payload", fd |-> f, frame |-> Head(inbox[Holder(f)])]
          /\ inbox' = [inbox EXCEPT ![Holder(f)] = Tail(@)]
          /\ socket' = socket /\ socket[f].ws /\ inbox[Holder(f)] # <<>>
      BY <1>6, <2>3 DEF RecvLength
    <3>2. \A c \in Clients : inbox'[c] # <<>> => inbox[c] # <<>>
      BY <3>1 DEF IndInv, TypeOK
    <3> QED
      BY <3>1, <3>2 DEF Upgraded, Holder
  <2> QED
    BY <2>2, <2>3
<1>7. ASSUME NEW f \in Fds, Close(f) PROVE Upgraded'
  BY <1>1, <1>7 DEF Close
<1>8. CASE RecvPayloadFails
  BY <1>1, <1>8, HttpdBusy DEF IndInv, SessionsOK, RecvPayloadFails
<1>9. CASE RecvPayload
  <2>1. httpd \in [pc : {"payload", "respond"}, fd : Fds, frame : Frames] /\ httpd # Idle
    BY <1>9, HttpdBusy DEF IndInv, RecvPayload
  <2> QED
    BY <1>9, <2>1 DEF RecvPayload, connVars, Upgraded, Holder
<1>10. CASE Respond \/ RespondFails
  BY <1>10 DEF Respond, RespondFails, connVars, Upgraded, Holder
<1>11. CASE (\E f \in Fds : QueueWork(f)) \/ RunWork \/ UNCHANGED vars
  BY <1>11 DEF QueueWork, RunWork, connVars, vars, Upgraded, Holder
<1> QED
  BY <1>2, <1>3, <1>4, <1>5, <1>6, <1>7, <1>8, <1>9, <1>10, <1>11
     DEF Next, Serve, HandlerNext

\* A client with a frame that is not served yet has a session whose handshake is done,
\* and the connection still has an end at the server: the server's task can get to it as
\* soon as it is idle. This is the safety part of "no frame waits for ever" (RpcSpec).
THEOREM WaitingCanBeServed ==
  Spec => [](\A c \in Clients :
               Pending[c] # <<>> =>
                 /\ conn[c] \in {"up", "left"}
                 /\ \E f \in Fds : socket[f] = [client |-> c, ws |-> TRUE])
<1> DEFINE CanBe(c) == Pending[c] # <<>> =>
                         /\ conn[c] \in {"up", "left"}
                         /\ \E f \in Fds : socket[f] = [client |-> c, ws |-> TRUE]
<1>1. Init => Upgraded
  BY DEF Init, Upgraded
<1>2. Spec => []Upgraded
  BY <1>1, NextUpgraded, Invariance, PTL DEF Spec
<1>3. IndInv /\ Upgraded => \A c \in Clients : CanBe(c)
  <2> SUFFICES ASSUME IndInv, Upgraded, NEW c \in Clients, Pending[c] # <<>>
               PROVE  /\ conn[c] \in {"up", "left"}
                      /\ \E f \in Fds : socket[f] = [client |-> c, ws |-> TRUE]
    OBVIOUS
  <2>1. \E f \in Fds : Holder(f) = c /\ socket[f].ws
    <3>1. CASE Serving(c)
      BY <3>1, HttpdBusy DEF IndInv, Upgraded, Serving
    <3>2. CASE ~Serving(c)
      BY <3>2 DEF Upgraded, Pending
    <3> QED
      BY <3>1, <3>2
  <2>2. PICK f \in Fds : Holder(f) = c /\ socket[f].ws
    BY <2>1
  <2>3. socket[f] \in [client : Clients \cup {NoClient}, ws : BOOLEAN]
    BY DEF IndInv, TypeOK
  <2>4. socket[f] = [client |-> c, ws |-> TRUE]
    BY <2>2, <2>3 DEF Holder
  <2>5. conn[c] \in {"up", "left"}
    BY <2>2 DEF IndInv, SessionsOK
  <2> QED
    BY <2>4, <2>5
<1> QED
  BY <1>2, <1>3, Invariance, PTL
=============================================================================
