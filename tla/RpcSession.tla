------------------------------ MODULE RpcSession ------------------------------
(***************************************************************************)
(* What the websocket server promises its clients about requests: each     *)
(* client's frames are served in the order it sent them; a request is      *)
(* answered once, with its own number, to nobody else, as long as its      *)
(* client is there; and no frame waits for ever.                           *)
(***************************************************************************)
EXTENDS Sequences

CONSTANTS
  Clients, Frames,
  Answered,   \* the kinds of frames that are requests
  Lossy       \* responses can be lost

VARIABLES
  here,      \* the clients whose connection is up
  pending,   \* the frames of each client's session that were not served yet
  answers    \* the responses on each client's session, in order

vars == <<here, pending, answers>>

Init ==
  /\ here = {}
  /\ pending = [c \in Clients |-> <<>>]
  /\ answers = [c \in Clients |-> <<>>]

\* A connection comes up, or its client goes away.
Move ==
  /\ here' \in SUBSET Clients
  /\ UNCHANGED <<pending, answers>>

Ask(c) ==
  /\ c \in here
  /\ \E frame \in Frames : pending' = [pending EXCEPT ![c] = Append(@, frame)]
  /\ UNCHANGED <<here, answers>>

Take(c) ==
  /\ pending[c] # <<>>
  /\ pending' = [pending EXCEPT ![c] = Tail(@)]
  /\ UNCHANGED here

Answer(c) ==
  /\ Take(c)
  /\ Head(pending[c]).kind \in Answered
  /\ answers' = [answers EXCEPT ![c] =
       Append(@, [request_id |-> Head(pending[c]).id, result |-> Head(pending[c]).kind])]

\* A frame that asks for nothing, or whose response cannot be sent.
Pass(c) ==
  /\ Take(c)
  /\ Head(pending[c]).kind \in Answered => Lossy \/ c \notin here
  /\ UNCHANGED answers

\* The session ends.
End(c) ==
  /\ here' = here \ {c}
  /\ pending' = [pending EXCEPT ![c] = <<>>]
  /\ answers' = [answers EXCEPT ![c] = <<>>]

Serve(c) == Answer(c) \/ Pass(c) \/ End(c)

Next == Move \/ \E c \in Clients : Ask(c) \/ Serve(c)

Spec ==
  /\ Init /\ [][Next]_vars
  /\ \A c \in Clients : WF_vars(pending[c] # <<>> /\ Serve(c))
=============================================================================
