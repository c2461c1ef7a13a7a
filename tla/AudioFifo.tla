------------------------------ MODULE AudioFifo ------------------------------
(***************************************************************************)
(* What the audio path promises until a send has failed: the blocks read   *)
(* from I2S come out on the wire once each, whole and in order, through a  *)
(* pipe that holds at most as many blocks as the pool has chunks. It drains *)
(* as long as somebody keeps asking for audio; what is in it waits for the *)
(* next one who does; a restart of the chip empties and mends it.          *)
(***************************************************************************)
EXTENDS Naturals, Sequences

CONSTANTS
  Capacity,   \* blocks the pipe holds
  Blocks,     \* what a block of audio can be
  Nothing     \* the output before the first block

VARIABLES
  pipe,       \* blocks read and not yet sent
  out,        \* the last block sent
  draining,   \* somebody keeps asking for audio
  broken      \* a send has failed: nothing is promised any more

vars == <<pipe, out, draining, broken>>

Init == pipe = <<>> /\ out = Nothing /\ draining \in BOOLEAN /\ broken = FALSE

Put(b) ==
  /\ Len(pipe) < Capacity
  /\ pipe' = Append(pipe, b)
  /\ UNCHANGED <<out, draining, broken>>

Deliver ==
  /\ pipe # <<>>
  /\ out' = Head(pipe)
  /\ pipe' = Tail(pipe)
  /\ UNCHANGED <<draining, broken>>

Turn == draining' \in BOOLEAN /\ UNCHANGED <<pipe, out, broken>>

\* A send fails, or has failed.
Fail == broken' = TRUE

Restart == pipe' = <<>> /\ out' = Nothing /\ draining' \in BOOLEAN /\ broken' = FALSE

Next == (\E b \in Blocks : Put(b)) \/ Deliver \/ Turn \/ Fail \/ Restart

Spec == Init /\ [][Next]_vars /\ WF_vars(draining /\ ~broken /\ Deliver)
=============================================================================
