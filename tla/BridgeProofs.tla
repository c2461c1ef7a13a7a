----------------------------- MODULE BridgeProofs -----------------------------
(***************************************************************************)
(* What ChunkPoolProofs shows of the audio path holds while instances of   *)
(* the server come and go, for every pool, mailbox and set of clients and  *)
(* faults: a step of Bridge is one of ChunkPool, or one that neither the   *)
(* chunks nor those who hold them see.                                     *)
(***************************************************************************)
EXTENDS Bridge, ChunkPoolProofs

\* Whatever starts or stops a server leaves the chunks and their holders alone.
Unseen == UNCHANGED <<audioVars, reader, httpd, sequence, sent, failed>>

LEMMA Steps == [BridgeNext]_bridgeVars => [Next]_vars \/ Unseen
BY DEF BridgeNext, bridgeVars, vars, Start, Stop, Ended, Others, Pump, PumpEnds, ServerWork,
       ServerSend, PumpNext, ServerRequest, Restart, Next, HttpdSend, Unseen, serverVars

\* The types of what the event loop changes.
LEMMA LoopType ==
  ASSUME BridgeTypeOK, Start \/ Stop \/ Ended \/ PumpEnds
  PROVE  BridgeTypeOK'
<1>1. /\ work' \in Seq(Clients) /\ Len(work') <= MaxWork
      /\ ahead' \in 0..MaxWork
  <2>1. Len(work) \in 0..MaxWork
    BY SlotsAssumption DEF BridgeTypeOK, TypeOK, ServerOK
  <2>2. CASE Start \/ Stop \/ PumpEnds
    BY <2>1, <2>2 DEF BridgeTypeOK, TypeOK, ServerOK, Start, Stop, PumpEnds, vars, serverVars
  <2>3. CASE Ended
    BY <2>3, InitialQueues, SlotsAssumption DEF BridgeTypeOK, Ended
  <2> QED
    BY <2>2, <2>3
<1>2. /\ pass' \in SUBSET Clients /\ send_messages' \in BOOLEAN /\ failed' \in BOOLEAN
      /\ visiting' \in Clients \cup {NoClient}
      /\ session' \in [Clients -> SessionStates]
  BY DEF BridgeTypeOK, TypeOK, ServerOK, SessionStates, Start, Stop, Ended, PumpEnds, vars,
         serverVars, pumpVars
<1>3. Unseen
  BY DEF Start, Stop, Ended, PumpEnds, vars, serverVars, audioVars, Unseen
<1>4. TypeOK'
  BY <1>1, <1>2, <1>3, Untouched DEF Unseen, audioVars, BridgeTypeOK, TypeOK, ServerOK
<1>5. instance' \in {"none", "running", "stopping", "deaf"}
  BY DEF BridgeTypeOK, Start, Stop, Ended, PumpEnds
<1> QED
  BY <1>1, <1>4, <1>5 DEF BridgeTypeOK

LEMMA BridgeTypeStep == BridgeTypeOK /\ [BridgeNext]_bridgeVars => BridgeTypeOK'
<1> SUFFICES ASSUME BridgeTypeOK, [BridgeNext]_bridgeVars PROVE BridgeTypeOK'
  OBVIOUS
<1>1. CASE Start \/ Stop \/ Ended \/ PumpEnds
  BY <1>1, LoopType
<1>2. CASE ~(Start \/ Stop \/ Ended \/ PumpEnds)
  <2>1. [Next]_vars
    BY <1>2 DEF BridgeNext, bridgeVars, vars, Others, Pump, ServerWork, ServerSend,
                ServerRequest, Restart, Next, HttpdSend, PumpNext
  <2>2. TypeOK'
    BY <2>1, TypeStep DEF BridgeTypeOK
  <2>3. instance' \in {"none", "running", "stopping", "deaf"}
    BY <1>2 DEF BridgeTypeOK, BridgeNext, bridgeVars, Others, Pump, ServerWork,
                ServerSend, ServerRequest, Restart
  <2>4. ahead' \in 0..MaxWork
    BY <1>2, SlotsAssumption DEF BridgeTypeOK, BridgeNext, bridgeVars, Others, Pump,
                ServerWork, ServerSend, ServerRequest, Restart
  <2> QED
    BY <2>2, <2>3, <2>4 DEF BridgeTypeOK
<1> QED
  BY <1>1, <1>2

\* Types and capacities, with any number of starts and stops.
THEOREM BridgeTypeCorrect == BridgeSpec => []BridgeTypeOK
<1>1. BridgeInit => BridgeTypeOK
  BY InitType, SlotsAssumption DEF BridgeInit, BridgeTypeOK
<1> QED
  BY <1>1, BridgeTypeStep, PTL DEF BridgeSpec

-----------------------------------------------------------------------------
(* The invariants of ChunkPool *)

\* The pool as ChunkPoolProofs strengthens it.
PoolOK == TypeOK /\ RefsNeverLost /\ HealthyCount /\ NotWaiting /\ HealthyOwnership
          /\ HealthyFramesWhole /\ SequenceGapless

LEMMA UnseenPool == TypeOK' /\ PoolOK /\ Unseen => PoolOK'
<1> SUFFICES ASSUME TypeOK', PoolOK, Unseen PROVE PoolOK'
  OBVIOUS
<1>1. RefsNeverLost' /\ HealthyCount' /\ NotWaiting'
  BY DEF PoolOK, Unseen, audioVars, RefsNeverLost, HealthyCount, NotWaiting, References,
         HeldByReader, HeldByHttpd
<1>2. HealthyOwnership'
  BY DEF PoolOK, Unseen, audioVars, HealthyOwnership, NoRepeat, Holds
<1>3. HealthyFramesWhole'
  BY DEF PoolOK, Unseen, audioVars, HealthyFramesWhole, Whole
<1>4. SequenceGapless'
  BY DEF PoolOK, Unseen, SequenceGapless
<1> QED
  BY <1>1, <1>2, <1>3, <1>4 DEF PoolOK

LEMMA PoolStep ==
  BridgeTypeOK /\ BridgeTypeOK' /\ PoolOK /\ [BridgeNext]_bridgeVars => PoolOK'
<1> SUFFICES ASSUME TypeOK, TypeOK', PoolOK, [Next]_vars PROVE PoolOK'
  BY Steps, UnseenPool DEF BridgeTypeOK
<1>1. RefsNeverLost' /\ HealthyCount' /\ NotWaiting' /\ HealthyOwnership'
  BY NeverLostStep, CountStep, HealthyOwnershipStep DEF PoolOK
<1>2. HealthyFramesWhole' /\ SequenceGapless'
  BY HealthyFramesStep, SequenceStep DEF PoolOK
<1> QED
  BY <1>1, <1>2 DEF PoolOK

LEMMA InitPool == BridgeInit => PoolOK
<1> SUFFICES ASSUME Init PROVE PoolOK
  BY DEF BridgeInit
<1>1. RefsNeverLost /\ HealthyCount /\ NotWaiting
  BY InitReferences, SlotsAssumption
     DEF RefsNeverLost, HealthyCount, NotWaiting, Init, HttpdIdle
<1>2. HealthyOwnership
  BY InitHolds DEF Init, HealthyOwnership, ReaderIdle, HttpdIdle
<1>3. HealthyFramesWhole /\ SequenceGapless
  BY DEF Init, HealthyFramesWhole, SequenceGapless, ReaderIdle, HttpdIdle
<1> QED
  BY InitType, <1>1, <1>2, <1>3 DEF PoolOK

LEMMA PoolHolds == BridgeSpec => []PoolOK
  BY InitPool, PoolStep, BridgeTypeCorrect, PTL DEF BridgeSpec

\* Across starts and stops, references to chunks are never lost for good.
THEOREM BridgeNeverLost == BridgeSpec => []RefsNeverLost
  BY PoolHolds, PTL DEF PoolOK

LEMMA SendsSucceedOK == PoolOK => HealthySendsSucceed
BY RoomForOne
   DEF PoolOK, HealthyCount, NotWaiting, HealthySendsSucceed, TypeOK, ReaderOK, HttpdOK

\* Across starts and stops, until a send fails: one reference for each chunk.
THEOREM BridgeHealthyCount == BridgeSpec => []HealthyCount
BY PoolHolds, PTL DEF PoolOK

\* One owner for each chunk: what was in flight when a server stopped has not been
\* handed to anybody twice.
THEOREM BridgeHealthyOwnership == BridgeSpec => []HealthyOwnership
BY PoolHolds, PTL DEF PoolOK

\* No send of a chunk finds its queue full, so nothing is dropped and nobody waits.
THEOREM BridgeHealthySendsSucceed == BridgeSpec => []HealthySendsSucceed
BY PoolHolds, SendsSucceedOK, PTL

\* What is encoded is the whole of one completed read, be it for the client of an
\* earlier instance.
THEOREM BridgeHealthyFramesWhole == BridgeSpec => []HealthyFramesWhole
BY PoolHolds, PTL DEF PoolOK

\* The numbering of the frames goes on from one instance to the next.
THEOREM BridgeSequenceGapless == BridgeSpec => []SequenceGapless
BY PoolHolds, PTL DEF PoolOK

-----------------------------------------------------------------------------
(* What a server leaves behind *)

LEMMA NothingLeftStep ==
  NothingLeft /\ [BridgeNext]_bridgeVars => NothingLeft'
<1> SUFFICES ASSUME NothingLeft, [BridgeNext]_bridgeVars, instance' = "none"
             PROVE  httpd'.pc = "idle" /\ work' = <<>> /\ Sessions' = {}
  BY DEF NothingLeft
<1>1. CASE Restart
  BY <1>1 DEF Restart, I2SReadFails, I2SWriteFails, Reboot, HttpdIdle, Sessions
<1>2. CASE Ended
  BY <1>2 DEF Ended, Sessions
<1>3. CASE ~Restart /\ ~Ended
  <2>1. /\ instance = "none"
        /\ ~Start /\ ~Stop /\ ~ServerWork /\ ~(\E c \in Clients : ServerRequest(c))
    BY <1>3 DEF BridgeNext, bridgeVars, Start, Stop, Others, Pump, PumpEnds, ServerWork,
                ServerSend, ServerRequest
  <2>2. httpd.pc = "idle" /\ work = <<>> /\ Sessions = {}
    BY <2>1 DEF NothingLeft
  <2>3. ~ServerSend
    BY <2>2 DEF ServerSend, SendOk, SendFails, Resend, ReturnChunk, ReturnBlocked
  <2>4. CASE ReaderNext \/ PumpEnds \/ UNCHANGED bridgeVars
    <3>1. UNCHANGED <<httpd, work, session>>
      BY <2>4 DEF ReaderNext, ReaderCheck, ReaderTake, ReadDone, ReadEmpty, ReaderPut,
                  ReaderGiveBack, PumpEnds, serverVars, vars, bridgeVars
    <3> QED
      BY <2>2, <3>1 DEF Sessions
  <2>5. CASE Pump
    <3>1. UNCHANGED <<httpd, work, session>>
      BY <2>1, <2>5 DEF Pump, PumpList, PumpVisit, serverVars
    <3> QED
      BY <2>2, <3>1 DEF Sessions
  <2>6. ~(\E c \in Clients : Leave(c))
    BY <2>2 DEF Leave, Sessions
  <2> QED
    BY <1>3, <2>1, <2>3, <2>4, <2>5, <2>6 DEF BridgeNext, Others
<1> QED
  BY <1>1, <1>2, <1>3

\* An instance that has ended, for whatever reason, holds no chunk and leaves no work
\* item and no session to the next one.
THEOREM NothingLeftHolds == BridgeSpec => []NothingLeft
<1>1. BridgeInit => NothingLeft
  BY DEF BridgeInit, Init, NothingLeft, HttpdIdle, Sessions
<1> QED
  BY <1>1, NothingLeftStep, PTL DEF BridgeSpec

\* Neither a stop nor a start heals a wedged server.
THEOREM BridgeWedged == BridgeSpec => WedgedForever
<1>1. BridgeTypeOK /\ [BridgeNext]_bridgeVars => [Wedged => Wedged' \/ Reboot]_vars
  <2> SUFFICES ASSUME BridgeTypeOK, [BridgeNext]_bridgeVars, Wedged, ~Reboot PROVE Wedged'
    OBVIOUS
  <2>1. CASE [Next]_vars
    BY <2>1, WedgedStep DEF BridgeTypeOK
  <2>2. CASE Start \/ Stop \/ PumpEnds
    BY <2>2 DEF Start, Stop, PumpEnds, vars, audioVars, serverVars, Wedged, Sessions
  <2>3. ~Ended
    BY DEF Ended, Wedged
  <2> QED
    BY <2>1, <2>2, <2>3
       DEF BridgeNext, bridgeVars, vars, Others, Pump, ServerWork, ServerSend,
           ServerRequest, Restart, Next, HttpdSend, PumpNext
<1> QED
  BY <1>1, BridgeTypeCorrect, PTL DEF BridgeSpec, WedgedForever

\* The pipe of AudioFifo does not notice starts and stops: until a send fails, every
\* block that is delivered is the oldest that the reader has put in, whole, be it to
\* clients of another instance than the one it was read for.
THEOREM BridgeRefinement ==
  BridgeSpec => Fifo!Init /\ [][Fifo!Next]_<<Pipe, sent.audio, Draining, failed>>
<1>1. BridgeInit => Fifo!Init
  BY InitFifo DEF BridgeInit
<1>2. BridgeTypeOK /\ BridgeTypeOK' /\ PoolOK /\ [BridgeNext]_bridgeVars
      => [Fifo!Next]_<<Pipe, sent.audio, Draining, failed>>
  <2> SUFFICES ASSUME TypeOK, TypeOK', PoolOK, [Next]_vars \/ Unseen
               PROVE  [Fifo!Next]_<<Pipe, sent.audio, Draining, failed>>
    BY Steps DEF BridgeTypeOK
  <2>1. CASE [Next]_vars
    BY <2>1, PoolFifoStep DEF PoolOK
  <2>2. CASE Unseen
    BY <2>2, TurnStep DEF Unseen, audioVars
  <2> QED
    BY <2>1, <2>2
<1> QED
  BY <1>1, <1>2, BridgeTypeCorrect, PoolHolds, PTL DEF BridgeSpec

-----------------------------------------------------------------------------
(* How a stop comes to its end *)

\* What takes a failed send without starts and stops takes one with them.
THEOREM BridgeOnlyAfterFailure == BridgeSpec => [](~failed => ~Wedged /\ FilledHasAudio)
<1>1. HealthySendsSucceed => (~failed => ~Wedged)
  BY DEF HealthySendsSucceed, Wedged
<1>2. HealthyFramesWhole => (~failed => FilledHasAudio)
  BY DEF HealthyFramesWhole, FilledHasAudio, Whole
<1> QED
  BY <1>1, <1>2, BridgeHealthySendsSucceed, BridgeHealthyFramesWhole, PTL

\* The work items that the shutdown message is behind are in the mailbox.
AheadOK == instance = "stopping" => ahead <= Len(work)

LEMMA AheadStep == BridgeTypeOK /\ AheadOK /\ [BridgeNext]_bridgeVars => AheadOK'
<1> SUFFICES ASSUME BridgeTypeOK, AheadOK, [BridgeNext]_bridgeVars, instance' = "stopping"
             PROVE  ahead' <= Len(work')
  BY DEF AheadOK
<1>1. /\ work \in Seq(Clients) /\ Len(work) \in Nat /\ ahead \in Nat
  BY SlotsAssumption DEF BridgeTypeOK, TypeOK, ServerOK
<1>2. CASE Stop
  BY <1>1, <1>2 DEF Stop, vars, serverVars
<1>3. CASE ServerWork
  <2>1. /\ instance = "stopping" /\ ahead' = ahead - 1
        /\ work # <<>> /\ work' = Tail(work)
    BY <1>3 DEF ServerWork, StartSend
  <2>2. Len(work') = Len(work) - 1
    BY <1>1, <2>1
  <2> QED
    BY <1>1, <2>1, <2>2 DEF AheadOK
<1>4. CASE PumpQueue /\ UNCHANGED <<instance, ahead>>
  <2>1. work' = work \/ (visiting \in Clients /\ work' = Append(work, visiting))
    BY <1>4 DEF PumpQueue, BridgeTypeOK, TypeOK, ServerOK
  <2>2. Len(work') >= Len(work) /\ Len(work') \in Nat
    BY <1>1, <2>1
  <2> QED
    BY <1>1, <1>4, <2>2 DEF AheadOK
<1>5. CASE UNCHANGED <<work, instance, ahead>>
  BY <1>5 DEF AheadOK
<1>6. CASE Others \/ Pump
  <2>1. CASE Pump
    BY <1>4, <1>5, <2>1 DEF Pump, PumpList, PumpVisit, serverVars
  <2>2. CASE Others
    BY <1>5, <2>2 DEF Others, ReaderNext, ReaderCheck, ReaderTake, ReadDone, ReadEmpty,
         ReaderPut, ReaderGiveBack, Leave, Connect, serverVars
  <2> QED
    BY <1>6, <2>1, <2>2
<1>7. CASE ServerSend
  BY <1>5, <1>7 DEF ServerSend, SendOk, SendFails, Resend, ReturnChunk, ReturnBlocked
<1>8. CASE \E c \in Clients : ServerRequest(c)
  BY <1>5, <1>8 DEF ServerRequest, HttpdRequest, Accept, Upgrade, Hello, Close, HttpdServe,
       serverVars
<1>9. ~Start /\ ~Ended /\ ~Restart /\ ~PumpEnds
  BY DEF Start, Ended, Restart, PumpEnds
<1>10. CASE UNCHANGED bridgeVars
  BY <1>5, <1>10 DEF bridgeVars, vars
<1> QED
  BY <1>2, <1>3, <1>6, <1>7, <1>8, <1>9, <1>10 DEF BridgeNext

LEMMA AheadHolds == BridgeSpec => []AheadOK
<1>1. BridgeInit => AheadOK
  BY DEF BridgeInit, AheadOK
<1> QED
  BY <1>1, AheadStep, BridgeTypeCorrect, PTL DEF BridgeSpec

\* The steps the server's task has yet to take before it gets to the shutdown message.
Remaining ==
  3 * ahead + (IF httpd.pc = "encode" THEN 2 ELSE IF httpd.pc = "return" THEN 1 ELSE 0)

\* While httpd_stop waits and no send fails, every step of a work item brings its return
\* nearer, and nothing the reader, the pump, the clients or the requests do moves it
\* away: the work that the pump still queues is behind the shutdown message.
THEOREM StopApproaches ==
  BridgeSpec => [][instance = "stopping" /\ instance' = "stopping" /\ ~failed /\ ~failed' =>
                     /\ Remaining' <= Remaining
                     /\ ServerWork \/ ServerSend => Remaining' < Remaining]_bridgeVars
<1> DEFINE Waits == instance = "stopping" /\ instance' = "stopping" /\ ~failed /\ ~failed'
           Nears == /\ Remaining' <= Remaining
                    /\ ServerWork \/ ServerSend => Remaining' < Remaining
<1>1. BridgeTypeOK /\ PoolOK /\ [BridgeNext]_bridgeVars => (Waits => Nears)
  <2> SUFFICES ASSUME BridgeTypeOK, PoolOK, [BridgeNext]_bridgeVars, Waits PROVE Nears
    OBVIOUS
  <2>1. /\ ahead \in Nat
        /\ httpd.pc \in {"idle", "encode", "return"}
        /\ httpd.pc = "return" => HasRoom(queue_free)
    <3>1. HealthySendsSucceed
      BY SendsSucceedOK
    <3>2. httpd.pc \in HttpdPcs /\ ahead \in 0..MaxWork
      BY DEF BridgeTypeOK, TypeOK, HttpdOK
    <3> QED
      BY <3>1, <3>2, SlotsAssumption DEF HealthySendsSucceed, HttpdPcs, HasRoom
  <2>2. Remaining \in Nat
    BY <2>1 DEF Remaining
  <2>3. CASE ServerWork
    <3>1. httpd.pc = "idle" /\ ahead > 0 /\ ahead' = ahead - 1
      BY <2>3 DEF ServerWork, StartSend
    <3>2. httpd' = httpd \/ httpd'.pc = "encode"
      BY <2>3 DEF ServerWork, StartSend
    <3> QED
      BY <2>1, <3>1, <3>2 DEF Remaining
  <2>4. CASE ServerSend
    <3>1. ahead' = ahead
      BY <2>4 DEF ServerSend
    <3>2. CASE SendOk
      BY <2>1, <3>1, <3>2 DEF SendOk, Remaining
    <3>3. CASE ReturnChunk
      <4>1. httpd.pc = "return" /\ httpd'.pc = "idle"
        BY <2>1, <3>3 DEF ReturnChunk, HttpdIdle
      <4> QED
        BY <2>1, <3>1, <4>1 DEF Remaining
    <3> QED
      BY <2>1, <2>4, <3>2, <3>3 DEF ServerSend, SendFails, Resend, ReturnBlocked
  <2>5. CASE ~ServerWork /\ ~ServerSend
    <3>1. ahead' = ahead /\ httpd' = httpd
      BY <2>5 DEF BridgeNext, bridgeVars, vars, Start, Stop, Ended, Others, Pump,
           PumpEnds, ServerRequest, Restart, ReaderNext, ReaderCheck, ReaderTake, ReadDone, ReadEmpty,
           ReaderPut, ReaderGiveBack, PumpList, PumpVisit, PumpQueue, Leave, Connect,
           HttpdRequest, Accept, Upgrade, Hello, Close, HttpdServe, serverVars
    <3>2. Remaining' = Remaining
      BY <3>1 DEF Remaining
    <3> QED
      BY <2>2, <2>5, <3>2
  <2> QED
    BY <2>3, <2>4, <2>5
<1> QED
  BY <1>1, BridgeTypeCorrect, PoolHolds, PTL DEF BridgeSpec

\* And it is never stuck on the way: until a send fails, while httpd_stop waits, the
\* server's task is between two work items, with the next one or the shutdown message in
\* its mailbox, or in one whose frame both passes of pb_encode find the same, or about to
\* give back a chunk for which queue_free has room. With StopApproaches this is the
\* safety part of StopReturns.
THEOREM StopNeverStuck ==
  BridgeSpec => [](instance = "stopping" /\ ~failed =>
                     \/ httpd.pc = "idle" /\ ahead <= Len(work)
                     \/ httpd.pc = "encode" /\ EncBytes(httpd.chunk) = httpd.size
                     \/ httpd.pc = "return" /\ HasRoom(queue_free))
<1> DEFINE GoesOn == instance = "stopping" /\ ~failed =>
                       \/ httpd.pc = "idle" /\ ahead <= Len(work)
                       \/ httpd.pc = "encode" /\ EncBytes(httpd.chunk) = httpd.size
                       \/ httpd.pc = "return" /\ HasRoom(queue_free)
<1>1. BridgeTypeOK /\ PoolOK /\ AheadOK => GoesOn
  <2> SUFFICES ASSUME BridgeTypeOK, PoolOK, AheadOK, instance = "stopping", ~failed
               PROVE  \/ httpd.pc = "idle" /\ ahead <= Len(work)
                      \/ httpd.pc = "encode" /\ EncBytes(httpd.chunk) = httpd.size
                      \/ httpd.pc = "return" /\ HasRoom(queue_free)
    OBVIOUS
  <2>1. HealthySendsSucceed /\ httpd.pc \in HttpdPcs
    BY SendsSucceedOK DEF BridgeTypeOK, TypeOK, HttpdOK
  <2>2. httpd.pc = "encode" => EncBytes(httpd.chunk) = httpd.size
    BY DEF PoolOK, HealthyFramesWhole, EncBytes
  <2>3. ahead <= Len(work)
    BY DEF AheadOK
  <2> QED
    BY <2>1, <2>2, <2>3 DEF HealthySendsSucceed, HttpdPcs, HasRoom
<1> QED
  BY <1>1, BridgeTypeCorrect, PoolHolds, AheadHolds, PTL
=============================================================================
