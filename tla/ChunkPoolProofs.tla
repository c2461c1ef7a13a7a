--------------------------- MODULE ChunkPoolProofs ---------------------------
(* Proofs about ChunkPool for every pool size, chunk size, set of clients,  *)
(* mailbox size and set of faults.                                          *)
EXTENDS ChunkPool, TLAPS

USE DEF HasRoom, Put, Rest, FrameSequence, EncBytes

\* What xQueueSend and xQueueReceive do to the sequence that models a queue.
LEMMA AppendFacts ==
  ASSUME NEW S, NEW q \in Seq(S), NEW e \in S
  PROVE  /\ Append(q, e) \in Seq(S)
         /\ Len(Append(q, e)) = Len(q) + 1
         /\ \A i \in 1..Len(q) : Append(q, e)[i] = q[i]
         /\ Append(q, e)[Len(q) + 1] = e
  OBVIOUS

LEMMA TailFacts ==
  ASSUME NEW S, NEW q \in Seq(S), q # <<>>
  PROVE  /\ Len(q) \in Nat /\ Len(q) > 0
         /\ Head(q) \in S /\ Head(q) = q[1]
         /\ Tail(q) \in Seq(S)
         /\ Len(Tail(q)) = Len(q) - 1
         /\ \A i \in 1..(Len(q) - 1) : Tail(q)[i] = q[i + 1]
  OBVIOUS

\* A queue built by initializeQueue, and an empty one.
LEMMA InitialQueues ==
  /\ [i \in 1..BUFFER_SLOTS |-> i] \in Seq(Chunks)
  /\ Len([i \in 1..BUFFER_SLOTS |-> i]) = BUFFER_SLOTS
  /\ \A S : <<>> \in Seq(S) /\ Len(<<>>) = 0
  BY SlotsAssumption DEF Chunks

LEMMA InitType == Init => TypeOK
<1> SUFFICES ASSUME Init PROVE TypeOK
  OBVIOUS
<1>1. QueuesOK
  BY InitialQueues, SlotsAssumption DEF Init, QueuesOK
<1>2. StorageOK
  BY SlotsAssumption DEF Init, StorageOK
<1>3. ReaderOK
  BY DEF Init, ReaderOK, ReaderIdle, ReaderPcs, NoChunk
<1>4. HttpdOK
  BY SlotsAssumption DEF Init, HttpdOK, HttpdIdle, HttpdPcs, NoChunk
<1>5. WireOK
  BY SlotsAssumption DEF Init, WireOK, Audio
<1>6. ServerOK
  <2>1. (work \in Seq(Clients) /\ Len(work) <= MaxWork)
    BY InitialQueues, SlotsAssumption DEF Init
  <2>2. (session \in [Clients -> SessionStates])
    BY DEF Init, SessionStates
  <2>3. (pass \in SUBSET Clients /\ visiting \in Clients \cup {NoClient}
         /\ send_messages \in BOOLEAN /\ failed \in BOOLEAN)
    BY DEF Init
  <2> QED BY <2>1, <2>2, <2>3 DEF ServerOK
<1> QED BY <1>1, <1>2, <1>3, <1>4, <1>5, <1>6 DEF TypeOK

LEMMA RebootType == Reboot => TypeOK'
<1> SUFFICES ASSUME Reboot PROVE TypeOK'
  OBVIOUS
<1>1. QueuesOK'
  BY InitialQueues, SlotsAssumption DEF Reboot, QueuesOK
<1>2. StorageOK'
  BY SlotsAssumption DEF Reboot, StorageOK
<1>3. ReaderOK'
  BY DEF Reboot, ReaderOK, ReaderIdle, ReaderPcs, NoChunk
<1>4. HttpdOK'
  BY SlotsAssumption DEF Reboot, HttpdOK, HttpdIdle, HttpdPcs, NoChunk
<1>5. WireOK'
  BY SlotsAssumption DEF Reboot, WireOK, Audio
<1>6. ServerOK'
  <2>1. (work \in Seq(Clients) /\ Len(work) <= MaxWork)'
    BY InitialQueues, SlotsAssumption DEF Reboot
  <2>2. (session \in [Clients -> SessionStates])'
    BY DEF Reboot, SessionStates
  <2>3. (pass \in SUBSET Clients /\ visiting \in Clients \cup {NoClient}
         /\ send_messages \in BOOLEAN /\ failed \in BOOLEAN)'
    BY DEF Reboot
  <2> QED BY <2>1, <2>2, <2>3 DEF ServerOK
<1> QED BY <1>1, <1>2, <1>3, <1>4, <1>5, <1>6 DEF TypeOK

\* The parts of the type invariant that a step does not touch.
LEMMA Untouched ==
  /\ QueuesOK /\ UNCHANGED <<queue_free, queue_filled>> => QueuesOK'
  /\ StorageOK /\ UNCHANGED <<len, storage>> => StorageOK'
  /\ ReaderOK /\ UNCHANGED reader => ReaderOK'
  /\ HttpdOK /\ UNCHANGED httpd => HttpdOK'
  /\ WireOK /\ UNCHANGED <<sequence, sent>> => WireOK'
  /\ ServerOK /\ UNCHANGED <<work, pass, visiting, send_messages, session, failed>>
       => ServerOK'
<1>1. QueuesOK /\ UNCHANGED <<queue_free, queue_filled>> => QueuesOK'
  BY DEF QueuesOK
<1>2. StorageOK /\ UNCHANGED <<len, storage>> => StorageOK'
  BY DEF StorageOK
<1>3. ReaderOK /\ UNCHANGED reader => ReaderOK'
  BY DEF ReaderOK
<1>4. HttpdOK /\ UNCHANGED httpd => HttpdOK'
  BY DEF HttpdOK
<1>5. WireOK /\ UNCHANGED <<sequence, sent>> => WireOK'
  BY DEF WireOK
<1>6. ServerOK /\ UNCHANGED <<work, pass, visiting, send_messages, session, failed>>
       => ServerOK'
  BY DEF ServerOK
<1> QED BY <1>1, <1>2, <1>3, <1>4, <1>5, <1>6

\* A step of i2SReadTask preserves the types.
LEMMA ReaderType == TypeOK /\ ReaderNext => TypeOK'
<1> SUFFICES ASSUME TypeOK, ReaderNext PROVE TypeOK'
  OBVIOUS
<1> USE DEF TypeOK, audioVars, serverVars, pumpVars
<1>1. CASE ReaderCheck
  <2>1. ReaderOK'
    BY <1>1 DEF ReaderCheck, ReaderOK, ReaderPcs
  <2> QED BY <1>1, <2>1, Untouched DEF ReaderCheck
<1>2. CASE ReaderTake
  <2>1. QueuesOK' /\ StorageOK' /\ ReaderOK'
    <3>1. CASE queue_free = <<>>
      <4>1. ReaderOK'
        BY <1>2, <3>1 DEF ReaderTake, ReaderOK, ReaderPcs, ReaderIdle, NoChunk
      <4> QED BY <1>2, <3>1, <4>1, Untouched DEF ReaderTake
    <3>2. CASE queue_free # <<>>
      <4>1. Head(queue_free) \in Chunks /\ Tail(queue_free) \in Seq(Chunks)
            /\ Len(Tail(queue_free)) = Len(queue_free) - 1 /\ Len(queue_free) \in Nat
        BY <3>2, TailFacts DEF QueuesOK
      <4>2. QueuesOK'
        <5>1. queue_free' = Tail(queue_free) /\ queue_filled' = queue_filled
          BY <1>2, <3>2 DEF ReaderTake
        <5>2. Len(Tail(queue_free)) <= BUFFER_SLOTS
          BY <4>1, SlotsAssumption DEF QueuesOK
        <5> QED BY <4>1, <5>1, <5>2 DEF QueuesOK
      <4>3. StorageOK'
        BY <1>2, <3>2, <4>1 DEF ReaderTake, StorageOK
      <4>4. ReaderOK'
        BY <1>2, <3>2, <4>1, SlotsAssumption
        DEF ReaderTake, ReaderOK, ReaderPcs, NoChunk, Chunks
      <4> QED BY <4>2, <4>3, <4>4
    <3> QED BY <3>1, <3>2
  <2> QED BY <1>2, <2>1, Untouched DEF ReaderTake
<1>3. ASSUME NEW b \in Blocks, NEW n \in 1..BUFFER_SLOT_BYTES, ReadDone(b, n)
      PROVE  TypeOK'
  <2>1. reader.chunk \in Chunks
    BY <1>3 DEF ReadDone, ReaderOK, NoChunk
  <2>2. StorageOK'
    BY <1>3, <2>1, SlotsAssumption DEF ReadDone, StorageOK
  <2>3. ReaderOK'
    BY <1>3 DEF ReadDone, ReaderOK, ReaderPcs
  <2> QED BY <1>3, <2>2, <2>3, Untouched DEF ReadDone
<1>4. CASE ReadEmpty
  <2>1. ReaderOK'
    BY <1>4 DEF ReadEmpty, ReaderOK, ReaderPcs
  <2> QED BY <1>4, <2>1, Untouched DEF ReadEmpty
<1>5. CASE ReaderPut
  <2>1. reader.chunk \in Chunks
    BY <1>5 DEF ReaderPut, ReaderOK, NoChunk
  <2>2. Append(queue_filled, reader.chunk) \in Seq(Chunks)
        /\ Len(Append(queue_filled, reader.chunk)) = Len(queue_filled) + 1
        /\ Len(queue_filled) \in Nat
    BY <2>1, AppendFacts DEF QueuesOK
  <2>3. QueuesOK'
    BY <1>5, <2>2, SlotsAssumption DEF ReaderPut, QueuesOK
  <2>4. ReaderOK'
    BY <1>5 DEF ReaderPut, ReaderOK, ReaderPcs, ReaderIdle, NoChunk
  <2> QED BY <1>5, <2>3, <2>4, Untouched DEF ReaderPut
<1>6. CASE ReaderGiveBack
  <2>1. reader.chunk \in Chunks
    BY <1>6 DEF ReaderGiveBack, ReaderOK, NoChunk
  <2>2. Append(queue_free, reader.chunk) \in Seq(Chunks)
        /\ Len(Append(queue_free, reader.chunk)) = Len(queue_free) + 1
        /\ Len(queue_free) \in Nat
    BY <2>1, AppendFacts DEF QueuesOK
  <2>3. QueuesOK'
    BY <1>6, <2>2, SlotsAssumption DEF ReaderGiveBack, QueuesOK
  <2>4. ReaderOK'
    BY <1>6 DEF ReaderGiveBack, ReaderOK, ReaderPcs, ReaderIdle, NoChunk
  <2> QED BY <1>6, <2>3, <2>4, Untouched DEF ReaderGiveBack
<1> QED BY <1>1, <1>2, <1>3, <1>4, <1>5, <1>6 DEF ReaderNext

\* A step of the pump preserves the types.
LEMMA PumpType == TypeOK /\ PumpNext => TypeOK'
<1> SUFFICES ASSUME TypeOK, PumpNext PROVE TypeOK'
  OBVIOUS
<1> USE DEF TypeOK, audioVars, serverVars, pumpVars
<1>1. CASE PumpList
  <2>1. ServerOK'
    BY <1>1 DEF PumpList, ServerOK, Sessions
  <2> QED BY <1>1, <2>1, Untouched DEF PumpList
<1>2. ASSUME NEW c \in Clients, PumpVisit(c)
      PROVE  TypeOK'
  <2>1. ServerOK'
    BY <1>2 DEF PumpVisit, ServerOK
  <2> QED BY <1>2, <2>1, Untouched DEF PumpVisit
<1>3. CASE PumpQueue
  <2>1. (work \in Seq(Clients) /\ Len(work) <= MaxWork)'
    <3>1. visiting \in Clients
      BY <1>3 DEF PumpQueue, ServerOK
    <3>2. Append(work, visiting) \in Seq(Clients)
          /\ Len(Append(work, visiting)) = Len(work) + 1 /\ Len(work) \in Nat
      BY <3>1, AppendFacts DEF ServerOK
    <3>3. work' = work \/ (Len(work) < MaxWork /\ work' = Append(work, visiting))
      BY <1>3 DEF PumpQueue
    <3> QED BY <3>2, <3>3, SlotsAssumption DEF ServerOK
  <2>2. (send_messages \in BOOLEAN)'
    BY <1>3 DEF PumpQueue, ServerOK
  <2>3. ServerOK'
    BY <1>3, <2>1, <2>2 DEF PumpQueue, ServerOK
  <2> QED BY <1>3, <2>3, Untouched DEF PumpQueue
<1> QED BY <1>1, <1>2, <1>3 DEF PumpNext

\* A step of a work item preserves the types.
LEMMA SendType == TypeOK /\ HttpdSend => TypeOK'
<1> SUFFICES ASSUME TypeOK, HttpdSend PROVE TypeOK'
  OBVIOUS
<1> USE DEF TypeOK, audioVars
<1>1. CASE StartSend
  <2>1. Head(work) \in Clients /\ Tail(work) \in Seq(Clients)
        /\ Len(Tail(work)) = Len(work) - 1 /\ Len(work) \in Nat
    BY <1>1, TailFacts DEF StartSend, ServerOK
  <2>2. ServerOK'
    BY <1>1, <2>1, SlotsAssumption DEF StartSend, ServerOK, pumpVars
  <2>3. QueuesOK' /\ HttpdOK' /\ WireOK'
    <3>1. CASE queue_filled = <<>>
      BY <1>1, <3>1, Untouched DEF StartSend
    <3>2. CASE queue_filled # <<>>
      <4>1. Head(queue_filled) \in Chunks /\ Tail(queue_filled) \in Seq(Chunks)
            /\ Len(Tail(queue_filled)) = Len(queue_filled) - 1
            /\ Len(queue_filled) \in Nat
        BY <3>2, TailFacts DEF QueuesOK
      <4>2. QueuesOK'
        <5>1. queue_free' = queue_free /\ queue_filled' = Tail(queue_filled)
          BY <1>1, <3>2 DEF StartSend
        <5> QED BY <4>1, <5>1, SlotsAssumption DEF QueuesOK
      <4>3. httpd' = [pc |-> "encode", chunk |-> Head(queue_filled),
                      fd |-> Head(work), size |-> len[Head(queue_filled)]]
        BY <1>1, <3>2 DEF StartSend
      <4>4. Head(queue_filled) # NoChunk /\ Head(work) # NoClient
            /\ len[Head(queue_filled)] \in 0..BUFFER_SLOT_BYTES
        BY <2>1, <4>1, ClientAssumption, SlotsAssumption DEF StorageOK, NoChunk, Chunks
      <4>5. HttpdOK'
        BY <2>1, <4>1, <4>3, <4>4 DEF HttpdOK, HttpdPcs
      <4>6. WireOK'
        BY <1>1, <3>2, SlotsAssumption DEF StartSend, WireOK
      <4> QED BY <4>2, <4>5, <4>6
    <3> QED BY <3>1, <3>2
  <2> QED BY <1>1, <2>2, <2>3, Untouched DEF StartSend
<1>2. CASE SendOk
  <2>1. HttpdOK'
    BY <1>2, SlotsAssumption DEF SendOk, HttpdOK, HttpdPcs
  <2>2. storage[httpd.chunk] \in Audio
    BY <1>2 DEF SendOk, HttpdOK, StorageOK, Audio, NoChunk
  <2>3. WireOK'
    BY <1>2, <2>2 DEF SendOk, WireOK, Audio
  <2> QED BY <1>2, <2>1, <2>3, Untouched DEF SendOk, pumpVars
<1>3. CASE SendFails
  <2>1. HttpdOK'
    BY <1>3, SlotsAssumption DEF SendFails, HttpdOK, HttpdPcs
  <2>2. ServerOK'
    BY <1>3 DEF SendFails, ServerOK, pumpVars
  <2> QED BY <1>3, <2>1, <2>2, Untouched DEF SendFails
<1>4. CASE Resend
  <2>1. httpd.chunk \in Chunks
    BY <1>4 DEF Resend, HttpdOK, NoChunk
  <2>2. Append(queue_filled, httpd.chunk) \in Seq(Chunks)
        /\ Len(Append(queue_filled, httpd.chunk)) = Len(queue_filled) + 1
        /\ Len(queue_filled) \in Nat
    BY <2>1, AppendFacts DEF QueuesOK
  <2>3. QueuesOK'
    BY <1>4, <2>2, SlotsAssumption DEF Resend, QueuesOK
  <2>4. HttpdOK'
    BY <1>4 DEF Resend, HttpdOK, HttpdPcs
  <2> QED BY <1>4, <2>3, <2>4, Untouched DEF Resend, pumpVars
<1>5. CASE ReturnChunk
  <2>1. httpd.chunk \in Chunks
    BY <1>5 DEF ReturnChunk, HttpdOK, NoChunk
  <2>2. Append(queue_free, httpd.chunk) \in Seq(Chunks)
        /\ Len(Append(queue_free, httpd.chunk)) = Len(queue_free) + 1
        /\ Len(queue_free) \in Nat
    BY <2>1, AppendFacts DEF QueuesOK
  <2>3. QueuesOK'
    <3>1. queue_filled' = queue_filled
          /\ (queue_free' = queue_free \/ (/\ Len(queue_free) < BUFFER_SLOTS
                                          /\ queue_free' = Append(queue_free, httpd.chunk)))
      BY <1>5 DEF ReturnChunk
    <3> QED BY <3>1, <2>2, SlotsAssumption DEF QueuesOK
  <2>4. StorageOK'
    BY <1>5, <2>1, SlotsAssumption DEF ReturnChunk, StorageOK
  <2>5. HttpdOK'
    BY <1>5, SlotsAssumption DEF ReturnChunk, HttpdOK, HttpdPcs, HttpdIdle, NoChunk
  <2> QED BY <1>5, <2>3, <2>4, <2>5, Untouched DEF ReturnChunk, pumpVars
<1>6. CASE ReturnBlocked
  <2>1. httpd.chunk \in Chunks
    BY <1>6 DEF ReturnBlocked, HttpdOK, NoChunk
  <2>2. Append(queue_free, httpd.chunk) \in Seq(Chunks)
        /\ Len(Append(queue_free, httpd.chunk)) = Len(queue_free) + 1
        /\ Len(queue_free) \in Nat
    BY <2>1, AppendFacts DEF QueuesOK
  <2>3. QueuesOK'
    BY <1>6, <2>2, SlotsAssumption DEF ReturnBlocked, QueuesOK
  <2>4. HttpdOK'
    BY <1>6, SlotsAssumption DEF ReturnBlocked, HttpdOK, HttpdPcs, HttpdIdle, NoChunk
  <2> QED BY <1>6, <2>3, <2>4, Untouched DEF ReturnBlocked, pumpVars
<1> QED BY <1>1, <1>2, <1>3, <1>4, <1>5, <1>6 DEF HttpdSend

\* What the server does between work items, and what clients do, changes only
\* the state of a session.
LEMMA SessionType ==
  ASSUME TypeOK, NEW c \in Clients, HttpdRequest(c) \/ Connect(c) \/ Leave(c)
  PROVE  TypeOK'
<1>1. \E to \in SessionStates : session' = [session EXCEPT ![c] = to]
  BY DEF HttpdRequest, Accept, Upgrade, Hello, Close, HttpdServe, Connect, Leave,
     SessionStates
<1>2. UNCHANGED <<audioVars, reader, serverVars, pumpVars>>
  BY DEF HttpdRequest, Accept, Upgrade, Hello, Close, HttpdServe, Connect, Leave
<1>3. (session \in [Clients -> SessionStates])'
  BY <1>1 DEF TypeOK, ServerOK
<1>4. ServerOK'
  BY <1>2, <1>3 DEF TypeOK, ServerOK, serverVars, pumpVars
<1> QED BY <1>2, <1>4, Untouched DEF TypeOK, audioVars, serverVars, pumpVars

LEMMA TypeStep == TypeOK /\ [Next]_vars => TypeOK'
<1> SUFFICES ASSUME TypeOK, [Next]_vars PROVE TypeOK'
  OBVIOUS
<1>1. CASE I2SReadFails \/ I2SWriteFails
  BY <1>1, RebootType DEF I2SReadFails, I2SWriteFails
<1>2. CASE UNCHANGED vars
  BY <1>2, Untouched DEF TypeOK, vars
<1> QED BY <1>1, <1>2, ReaderType, PumpType, SendType, SessionType DEF Next

\* The type invariant holds for every pool, every set of clients and every
\* combination of faults: in particular no queue exceeds its capacity.
THEOREM TypeCorrect == Spec => []TypeOK
  BY InitType, TypeStep, PTL DEF Spec

-----------------------------------------------------------------------------
(* References to chunks are never lost for good *)

\* What each step does to the number of references: a failed send adds one, a
\* reader that finds queue_filled full drops one, nothing else changes it.
LEMMA ReferencesStep ==
  ASSUME TypeOK, [Next]_vars
  PROVE  \/ Reboot
         \/ References' = References
         \/ Resend /\ References' = References + 1
         \/ /\ ReaderPut /\ Len(queue_filled) = BUFFER_SLOTS
            /\ References' = References - 1
<1> USE DEF References, HeldByReader, HeldByHttpd, TypeOK, audioVars, serverVars, pumpVars
<1>0. Len(queue_free) \in 0..BUFFER_SLOTS /\ Len(queue_filled) \in 0..BUFFER_SLOTS
  BY SlotsAssumption DEF QueuesOK
<1>1. CASE ReaderCheck
  BY <1>1 DEF ReaderCheck
<1>2. CASE ReaderTake
  <2>1. CASE queue_free = <<>>
    BY <1>2, <2>1 DEF ReaderTake, ReaderOK, ReaderIdle, NoChunk
  <2>2. CASE queue_free # <<>>
    <3>1. Head(queue_free) \in Chunks /\ Len(Tail(queue_free)) = Len(queue_free) - 1
      BY <2>2, TailFacts DEF QueuesOK
    <3>2. queue_free' = Tail(queue_free) /\ queue_filled' = queue_filled
          /\ reader'.chunk = Head(queue_free) /\ httpd' = httpd
      BY <1>2, <2>2 DEF ReaderTake
    <3>3. reader.chunk = NoChunk
      BY <1>2 DEF ReaderTake, ReaderOK
    <3>4. Head(queue_free) # NoChunk
      BY <3>1 DEF Chunks, NoChunk
    <3>5. HeldByReader = 0 /\ HeldByReader' = 1 /\ HeldByHttpd' = HeldByHttpd
      BY <3>2, <3>3, <3>4
    <3>6. Len(queue_free') = Len(queue_free) - 1 /\ Len(queue_filled') = Len(queue_filled)
      BY <3>1, <3>2
    <3>7. HeldByHttpd \in Nat
      OBVIOUS
    <3> HIDE DEF HeldByReader, HeldByHttpd, TypeOK
    <3> QED BY <1>0, <3>5, <3>6, <3>7, SlotsAssumption
  <2> QED BY <2>1, <2>2
<1>3. CASE \E b \in Blocks, n \in 1..BUFFER_SLOT_BYTES : ReadDone(b, n)
  BY <1>3 DEF ReadDone, ReaderOK
<1>4. CASE ReadEmpty
  BY <1>4 DEF ReadEmpty, ReaderOK
<1>5. CASE ReaderPut
  <2>1. reader.chunk \in Chunks /\ reader.chunk # NoChunk /\ reader'.chunk = NoChunk
    BY <1>5 DEF ReaderPut, ReaderOK, ReaderIdle, NoChunk
  <2>2. queue_free' = queue_free /\ httpd' = httpd
    BY <1>5 DEF ReaderPut
  <2>3. CASE Len(queue_filled) < BUFFER_SLOTS
    <3>1. queue_filled' = Append(queue_filled, reader.chunk)
      BY <1>5, <2>3, SlotsAssumption DEF ReaderPut
    <3>2. Len(queue_filled') = Len(queue_filled) + 1
      BY <2>1, <3>1, AppendFacts DEF QueuesOK
    <3> QED BY <1>0, <2>1, <2>2, <3>2
  <2>4. CASE Len(queue_filled) = BUFFER_SLOTS
    <3>1. queue_filled' = queue_filled
      BY <1>5, <2>4, SlotsAssumption DEF ReaderPut
    <3> QED BY <1>0, <1>5, <2>1, <2>2, <2>4, <3>1
  <2> QED BY <1>0, <2>3, <2>4, SlotsAssumption
<1>6. CASE ReaderGiveBack
  <2>1. reader.chunk \in Chunks /\ reader.chunk # NoChunk /\ reader'.chunk = NoChunk
    BY <1>6 DEF ReaderGiveBack, ReaderOK, ReaderIdle, NoChunk
  <2>2. queue_filled' = queue_filled /\ httpd' = httpd
        /\ queue_free' = Append(queue_free, reader.chunk)
    BY <1>6 DEF ReaderGiveBack
  <2>3. Len(queue_free') = Len(queue_free) + 1
    BY <2>1, <2>2, AppendFacts DEF QueuesOK
  <2> QED BY <1>0, <2>1, <2>2, <2>3
<1>7. CASE PumpNext
  BY <1>7 DEF PumpNext, PumpList, PumpVisit, PumpQueue
<1>8. CASE StartSend
  <2>1. CASE queue_filled = <<>>
    BY <1>8, <2>1 DEF StartSend
  <2>2. CASE queue_filled # <<>>
    <3>1. Head(queue_filled) \in Chunks
          /\ Len(Tail(queue_filled)) = Len(queue_filled) - 1
      BY <2>2, TailFacts DEF QueuesOK
    <3>2. queue_filled' = Tail(queue_filled) /\ queue_free' = queue_free
          /\ httpd'.chunk = Head(queue_filled) /\ reader' = reader
      BY <1>8, <2>2 DEF StartSend
    <3>3. httpd.chunk = NoChunk
      BY <1>8 DEF StartSend, HttpdOK
    <3>4. Head(queue_filled) # NoChunk
      BY <3>1 DEF Chunks, NoChunk
    <3>5. HeldByHttpd = 0 /\ HeldByHttpd' = 1 /\ HeldByReader' = HeldByReader
      BY <3>2, <3>3, <3>4
    <3>6. Len(queue_filled') = Len(queue_filled) - 1 /\ Len(queue_free') = Len(queue_free)
      BY <3>1, <3>2
    <3>7. HeldByReader \in Nat
      OBVIOUS
    <3> HIDE DEF HeldByHttpd, HeldByReader, TypeOK
    <3> QED BY <1>0, <3>5, <3>6, <3>7, SlotsAssumption
  <2> QED BY <2>1, <2>2
<1>9. CASE SendOk \/ SendFails
  <2>1. httpd'.chunk = httpd.chunk /\ UNCHANGED <<queue_free, queue_filled, reader>>
    BY <1>9 DEF SendOk, SendFails
  <2> QED BY <2>1
<1>10. CASE Resend
  <2>1. httpd.chunk \in Chunks /\ httpd'.chunk = httpd.chunk /\ reader' = reader
    BY <1>10 DEF Resend, HttpdOK, NoChunk
  <2>2. queue_free' = queue_free
        /\ queue_filled' = Append(queue_filled, httpd.chunk)
    BY <1>10 DEF Resend
  <2>3. Len(queue_filled') = Len(queue_filled) + 1
    BY <2>1, <2>2, AppendFacts DEF QueuesOK
  <2> QED BY <1>0, <1>10, <2>1, <2>2, <2>3
<1>11. CASE ReturnChunk \/ ReturnBlocked
  <2>1. httpd.chunk \in Chunks /\ httpd.chunk # NoChunk
    BY <1>11 DEF ReturnChunk, ReturnBlocked, HttpdOK, NoChunk
  <2>2. queue_filled' = queue_filled /\ reader' = reader
    BY <1>11 DEF ReturnChunk, ReturnBlocked
  <2>3. \/ queue_free' = queue_free /\ httpd'.chunk = httpd.chunk
        \/ queue_free' = Append(queue_free, httpd.chunk) /\ httpd'.chunk = NoChunk
    BY <1>11 DEF ReturnChunk, ReturnBlocked, HttpdOK, HttpdIdle
  <2>4. Len(Append(queue_free, httpd.chunk)) = Len(queue_free) + 1
    BY <2>1, AppendFacts DEF QueuesOK
  <2> QED BY <1>0, <2>1, <2>2, <2>3, <2>4
<1>12. CASE I2SReadFails \/ I2SWriteFails
  BY <1>12 DEF I2SReadFails, I2SWriteFails
<1>13. CASE \E c \in Clients : HttpdRequest(c) \/ Connect(c) \/ Leave(c)
  <2>1. UNCHANGED <<queue_free, queue_filled, reader, httpd>>
    BY <1>13 DEF HttpdRequest, Accept, Upgrade, Hello, Close, HttpdServe, Connect, Leave
  <2> QED BY <2>1
<1>14. CASE UNCHANGED vars
  BY <1>14 DEF vars
<1> QED
  BY <1>1, <1>2, <1>3, <1>4, <1>5, <1>6, <1>7, <1>8, <1>9, <1>10, <1>11, <1>12, <1>13,
     <1>14 DEF Next, ReaderNext, HttpdSend

LEMMA InitReferences == Init => References = BUFFER_SLOTS
  BY InitialQueues, SlotsAssumption
  DEF Init, References, HeldByReader, HeldByHttpd, ReaderIdle, HttpdIdle

LEMMA RebootReferences == Reboot => References' = BUFFER_SLOTS
  BY InitialQueues, SlotsAssumption
  DEF Reboot, References, HeldByReader, HeldByHttpd, ReaderIdle, HttpdIdle

\* The count of references never falls below the number of chunks in a step.
LEMMA NeverLostStep ==
  TypeOK /\ RefsNeverLost /\ [Next]_vars => RefsNeverLost'
<1> SUFFICES ASSUME TypeOK, RefsNeverLost, [Next]_vars PROVE RefsNeverLost'
  OBVIOUS
<1>1. References \in Nat
  BY DEF TypeOK, QueuesOK, References, HeldByReader, HeldByHttpd
<1>2. CASE ReaderPut /\ Len(queue_filled) = BUFFER_SLOTS /\ References' = References - 1
  <2>1. HeldByReader = 1 /\ HeldByHttpd \in Nat /\ Len(queue_free) \in Nat
    BY <1>2 DEF TypeOK, QueuesOK, ReaderPut, ReaderOK, HeldByReader, HeldByHttpd
  <2>2. References >= BUFFER_SLOTS + 1
    BY <1>2, <2>1, SlotsAssumption DEF References
  <2> QED BY <1>1, <1>2, <2>2, SlotsAssumption DEF RefsNeverLost
<1>3. CASE Reboot
  BY <1>3, RebootReferences, SlotsAssumption DEF RefsNeverLost
<1> QED BY <1>1, <1>2, <1>3, ReferencesStep, SlotsAssumption DEF RefsNeverLost

\* The pool never runs dry: whatever fails, the queues and the tasks together
\* hold at least as many references as there are chunks.
THEOREM NeverLost == Spec => []RefsNeverLost
<1>1. Init => RefsNeverLost
  BY InitReferences, SlotsAssumption DEF RefsNeverLost
<1>2. TypeOK /\ RefsNeverLost /\ [Next]_vars => RefsNeverLost'
  BY NeverLostStep
<1> QED BY <1>1, <1>2, TypeCorrect, PTL DEF Spec

-----------------------------------------------------------------------------
(* Until a send fails *)

\* The history variable: only a failed send sets it, only a restart clears it.
LEMMA FailedStep ==
  ASSUME TypeOK, [Next]_vars, ~failed'
  PROVE  Reboot \/ (~failed /\ ~SendFails)
<1>1. CASE SendFails
  BY <1>1 DEF SendFails
<1>2. CASE I2SReadFails \/ I2SWriteFails
  BY <1>2 DEF I2SReadFails, I2SWriteFails
<1>3. CASE UNCHANGED failed /\ ~SendFails
  BY <1>3
<1>4. CASE ReaderNext \/ PumpNext
  <2>1. UNCHANGED failed /\ (SendFails => failed')
    BY <1>4 DEF ReaderNext, ReaderCheck, ReaderTake, ReadDone, ReadEmpty, ReaderPut,
       ReaderGiveBack, serverVars, PumpNext, PumpList, PumpVisit, PumpQueue, SendFails
  <2> QED BY <2>1
<1>5. CASE StartSend \/ SendOk \/ Resend \/ ReturnChunk \/ ReturnBlocked
  <2>1. UNCHANGED failed /\ (SendFails => failed')
    BY <1>5 DEF StartSend, SendOk, Resend, ReturnChunk, ReturnBlocked, SendFails
  <2> QED BY <2>1
<1>6. CASE (\E c \in Clients : HttpdRequest(c) \/ Connect(c) \/ Leave(c)) \/ UNCHANGED vars
  <2>1. UNCHANGED failed /\ (SendFails => failed')
    BY <1>6 DEF HttpdRequest, Accept, Upgrade, Hello, Close, HttpdServe, Connect, Leave,
       serverVars, vars, SendFails
  <2> QED BY <2>1
<1> QED BY <1>1, <1>2, <1>4, <1>5, <1>6 DEF Next, HttpdSend

\* The part of HealthySendsSucceed that is not a matter of counting.
NotWaiting == ~failed => httpd.pc \notin {"resend", "blocked"}

\* A task that holds a chunk leaves room for it in either queue.
LEMMA RoomForOne ==
  ASSUME TypeOK, References = BUFFER_SLOTS
  PROVE  /\ reader.chunk # NoChunk =>
              Len(queue_filled) < BUFFER_SLOTS /\ Len(queue_free) < BUFFER_SLOTS
         /\ httpd.chunk # NoChunk =>
              Len(queue_filled) < BUFFER_SLOTS /\ Len(queue_free) < BUFFER_SLOTS
<1>1. Len(queue_free) \in Nat /\ Len(queue_filled) \in Nat
  BY DEF TypeOK, QueuesOK
<1>2. HeldByReader \in Nat /\ HeldByHttpd \in Nat
  BY DEF HeldByReader, HeldByHttpd
<1>3. (reader.chunk # NoChunk => HeldByReader = 1)
      /\ (httpd.chunk # NoChunk => HeldByHttpd = 1)
  BY DEF HeldByReader, HeldByHttpd
<1> QED BY <1>1, <1>2, <1>3, SlotsAssumption DEF References

LEMMA CountStep ==
  TypeOK /\ HealthyCount /\ NotWaiting /\ [Next]_vars => HealthyCount' /\ NotWaiting'
<1> SUFFICES ASSUME TypeOK, HealthyCount, NotWaiting, [Next]_vars, ~failed'
             PROVE  References' = BUFFER_SLOTS /\ httpd'.pc \notin {"resend", "blocked"}
  BY DEF HealthyCount, NotWaiting
<1>1. CASE Reboot
  BY <1>1, RebootReferences DEF Reboot, HttpdIdle
<1>2. CASE ~Reboot
  <2>1. ~failed /\ ~SendFails /\ References = BUFFER_SLOTS
        /\ httpd.pc \notin {"resend", "blocked"}
    BY <1>2, FailedStep DEF HealthyCount, NotWaiting
  <2>2. ~(ReaderPut /\ Len(queue_filled) = BUFFER_SLOTS)
    BY <2>1, RoomForOne, SlotsAssumption DEF ReaderPut, TypeOK, ReaderOK
  <2>3. ~Resend
    BY <2>1 DEF Resend
  <2>4. References' = BUFFER_SLOTS
    BY <1>2, <2>1, <2>2, <2>3, ReferencesStep
  <2>5. httpd'.pc \notin {"resend", "blocked"}
    <3>1. CASE StartSend
      BY <2>1, <3>1 DEF StartSend, TypeOK, HttpdOK
    <3>2. CASE SendOk
      BY <3>2 DEF SendOk
    <3>3. CASE ReturnChunk
      <4>1. Len(queue_free) < BUFFER_SLOTS
        BY <2>1, <3>3, RoomForOne DEF ReturnChunk, TypeOK, HttpdOK
      <4>2. httpd' = HttpdIdle
        BY <3>3, <4>1, SlotsAssumption DEF ReturnChunk, TypeOK, QueuesOK
      <4> QED BY <4>2 DEF HttpdIdle
    <3>4. CASE ReturnBlocked
      BY <2>1, <3>4 DEF ReturnBlocked
    <3>5. CASE httpd' = httpd
      BY <2>1, <3>5
    <3>6. CASE ReaderNext \/ PumpNext
      BY <3>5, <3>6 DEF ReaderNext, ReaderCheck, ReaderTake, ReadDone, ReadEmpty,
         ReaderPut, ReaderGiveBack, serverVars, PumpNext, PumpList, PumpVisit, PumpQueue
    <3>7. CASE (\E c \in Clients : HttpdRequest(c) \/ Connect(c) \/ Leave(c))
               \/ UNCHANGED vars
      BY <3>5, <3>7 DEF HttpdRequest, Accept, Upgrade, Hello, Close, HttpdServe, Connect,
         Leave, serverVars, vars
    <3> QED BY <1>2, <2>1, <2>3, <3>1, <3>2, <3>3, <3>4, <3>6, <3>7
            DEF Next, HttpdSend, I2SReadFails, I2SWriteFails
  <2> QED BY <2>4, <2>5
<1> QED BY <1>1, <1>2

LEMMA CountInvariant == Spec => [](HealthyCount /\ NotWaiting)
<1>1. Init => HealthyCount /\ NotWaiting
  BY InitReferences DEF HealthyCount, NotWaiting, Init, HttpdIdle
<1> QED BY <1>1, CountStep, TypeCorrect, PTL DEF Spec

\* Until a send fails there are exactly as many references as chunks.
THEOREM CountCorrect == Spec => []HealthyCount
  BY CountInvariant, PTL

\* Until a send fails the reader never drops a chunk and no task ever waits for
\* room in a queue, whatever the size of the pool.
THEOREM SendsSucceed == Spec => []HealthySendsSucceed
<1>1. TypeOK /\ HealthyCount /\ NotWaiting => HealthySendsSucceed
  BY RoomForOne DEF HealthyCount, NotWaiting, HealthySendsSucceed, TypeOK, ReaderOK, HttpdOK
<1> QED BY <1>1, CountInvariant, TypeCorrect, PTL

-----------------------------------------------------------------------------
(* One owner for each chunk *)

LEMMA AppendHolds ==
  ASSUME NEW S, NEW q \in Seq(S), NEW e \in S
  PROVE  /\ \A x : Holds(Append(q, e), x) <=> (Holds(q, x) \/ x = e)
         /\ NoRepeat(q) /\ ~Holds(q, e) => NoRepeat(Append(q, e))
<1>1. Len(q) \in Nat /\ Len(Append(q, e)) = Len(q) + 1
  OBVIOUS
<1>2. \A i \in 1..Len(q) : Append(q, e)[i] = q[i]
  OBVIOUS
<1>3. Append(q, e)[Len(q) + 1] = e
  OBVIOUS
<1>4. \A i \in 1..Len(Append(q, e)) : i \in 1..Len(q) \/ i = Len(q) + 1
  BY <1>1
<1>5. 1..Len(q) \subseteq 1..Len(Append(q, e)) /\ Len(q) + 1 \in 1..Len(Append(q, e))
  BY <1>1
<1>6. ASSUME NEW x PROVE Holds(Append(q, e), x) <=> (Holds(q, x) \/ x = e)
  BY <1>2, <1>3, <1>4, <1>5 DEF Holds
<1>7. ASSUME NoRepeat(q), ~Holds(q, e) PROVE NoRepeat(Append(q, e))
  BY <1>2, <1>3, <1>4, <1>7 DEF Holds, NoRepeat
<1> QED BY <1>6, <1>7

LEMMA TailHolds ==
  ASSUME NEW S, NEW q \in Seq(S), q # <<>>
  PROVE  /\ \A x : Holds(q, x) <=> (x = Head(q) \/ Holds(Tail(q), x))
         /\ NoRepeat(q) => NoRepeat(Tail(q)) /\ ~Holds(Tail(q), Head(q))
<1>1. Len(q) \in Nat /\ Len(q) > 0 /\ Len(Tail(q)) = Len(q) - 1 /\ Head(q) = q[1]
  BY TailFacts
<1>2. \A i \in 1..Len(Tail(q)) : i + 1 \in 1..Len(q) /\ Tail(q)[i] = q[i + 1]
  BY <1>1, TailFacts
<1>3. \A i \in 1..Len(q) : i = 1 \/ (i - 1 \in 1..Len(Tail(q)) /\ Tail(q)[i - 1] = q[i])
  <2> SUFFICES ASSUME NEW i \in 1..Len(q), i # 1
               PROVE  i - 1 \in 1..Len(Tail(q)) /\ Tail(q)[i - 1] = q[i]
    OBVIOUS
  <2>1. i - 1 \in 1..Len(Tail(q)) /\ (i - 1) + 1 = i
    BY <1>1
  <2> QED BY <1>2, <2>1
<1>4. 1 \in 1..Len(q)
  BY <1>1
<1>5. ASSUME NEW x PROVE Holds(q, x) <=> (x = Head(q) \/ Holds(Tail(q), x))
  BY <1>1, <1>2, <1>3, <1>4 DEF Holds
<1>6. ASSUME NoRepeat(q) PROVE NoRepeat(Tail(q)) /\ ~Holds(Tail(q), Head(q))
  <2>1. ASSUME NEW i \in 1..Len(Tail(q)), NEW j \in 1..Len(Tail(q)), Tail(q)[i] = Tail(q)[j]
        PROVE  i = j
    <3>1. i + 1 = j + 1
      BY <1>2, <1>6, <2>1 DEF NoRepeat
    <3> QED BY <3>1
  <2>2. ASSUME NEW i \in 1..Len(Tail(q)), Tail(q)[i] = Head(q)
        PROVE  FALSE
    <3>1. i + 1 = 1
      BY <1>1, <1>2, <1>4, <1>6, <2>2 DEF NoRepeat
    <3> QED BY <3>1
  <2> QED BY <2>1, <2>2 DEF NoRepeat, Holds
<1> QED BY <1>5, <1>6

LEMMA InitHolds ==
  /\ NoRepeat([i \in 1..BUFFER_SLOTS |-> i]) /\ NoRepeat(<<>>)
  /\ \A x : ~Holds(<<>>, x)
  /\ ~Holds([i \in 1..BUFFER_SLOTS |-> i], NoChunk)
  BY InitialQueues, SlotsAssumption DEF NoRepeat, Holds, NoChunk

LEMMA NoChunkHolds == ASSUME NEW q \in Seq(Chunks) PROVE ~Holds(q, NoChunk)
<1>1. \A i \in 1..Len(q) : q[i] \in Chunks
  OBVIOUS
<1> QED BY <1>1 DEF Holds, Chunks, NoChunk

\* What HealthyOwnership says when no send has failed.
Ownership ==
  /\ NoRepeat(queue_free)
  /\ NoRepeat(queue_filled)
  /\ \A c \in Chunks : ~(Holds(queue_free, c) /\ Holds(queue_filled, c))
  /\ ~Holds(queue_free, reader.chunk) /\ ~Holds(queue_filled, reader.chunk)
  /\ ~Holds(queue_free, httpd.chunk) /\ ~Holds(queue_filled, httpd.chunk)
  /\ reader.chunk = httpd.chunk => reader.chunk = NoChunk

LEMMA OwnershipStep ==
  ASSUME TypeOK, NotWaiting, ~failed, Ownership, [Next]_vars, ~Reboot
  PROVE  Ownership'
<1> USE DEF Ownership, TypeOK, audioVars
<1> queue_free \in Seq(Chunks) /\ queue_filled \in Seq(Chunks)
  BY DEF QueuesOK
<1>1. CASE UNCHANGED <<queue_free, queue_filled>> /\ reader'.chunk = reader.chunk
           /\ httpd'.chunk = httpd.chunk
  BY <1>1
<1>2. CASE ReaderTake /\ queue_free # <<>>
  <2>1. queue_free' = Tail(queue_free) /\ queue_filled' = queue_filled
        /\ reader'.chunk = Head(queue_free) /\ httpd' = httpd
    BY <1>2 DEF ReaderTake, serverVars
  <2>2. Head(queue_free) \in Chunks
    BY <1>2, TailFacts
  <2> QED BY <1>2, <2>1, <2>2, TailHolds
<1>3. CASE ReaderTake /\ queue_free = <<>>
  <2>1. UNCHANGED <<queue_free, queue_filled, httpd>> /\ reader'.chunk = reader.chunk
    BY <1>3 DEF ReaderTake, ReaderOK, ReaderIdle, serverVars
  <2> QED BY <1>1, <2>1
<1>4. CASE ReaderPut
  <2>1. reader.chunk \in Chunks /\ reader'.chunk = NoChunk /\ httpd' = httpd
        /\ queue_free' = queue_free
    BY <1>4 DEF ReaderPut, ReaderOK, ReaderIdle, NoChunk, serverVars
  <2>2. queue_filled' = queue_filled \/ queue_filled' = Append(queue_filled, reader.chunk)
    BY <1>4 DEF ReaderPut
  <2>3. reader.chunk # NoChunk
    BY <2>1 DEF NoChunk, Chunks
  <2>4. CASE queue_filled' = queue_filled
    BY <2>1, <2>4, NoChunkHolds
  <2>5. CASE queue_filled' = Append(queue_filled, reader.chunk)
    BY <2>1, <2>3, <2>5, AppendHolds, NoChunkHolds
  <2> QED BY <2>2, <2>4, <2>5
<1>5. CASE ReaderGiveBack
  <2>1. reader.chunk \in Chunks /\ reader'.chunk = NoChunk /\ httpd' = httpd
        /\ queue_filled' = queue_filled /\ queue_free' = Append(queue_free, reader.chunk)
    BY <1>5 DEF ReaderGiveBack, ReaderOK, ReaderIdle, NoChunk, serverVars
  <2>2. reader.chunk # NoChunk
    BY <2>1 DEF NoChunk, Chunks
  <2> QED BY <2>1, <2>2, AppendHolds, NoChunkHolds
<1>6. CASE StartSend /\ queue_filled # <<>>
  <2>1. queue_filled' = Tail(queue_filled) /\ queue_free' = queue_free
        /\ httpd'.chunk = Head(queue_filled) /\ reader' = reader
    BY <1>6 DEF StartSend
  <2>2. Head(queue_filled) \in Chunks
    BY <1>6, TailFacts
  <2> QED BY <1>6, <2>1, <2>2, TailHolds
<1>7. CASE StartSend /\ queue_filled = <<>>
  BY <1>1, <1>7 DEF StartSend
<1>8. CASE ReturnChunk
  <2>1. httpd.chunk \in Chunks /\ reader' = reader /\ queue_filled' = queue_filled
    BY <1>8 DEF ReturnChunk, HttpdOK, NoChunk
  <2>2. \/ queue_free' = queue_free /\ httpd'.chunk = httpd.chunk
        \/ queue_free' = Append(queue_free, httpd.chunk) /\ httpd'.chunk = NoChunk
    BY <1>8 DEF ReturnChunk, HttpdOK, HttpdIdle
  <2>3. httpd.chunk # NoChunk
    BY <2>1 DEF NoChunk, Chunks
  <2>4. CASE queue_free' = Append(queue_free, httpd.chunk) /\ httpd'.chunk = NoChunk
    BY <2>1, <2>3, <2>4, AppendHolds, NoChunkHolds
  <2> QED BY <1>1, <2>1, <2>2, <2>4
<1>9. CASE SendOk \/ SendFails
  BY <1>1, <1>9 DEF SendOk, SendFails
<1>10. CASE Resend \/ ReturnBlocked
  BY <1>10 DEF Resend, ReturnBlocked, NotWaiting
<1>11. CASE ReaderCheck \/ ReadEmpty
            \/ \E b \in Blocks, n \in 1..BUFFER_SLOT_BYTES : ReadDone(b, n)
  <2>1. UNCHANGED <<queue_free, queue_filled, httpd>> /\ reader'.chunk = reader.chunk
    BY <1>11 DEF ReaderCheck, ReadEmpty, ReadDone, ReaderOK, serverVars
  <2> QED BY <1>1, <2>1
<1>12. CASE PumpNext
  <2>1. UNCHANGED <<queue_free, queue_filled, httpd, reader>>
    BY <1>12 DEF PumpNext, PumpList, PumpVisit, PumpQueue, serverVars
  <2> QED BY <1>1, <2>1
<1>13. CASE (\E c \in Clients : HttpdRequest(c) \/ Connect(c) \/ Leave(c))
            \/ UNCHANGED vars
  <2>1. UNCHANGED <<queue_free, queue_filled, httpd, reader>>
    BY <1>13 DEF HttpdRequest, Accept, Upgrade, Hello, Close, HttpdServe, Connect,
       Leave, serverVars, vars
  <2> QED BY <1>1, <2>1
<1> QED BY <1>2, <1>3, <1>4, <1>5, <1>6, <1>7, <1>8, <1>9, <1>10, <1>11, <1>12, <1>13
        DEF Next, ReaderNext, HttpdSend, I2SReadFails, I2SWriteFails

\* No step but a failed send gives a chunk a second owner.
LEMMA HealthyOwnershipStep ==
  TypeOK /\ NotWaiting /\ HealthyOwnership /\ [Next]_vars => HealthyOwnership'
<1> SUFFICES ASSUME TypeOK, NotWaiting, HealthyOwnership, [Next]_vars, ~failed'
             PROVE  Ownership'
  BY DEF HealthyOwnership, Ownership
<1>1. CASE Reboot
  BY <1>1, InitHolds DEF Reboot, Ownership, ReaderIdle, HttpdIdle
<1>2. CASE ~Reboot
  <2>1. ~failed /\ Ownership
    BY <1>2, FailedStep DEF HealthyOwnership, Ownership
  <2> QED BY <1>2, <2>1, OwnershipStep
<1> QED BY <1>1, <1>2

\* Until a send fails no two holders ever share a chunk: in particular the
\* reader never writes the storage that the server encodes.
THEOREM OwnershipCorrect == Spec => []HealthyOwnership
<1>1. Init => HealthyOwnership
  BY InitHolds DEF Init, HealthyOwnership, ReaderIdle, HttpdIdle
<1>2. TypeOK /\ NotWaiting /\ HealthyOwnership /\ [Next]_vars => HealthyOwnership'
  BY HealthyOwnershipStep
<1> QED BY <1>1, <1>2, CountInvariant, TypeCorrect, PTL DEF Spec

-----------------------------------------------------------------------------
(* What is sent *)

\* HealthyFramesWhole when no send has failed, in terms of Holds.
FramesWhole ==
  /\ \A c \in Chunks : Holds(queue_filled, c) => Whole(c)
  /\ httpd.pc = "encode" => Whole(httpd.chunk) /\ httpd.size = len[httpd.chunk]
  /\ reader.pc = "put" => Whole(reader.chunk)

LEMMA FramesWholeHolds ==
  ASSUME TypeOK, ~failed
  PROVE  HealthyFramesWhole <=> FramesWhole
<1>1. \A i \in 1..Len(queue_filled) : queue_filled[i] \in Chunks
  BY DEF TypeOK, QueuesOK
<1> QED BY <1>1 DEF HealthyFramesWhole, FramesWhole, Holds

\* A chunk whose length and storage a step leaves alone stays whole.
LEMMA WholeKept ==
  ASSUME NEW c, len'[c] = len[c], storage'[c] = storage[c], Whole(c)
  PROVE  Whole(c)'
  BY DEF Whole

LEMMA FramesWholeStep ==
  ASSUME TypeOK, Ownership, FramesWhole, [Next]_vars, ~Reboot, ~SendFails, ~Resend
  PROVE  FramesWhole'
<1> USE DEF TypeOK, audioVars, Ownership, FramesWhole
<1> queue_free \in Seq(Chunks) /\ queue_filled \in Seq(Chunks)
  BY DEF QueuesOK
<1>1. CASE UNCHANGED <<queue_filled, len, storage, httpd>>
           /\ reader'.pc \in {reader.pc, "check", "take", "giveback"}
           /\ (reader'.pc = reader.pc => reader'.chunk = reader.chunk)
  BY <1>1 DEF Whole
<1>2. CASE ReaderTake /\ queue_free # <<>>
  <2>1. UNCHANGED <<queue_filled, len, httpd>> /\ reader'.pc = "read"
        /\ storage' = [storage EXCEPT ![Head(queue_free)] = Torn]
    BY <1>2 DEF ReaderTake, serverVars
  <2>2. Head(queue_free) \in Chunks /\ Holds(queue_free, Head(queue_free))
    BY <1>2, TailFacts, TailHolds
  <2>3. ~Holds(queue_filled, Head(queue_free)) /\ httpd.chunk # Head(queue_free)
    BY <2>2
  <2>4. \A c \in Chunks : c # Head(queue_free) => storage'[c] = storage[c]
    BY <2>1 DEF StorageOK
  <2>5. ASSUME NEW c \in Chunks, Holds(queue_filled, c)
        PROVE  Whole(c)'
    BY <2>1, <2>3, <2>4, <2>5, WholeKept
  <2>6. ASSUME httpd.pc = "encode"
        PROVE  Whole(httpd.chunk)' /\ httpd.size = len'[httpd.chunk]
    <3>1. httpd.chunk \in Chunks
      BY <2>6 DEF HttpdOK, NoChunk
    <3> QED BY <2>1, <2>3, <2>4, <2>6, <3>1 DEF Whole
  <2> QED BY <2>1, <2>5, <2>6
<1>3. CASE ReaderTake /\ queue_free = <<>>
  BY <1>1, <1>3 DEF ReaderTake, ReaderIdle, serverVars
<1>4. ASSUME NEW b \in Blocks, NEW n \in 1..BUFFER_SLOT_BYTES, ReadDone(b, n)
      PROVE  FramesWhole'
  <2>1. reader.chunk \in Chunks /\ reader'.chunk = reader.chunk /\ reader'.pc = "put"
        /\ UNCHANGED <<queue_filled, httpd>>
    BY <1>4 DEF ReadDone, ReaderOK, NoChunk, serverVars
  <2>2. storage' = [storage EXCEPT ![reader.chunk] = b]
        /\ len' = [len EXCEPT ![reader.chunk] = n]
    BY <1>4 DEF ReadDone
  <2>3. Whole(reader.chunk)'
    BY <2>1, <2>2, SlotsAssumption DEF Whole, StorageOK
  <2>4. \A c \in Chunks : c # reader.chunk => storage'[c] = storage[c] /\ len'[c] = len[c]
    BY <2>2 DEF StorageOK
  <2>5. ASSUME NEW c \in Chunks, Holds(queue_filled, c)
        PROVE  Whole(c)'
    BY <2>4, <2>5, WholeKept
  <2>6. ASSUME httpd.pc = "encode"
        PROVE  Whole(httpd.chunk)' /\ httpd.size = len'[httpd.chunk]
    <3>1. httpd.chunk \in Chunks /\ httpd.chunk # reader.chunk
      BY <2>1, <2>6 DEF HttpdOK, NoChunk, Chunks
    <3> QED BY <2>1, <2>4, <2>6, <3>1 DEF Whole
  <2> QED BY <2>1, <2>3, <2>5, <2>6
<1>5. CASE ReaderPut
  <2>1. reader.chunk \in Chunks /\ reader'.pc = "check" /\ Whole(reader.chunk)
        /\ UNCHANGED <<len, storage, httpd>>
    BY <1>5 DEF ReaderPut, ReaderOK, ReaderIdle, NoChunk, serverVars
  <2>2. queue_filled' = queue_filled \/ queue_filled' = Append(queue_filled, reader.chunk)
    BY <1>5 DEF ReaderPut
  <2>3. \A c \in Chunks : Holds(queue_filled, c)' => Holds(queue_filled, c) \/ c = reader.chunk
    <3>1. CASE queue_filled' = queue_filled
      BY <3>1 DEF Holds
    <3>2. CASE queue_filled' = Append(queue_filled, reader.chunk)
      <4>1. \A c : Holds(queue_filled', c) <=> (Holds(queue_filled, c) \/ c = reader.chunk)
        BY <2>1, <3>2, AppendHolds
      <4> QED BY <4>1 DEF Holds
    <3> QED BY <2>2, <3>1, <3>2
  <2> QED BY <2>1, <2>3 DEF Whole
<1>6. CASE ReaderGiveBack \/ ReaderCheck \/ ReadEmpty
  <2>1. UNCHANGED <<queue_filled, len, storage, httpd>>
        /\ reader'.pc \in {"check", "take", "giveback"}
        /\ (reader'.pc = reader.pc => reader'.chunk = reader.chunk)
    BY <1>6 DEF ReaderGiveBack, ReaderCheck, ReadEmpty, ReaderIdle, ReaderOK, serverVars
  <2> QED BY <1>1, <2>1
<1>7. CASE StartSend /\ queue_filled # <<>>
  <2>1. queue_filled' = Tail(queue_filled) /\ UNCHANGED <<len, storage, reader>>
        /\ httpd'.chunk = Head(queue_filled) /\ httpd'.size = len[Head(queue_filled)]
    BY <1>7 DEF StartSend
  <2>2. Head(queue_filled) \in Chunks
    BY <1>7, TailFacts
  <2>3. Holds(queue_filled, Head(queue_filled))
        /\ \A c : Holds(Tail(queue_filled), c) => Holds(queue_filled, c)
    BY <1>7, TailHolds
  <2> QED BY <2>1, <2>2, <2>3 DEF Whole
<1>8. CASE StartSend /\ queue_filled = <<>>
  BY <1>1, <1>8 DEF StartSend
<1>9. CASE SendOk
  BY <1>9 DEF SendOk, Whole
<1>10. CASE ReturnChunk
  <2>1. httpd.chunk \in Chunks /\ httpd'.pc # "encode"
        /\ UNCHANGED <<reader, queue_filled, storage>>
        /\ len' = [len EXCEPT ![httpd.chunk] = 0]
    BY <1>10 DEF ReturnChunk, HttpdOK, HttpdIdle, NoChunk
  <2>2. \A c \in Chunks : c # httpd.chunk => len'[c] = len[c]
    BY <2>1 DEF StorageOK
  <2>3. ASSUME NEW c \in Chunks, Holds(queue_filled, c)
        PROVE  Whole(c)'
    BY <2>1, <2>2, <2>3, WholeKept
  <2>4. ASSUME reader.pc = "put"
        PROVE  Whole(reader.chunk)'
    <3>1. reader.chunk \in Chunks /\ reader.chunk # httpd.chunk
      BY <2>4 DEF ReaderOK, NoChunk, Chunks
    <3> QED BY <2>1, <2>2, <2>4, <3>1, WholeKept
  <2> QED BY <2>1, <2>3, <2>4
<1>11. CASE ReturnBlocked
  BY <1>11 DEF ReturnBlocked, HttpdIdle, Whole
<1>12. CASE PumpNext
  BY <1>1, <1>12 DEF PumpNext, PumpList, PumpVisit, PumpQueue, serverVars
<1>13. CASE (\E c \in Clients : HttpdRequest(c) \/ Connect(c) \/ Leave(c))
            \/ UNCHANGED vars
  BY <1>1, <1>13 DEF HttpdRequest, Accept, Upgrade, Hello, Close, HttpdServe, Connect,
     Leave, serverVars, vars
<1> QED BY <1>2, <1>3, <1>4, <1>5, <1>6, <1>7, <1>8, <1>9, <1>10, <1>11, <1>12, <1>13
        DEF Next, ReaderNext, HttpdSend, I2SReadFails, I2SWriteFails

\* No step but a failed send spoils a chunk that waits to be sent.
LEMMA HealthyFramesStep ==
  TypeOK /\ TypeOK' /\ NotWaiting /\ HealthyOwnership /\ HealthyFramesWhole /\ [Next]_vars
  => HealthyFramesWhole'
<1> SUFFICES ASSUME TypeOK, TypeOK', NotWaiting, HealthyOwnership, HealthyFramesWhole,
                    [Next]_vars, ~failed'
             PROVE  HealthyFramesWhole'
  BY DEF HealthyFramesWhole
<1>1. CASE Reboot
  BY <1>1 DEF Reboot, HealthyFramesWhole, ReaderIdle, HttpdIdle
<1>2. CASE ~Reboot
  <2>1. ~failed /\ ~SendFails /\ ~Resend
    BY <1>2, FailedStep DEF NotWaiting, Resend
  <2>2. Ownership /\ FramesWhole
    BY <2>1, FramesWholeHolds DEF HealthyOwnership, Ownership
  <2>3. FramesWhole'
    BY <1>2, <2>1, <2>2, FramesWholeStep
  <2>4. (\A i \in 1..Len(queue_filled) : queue_filled[i] \in Chunks)'
    BY DEF TypeOK, QueuesOK
  <2> QED BY <2>3, <2>4 DEF HealthyFramesWhole, FramesWhole, Holds
<1> QED BY <1>1, <1>2

\* Until a send fails every frame that is encoded carries the whole block of one
\* completed I2S read.
THEOREM FramesCorrect == Spec => []HealthyFramesWhole
<1>1. Init => HealthyFramesWhole
  BY DEF Init, HealthyFramesWhole, ReaderIdle, HttpdIdle
<1>2. TypeOK /\ TypeOK' /\ NotWaiting /\ HealthyOwnership /\ HealthyFramesWhole /\ [Next]_vars
      => HealthyFramesWhole'
  BY HealthyFramesStep
<1>3. Spec => []TypeOK /\ []NotWaiting /\ []HealthyOwnership
  BY TypeCorrect, CountInvariant, OwnershipCorrect, PTL
<1> QED BY <1>1, <1>2, <1>3, PTL DEF Spec

\* No step but a failed send puts the counter out of step with the wire.
LEMMA SequenceStep ==
  TypeOK /\ SequenceGapless /\ [Next]_vars => SequenceGapless'
<1> SUFFICES ASSUME TypeOK, SequenceGapless, [Next]_vars, ~failed'
             PROVE  SequenceGapless'
  BY DEF SequenceGapless
<1>1. CASE Reboot
  BY <1>1 DEF Reboot, SequenceGapless, HttpdIdle
<1>2. CASE ~Reboot
  <2>1. ~failed /\ ~SendFails
    BY <1>2, FailedStep
  <2>2. CASE UNCHANGED <<sequence, sent>> /\ (httpd'.pc = "encode" <=> httpd.pc = "encode")
    BY <2>1, <2>2 DEF SequenceGapless
  <2>3. CASE StartSend
    <3>1. httpd.pc = "idle" /\ sent' = sent
      BY <2>3 DEF StartSend
    <3>2. sequence = sent.seq
      BY <2>1, <3>1 DEF SequenceGapless
    <3>3. \/ UNCHANGED <<sequence, httpd>>
          \/ sequence' = (sequence + 1) % SequenceModulus /\ httpd'.pc = "encode"
      BY <2>3 DEF StartSend
    <3> QED BY <3>1, <3>2, <3>3 DEF SequenceGapless
  <2>4. CASE SendOk
    BY <2>4 DEF SendOk, SequenceGapless
  <2>5. CASE Resend \/ ReturnChunk \/ ReturnBlocked
    BY <2>2, <2>5 DEF Resend, ReturnChunk, ReturnBlocked, HttpdIdle, TypeOK, HttpdOK
  <2>6. CASE ReaderNext \/ PumpNext
    BY <2>2, <2>6 DEF ReaderNext, ReaderCheck, ReaderTake, ReadDone, ReadEmpty, ReaderPut,
       ReaderGiveBack, serverVars, PumpNext, PumpList, PumpVisit, PumpQueue
  <2>7. CASE (\E c \in Clients : HttpdRequest(c) \/ Connect(c) \/ Leave(c))
             \/ UNCHANGED vars
    BY <2>2, <2>7 DEF HttpdRequest, Accept, Upgrade, Hello, Close, HttpdServe, Connect,
       Leave, serverVars, vars
  <2> QED BY <1>2, <2>1, <2>3, <2>4, <2>5, <2>6, <2>7
          DEF Next, HttpdSend, I2SReadFails, I2SWriteFails
<1> QED BY <1>1, <1>2

\* Until a send fails the sequence numbers on the wire have no gap, also when
\* the counter wraps.
THEOREM SequenceCorrect == Spec => []SequenceGapless
<1>1. Init => SequenceGapless
  BY DEF Init, SequenceGapless, HttpdIdle
<1>2. TypeOK /\ SequenceGapless /\ [Next]_vars => SequenceGapless'
  BY SequenceStep
<1> QED BY <1>1, <1>2, TypeCorrect, PTL DEF Spec

-----------------------------------------------------------------------------
(* What never heals by itself *)

LEMMA WedgedStep == TypeOK /\ [Next]_vars => (Wedged => Wedged' \/ Reboot)
<1> SUFFICES ASSUME TypeOK, [Next]_vars, Wedged, ~Reboot PROVE Wedged'
  OBVIOUS
<1>1. httpd.pc \in {"resend", "blocked"}
  BY DEF Wedged
<1>2. CASE PumpNext \/ UNCHANGED vars
  BY <1>2 DEF PumpNext, PumpList, PumpVisit, PumpQueue, vars, audioVars, serverVars, Wedged, Sessions
<1>3. CASE \E c \in Clients : HttpdRequest(c)
  BY <1>1, <1>3 DEF HttpdRequest, Accept, Upgrade, Hello, Close, HttpdServe
<1>4. ASSUME NEW c \in Clients, Connect(c) \/ Leave(c)
      PROVE  Wedged'
  <2>1. UNCHANGED <<queue_free, queue_filled, reader, httpd>>
    BY <1>4 DEF Connect, Leave, audioVars, serverVars
  <2>2. Sessions = {} => Sessions' = {}
    BY <1>4 DEF Connect, Leave, Sessions, TypeOK, ServerOK
  <2> QED BY <2>1, <2>2 DEF Wedged
<1>5. CASE HttpdSend
  BY <1>1, <1>5, SlotsAssumption
  DEF HttpdSend, StartSend, SendOk, SendFails, Resend, ReturnChunk, ReturnBlocked, Wedged
<1>6. CASE ReaderNext
  <2>1. CASE httpd.pc = "resend" /\ Len(queue_filled) = BUFFER_SLOTS
    <3>1. httpd' = httpd /\ queue_filled' = queue_filled
      BY <1>6, <2>1, SlotsAssumption
      DEF ReaderNext, ReaderCheck, ReaderTake, ReadDone, ReadEmpty, ReaderPut,
          ReaderGiveBack, audioVars, serverVars
    <3> QED BY <2>1, <3>1 DEF Wedged
  <2>2. CASE Sessions = {} /\ reader.pc = "check"
    BY <1>6, <2>2 DEF ReaderNext, ReaderCheck, ReaderTake, ReadDone, ReadEmpty, ReaderPut,
       ReaderGiveBack, checkConnectionActive
  <2> QED BY <2>1, <2>2 DEF Wedged
<1> QED BY <1>2, <1>3, <1>4, <1>5, <1>6 DEF Next, I2SReadFails, I2SWriteFails

\* A server's task that waits for a queue slot only it could free keeps waiting
\* until the chip restarts, whatever the clients, the network and I2S do.
THEOREM WedgedCorrect == Spec => WedgedForever
  BY WedgedStep, TypeCorrect, PTL DEF Spec, WedgedForever

-----------------------------------------------------------------------------
(* The pool implements the pipe *)

\* What the pipe looks like: its length, and where its blocks are stored.
LEMMA PipeFacts ==
  ASSUME TypeOK
  PROVE  /\ InHand \in {0, 1} /\ Len(queue_filled) \in Nat
         /\ Pipe \in Seq(Blocks \cup {Torn})
         /\ Len(Pipe) = InHand + Len(queue_filled)
         /\ \A i \in 1..Len(Pipe) : Pipe[i] = storage[PipeChunk(i)]
         /\ \A i \in 1..Len(Pipe) :
              /\ PipeChunk(i) \in Chunks
              /\ PipeChunk(i) = httpd.chunk \/ Holds(queue_filled, PipeChunk(i))
<1>1. InHand \in {0, 1} /\ Len(queue_filled) \in Nat
  BY DEF InHand, TypeOK, QueuesOK
<1>2. ASSUME NEW i \in 1..(InHand + Len(queue_filled))
      PROVE  /\ PipeChunk(i) \in Chunks
             /\ PipeChunk(i) = httpd.chunk \/ Holds(queue_filled, PipeChunk(i))
  <2>1. CASE i <= InHand
    <3>1. httpd.pc = "encode" /\ PipeChunk(i) = httpd.chunk
      BY <1>1, <2>1 DEF InHand, PipeChunk
    <3> QED BY <3>1 DEF TypeOK, HttpdOK, NoChunk
  <2>2. CASE ~(i <= InHand)
    <3>1. i - InHand \in 1..Len(queue_filled)
      BY <1>1, <2>2
    <3>2. PipeChunk(i) = queue_filled[i - InHand]
      BY <2>2 DEF PipeChunk
    <3> QED BY <3>1, <3>2 DEF TypeOK, QueuesOK, Holds
  <2> QED BY <2>1, <2>2
<1>3. \A i \in 1..(InHand + Len(queue_filled)) : storage[PipeChunk(i)] \in Blocks \cup {Torn}
  BY <1>2 DEF TypeOK, StorageOK
<1>4. Pipe \in Seq(Blocks \cup {Torn}) /\ Len(Pipe) = InHand + Len(queue_filled)
  BY <1>1, <1>3 DEF Pipe
<1>5. \A i \in 1..Len(Pipe) : Pipe[i] = storage[PipeChunk(i)]
  BY <1>4 DEF Pipe
<1> QED BY <1>1, <1>2, <1>4, <1>5

\* Two sequences of the same length and elements are equal.
LEMMA SameSequence ==
  ASSUME NEW S, NEW p \in Seq(S), NEW q \in Seq(S), Len(p) = Len(q),
         \A i \in 1..Len(p) : p[i] = q[i]
  PROVE  p = q
  OBVIOUS

\* A step that leaves the holders of the pipe's chunks and their storage alone
\* leaves the pipe alone.
LEMMA PipeKept ==
  ASSUME TypeOK, TypeOK', queue_filled' = queue_filled, InHand' = InHand,
         InHand = 1 => httpd'.chunk = httpd.chunk,
         \A c \in Chunks : (InHand = 1 /\ c = httpd.chunk) \/ Holds(queue_filled, c)
                              => storage'[c] = storage[c]
  PROVE  Pipe' = Pipe
<1>1. ASSUME NEW i \in 1..(InHand + Len(queue_filled))
      PROVE  storage'[PipeChunk(i)'] = storage[PipeChunk(i)]
  <2>1. PipeChunk(i) \in Chunks /\ InHand \in {0, 1} /\ Len(queue_filled) \in Nat
    BY PipeFacts
  <2>2. PipeChunk(i)' = PipeChunk(i)
    BY <2>1 DEF PipeChunk
  <2>3. (InHand = 1 /\ PipeChunk(i) = httpd.chunk) \/ Holds(queue_filled, PipeChunk(i))
    <3>1. CASE i <= InHand
      BY <2>1, <3>1 DEF PipeChunk
    <3>2. CASE ~(i <= InHand)
      <4>1. i - InHand \in 1..Len(queue_filled)
        BY <2>1, <3>2
      <4> QED BY <3>2, <4>1 DEF PipeChunk, Holds
    <3> QED BY <3>1, <3>2
  <2> QED BY <2>1, <2>2, <2>3
<1> QED BY <1>1 DEF Pipe

\* Who asks for audio changes with the pump's flag and the sessions only.
LEMMA DrainingKept == UNCHANGED <<send_messages, session>> => Draining' = Draining
BY DEF Draining, Websockets, Sessions

LEMMA DrainingBoolean == Draining \in BOOLEAN /\ Draining' \in BOOLEAN
BY DEF Draining

\* A step that moves no audio is one of whoever asks for it.
LEMMA TurnStep ==
  ASSUME TypeOK, TypeOK', UNCHANGED <<queue_filled, httpd, storage, sent, failed>>
  PROVE  Fifo!Next
<1>1. Pipe' = Pipe
  BY PipeKept DEF InHand
<1> QED
  BY <1>1, DrainingBoolean DEF Fifo!Next, Fifo!Turn

\* Taking the next chunk from queue_filled moves it within the pipe.
LEMMA PipeStartSend ==
  ASSUME TypeOK, TypeOK', StartSend, queue_filled # <<>>
  PROVE  Pipe' = Pipe
<1>1. InHand = 0 /\ InHand' = 1 /\ Len(queue_filled) \in Nat
      /\ Len(Tail(queue_filled)) = Len(queue_filled) - 1
  BY TailFacts DEF StartSend, InHand, TypeOK, QueuesOK
<1>2. queue_filled' = Tail(queue_filled) /\ httpd'.chunk = queue_filled[1]
      /\ storage' = storage
  BY TailFacts DEF StartSend, TypeOK, QueuesOK
<1>3. \A i \in 1..(Len(queue_filled) - 1) : Tail(queue_filled)[i] = queue_filled[i + 1]
  BY TailFacts DEF TypeOK, QueuesOK
<1>4. ASSUME NEW i \in 1..Len(queue_filled) PROVE PipeChunk(i)' = PipeChunk(i)
  <2>1. PipeChunk(i) = queue_filled[i]
    BY <1>1 DEF PipeChunk
  <2>2. CASE i = 1
    BY <1>1, <1>2, <2>1, <2>2 DEF PipeChunk
  <2>3. CASE i # 1
    <3>1. PipeChunk(i)' = Tail(queue_filled)[i - 1]
      BY <1>1, <1>2, <2>3 DEF PipeChunk
    <3>2. i - 1 \in 1..(Len(queue_filled) - 1) /\ (i - 1) + 1 = i
      BY <1>1, <2>3
    <3> QED BY <1>3, <2>1, <3>1, <3>2
  <2> QED BY <2>2, <2>3
<1> QED BY <1>1, <1>2, <1>4 DEF Pipe

\* A frame that is out takes the first block from the pipe.
LEMMA PipeSendOk ==
  ASSUME TypeOK, TypeOK', FramesWhole, SendOk
  PROVE  Fifo!Deliver
<1>1. InHand = 1 /\ InHand' = 0 /\ Len(queue_filled) \in Nat
      /\ queue_filled' = queue_filled /\ storage' = storage
  BY DEF SendOk, InHand, TypeOK, QueuesOK, audioVars
<1>2. Pipe \in Seq(Blocks \cup {Torn}) /\ Len(Pipe) = 1 + Len(queue_filled)
      /\ \A i \in 1..Len(Pipe) : Pipe[i] = storage[PipeChunk(i)]
  BY <1>1, PipeFacts
<1>3. Pipe # <<>> /\ Tail(Pipe) \in Seq(Blocks \cup {Torn})
      /\ Len(Tail(Pipe)) = Len(queue_filled)
      /\ \A i \in 1..Len(queue_filled) : Tail(Pipe)[i] = Pipe[i + 1]
  BY <1>1, <1>2
<1>4. Pipe' \in Seq(Blocks \cup {Torn}) /\ Len(Pipe') = Len(queue_filled)
      /\ \A i \in 1..Len(queue_filled) : Pipe'[i] = storage[queue_filled[i]]
  <2>1. \A i \in 1..Len(queue_filled) : PipeChunk(i)' = queue_filled[i]
    BY <1>1 DEF PipeChunk
  <2>2. Pipe' = [i \in 1..Len(queue_filled) |-> storage[queue_filled[i]]]
    BY <1>1, <2>1 DEF Pipe
  <2>3. \A i \in 1..Len(queue_filled) : storage[queue_filled[i]] \in Blocks \cup {Torn}
    BY DEF TypeOK, QueuesOK, StorageOK
  <2> QED BY <1>1, <2>2, <2>3
<1>5. \A i \in 1..Len(queue_filled) : Pipe[i + 1] = storage[queue_filled[i]]
  <2> SUFFICES ASSUME NEW i \in 1..Len(queue_filled)
               PROVE  Pipe[i + 1] = storage[queue_filled[i]]
    OBVIOUS
  <2>1. i + 1 \in 1..Len(Pipe) /\ ~(i + 1 <= InHand) /\ (i + 1) - InHand = i
    BY <1>1, <1>2
  <2> QED BY <1>2, <2>1 DEF PipeChunk
<1>6. Pipe' = Tail(Pipe)
  BY <1>3, <1>4, <1>5, SameSequence
<1>7. sent'.audio = Head(Pipe)
  <2>1. httpd.size # 0 /\ sent'.audio = storage[httpd.chunk]
    BY DEF SendOk, FramesWhole, Whole
  <2>2. Head(Pipe) = Pipe[1] /\ 1 \in 1..Len(Pipe) /\ PipeChunk(1) = httpd.chunk
    BY <1>1, <1>2, <1>3 DEF PipeChunk
  <2> QED BY <1>2, <2>1, <2>2
<1> QED BY <1>3, <1>6, <1>7, DrainingKept DEF SendOk, Fifo!Deliver, pumpVars

\* The reader's send puts one block in at the end of the pipe.
LEMMA PipePut ==
  ASSUME TypeOK, TypeOK', References = BUFFER_SLOTS, FramesWhole, ReaderPut
  PROVE  \E b \in Blocks : Fifo!Put(b)
<1> DEFINE b == storage[reader.chunk]
<1>1. reader.chunk \in Chunks /\ reader.chunk # NoChunk /\ b \in Blocks
      /\ UNCHANGED <<storage, httpd, sent, send_messages, session, failed>>
  BY DEF ReaderPut, TypeOK, ReaderOK, FramesWhole, Whole, serverVars, pumpVars, NoChunk,
     Chunks
<1>2. Len(queue_filled) \in Nat /\ InHand \in {0, 1} /\ InHand' = InHand
  BY <1>1 DEF TypeOK, QueuesOK, InHand
<1>3. Len(queue_filled) < BUFFER_SLOTS
  BY <1>1, RoomForOne
<1>4. queue_filled' = Append(queue_filled, reader.chunk)
  BY <1>3, <1>2, SlotsAssumption DEF ReaderPut
<1>5. Len(queue_filled') = Len(queue_filled) + 1
      /\ queue_filled'[Len(queue_filled) + 1] = reader.chunk
      /\ \A i \in 1..Len(queue_filled) : queue_filled'[i] = queue_filled[i]
  BY <1>1, <1>4, AppendFacts DEF TypeOK, QueuesOK
<1>6. InHand + Len(queue_filled) < BUFFER_SLOTS
  <2>1. InHand <= HeldByHttpd /\ HeldByReader = 1 /\ HeldByHttpd \in {0, 1}
    BY <1>1 DEF InHand, HeldByHttpd, HeldByReader, TypeOK, HttpdOK
  <2>2. Len(queue_free) \in Nat
    BY DEF TypeOK, QueuesOK
  <2> QED BY <1>2, <2>1, <2>2, SlotsAssumption DEF References
<1>7. Pipe \in Seq(Blocks \cup {Torn}) /\ Len(Pipe) = InHand + Len(queue_filled)
      /\ \A i \in 1..Len(Pipe) : Pipe[i] = storage[PipeChunk(i)]
  BY PipeFacts
<1>8. Pipe' \in Seq(Blocks \cup {Torn}) /\ Len(Pipe') = Len(Pipe) + 1
      /\ \A i \in 1..Len(Pipe') : Pipe'[i] = storage[PipeChunk(i)']
  <2>1. Pipe' = [i \in 1..(InHand + Len(queue_filled) + 1) |-> storage[PipeChunk(i)']]
    BY <1>1, <1>2, <1>5 DEF Pipe
  <2>2. ASSUME NEW i \in 1..(InHand + Len(queue_filled) + 1)
        PROVE  PipeChunk(i)' \in Chunks
    <3>1. CASE i <= InHand
      BY <1>1, <1>2, <3>1 DEF PipeChunk, InHand, TypeOK, HttpdOK, NoChunk
    <3>2. CASE ~(i <= InHand)
      <4>1. i - InHand \in 1..Len(queue_filled') /\ PipeChunk(i)' = queue_filled'[i - InHand]
        BY <1>2, <1>5, <3>2 DEF PipeChunk
      <4> QED BY <4>1 DEF TypeOK, QueuesOK
    <3> QED BY <3>1, <3>2
  <2>3. \A i \in 1..(InHand + Len(queue_filled) + 1) :
           storage[PipeChunk(i)'] \in Blocks \cup {Torn}
    BY <2>2 DEF TypeOK, StorageOK
  <2> QED BY <1>2, <1>7, <2>1, <2>3
<1>9. Pipe' = Append(Pipe, b)
  <2>1. Append(Pipe, b) \in Seq(Blocks \cup {Torn}) /\ Len(Append(Pipe, b)) = Len(Pipe) + 1
        /\ Append(Pipe, b)[Len(Pipe) + 1] = b
        /\ \A i \in 1..Len(Pipe) : Append(Pipe, b)[i] = Pipe[i]
    BY <1>1, <1>7, AppendFacts
  <2>2. ASSUME NEW i \in 1..Len(Pipe') PROVE Pipe'[i] = Append(Pipe, b)[i]
    <3>1. CASE i \in 1..Len(Pipe)
      <4>1. PipeChunk(i)' = PipeChunk(i)
        <5>1. CASE i <= InHand
          BY <1>1, <1>2, <5>1 DEF PipeChunk
        <5>2. CASE ~(i <= InHand)
          <6>1. i - InHand \in 1..Len(queue_filled)
            BY <1>2, <1>7, <3>1, <5>2
          <6> QED BY <1>2, <1>5, <5>2, <6>1 DEF PipeChunk
        <5> QED BY <5>1, <5>2
      <4> QED BY <1>7, <1>8, <2>1, <3>1, <4>1
    <3>2. CASE i = Len(Pipe) + 1
      <4>1. ~(i <= InHand) /\ i - InHand = Len(queue_filled) + 1
        BY <1>2, <1>7, <3>2
      <4>2. PipeChunk(i)' = reader.chunk
        BY <1>2, <1>5, <4>1 DEF PipeChunk
      <4> QED BY <1>8, <2>1, <3>2, <4>2
    <3> QED BY <1>2, <1>7, <1>8, <3>1, <3>2
  <2> QED BY <1>8, <2>1, <2>2, SameSequence
<1> QED BY <1>1, <1>6, <1>7, <1>9, DrainingKept DEF Fifo!Put

LEMMA EmptyPipe ==
  ASSUME queue_filled = <<>>, InHand = 0
  PROVE  Pipe = <<>>
<1>1. Len(queue_filled) = 0
  OBVIOUS
<1> QED BY <1>1 DEF Pipe

LEMMA EmptyPipeNext ==
  ASSUME queue_filled' = <<>>, InHand' = 0
  PROVE  Pipe' = <<>>
<1>1. Len(queue_filled') = 0
  OBVIOUS
<1> QED BY <1>1 DEF Pipe

\* Until a send fails every step is one of the pipe or a stutter.
LEMMA FifoStep ==
  ASSUME TypeOK, TypeOK', References = BUFFER_SLOTS, Ownership, FramesWhole,
         httpd.pc \notin {"resend", "blocked"}, [Next]_vars, ~SendFails
  PROVE  [Fifo!Next]_<<Pipe, sent.audio, Draining, failed>>
<1> USE DEF audioVars
<1>1. CASE Reboot
  <2>1. Pipe' = <<>>
    BY <1>1, EmptyPipeNext DEF Reboot, InHand, HttpdIdle
  <2> QED BY <1>1, <2>1 DEF Reboot, Fifo!Next, Fifo!Restart, Draining
<1>2. CASE ReaderPut
  BY <1>2, PipePut DEF Fifo!Next
<1>3. CASE SendOk
  BY <1>3, PipeSendOk DEF Fifo!Next
<1>4. CASE StartSend
  <2>1. UNCHANGED <<sent, send_messages, session, failed>>
    BY <1>4 DEF StartSend, pumpVars
  <2>2. CASE queue_filled = <<>>
    BY <1>4, <2>1, <2>2, PipeKept, DrainingKept DEF StartSend, InHand
  <2>3. CASE queue_filled # <<>>
    BY <1>4, <2>1, <2>3, PipeStartSend, DrainingKept
  <2> QED BY <2>2, <2>3
<1>5. CASE PumpNext
  <2>1. UNCHANGED <<queue_filled, httpd, storage, sent, failed>>
    BY <1>5 DEF PumpNext, PumpList, PumpVisit, PumpQueue, serverVars
  <2> QED BY <2>1, TurnStep
<1>6. CASE ReaderTake
  <2>1. UNCHANGED <<queue_filled, httpd, sent, send_messages, session, failed>>
    BY <1>6 DEF ReaderTake, serverVars, pumpVars
  <2>2. CASE queue_free = <<>>
    BY <1>6, <2>1, <2>2, PipeKept, DrainingKept DEF ReaderTake, InHand
  <2>3. CASE queue_free # <<>>
    <3>1. storage' = [storage EXCEPT ![Head(queue_free)] = Torn]
      BY <1>6, <2>3 DEF ReaderTake
    <3>2. Head(queue_free) \in Chunks /\ Holds(queue_free, Head(queue_free))
      BY <2>3, TailFacts, TailHolds DEF TypeOK, QueuesOK
    <3>3. \A c \in Chunks : c # Head(queue_free) => storage'[c] = storage[c]
      BY <3>1 DEF TypeOK, StorageOK
    <3>4. Head(queue_free) # httpd.chunk /\ ~Holds(queue_filled, Head(queue_free))
      BY <3>2 DEF Ownership
    <3>5. Pipe' = Pipe
      BY <2>1, <3>3, <3>4, PipeKept DEF InHand
    <3> QED BY <2>1, <3>5, DrainingKept
  <2> QED BY <2>2, <2>3
<1>7. ASSUME NEW b \in Blocks, NEW n \in 1..BUFFER_SLOT_BYTES, ReadDone(b, n)
      PROVE  UNCHANGED <<Pipe, sent.audio, Draining, failed>>
  <2>1. UNCHANGED <<queue_filled, httpd, sent, send_messages, session, failed>>
    BY <1>7 DEF ReadDone, serverVars, pumpVars
  <2>2. storage' = [storage EXCEPT ![reader.chunk] = b] /\ reader.chunk # NoChunk
    BY <1>7 DEF ReadDone, TypeOK, ReaderOK
  <2>3. \A c \in Chunks : c # reader.chunk => storage'[c] = storage[c]
    BY <2>2 DEF TypeOK, StorageOK
  <2>4. reader.chunk # httpd.chunk /\ ~Holds(queue_filled, reader.chunk)
    BY <2>2 DEF Ownership
  <2>5. Pipe' = Pipe
    BY <2>1, <2>3, <2>4, PipeKept DEF InHand
  <2> QED BY <2>1, <2>5, DrainingKept
<1>8. CASE ReturnChunk
  <2>1. /\ UNCHANGED <<queue_filled, storage, sent, send_messages, session, failed>>
        /\ InHand = 0 /\ InHand' = 0
    BY <1>8 DEF ReturnChunk, HttpdIdle, InHand, pumpVars, TypeOK, HttpdOK
  <2>2. Pipe' = Pipe
    BY <2>1, PipeKept
  <2> QED BY <2>1, <2>2, DrainingKept
<1>9. CASE \/ ReaderCheck \/ ReadEmpty \/ ReaderGiveBack \/ UNCHANGED vars
           \/ \E c \in Clients : HttpdRequest(c) \/ Connect(c) \/ Leave(c)
  <2>1. UNCHANGED <<queue_filled, storage, httpd, sent, send_messages, failed>>
    BY <1>9 DEF ReaderCheck, ReadEmpty, ReaderGiveBack, vars, HttpdRequest, Accept, Upgrade,
       Hello, Close, HttpdServe, Connect, Leave, serverVars, pumpVars
  <2> QED BY <2>1, TurnStep
<1>10. CASE Resend \/ ReturnBlocked
  BY <1>10 DEF Resend, ReturnBlocked
<1> QED BY <1>1, <1>2, <1>3, <1>4, <1>5, <1>6, <1>7, <1>8, <1>9, <1>10
        DEF Next, ReaderNext, HttpdSend, I2SReadFails, I2SWriteFails

\* Every step of the pool is one of the pipe: while no send has failed, by FifoStep; the
\* first that fails breaks the pipe, and only a restart of the chip mends it.
LEMMA PoolFifoStep ==
  ASSUME TypeOK, TypeOK', HealthyCount, NotWaiting, HealthyOwnership, HealthyFramesWhole,
         [Next]_vars
  PROVE  [Fifo!Next]_<<Pipe, sent.audio, Draining, failed>>
<1>1. CASE failed'
  BY <1>1 DEF Fifo!Next, Fifo!Fail, TypeOK, ServerOK
<1>2. CASE ~failed' /\ failed
  <2>1. Reboot
    BY <1>2, FailedStep
  <2>2. Pipe' = <<>>
    BY <2>1, EmptyPipeNext DEF Reboot, InHand, HttpdIdle
  <2> QED BY <2>1, <2>2 DEF Reboot, Fifo!Next, Fifo!Restart, Draining
<1>3. CASE ~failed' /\ ~failed
  <2>1. References = BUFFER_SLOTS /\ httpd.pc \notin {"resend", "blocked"}
    BY <1>3 DEF HealthyCount, NotWaiting
  <2>2. Ownership /\ FramesWhole
    BY <1>3, FramesWholeHolds DEF HealthyOwnership, Ownership
  <2>3. ~SendFails
    BY <1>3 DEF SendFails
  <2> QED BY <2>1, <2>2, <2>3, FifoStep
<1> QED BY <1>1, <1>2, <1>3

LEMMA InitFifo == Init => Fifo!Init
  BY EmptyPipe, DrainingBoolean DEF Init, Fifo!Init, InHand, HttpdIdle

\* For every pool size, every set of clients and every set of faults: until a send of an
\* audio frame fails, the blocks read from I2S reach the wire once each, whole and in
\* order, and again after every restart of the chip (the safety part of FifoSpec).
THEOREM Refinement ==
  Spec => Fifo!Init /\ [][Fifo!Next]_<<Pipe, sent.audio, Draining, failed>>
<1>1. /\ TypeOK /\ TypeOK' /\ HealthyCount /\ NotWaiting /\ HealthyOwnership
      /\ HealthyFramesWhole /\ [Next]_vars
      => [Fifo!Next]_<<Pipe, sent.audio, Draining, failed>>
  BY PoolFifoStep
<1> QED BY InitFifo, <1>1, TypeCorrect, CountInvariant, OwnershipCorrect, FramesCorrect, PTL
        DEF Spec

-----------------------------------------------------------------------------
(* What takes a failed send *)

\* The server wedges, and a chunk without audio waits in queue_filled, only after a send
\* has failed: whatever clients do and however the tasks interleave, an audio path whose
\* sends succeed does neither. So the chunk that sendAudioPacket puts back "for
\* re-sending" is the one cause of both.
THEOREM OnlyAfterFailure == Spec => [](~failed => ~Wedged /\ FilledHasAudio)
<1>1. HealthySendsSucceed => (~failed => ~Wedged)
  BY DEF HealthySendsSucceed, Wedged
<1>2. HealthyFramesWhole => (~failed => FilledHasAudio)
  BY DEF HealthyFramesWhole, FilledHasAudio, Whole
<1> QED
  BY <1>1, <1>2, SendsSucceed, FramesCorrect, PTL
=============================================================================
