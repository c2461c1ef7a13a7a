------------------------ MODULE ServerLifecycleProofs ------------------------
(***************************************************************************)
(* What holds of the server's life for every heap, mailbox and event queue *)
(* and every combination of faults. The event loop runs one handler at a   *)
(* time, so the instance it is stopping stays the one `server` names until *)
(* it clears the handle (StopOK). And as only the task that app_main       *)
(* creates last lets the event loop start an instance (BootOrder),         *)
(* instances and tasks find everything initialised.                        *)
(***************************************************************************)
EXTENDS ServerLifecycle, TLAPS, SequenceTheorems

\* A freed handle is only visible between the return of httpd_stop and the assignment
\* that follows it. The pump and the reader can still use it in that window.
FreedOnlyWhileClearing == Dangling(server) => loop = "clear"

\* While disconnectHandler waits for httpd_stop the instance exists; when httpd_stop
\* has returned it does not.
StopOK ==
  /\ loop \in {"stop", "lost"} => server # Null /\ heap[server] # "free"
  /\ loop = "clear" => server # Null /\ heap[server] = "free"

\* What app_main has initialised at each of its steps.
Done == [drivers |-> {}, i2s |-> {}, codec |-> {"i2s"}, queues |-> {"i2s", "codec"},
         ethernet |-> {"i2s", "codec", "queues"}, keys |-> {"i2s", "codec", "queues"},
         tasks |-> Parts, running |-> Parts, returned |-> {}]

\* Only the pump's task, which app_main creates last, registers connectHandler, and
\* only connectHandler starts an instance.
BootOrder ==
  /\ ready = Done[main]
  /\ pump.pc # "off" => main = "running"
  /\ "connectHandler" \in handlers => pump.pc # "off"
  /\ \A h \in Handles : heap[h] # "free" => "connectHandler" \in handlers

IndInv == TypeOK /\ NoOrphan /\ FreedOnlyWhileClearing /\ StopOK /\ BootOrder

\* The chip starts, and restarts, in the invariant.
LEMMA InitIndInv == Init => IndInv
<1> SUFFICES ASSUME Init PROVE IndInv
  OBVIOUS
<1>1. /\ events \in Seq({"GOT_IP", "DISCONNECTED"})
      /\ Len(events) <= MaxEvents
  BY BoundsAssumption DEF Init
<1>2. heap \in [Handles -> {"free", "running", "wedged", "ended"}]
      /\ work \in [Handles -> 0..MaxWork] /\ ahead \in 0..MaxWork
  BY BoundsAssumption DEF Init
<1>3. pump \in [pc : {"off", "connect", "disconnect", "check", "list", "visit", "hand",
                       "queue", "ended"},
                 hd : Handles \cup {Null}]
  BY DEF Init, PumpOff
<1>4. TypeOK
  BY <1>1, <1>2, <1>3 DEF Init, TypeOK
<1>5. NoOrphan /\ FreedOnlyWhileClearing /\ StopOK /\ BootOrder
  BY DEF Init, NoOrphan, FreedOnlyWhileClearing, StopOK, Dangling, BootOrder, Done, PumpOff
<1> QED
  BY <1>4, <1>5 DEF IndInv

LEMMA RebootIndInv == Reboot => IndInv'
<1> SUFFICES ASSUME Reboot PROVE IndInv'
  OBVIOUS
<1>1. /\ events' \in Seq({"GOT_IP", "DISCONNECTED"})
      /\ Len(events') <= MaxEvents
  BY BoundsAssumption DEF Reboot
<1>2. heap' \in [Handles -> {"free", "running", "wedged", "ended"}]
      /\ work' \in [Handles -> 0..MaxWork] /\ ahead' \in 0..MaxWork
  BY BoundsAssumption DEF Reboot
<1>3. pump' \in [pc : {"off", "connect", "disconnect", "check", "list", "visit", "hand",
                       "queue", "ended"},
                 hd : Handles \cup {Null}]
  BY DEF Reboot, PumpOff
<1>4. TypeOK'
  BY <1>1, <1>2, <1>3 DEF Reboot, TypeOK
<1>5. NoOrphan' /\ FreedOnlyWhileClearing' /\ StopOK' /\ BootOrder'
  BY DEF Reboot, NoOrphan, FreedOnlyWhileClearing, StopOK, Dangling, BootOrder, Done,
         PumpOff
<1> QED
  BY <1>4, <1>5 DEF IndInv

\* A step that keeps server, its heap and the loop keeps all but the types and the
\* order of the boot.
LEMMA SameServer ==
  ASSUME IndInv, TypeOK', BootOrder', UNCHANGED <<server, heap, loop>>
  PROVE  IndInv'
BY DEF IndInv, NoOrphan, FreedOnlyWhileClearing, StopOK, Dangling

LEMMA MainStep == ASSUME IndInv, MainNext \/ MainReturns PROVE IndInv'
<1> USE DEF MainDrivers, MainReturns, MainI2s, MainCodec, MainQueues, MainKeys, MainTasks, MainGoes,
            Parts, eventVars, httpdVars
<1>1. CASE MainDrivers \/ MainReturns \/ MainI2s \/ MainCodec \/ MainQueues \/ MainKeys
  <2>1. TypeOK'
    <3>1. /\ main' \in {"i2s", "returned", "codec", "queues", "ethernet", "tasks"}
          /\ UNCHANGED <<link, ip_got_sem, events, handlers, loop, server, heap, work, ahead,
                         client, pump>>
      BY <1>1
    <3>2. ready' \subseteq Parts
      BY <1>1 DEF IndInv, TypeOK
    <3> QED
      BY <3>1, <3>2 DEF IndInv, TypeOK
  <2>2. BootOrder'
    BY <1>1 DEF IndInv, BootOrder, Done
  <2> QED
    BY <1>1, <2>1, <2>2, SameServer
<1>2. CASE MainEthernet
  <2>1. TypeOK'
    <3>1. /\ main' \in {"keys"}
          /\ ip_got_sem' \in {"none", "empty", "given"}
          /\ link' \in {"off", "down", "up", "ip"}
      BY <1>2 DEF MainEthernet, IndInv, TypeOK
    <3>2. handlers' \subseteq {"gotIpEventHandler", "connectHandler", "disconnectHandler"}
      BY <1>2 DEF MainEthernet, IndInv, TypeOK
    <3>3. UNCHANGED <<ready, events, loop, server, heap, work, ahead, client, pump>>
      BY <1>2 DEF MainEthernet
    <3> QED
      BY <3>1, <3>2, <3>3 DEF IndInv, TypeOK
  <2>2. BootOrder'
    BY <1>2 DEF MainEthernet, IndInv, BootOrder, Done
  <2> QED
    BY <1>2, <2>1, <2>2, SameServer DEF MainEthernet
<1>3. CASE MainTasks
  <2>1. TypeOK'
    BY <1>3 DEF IndInv, TypeOK
  <2>2. BootOrder'
    BY <1>3 DEF IndInv, TypeOK, BootOrder, Done
  <2> QED
    BY <1>3, <2>1, <2>2, SameServer
<1> QED
  BY <1>1, <1>2, <1>3 DEF MainNext

\* A step that keeps what the order of the boot is about keeps it.
LEMMA SameBoot ==
  ASSUME IndInv, UNCHANGED <<bootVars, handlers, heap, pump>>
  PROVE  BootOrder'
BY DEF IndInv, BootOrder, bootVars

LEMMA LinkStep == ASSUME IndInv, LinkNext PROVE IndInv'
<1>1. TypeOK'
  <2>1. ASSUME NEW e \in {"GOT_IP", "DISCONNECTED"}, Len(events) < MaxEvents
        PROVE  /\ Append(events, e) \in Seq({"GOT_IP", "DISCONNECTED"})
               /\ Len(Append(events, e)) <= MaxEvents
    BY <2>1, BoundsAssumption DEF IndInv, TypeOK
  <2>2. CASE LinkUp
    BY <2>2 DEF IndInv, TypeOK, LinkUp, bootVars, httpdVars
  <2>3. CASE GotIp
    BY <2>1, <2>3 DEF IndInv, TypeOK, GotIp, bootVars, httpdVars
  <2>4. CASE LinkDown
    BY <2>1, <2>4 DEF IndInv, TypeOK, LinkDown, bootVars, httpdVars
  <2> QED
    BY <2>2, <2>3, <2>4 DEF LinkNext
<1>2. UNCHANGED <<bootVars, handlers, server, heap, loop, pump>>
  BY DEF LinkNext, LinkUp, GotIp, LinkDown, httpdVars
<1> QED
  BY <1>1, <1>2, SameServer, SameBoot

\* What a step of the event loop does to the queue and the semaphore.
LEMMA NextEventTypes ==
  ASSUME IndInv, NEW event, NextEvent(event)
  PROVE  /\ events' \in Seq({"GOT_IP", "DISCONNECTED"}) /\ Len(events') <= MaxEvents
         /\ ip_got_sem' \in {"none", "empty", "given"}
BY BoundsAssumption DEF IndInv, TypeOK, NextEvent

LEMMA LoopStep == ASSUME IndInv, LoopNext \/ StartFails PROVE IndInv'
<1>1. CASE IgnoreEvent \/ StopRefused
  <2>1. TypeOK'
    <3>1. UNCHANGED <<main, ready, link, handlers, loop, server, heap, work, ahead, client,
                      pump>>
      BY <1>1 DEF IgnoreEvent, StopRefused, httpdVars
    <3>2. /\ events' \in Seq({"GOT_IP", "DISCONNECTED"}) /\ Len(events') <= MaxEvents
          /\ ip_got_sem' \in {"none", "empty", "given"}
      BY <1>1, NextEventTypes DEF IgnoreEvent, StopRefused
    <3> QED
      BY <3>1, <3>2 DEF IndInv, TypeOK
  <2>2. BootOrder'
    BY <1>1 DEF IgnoreEvent, StopRefused, IndInv, BootOrder, httpdVars
  <2> QED
    BY <1>1, <2>1, <2>2, SameServer DEF IgnoreEvent, StopRefused, httpdVars
<1>2. CASE StartServer
  <2>1. PICK h \in Handles : /\ heap[h] = "free"
                             /\ heap' = [heap EXCEPT ![h] = "running"]
                             /\ server' = h
    BY <1>2 DEF StartServer
  <2>2. TypeOK'
    BY <1>2, <2>1, NextEventTypes DEF StartServer, IndInv, TypeOK
  <2>3. \A g \in Handles : heap[g] = "free"
    BY <1>2, HandlesAssumption DEF StartServer, MayStart, IndInv, NoOrphan
  <2>4. loop' = "register"
    BY <1>2 DEF StartServer
  <2>5. BootOrder'
    BY <1>2, <2>1 DEF StartServer, MayStart, IndInv, BootOrder
  <2> QED
    BY <2>1, <2>2, <2>3, <2>4, <2>5
       DEF IndInv, TypeOK, NoOrphan, FreedOnlyWhileClearing, StopOK, Dangling
<1>3. CASE StartReturns
  BY <1>3, SameBoot DEF StartReturns, IndInv, TypeOK, NoOrphan, FreedOnlyWhileClearing,
                        StopOK, Dangling, bootVars, eventVars, httpdVars
<1>4. CASE StopServer
  <2>1. ahead' \in 0..MaxWork
    BY <1>4 DEF StopServer, IndInv, TypeOK
  <2>2. TypeOK'
    BY <1>4, <2>1, NextEventTypes DEF StopServer, IndInv, TypeOK
  <2>3. BootOrder'
    BY <1>4 DEF StopServer, IndInv, BootOrder
  <2> QED
    BY <1>4, <2>2, <2>3 DEF StopServer, NextEvent, IndInv, NoOrphan,
                            FreedOnlyWhileClearing, StopOK, Dangling
<1>5. CASE StopReturns
  <2>1. server \in Handles
    BY <1>5 DEF StopReturns, IndInv, TypeOK, StopOK
  <2>2. TypeOK'
    BY <1>5, <2>1, BoundsAssumption
       DEF StopReturns, IndInv, TypeOK, bootVars, eventVars
  <2>3. BootOrder'
    BY <1>5, <2>1 DEF StopReturns, IndInv, TypeOK, BootOrder, bootVars, eventVars
  <2> QED
    BY <1>5, <2>1, <2>2, <2>3
       DEF StopReturns, IndInv, TypeOK, NoOrphan, FreedOnlyWhileClearing, StopOK, Dangling
<1>6. CASE ClearServer
  BY <1>6, SameBoot DEF ClearServer, IndInv, TypeOK, NoOrphan, FreedOnlyWhileClearing,
                        StopOK, Dangling, bootVars, eventVars, httpdVars
<1>7. CASE StartFails
  <2>1. TypeOK'
    BY <1>7, NextEventTypes DEF StartFails, IndInv, TypeOK, httpdVars
  <2>2. BootOrder'
    BY <1>7 DEF StartFails, IndInv, BootOrder, httpdVars
  <2> QED
    BY <1>7, <2>1, <2>2 DEF StartFails, MayStart, IndInv, NoOrphan,
                            FreedOnlyWhileClearing, StopOK, Dangling, httpdVars
<1> QED
  BY <1>1, <1>2, <1>3, <1>4, <1>5, <1>6, <1>7 DEF LoopNext

\* What the instance's task takes out of its mailbox leaves the counters in range.
LEMMA TakesWorkTypes ==
  ASSUME IndInv, NEW h \in Handles, TakesWork(h), work' = [work EXCEPT ![h] = @ - 1]
  PROVE  heap[h] = "running" /\ work' \in [Handles -> 0..MaxWork] /\ ahead' \in 0..MaxWork
<1>1. heap[h] = "running" /\ work[h] > 0
  BY DEF TakesWork, MayRun
<1>2. work' \in [Handles -> 0..MaxWork]
  BY <1>1, BoundsAssumption DEF IndInv, TypeOK
<1>3. ahead' \in 0..MaxWork
  BY BoundsAssumption DEF TakesWork, IndInv, TypeOK
<1> QED
  BY <1>1, <1>2, <1>3

LEMMA InstanceStep == ASSUME IndInv, HttpdNext \/ Wedge PROVE IndInv'
<1>1. CASE RunWork
  <2>1. PICK h \in Handles : /\ TakesWork(h)
                             /\ work' = [work EXCEPT ![h] = @ - 1]
                             /\ UNCHANGED <<bootVars, eventVars, loop, server, heap,
                                            client, pump>>
    BY <1>1 DEF RunWork
  <2>2. work' \in [Handles -> 0..MaxWork] /\ ahead' \in 0..MaxWork
    BY <2>1, TakesWorkTypes
  <2>3. TypeOK'
    BY <2>1, <2>2 DEF IndInv, TypeOK, bootVars, eventVars
  <2>4. BootOrder'
    BY <2>1, SameBoot DEF eventVars
  <2> QED
    BY <2>1, <2>3, <2>4, SameServer
<1>2. CASE Wedge
  <2>1. PICK h \in Handles : /\ TakesWork(h)
                             /\ work' = [work EXCEPT ![h] = @ - 1]
                             /\ heap' = [heap EXCEPT ![h] = "wedged"]
    BY <1>2 DEF Wedge
  <2>2. /\ heap[h] = "running"
        /\ work' \in [Handles -> 0..MaxWork] /\ ahead' \in 0..MaxWork
    BY <2>1, TakesWorkTypes
  <2>3. BootOrder'
    BY <1>2, <2>1, <2>2 DEF Wedge, IndInv, TypeOK, BootOrder, bootVars, eventVars
  <2>4. TypeOK'
    BY <1>2, <2>1, <2>2 DEF Wedge, IndInv, TypeOK, bootVars, eventVars
  <2> QED
    BY <1>2, <2>1, <2>2, <2>3, <2>4
       DEF Wedge, IndInv, TypeOK, NoOrphan, FreedOnlyWhileClearing, StopOK, Dangling
<1>3. CASE EndInstance
  <2>1. server \in Handles
    BY <1>3 DEF EndInstance, IndInv, TypeOK, StopOK
  <2>2. BootOrder'
    BY <1>3, <2>1 DEF EndInstance, IndInv, TypeOK, BootOrder, bootVars, eventVars
  <2>3. TypeOK'
    <3>1. heap' \in [Handles -> {"free", "running", "wedged", "ended"}] /\ client' \in BOOLEAN
      BY <1>3, <2>1 DEF EndInstance, IndInv, TypeOK
    <3>2. UNCHANGED <<main, ready, link, ip_got_sem, events, handlers, loop, server, work,
                      ahead, pump>>
      BY <1>3 DEF EndInstance, bootVars, eventVars
    <3> QED
      BY <3>1, <3>2 DEF IndInv, TypeOK
  <2>4. NoOrphan' /\ FreedOnlyWhileClearing' /\ StopOK'
    BY <1>3, <2>1 DEF EndInstance, IndInv, TypeOK, NoOrphan, FreedOnlyWhileClearing,
                      StopOK, Dangling
  <2> QED
    BY <2>2, <2>3, <2>4 DEF IndInv
<1> QED
  BY <1>1, <1>2, <1>3 DEF HttpdNext

LEMMA ClientStep == ASSUME IndInv, ClientNext PROVE IndInv'
<1>1. TypeOK'
  BY DEF ClientNext, ClientOpens, ClientLeaves, IndInv, TypeOK, bootVars, eventVars
<1>2. UNCHANGED <<bootVars, handlers, server, heap, loop, pump>>
  BY DEF ClientNext, ClientOpens, ClientLeaves, eventVars
<1> QED
  BY <1>1, <1>2, SameServer, SameBoot

LEMMA PumpStep == ASSUME IndInv, PumpNext PROVE IndInv'
<1>1. CASE RegisterConnect \/ RegisterDisconnect
  <2>1. TypeOK'
    BY <1>1 DEF RegisterConnect, RegisterDisconnect, IndInv, TypeOK, bootVars, httpdVars
  <2>2. BootOrder'
    BY <1>1 DEF RegisterConnect, RegisterDisconnect, IndInv, TypeOK, BootOrder, bootVars,
                httpdVars
  <2> QED
    BY <1>1, <2>1, <2>2, SameServer DEF RegisterConnect, RegisterDisconnect, httpdVars
<1>2. CASE PumpCheck \/ PumpList \/ PumpVisit
  <2>1. PICK pc \in {"list", "ended", "visit", "check", "hand"} : PumpGoes(pc)
    BY <1>2 DEF PumpCheck, PumpList, PumpVisit
  <2>3. pump.pc # "off"
    BY <1>2 DEF PumpCheck, PumpList, PumpVisit
  <2>4. BootOrder'
    BY <2>1, <2>3 DEF PumpGoes, IndInv, TypeOK, BootOrder, bootVars, eventVars, httpdVars
  <2>2. TypeOK'
    <3>1. UNCHANGED <<main, ready, link, ip_got_sem, events, handlers, loop, server, heap,
                      work, ahead, client>>
      BY <2>1 DEF PumpGoes, bootVars, eventVars, httpdVars
    <3>2. pump' \in [pc : {"off", "connect", "disconnect", "check", "list", "visit",
                           "hand", "queue", "ended"},
                     hd : Handles \cup {Null}]
      BY <2>1 DEF PumpGoes, IndInv, TypeOK
    <3> QED
      BY <3>1, <3>2 DEF IndInv, TypeOK
  <2> QED
    BY <2>1, <2>2, <2>4, SameServer DEF PumpGoes, httpdVars
<1>3. CASE PumpHand
  <2>1. TypeOK'
    BY <1>3 DEF PumpHand, IndInv, TypeOK, bootVars, eventVars, httpdVars
  <2>2. BootOrder'
    BY <1>3 DEF PumpHand, IndInv, BootOrder, bootVars, eventVars, httpdVars
  <2> QED
    BY <1>3, <2>1, <2>2, SameServer DEF PumpHand, httpdVars
<1>4. CASE QueueWork
  <2>1. /\ pump' \in {[pc |-> "check", hd |-> Null], [pc |-> "ended", hd |-> Null]}
        /\ UNCHANGED <<bootVars, eventVars, loop, server, heap, ahead, client>>
    BY <1>4 DEF QueueWork
  <2>2. work' \in [Handles -> 0..MaxWork]
    <3>1. \/ work' = work
          \/ /\ Alive(pump.hd) /\ ~(work[pump.hd] >= MaxWork)
             /\ work' = [work EXCEPT ![pump.hd] = @ + 1]
      BY <1>4 DEF QueueWork, Full
    <3>2. CASE work' = work
      BY <3>2 DEF IndInv, TypeOK
    <3>3. CASE /\ Alive(pump.hd) /\ ~(work[pump.hd] >= MaxWork)
               /\ work' = [work EXCEPT ![pump.hd] = @ + 1]
      <4>1. pump.hd \in Handles
        BY <3>3 DEF IndInv, TypeOK, Alive
      <4> QED
        BY <3>3, <4>1, BoundsAssumption DEF IndInv, TypeOK
    <3> QED
      BY <3>1, <3>2, <3>3
  <2>3. TypeOK'
    BY <2>1, <2>2 DEF IndInv, TypeOK, bootVars, eventVars
  <2>4. BootOrder'
    BY <1>4, <2>1 DEF QueueWork, IndInv, BootOrder, bootVars, eventVars
  <2> QED
    BY <2>1, <2>3, <2>4, SameServer
<1> QED
  BY <1>1, <1>2, <1>3, <1>4 DEF PumpNext

LEMMA NextIndInv == IndInv /\ [Next]_vars => IndInv'
<1> SUFFICES ASSUME IndInv, [Next]_vars PROVE IndInv'
  OBVIOUS
<1>1. CASE FaultNext
  BY <1>1, RebootIndInv, MainStep, LoopStep, InstanceStep
     DEF FaultNext, MainAborts, FreedHandleCrash
<1>2. CASE UNCHANGED vars
  BY <1>2, SameBoot DEF vars, bootVars, IndInv, TypeOK, NoOrphan, FreedOnlyWhileClearing,
                        StopOK, Dangling
<1> QED
  BY <1>1, <1>2, MainStep, LinkStep, LoopStep, InstanceStep, ClientStep, PumpStep DEF Next

THEOREM Inductive == Spec => []IndInv
BY InitIndInv, NextIndInv, PTL DEF Spec

\* Every variable keeps its type, for every heap, mailbox and event queue.
THEOREM LifecycleTypes == Spec => []TypeOK
BY Inductive, PTL DEF IndInv

\* However links, starts, stops, clients and restarts interleave, no server instance
\* is lost and at most one exists.
THEOREM NeverOrphaned == Spec => []NoOrphan
BY Inductive, PTL DEF IndInv

\* However early the link comes up, no instance and no task uses a part of the bridge
\* that is not initialised.
THEOREM ReadyBeforeUse == Spec => []UsedWhenReady
<1> IndInv => UsedWhenReady
  BY DEF IndInv, BootOrder, UsedWhenReady, Done
<1> QED
  BY Inductive, PTL

\* The pump and the reader can use a freed handle only in the window between the
\* return of httpd_stop and the assignment of nullptr.
THEOREM FreedWindow == Spec => []FreedOnlyWhileClearing
BY Inductive, PTL DEF IndInv

-----------------------------------------------------------------------------
(* The instance's life, as Bridge has it *)

\* The steps that neither start, end nor stop an instance.
Elsewhere ==
  \/ MainNext \/ MainReturns \/ LinkNext \/ IgnoreEvent \/ StopRefused \/ RunWork
  \/ ClientNext \/ PumpNext \/ UNCHANGED vars

LEMMA ElsewhereKeeps == Elsewhere => UNCHANGED <<loop, server, heap>>
<1> SUFFICES ASSUME Elsewhere PROVE UNCHANGED <<loop, server, heap>>
  OBVIOUS
<1>1. CASE MainNext \/ MainReturns
  BY <1>1 DEF MainNext, MainReturns, MainGoes, MainDrivers, MainI2s, MainCodec, MainQueues,
              MainEthernet, MainKeys, MainTasks, httpdVars
<1>2. CASE LinkNext \/ IgnoreEvent \/ StopRefused
  BY <1>2 DEF LinkNext, LinkUp, GotIp, LinkDown, IgnoreEvent, StopRefused, httpdVars
<1>3. CASE RunWork \/ ClientNext \/ UNCHANGED vars
  BY <1>3 DEF RunWork, ClientNext, ClientOpens, ClientLeaves, vars
<1>4. CASE PumpNext
  BY <1>4 DEF PumpNext, RegisterConnect, RegisterDisconnect, PumpCheck, PumpList, PumpVisit,
              PumpGoes, PumpHand, QueueWork, httpdVars
<1> QED
  BY <1>1, <1>2, <1>3, <1>4 DEF Elsewhere

LEMMA StepSplit ==
  [Next]_vars => \/ Elsewhere \/ StartServer \/ StartReturns \/ StartFails \/ StopServer
                 \/ StopReturns \/ ClearServer \/ EndInstance \/ Wedge \/ Reboot
BY DEF Next, LoopNext, HttpdNext, FaultNext, MainAborts, FreedHandleCrash, Elsewhere

\* The steps elsewhere that leave the mailboxes and the message's place alone.
LEMMA ElsewhereKeepsWork ==
  Elsewhere /\ ~RunWork => ahead' = ahead /\ (~QueueWork => work' = work)
<1> SUFFICES ASSUME Elsewhere, ~RunWork
             PROVE  ahead' = ahead /\ (~QueueWork => work' = work)
  OBVIOUS
<1>1. CASE MainNext \/ MainReturns
  BY <1>1 DEF MainNext, MainReturns, MainGoes, MainDrivers, MainI2s, MainCodec, MainQueues,
              MainEthernet, MainKeys, MainTasks, httpdVars
<1>2. CASE LinkNext \/ IgnoreEvent \/ StopRefused
  BY <1>2 DEF LinkNext, LinkUp, GotIp, LinkDown, IgnoreEvent, StopRefused, httpdVars
<1>3. CASE ClientNext \/ UNCHANGED vars
  BY <1>3 DEF ClientNext, ClientOpens, ClientLeaves, vars
<1>4. CASE PumpNext
  BY <1>4 DEF PumpNext, RegisterConnect, RegisterDisconnect, PumpCheck, PumpList, PumpVisit,
              PumpGoes, PumpHand, QueueWork, httpdVars
<1> QED
  BY <1>1, <1>2, <1>3, <1>4 DEF Elsewhere

\* A mailbox that no instance reads is empty, so a new instance starts without work.
NoWorkLeft == \A h \in Handles : heap[h] = "free" => work[h] = 0

LEMMA NextNoWorkLeft == IndInv /\ NoWorkLeft /\ [Next]_vars => NoWorkLeft'
<1> SUFFICES ASSUME IndInv, NoWorkLeft, [Next]_vars, NEW h \in Handles, heap'[h] = "free"
             PROVE  work'[h] = 0
  BY DEF NoWorkLeft
<1>1. /\ heap \in [Handles -> {"free", "running", "wedged", "ended"}]
      /\ work \in [Handles -> 0..MaxWork]
      /\ server \in Handles \cup {Null}
      /\ pump.hd \in Handles \cup {Null}
  BY DEF IndInv, TypeOK
<1>2. CASE Elsewhere
  <2>1. heap[h] = "free" /\ work[h] = 0
    BY <1>2, ElsewhereKeeps DEF NoWorkLeft
  <2>2. CASE QueueWork
    BY <1>1, <2>1, <2>2 DEF QueueWork, Alive
  <2>3. CASE RunWork
    BY <1>1, <2>1, <2>3 DEF RunWork, TakesWork, MayRun
  <2>4. CASE ~QueueWork /\ ~RunWork
    BY <1>2, <2>1, <2>4, ElsewhereKeepsWork
  <2> QED
    BY <2>2, <2>3, <2>4
<1>3. CASE StartServer \/ Wedge \/ EndInstance
  BY <1>1, <1>3 DEF StartServer, Wedge, TakesWork, MayRun, EndInstance, NoWorkLeft
<1>4. CASE StartReturns \/ StartFails \/ StopServer \/ ClearServer
  BY <1>4 DEF StartReturns, StartFails, StopServer, ClearServer, httpdVars, NoWorkLeft
<1>5. CASE StopReturns
  BY <1>1, <1>5 DEF StopReturns, NoWorkLeft
<1>6. CASE Reboot
  BY <1>6 DEF Reboot
<1> QED
  BY <1>2, <1>3, <1>4, <1>5, <1>6, StepSplit

LEMMA WorkLess == Spec => []NoWorkLeft
<1>1. Init => NoWorkLeft
  BY DEF Init, NoWorkLeft
<1> QED
  BY <1>1, NextNoWorkLeft, Inductive, PTL DEF Spec

\* The shutdown message is behind no more items than there are.
AheadOK == loop = "stop" => ahead <= work[server]

LEMMA NextAheadOK == IndInv /\ AheadOK /\ [Next]_vars => AheadOK'
<1> SUFFICES ASSUME IndInv, AheadOK, [Next]_vars, loop' = "stop"
             PROVE  ahead' <= work'[server']
  BY DEF AheadOK
<1>1. /\ work \in [Handles -> 0..MaxWork] /\ ahead \in 0..MaxWork
      /\ heap \in [Handles -> {"free", "running", "wedged", "ended"}]
      /\ server \in Handles \cup {Null} /\ pump.hd \in Handles \cup {Null}
  BY DEF IndInv, TypeOK
<1>2. ASSUME NEW h \in Handles, TakesWork(h), work' = [work EXCEPT ![h] = @ - 1],
             loop = "stop", server' = server
      PROVE  ahead' <= work'[server']
  <2>1. heap[h] = "running" /\ work[h] > 0 /\ ahead' = ahead - 1
    BY <1>2 DEF TakesWork, MayRun
  <2>2. h = server
    BY <2>1 DEF IndInv, NoOrphan
  <2> QED
    BY <1>1, <1>2, <2>1, <2>2, BoundsAssumption DEF AheadOK
<1>3. CASE Elsewhere
  <2>1. loop = "stop" /\ server' = server /\ server \in Handles
    BY <1>1, <1>3, ElsewhereKeeps DEF IndInv, StopOK
  <2>2. CASE RunWork
    BY <1>2, <2>1, <2>2 DEF RunWork
  <2>3. CASE QueueWork
    <3>1. \/ work' = work
          \/ Alive(pump.hd) /\ work' = [work EXCEPT ![pump.hd] = @ + 1]
      BY <2>3 DEF QueueWork
    <3>2. ahead' = ahead
      BY <2>3 DEF QueueWork
    <3>3. work'[server] \in Int /\ work'[server] >= work[server]
      BY <1>1, <2>1, <3>1, BoundsAssumption DEF Alive
    <3>4. ahead <= work[server]
      BY <2>1 DEF AheadOK
    <3> QED
      BY <1>1, <2>1, <3>2, <3>3, <3>4, BoundsAssumption
  <2>4. CASE ~RunWork /\ ~QueueWork
    BY <1>3, <2>1, <2>4, ElsewhereKeepsWork DEF AheadOK
  <2> QED
    BY <2>2, <2>3, <2>4
<1>4. CASE StopServer
  BY <1>1, <1>4, BoundsAssumption DEF StopServer
<1>5. CASE EndInstance
  BY <1>5 DEF EndInstance, AheadOK
<1>6. CASE Wedge
  BY <1>2, <1>6 DEF Wedge
<1>7. CASE StartServer \/ StartReturns \/ StartFails \/ StopReturns \/ ClearServer \/ Reboot
  BY <1>7 DEF StartServer, StartReturns, StartFails, StopReturns, ClearServer, Reboot
<1> QED
  BY <1>3, <1>4, <1>5, <1>6, <1>7, StepSplit

LEMMA AheadWithin == Spec => []AheadOK
<1>1. Init => AheadOK
  BY DEF Init, AheadOK
<1> QED
  BY <1>1, NextAheadOK, Inductive, PTL DEF Spec

HasInstance == \E h \in Handles : heap[h] \in {"running", "wedged"}

\* What Bridge calls `instance`.
Instance ==
  CASE ~HasInstance                   -> "none"
    [] HasInstance /\ loop = "stop"   -> "stopping"
    [] HasInstance /\ loop = "lost"   -> "deaf"
    [] HasInstance /\ loop \notin {"stop", "lost"} -> "running"

Drained == \A h \in Handles : heap[h] = "running" => work[h] = 0

\* The instance that Bridge puts around the audio path lives as the event loop makes it
\* live: it starts with an empty mailbox; it is told to stop once, with the message at
\* the end of the mailbox, or lost in a full one; from then on it only ends, when what
\* was before the message has run, or goes with the restart of the chip, which is all
\* that is left to one whose message is lost. No handler of a link event starts a second
\* one, stops one twice or brings one back.
THEOREM InstanceLife ==
  Spec => [][\/ Instance' = Instance
             \/ Instance = "none" /\ Instance' = "running" /\ Drained'
             \/ Instance = "running" /\ Instance' = "stopping" /\ ahead' = work[server]
             \/ Instance = "running" /\ Instance' = "deaf" /\ Full(server)
             \/ Instance = "stopping" /\ Instance' = "none" /\ ahead = 0
             \/ Reboot]_vars
<1> DEFINE Life == \/ Instance' = Instance
                   \/ Instance = "none" /\ Instance' = "running" /\ Drained'
                   \/ Instance = "running" /\ Instance' = "stopping" /\ ahead' = work[server]
                   \/ Instance = "running" /\ Instance' = "deaf" /\ Full(server)
                   \/ Instance = "stopping" /\ Instance' = "none" /\ ahead = 0
                   \/ Reboot
<1>1. IndInv /\ NoWorkLeft /\ [Next]_vars => Life
  <2> SUFFICES ASSUME IndInv, NoWorkLeft, [Next]_vars, ~Reboot PROVE Life
    OBVIOUS
  <2>1. /\ heap \in [Handles -> {"free", "running", "wedged", "ended"}]
        /\ server \in Handles \cup {Null}
        /\ \A h \in Handles : heap[h] # "free" => server = h
    BY DEF IndInv, TypeOK, NoOrphan
  <2>2. CASE Elsewhere
    <3>1. loop' = loop /\ heap' = heap
      BY <2>2, ElsewhereKeeps
    <3> QED
      BY <3>1 DEF Instance, HasInstance
  <2>3. CASE StartServer
    <3>1. PICK h \in Handles : heap[h] = "free" /\ heap' = [heap EXCEPT ![h] = "running"]
      BY <2>3 DEF StartServer
    <3>2. loop = "idle" /\ loop' = "register" /\ work' = work /\ server = Null
      BY <2>3 DEF StartServer, MayStart, NextEvent
    <3>3. \A g \in Handles : heap[g] = "free"
      BY <2>1, <3>2, HandlesAssumption
    <3>4. Instance = "none"
      BY <3>3 DEF Instance, HasInstance
    <3>5. Instance' = "running"
      BY <2>1, <3>1, <3>2 DEF Instance, HasInstance
    <3>6. Drained'
      BY <3>2, <3>3 DEF Drained, NoWorkLeft
    <3> QED
      BY <3>4, <3>5, <3>6
  <2>4. CASE StartReturns \/ StartFails \/ ClearServer
    <3>1. heap' = heap /\ loop \notin {"stop", "lost"} /\ loop' \notin {"stop", "lost"}
      BY <2>4 DEF StartReturns, StartFails, ClearServer, NextEvent, httpdVars
    <3> QED
      BY <3>1 DEF Instance, HasInstance
  <2>5. CASE StopServer
    <3>1. /\ heap' = heap /\ loop = "idle" /\ ahead' = work[server]
          /\ loop' = "stop" \/ (Full(server) /\ loop' = "lost")
      BY <2>5 DEF StopServer, NextEvent
    <3> QED
      BY <3>1 DEF Instance, HasInstance
  <2>6. CASE StopReturns
    <3>1. /\ heap[server] = "ended" /\ heap' = [heap EXCEPT ![server] = "free"]
          /\ loop = "stop"
      BY <2>6 DEF StopReturns
    <3>2. server \in Handles
      BY <2>1, <3>1 DEF IndInv, StopOK
    <3>3. ~HasInstance /\ ~HasInstance'
      BY <2>1, <3>1, <3>2 DEF HasInstance
    <3> QED
      BY <3>3 DEF Instance
  <2>7. CASE EndInstance
    <3>1. /\ heap[server] = "running" /\ heap' = [heap EXCEPT ![server] = "ended"]
          /\ loop = "stop" /\ ahead = 0 /\ server \in Handles
      BY <2>1, <2>7 DEF EndInstance, IndInv, StopOK
    <3>2. HasInstance /\ ~HasInstance'
      BY <2>1, <3>1 DEF HasInstance
    <3> QED
      BY <3>1, <3>2 DEF Instance
  <2>8. CASE Wedge
    <3>1. PICK h \in Handles : heap[h] = "running" /\ heap' = [heap EXCEPT ![h] = "wedged"]
      BY <2>8 DEF Wedge, TakesWork, MayRun
    <3>2. HasInstance /\ HasInstance'
      BY <2>1, <3>1 DEF HasInstance
    <3>3. loop' = loop
      BY <2>8 DEF Wedge
    <3> QED
      BY <3>2, <3>3 DEF Instance
  <2> QED
    BY <2>2, <2>3, <2>4, <2>5, <2>6, <2>7, <2>8, StepSplit
<1> QED
  BY <1>1, Inductive, WorkLess, PTL DEF Spec

\* While httpd_stop waits for a shutdown message that arrived, every step but a restart
\* of the chip leaves it as near to its end as it was, or brings it nearer. Handle and
\* loop stay; the pump may put more work into the mailbox, but only behind the message;
\* each item the task runs is one less before it, an item that never returns wedges the
\* instance, and with none before it the instance ends, after which httpd_stop returns.
\* That the task goes on running items (StopFinishes) rests on its fairness.
THEOREM StopApproaches ==
  Spec => [][loop = "stop" /\ ~Reboot =>
               \/ loop' = "clear" /\ heap[server] = "ended"
               \/ /\ loop' = "stop" /\ server' = server
                  /\ \/ heap' = heap /\ ahead' = ahead /\ work'[server] >= work[server]
                     \/ heap' = heap /\ heap[server] = "running" /\ ahead' = ahead - 1
                     \/ heap[server] = "running" /\ heap'[server] = "wedged"
                     \/ heap[server] = "running" /\ heap'[server] = "ended" /\ ahead = 0]_vars
<1> DEFINE Nearer == \/ heap' = heap /\ ahead' = ahead /\ work'[server] >= work[server]
                     \/ heap' = heap /\ heap[server] = "running" /\ ahead' = ahead - 1
                     \/ heap[server] = "running" /\ heap'[server] = "wedged"
                     \/ heap[server] = "running" /\ heap'[server] = "ended" /\ ahead = 0
           Goes == loop = "stop" /\ ~Reboot =>
                     \/ loop' = "clear" /\ heap[server] = "ended"
                     \/ loop' = "stop" /\ server' = server /\ Nearer
<1>1. IndInv /\ [Next]_vars => Goes
  <2> SUFFICES ASSUME IndInv, [Next]_vars, loop = "stop", ~Reboot PROVE Goes
    OBVIOUS
  <2>1. /\ heap \in [Handles -> {"free", "running", "wedged", "ended"}]
        /\ work \in [Handles -> 0..MaxWork]
        /\ server \in Handles
        /\ pump.hd \in Handles \cup {Null}
    BY DEF IndInv, TypeOK, StopOK
  <2>2. work[server] \in Int
    BY <2>1, BoundsAssumption
  <2>3. ASSUME NEW h \in Handles, TakesWork(h)
        PROVE  h = server /\ heap[server] = "running" /\ ahead' = ahead - 1
    BY <2>3 DEF TakesWork, MayRun, IndInv, NoOrphan
  <2>4. CASE Elsewhere
    <3>1. loop' = "stop" /\ server' = server /\ heap' = heap
      BY <2>4, ElsewhereKeeps
    <3>2. CASE RunWork
      BY <2>3, <3>1, <3>2 DEF RunWork
    <3>3. CASE ~RunWork
      <4>1. ahead' = ahead /\ (~QueueWork => work' = work)
        BY <2>4, <3>3, ElsewhereKeepsWork
      <4>2. work' = work \/ \E h \in Handles : work' = [work EXCEPT ![h] = @ + 1]
        BY <2>1, <4>1 DEF QueueWork, Alive
      <4>3. work'[server] >= work[server]
        BY <2>1, <2>2, <4>2
      <4> QED
        BY <3>1, <4>1, <4>3
    <3> QED
      BY <3>2, <3>3
  <2>5. CASE StopReturns
    BY <2>5 DEF StopReturns
  <2>6. CASE EndInstance
    BY <2>1, <2>6 DEF EndInstance
  <2>7. CASE Wedge
    <3>1. PICK h \in Handles : TakesWork(h) /\ heap' = [heap EXCEPT ![h] = "wedged"]
      BY <2>7 DEF Wedge
    <3>2. loop' = loop /\ server' = server
      BY <2>7 DEF Wedge
    <3> QED
      BY <2>1, <2>3, <3>1, <3>2
  <2>8. CASE StartServer \/ StartReturns \/ StartFails \/ StopServer \/ ClearServer
    BY <2>8 DEF StartServer, StartReturns, StartFails, StopServer, ClearServer, NextEvent
  <2> QED
    BY <2>4, <2>5, <2>6, <2>7, <2>8, StepSplit
<1> QED
  BY <1>1, Inductive, PTL DEF Spec

\* httpd_stop never waits for an instance that is not there, nor for an item that is not
\* there: while it waits for a message that arrived, the instance has ended, is wedged,
\* or runs with as many items in its mailbox as the message is behind, so its task has
\* an item to run or the message to take. And whenever no handle is held there is room
\* for a new instance, so a start can only fail by itself. With StopApproaches this is
\* the safety part of StopFinishes and AddressServed.
THEOREM StopNeverStuck ==
  Spec => [](/\ loop = "stop" => /\ server # Null
                                /\ heap[server] \in {"running", "wedged", "ended"}
                                /\ ahead <= work[server]
             /\ server = Null => \A h \in Handles : heap[h] = "free")
<1>1. IndInv /\ AheadOK => /\ loop = "stop" => /\ server # Null
                                               /\ heap[server] \in {"running", "wedged", "ended"}
                                               /\ ahead <= work[server]
                           /\ server = Null => \A h \in Handles : heap[h] = "free"
  BY HandlesAssumption DEF IndInv, TypeOK, StopOK, NoOrphan, AheadOK
<1> QED
  BY <1>1, Inductive, AheadWithin, PTL
=============================================================================
