------------------------------ MODULE UartWatch ------------------------------
(***************************************************************************)
(* The UART watcher, a tool for the developer's PC: it splits the bytes a  *)
(* logic analyser captures into packets, shows the current packet with     *)
(* the bytes that changed, and logs the changes of watched bytes.          *)
(*                                                                         *)
(* One action is one byte, all the way through the generators of the       *)
(* framing to the loop of run. Times are numbers of packets; whether       *)
(* PAINT_INTERVAL is over when a packet comes is left open. Colours, the   *)
(* single bits and the layout are left out.                                *)
(***************************************************************************)
EXTENDS Naturals, SequencesExt

CONSTANTS
  Bytes,
  Framings,    \* the ways of framing: a header, or a length and an offset
  Watch,       \* the positions to flag and log; none without a log file
  MaxStream    \* bound: bytes captured

\* With an empty header no byte ever ends a packet.
ASSUME FramingsAssumption ==
  /\ Framings \subseteq [header : Seq(Bytes), length : Nat, offset : Nat]
  /\ \A f \in Framings : f.length = 0 => f.header # <<>>

ASSUME WatchAssumption == Watch \subseteq Nat \ {0}   \* the first byte is 1, not 0

ASSUME BoundAssumption == MaxStream \in Nat

VARIABLES
  framing,      \* how this run of the tool frames
  stream,       \* history: the bytes captured so far
  skipped,      \* packetize_fixed: bytes skipped for the offset
  current,      \* the bytes of the packet that is not complete (current, buf)
  seen_header,
  packets,      \* history: the packets yielded
  values,       \* run: the bytes of the current packet
  changed_at,   \* run: the packet in which each of them changed, 0 for never
  painted,      \* the packet on the screen
  log           \* changes of watched bytes

vars == <<framing, stream, skipped, current, seen_header, packets, values, changed_at,
          painted, log>>
runVars == <<packets, values, changed_at, painted, log>>

Init ==
  /\ framing \in Framings
  /\ stream = <<>>
  /\ skipped = 0
  /\ current = <<>>
  /\ seen_header = FALSE
  /\ packets = <<>>
  /\ values = <<>>
  /\ changed_at = <<>>
  /\ painted = <<>>
  /\ log = {}

-----------------------------------------------------------------------------
(* run *)

\* Variant: the flag is never cleared.
FirstForever == TRUE

First == packets = <<>>

Differs(pkt, i) == i \notin DOMAIN values \/ values[i] # pkt[i]

\* Variant: a byte that the packet before did not have is no change.
ChangedKnown(pkt) == \E i \in DOMAIN pkt \cap DOMAIN values : Differs(pkt, i)

Changed(pkt) == \E i \in DOMAIN pkt : Differs(pkt, i)

Change(pkt, i) ==
  [packet |-> Len(packets) + 1, byte |-> i, old |-> values[i], new |-> pkt[i]]

\* A packet that differs is painted at once, another one if the screen is old enough,
\* as it is when the first one comes. The first packet is no change.
Show(pkt) ==
  /\ packets' = Append(packets, pkt)
  /\ values' = pkt
  /\ changed_at' = [i \in DOMAIN pkt |->
       IF ~Differs(pkt, i) THEN changed_at[i] ELSE IF First THEN 0 ELSE Len(packets) + 1]
  /\ \/ painted' = pkt
     \/ ~First /\ ~Changed(pkt) /\ UNCHANGED painted
  /\ log' = log \cup {Change(pkt, i) :
                        i \in {j \in Watch \cap DOMAIN pkt \cap DOMAIN values : Differs(pkt, j)}}

-----------------------------------------------------------------------------
(* packetize_header *)

Complete(prefix) == seen_header /\ prefix # <<>>

\* Variant: a new packet starts behind its header.
RestartEmpty == <<>>

RestartPacket == framing.header

HeaderByte(b) ==
  LET grown  == Append(current, b)
      prefix == SubSeq(grown, 1, Len(grown) - Len(framing.header))
  IN /\ framing.length = 0
     /\ \/ /\ IsSuffix(framing.header, grown)
           /\ \/ Complete(prefix) /\ Show(prefix)
              \/ ~Complete(prefix) /\ UNCHANGED runVars
           /\ seen_header' = TRUE
           /\ current' = RestartPacket
        \/ /\ ~IsSuffix(framing.header, grown)
           /\ current' = grown
           /\ UNCHANGED <<seen_header, runVars>>
     /\ UNCHANGED skipped

-----------------------------------------------------------------------------
(* packetize_fixed *)

\* Variant: one byte too many.
FullAfter(buf) == Len(buf) > framing.length

Full(buf) == Len(buf) = framing.length

SkipByte ==
  /\ framing.length > 0
  /\ skipped < framing.offset
  /\ skipped' = skipped + 1
  /\ UNCHANGED <<current, seen_header, runVars>>

FixedByte(b) ==
  /\ framing.length > 0
  /\ skipped >= framing.offset
  /\ \/ Full(Append(current, b)) /\ Show(Append(current, b)) /\ current' = <<>>
     \/ ~Full(Append(current, b)) /\ current' = Append(current, b) /\ UNCHANGED runVars
  /\ UNCHANGED <<skipped, seen_header>>

Captured(b) ==
  /\ Len(stream) < MaxStream
  /\ stream' = Append(stream, b)
  /\ HeaderByte(b) \/ SkipByte \/ FixedByte(b)
  /\ UNCHANGED framing

Next == \E b \in Bytes : Captured(b)

Spec == Init /\ [][Next]_vars

-----------------------------------------------------------------------------
(* Properties *)

\* Every variable has its type; a packet of a fixed length is never over it. Code: the
\* generators' buffers, the lists of run.
TypeOK ==
  /\ framing \in Framings
  /\ stream \in Seq(Bytes) /\ Len(stream) <= MaxStream
  /\ skipped \in 0..framing.offset
  /\ current \in Seq(Bytes)
  /\ framing.length > 0 => Len(current) < framing.length
  /\ seen_header \in BOOLEAN
  /\ packets \in Seq(Seq(Bytes))
  /\ values \in Seq(Bytes)
  /\ changed_at \in [DOMAIN values -> 0..Len(packets)]
  /\ painted \in Seq(Bytes)
  /\ log \subseteq [packet : 1..Len(packets), byte : Watch, old : Bytes, new : Bytes]

HeaderAt(s, i) == /\ i + Len(framing.header) <= Len(s) + 1
                  /\ SubSeq(s, i, i + Len(framing.header) - 1) = framing.header

\* Where headers begin in the stream, and where the bytes of the first packet do.
Found   == {i \in 1..Len(stream) : HeaderAt(stream, i)}
Started == IF framing.length > 0 THEN Len(stream) > framing.offset ELSE Found # {}
Start   == IF framing.length > 0 THEN framing.offset + 1 ELSE Min(Found)

\* A header that can begin inside itself.
Overlaps(h) == \E n \in 1..(Len(h) - 1) : SubSeq(h, 1, n) = SubSeq(h, Len(h) - n + 1, Len(h))

PacketsWhole ==
  \A k \in DOMAIN packets :
    IF framing.length > 0 THEN Len(packets[k]) = framing.length
    ELSE ~Overlaps(framing.header) =>
           \A i \in 1..Len(packets[k]) : HeaderAt(packets[k], i) <=> i = 1

\* From the first header, or the offset, on, no byte is lost, repeated or reordered: the
\* packets and the bytes still waiting make up the stream, however the header overlaps
\* itself. If it does not, each packet begins with the header and holds no other one; a
\* packet of fixed length has it. Code: packetize_header, which puts the header back when
\* it has recognised it, and packetize_fixed.
StreamSplit ==
  /\ Started => FlattenSeq(packets) \o current = SubSeq(stream, Start, Len(stream))
  /\ PacketsWhole

\* What the screen shows of the current packet is right, although a packet that does not
\* differ may not be painted: only bytes behind its end may be old. Code: run's
\* `changed`, and the deletion of what is beyond the end.
PaintedCurrent == IsPrefix(values, painted)

\* The packets in which byte i changed, the first packet excepted.
ChangesOf(i) ==
  {k \in 2..Len(packets) : /\ i \in DOMAIN packets[k]
                           /\ i \in DOMAIN packets[k - 1] => packets[k - 1][i] # packets[k][i]}

\* What the log should have of packet k: the watched bytes that differ from packet k - 1.
Logged(k) ==
  {[packet |-> k, byte |-> i, old |-> packets[k - 1][i], new |-> packets[k][i]] :
     i \in {j \in Watch \cap DOMAIN packets[k] \cap DOMAIN packets[k - 1] :
              packets[k - 1][j] # packets[k][j]}}

\* Each byte is highlighted for the last change it made, also after it was missing from
\* a shorter packet, and the log has every change of a watched byte from one packet to
\* the next and nothing else. Code: run, which only keeps the last packet.
ChangesNoted ==
  /\ \A i \in DOMAIN values : changed_at[i] = Max(ChangesOf(i) \cup {0})
  /\ log = UNION {Logged(k) : k \in 2..Len(packets)}
=============================================================================
