--------------------------- MODULE UartWatchProofs ---------------------------
(***************************************************************************)
(* What holds of the UART watcher for every way of framing and every       *)
(* stream: what the lists of run hold, what is on the screen, what the log *)
(* has, and that the framing loses nothing.                                *)
(*                                                                         *)
(* With a header the bytes still waiting begin with it once it was found,  *)
(* so the packets and those bytes are the stream from the first header on. *)
(* That a packet holds no other header needs the longest part of one that  *)
(* the bytes seen so far end with: a header found later than the last one  *)
(* would overlap it.                                                       *)
(***************************************************************************)
EXTENDS UartWatch, SequenceFacts

\* A packet that a generator yields: bytes, and at least one.
LEMMA Shown ==
  ASSUME TypeOK, NEW pkt \in Seq(Bytes), Show(pkt)
  PROVE  /\ packets' \in Seq(Seq(Bytes)) /\ Len(packets') = Len(packets) + 1
         /\ values' = pkt
         /\ changed_at' \in [DOMAIN pkt -> 0..Len(packets')]
         /\ painted' \in Seq(Bytes)
         /\ log' \subseteq [packet : 1..Len(packets'), byte : Watch, old : Bytes, new : Bytes]
<1>1. packets' \in Seq(Seq(Bytes)) /\ Len(packets') = Len(packets) + 1
  BY DEF TypeOK, Show
<1>2. values \in Seq(Bytes) /\ DOMAIN values = 1..Len(values) /\ DOMAIN pkt = 1..Len(pkt)
  BY DEF TypeOK
<1>3. Len(packets) \in Nat
  BY DEF TypeOK
<1>4. ASSUME NEW i \in DOMAIN pkt, ~Differs(pkt, i)
      PROVE  changed_at[i] \in 0..Len(packets)
  BY <1>4, <1>2 DEF TypeOK, Differs
<1>5. changed_at' \in [DOMAIN pkt -> 0..Len(packets')]
  BY <1>1, <1>3, <1>4 DEF Show
<1>6. ASSUME NEW i \in Watch \cap DOMAIN pkt \cap DOMAIN values
      PROVE  Change(pkt, i) \in
               [packet : 1..(Len(packets) + 1), byte : Watch, old : Bytes, new : Bytes]
  BY <1>2, <1>3 DEF Change
<1>7. log' \subseteq [packet : 1..Len(packets'), byte : Watch, old : Bytes, new : Bytes]
  <2>1. log \subseteq [packet : 1..(Len(packets) + 1), byte : Watch, old : Bytes, new : Bytes]
    BY <1>3 DEF TypeOK
  <2> QED
    BY <1>1, <1>6, <2>1 DEF Show
<1> QED
  BY <1>1, <1>5, <1>7 DEF Show, TypeOK

\* A byte with the framing it belongs to: what is waiting stays a sequence of bytes, and
\* what is yielded is one, or nothing is.
LEMMA HeaderFrames ==
  ASSUME TypeOK, NEW b \in Bytes, HeaderByte(b)
  PROVE  /\ current' \in Seq(Bytes) /\ seen_header' \in BOOLEAN
         /\ framing.length = 0 /\ skipped' = skipped
         /\ (\E pkt \in Seq(Bytes) : Show(pkt)) \/ UNCHANGED runVars
<1> DEFINE grown  == Append(current, b)
           prefix == SubSeq(grown, 1, Len(grown) - Len(framing.header))
<1>1. framing.header \in Seq(Bytes)
  BY FramingsAssumption DEF TypeOK
<1>2. grown \in Seq(Bytes)
  BY DEF TypeOK
<1>3. IsSuffix(framing.header, grown) => prefix \in Seq(Bytes)
  <2> DEFINE n == Len(grown) - Len(framing.header)
  <2>1. Len(Reverse(framing.header)) = Len(framing.header) /\ Len(Reverse(grown)) = Len(grown)
    BY <1>1, <1>2 DEF Reverse
  <2>2. IsSuffix(framing.header, grown) => Len(framing.header) <= Len(grown)
    BY <2>1 DEF IsSuffix, IsPrefix
  <2>3. Len(grown) \in Nat /\ Len(framing.header) \in Nat
    BY <1>1, <1>2
  <2> HIDE DEF grown
  <2>4. IsSuffix(framing.header, grown) => n \in 0..Len(grown)
    BY <2>2, <2>3
  <2> QED
    BY <1>2, <2>4, SubSeqProperties
<1>4. /\ framing.length = 0 /\ skipped' = skipped
      /\ \/ /\ IsSuffix(framing.header, grown)
            /\ Show(prefix) \/ UNCHANGED runVars
            /\ seen_header' = TRUE
            /\ current' = framing.header
         \/ current' = grown /\ UNCHANGED <<seen_header, runVars>>
  BY DEF HeaderByte, RestartPacket
<1> QED
  BY <1>1, <1>2, <1>3, <1>4 DEF TypeOK

LEMMA FixedFrames ==
  ASSUME TypeOK, NEW b \in Bytes, SkipByte \/ FixedByte(b)
  PROVE  /\ current' \in Seq(Bytes) /\ Len(current') < framing.length
         /\ seen_header' = seen_header
         /\ skipped' \in 0..framing.offset
         /\ (\E pkt \in Seq(Bytes) : Show(pkt)) \/ UNCHANGED runVars
<1>1. framing.length \in Nat /\ framing.offset \in Nat
  BY FramingsAssumption DEF TypeOK
<1>2. CASE SkipByte
  BY <1>1, <1>2 DEF SkipByte, TypeOK
<1>3. CASE FixedByte(b)
  <2>1. /\ Append(current, b) \in Seq(Bytes)
        /\ Len(Append(current, b)) = Len(current) + 1
        /\ Len(current) \in Nat /\ Len(current) < framing.length
    BY <1>3 DEF TypeOK, FixedByte
  <2>2. current' \in Seq(Bytes) /\ Len(current') < framing.length
    <3>1. CASE Full(Append(current, b)) /\ current' = <<>>
      BY <1>1, <1>3, <3>1 DEF FixedByte
    <3>2. CASE ~Full(Append(current, b)) /\ current' = Append(current, b)
      BY <1>1, <2>1, <3>2 DEF Full
    <3> QED
      BY <1>3, <3>1, <3>2 DEF FixedByte
  <2> QED
    BY <1>3, <2>1, <2>2 DEF FixedByte, TypeOK
<1> QED
  BY <1>2, <1>3

LEMMA TypeStep == TypeOK /\ [Next]_vars => TypeOK'
<1> SUFFICES ASSUME TypeOK, [Next]_vars PROVE TypeOK'
  OBVIOUS
<1>1. CASE UNCHANGED vars
  BY <1>1 DEF TypeOK, vars
<1>2. ASSUME NEW b \in Bytes, Captured(b) PROVE TypeOK'
  <2>1. stream' \in Seq(Bytes) /\ Len(stream') <= MaxStream /\ framing' = framing
    BY <1>2, BoundAssumption DEF Captured, TypeOK
  <2>2. /\ current' \in Seq(Bytes) /\ seen_header' \in BOOLEAN
        /\ skipped' \in 0..framing.offset
        /\ framing.length > 0 => Len(current') < framing.length
        /\ (\E pkt \in Seq(Bytes) : Show(pkt)) \/ UNCHANGED runVars
    <3>1. CASE HeaderByte(b)
      BY <3>1, HeaderFrames DEF TypeOK
    <3>2. CASE SkipByte \/ FixedByte(b)
      BY <3>2, FixedFrames DEF TypeOK
    <3> QED
      BY <1>2, <3>1, <3>2 DEF Captured
  <2>3. CASE \E pkt \in Seq(Bytes) : Show(pkt)
    BY <2>1, <2>2, <2>3, Shown DEF TypeOK
  <2>4. CASE UNCHANGED runVars
    BY <2>1, <2>2, <2>4 DEF TypeOK, runVars
  <2> QED
    BY <2>2, <2>3, <2>4
<1> QED
  BY <1>1, <1>2 DEF Next

\* Every variable keeps its type, for every header, length and offset.
THEOREM WatchTypes == Spec => []TypeOK
<1>1. Init => TypeOK
  <2> SUFFICES ASSUME Init PROVE TypeOK
    OBVIOUS
  <2>1. framing.offset \in Nat /\ framing.length \in Nat /\ framing \in Framings
    BY FramingsAssumption DEF Init
  <2>2. changed_at \in [DOMAIN values -> 0..Len(packets)]
    BY DEF Init
  <2>3. stream \in Seq(Bytes) /\ Len(stream) <= MaxStream
    BY BoundAssumption DEF Init
  <2>4. framing.length > 0 => Len(current) < framing.length
    BY <2>1 DEF Init
  <2>5. current \in Seq(Bytes) /\ packets \in Seq(Seq(Bytes)) /\ values \in Seq(Bytes)
        /\ painted \in Seq(Bytes) /\ skipped \in 0..framing.offset
    BY <2>1 DEF Init
  <2> QED
    BY <2>1, <2>2, <2>3, <2>4, <2>5 DEF Init, TypeOK
<1> QED
  BY <1>1, TypeStep, PTL DEF Spec

\* Painting a packet, or leaving one that does not differ, keeps the screen right.
LEMMA PaintedStep ==
  ASSUME TypeOK, PaintedCurrent, NEW pkt \in Seq(Bytes), Show(pkt)
  PROVE  PaintedCurrent'
<1>1. CASE painted' = pkt
  BY <1>1 DEF Show, PaintedCurrent, IsPrefix
<1>2. CASE ~Changed(pkt) /\ UNCHANGED painted
  <2>1. \A i \in 1..Len(pkt) : i \in 1..Len(values) /\ values[i] = pkt[i]
    BY <1>2 DEF Changed, Differs, TypeOK
  <2>2. Len(pkt) <= Len(values)
    <3>1. Len(pkt) \in Nat /\ Len(values) \in Nat
      BY DEF TypeOK
    <3>2. Len(pkt) # 0 => Len(pkt) \in 1..Len(values)
      BY <2>1, <3>1
    <3> QED
      BY <3>1, <3>2
  <2>3. Len(values) <= Len(painted) /\ \A i \in 1..Len(values) : values[i] = painted[i]
    <3>1. Len(values) <= Len(painted)
          /\ SubSeq(values, 1, Len(values)) = SubSeq(painted, 1, Len(values))
      BY DEF PaintedCurrent, IsPrefix
    <3> QED
      BY <3>1, \A i \in 1..Len(values) :
                 /\ SubSeq(values, 1, Len(values))[i] = values[i]
                 /\ SubSeq(painted, 1, Len(values))[i] = painted[i] DEF TypeOK
  <2>4. Len(pkt) <= Len(painted) /\ \A i \in 1..Len(pkt) : pkt[i] = painted[i]
    BY <2>1, <2>2, <2>3 DEF TypeOK
  <2>5. SubSeq(pkt, 1, Len(pkt)) = SubSeq(painted, 1, Len(pkt))
    <3>1. /\ SubSeq(pkt, 1, Len(pkt)) = [i \in 1..Len(pkt) |-> pkt[i]]
          /\ SubSeq(painted, 1, Len(pkt)) = [i \in 1..Len(pkt) |-> painted[i]]
      BY <2>4 DEF TypeOK
    <3> QED
      BY <2>4, <3>1
  <2> QED
    BY <1>2, <2>4, <2>5 DEF Show, PaintedCurrent, IsPrefix
<1> QED
  BY <1>1, <1>2 DEF Show

\* What the screen shows of the current packet is right, for every framing.
THEOREM ScreenRight == Spec => []PaintedCurrent
<1>1. Init => PaintedCurrent
  BY DEF Init, PaintedCurrent, IsPrefix
<1>2. TypeOK /\ PaintedCurrent /\ [Next]_vars => PaintedCurrent'
  <2> SUFFICES ASSUME TypeOK, PaintedCurrent, [Next]_vars PROVE PaintedCurrent'
    OBVIOUS
  <2>1. (\E pkt \in Seq(Bytes) : Show(pkt)) \/ UNCHANGED runVars
    BY HeaderFrames, FixedFrames DEF Next, Captured, vars, runVars
  <2>2. CASE UNCHANGED runVars
    BY <2>2 DEF runVars, PaintedCurrent, IsPrefix
  <2> QED
    BY <2>1, <2>2, PaintedStep
<1> QED
  BY <1>1, <1>2, WatchTypes, PTL DEF Spec

-----------------------------------------------------------------------------
(* The framing *)

\* What was yielded, joined up, and what is waiting.
Taken == FlattenSeq(packets) \o current

\* A framing with a length drops the first bytes, and then takes every one.
FixedInv ==
  framing.length > 0 =>
    /\ skipped = IF Len(stream) <= framing.offset THEN Len(stream) ELSE framing.offset
    /\ Len(stream) <= framing.offset => packets = <<>> /\ current = <<>>
    /\ Taken = SubSeq(stream, framing.offset + 1, Len(stream))

\* A framing with a header drops nothing before the first header is complete: it can
\* begin in any byte that waits. Then it takes every byte from there on, and what waits
\* begins with a header.
HeaderInv ==
  framing.length = 0 =>
    /\ seen_header <=> Found # {}
    /\ ~seen_header => packets = <<>> /\ current = stream
    /\ seen_header => /\ Taken = SubSeq(stream, Min(Found), Len(stream))
                      /\ HeaderAt(current, 1)
                      /\ ~Overlaps(framing.header) =>
                           \A i \in 1..Len(current) : HeaderAt(current, i) => i = 1

SplitInv == FixedInv /\ HeaderInv /\ PacketsWhole

LEMMA Framing ==
  ASSUME TypeOK
  PROVE  /\ framing.header \in Seq(Bytes) /\ framing.length \in Nat /\ framing.offset \in Nat
         /\ framing.length = 0 => framing.header # <<>>
         /\ stream \in Seq(Bytes) /\ current \in Seq(Bytes) /\ packets \in Seq(Seq(Bytes))
         /\ FlattenSeq(packets) \in Seq(Bytes) /\ Taken \in Seq(Bytes)
<1>1. FlattenSeq(packets) \in Seq(Bytes)
  BY FlattenType DEF TypeOK
<1>2. Taken \in Seq(Bytes)
  BY <1>1, ConcatProperties DEF Taken, TypeOK
<1> QED
  BY <1>1, <1>2, FramingsAssumption DEF TypeOK

LEMMA NothingTaken == FlattenSeq(<<>>) = <<>>
BY FlattenJoins

\* A byte that does not end a header waits; one that does ends a packet, if there is
\* one, and the header begins the next.
LEMMA HeaderCases ==
  ASSUME TypeOK, NEW b \in Bytes, HeaderByte(b)
  PROVE  \/ /\ ~IsSuffix(framing.header, Append(current, b))
            /\ current' = Append(current, b)
            /\ UNCHANGED <<seen_header, packets>>
         \/ /\ IsSuffix(framing.header, Append(current, b))
            /\ current' = framing.header /\ seen_header' = TRUE
            /\ \E prefix \in Seq(Bytes) :
                 /\ Append(current, b) = prefix \o framing.header
                 /\ Len(prefix) = Len(current) + 1 - Len(framing.header)
                 /\ Len(prefix) <= Len(current)
                 /\ \A k \in 1..Len(prefix) : prefix[k] = current[k]
                 /\ \/ seen_header /\ prefix # <<>> /\ packets' = Append(packets, prefix)
                    \/ ~(seen_header /\ prefix # <<>>) /\ packets' = packets
<1> DEFINE grown  == Append(current, b)
           header == framing.header
           prefix == SubSeq(grown, 1, Len(grown) - Len(header))
<1>1. framing.length = 0
  BY DEF HeaderByte
<1>2. header \in Seq(Bytes) /\ Len(header) \in Nat \ {0} /\ current \in Seq(Bytes)
  <2>1. header # <<>> /\ header \in Seq(Bytes) /\ current \in Seq(Bytes)
    BY <1>1, Framing
  <2> HIDE DEF header
  <2> QED
    BY <2>1
<1>3. /\ grown \in Seq(Bytes) /\ Len(grown) = Len(current) + 1
      /\ \A k \in 1..Len(current) : grown[k] = current[k]
  BY <1>2
<1>4. \/ /\ IsSuffix(header, grown)
         /\ \/ Complete(prefix) /\ Show(prefix)
            \/ ~Complete(prefix) /\ UNCHANGED runVars
         /\ seen_header' = TRUE
         /\ current' = header
      \/ ~IsSuffix(header, grown) /\ current' = grown /\ UNCHANGED <<seen_header, runVars>>
  BY DEF HeaderByte, RestartPacket
<1> HIDE DEF grown, header
<1>5. ASSUME IsSuffix(header, grown)
      PROVE  /\ prefix \in Seq(Bytes) /\ Len(prefix) = Len(grown) - Len(header)
             /\ \A k \in 1..(Len(grown) - Len(header)) : prefix[k] = grown[k]
             /\ prefix \o header = grown
  BY <1>2, <1>3, <1>5, SplitSuffix
<1>6. ASSUME IsSuffix(header, grown)
      PROVE  /\ prefix \in Seq(Bytes) /\ grown = prefix \o header
             /\ Len(prefix) = Len(current) + 1 - Len(header) /\ Len(prefix) <= Len(current)
             /\ \A k \in 1..Len(prefix) : prefix[k] = current[k]
  <2> HIDE DEF prefix
  <2>1. Len(current) \in Nat /\ Len(prefix) \in Nat
    BY <1>2, <1>5, <1>6
  <2>2. Len(prefix) = Len(current) + 1 - Len(header) /\ Len(prefix) <= Len(current)
    BY <1>2, <1>3, <1>5, <1>6, <2>1
  <2>3. \A k \in 1..Len(prefix) : prefix[k] = grown[k] /\ k \in 1..Len(current)
    BY <1>5, <1>6, <2>1, <2>2
  <2> QED
    BY <1>3, <1>5, <1>6, <2>2, <2>3
<1>7. CASE IsSuffix(header, grown)
  <2>1. \/ seen_header /\ prefix # <<>> /\ packets' = Append(packets, prefix)
        \/ ~(seen_header /\ prefix # <<>>) /\ packets' = packets
    <3> HIDE DEF prefix
    <3> QED
      BY <1>4, <1>7 DEF Complete, Show, runVars
  <2> HIDE DEF prefix
  <2> QED
    BY <1>4, <1>6, <1>7, <2>1 DEF grown, header
<1>8. CASE ~IsSuffix(header, grown)
  BY <1>4, <1>8 DEF runVars, grown, header
<1> QED
  BY <1>7, <1>8

\* Once a header was seen, a byte is the next one taken.
LEMMA HeaderTakes ==
  ASSUME TypeOK, NEW b \in Bytes, HeaderByte(b), seen_header
  PROVE  Taken' = Append(Taken, b) /\ seen_header'
<1> DEFINE header == framing.header
           all == FlattenSeq(packets)
<1>1. /\ header \in Seq(Bytes) /\ current \in Seq(Bytes) /\ packets \in Seq(Seq(Bytes))
      /\ all \in Seq(Bytes)
  BY Framing
<1> HIDE DEF all
<1>2. all \o Append(current, b) = Append(Taken, b)
  BY <1>1, ConcatAppend DEF Taken, all
<1>3. CASE current' = Append(current, b) /\ UNCHANGED <<seen_header, packets>>
  BY <1>2, <1>3 DEF Taken, all
<1>4. ASSUME current' = header, seen_header' = TRUE,
             NEW prefix \in Seq(Bytes), Append(current, b) = prefix \o header,
             \/ prefix # <<>> /\ packets' = Append(packets, prefix)
             \/ prefix = <<>> /\ packets' = packets
      PROVE  Taken' = Append(Taken, b) /\ seen_header'
  <2> HIDE DEF header
  <2>1. Taken' = FlattenSeq(packets') \o header
    BY <1>4 DEF Taken
  <2>2. FlattenSeq(packets') = all \o prefix
    <3>1. CASE packets' = Append(packets, prefix)
      BY <1>1, <3>1, FlattenAppend DEF all
    <3>2. CASE prefix = <<>> /\ packets' = packets
      BY <1>1, <3>2, ConcatEmptySeq DEF all
    <3> QED
      BY <1>4, <3>1, <3>2
  <2>3. (all \o prefix) \o header = all \o (prefix \o header)
    BY <1>1, ConcatAssociative
  <2> QED
    BY <1>2, <1>4, <2>1, <2>2, <2>3
<1> QED
  BY <1>3, <1>4, HeaderCases

LEMMA FoundPlaces ==
  /\ Found = Places(framing.header, stream)
  /\ \A s : HeaderAt(s, 1) <=> At(framing.header, s, 1)
  /\ \A s, i : HeaderAt(s, i) <=> At(framing.header, s, i)
BY DEF Found, Places, HeaderAt, At

\* What waits after a byte begins with a header, once one was seen, and with no other.
LEMMA HeaderWaits ==
  ASSUME TypeOK, HeaderInv, NEW b \in Bytes, HeaderByte(b), seen_header'
  PROVE  LET header == framing.header
         IN /\ At(header, current', 1)
            /\ ~Overlaps(header) => \A i \in 1..Len(current') : At(header, current', i) => i = 1
<1> DEFINE header == framing.header
<1>1. framing.length = 0
  BY DEF HeaderByte
<1>2. header \in Seq(Bytes) /\ header # <<>> /\ Len(header) \in Nat \ {0} /\ current \in Seq(Bytes)
  <2>1. header # <<>> /\ header \in Seq(Bytes) /\ current \in Seq(Bytes)
    BY <1>1, Framing
  <2> HIDE DEF header
  <2> QED
    BY <2>1
<1>3. CASE current' = header
  <2>1. At(header, header, 1)
    <3> HIDE DEF header
    <3> QED
      BY <1>2, SubSeqFull DEF At
  <2>2. ASSUME NEW i \in 1..Len(header), At(header, header, i) PROVE i = 1
    <3> HIDE DEF header
    <3> QED
      BY <1>2, <2>2 DEF At
  <2> QED
    BY <1>3, <2>1, <2>2
<1>4. CASE /\ ~IsSuffix(header, Append(current, b)) /\ current' = Append(current, b)
           /\ UNCHANGED <<seen_header, packets>>
  <2>1. /\ At(header, current, 1)
        /\ ~Overlaps(header) => \A i \in 1..Len(current) : At(header, current, i) => i = 1
    BY <1>1, <1>4, FoundPlaces DEF HeaderInv
  <2> HIDE DEF header
  <2>2. \A i \in Nat \ {0} : At(header, Append(current, b), i) <=> At(header, current, i)
    BY <1>2, <1>4, AtAppend, SMTT(60)
  <2>3. \A i \in Nat \ {0} : At(header, current, i) => i \in 1..Len(current)
    BY <1>2 DEF At
  <2>4. \A i \in 1..Len(current') : i \in Nat \ {0}
    OBVIOUS
  <2>5. At(header, current', 1)
    BY <1>4, <2>1, <2>2
  <2>6. ASSUME ~Overlaps(header), NEW i \in 1..Len(current'), At(header, current', i)
        PROVE  i = 1
    BY <1>4, <2>1, <2>2, <2>3, <2>4, <2>6
  <2> QED
    BY <2>5, <2>6 DEF header
<1> QED
  BY <1>3, <1>4, HeaderCases

\* The first header in the stream is where the bytes of the first packet begin.
LEMMA HeaderStep ==
  ASSUME TypeOK, SplitInv, NEW b \in Bytes, stream' = Append(stream, b), framing' = framing,
         HeaderByte(b)
  PROVE  HeaderInv'
<1> DEFINE header == framing.header
<1>1. framing.length = 0
  BY DEF HeaderByte
<1>2. /\ header \in Seq(Bytes) /\ header # <<>>
      /\ current \in Seq(Bytes) /\ stream \in Seq(Bytes)
  BY <1>1, Framing
<1>3. Found = Places(header, stream) /\ Found' = Places(header, Append(stream, b))
  <2>1. Found' = Places(framing'.header, stream')
    BY DEF Found, Places, HeaderAt, At
  <2> QED
    BY <2>1, FoundPlaces
<1>4. Len(Append(stream, b)) = Len(stream) + 1 /\ Len(stream) \in Nat
  BY <1>2
<1> HIDE DEF header
<1>5. ASSUME seen_header'
      PROVE  /\ HeaderAt(current, 1)'
             /\ (~Overlaps(framing.header) =>
                  \A i \in 1..Len(current) : HeaderAt(current, i) => i = 1)'
  <2>1. /\ At(header, current', 1)
        /\ ~Overlaps(header) => \A i \in 1..Len(current') : At(header, current', i) => i = 1
    BY <1>5, HeaderWaits DEF SplitInv, header
  <2> QED
    BY <2>1 DEF HeaderAt, At, header, Overlaps
<1>6. CASE seen_header
  <2>1. Places(header, stream) # {} /\ Taken = SubSeq(stream, Min(Places(header, stream)), Len(stream))
    BY <1>1, <1>3, <1>6 DEF SplitInv, HeaderInv
  <2>2. Taken' = Append(Taken, b) /\ seen_header'
    BY <1>6, HeaderTakes
  <2> DEFINE m == Min(Places(header, stream))
  <2>3. m \in 1..Len(stream)
        /\ Places(header, Append(stream, b)) # {} /\ Min(Places(header, Append(stream, b))) = m
    <3>1. Places(header, stream) # {}
      BY <2>1
    <3> QED
      BY <1>2, <3>1, FirstPlaceKept, SMTT(60)
  <2> HIDE DEF m
  <2>4. SubSeq(Append(stream, b), m, Len(stream) + 1) = Append(SubSeq(stream, m, Len(stream)), b)
    <3>1. m \in Nat /\ 1 <= m /\ m <= Len(stream) + 1
      BY <1>4, <2>3
    <3> QED
      BY <1>2, <3>1, SliceAppend
  <2>5. Taken' = SubSeq(stream', Min(Found'), Len(stream')) /\ Found' # {}
    BY <1>3, <1>4, <2>1, <2>2, <2>3, <2>4 DEF m
  <2> QED
    BY <1>5, <2>2, <2>5 DEF HeaderInv
<1>7. CASE ~seen_header
  <2>1. packets = <<>> /\ current = stream /\ Places(header, stream) = {}
    BY <1>1, <1>3, <1>7 DEF SplitInv, HeaderInv
  <2> DEFINE a == Append(stream, b)
  <2>2. /\ ~IsSuffix(header, a) => Places(header, a) = {}
        /\ IsSuffix(header, a) => /\ Places(header, a) # {}
                                  /\ SubSeq(a, Min(Places(header, a)), Len(stream) + 1) = header
    <3>1. Places(header, stream) = {}
      BY <2>1
    <3>2. header \in Seq(Bytes) /\ header # <<>> /\ stream \in Seq(Bytes)
      BY <1>2
    <3>3. a = Append(stream, b)
      OBVIOUS
    <3> HIDE DEF a
    <3> QED
      BY <3>1, <3>2, <3>3, FirstPlaceNew
  <2>3. CASE ~IsSuffix(header, Append(stream, b))
    <3>1. current' = stream' /\ packets' = <<>> /\ ~seen_header'
      BY <1>7, <2>1, <2>3, HeaderCases DEF header
    <3>2. Found' = {}
      BY <1>3, <2>2, <2>3
    <3> QED
      BY <3>1, <3>2, <1>7, HeaderCases DEF HeaderInv
  <2>4. CASE IsSuffix(header, Append(stream, b))
    <3>1. current' = header /\ seen_header' = TRUE /\ packets' = <<>>
      BY <1>7, <2>1, <2>4, HeaderCases DEF header
    <3>2. Taken' = header
      BY <1>2, <3>1, NothingTaken, ConcatEmptySeq DEF Taken
    <3>3. Taken' = SubSeq(stream', Min(Found'), Len(stream')) /\ Found' # {}
      BY <1>3, <1>4, <2>2, <2>4, <3>2
    <3> QED
      BY <1>5, <3>1, <3>3 DEF HeaderInv
  <2> QED
    BY <2>3, <2>4
<1> QED
  BY <1>6, <1>7

\* The bytes of the offset are dropped; every other byte is the next one taken.
LEMMA FixedStep ==
  ASSUME TypeOK, SplitInv, NEW b \in Bytes, stream' = Append(stream, b), framing' = framing,
         SkipByte \/ FixedByte(b)
  PROVE  FixedInv'
<1> DEFINE offset == framing.offset
           n == Len(stream)
<1>1. framing.length > 0
  BY DEF SkipByte, FixedByte
<1>2. /\ offset \in Nat /\ stream \in Seq(Bytes) /\ current \in Seq(Bytes)
      /\ packets \in Seq(Seq(Bytes)) /\ FlattenSeq(packets) \in Seq(Bytes)
      /\ skipped \in 0..offset
  BY Framing DEF TypeOK
<1>3. n \in Nat /\ Len(stream') = n + 1
  BY <1>2
<1>4. /\ skipped = IF n <= offset THEN n ELSE offset
      /\ n <= offset => packets = <<>> /\ current = <<>>
      /\ Taken = SubSeq(stream, offset + 1, n)
  BY <1>1 DEF SplitInv, FixedInv
<1> HIDE DEF offset, n
<1>5. CASE SkipByte
  <2>1. skipped < offset /\ skipped' = skipped + 1 /\ packets' = packets /\ current' = current
    BY <1>5 DEF SkipByte, runVars, offset
  <2>2. n <= offset /\ n + 1 <= offset /\ skipped' = n + 1 /\ packets' = <<>> /\ current' = <<>>
    BY <1>2, <1>3, <1>4, <2>1
  <2>3. Taken' = <<>>
    <3>1. Taken' = <<>> \o <<>>
      BY <2>2, NothingTaken DEF Taken
    <3> QED
      BY <3>1
  <2>4. SubSeq(stream', offset + 1, n + 1) = <<>>
    <3>1. offset + 1 > n + 1
      BY <1>2, <1>3, <2>2
    <3>2. offset + 1 \in Int /\ n + 1 \in Int
      BY <1>2, <1>3
    <3> QED
      BY <3>1, <3>2, SubSeqEmpty
  <2> QED
    BY <1>2, <1>3, <2>2, <2>3, <2>4 DEF FixedInv, offset
<1>6. CASE FixedByte(b)
  <2>1. skipped = offset /\ skipped' = offset /\ offset <= n
    BY <1>2, <1>3, <1>4, <1>6 DEF FixedByte, offset
  <2>2. Taken' = Append(Taken, b)
    <3> DEFINE all == FlattenSeq(packets)
               grown == Append(current, b)
    <3>1. grown \in Seq(Bytes) /\ all \o grown = Append(Taken, b)
      BY <1>2, ConcatAppend DEF Taken
    <3>2. \/ packets' = Append(packets, grown) /\ current' = <<>>
          \/ packets' = packets /\ current' = grown
      BY <1>6 DEF FixedByte, Show, runVars
    <3> HIDE DEF all, grown
    <3>3. CASE packets' = Append(packets, grown) /\ current' = <<>>
      <4>1. Taken' = FlattenSeq(packets')
        <5>1. FlattenSeq(packets') = all \o grown /\ all \o grown \in Seq(Bytes)
          BY <1>2, <3>1, <3>3, FlattenAppend, ConcatProperties DEF all
        <5>2. Taken' = FlattenSeq(packets') \o <<>>
          BY <3>3 DEF Taken
        <5> QED
          BY <5>1, <5>2, ConcatEmptySeq
      <4>2. FlattenSeq(packets') = all \o grown
        BY <1>2, <3>1, <3>3, FlattenAppend DEF all
      <4> QED
        BY <3>1, <4>1, <4>2
    <3>4. CASE packets' = packets /\ current' = grown
      BY <3>1, <3>4 DEF Taken, all
    <3> QED
      BY <3>2, <3>3, <3>4
  <2>3. SubSeq(Append(stream, b), offset + 1, n + 1) = Append(SubSeq(stream, offset + 1, n), b)
    <3>1. offset + 1 \in Nat /\ 1 <= offset + 1 /\ offset + 1 <= n + 1
      BY <1>2, <1>3, <2>1
    <3> QED
      BY <1>2, <3>1, SliceAppend DEF n
  <2>4. Taken' = SubSeq(stream', offset + 1, n + 1)
    BY <1>4, <2>2, <2>3
  <2>5. ~(n + 1 <= offset)
    BY <1>2, <1>3, <2>1
  <2> QED
    BY <1>3, <2>1, <2>4, <2>5 DEF FixedInv, offset
<1> QED
  BY <1>5, <1>6

\* A packet that begins with a header which does not overlap itself is over before the
\* next header begins, and holds no other one.
LEMMA HeaderPacket ==
  ASSUME NEW header \in Seq(Bytes), header # <<>>, NEW waits \in Seq(Bytes), NEW b \in Bytes,
         NEW prefix \in Seq(Bytes), prefix # <<>>,
         IsSuffix(header, Append(waits, b)),
         Len(prefix) = Len(waits) + 1 - Len(header), Len(prefix) <= Len(waits),
         \A k \in 1..Len(prefix) : prefix[k] = waits[k],
         At(header, waits, 1), \A i \in 1..Len(waits) : At(header, waits, i) => i = 1,
         ~Overlaps(header)
  PROVE  \A i \in 1..Len(prefix) : At(header, prefix, i) <=> i = 1
<1>1. Len(header) \in Nat \ {0} /\ Len(waits) \in Nat /\ Len(prefix) \in Nat \ {0}
  OBVIOUS
<1>2. \A i \in Nat \ {0} : At(header, prefix, i) <=>
                             At(header, waits, i) /\ i + Len(header) <= Len(prefix) + 1
  BY AtFirstPart, SMTT(60)
<1> DEFINE grown == Append(waits, b)
           last == Len(prefix) + 1
<1>3. \A i \in Nat \ {0} : At(header, grown, i) <=>
                             At(header, waits, i) \/ (i = Len(waits) + 2 - Len(header)
                                                       /\ IsSuffix(header, grown))
  BY AtAppend, SMTT(60)
<1>4. grown \in Seq(Bytes) /\ IsSuffix(header, grown)
  OBVIOUS
<1> HIDE DEF grown
<1>5. At(header, grown, 1) /\ At(header, grown, last)
  <2>1. last \in Nat \ {0} /\ last = Len(waits) + 2 - Len(header) /\ 1 \in Nat \ {0}
    BY <1>1
  <2> QED
    BY <1>3, <1>4, <2>1
<1>6. Len(header) <= Len(prefix)
  <2> SUFFICES ASSUME ~(Len(header) <= Len(prefix)) PROVE FALSE
    OBVIOUS
  <2>1. last \in 2..Len(header)
    BY <1>1
  <2> HIDE DEF last
  <2>2. Overlaps(header)
    BY <1>4, <1>5, <2>1, AtOverlap DEF Overlaps
  <2> QED
    BY <2>2
<1> QED
  <2>1. \A i \in 1..Len(prefix) : i \in Nat \ {0} /\ i \in 1..Len(waits)
    BY <1>1
  <2>2. 1 + Len(header) <= Len(prefix) + 1 /\ 1 \in Nat \ {0}
    BY <1>1, <1>6
  <2> QED
    BY <1>2, <2>1, <2>2

\* What a packet must be in this framing.
Whole(pkt) ==
  IF framing.length > 0 THEN Len(pkt) = framing.length
  ELSE ~Overlaps(framing.header) => \A i \in 1..Len(pkt) : At(framing.header, pkt, i) <=> i = 1

LEMMA WholeIs == PacketsWhole <=> \A k \in DOMAIN packets : Whole(packets[k])
BY DEF PacketsWhole, Whole, HeaderAt, At

LEMMA PacketsStep ==
  ASSUME TypeOK, SplitInv, NEW b \in Bytes, framing' = framing,
         HeaderByte(b) \/ SkipByte \/ FixedByte(b)
  PROVE  PacketsWhole'
<1>1. ASSUME NEW pkt \in Seq(Bytes), Whole(pkt), packets' = Append(packets, pkt)
      PROVE  PacketsWhole'
  <2>1. packets \in Seq(Seq(Bytes))
    BY DEF TypeOK
  <2>2. \A k \in DOMAIN packets' : packets'[k] = pkt \/ (k \in DOMAIN packets /\ packets'[k] = packets[k])
    BY <1>1, <2>1
  <2>3. \A k \in DOMAIN packets' : Whole(packets'[k])
    BY <1>1, <2>2, WholeIs DEF SplitInv
  <2> QED
    BY <2>3 DEF Whole, PacketsWhole, HeaderAt, At, Overlaps
<1>2. CASE packets' = packets
  BY <1>2 DEF SplitInv, PacketsWhole, HeaderAt, Overlaps
<1>3. CASE SkipByte \/ FixedByte(b)
  <2>1. CASE SkipByte
    BY <1>2, <2>1 DEF SkipByte, runVars
  <2>2. CASE FixedByte(b)
    <3>1. CASE packets' = packets
      BY <1>2, <3>1
    <3>2. CASE Full(Append(current, b)) /\ Show(Append(current, b))
      <4>1. Append(current, b) \in Seq(Bytes) /\ packets' = Append(packets, Append(current, b))
        BY <3>2 DEF TypeOK, Show
      <4>2. Whole(Append(current, b))
        BY <2>2, <3>2 DEF FixedByte, Full, Whole
      <4> QED
        BY <1>1, <4>1, <4>2
    <3> QED
      BY <2>2, <3>1, <3>2 DEF FixedByte, runVars
  <2> QED
    BY <1>3, <2>1, <2>2
<1>4. CASE HeaderByte(b)
  <2> DEFINE header == framing.header
  <2>1. framing.length = 0 /\ ~(framing.length > 0)
    BY <1>4 DEF HeaderByte
  <2>2. header \in Seq(Bytes) /\ header # <<>> /\ current \in Seq(Bytes)
    BY <2>1, Framing
  <2>3. ASSUME IsSuffix(header, Append(current, b)), seen_header,
               NEW prefix \in Seq(Bytes), prefix # <<>>,
               Len(prefix) = Len(current) + 1 - Len(header), Len(prefix) <= Len(current),
               \A k \in 1..Len(prefix) : prefix[k] = current[k],
               packets' = Append(packets, prefix)
        PROVE  PacketsWhole'
    <3>1. ASSUME ~Overlaps(header) PROVE \A i \in 1..Len(prefix) : At(header, prefix, i) <=> i = 1
      <4>1. /\ At(header, current, 1)
            /\ \A i \in 1..Len(current) : At(header, current, i) => i = 1
        BY <2>1, <2>3, <3>1, FoundPlaces DEF SplitInv, HeaderInv
      <4> HIDE DEF header
      <4> QED
        BY <2>2, <2>3, <3>1, <4>1, HeaderPacket
    <3>2. Whole(prefix)
      BY <2>1, <3>1 DEF Whole
    <3> QED
      BY <1>1, <2>3, <3>2
  <2> HIDE DEF header
  <2> QED
    BY <1>2, <1>4, <2>3, HeaderCases DEF header
<1> QED
  BY <1>3, <1>4

\* The bytes of the stream from the first header, or the offset, on are the packets and
\* what waits, for every framing and every stream; each packet is whole.
THEOREM StreamIsSplit == Spec => []StreamSplit
<1>1. Init => SplitInv
  <2> SUFFICES ASSUME Init PROVE SplitInv
    OBVIOUS
  <2>1. framing.offset \in Nat /\ framing.length \in Nat
    BY FramingsAssumption DEF Init
  <2>2. Taken = <<>>
    <3>1. Taken = <<>> \o <<>>
      BY NothingTaken DEF Init, Taken
    <3> QED
      BY <3>1
  <2>3. SubSeq(stream, framing.offset + 1, Len(stream)) = <<>>
    <3>1. Len(stream) = 0 /\ framing.offset + 1 > 0 /\ framing.offset + 1 \in Int /\ 0 \in Int
      BY <2>1 DEF Init
    <3> QED
      BY <3>1, SubSeqEmpty
  <2>4. Found = {}
    BY DEF Init, Found
  <2> QED
    BY <2>1, <2>2, <2>3, <2>4 DEF Init, SplitInv, FixedInv, HeaderInv, PacketsWhole
<1>2. TypeOK /\ SplitInv /\ [Next]_vars => SplitInv'
  <2> SUFFICES ASSUME TypeOK, SplitInv, [Next]_vars PROVE SplitInv'
    OBVIOUS
  <2>1. ASSUME NEW b \in Bytes, Captured(b) PROVE SplitInv'
    <3>1. /\ stream' = Append(stream, b) /\ framing' = framing
          /\ HeaderByte(b) \/ SkipByte \/ FixedByte(b)
      BY <2>1 DEF Captured
    <3>2. CASE HeaderByte(b)
      <4>1. framing.length = 0
        BY <3>2 DEF HeaderByte
      <4> QED
        BY <3>1, <3>2, <4>1, HeaderStep, PacketsStep DEF SplitInv, FixedInv
    <3>3. CASE SkipByte \/ FixedByte(b)
      <4>1. framing.length > 0 /\ ~(framing.length = 0)
        BY <3>3 DEF SkipByte, FixedByte
      <4> QED
        BY <3>1, <3>3, <4>1, FixedStep, PacketsStep DEF SplitInv, HeaderInv
    <3> QED
      BY <3>1, <3>2, <3>3
  <2>2. CASE UNCHANGED vars
    BY <2>2 DEF vars, SplitInv, FixedInv, HeaderInv, PacketsWhole, Taken, Found, HeaderAt, Overlaps
  <2> QED
    BY <2>1, <2>2 DEF Next
<1>3. TypeOK /\ SplitInv => StreamSplit
  <2> SUFFICES ASSUME TypeOK, SplitInv PROVE StreamSplit
    OBVIOUS
  <2>1. framing.length \in Nat
    BY Framing
  <2>2. CASE framing.length > 0
    BY <2>2 DEF SplitInv, FixedInv, StreamSplit, Started, Start, Taken
  <2>3. CASE framing.length = 0
    <3>1. Started = (Found # {}) /\ Start = Min(Found)
      BY <2>3 DEF Started, Start
    <3>2. Found # {} => Taken = SubSeq(stream, Min(Found), Len(stream))
      BY <2>3 DEF SplitInv, HeaderInv
    <3> QED
      BY <3>1, <3>2 DEF SplitInv, StreamSplit, Taken
  <2> QED
    BY <2>1, <2>2, <2>3
<1> QED
  BY <1>1, <1>2, <1>3, WatchTypes, PTL DEF Spec

-----------------------------------------------------------------------------
(* The changes *)

\* run keeps the last packet only.
RunInv == values = IF packets = <<>> THEN <<>> ELSE packets[Len(packets)]

\* The changes up to a new packet are the earlier ones, and its own.
LEMMA MoreChanges ==
  ASSUME TypeOK, RunInv, NEW pkt \in Seq(Bytes), Show(pkt), NEW i \in DOMAIN pkt
  PROVE  /\ ChangesOf(i) \subseteq 2..Len(packets)
         /\ ChangesOf(i)' = ChangesOf(i) \cup
              IF packets # <<>> /\ Differs(pkt, i) THEN {Len(packets) + 1} ELSE {}
<1> DEFINE n == Len(packets)
           Changed_(ps, k) == /\ i \in DOMAIN ps[k]
                              /\ i \in DOMAIN ps[k - 1] => ps[k - 1][i] # ps[k][i]
<1>1. /\ packets \in Seq(Seq(Bytes)) /\ n \in Nat /\ packets' = Append(packets, pkt)
      /\ Len(packets') = n + 1 /\ packets'[n + 1] = pkt
      /\ \A k \in 1..n : packets'[k] = packets[k]
      /\ (packets = <<>>) <=> (n = 0)
  BY DEF TypeOK, Show
<1>2. /\ ChangesOf(i) = {k \in 2..n : Changed_(packets, k)}
      /\ ChangesOf(i)' = {k \in 2..(n + 1) : Changed_(packets', k)}
  BY <1>1 DEF ChangesOf
<1> HIDE DEF n
<1>3. ASSUME NEW k \in 2..n PROVE Changed_(packets', k) <=> Changed_(packets, k)
  <2>1. k \in 1..n /\ k - 1 \in 1..n
    BY <1>1
  <2> QED
    BY <1>1, <2>1
<1>4. ASSUME packets # <<>> PROVE Changed_(packets', n + 1) <=> Differs(pkt, i)
  <2>1. n \in 1..n /\ (n + 1) - 1 = n
    BY <1>1, <1>4
  <2>2. values = packets[n] /\ packets'[(n + 1) - 1] = packets[n]
    BY <1>1, <1>4, <2>1 DEF RunInv, n
  <2> QED
    BY <1>1, <2>2 DEF Differs
<1> HIDE DEF Changed_
<1>5. ChangesOf(i)' = ChangesOf(i) \cup IF packets # <<>> /\ Differs(pkt, i) THEN {n + 1} ELSE {}
  <2>1. CASE packets = <<>>
    <3>1. 2..(n + 1) = {} /\ 2..n = {}
      BY <1>1, <2>1
    <3> QED
      BY <1>2, <2>1, <3>1
  <2>2. CASE packets # <<>>
    <3>1. n + 1 \in 2..(n + 1) /\ \A k \in 2..(n + 1) : k \in 2..n \/ k = n + 1
      BY <1>1, <2>2
    <3>2. \A k \in 2..n : k \in 2..(n + 1)
      BY <1>1
    <3>3. \A k : k \in ChangesOf(i)' <=> k \in 2..(n + 1) /\ Changed_(packets', k)
      BY <1>2
    <3>4. \A k : k \in ChangesOf(i) <=> k \in 2..n /\ Changed_(packets, k)
      BY <1>2
    <3> HIDE DEF ChangesOf
    <3> QED
      BY <1>3, <1>4, <2>2, <3>1, <3>2, <3>3, <3>4
  <2> QED
    BY <2>1, <2>2
<1> QED
  BY <1>2, <1>5 DEF n

\* Each byte of the new packet is flagged with the last packet that changed it.
LEMMA FlagsStep ==
  ASSUME TypeOK, RunInv, ChangesNoted, NEW pkt \in Seq(Bytes), Show(pkt)
  PROVE  (\A i \in DOMAIN values : changed_at[i] = Max(ChangesOf(i) \cup {0}))'
<1> SUFFICES ASSUME NEW i \in DOMAIN pkt
             PROVE  changed_at'[i] = Max(ChangesOf(i)' \cup {0})
  BY DEF Show
<1> DEFINE n == Len(packets)
           C == ChangesOf(i)
           D == ChangesOf(i)'
<1>1. /\ C \subseteq 2..n
      /\ D = C \cup IF packets # <<>> /\ Differs(pkt, i) THEN {n + 1} ELSE {}
  BY MoreChanges
<1>2. n \in Nat /\ (packets = <<>> => n = 0)
  BY DEF TypeOK
<1>3. changed_at'[i] = IF ~Differs(pkt, i) THEN changed_at[i]
                       ELSE IF First THEN 0 ELSE n + 1
  BY DEF Show
<1>4. ~Differs(pkt, i) => changed_at[i] = Max(C \cup {0}) /\ packets # <<>>
  BY DEF ChangesNoted, Differs, RunInv
<1> HIDE DEF n, C, D
<1>5. CASE ~Differs(pkt, i)
  BY <1>1, <1>3, <1>4, <1>5 DEF D
<1>6. CASE Differs(pkt, i) /\ packets = <<>>
  <2>1. D \cup {0} = {0}
    <3>1. 2..n = {}
      BY <1>2, <1>6
    <3> QED
      BY <1>1, <1>6, <3>1
  <2>2. Max({0}) = 0
    BY MaxUnique
  <2> QED
    BY <1>3, <1>6, <2>1, <2>2 DEF First, D
<1>7. CASE Differs(pkt, i) /\ packets # <<>>
  <2>1. D \cup {0} \in SUBSET Nat /\ n + 1 \in D \cup {0} /\ \A k \in D \cup {0} : k <= n + 1
    BY <1>1, <1>2, <1>7
  <2>2. Max(D \cup {0}) = n + 1
    BY <2>1, MaxUnique
  <2> QED
    BY <1>3, <1>7, <2>2 DEF First, D
<1> QED
  BY <1>5, <1>6, <1>7

\* The log gets the changes from the packet before to the new one.
LEMMA LogStep ==
  ASSUME TypeOK, RunInv, ChangesNoted, NEW pkt \in Seq(Bytes), Show(pkt)
  PROVE  (log = UNION {Logged(k) : k \in 2..Len(packets)})'
<1> DEFINE n == Len(packets)
           Noted == {Change(pkt, i) :
                       i \in {j \in Watch \cap DOMAIN pkt \cap DOMAIN values : Differs(pkt, j)}}
<1>1. /\ packets \in Seq(Seq(Bytes)) /\ n \in Nat /\ packets' = Append(packets, pkt)
      /\ Len(packets') = n + 1 /\ packets'[n + 1] = pkt
      /\ \A k \in 1..n : packets'[k] = packets[k]
      /\ (packets = <<>>) <=> (n = 0)
  BY DEF TypeOK, Show
<1>2. log' = log \cup Noted /\ log = UNION {Logged(k) : k \in 2..n}
  BY DEF Show, ChangesNoted
<1>3. ASSUME NEW k \in 2..n PROVE Logged(k)' = Logged(k)
  <2>1. k \in 1..n /\ k - 1 \in 1..n
    BY <1>1
  <2>2. packets'[k] = packets[k] /\ packets'[k - 1] = packets[k - 1]
    BY <1>1, <2>1
  <2> QED
    BY <2>2 DEF Logged
<1>4. CASE packets = <<>>
  <2>1. Noted = {} /\ 2..(n + 1) = {} /\ 2..n = {}
    BY <1>1, <1>4 DEF RunInv
  <2>2. Len(packets') = n + 1
    BY <1>1
  <2> HIDE DEF n, Noted
  <2> QED
    BY <1>2, <2>1, <2>2
<1>5. CASE packets # <<>>
  <2>1. values = packets[n] /\ n \in 1..n /\ (n + 1) - 1 = n
    BY <1>1, <1>5 DEF RunInv
  <2>2. packets'[(n + 1) - 1] = values /\ packets'[n + 1] = pkt
    BY <1>1, <2>1
  <2>3. PICK m \in Nat : m = n + 1
    BY <1>1
  <2>4. Noted = Logged(m)'
    <3> DEFINE was == packets'[m - 1]
               is  == packets'[m]
    <3>1. Logged(m)' = {[packet |-> m, byte |-> i, old |-> was[i], new |-> is[i]] :
                          i \in {j \in Watch \cap DOMAIN is \cap DOMAIN was :
                                   was[j] # is[j]}}
      BY DEF Logged
    <3>2. was = values /\ is = pkt
      BY <2>2, <2>3
    <3> HIDE DEF was, is
    <3> QED
      BY <2>3, <3>1, <3>2 DEF Change, Differs
  <2>5. 2..(n + 1) = (2..n) \cup {m}
    BY <1>1, <1>5, <2>3
  <2> HIDE DEF n, Noted, Logged
  <2>6. UNION {Logged(k)' : k \in 2..(n + 1)} = (UNION {Logged(k) : k \in 2..n}) \cup Noted
    <3>1. \A x : x \in UNION {Logged(k)' : k \in 2..(n + 1)}
                   <=> \E k \in 2..(n + 1) : x \in Logged(k)'
      OBVIOUS
    <3>2. \A x : x \in UNION {Logged(k) : k \in 2..n} <=> \E k \in 2..n : x \in Logged(k)
      OBVIOUS
    <3>3. \A x : (\E k \in 2..(n + 1) : x \in Logged(k)')
                   <=> (\E k \in 2..n : x \in Logged(k)) \/ x \in Noted
      BY <1>3, <2>4, <2>5
    <3> QED
      BY <3>1, <3>2, <3>3
  <2> QED
    BY <1>1, <1>2, <2>6
<1> QED
  BY <1>4, <1>5

\* Every byte is highlighted for its last change and the log has the changes of the
\* watched bytes and no others, for every framing and every stream.
THEOREM ChangesAreNoted == Spec => []ChangesNoted
<1>1. Init => RunInv /\ ChangesNoted
  <2> SUFFICES ASSUME Init PROVE RunInv /\ ChangesNoted
    OBVIOUS
  <2>1. 2..Len(packets) = {}
    BY DEF Init
  <2> QED
    BY <2>1 DEF Init, RunInv, ChangesNoted
<1>2. TypeOK /\ RunInv /\ ChangesNoted /\ [Next]_vars => RunInv' /\ ChangesNoted'
  <2> SUFFICES ASSUME TypeOK, RunInv, ChangesNoted, [Next]_vars
               PROVE  RunInv' /\ ChangesNoted'
    OBVIOUS
  <2>1. (\E pkt \in Seq(Bytes) : Show(pkt)) \/ UNCHANGED runVars
    BY HeaderFrames, FixedFrames DEF Next, Captured, vars, runVars
  <2>2. CASE UNCHANGED runVars
    <3>1. packets' = packets /\ values' = values /\ changed_at' = changed_at /\ log' = log
      BY <2>2 DEF runVars
    <3>2. \A i : ChangesOf(i)' = ChangesOf(i)
      BY <3>1 DEF ChangesOf
    <3>3. (UNION {Logged(k) : k \in 2..Len(packets)})' = UNION {Logged(k) : k \in 2..Len(packets)}
      BY <3>1 DEF Logged
    <3>4. ChangesNoted'
      BY <3>1, <3>2, <3>3 DEF ChangesNoted
    <3> QED
      BY <3>1, <3>4 DEF RunInv
  <2>3. ASSUME NEW pkt \in Seq(Bytes), Show(pkt) PROVE RunInv' /\ ChangesNoted'
    <3>1. RunInv'
      <4>1. packets \in Seq(Seq(Bytes)) /\ packets' = Append(packets, pkt) /\ values' = pkt
        BY <2>3 DEF TypeOK, Show
      <4> QED
        BY <4>1 DEF RunInv
    <3> QED
      BY <2>3, <3>1, FlagsStep, LogStep DEF ChangesNoted
  <2> QED
    BY <2>1, <2>2, <2>3
<1> QED
  BY <1>1, <1>2, WatchTypes, PTL DEF Spec
=============================================================================
