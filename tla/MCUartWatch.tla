----------------------------- MODULE MCUartWatch -----------------------------
(* Ways of framing for TLC: headers, among them two different bytes like the default
   one and one that overlaps itself, and packets of a fixed length. *)
EXTENDS UartWatch

Header(h)   == [header |-> h, length |-> 0, offset |-> 0]
Fixed(n, k) == [header |-> <<1>>, length |-> n, offset |-> k]

AllFramings ==
  {Header(<<1>>), Header(<<1, 2>>), Header(<<1, 1>>), Header(<<1, 1, 2>>),
   Fixed(2, 0), Fixed(3, 1)}
=============================================================================
