--------------------------- MODULE MCKeyCertStore ---------------------------
(***************************************************************************)
(* Instances of KeyCertStore: devices with a pair or with blobs of size    *)
(* zero, and a device whose flash was never written.                       *)
(***************************************************************************)
EXTENDS KeyCertStore

CONSTANT p1

Device(b) == [namespace |-> TRUE, key |-> b, cert |-> b]

FreshStores == {[namespace |-> FALSE, key |-> Missing, cert |-> Missing]}

AllStores == {Device(p1), Device(Empty)} \cup FreshStores
=============================================================================
