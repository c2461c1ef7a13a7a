---------------------------- MODULE KeyCertStore ----------------------------
(***************************************************************************)
(* The server's TLS key and certificate: the two blobs in the flash (NVS), *)
(* the bundle in RAM, initKeyCertBundleFromNvs at boot, key generation,    *)
(* and attachKeyCertBundleToConfig when the server starts. Power can go    *)
(* at any moment; a failing call of app_main restarts the chip.            *)
(*                                                                         *)
(* A blob is named by the key pair it belongs to. Whether a written blob   *)
(* survives a power cut before nvs_commit is left open, but what was       *)
(* written first is not lost before what was written later.                *)
(***************************************************************************)
EXTENDS Naturals

CONSTANTS
  Pairs,       \* RSA key pairs; a generated one is always new
  Missing,     \* no blob under that name
  Empty,       \* a blob, or a vector, of size zero
  Stores,      \* what the flash of a device may hold when it is first switched on
  ENABLE_SSL,  \* config.h: whether the server asks for the bundle
  MaxCuts      \* bound: power cuts and failed calls of a behaviour

Blobs == Pairs \cup {Missing, Empty}

ASSUME PairsAssumption == Missing \notin Pairs /\ Empty \notin Pairs /\ Missing # Empty

\* No certificate without its key: a device comes with a pair or without one.
ASSUME StoresAssumption ==
  /\ Stores \subseteq [namespace : BOOLEAN, key : Blobs, cert : Blobs]
  /\ \A s \in Stores : s.cert \in Pairs => s.key = s.cert
  /\ ENABLE_SSL \in BOOLEAN
  /\ MaxCuts \in Nat

VARIABLES
  store,    \* the namespace NVS_CERT_NAMESPACE and its blobs
  pending,  \* what the open handle has written, not yet committed
  bundle,   \* the global KeyCertBundle
  step,     \* app_main and the event loop: where they are
  new,      \* the pair being generated
  conf,     \* what the running server was configured with
  cuts

vars == <<store, pending, bundle, step, new, conf, cuts>>

NoBundle == [key |-> Empty, cert |-> Empty]
Nothing  == [key |-> Missing, cert |-> Missing]

Init ==
  /\ store \in Stores
  /\ pending = Nothing
  /\ bundle = NoBundle
  /\ step = "init"
  /\ new = Missing
  /\ conf = Nothing
  /\ cuts = 0

\* The flash after a restart: the first writes of the open handle, or all, or none.
Survives(s) ==
  \/ s = store
  \/ pending.key # Missing /\ s = [store EXCEPT !.key = pending.key]
  \/ pending.cert # Missing /\ s = [store EXCEPT !.key = pending.key, !.cert = pending.cert]

Restart ==
  /\ \E s \in [namespace : BOOLEAN, key : Blobs, cert : Blobs] : Survives(s) /\ store' = s
  /\ pending' = Nothing
  /\ bundle' = NoBundle
  /\ step' = "init"
  /\ new' = Missing
  /\ conf' = Nothing

\* Power is cut, or a call fails and ESP_ERROR_CHECK aborts.
CutOrFailure ==
  /\ cuts < MaxCuts
  /\ cuts' = cuts + 1
  /\ Restart

-----------------------------------------------------------------------------
(* initKeyCertBundleFromNvs *)

\* A namespace that was never written cannot be opened READONLY, and a blob that was
\* never written has no length: both are errors that app_main aborts on.
InitAborts ==
  /\ step = "init"
  /\ ~store.namespace \/ store.key = Missing \/ store.cert = Missing
  /\ step' = "abort"
  /\ UNCHANGED <<store, pending, bundle, new, conf, cuts>>

AbortRestarts ==
  /\ step = "abort"
  /\ Restart
  /\ UNCHANGED cuts

Stored == store.namespace /\ store.key # Missing /\ store.cert # Missing

\* Variant: one blob is enough.
InitReadsEither ==
  /\ step = "init"
  /\ Stored
  /\ store.key # Empty \/ store.cert # Empty
  /\ bundle' = [key |-> store.key, cert |-> store.cert]
  /\ step' = "running"
  /\ UNCHANGED <<store, pending, new, conf, cuts>>

InitReads ==
  /\ step = "init"
  /\ Stored
  /\ store.key # Empty /\ store.cert # Empty
  /\ bundle' = [key |-> store.key, cert |-> store.cert]
  /\ step' = "running"
  /\ UNCHANGED <<store, pending, new, conf, cuts>>

\* Variant: a new pair at every boot.
InitGeneratesAlways ==
  /\ step = "init"
  /\ Stored
  /\ bundle' = NoBundle
  /\ step' = "generate"
  /\ UNCHANGED <<store, pending, new, conf, cuts>>

InitGenerates ==
  /\ step = "init"
  /\ Stored
  /\ store.key = Empty \/ store.cert = Empty
  /\ bundle' = NoBundle
  /\ step' = "generate"
  /\ UNCHANGED <<store, pending, new, conf, cuts>>

-----------------------------------------------------------------------------
(* generateNewKeyCertBundle, up to each of its writes *)

Generate ==
  /\ step = "generate"
  /\ \E p \in Pairs \ {store.key, store.cert} : new' = p
  /\ step' = "set_key"
  /\ UNCHANGED <<store, pending, bundle, conf, cuts>>

\* nvs_open READWRITE creates the namespace.
SetKey ==
  /\ step = "set_key"
  /\ store' = [store EXCEPT !.namespace = TRUE]
  /\ pending' = [pending EXCEPT !.key = new]
  /\ step' = "set_cert"
  /\ UNCHANGED <<bundle, new, conf, cuts>>

\* Variant: the certificate is left for a later run.
SetCertLater ==
  /\ step = "set_cert"
  /\ step' = "commit"
  /\ UNCHANGED <<store, pending, bundle, new, conf, cuts>>

SetCert ==
  /\ step = "set_cert"
  /\ pending' = [pending EXCEPT !.cert = new]
  /\ step' = "commit"
  /\ UNCHANGED <<store, bundle, new, conf, cuts>>

\* Variant: the generated pair is not released.
CommitKeepsNew ==
  /\ step = "commit"
  /\ store' = [store EXCEPT !.key = pending.key, !.cert = pending.cert]
  /\ pending' = Nothing
  /\ bundle' = [key |-> new, cert |-> new]
  /\ step' = "running"
  /\ UNCHANGED <<new, conf, cuts>>

\* nvs_commit, and the copy into the global bundle.
Commit ==
  /\ step = "commit"
  /\ store' = [store EXCEPT !.key = pending.key, !.cert = pending.cert]
  /\ pending' = Nothing
  /\ bundle' = [key |-> new, cert |-> new]
  /\ new' = Missing
  /\ step' = "running"
  /\ UNCHANGED <<conf, cuts>>

-----------------------------------------------------------------------------
(* The server *)

\* attachKeyCertBundleToConfig. Its branch for an empty bundle would generate a new
\* pair; AttachFindsBundle says that it is never taken.
Attach ==
  /\ ENABLE_SSL
  /\ step = "running"
  /\ bundle.key # Empty /\ bundle.cert # Empty
  /\ conf' = bundle
  /\ UNCHANGED <<store, pending, bundle, step, new, cuts>>

StopServer ==
  /\ conf # Nothing
  /\ conf' = Nothing
  /\ UNCHANGED <<store, pending, bundle, step, new, cuts>>

Boot == \/ InitAborts \/ AbortRestarts \/ InitReads \/ InitGenerates
        \/ Generate \/ SetKey \/ SetCert \/ Commit

Next == Boot \/ Attach \/ StopServer \/ CutOrFailure

Spec == Init /\ [][Next]_vars

\* app_main runs until it is interrupted; nothing is assumed of the server's starts.
FairSpec == Spec /\ WF_vars(Boot)

-----------------------------------------------------------------------------
(* Properties *)

\* Every variable has its type, and the pair being generated is known exactly while
\* it is needed. Code: the globals and locals of key_cert_manager.cpp.
TypeOK ==
  /\ store \in [namespace : BOOLEAN, key : Blobs, cert : Blobs]
  /\ pending \in [key : Pairs \cup {Missing}, cert : Pairs \cup {Missing}]
  /\ bundle \in [key : Blobs, cert : Blobs]
  /\ step \in {"init", "abort", "generate", "set_key", "set_cert", "commit", "running"}
  /\ new \in Pairs \cup {Missing}
  /\ conf \in [key : Blobs, cert : Blobs]
  /\ cuts \in 0..MaxCuts
  /\ step \in {"set_key", "set_cert", "commit"} <=> new # Missing

\* Wherever power is cut between the two blobs, the flash never holds a key and a
\* certificate of different pairs. Code: the order of the writes, and generating only
\* when a blob is empty.
StorePaired == store.key \in Pairs /\ store.cert \in Pairs => store.key = store.cert

\* The server never presents a certificate for another key, and never starts with an
\* empty one. (The bundle is only used with ENABLE_SSL, which is false as shipped.)
ServerPaired == conf # Nothing => conf.key \in Pairs /\ conf.cert = conf.key

\* Once the tasks run the bundle is complete, so attachKeyCertBundleToConfig never
\* spends minutes generating a key inside the event loop.
AttachFindsBundle == step = "running" => bundle.key \in Pairs /\ bundle.cert = bundle.key

\* A device keeps its identity: a complete pair in the flash is never replaced,
\* whatever is cut or fails.
IdentityKept ==
  [][store.namespace /\ store.key \in Pairs /\ store.cert = store.key =>
       UNCHANGED store]_vars

\* "Size is zero, certs don't exist yet" and "KeyCert Bundle not found in NVS!
\* Creating...": once power stays on, a device gets through app_main, whether it has a
\* pair or not.
Boots == <>[](step = "running")

\* A device that comes with both blobs, of whatever size, gets through app_main once
\* power stays on: no interrupted generation leaves a flash that it aborts on.
ProvisionedBoots == Stored => Boots
=============================================================================
