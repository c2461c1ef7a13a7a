-------------------------- MODULE KeyCertStoreProofs --------------------------
(***************************************************************************)
(* The flash never holds a key and a certificate of different pairs, and a *)
(* complete pair is never replaced, for every number of key pairs and of   *)
(* power cuts. A pair is only generated while the flash holds no           *)
(* certificate (GenerateOK), and the key is written before it.             *)
(***************************************************************************)
EXTENDS KeyCertStore, TLAPS

\* A certificate in the flash is the key's.
CertHasKey == store.cert \in Pairs => store.key = store.cert

Generating == step \in {"generate", "set_key", "set_cert", "commit"}

\* While a pair is generated the flash holds no certificate, and what is written so
\* far is of that pair.
GenerateOK ==
  /\ Generating => store.cert = Empty
  /\ pending.key # Missing <=> step \in {"set_cert", "commit"}
  /\ pending.cert # Missing <=> step = "commit"
  /\ pending.key # Missing => pending.key = new
  /\ pending.cert # Missing => pending.cert = new

\* What the server was given came from the bundle, which is the flash's pair.
ConfOK ==
  /\ step = "running" => bundle.key \in Pairs /\ bundle.cert = bundle.key
  /\ conf # Nothing => conf.key \in Pairs /\ conf.cert = conf.key

IndInv == TypeOK /\ CertHasKey /\ GenerateOK /\ ConfOK

LEMMA InitIndInv == Init => IndInv
BY PairsAssumption, StoresAssumption
   DEF Init, IndInv, TypeOK, CertHasKey, GenerateOK, Generating, ConfOK, Nothing, NoBundle,
       Blobs

LEMMA RestartInv ==
  ASSUME IndInv, Restart, cuts' \in 0..MaxCuts
  PROVE  IndInv'
<1>1. PICK s \in [namespace : BOOLEAN, key : Blobs, cert : Blobs] :
        Survives(s) /\ store' = s
  BY DEF Restart
<1>2. CertHasKey'
  BY <1>1, PairsAssumption
     DEF Survives, IndInv, TypeOK, CertHasKey, GenerateOK, Generating
<1>3. TypeOK'
  BY <1>1, PairsAssumption DEF Restart, TypeOK, Nothing, NoBundle, Blobs
<1>4. GenerateOK' /\ ConfOK'
  BY PairsAssumption DEF Restart, GenerateOK, Generating, ConfOK, Nothing, NoBundle
<1> QED
  BY <1>2, <1>3, <1>4 DEF IndInv

LEMMA NextIndInv == IndInv /\ [Next]_vars => IndInv'
<1> SUFFICES ASSUME IndInv, [Next]_vars PROVE IndInv'
  OBVIOUS
<1> USE PairsAssumption
    DEF IndInv, TypeOK, CertHasKey, GenerateOK, Generating, ConfOK, Nothing, NoBundle, Blobs
<1>1. CASE InitAborts
  BY <1>1 DEF InitAborts
<1>2. CASE AbortRestarts
  BY <1>2, RestartInv DEF AbortRestarts
<1>3. CASE InitReads
  BY <1>3 DEF InitReads, Stored
<1>4. CASE InitGenerates
  BY <1>4 DEF InitGenerates, Stored
<1>5. CASE Generate
  BY <1>5 DEF Generate
<1>6. CASE SetKey
  BY <1>6 DEF SetKey
<1>7. CASE SetCert
  BY <1>7 DEF SetCert
<1>8. CASE Commit
  BY <1>8 DEF Commit
<1>9. CASE Attach
  BY <1>9 DEF Attach
<1>10. CASE StopServer
  BY <1>10 DEF StopServer
<1>11. CASE CutOrFailure
  <2>1. cuts' \in 0..MaxCuts
    BY <1>11, StoresAssumption DEF CutOrFailure
  <2> QED
    BY <1>11, <2>1, RestartInv DEF CutOrFailure
<1>12. CASE UNCHANGED vars
  BY <1>12 DEF vars
<1> QED
  BY <1>1, <1>2, <1>3, <1>4, <1>5, <1>6, <1>7, <1>8, <1>9, <1>10, <1>11, <1>12
     DEF Next, Boot

THEOREM Inductive == Spec => []IndInv
BY InitIndInv, NextIndInv, PTL DEF Spec

\* Types, and the pair being generated is known exactly while it is needed.
THEOREM StoreTypes == Spec => []TypeOK
<1>1. IndInv => TypeOK
  BY DEF IndInv
<1> QED
  BY <1>1, Inductive, PTL

\* The flash never holds a key and a certificate of different pairs, wherever power
\* is cut.
THEOREM FlashPaired == Spec => []StorePaired
<1>1. IndInv => StorePaired
  BY DEF IndInv, CertHasKey, StorePaired
<1> QED
  BY <1>1, Inductive, PTL

\* The server never presents a certificate for another key.
THEOREM ServedPaired == Spec => []ServerPaired
<1>1. IndInv => ServerPaired
  BY DEF IndInv, ConfOK, ServerPaired
<1> QED
  BY <1>1, Inductive, PTL

\* The bundle is complete whenever the server can ask for it.
THEOREM BundleComplete == Spec => []AttachFindsBundle
<1>1. IndInv => AttachFindsBundle
  BY DEF IndInv, ConfOK, AttachFindsBundle
<1> QED
  BY <1>1, Inductive, PTL

\* A complete pair in the flash is never replaced.
THEOREM IdentityStays == Spec => IdentityKept
<1> DEFINE Complete == store.namespace /\ store.key \in Pairs /\ store.cert = store.key
<1>1. IndInv /\ [Next]_vars => (Complete => UNCHANGED store)
  <2> SUFFICES ASSUME IndInv, [Next]_vars, Complete PROVE store' = store
    OBVIOUS
  <2>1. /\ ~Generating
        /\ pending.key = Missing /\ pending.cert = Missing
    BY PairsAssumption DEF IndInv, GenerateOK, Generating
  <2>2. CASE Restart
    BY <2>1, <2>2 DEF Restart, Survives
  <2>3. CASE ~Restart
    BY <2>1, <2>3 DEF Next, Boot, InitAborts, AbortRestarts, InitReads, InitGenerates,
         Generate, SetKey, SetCert, Commit, Attach, StopServer, CutOrFailure, vars,
         Generating
  <2> QED
    BY <2>2, <2>3
<1> QED
  BY <1>1, Inductive, PTL DEF Spec, IdentityKept

-----------------------------------------------------------------------------
(* What the first content of the flash decides *)

\* A device that is first switched on with both blobs, of whatever size, and its
\* namespace has them at every boot and never aborts there: no interrupted generation
\* takes one away. That it then gets through app_main (ProvisionedBoots) rests on the
\* fairness of app_main only.
THEOREM ProvisionedStays == Stored /\ Spec => [](Stored /\ step # "abort")
<1> DEFINE Goes == Stored /\ step # "abort"
<1>1. Stored /\ Init => Goes
  BY DEF Init
<1>2. IndInv /\ Goes /\ [Next]_vars => Goes'
  <2> SUFFICES ASSUME IndInv, Goes, [Next]_vars PROVE Goes'
    OBVIOUS
  <2>1. pending.key # Missing => pending.key \in Pairs
    BY DEF IndInv, TypeOK
  <2>2. pending.cert # Missing => pending.key # Missing
    BY DEF IndInv, GenerateOK
  <2>3. store \in [namespace : BOOLEAN, key : Blobs, cert : Blobs]
    BY DEF IndInv, TypeOK
  <2>4. CASE Restart
    <3>1. PICK s \in [namespace : BOOLEAN, key : Blobs, cert : Blobs] :
            Survives(s) /\ store' = s
      BY <2>4 DEF Restart
    <3>2. s.namespace /\ s.key # Missing /\ s.cert # Missing
      BY <2>2, <2>3, <3>1 DEF Survives, Stored
    <3> QED
      BY <2>4, <3>1, <3>2 DEF Restart, Stored
  <2>5. CASE Commit
    <3>1. pending.key # Missing /\ pending.cert # Missing
      BY <2>5 DEF Commit, IndInv, GenerateOK
    <3> QED
      BY <2>3, <2>5, <3>1 DEF Commit, Stored
  <2>6. CASE ~Restart /\ ~Commit
    BY <2>3, <2>6 DEF Next, Boot, InitAborts, AbortRestarts, InitReads, InitGenerates,
         Generate, SetKey, SetCert, Attach, StopServer, CutOrFailure, vars, Stored
  <2> QED
    BY <2>4, <2>5, <2>6
<1> QED
  BY <1>1, <1>2, Inductive, PTL DEF Spec

\* A device that is first switched on without them aborts at every boot, whatever is
\* cut or fails: it writes nothing, holds no bundle and never configures the server.
\* The run of Boots shows one such device; this is all of them.
THEOREM FreshNeverBoots ==
  ~Stored /\ Spec =>
    [](~Stored /\ step \in {"init", "abort"} /\ conf = Nothing /\ bundle = NoBundle)
<1> DEFINE Fresh == /\ ~Stored /\ step \in {"init", "abort"}
                    /\ conf = Nothing /\ bundle = NoBundle
           NoWrite == pending = Nothing
<1>1. ~Stored /\ Init => Fresh /\ NoWrite
  BY DEF Init
<1>2. Fresh /\ NoWrite /\ [Next]_vars => (Fresh /\ NoWrite)'
  <2> SUFFICES ASSUME Fresh, NoWrite, [Next]_vars PROVE (Fresh /\ NoWrite)'
    OBVIOUS
  <2>1. CASE Restart
    <3>1. store' = store
      BY <2>1 DEF Restart, Survives, Nothing
    <3> QED
      BY <2>1, <3>1 DEF Restart, Stored, Nothing, NoBundle
  <2>2. CASE ~Restart
    BY <2>2 DEF Next, Boot, InitAborts, AbortRestarts, InitReads, InitGenerates,
         Generate, SetKey, SetCert, Commit, Attach, StopServer, CutOrFailure, vars, Stored,
         Nothing, NoBundle
  <2> QED
    BY <2>1, <2>2
<1> QED
  BY <1>1, <1>2, PTL DEF Spec
=============================================================================
