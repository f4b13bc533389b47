----------------------- MODULE FizzServerStartupProofs -----------------------
(***************************************************************************)
(* Proofs about the start-up of the fizz demonstration server.  Each block *)
(* of fizzServerCommand establishes a fact about the options that every    *)
(* later block keeps: past the sanity checks -cert and -key come together  *)
(* and -delegatedcred has both, past the client-auth block a verifier      *)
(* exists when one is asked for, past the ECH block the decrypter is the   *)
(* one the options ask for, past the certificate block a delegated         *)
(* credential has its signer, and the decrypter is either the default one *)
(* or pairs its KEM with a key exchange of that group.  StartupInv        *)
(* collects these facts; it is inductive, and the start-up properties the *)
(* runs check follow from it.                                             *)
(***************************************************************************)
EXTENDS FizzServerStartup, TLAPS

\* The blocks after which each fact holds.
PastSanity     == {"clientAuth", "ech", "compress", "cert", "fallback", "running"}
PastClientAuth == {"ech", "compress", "cert", "fallback", "running"}
PastECH        == {"compress", "cert", "fallback", "running"}
PastCert       == {"fallback", "running"}

\* A decrypter built from the files pairs the KEM of its config with a key
\* exchange of that group; any other decrypter is setupDefaultDecrypter's.
DecrypterBuilt ==
    /\ decrypter.src = "file" => KexGroup[decrypter.kex] = decrypter.kem
    /\ decrypter.src = "default" => decrypter = DefaultDecrypter

\* The decrypter the ECH options ask for.
WantedDecrypterSrc ==
    IF opts.echConfigs THEN "file" ELSE IF opts.ech THEN "default" ELSE "none"

\* TypeOK without the two compression lists, whose element type is what
\* SelectSeq computes (an induction over the list).
StateTypeOK ==
    /\ pc \in {"parse", "sanity", "clientAuth", "ech", "compress", "cert", "fallback"} \cup Outcomes
    /\ opts \in Options
    /\ verifier \in BOOLEAN
    /\ decrypter \in Decrypters
    /\ cert \in CertKinds
    /\ sslContext \in BOOLEAN
    /\ credKeyType \in KeyTypes \cup {"none", "unknown"}

StartupInv ==
    /\ StateTypeOK
    /\ pc \in {"parse", "sanity", "clientAuth", "ech"} => decrypter = NoDecrypter
    /\ pc \in {"parse", "sanity", "clientAuth", "ech", "compress", "cert"} => cert = NoCert
    /\ pc \in PastSanity => opts.cert = opts.key /\ (opts.cred => opts.cert)
    /\ pc \in PastClientAuth => (opts.clientAuth # "None" => verifier)
    /\ pc \in PastECH => decrypter.src = WantedDecrypterSrc
    /\ pc \in PastCert => (opts.cred => cert.kind = "delegated")
    /\ pc = "running" => (opts.fallback => sslContext /\ opts.cert)
    /\ DecrypterBuilt
    /\ SignerMatchesKeyType

-----------------------------------------------------------------------------
(* The builders.                                                           *)

\* createKeyExchange either fails (nullptr for an unsupported KEM, a throw
\* from the setter for an unreadable key file) or builds a key exchange of
\* the group of the KEM it was asked for.
LEMMA CreateKeyExchangeGroup ==
    ASSUME NEW kem, NEW readable
    PROVE  LET kex == CreateKeyExchange(kem, readable)
           IN  \/ kex \in {"nullptr", "throws"}
               \/ kex \in KexKinds /\ KexGroup[kex] = kem
BY DEF CreateKeyExchange, KexKinds, KexGroup

\* setupDecrypterFromInputs ends in one of its three outcomes, and when it
\* succeeds the decrypter pairs the KEM of the first config with a key
\* exchange of that group.
LEMMA DecrypterOutcome ==
    ASSUME NEW jsonOk, NEW parseOk, NEW n, NEW kem \in KemIds, NEW readable
    PROVE  LET r == SetupDecrypterFromInputs(jsonOk, parseOk, n, kem, readable)
           IN  /\ r.outcome \in {"null", "throws", "ok"}
               /\ r.outcome = "ok" =>
                     /\ r.dec \in Decrypters
                     /\ r.dec.src = "file"
                     /\ KexGroup[r.dec.kex] = r.dec.kem
<1> DEFINE kex == CreateKeyExchange(kem, readable)
           r == SetupDecrypterFromInputs(jsonOk, parseOk, n, kem, readable)
<1>1. \/ kex \in {"nullptr", "throws"}
      \/ kex \in KexKinds /\ KexGroup[kex] = kem
  BY CreateKeyExchangeGroup
<1>2. CASE kex \in {"nullptr", "throws"}
  BY <1>2 DEF SetupDecrypterFromInputs
<1>3. CASE kex \in KexKinds /\ KexGroup[kex] = kem
  <2>1. kex \notin {"nullptr", "throws"}
    BY <1>3 DEF KexKinds, KexGroup
  <2>2. r.outcome = "ok" => r.dec = [src |-> "file", kem |-> kem, kex |-> kex]
    BY <2>1 DEF SetupDecrypterFromInputs
  <2>3. QED
    BY <1>3, <2>1, <2>2 DEF SetupDecrypterFromInputs, Decrypters
<1>4. QED
  BY <1>1, <1>2, <1>3

\* The delegated-credential switch picks the signer of the key's own type.
LEMMA SelectSignerOwnType ==
    \A kt \in SignerKinds : SelectSigner(kt) = kt
BY DEF SelectSigner, SignerKinds

\* setupDefaultDecrypter's decrypter is a well-formed one.
LEMMA DefaultDecrypterTyped ==
    DefaultDecrypter \in Decrypters /\ DefaultDecrypter.src = "default"
BY StartupAssumption DEF DefaultDecrypter, Decrypters, KexKinds, KexGroup

-----------------------------------------------------------------------------
(* The inductive invariant.                                                *)

LEMMA InitStartupInv == Init => StartupInv
<1> SUFFICES ASSUME Init PROVE StartupInv
  OBVIOUS
<1>1. NoDecrypter \in Decrypters /\ NoCert \in CertKinds
  BY DEF Decrypters, CertKinds, NoCert
<1>2. StateTypeOK
  BY <1>1 DEF Init, StateTypeOK, Outcomes
<1>3. DecrypterBuilt /\ SignerMatchesKeyType
  BY DEF Init, NoDecrypter, NoCert, DecrypterBuilt, SignerMatchesKeyType
<1>4. QED
  BY <1>2, <1>3 DEF Init, StartupInv, PastSanity, PastClientAuth, PastECH,
     PastCert

\* The ECH block: whichever way it ends, the decrypter it leaves is the
\* default one or one built from the files, and when start-up
\* goes on it is the decrypter the options ask for.
LEMMA ECHStep ==
    ASSUME StartupInv, SetupECH
    PROVE  StartupInv'
<1> USE DEF PastSanity, PastClientAuth, PastECH, PastCert
<1> DEFINE withDefault == IF opts.ech THEN DefaultDecrypter ELSE decrypter
<1>0. /\ pc = "ech" /\ decrypter = NoDecrypter /\ opts \in Options
      /\ UNCHANGED <<opts, verifier, compressors, finalAlgos, cert, sslContext,
                     credKeyType>>
  BY DEF SetupECH, StartupInv, StateTypeOK
<1>1. /\ withDefault \in Decrypters
      /\ withDefault.src # "none" => withDefault = DefaultDecrypter
      /\ withDefault.src = IF opts.ech THEN "default" ELSE "none"
  BY <1>0, DefaultDecrypterTyped DEF NoDecrypter, Decrypters
\* Whatever decrypter the block leaves and wherever it goes, the rest of
\* StartupInv is untouched.
<1>2. ASSUME pc' \in {"exit1", "abort", "compress"},
             decrypter' \in Decrypters,
             DecrypterBuilt',
             pc' = "compress" => decrypter'.src = WantedDecrypterSrc
      PROVE  StartupInv'
  BY <1>0, <1>2 DEF StartupInv, StateTypeOK, Outcomes, SignerMatchesKeyType,
     WantedDecrypterSrc
<1>3. ASSUME decrypter' = withDefault, pc' \in {"exit1", "abort"}
      PROVE  StartupInv'
  BY <1>1, <1>2, <1>3 DEF DecrypterBuilt
<1>4. ASSUME decrypter' = withDefault, pc' = "compress", ~opts.echConfigs
      PROVE  StartupInv'
  BY <1>0, <1>1, <1>2, <1>4 DEF WantedDecrypterSrc, DecrypterBuilt
<1>5. ASSUME pc' = "compress", opts.echConfigs,
             decrypter' \in Decrypters, decrypter'.src = "file",
             KexGroup[decrypter'.kex] = decrypter'.kem
      PROVE  StartupInv'
  BY <1>0, <1>2, <1>5 DEF WantedDecrypterSrc, DecrypterBuilt
<1>6. CASE opts.echConfigs # opts.echKey
  BY <1>0, <1>3, <1>6 DEF SetupECH, Exit1, Options
<1>7. CASE ~opts.echConfigs /\ ~opts.echKey
  BY <1>0, <1>4, <1>7 DEF SetupECH, Goto, Options
<1>8. CASE opts.echConfigs /\ opts.echKey
  <2>1. PICK jsonOk, parseOk \in BOOLEAN, n \in 0..2, kem \in KemIds,
             readable \in BOOLEAN :
          LET r == SetupDecrypterFromInputs(jsonOk, parseOk, n, kem, readable) IN
          CASE r.outcome = "null"   -> Exit1 /\ decrypter' = withDefault
            [] r.outcome = "throws" -> Abort /\ decrypter' = withDefault
            [] r.outcome = "ok"     -> Goto("compress") /\ decrypter' = r.dec
    BY <1>8 DEF SetupECH
  <2> DEFINE r == SetupDecrypterFromInputs(jsonOk, parseOk, n, kem, readable)
  <2>2. /\ r.outcome \in {"null", "throws", "ok"}
        /\ r.outcome = "ok" =>
              /\ r.dec \in Decrypters
              /\ r.dec.src = "file"
              /\ KexGroup[r.dec.kex] = r.dec.kem
    BY DecrypterOutcome
  <2>3. CASE r.outcome \in {"null", "throws"}
    BY <1>3, <2>1, <2>3 DEF Exit1, Abort
  <2>4. CASE r.outcome = "ok"
    BY <1>5, <1>8, <2>1, <2>2, <2>4 DEF Goto
  <2>5. QED
    BY <2>2, <2>3, <2>4
<1>9. QED
  BY <1>0, <1>6, <1>7, <1>8 DEF Options

\* The certificate block: a delegated credential gets the signer of its
\* key's type, and start-up goes on only with a certificate.
LEMMA CertStep ==
    ASSUME StartupInv, SetupCert
    PROVE  StartupInv'
<1> USE DEF PastSanity, PastClientAuth, PastECH, PastCert
<1>0. /\ pc = "cert" /\ cert = NoCert /\ opts \in Options
      /\ UNCHANGED <<opts, verifier, decrypter, compressors, finalAlgos, sslContext>>
  BY DEF SetupCert, StartupInv, StateTypeOK
\* Wherever the block goes, the facts of the earlier blocks still hold.
<1>1. ASSUME pc' \in {"exit1", "abort", "fallback"},
             cert' \in CertKinds,
             credKeyType' \in KeyTypes \cup {"none", "unknown"},
             SignerMatchesKeyType',
             pc' = "fallback" => (opts.cred => cert'.kind = "delegated")
      PROVE  StartupInv'
  BY <1>0, <1>1 DEF StartupInv, StateTypeOK, Outcomes, DecrypterBuilt,
     WantedDecrypterSrc
\* A failed read, parse or credential stops with the certificate unset.
<1>2. ASSUME pc' \in {"exit1", "abort"}, UNCHANGED <<cert, credKeyType>>
      PROVE  StartupInv'
  <2>1. NoCert \in CertKinds /\ NoCert.kind = "none"
    BY DEF NoCert, CertKinds
  <2>2. QED
    BY <1>0, <1>1, <1>2, <2>1 DEF SignerMatchesKeyType, StartupInv, StateTypeOK
<1>3. CASE ~opts.cert
  <2>1. /\ cert' = [kind |-> "selfSigned", signer |-> NoSigner]
        /\ pc' = "fallback" /\ credKeyType' = credKeyType
    BY <1>3 DEF SetupCert, Goto
  <2>2. ~opts.cred
    BY <1>0, <1>3 DEF StartupInv
  <2>3. QED
    BY <1>0, <1>1, <2>1, <2>2 DEF CertKinds, SignerMatchesKeyType, StartupInv,
       StateTypeOK
<1>4. CASE opts.cert
  <2>1. PICK certRead, keyRead, pemOk \in BOOLEAN :
          \/ /\ ~(certRead /\ keyRead)
             /\ Exit1 /\ UNCHANGED <<cert, credKeyType>>
          \/ /\ certRead /\ keyRead /\ ~opts.cred /\ ~pemOk
             /\ Abort /\ UNCHANGED <<cert, credKeyType>>
          \/ /\ certRead /\ keyRead /\ ~opts.cred /\ pemOk
             /\ cert' = [kind |-> "self", signer |-> NoSigner]
             /\ Goto("fallback") /\ UNCHANGED credKeyType
          \/ /\ certRead /\ keyRead /\ opts.cred
             /\ \E credRead \in BOOLEAN :
                  \/ /\ ~credRead
                     /\ Exit1 /\ UNCHANGED <<cert, credKeyType>>
                  \/ /\ credRead /\ ~pemOk
                     /\ Abort /\ UNCHANGED <<cert, credKeyType>>
                  \/ /\ credRead /\ pemOk
                     /\ \E credOk \in BOOLEAN, kt \in KeyTypes \cup {"unknown"} :
                          /\ credKeyType' = kt
                          /\ IF credOk /\ kt # "unknown"
                               THEN /\ cert' = [kind |-> "delegated",
                                                signer |-> SelectSigner(kt)]
                                    /\ Goto("fallback")
                               ELSE Exit1 /\ UNCHANGED cert
    BY <1>4 DEF SetupCert
  <2>2. CASE (Exit1 \/ Abort) /\ UNCHANGED <<cert, credKeyType>>
    BY <1>2, <2>2 DEF Exit1, Abort
  <2>3. CASE /\ ~opts.cred
             /\ cert' = [kind |-> "self", signer |-> NoSigner]
             /\ Goto("fallback") /\ UNCHANGED credKeyType
    BY <1>0, <1>1, <2>3 DEF Goto, CertKinds, SignerMatchesKeyType, StartupInv,
       StateTypeOK
  <2>4. ASSUME NEW credOk \in BOOLEAN, NEW kt \in KeyTypes \cup {"unknown"},
               credKeyType' = kt,
               IF credOk /\ kt # "unknown"
                 THEN /\ cert' = [kind |-> "delegated", signer |-> SelectSigner(kt)]
                      /\ Goto("fallback")
                 ELSE Exit1 /\ UNCHANGED cert
        PROVE  StartupInv'
    <3>1. CASE credOk /\ kt # "unknown"
      <4>1. kt \in SignerKinds /\ SelectSigner(kt) = kt
        BY <3>1, StartupAssumption, SelectSignerOwnType
      <4>2. cert' = [kind |-> "delegated", signer |-> kt] /\ pc' = "fallback"
        BY <2>4, <3>1, <4>1 DEF Goto
      <4>3. QED
        BY <1>1, <2>4, <4>1, <4>2 DEF CertKinds, SignerMatchesKeyType
    <3>2. CASE ~(credOk /\ kt # "unknown")
      <4>1. NoCert \in CertKinds /\ NoCert.kind = "none"
        BY DEF NoCert, CertKinds
      <4>2. QED
        BY <1>0, <1>1, <2>4, <3>2, <4>1 DEF Exit1, SignerMatchesKeyType
    <3>3. QED
      BY <3>1, <3>2
  <2>5. QED
    BY <2>1, <2>2, <2>3, <2>4
<1>5. QED
  BY <1>0, <1>3, <1>4 DEF Options

\* Every block of fizzServerCommand keeps StartupInv.
LEMMA StepStartupInv == StartupInv /\ [Next]_vars => StartupInv'
<1> SUFFICES ASSUME StartupInv, [Next]_vars PROVE StartupInv'
  OBVIOUS
<1> USE DEF PastSanity, PastClientAuth, PastECH, PastCert
<1>0. opts \in Options
  BY DEF StartupInv, StateTypeOK
<1>1. CASE ParseArguments \/ SanityCheck
  BY <1>0, <1>1 DEF ParseArguments, SanityCheck, Options, StartupInv,
     StateTypeOK, Outcomes, DecrypterBuilt, SignerMatchesKeyType
<1>2. CASE SetupVerifier
  <2>1. /\ pc = "clientAuth"
        /\ \/ pc' = "exit1" /\ verifier' = verifier
           \/ pc' = "ech" /\ (opts.clientAuth # "None" => verifier')
        /\ verifier' \in BOOLEAN
        /\ UNCHANGED <<opts, decrypter, compressors, finalAlgos, cert,
                       sslContext, credKeyType>>
    BY <1>0, <1>2 DEF SetupVerifier, Goto, Exit1, StartupInv, StateTypeOK
  <2>2. QED
    BY <2>1 DEF StartupInv, StateTypeOK, Outcomes, DecrypterBuilt,
       SignerMatchesKeyType
<1>3. CASE SetupECH
  BY <1>3, ECHStep
<1>4. CASE SetupCompressors
  <2>1. /\ pc = "compress" /\ pc' = "cert"
        /\ UNCHANGED <<opts, verifier, decrypter, cert, sslContext, credKeyType>>
    BY <1>4 DEF SetupCompressors, Goto
  <2>2. QED
    BY <2>1 DEF StartupInv, StateTypeOK, Outcomes, DecrypterBuilt,
       SignerMatchesKeyType, WantedDecrypterSrc
<1>5. CASE SetupCert
  BY <1>5, CertStep
<1>6. CASE SetupFallbackAndStart
  <2>1. /\ pc = "fallback"
        /\ \/ pc' = "exit1" /\ sslContext' = sslContext
           \/ /\ pc' \in {"running", "abort"}
              /\ sslContext' = opts.fallback
              /\ opts.fallback => opts.cert
        /\ UNCHANGED <<opts, verifier, decrypter, compressors, finalAlgos,
                       cert, credKeyType>>
    BY <1>0, <1>6 DEF SetupFallbackAndStart, Exit1, Options
  <2>2. QED
    BY <1>0, <2>1 DEF Options, StartupInv, StateTypeOK, Outcomes, DecrypterBuilt,
       SignerMatchesKeyType, WantedDecrypterSrc
<1>7. CASE UNCHANGED vars
  BY <1>7 DEF vars, StartupInv, StateTypeOK, DecrypterBuilt,
     SignerMatchesKeyType, WantedDecrypterSrc
<1>8. QED
  BY <1>1, <1>2, <1>3, <1>4, <1>5, <1>6, <1>7 DEF Next

-----------------------------------------------------------------------------
(* The start-up properties.                                                *)

\* StartupInv holds in every state of every start-up.
THEOREM StartupInvariant == Spec => []StartupInv
BY InitStartupInv, StepStartupInv, PTL DEF Spec

\* A server that reaches evb.loop() runs with the configuration its options
\* ask for: fallback only with an explicit certificate and key, a delegated
\* credential when -delegatedcred is given, a verifier when client
\* certificates are requested, and the ECH decrypter of the files, else the
\* default one with -ech, else none (fizzServerCommand, lines 772-1025).
THEOREM RunningConfigSoundHolds == Spec => []RunningConfigSound
<1>1. StartupInv => RunningConfigSound
  BY DEF StartupInv, RunningConfigSound, WantedDecrypterSrc, PastSanity,
     PastClientAuth, PastECH, PastCert
<1>2. QED
  BY <1>1, StartupInvariant, PTL

\* The ECH decrypter's key exchange implements the KEM of its config.  For
\* setupDecrypterFromInputs this holds of every KEM id, through
\* createKeyExchange's switch (lines 535-567).  setupDefaultDecrypter
\* pairs a fixed X25519 key pair with getDefaultECHConfigs()[0] (lines
\* 617-633), which is right only when that default config is an x25519
\* one: that is the hypothesis.
THEOREM KexMatchesKemHolds ==
    ASSUME DefaultECHKem = "x25519"
    PROVE  Spec => []KexMatchesKem
<1>1. StartupInv => KexMatchesKem
  <2> SUFFICES ASSUME StartupInv, decrypter.src # "none"
               PROVE  KexGroup[decrypter.kex] = decrypter.kem
    BY DEF KexMatchesKem
  <2>1. decrypter \in Decrypters
    BY DEF StartupInv, StateTypeOK
  <2>2. decrypter.src \in {"file", "default"}
    BY <2>1 DEF Decrypters, NoDecrypter
  <2>3. CASE decrypter.src = "file"
    BY <2>3 DEF StartupInv, DecrypterBuilt
  <2>4. CASE decrypter.src = "default"
    BY <2>4 DEF StartupInv, DecrypterBuilt, DefaultDecrypter, KexGroup
  <2>5. QED
    BY <2>2, <2>3, <2>4
<1>2. QED
  BY <1>1, StartupInvariant, PTL

\* A delegated credential is signed by the implementation of its own key
\* type (the switch on CertUtils::getKeyType, lines 930-979).
THEOREM SignerMatchesKeyTypeHolds == Spec => []SignerMatchesKeyType
<1>1. StartupInv => SignerMatchesKeyType
  BY DEF StartupInv
<1>2. QED
  BY <1>1, StartupInvariant, PTL

\* Every variable of start-up keeps its type, except the element type of
\* the two compression lists (see StateTypeOK).
THEOREM StartupStateTyped == Spec => []StateTypeOK
<1>1. StartupInv => StateTypeOK
  BY DEF StartupInv
<1>2. QED
  BY <1>1, StartupInvariant, PTL

=============================================================================
