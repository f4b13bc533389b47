------------------------- MODULE FizzServerStartup -------------------------
(***************************************************************************)
(* Start-up of the fizz demonstration server: fizzServerCommand after the  *)
(* arguments are parsed (src/fizz/tool/FizzServerCommand.cpp), with the    *)
(* ECH decrypter builders (createKeyExchange, setupDecrypterFromInputs,    *)
(* setupDefaultDecrypter) and the delegated-credential signer selection.   *)
(* It is a sequential program: `pc' names the next block of the function;  *)
(* the options are chosen in Init, the outcome of every file read or parse *)
(* when the block that performs it runs.  The program ends in "running"    *)
(* (evb.loop(), modelled by FizzServer), "exit1" (logged, return 1) or     *)
(* "abort" (an exception escapes fizzServerCommand).                       *)
(***************************************************************************)
EXTENDS Naturals, Sequences

CONSTANTS
    KemIds,          \* hpke::KEMId values getKEMId can return
    KeyTypes,        \* KeyType values CertUtils::getKeyType can return
    CompAlgos,       \* certificate compression algorithms -certcompression parses
    BuiltCompressors,\* algorithms with a compressor in this build (zlib, +brotli, +zstd)
    AlgoLists,       \* the -certcompression lists to try
    DefaultECHKem    \* KEM of getDefaultECHConfigs()[0]

\* The key exchanges createKeyExchange can build, each with the group it
\* implements (OpenSSLECKeyExchange<P256>, <P384>, <P521> and
\* X25519KeyExchange; the classes are outside this file).
KexGroup == [EC_P256 |-> "secp256r1", EC_P384 |-> "secp384r1",
             EC_P521 |-> "secp521r1", X25519 |-> "x25519"]
KexKinds == DOMAIN KexGroup

\* The certificate compressors, each with the algorithm its
\* getAlgorithm() reports (the classes are outside this file).
CompressorAlgorithm == [Zlib |-> "zlib", Brotli |-> "brotli", Zstd |-> "zstd"]
CompressorKinds == DOMAIN CompressorAlgorithm

\* The signer each credential key type gets (SelfDelegatedCredentialImpl<T>).
SignerKinds == {"RSA", "P256", "P384", "P521", "ED25519"}

ASSUME StartupAssumption ==
    /\ {KexGroup[k] : k \in KexKinds} \subseteq KemIds
    /\ KeyTypes \subseteq SignerKinds
    /\ "zlib" \in BuiltCompressors
    /\ BuiltCompressors \subseteq CompAlgos \cap {"zlib", "brotli", "zstd"}
    /\ AlgoLists \subseteq Seq(CompAlgos)
    /\ DefaultECHKem \in KemIds

\* The command-line options that matter after parsing (a path option is
\* TRUE when the path is non-empty).
Options == [cert : BOOLEAN, key : BOOLEAN, pass : BOOLEAN, cred : BOOLEAN,
            clientAuth : {"None", "Optional", "Required"}, ca : BOOLEAN,
            ech : BOOLEAN, echConfigs : BOOLEAN, echKey : BOOLEAN,
            fallback : BOOLEAN, compAlgos : AlgoLists \cup {<<>>}]

NoDecrypter == [src |-> "none", kem |-> "none", kex |-> "none"]
Decrypters == {NoDecrypter}
    \cup [src : {"default", "file"}, kem : KemIds, kex : KexKinds]

VARIABLES
    pc,          \* next block of fizzServerCommand, or its outcome
    opts,        \* the parsed options
    verifier,    \* a client certificate verifier was made
    decrypter,   \* the ECH decrypter set on the server context
    compressors, \* the compressors made, in order
    finalAlgos,  \* setSupportedCompressionAlgorithms argument
    cert,        \* the certificate given to the cert manager
    sslContext,  \* the SSLContext for the legacy fallback was made
    credKeyType  \* CertUtils::getKeyType of the credential's private key

vars == <<pc, opts, verifier, decrypter, compressors, finalAlgos, cert,
          sslContext, credKeyType>>

Outcomes == {"running", "exit1", "abort"}
\* The certificate handed to the cert manager: none yet, the generated
\* self-signed one, the one read from -cert/-key, or a delegated credential
\* with the signer implementation chosen for it.
NoSigner == "none"
NoCert == [kind |-> "none", signer |-> NoSigner]
CertKinds == [kind : {"none", "selfSigned", "self"}, signer : {NoSigner}]
    \cup [kind : {"delegated"}, signer : SignerKinds]

TypeOK ==
    /\ pc \in {"parse", "sanity", "clientAuth", "ech", "compress", "cert", "fallback"} \cup Outcomes
    /\ opts \in Options
    /\ verifier \in BOOLEAN
    /\ decrypter \in Decrypters
    /\ compressors \in Seq(CompressorKinds)
    /\ finalAlgos \in Seq(CompAlgos)
    /\ cert \in CertKinds
    /\ sslContext \in BOOLEAN
    /\ credKeyType \in KeyTypes \cup {"none", "unknown"}

Init ==
    /\ pc = "parse"
    /\ opts \in Options
    /\ verifier = FALSE
    /\ decrypter = NoDecrypter
    /\ compressors = <<>>
    /\ finalAlgos = <<>>
    /\ cert = NoCert
    /\ sslContext = FALSE
    /\ credKeyType = "none"

Goto(l) == pc' = l
Exit1 == pc' = "exit1"
Abort == pc' = "abort"

-----------------------------------------------------------------------------
(* The ECH builders.                                                       *)

\* Mutation of CreateKeyExchange: the secp384r1 case builds a P-521 key
\* exchange (a copy-paste slip in the switch).
CreateKeyExchangeSwapped(kem, readable) ==
    LET kex == CASE kem = "secp256r1" -> "EC_P256"
                 [] kem = "secp384r1" -> "EC_P521"
                 [] kem = "secp521r1" -> "EC_P521"
                 [] kem = "x25519"    -> "X25519"
                 [] OTHER             -> "nullptr"
    IN  IF kex # "nullptr" /\ ~readable THEN "throws" ELSE kex

\* createKeyExchange: an EC KEM loads the PEM key into OpenSSLECKeyExchange
\* of its curve, x25519 reads the private and public key as two hex lines
\* into X25519KeyExchange, any other KEM gives nullptr.  An unreadable key
\* file is not checked here: the key exchange's setter rejects the missing
\* key by throwing.
CreateKeyExchange(kem, readable) ==
    LET kex == CASE kem = "secp256r1" -> "EC_P256"
                 [] kem = "secp384r1" -> "EC_P384"
                 [] kem = "secp521r1" -> "EC_P521"
                 [] kem = "x25519"    -> "X25519"
                 [] OTHER             -> "nullptr"
    IN  IF kex # "nullptr" /\ ~readable THEN "throws" ELSE kex

\* setupDecrypterFromInputs: read and parse the ECH configs JSON, take the
\* first config and the kem_id of the first JSON entry, build its key
\* exchange.  The outcome is "ok" with the decrypter, "null" (logged, the
\* caller exits) or "throws".  An empty config list is indexed at [0].
SetupDecrypterFromInputs(jsonOk, parseOk, nConfigs, kem, readable) ==
    LET kex == CreateKeyExchange(kem, readable)
        Fail(o) == [outcome |-> o, dec |-> NoDecrypter]
    IN CASE ~jsonOk \/ ~parseOk -> Fail("null")
         [] nConfigs = 0        -> Fail("throws")
         [] kex = "nullptr"     -> Fail("null")
         [] kex = "throws"      -> Fail("throws")
         [] OTHER               -> [outcome |-> "ok",
                                    dec |-> [src |-> "file", kem |-> kem, kex |-> kex]]

\* setupDefaultDecrypter: the first default ECH config with a fixed X25519
\* key pair.
DefaultDecrypter == [src |-> "default", kem |-> DefaultECHKem, kex |-> "X25519"]

\* Mutation of SelectSigner: the P384 and P521 cases are swapped.
SelectSignerSwapped(kt) ==
    CASE kt = "RSA"     -> "RSA"
      [] kt = "P256"    -> "P256"
      [] kt = "P384"    -> "P521"
      [] kt = "P521"    -> "P384"
      [] kt = "ED25519" -> "ED25519"

\* The delegated-credential switch on the key type: each supported type
\* gets SelfDelegatedCredentialImpl of that type.
SelectSigner(kt) ==
    CASE kt = "RSA"     -> "RSA"
      [] kt = "P256"    -> "P256"
      [] kt = "P384"    -> "P384"
      [] kt = "P521"    -> "P521"
      [] kt = "ED25519" -> "ED25519"

\* The compressor the switch of the compressor loop makes for an
\* algorithm that has a case in this build.
CompressorFor(a) ==
    CASE a = "zlib" -> "Zlib" [] a = "brotli" -> "Brotli" [] a = "zstd" -> "Zstd"

\* The compressor loop keeps the algorithms that have a case in this build
\* (zlib always, brotli and zstd when compiled in); the default case logs
\* and ignores the others.
SupportedAlgos(list) == SelectSeq(list, LAMBDA a : a \in BuiltCompressors)

-----------------------------------------------------------------------------
(* The blocks of fizzServerCommand, in order.                              *)

\* Argument parsing: a parse failure, or an exception from a handler (a
\* bad number or cipher list), is logged and returns 1.
ParseArguments ==
    /\ pc = "parse"
    /\ \E parseOk \in BOOLEAN : pc' = IF parseOk THEN "sanity" ELSE "exit1"
    /\ UNCHANGED <<opts, verifier, decrypter, compressors, finalAlgos, cert,
                   sslContext, credKeyType>>

\* Sanity checks: -cert and -key together, and both with -delegatedcred.
SanityCheck ==
    /\ pc = "sanity"
    /\ pc' = IF \/ opts.cert # opts.key
                \/ opts.cred /\ ~(opts.cert /\ opts.key)
             THEN "exit1" ELSE "clientAuth"
    /\ UNCHANGED <<opts, verifier, decrypter, compressors, finalAlgos, cert,
                   sslContext, credKeyType>>

\* Client authentication: load the CA store when one is given (failure
\* exits) and make the verifier.
SetupVerifier ==
    /\ pc = "clientAuth"
    /\ \/ /\ opts.clientAuth = "None"
          /\ Goto("ech")
          /\ UNCHANGED verifier
       \/ /\ opts.clientAuth # "None"
          /\ \E loadOk \in BOOLEAN :
               IF opts.ca /\ ~loadOk
                 THEN Exit1 /\ UNCHANGED verifier
                 ELSE Goto("ech") /\ verifier' = TRUE
    /\ UNCHANGED <<opts, decrypter, compressors, finalAlgos, cert, sslContext,
                   credKeyType>>

\* ECH: -ech sets the default decrypter; -echconfigs and -echprivatekey
\* must come together; when given, the decrypter built from them replaces
\* it, and a failure to build it exits.
SetupECH ==
    /\ pc = "ech"
    /\ LET withDefault == IF opts.ech THEN DefaultDecrypter ELSE decrypter IN
       \/ /\ opts.echConfigs # opts.echKey
          /\ Exit1
          /\ decrypter' = withDefault
       \/ /\ ~opts.echConfigs /\ ~opts.echKey
          /\ Goto("compress")
          /\ decrypter' = withDefault
       \/ /\ opts.echConfigs /\ opts.echKey
          /\ \E jsonOk, parseOk \in BOOLEAN, n \in 0..2, kem \in KemIds,
                readable \in BOOLEAN :
               LET r == SetupDecrypterFromInputs(jsonOk, parseOk, n, kem, readable) IN
               CASE r.outcome = "null"   -> Exit1 /\ decrypter' = withDefault
                 [] r.outcome = "throws" -> Abort /\ decrypter' = withDefault
                 [] r.outcome = "ok"     -> Goto("compress") /\ decrypter' = r.dec
    /\ UNCHANGED <<opts, verifier, compressors, finalAlgos, cert, sslContext,
                   credKeyType>>

\* Mutation of SetupCompressors: an algorithm without a compressor is still
\* advertised.
SetupCompressorsAdvertiseAll ==
    /\ pc = "compress"
    /\ LET sel == SupportedAlgos(opts.compAlgos) IN
         compressors' = [i \in 1..Len(sel) |-> CompressorFor(sel[i])]
    /\ finalAlgos' = opts.compAlgos
    /\ Goto("cert")
    /\ UNCHANGED <<opts, verifier, decrypter, cert, sslContext, credKeyType>>

\* Certificate compression: for each algorithm with a case, push its
\* compressor and the algorithm; advertise the algorithms pushed.
SetupCompressors ==
    /\ pc = "compress"
    /\ LET sel == SupportedAlgos(opts.compAlgos) IN
         /\ compressors' = [i \in 1..Len(sel) |-> CompressorFor(sel[i])]
         /\ finalAlgos' = sel
    /\ Goto("cert")
    /\ UNCHANGED <<opts, verifier, decrypter, cert, sslContext, credKeyType>>

\* Certificate: with -cert, read the certificate and the key files
\* (failure exits).  Without -delegatedcred, makeSelfCert parses them and
\* throws on bad PEM, outside any try.  With it, read the credential file
\* (failure exits), parse the chain and the key, again outside the try
\* (a throw escapes), then inside the try decode the credential and switch
\* on the key's type (a bad credential, or getKeyType's throw for an
\* unknown key, is logged and exits).  Without -cert, a self-signed P-256
\* certificate.
SetupCert ==
    /\ pc = "cert"
    /\ \/ /\ ~opts.cert
          /\ cert' = [kind |-> "selfSigned", signer |-> NoSigner]
          /\ Goto("fallback")
          /\ UNCHANGED credKeyType
       \/ /\ opts.cert
          /\ \E certRead, keyRead, pemOk \in BOOLEAN :
               \/ /\ ~(certRead /\ keyRead)
                  /\ Exit1 /\ UNCHANGED <<cert, credKeyType>>
               \/ /\ certRead /\ keyRead /\ ~opts.cred /\ ~pemOk
                  /\ Abort /\ UNCHANGED <<cert, credKeyType>>
               \/ /\ certRead /\ keyRead /\ ~opts.cred /\ pemOk
                  /\ cert' = [kind |-> "self", signer |-> NoSigner]
                  /\ Goto("fallback") /\ UNCHANGED credKeyType
               \/ /\ certRead /\ keyRead /\ opts.cred
                  /\ \E credRead \in BOOLEAN :
                       \/ /\ ~credRead
                          /\ Exit1 /\ UNCHANGED <<cert, credKeyType>>
                       \/ /\ credRead /\ ~pemOk
                          /\ Abort /\ UNCHANGED <<cert, credKeyType>>
                       \/ /\ credRead /\ pemOk
                          /\ \E credOk \in BOOLEAN, kt \in KeyTypes \cup {"unknown"} :
                               /\ credKeyType' = kt
                               /\ IF credOk /\ kt # "unknown"
                                    THEN /\ cert' = [kind |-> "delegated",
                                                     signer |-> SelectSigner(kt)]
                                         /\ Goto("fallback")
                                    ELSE Exit1 /\ UNCHANGED cert
    /\ UNCHANGED <<opts, verifier, decrypter, compressors, finalAlgos, sslContext>>

\* Mutation of SetupFallbackAndStart: the "-fallback needs -cert" check is
\* left out.
SetupFallbackNoCertCheck ==
    /\ pc = "fallback"
    /\ sslContext' = opts.fallback
    /\ \E loadOk, bindOk \in BOOLEAN :
         pc' = IF (opts.fallback => loadOk) /\ bindOk THEN "running" ELSE "abort"
    /\ UNCHANGED <<opts, verifier, decrypter, compressors, finalAlgos, cert,
                   credKeyType>>

\* Fallback: it needs an explicit certificate; the SSLContext loads it
\* (loadCertKeyPairFromFiles throws on failure, and it is not given
\* -pass).  Then the acceptor binds and listens (bind throws when the port
\* is taken) and the event loop runs.
SetupFallbackAndStart ==
    /\ pc = "fallback"
    /\ \/ /\ opts.fallback /\ ~opts.cert
          /\ Exit1
          /\ UNCHANGED sslContext
       \/ /\ opts.fallback => opts.cert
          /\ sslContext' = opts.fallback
          /\ \E loadOk, bindOk \in BOOLEAN :
               pc' = IF (opts.fallback => loadOk) /\ bindOk THEN "running" ELSE "abort"
    /\ UNCHANGED <<opts, verifier, decrypter, compressors, finalAlgos, cert,
                   credKeyType>>

Next ==
    \/ ParseArguments
    \/ SanityCheck
    \/ SetupVerifier
    \/ SetupECH
    \/ SetupCompressors
    \/ SetupCert
    \/ SetupFallbackAndStart

Spec == Init /\ [][Next]_vars

-----------------------------------------------------------------------------
(* Properties.                                                             *)

\* A server that reaches the event loop is configured as its options ask:
\* fallback only with an explicit certificate and key, a delegated
\* credential signer when -delegatedcred is given, a verifier when client
\* certificates are requested, and the ECH decrypter from the files when
\* given, else the default one with -ech, else none.
RunningConfigSound ==
    pc = "running" =>
        /\ opts.fallback => sslContext /\ opts.cert /\ opts.key
        /\ opts.cred => cert.kind = "delegated"
        /\ opts.clientAuth # "None" => verifier
        /\ decrypter.src = IF opts.echConfigs THEN "file"
                           ELSE IF opts.ech THEN "default" ELSE "none"

\* The ECH decrypter's key exchange implements the KEM of its config (spec
\* section 3: an ECH decryption config has exactly one matching key
\* exchange): createKeyExchange's switch on the kem_id of the JSON must
\* build the key exchange of that group, and setupDefaultDecrypter's fixed
\* X25519 key pair must go with a default config of KEM x25519.
KexMatchesKem == decrypter.src # "none" => KexGroup[decrypter.kex] = decrypter.kem

\* The delegated-credential signer is the implementation of the
\* credential key's own type; there is no generic signer.
SignerMatchesKeyType == cert.kind = "delegated" => cert.signer = credKeyType

\* setSupportedCompressionAlgorithms advertises exactly the algorithms of
\* the compressors given to the certificate, in the same order: an
\* algorithm this build has no compressor for is not advertised, and each
\* case of the compressor switch makes the compressor of its algorithm.
CompressorsMatchAdvertised ==
    /\ Len(compressors) = Len(finalAlgos)
    /\ \A i \in 1..Len(finalAlgos) : CompressorAlgorithm[compressors[i]] = finalAlgos[i]

\* Spec sections 4.5 and 7: a failure to build the ECH decrypter from its
\* inputs (configs JSON unreadable or unparseable, unsupported KEM, key
\* file unreadable) is a fatal start-up error with a non-zero exit after
\* logging (setupDecrypterFromInputs returning nullptr, then return 1); no
\* exception or crash escapes fizzServerCommand from the ECH block.
ECHFailuresExitCleanly == [][pc = "ech" => pc' # "abort"]_vars

\* Spec section 7: an unreadable or unparseable certificate, key or
\* delegated credential is a fatal start-up error with a non-zero exit
\* after logging; no exception escapes fizzServerCommand from the
\* certificate block.
CertFailuresExitCleanly == [][pc = "cert" => pc' # "abort"]_vars

=============================================================================
