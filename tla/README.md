# Verification of the fizz demonstration server

This directory holds TLA+ models of `src/fizz/tool/FizzServerCommand.cpp`,
the `fizz server` command. It also holds the TLC configurations that
model-check the models and the TLAPS proofs about them.
`PROJECT.json` lists:

- the components;
- the runs and their mutants;
- the map from every definition to the source lines it translates;
- the findings, the hazards, and the theorems.

## 1. The system

The program has two phases.

**Start-up** (`fizzServerCommand`, lines 637-1026). It parses the options,
then runs these steps in order:

1. sanity checks (772-782);
2. builds a client-certificate verifier (798-817);
3. builds an ECH decrypter (819-846). It uses `createKeyExchange` (523-574),
   `setupDecrypterFromInputs` (576-615) and `setupDefaultDecrypter` (617-633);
4. selects the certificate compressors (859-893);
5. loads or generates the certificate. A delegated credential gets a
   signer chosen by key type (895-990);
6. builds the legacy `SSLContext` when `-fallback` is given;
7. binds the listening socket and enters `evb.loop()` (992-1025).

Each step can end the program with `return 1` (logged), or an exception can
escape it.

**Serving.** Everything runs on one folly `EventBase` thread, so each
callback is one atomic step. The parts are:

- **`FizzServerAcceptor`** (456-521). It accepts a connection, pauses
  accepting, and creates one handler (`cb_`). `done()` then either re-arms
  accepting (`-loop`) or releases the listening socket.
- **The handler.** `FizzExampleServer` (130-381) drives an `AsyncFizzServer`
  TLS 1.3 handshake. That handshake can fall back to an `AsyncSSLSocket`
  (`fizzHandshakeAttemptFallback`). The handler ends in `finish()`, which
  calls `acceptor_->done()`. With `-http`, `FizzHTTPServer` (383-454)
  collects request bytes. It answers one `GET /` and then closes.
- **Key log.** A `SecretCollector` records the secrets the engine derives.
  `handshakeSuccessLog` writes the logged labels through `writeKeyLog`
  (121-128) to the `KeyLogWriter`.
- **Terminal input.** In non-HTTP mode a `TerminalInputHandler` forwards
  stdin. At end of input it calls `close()`.

## 2. Modules

| Module | Models | Run by |
|---|---|---|
| `FizzServer` | acceptor, handler, fallback, key log, HTTP responder | `MCFizzServer` |
| `FizzServerStartup` | `fizzServerCommand` after parsing; ECH builders; credential selector | `MCFizzServerStartup` |
| `AcceptorService` | what the acceptor promises its clients (abstract) | instantiated by `FizzServer` |
| `FizzServerProofs` | the inductive invariant `IInv`; type, transport and handler proofs | `tlapm` |
| `FizzServerRefinement` | proof that `FizzServer` implements `AcceptorService` | `tlapm` |
| `FizzServerSessionProofs` | proofs of the HTTP, key-log and single-shot properties | `tlapm` |
| `FizzServerStartupProofs` | proofs of the start-up properties | `tlapm` |

### `FizzServer`

**Constants.**

- `Peers`: the clients.
- The flags `Loop`, `Http`, `FallbackEnabled` and `KeyLogEnabled`.
- The secret labels. `LogLabels` are the six labels `handshakeSuccessLog`
  writes. `OtherLabels` are secrets it never logs, such as the resumption
  master secret.
- `MaxChunk` and `MaxReqBytes`, which bound the HTTP request.

**State.**

- Acceptor: `running`, `listening`, `accepting`, `cb` (the peer of the
  live handler), `inputHandler`, and `backlog`, the kernel's FIFO accept
  queue.
- Handler: `transport` and `sslSocket`, the two transport slots; `connected`;
  `reqLen` and `reqGet`, the HTTP request length and whether it starts
  with `GET /`; and `hs`, the handshake phase.
- History per peer: `status`, `secrets`, `keyLog` (a count of lines per
  label) and `responses`.

**Actions.** Each action is one callback, modelled whole:

- `ConnectionAccepted` covers `connectionAccepted`, including
  `pauseAccepting`.
- The handler callbacks: `FizzHandshakeSuccess`, `FizzHandshakeError`,
  `FizzHandshakeAttemptFallback`, `HandshakeSuc`, `HandshakeErr`, `ReadEOF`
  (also `readErr`), `ReadData` (`readDataAvailable` together with
  `readBufferAvailable`, i.e. `HttpServe`), and `TerminalClose`.
- `AcceptError`.
- `Finish` and `Done` are the shared tails of these callbacks. They are
  part of every action that calls them, never actions of their own.

Three actions are modelled from the spec because their code is not under
`src/`:

- `Connect`: the kernel queues a client;
- `ClientHello13`: the engine sees a TLS 1.3 ClientHello;
- `SecretAvailable`: the `SecretCollector` records a secret.

**Modelling choices.**

- In HTTP mode, `close()` after the response (427-432) has two outcomes,
  both modelled by `CloseTransport`. If a write is still pending, the close
  completes later: the phase becomes `"closing"` and a later `readEOF`
  finishes the connection. Otherwise `AsyncFizzServer`/`AsyncSSLSocket`
  delivers `readEOF` (or `readErr`) at once. Then `finish()` and `done()`
  run, and destroy the handler, before `readBufferAvailable` returns. The
  action includes that nested `FinishHandler`.
- The nested `readEOF` that `closeNow()` delivers into `finish()` finds both
  slots empty and does nothing (372-378). It is folded into `Finish`.
- Early data and the bytes of `write()` are not modelled.
- Peers may reconnect after they close or are dropped, so loop mode never
  runs out of clients.

### `FizzServerStartup`

This module is a sequential program counter over the start-up blocks:

- `Init` chooses the options that parsing may produce (637-670).
- Each action is one block: `ParseArguments` (a parse failure or a
  handler's exception returns 1, 762-770), `SanityCheck`, `SetupVerifier`,
  `SetupECH`, `SetupCompressors`, `SetupCert`, `SetupFallbackAndStart`.
- The outcome of each file read, PEM or JSON parse, load and bind is a
  choice made with `\E`. A throw outside any `try` ends in `"abort"`:
  `makeSelfCert` (908/910), `readCertsFromBuffer` and
  `readPrivateKeyFromBuffer` in the credential branch (923-928),
  `loadCertKeyPairFromFiles` (1007) and the bind.

The ECH builders are operators. `CreateKeyExchange` is the switch on the
KEM id: it returns `"nullptr"` for an unsupported KEM, `"throws"` for an
unreadable key file of a supported one, or the key-exchange class it
builds (`"EC_P256"`, ..., `"X25519"`). `KexGroup` says which group each
class implements; the classes are outside this file, so it is taken from
spec section 4.5 and is independent of the switch. `SetupDecrypterFromInputs`
returns an outcome record. An unreadable key file is modelled as the
exception the setter throws. An empty `echconfigs` array is modelled as an
abort.

The compressors are compressor classes (`"Zlib"`, `"Brotli"`, `"Zstd"`).
`CompressorFor` is the switch of the compressor loop, whose brotli and zstd
cases exist only when compiled in (`BuiltCompressors`, which always holds
zlib). `CompressorAlgorithm` is the algorithm each class reports.

The certificate is a record `[kind, signer]`: `"none"`, `"selfSigned"`,
`"self"`, or `"delegated"` with the signer implementation chosen for the
credential. The record carries the same information as a name such as
`"delegated_P256"`. Unlike such a name, the provers can compare it field by
field.

### `AcceptorService`

This is the abstract specification of the acceptor:

- a queue of waiting clients, the connection being served (`current`) and
  a status per client;
- `Arrive`, `Serve` (the oldest waiting connection, when none is served),
  `End` (loop mode keeps the queue; single-shot closes and drops it) and
  `Halt` (an accept failure stops a single-shot service).

`FizzServer!Service` instantiates it with `alive <- running`,
`open <- listening`, `queue <- backlog`, `current <- cb` and
`status <- status`. Under this mapping:

- `Connect` is `Arrive`;
- `ConnectionAccepted` is `Serve`;
- `AcceptError` is `Halt`;
- every `finish()` (including the nested one in `ReadData`) is `End`;
- every other step leaves the acceptor's view unchanged.

## 3. Runs

All `MCFizzServer` runs use two peers as model values, with symmetry except
in the liveness run. They use two logged labels and one unlogged label, and
`MaxChunk = 3` with `MaxReqBytes = 7`. With these bounds a 5-byte `GET /`
prefix can arrive split over two or three chunks and be followed by more
data. Two peers are enough for one to be live while the other waits in the
queue, reconnects or is dropped.

| Run | Configuration | Checks | Result |
|---|---|---|---|
| `loop_safety` | `-loop -fallback -keylog` | `TransportExclusive`, `HandlerNeverOrphaned`, `KeyLogAtMostOnce`, `ServiceSpec` | pass |
| `http_single_shot` | `-http -fallback -keylog`, single shot | `SingleConnection`, `HttpRespondsOnce`, `ServiceSpec` | pass |
| `loop_liveness` | `-loop -http -fallback`, `FairSpec` | `QueuedEventuallyServed` | pass |
| `keylog_http_duplicate` | `-loop -http -keylog` | `KeyLogAtMostOnce` | violation |
| `keylog_failed_handshake` | `-loop -keylog` | `KeyLogCompleteAtClose` | violation |
| `startup_paths` | every option combination | `RunningConfigSound`, `KexMatchesKem`, `SignerMatchesKeyType`, `CompressorsMatchAdvertised` | pass |
| `startup_ech_failure` | every option combination | `ECHFailuresExitCleanly` | violation |
| `startup_cert_failure` | every option combination | `CertFailuresExitCleanly` | violation |

`ServiceSpec` is the refinement check. TLC checks that every behaviour of
the model, mapped through `FizzServer!Service`, is a behaviour of
`AcceptorService`.

The start-up instance has every supported KEM and one unsupported one,
every credential key type, and three compression algorithms of which zlib
and zstd are built. Its lists include brotli, which this build cannot
compress, before and between built ones. The default ECH config is an
x25519 one, as the fixed 32-byte key pair of `setupDefaultDecrypter`
requires (spec section 4.5).

`http_single_shot` turns deadlock checking off. A single-shot server stops
for good once it has served its one connection or `acceptError` has ended
the loop. `startup_paths` also turns it off, because every outcome of
start-up is final.

**Fairness.** `FairSpec` is weakly fair on `ConnectionAccepted` only: the
event loop dispatches an accept that is ready. Nothing is assumed of the
peers. The server has no timeouts, so a client that keeps its connection
open (for example after a request that is not `GET /`, line 435) stalls the
acceptor forever. `QueuedEventuallyServed` therefore states that
hypothesis itself: if sessions keep ending (`[]<>(cb = NoPeer)`), every
queued peer is eventually accepted. What it checks is that every path
that ends a session re-arms accepting in `done()` (517), and that the
kernel queue is served in order.

### Findings

1. **With `-http`, the key log is written twice.** `respondHandshakeSuccess`
   (444) calls `handshakeSuccessLog` again, so every secret of a session
   that receives `GET /` appears twice in the key log
   (`keylog_http_duplicate`).
2. **Secrets of failed handshakes are never logged.** The key log is
   written only at handshake success. Neither the secrets of a handshake
   that fails after deriving them nor secrets derived after success are
   ever logged. The spec says each secret is forwarded immediately
   (`keylog_failed_handshake`).
3. **Some ECH input errors escape the logged exit.** `createKeyExchange`
   does not check the read of the key file (529, 554-560). The bad key then
   reaches the key-exchange setter, which throws. `setupDecrypterFromInputs`
   indexes an empty `echconfigs` array at `[0]` (598, 600). Spec sections
   4.5 and 7 say such a failure aborts start-up as a fatal error, with a
   non-zero exit after logging (`startup_ech_failure`).
4. **Unparseable certificates escape the logged exit.** `makeSelfCert`
   (908, 910), `readCertsFromBuffer` (923) and `readPrivateKeyFromBuffer`
   (926) run outside any `try`. A certificate or key file that is read but
   is not valid PEM therefore ends start-up with an exception. Only read
   failures and the errors inside the credential `try` are logged with
   `return 1`. Spec section 7 requires a logged, non-zero exit
   (`startup_cert_failure`).

## 4. Proofs

Every theorem below holds for every value of the constants: any number of
peers, any labels, any request bound, and every combination of flags.

**`FizzServerProofs`** proves:

- `TypeCorrect`: `Spec => []TypeOK`;
- `TransportExclusiveHolds`: `Spec => []TransportExclusive`;
- `HandlerNeverOrphanedHolds`: `Spec => []HandlerNeverOrphaned`.

The invariants are not inductive on their own. For example, an accept must
not find a live handler, and a fallback must not find the legacy slot
already taken. The strengthening is `IInv == TypeOK /\ PhaseConsistent /\
HandlerNeverOrphaned`. `PhaseConsistent` ties the handshake phase to the
rest of the state:

- the phase determines which transport slot is held;
- there is a handler exactly when the phase is not `"none"`;
- accepting is armed only when there is no handler and the socket listens;
- a handler exists only while the socket listens;
- an input handler exists only alongside a handler.

`InitIInv` and `NextIInv` prove that `IInv` is inductive, with one step per
action. Each theorem then follows by PTL.

**`FizzServerRefinement`** proves `Refinement == Spec => ServiceSpec`. The
initial state maps to the service's initial state. `StepRefines` shows that
every step, under `IInv`, is a step of the service or a stutter of its view.
`IInv` supplies the facts the mapping needs:

- a held transport means a live handler, so `finish()` is an `End`
  (`FinishIsEnd`);
- accepting means no handler and an open socket, so `connectionAccepted`
  is a `Serve` and `acceptError` a `Halt`.

**`FizzServerSessionProofs`** adds an invariant of its own to `IInv` for
each property:

- `QueueInv`: the kernel queue holds each waiting peer once, and only
  waiting peers.
- `HttpRespondsOnceHolds` rests on `RespondInv`. A queued peer has no
  response, and the live session has one only once its transport is
  closing. This is what makes the nested `finish()` of a synchronous close
  safe: the session it ends has exactly one response.
- `KeyLogAtMostOnceWithoutHttp` assumes `~Http` and rests on `KeyLogInv`.
  Lines are 0 or 1, a queued session has none, and the live session has
  none before `fizzHandshakeSuccess`. With `-http` the property is false
  (finding 1).
- `SingleConnectionHolds` rests on `SingleInv`. In single-shot mode a closed
  session means the socket no longer listens, and at most one session is
  active or closed. `AtMostOneElement` turns this into the cardinality
  bound, using `FS_EmptySet` and `FS_Singleton`.

TLC checks every one of these invariants on the runs' instances before it
is proved.

**`FizzServerStartupProofs`** proves three of the four start-up properties
that `startup_paths` checks: `RunningConfigSoundHolds`, `KexMatchesKemHolds`
and `SignerMatchesKeyTypeHolds`. It also proves `StartupStateTyped`. These
hold for every set of KEMs, key types and compression lists that
`StartupAssumption` allows. `KexMatchesKemHolds` has one more hypothesis,
`DefaultECHKem = "x25519"`: the default config comes from
`getDefaultECHConfigs()`, which is outside this file, and the fixed X25519
key pair is right only for an x25519 config.

Each block of `fizzServerCommand` establishes a fact that every later block
keeps. `StartupInv` records these facts, one conjunct per block:

- past the sanity checks, `-cert` and `-key` come together, and
  `-delegatedcred` has both;
- past the client-auth block, a verifier exists when one is asked for;
- before the ECH block there is no decrypter. After it, the decrypter is
  the one the options ask for (`WantedDecrypterSrc`);
- before the certificate block there is no certificate. After it,
  `-delegatedcred` has a delegated credential;
- a running server with `-fallback` has an `SSLContext` and `-cert`.

`StartupInv` also carries `SignerMatchesKeyType` and `DecrypterBuilt`: a
decrypter from the files has a key exchange of its KEM's group, and any
other is the default one. `KexMatchesKem` follows from `DecrypterBuilt`
and the hypothesis on the default config. `ECHStep` and `CertStep` handle
the two blocks with several outcomes, the aborts included. They use
lemmas about the builders:

- `CreateKeyExchangeGroup`: the KEM switch fails, or builds a key exchange
  whose `KexGroup` is the KEM asked for;
- `DecrypterOutcome`: `setupDecrypterFromInputs` succeeds only with such a
  key exchange;
- `DefaultDecrypterTyped`;
- `SelectSignerOwnType`.

`StartupInv` is checked by TLC on the `startup_paths` instance before it is
proved.

Only TLC checks the following:

- liveness: `QueuedEventuallyServed`. TLAPS cannot reason about
  `ENABLED`, which weak fairness needs.
- `KeyLogCompleteAtClose`, which is violated;
- `CompressorsMatchAdvertised`, and that the two compression lists are
  typed. Both depend on what `SelectSeq` returns, and proving that needs
  induction over the list.
- `ECHFailuresExitCleanly` and `CertFailuresExitCleanly`, which are
  violated.

## 5. Not modelled

- The option handlers and usage text. They only copy strings into the
  options that `Init` chooses; `ParseArguments` keeps only their outcome.
- The wording of the session summaries and of the HTTP body.
- `KeyLogWriter`'s file format.
- Certificate generation.
- Object lifetime. `done()` destroys the handler from inside its own
  callback (514). This is a use-after-free hazard that the model cannot
  express.

## 6. Plan for later work

- An explicit order of the steps inside `finish()`, so that the re-entrant
  `readEOF` from `closeNow()` becomes a step that a property can observe
  (hazard at line 372).
