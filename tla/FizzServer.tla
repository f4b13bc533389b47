----------------------------- MODULE FizzServer -----------------------------
(***************************************************************************)
(* The connection side of the fizz demonstration server                    *)
(* (src/fizz/tool/FizzServerCommand.cpp): FizzServerAcceptor, which owns   *)
(* the listening socket and the single live handler, and FizzExampleServer *)
(* / FizzHTTPServer, the handler of one accepted connection.  The handler  *)
(* reacts to the callbacks of the TLS 1.3 engine (AsyncFizzServer), may    *)
(* hand the socket over to the legacy engine (AsyncSSLSocket), collects    *)
(* the secrets the engine derives and writes them to the key log.          *)
(*                                                                         *)
(* Everything runs on one EventBase thread, so every callback is one       *)
(* atomic step.  The engines are environment: their callbacks are          *)
(* enabled by the engine phase `hs'.                                       *)
(***************************************************************************)
EXTENDS Naturals, Sequences, FiniteSets

CONSTANTS
    Peers,          \* clients that may connect; each connect is a new session
    NoPeer,         \* cb_ == nullptr
    Loop,           \* -loop
    Http,           \* -http: FizzHTTPServer instead of FizzExampleServer
    FallbackEnabled,\* -fallback: setVersionFallbackEnabled(true), sslCtx_ set
    KeyLogEnabled,  \* -keylog: keyLogger_ set
    LogLabels,      \* secrets handshakeSuccessLog writes to the key log
    OtherLabels,    \* secrets only collected (binders, exporters, resumption)
    MaxChunk,       \* largest read chunk, in bytes
    MaxReqBytes     \* bound on the bytes an HTTP peer sends on one connection

ASSUME ConstantsAssumption ==
    /\ NoPeer \notin Peers
    /\ Loop \in BOOLEAN
    /\ Http \in BOOLEAN
    /\ FallbackEnabled \in BOOLEAN
    /\ KeyLogEnabled \in BOOLEAN
    /\ LogLabels \cap OtherLabels = {}
    /\ MaxChunk \in Nat \ {0}
    /\ MaxReqBytes \in Nat

Labels == LogLabels \cup OtherLabels

\* "GET /" is five bytes (FizzHTTPServer::readBufferAvailable).
GetPrefixLen == 5

VARIABLES
    \* FizzServerAcceptor and the EventBase
    running,      \* evb.loop() has not been terminated
    listening,    \* socket_ != nullptr
    accepting,    \* socket_ is accepting (startAccepting / pauseAccepting)
    cb,           \* the peer whose handler cb_ holds, or NoPeer
    inputHandler, \* inputHandler_ != nullptr
    backlog,      \* connections queued by the kernel, oldest first
    \* the live handler (FizzExampleServer / FizzHTTPServer)
    transport,    \* transport_ != nullptr
    sslSocket,    \* sslSocket_ != nullptr
    connected,    \* connected_
    reqLen,       \* requestBuf_->computeChainDataLength()
    reqGet,       \* whether the peer's request begins with "GET /"
    hs,           \* phase of the engine driving the socket
    \* per session observations
    status,       \* idle, queued, active, closed or dropped
    secrets,      \* labels the SecretCollector holds for the session
    keyLog,       \* number of key-log lines written per label
    responses     \* HTTP responses sent

acceptorVars == <<running, listening, accepting, cb, inputHandler, backlog>>
handlerVars == <<transport, sslSocket, connected, reqLen, reqGet, hs>>
sessionVars == <<status, secrets, keyLog, responses>>
vars == <<acceptorVars, handlerVars, sessionVars>>

Phases == {"none", "chello", "tls13", "fizzUp", "sslAccept", "sslUp", "closing"}
Status == {"idle", "queued", "active", "closed", "dropped"}

Queued == {backlog[i] : i \in DOMAIN backlog}

TypeOK ==
    /\ running \in BOOLEAN
    /\ listening \in BOOLEAN
    /\ accepting \in BOOLEAN
    /\ cb \in Peers \cup {NoPeer}
    /\ inputHandler \in BOOLEAN
    /\ backlog \in Seq(Peers)
    /\ transport \in BOOLEAN
    /\ sslSocket \in BOOLEAN
    /\ connected \in BOOLEAN
    /\ reqLen \in 0..MaxReqBytes
    /\ reqGet \in BOOLEAN
    /\ hs \in Phases
    /\ status \in [Peers -> Status]
    /\ secrets \in [Peers -> SUBSET Labels]
    /\ keyLog \in [Peers -> [LogLabels -> Nat]]
    /\ responses \in [Peers -> Nat]

-----------------------------------------------------------------------------
(* Initial state: the FizzServerAcceptor constructor has bound, listened   *)
(* and started accepting; no handler exists.                               *)
Init ==
    /\ running = TRUE
    /\ listening = TRUE
    /\ accepting = TRUE
    /\ cb = NoPeer
    /\ inputHandler = FALSE
    /\ backlog = <<>>
    /\ transport = FALSE
    /\ sslSocket = FALSE
    /\ connected = FALSE
    /\ reqLen = 0
    /\ reqGet = FALSE
    /\ hs = "none"
    /\ status = [p \in Peers |-> "idle"]
    /\ secrets = [p \in Peers |-> {}]
    /\ keyLog = [p \in Peers |-> [l \in LogLabels |-> 0]]
    /\ responses = [p \in Peers |-> 0]

-----------------------------------------------------------------------------
(* Helpers translated from the code.                                       *)

\* writeKeyLog and the six `if (secret)' tests of handshakeSuccessLog: the
\* labels a call of handshakeSuccessLog writes for session p.
KeyLogWrites(p) == IF KeyLogEnabled THEN secrets[p] \cap LogLabels ELSE {}

\* One call of handshakeSuccessLog for the live session.
WriteKeyLog ==
    keyLog' = [keyLog EXCEPT ![cb] =
                  [l \in LogLabels |-> @[l] + (IF l \in KeyLogWrites(cb) THEN 1 ELSE 0)]]

\* Mutation of Done: accepting is re-armed whatever loop_ says.
DoneAlwaysRearms ==
    /\ cb' = NoPeer
    /\ inputHandler' = FALSE
    /\ accepting' = TRUE
    /\ UNCHANGED <<listening, backlog>>
    /\ status' = [status EXCEPT ![cb] = "closed"]

\* Mutation of Done: the loop branch re-arms accepting but, like the
\* single-shot branch, discards the connections queued meanwhile.
DoneDropsQueue ==
    /\ cb' = NoPeer
    /\ inputHandler' = FALSE
    /\ accepting' = Loop
    /\ listening' = Loop
    /\ backlog' = <<>>
    /\ status' = [q \in Peers |->
                    IF q = cb THEN "closed"
                    ELSE IF q \in Queued THEN "dropped"
                    ELSE status[q]]

\* FizzServerAcceptor::done(): release the handler and the input handler,
\* then re-arm accepting (loop) or release the listening socket, which
\* drops the connections still queued on it.
Done ==
    /\ cb' = NoPeer
    /\ inputHandler' = FALSE
    /\ IF Loop
         THEN /\ accepting' = TRUE
              /\ UNCHANGED <<listening, backlog>>
         ELSE /\ listening' = FALSE
              /\ accepting' = FALSE
              /\ backlog' = <<>>
    /\ status' = [q \in Peers |->
                    IF q = cb THEN "closed"
                    ELSE IF ~Loop /\ q \in Queued THEN "dropped"
                    ELSE status[q]]

\* FizzExampleServer::finish(): when a transport is held, drop both slots,
\* close the TLS 1.3 transport and call acceptor_->done(), which destroys
\* this handler.  The readEOF that closeNow() delivers back into finish()
\* finds both slots empty and does nothing.
FinishHandler ==
    /\ transport \/ sslSocket
    /\ transport' = FALSE
    /\ sslSocket' = FALSE
    /\ connected' = FALSE
    /\ reqLen' = 0
    /\ reqGet' = FALSE
    /\ hs' = "none"
    /\ Done

\* finish() as the whole of a callback.
Finish == FinishHandler /\ UNCHANGED <<running, secrets, keyLog, responses>>

\* close() on the transport after the response: the engine reports readEOF
\* (or readErr) later, or at once, from inside close(), when the write has
\* drained or the transport is no longer good; then finish() and done() run
\* while readBufferAvailable is still on the stack.
CloseTransport(len) ==
    \/ /\ hs' = "closing"
       /\ reqLen' = len
       /\ UNCHANGED <<acceptorVars, transport, sslSocket, connected, reqGet, status>>
    \/ FinishHandler

\* The request is kept and only logged (too short, or not "GET /").
KeepRequest(len) ==
    /\ reqLen' = len
    /\ UNCHANGED <<acceptorVars, transport, sslSocket, connected, reqGet, hs,
                   status, responses, keyLog>>

\* Mutation of HttpServe: the response is sent but the transport is not
\* closed.
HttpServeWithoutClose(len) ==
    IF len >= GetPrefixLen /\ reqGet
      THEN /\ responses' = [responses EXCEPT ![cb] = @ + 1]
           /\ IF transport THEN WriteKeyLog ELSE UNCHANGED keyLog
           /\ reqLen' = len
           /\ UNCHANGED <<acceptorVars, transport, sslSocket, connected, reqGet,
                          hs, status>>
      ELSE KeepRequest(len)

\* FizzHTTPServer::readBufferAvailable once the request holds `len' bytes:
\* on a "GET /" prefix, build the summary (handshakeSuccessLog on the TLS 1.3
\* path, which writes the key log again), send it and close() the transport;
\* otherwise only log.
HttpServe(len) ==
    IF len >= GetPrefixLen /\ reqGet
      THEN /\ responses' = [responses EXCEPT ![cb] = @ + 1]
           /\ IF transport THEN WriteKeyLog ELSE UNCHANGED keyLog
           /\ CloseTransport(len)
      ELSE KeepRequest(len)

-----------------------------------------------------------------------------
(* Environment: a peer connects; the kernel queues the connection.         *)
Connect(p) ==
    /\ running
    /\ listening
    /\ status[p] \in {"idle", "closed", "dropped"}
    /\ backlog' = Append(backlog, p)
    /\ status' = [status EXCEPT ![p] = "queued"]
    /\ secrets' = [secrets EXCEPT ![p] = {}]
    /\ keyLog' = [keyLog EXCEPT ![p] = [l \in LogLabels |-> 0]]
    /\ responses' = [responses EXCEPT ![p] = 0]
    /\ UNCHANGED <<running, listening, accepting, cb, inputHandler, handlerVars>>

\* Mutation of ConnectionAccepted: socket_->pauseAccepting() is left out.
AcceptWithoutPause ==
    /\ running
    /\ accepting
    /\ backlog # <<>>
    /\ LET p == Head(backlog) IN
         /\ backlog' = Tail(backlog)
         /\ cb' = p
         /\ inputHandler' = ~Http
         /\ status' = [status EXCEPT ![p] = "active"]
    /\ transport' = TRUE
    /\ sslSocket' = FALSE
    /\ connected' = FALSE
    /\ reqLen' = 0
    /\ reqGet' \in BOOLEAN
    /\ hs' = "chello"
    /\ UNCHANGED <<running, listening, accepting, secrets, keyLog, responses>>

(* FizzServerAcceptor::connectionAccepted: wrap the socket in an           *)
(* AsyncFizzServer, pause accepting, create the handler (HTTP or example), *)
(* a TerminalInputHandler unless -http, and start the TLS 1.3 accept.      *)
ConnectionAccepted ==
    /\ running
    /\ accepting
    /\ backlog # <<>>
    /\ LET p == Head(backlog) IN
         /\ backlog' = Tail(backlog)
         /\ accepting' = FALSE
         /\ cb' = p
         /\ inputHandler' = ~Http
         /\ status' = [status EXCEPT ![p] = "active"]
    /\ transport' = TRUE
    /\ sslSocket' = FALSE
    /\ connected' = FALSE
    /\ reqLen' = 0
    /\ reqGet' \in BOOLEAN
    /\ hs' = "chello"
    /\ UNCHANGED <<running, listening, secrets, keyLog, responses>>

(* FizzServerAcceptor::acceptError: logged; in single-shot mode the event  *)
(* loop is terminated.                                                     *)
AcceptError ==
    /\ running
    /\ accepting
    /\ running' = Loop
    /\ UNCHANGED <<listening, accepting, cb, inputHandler, backlog,
                   handlerVars, sessionVars>>

-----------------------------------------------------------------------------
(* The TLS 1.3 engine (AsyncFizzServer) and the handler's callbacks.       *)

\* The engine reads a TLS 1.3 ClientHello and starts negotiating.
ClientHello13 ==
    /\ running
    /\ hs = "chello"
    /\ hs' = "tls13"
    /\ UNCHANGED <<acceptorVars, transport, sslSocket, connected, reqLen,
                   reqGet, sessionVars>>

\* Mutation of SecretAvailable: a key-log secret is also written as it
\* arrives, besides the write at handshake success.
SecretForwardedOnArrival(l) ==
    /\ running
    /\ \/ hs = "tls13"
       \/ hs = "fizzUp" /\ l \in OtherLabels
    /\ l \notin secrets[cb]
    /\ secrets' = [secrets EXCEPT ![cb] = @ \cup {l}]
    /\ keyLog' = IF KeyLogEnabled /\ l \in LogLabels
                   THEN [keyLog EXCEPT ![cb][l] = @ + 1] ELSE keyLog
    /\ UNCHANGED <<acceptorVars, handlerVars, status, responses>>

\* The engine derives secret l and reports it to the SecretCollector, which
\* stores it.  Traffic and handshake secrets are derived during the
\* handshake; the other secrets (resumption) may also come after it.
SecretAvailable(l) ==
    /\ running
    /\ \/ hs = "tls13"
       \/ hs = "fizzUp" /\ l \in OtherLabels
    /\ l \notin secrets[cb]
    /\ secrets' = [secrets EXCEPT ![cb] = @ \cup {l}]
    /\ UNCHANGED <<acceptorVars, handlerVars, status, keyLog, responses>>

\* fizzHandshakeSuccess: register as read callback, set connected_ and
\* print the summary, whose handshakeSuccessLog writes the key log.
FizzHandshakeSuccess ==
    /\ running
    /\ hs = "tls13"
    /\ hs' = "fizzUp"
    /\ connected' = TRUE
    /\ WriteKeyLog
    /\ UNCHANGED <<acceptorVars, transport, sslSocket, reqLen, reqGet,
                   status, secrets, responses>>

\* fizzHandshakeError: log and finish().
FizzHandshakeError ==
    /\ running
    /\ hs \in {"chello", "tls13"}
    /\ Finish

\* Mutation of FizzHandshakeAttemptFallback: the AsyncFizzServer is kept.
FallbackKeepsTransport ==
    /\ running
    /\ FallbackEnabled
    /\ hs = "chello"
    /\ sslSocket' = TRUE
    /\ hs' = "sslAccept"
    /\ UNCHANGED <<acceptorVars, transport, connected, reqLen, reqGet, sessionVars>>

\* fizzHandshakeAttemptFallback: the engine offers a pre-1.3 ClientHello
\* (only when fallback is enabled).  Detach the fd from the AsyncFizzServer,
\* destroy it, wrap the fd in an AsyncSSLSocket, replay the ClientHello and
\* sslAccept.
FizzHandshakeAttemptFallback ==
    /\ running
    /\ FallbackEnabled
    /\ hs = "chello"
    /\ transport' = FALSE
    /\ sslSocket' = TRUE
    /\ hs' = "sslAccept"
    /\ UNCHANGED <<acceptorVars, connected, reqLen, reqGet, sessionVars>>

\* handshakeSuc (legacy): register as read callback, set connected_ and print
\* the reduced summary (no key log).
HandshakeSuc ==
    /\ running
    /\ hs = "sslAccept"
    /\ hs' = "sslUp"
    /\ connected' = TRUE
    /\ UNCHANGED <<acceptorVars, transport, sslSocket, reqLen, reqGet, sessionVars>>

\* handshakeErr (legacy): log and finish().
HandshakeErr ==
    /\ running
    /\ hs = "sslAccept"
    /\ Finish

\* readDataAvailable / readBufferAvailable of FizzHTTPServer: append the
\* chunk of k bytes to requestBuf_ and test the "GET /" prefix.  (The
\* example server only prints what it reads.)
ReadData(k) ==
    /\ running
    /\ Http
    /\ hs \in {"fizzUp", "sslUp"}
    /\ reqLen + k <= MaxReqBytes
    /\ HttpServe(reqLen + k)
    /\ UNCHANGED <<running, secrets>>

\* readEOF / readErr: the peer hung up (or close() completed): finish().
ReadEOF ==
    /\ running
    /\ hs \in {"fizzUp", "sslUp", "closing"}
    /\ Finish

\* close() from the TerminalInputHandler at the end of standard input:
\* finish().
TerminalClose ==
    /\ running
    /\ inputHandler
    /\ Finish

-----------------------------------------------------------------------------
Next ==
    \/ \E p \in Peers : Connect(p)
    \/ ConnectionAccepted
    \/ AcceptError
    \/ ClientHello13
    \/ \E l \in Labels : SecretAvailable(l)
    \/ FizzHandshakeSuccess
    \/ FizzHandshakeError
    \/ FizzHandshakeAttemptFallback
    \/ HandshakeSuc
    \/ HandshakeErr
    \/ \E k \in 1..MaxChunk : ReadData(k)
    \/ ReadEOF
    \/ TerminalClose

Spec == Init /\ [][Next]_vars

\* Liveness: the event loop dispatches a ready accept callback.  Nothing
\* is assumed of the peers: a peer may keep its connection open forever,
\* and the server has no timeout.
FairSpec == Spec /\ WF_vars(ConnectionAccepted)

-----------------------------------------------------------------------------
(* Properties.                                                             *)

\* The handler never holds the TLS 1.3 transport and the legacy socket at
\* once: fizzHandshakeAttemptFallback releases transport_ before sslSocket_
\* takes over the fd.
TransportExclusive == ~(transport /\ sslSocket)

\* A session is live exactly when it is the acceptor's cb_: accepting is
\* paused while a handler lives, so connectionAccepted never replaces (and
\* destroys) a live handler, and done() is what ends a session.
HandlerNeverOrphaned == \A p \in Peers : status[p] = "active" <=> cb = p

\* Single-shot mode: done() releases the listening socket, so at most one
\* connection is ever accepted.
SingleConnection ==
    ~Loop => Cardinality({p \in Peers : status[p] \in {"active", "closed"}}) <= 1

\* The key log holds at most one line per session and label
\* (handshakeSuccessLog writes it; spec section 8).
KeyLogAtMostOnce == \A p \in Peers, l \in LogLabels : keyLog[p][l] <= 1

\* The HTTP responder answers a session at most once: after the response
\* it closes the transport and reads nothing more.
HttpRespondsOnce == \A p \in Peers : responses[p] <= 1

\* Spec section 4.4: every captured key-log secret is forwarded to the key
\* log; in particular, once a session is closed all its captured key-log
\* secrets have a line.
KeyLogCompleteAtClose ==
    KeyLogEnabled =>
        \A p \in Peers : status[p] = "closed" =>
            \A l \in secrets[p] \cap LogLabels : keyLog[p][l] >= 1

\* Loop mode: as long as sessions keep ending, every queued connection is
\* eventually accepted, because done() re-arms accepting on every path
\* that ends a session and the kernel queue is served oldest first.  A
\* session that never ends (a peer that keeps its connection open, as
\* after a non-GET request, line 435) stalls every other client; the
\* code has no timeout, so that is the hypothesis here, not an
\* assumption of fairness.
QueuedEventuallyServed ==
    []<>(cb = NoPeer) =>
        \A p \in Peers : status[p] = "queued" ~> status[p] = "active"

-----------------------------------------------------------------------------
(* Refinement: the acceptor seen through its listening socket, its accept  *)
(* queue and its handler slot is the service of AcceptorService.  Every    *)
(* handshake, secret, read and fallback step leaves that view alone;       *)
(* connectionAccepted is a Serve, finish() with done() an End,             *)
(* acceptError a Halt.                                                     *)
Service == INSTANCE AcceptorService
               WITH alive <- running, open <- listening, queue <- backlog,
                    current <- cb, status <- status

\* The server behaves as the service: connections are served one at a
\* time in arrival order, and single-shot mode serves one and closes.
ServiceSpec == Service!Spec

=============================================================================
