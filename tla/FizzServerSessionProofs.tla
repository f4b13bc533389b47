---------------------- MODULE FizzServerSessionProofs ----------------------
(***************************************************************************)
(* Proofs about one session at a time: the HTTP responder answers once,    *)
(* the key log holds at most one line per secret when the HTTP responder   *)
(* is off, and a single-shot server serves one connection.  Each rests on *)
(* IInv of FizzServerProofs and on an invariant of its own that relates    *)
(* the live session to the queue.                                          *)
(***************************************************************************)
EXTENDS FizzServerProofs, FiniteSetTheorems

\* A queued connection has not been answered, and the live session has been
\* answered only once its transport is closing (or it is gone).
RespondInv ==
    /\ \A p \in Peers : responses[p] \in {0, 1}
    /\ \A p \in Queued : responses[p] = 0
    /\ cb # NoPeer /\ hs # "closing" => responses[cb] = 0

\* Key-log lines: at most one per secret, none for a queued connection, and
\* none for the live session before its TLS 1.3 handshake succeeds.
KeyLogInv ==
    /\ \A p \in Peers, l \in LogLabels : keyLog[p][l] \in {0, 1}
    /\ \A p \in Queued, l \in LogLabels : keyLog[p][l] = 0
    /\ cb # NoPeer /\ hs \in {"chello", "tls13"} =>
           \A l \in LogLabels : keyLog[cb][l] = 0

\* Single-shot mode: a closed session means the listening socket is gone,
\* and at most one session is active or closed.
SingleInv ==
    ~Loop =>
        /\ \A p \in Peers : status[p] = "closed" => ~listening
        /\ \A p, q \in Peers :
               status[p] \in {"active", "closed"} /\ status[q] \in {"active", "closed"}
                   => p = q

\* The kernel queue holds each waiting peer once, and only waiting peers.
QueueInv ==
    /\ \A p \in Queued : status[p] = "queued"
    /\ \A i, j \in DOMAIN backlog : backlog[i] = backlog[j] => i = j

-----------------------------------------------------------------------------
(* The queue.                                                              *)

\* finish() touches the queue only through done(): it keeps it (loop) or
\* empties it, and only the live session changes status.
LEMMA FinishQueue ==
    ASSUME IInv, QueueInv, FinishHandler
    PROVE  QueueInv'
<1> USE ConstantsAssumption
<1>1. cb \in Peers /\ status[cb] = "active"
  BY DEF FinishHandler, IInv, PhaseConsistent, TypeOK, Phases, HandlerNeverOrphaned
<1>2. CASE Loop
  <2>1. backlog' = backlog /\ \A p \in Queued : p # cb
    BY <1>1, <1>2 DEF FinishHandler, Done, QueueInv
  <2>2. \A p \in Queued : status'[p] = status[p]
    <3>1. Queued \subseteq Peers
      BY DEF IInv, TypeOK, Queued
    <3>2. QED
      BY <1>1, <1>2, <2>1, <3>1 DEF FinishHandler, Done
  <2>3. QED
    BY <2>1, <2>2 DEF QueueInv, Queued
<1>3. CASE ~Loop
  BY <1>3 DEF FinishHandler, Done, QueueInv, Queued
<1>4. QED
  BY <1>2, <1>3

LEMMA QueueStep == IInv /\ QueueInv /\ [Next]_vars => QueueInv'
<1> SUFFICES ASSUME IInv, QueueInv, [Next]_vars PROVE QueueInv'
  OBVIOUS
<1> USE ConstantsAssumption
<1>1. ASSUME NEW p \in Peers, Connect(p) PROVE QueueInv'
  <2>1. p \notin Queued
    BY <1>1 DEF Connect, QueueInv
  <2>2. /\ backlog' = Append(backlog, p)
        /\ status' = [status EXCEPT ![p] = "queued"]
        /\ backlog \in Seq(Peers)
        /\ status \in [Peers -> Status]
    BY <1>1 DEF Connect, IInv, TypeOK
  <2>3. \A q \in Queued' : status'[q] = "queued"
    BY <2>2 DEF QueueInv, Queued
  <2>4. \A i, j \in DOMAIN backlog' : backlog'[i] = backlog'[j] => i = j
    BY <2>1, <2>2 DEF QueueInv, Queued
  <2>5. QED
    BY <2>3, <2>4 DEF QueueInv
<1>2. CASE ConnectionAccepted
  <2>1. /\ backlog \in Seq(Peers) /\ backlog # <<>>
        /\ backlog' = Tail(backlog)
        /\ status' = [status EXCEPT ![Head(backlog)] = "active"]
        /\ status \in [Peers -> Status]
    BY <1>2 DEF ConnectionAccepted, IInv, TypeOK
  <2>2. \A i \in DOMAIN backlog' : backlog'[i] = backlog[i + 1] /\ backlog[i + 1] # Head(backlog)
    BY <2>1 DEF QueueInv
  <2>3. \A q \in Queued' : status'[q] = "queued"
    BY <2>1, <2>2 DEF QueueInv, Queued
  <2>4. \A i, j \in DOMAIN backlog' : backlog'[i] = backlog'[j] => i = j
    BY <2>1, <2>2 DEF QueueInv
  <2>5. QED
    BY <2>3, <2>4 DEF QueueInv
<1>3. CASE UNCHANGED <<backlog, status>>
  BY <1>3 DEF QueueInv, Queued
<1>4. ASSUME FinishHandler PROVE QueueInv'
  BY <1>4, FinishQueue
<1>5. ASSUME NEW k \in 1..MaxChunk, ReadData(k) PROVE QueueInv'
  <2>1. HttpServe(reqLen + k)
    BY <1>5 DEF ReadData
  <2>2. CASE reqLen + k >= GetPrefixLen /\ reqGet
    <3>1. CloseTransport(reqLen + k)
      BY <2>1, <2>2 DEF HttpServe
    <3>2. QED
      BY <3>1, <1>3, <1>4 DEF CloseTransport, acceptorVars
  <2>3. CASE ~(reqLen + k >= GetPrefixLen /\ reqGet)
    BY <2>1, <2>3, <1>3 DEF HttpServe, KeepRequest, acceptorVars
  <2>4. QED
    BY <2>2, <2>3
<1>6. QED
  <2>1. CASE AcceptError \/ ClientHello13 \/ FizzHandshakeSuccess
             \/ FizzHandshakeAttemptFallback \/ HandshakeSuc
             \/ \E l \in Labels : SecretAvailable(l)
    BY <2>1, <1>3 DEF AcceptError, ClientHello13, FizzHandshakeSuccess,
       FizzHandshakeAttemptFallback, HandshakeSuc, SecretAvailable,
       acceptorVars, sessionVars
  <2>2. CASE FizzHandshakeError \/ HandshakeErr \/ ReadEOF \/ TerminalClose
    BY <2>2, <1>4 DEF FizzHandshakeError, HandshakeErr, ReadEOF, TerminalClose, Finish
  <2>3. CASE UNCHANGED vars
    BY <2>3, <1>3 DEF vars, acceptorVars, sessionVars
  <2>4. QED
    BY <1>1, <1>2, <1>5, <2>1, <2>2, <2>3 DEF Next

\* A connect appends the peer to the queue.
LEMMA ConnectQueued ==
    ASSUME IInv, NEW p \in Peers, Connect(p)
    PROVE  Queued' = Queued \cup {p}
<1>1. backlog' = Append(backlog, p) /\ backlog \in Seq(Peers)
  BY DEF Connect, IInv, TypeOK
<1>2. /\ DOMAIN backlog' = 1..(Len(backlog) + 1)
      /\ \A i \in 1..Len(backlog) : backlog'[i] = backlog[i]
      /\ backlog'[Len(backlog) + 1] = p
      /\ DOMAIN backlog = 1..Len(backlog)
  BY <1>1
<1>3. QED
  BY <1>2 DEF Queued

\* An accept takes the head of the queue and leaves the rest.
LEMMA AcceptQueued ==
    ASSUME IInv, ConnectionAccepted
    PROVE  Head(backlog) \in Queued /\ Queued' \subseteq Queued
BY DEF ConnectionAccepted, IInv, TypeOK, Queued

\* finish() ends the live session and keeps or empties the queue.
LEMMA FinishQueued ==
    ASSUME FinishHandler
    PROVE  cb' = NoPeer /\ Queued' \subseteq Queued
BY DEF FinishHandler, Done, Queued

-----------------------------------------------------------------------------
(* The HTTP responder answers once.                                        *)

\* A queued peer is never the live session.
LEMMA QueuedNotLive ==
    ASSUME IInv, QueueInv, NEW p \in Queued
    PROVE  p # cb
<1>1. status[p] = "queued"
  BY DEF QueueInv
<1>2. p \in Peers
  BY DEF IInv, TypeOK, Queued
<1>3. QED
  BY <1>1, <1>2 DEF IInv, HandlerNeverOrphaned

\* finish() ends the live session and keeps or empties the queue, so the
\* response count of the session it ends, 0 or 1, can no longer grow.
LEMMA FinishRespond ==
    ASSUME IInv, QueueInv, RespondInv, FinishHandler,
           responses' \in [Peers -> Nat],
           \A p \in Peers : p # cb => responses'[p] = responses[p],
           responses'[cb] \in {0, 1}
    PROVE  RespondInv'
<1> USE ConstantsAssumption
<1>1. cb' = NoPeer /\ Queued' \subseteq Queued
  BY FinishQueued
<1>2. \A p \in Peers : responses'[p] \in {0, 1}
  BY DEF RespondInv
<1>3. ASSUME NEW p \in Queued' PROVE responses'[p] = 0
  <2>1. p \in Queued
    BY <1>1
  <2>2. p # cb /\ p \in Peers
    BY <2>1, QueuedNotLive DEF IInv, TypeOK, Queued
  <2>3. QED
    BY <2>1, <2>2 DEF RespondInv
<1>4. QED
  BY <1>1, <1>2, <1>3 DEF RespondInv

LEMMA RespondStep ==
    IInv /\ QueueInv /\ RespondInv /\ [Next]_vars => RespondInv'
<1> SUFFICES ASSUME IInv, QueueInv, RespondInv, [Next]_vars PROVE RespondInv'
  OBVIOUS
<1> USE ConstantsAssumption
<1>0. /\ cb \in Peers \cup {NoPeer} /\ responses \in [Peers -> Nat]
      /\ backlog \in Seq(Peers) /\ hs \in Phases
  BY DEF IInv, TypeOK
<1>1. ASSUME NEW p \in Peers, Connect(p) PROVE RespondInv'
  <2>1. Queued' = Queued \cup {p}
    BY <1>1, ConnectQueued
  <2>2. QED
    BY <1>0, <1>1, <2>1 DEF Connect, RespondInv, handlerVars
<1>2. CASE ConnectionAccepted
  <2>1. Head(backlog) \in Queued /\ Queued' \subseteq Queued
    BY <1>2, AcceptQueued
  <2>2. QED
    BY <1>2, <2>1 DEF ConnectionAccepted, RespondInv
<1>3. CASE UNCHANGED <<responses, backlog, cb>> /\ hs # "closing" /\ hs' # "closing"
  BY <1>3 DEF RespondInv, Queued
<1>4. ASSUME FinishHandler, UNCHANGED responses PROVE RespondInv'
  <2>1. cb \in Peers
    BY <1>4 DEF FinishHandler, IInv, PhaseConsistent, TypeOK, Phases
  <2>2. responses'[cb] \in {0, 1}
    BY <1>4, <2>1 DEF RespondInv
  <2>3. QED
    BY <1>0, <1>4, <2>2, FinishRespond
<1>5. ASSUME NEW k \in 1..MaxChunk, ReadData(k) PROVE RespondInv'
  <2>1. /\ HttpServe(reqLen + k)
        /\ hs \in {"fizzUp", "sslUp"}
        /\ cb \in Peers
        /\ responses[cb] = 0
    <3>1. HttpServe(reqLen + k) /\ hs \in {"fizzUp", "sslUp"}
      BY <1>5 DEF ReadData
    <3>2. cb \in Peers
      BY <3>1 DEF IInv, PhaseConsistent, TypeOK
    <3>3. QED
      BY <3>1, <3>2 DEF RespondInv
  <2>2. CASE reqLen + k >= GetPrefixLen /\ reqGet
    <3>1. /\ responses' = [responses EXCEPT ![cb] = @ + 1]
          /\ CloseTransport(reqLen + k)
      BY <2>1, <2>2 DEF HttpServe
    <3>2. /\ responses' \in [Peers -> Nat]
          /\ \A p \in Peers : p # cb => responses'[p] = responses[p]
          /\ responses'[cb] = 1
      BY <1>0, <2>1, <3>1
    <3>3. CASE /\ hs' = "closing"
               /\ UNCHANGED <<acceptorVars, transport, sslSocket, connected,
                              reqGet, status>>
      <4>1. \A p \in Queued : p # cb
        BY QueuedNotLive
      <4>2. backlog' = backlog /\ cb' = cb
        BY <3>3 DEF acceptorVars
      <4>3. \A p \in Peers : responses'[p] \in {0, 1}
        BY <3>2 DEF RespondInv
      <4>4. \A p \in Queued' : responses'[p] = 0
        BY <3>2, <4>1, <4>2 DEF RespondInv, Queued, IInv, TypeOK
      <4>5. QED
        BY <3>3, <4>3, <4>4 DEF RespondInv
    <3>4. CASE FinishHandler
      BY <3>2, <3>4, FinishRespond
    <3>5. QED
      BY <3>1, <3>3, <3>4 DEF CloseTransport
  <2>3. CASE ~(reqLen + k >= GetPrefixLen /\ reqGet)
    BY <2>1, <2>3 DEF HttpServe, KeepRequest, acceptorVars, RespondInv, Queued
  <2>4. QED
    BY <2>2, <2>3
<1>6. QED
  <2>1. CASE AcceptError
    BY <2>1 DEF AcceptError, RespondInv, Queued, sessionVars, handlerVars
  <2>2. CASE ClientHello13
    BY <2>2, <1>3 DEF ClientHello13, acceptorVars, sessionVars
  <2>6. CASE FizzHandshakeSuccess
    BY <2>6, <1>3 DEF FizzHandshakeSuccess, acceptorVars
  <2>7. CASE FizzHandshakeAttemptFallback
    BY <2>7, <1>3 DEF FizzHandshakeAttemptFallback, acceptorVars, sessionVars
  <2>8. CASE HandshakeSuc
    BY <2>8, <1>3 DEF HandshakeSuc, acceptorVars, sessionVars
  <2>9. ASSUME NEW l \in Labels, SecretAvailable(l) PROVE RespondInv'
    BY <2>9, <1>3 DEF SecretAvailable, acceptorVars, handlerVars
  <2>3. CASE FizzHandshakeError \/ HandshakeErr \/ ReadEOF \/ TerminalClose
    BY <2>3, <1>4 DEF FizzHandshakeError, HandshakeErr, ReadEOF, TerminalClose, Finish
  <2>4. CASE UNCHANGED vars
    BY <2>4 DEF vars, acceptorVars, handlerVars, sessionVars, RespondInv, Queued
  <2>5. QED
    BY <1>1, <1>2, <1>5, <2>1, <2>2, <2>3, <2>4, <2>6, <2>7, <2>8, <2>9
    DEF Next

\* With an inductive invariant of everything RespondStep needs.
THEOREM HttpRespondsOnceHolds == Spec => []HttpRespondsOnce
<1>1. Init => IInv /\ QueueInv /\ RespondInv
  BY InitIInv DEF Init, QueueInv, RespondInv, Queued
<1>2. IInv /\ QueueInv /\ RespondInv /\ [Next]_vars
        => (IInv /\ QueueInv /\ RespondInv)'
  BY NextIInv, QueueStep, RespondStep
<1>3. RespondInv => HttpRespondsOnce
  BY DEF RespondInv, HttpRespondsOnce
<1>4. QED
  BY <1>1, <1>2, <1>3, PTL DEF Spec

-----------------------------------------------------------------------------
(* The key log.                                                            *)

\* One call of handshakeSuccessLog adds a line for each captured logged
\* secret of the live session, and nothing else.
LEMMA WriteKeyLogCount ==
    ASSUME TypeOK, WriteKeyLog, NEW p \in Peers, NEW l \in LogLabels
    PROVE  keyLog'[p][l] =
               keyLog[p][l] + (IF p = cb /\ l \in KeyLogWrites(cb) THEN 1 ELSE 0)
BY DEF TypeOK, WriteKeyLog

\* Without the HTTP responder, handshakeSuccessLog runs once per session, at
\* fizzHandshakeSuccess, and finds the session's key-log lines still empty.
LEMMA KeyLogStep ==
    ASSUME ~Http, IInv, QueueInv, KeyLogInv, [Next]_vars
    PROVE  KeyLogInv'
<1> USE ConstantsAssumption
<1>0. TypeOK /\ PhaseConsistent
  BY DEF IInv
<1>1. CASE /\ keyLog' = keyLog
           /\ Queued' \subseteq Queued
           /\ cb' # NoPeer /\ hs' \in {"chello", "tls13"}
                => cb' = cb /\ hs \in {"chello", "tls13"}
  BY <1>1 DEF KeyLogInv
<1>2. ASSUME NEW p \in Peers, Connect(p) PROVE KeyLogInv'
  <2>1. Queued' = Queued \cup {p}
    BY <1>2, ConnectQueued
  <2>2. keyLog' = [keyLog EXCEPT ![p] = [l \in LogLabels |-> 0]]
        /\ UNCHANGED <<cb, hs>>
    BY <1>2 DEF Connect, handlerVars
  <2>3. QED
    BY <1>0, <2>1, <2>2 DEF KeyLogInv, TypeOK
<1>3. CASE ConnectionAccepted
  <2>1. Head(backlog) \in Queued /\ Queued' \subseteq Queued
    BY <1>3, AcceptQueued
  <2>2. keyLog' = keyLog /\ cb' = Head(backlog)
    BY <1>3 DEF ConnectionAccepted
  <2>3. QED
    BY <2>1, <2>2 DEF KeyLogInv
<1>4. CASE FizzHandshakeSuccess
  <2>1. hs = "tls13" /\ hs' = "fizzUp" /\ WriteKeyLog
        /\ UNCHANGED <<cb, backlog>>
    BY <1>4 DEF FizzHandshakeSuccess, acceptorVars
  <2>2. cb \in Peers
    BY <1>0, <2>1 DEF PhaseConsistent, TypeOK
  <2>3. \A l \in LogLabels : keyLog[cb][l] = 0
    BY <2>1, <2>2 DEF KeyLogInv
  <2>4. ASSUME NEW p \in Peers, NEW l \in LogLabels PROVE keyLog'[p][l] \in {0, 1}
    <3>1. CASE p = cb
      BY <1>0, <2>1, <2>3, <3>1, WriteKeyLogCount DEF TypeOK
    <3>2. CASE p # cb
      BY <1>0, <2>1, <3>2, WriteKeyLogCount DEF TypeOK, KeyLogInv
    <3>3. QED
      BY <3>1, <3>2
  <2>5. ASSUME NEW p \in Queued', NEW l \in LogLabels PROVE keyLog'[p][l] = 0
    <3>1. p \in Queued /\ p \in Peers
      BY <1>0, <2>1 DEF Queued, TypeOK
    <3>2. p # cb
      BY <3>1, QueuedNotLive
    <3>3. QED
      BY <1>0, <2>1, <3>1, <3>2, WriteKeyLogCount DEF TypeOK, KeyLogInv
  <2>6. QED
    BY <2>1, <2>4, <2>5 DEF KeyLogInv
<1>5. CASE Finish \/ FizzHandshakeError \/ HandshakeErr \/ ReadEOF \/ TerminalClose
  <2>1. Finish
    BY <1>5 DEF FizzHandshakeError, HandshakeErr, ReadEOF, TerminalClose
  <2>2. cb' = NoPeer /\ Queued' \subseteq Queued /\ keyLog' = keyLog
    BY <2>1, FinishQueued DEF Finish
  <2>3. QED
    BY <2>2, <1>1
<1>6. CASE AcceptError \/ ClientHello13 \/ FizzHandshakeAttemptFallback
           \/ HandshakeSuc \/ UNCHANGED vars
  BY <1>6, <1>1 DEF AcceptError, ClientHello13, FizzHandshakeAttemptFallback,
     HandshakeSuc, vars, acceptorVars, sessionVars, handlerVars, Queued
<1>7. ASSUME NEW l \in Labels, SecretAvailable(l) PROVE KeyLogInv'
  BY <1>7, <1>1 DEF SecretAvailable, acceptorVars, handlerVars, Queued
<1>8. ASSUME NEW k \in 1..MaxChunk, ReadData(k) PROVE FALSE
  BY <1>8 DEF ReadData
<1>9. QED
  BY <1>2, <1>3, <1>4, <1>5, <1>6, <1>7, <1>8 DEF Next

\* Without -http the key log holds at most one line per session and
\* secret: handshakeSuccessLog is called once, from fizzHandshakeSuccess.
\* (With -http, respondHandshakeSuccess calls it again; the run
\* keylog_http_duplicate shows the second line.)
THEOREM KeyLogAtMostOnceWithoutHttp ==
    ASSUME ~Http PROVE Spec => []KeyLogAtMostOnce
<1> DEFINE KInv == IInv /\ QueueInv /\ KeyLogInv
<1>1. Init => KInv
  BY InitIInv DEF Init, QueueInv, KeyLogInv, Queued
<1>2. KInv /\ [Next]_vars => KInv'
  BY NextIInv, QueueStep, KeyLogStep
<1>3. KInv => KeyLogAtMostOnce
  BY DEF KeyLogInv, KeyLogAtMostOnce
<1>4. QED
  BY <1>1, <1>2, <1>3, PTL DEF Spec

-----------------------------------------------------------------------------
(* Single-shot mode.                                                       *)

\* A set of peers of which any two are equal has at most one element.
LEMMA AtMostOneElement ==
    ASSUME NEW S, \A p, q \in S : p = q
    PROVE  Cardinality(S) <= 1
<1>1. CASE S = {}
  BY <1>1, FS_EmptySet
<1>2. CASE S # {}
  <2>1. PICK x \in S : TRUE
    BY <1>2
  <2>2. S = {x}
    BY <2>1
  <2>3. QED
    BY <2>2, FS_Singleton
<1>3. QED
  BY <1>1, <1>2

\* Without -loop, done() releases the listening socket when the one
\* accepted session ends, and connectionAccepted finds no session active or
\* closed while the socket still listens.
LEMMA SingleStep ==
    IInv /\ SingleInv /\ [Next]_vars => SingleInv'
<1> SUFFICES ASSUME IInv, SingleInv, [Next]_vars, ~Loop PROVE SingleInv'
  BY DEF SingleInv
<1> USE ConstantsAssumption
<1>0. TypeOK /\ PhaseConsistent /\ HandlerNeverOrphaned
  BY DEF IInv
<1>1. CASE status' = status /\ listening' = listening
  BY <1>1 DEF SingleInv
<1>2. ASSUME NEW p \in Peers, Connect(p) PROVE SingleInv'
  <2>1. listening /\ listening' = listening
        /\ status[p] \in {"idle", "dropped"}
        /\ status' = [status EXCEPT ![p] = "queued"]
    BY <1>2 DEF Connect, SingleInv
  <2>2. QED
    BY <1>0, <2>1 DEF SingleInv, TypeOK
<1>3. CASE ConnectionAccepted
  <2>1. listening /\ cb = NoPeer
    BY <1>0, <1>3 DEF ConnectionAccepted, PhaseConsistent
  <2>2. \A q \in Peers : status[q] \notin {"active", "closed"}
    BY <1>0, <2>1 DEF SingleInv, HandlerNeverOrphaned
  <2>3. /\ listening' = listening
        /\ status' = [status EXCEPT ![Head(backlog)] = "active"]
    BY <1>3 DEF ConnectionAccepted
  <2>4. QED
    BY <1>0, <2>2, <2>3 DEF SingleInv, TypeOK
<1>4. ASSUME FinishHandler PROVE SingleInv'
  <2>1. cb \in Peers
    BY <1>4, <1>0 DEF FinishHandler, PhaseConsistent, TypeOK
  <2>2. \A q \in Peers : q # cb => status[q] \notin {"active", "closed"}
    BY <1>0, <2>1 DEF SingleInv, HandlerNeverOrphaned
  <2>3. /\ listening' = FALSE
        /\ status' = [q \in Peers |->
                        IF q = cb THEN "closed"
                        ELSE IF q \in Queued THEN "dropped"
                        ELSE status[q]]
    BY <1>4 DEF FinishHandler, Done
  <2>4. QED
    BY <2>2, <2>3 DEF SingleInv
<1>5. CASE Finish \/ FizzHandshakeError \/ HandshakeErr \/ ReadEOF \/ TerminalClose
  BY <1>5, <1>4 DEF Finish, FizzHandshakeError, HandshakeErr, ReadEOF, TerminalClose
<1>6. ASSUME NEW k \in 1..MaxChunk, ReadData(k) PROVE SingleInv'
  <2>1. HttpServe(reqLen + k)
    BY <1>6 DEF ReadData
  <2>2. CASE FinishHandler
    BY <2>2, <1>4
  <2>3. CASE status' = status /\ listening' = listening
    BY <2>3, <1>1
  <2>4. QED
    BY <2>1, <2>2, <2>3 DEF HttpServe, CloseTransport, KeepRequest, acceptorVars
<1>7. CASE AcceptError \/ ClientHello13 \/ FizzHandshakeSuccess
           \/ FizzHandshakeAttemptFallback \/ HandshakeSuc \/ UNCHANGED vars
  BY <1>7, <1>1 DEF AcceptError, ClientHello13, FizzHandshakeSuccess,
     FizzHandshakeAttemptFallback, HandshakeSuc, vars, acceptorVars,
     sessionVars
<1>8. ASSUME NEW l \in Labels, SecretAvailable(l) PROVE SingleInv'
  BY <1>8, <1>1 DEF SecretAvailable, acceptorVars
<1>9. QED
  BY <1>2, <1>3, <1>5, <1>6, <1>7, <1>8 DEF Next

\* Single-shot mode serves at most one connection: done() releases the
\* listening socket, so no second connectionAccepted can follow.
THEOREM SingleConnectionHolds == Spec => []SingleConnection
<1>1. Init => IInv /\ SingleInv
  BY InitIInv DEF Init, SingleInv
<1>2. IInv /\ SingleInv /\ [Next]_vars => (IInv /\ SingleInv)'
  BY NextIInv, SingleStep
<1>3. SingleInv => SingleConnection
  <2> SUFFICES ASSUME SingleInv, ~Loop
               PROVE  Cardinality({p \in Peers : status[p] \in {"active", "closed"}}) <= 1
    BY DEF SingleConnection
  <2>1. \A p, q \in {p \in Peers : status[p] \in {"active", "closed"}} : p = q
    BY DEF SingleInv
  <2>2. QED
    BY <2>1, AtMostOneElement
<1>4. QED
  BY <1>1, <1>2, <1>3, PTL DEF Spec

=============================================================================
