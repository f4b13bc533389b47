------------------------- MODULE FizzServerProofs -------------------------
(***************************************************************************)
(* Proofs about FizzServer for every value of the constants: the type      *)
(* invariant and the exclusivity of the two transport slots, and the       *)
(* acceptor's one-live-handler discipline, from one inductive invariant.   *)
(***************************************************************************)
EXTENDS FizzServer, TLAPS

(* The engine phase agrees with the handler's slots and with the acceptor: *)
(* this is what makes TransportExclusive and HandlerNeverOrphaned          *)
(* inductive.                                                              *)
PhaseConsistent ==
    /\ (cb = NoPeer) <=> (hs = "none")
    /\ hs \in {"chello", "tls13", "fizzUp"} => transport /\ ~sslSocket
    /\ hs \in {"sslAccept", "sslUp"} => sslSocket /\ ~transport
    /\ hs = "closing" => TransportExclusive /\ (transport \/ sslSocket)
    /\ hs = "none" => ~transport /\ ~sslSocket
    /\ accepting => cb = NoPeer /\ listening
    /\ cb # NoPeer => listening
    /\ inputHandler => cb # NoPeer

IInv == TypeOK /\ PhaseConsistent /\ HandlerNeverOrphaned

LEMMA InitIInv == Init => IInv
<1> SUFFICES ASSUME Init PROVE IInv
  OBVIOUS
<1>1. TypeOK
  <2>1. backlog \in Seq(Peers)
    BY DEF Init
  <2>2. reqLen \in 0..MaxReqBytes
    BY ConstantsAssumption DEF Init
  <2>3. keyLog \in [Peers -> [LogLabels -> Nat]]
    BY DEF Init
  <2>4. status \in [Peers -> Status]
    BY DEF Init, Status
  <2>6. secrets \in [Peers -> SUBSET Labels]
    <3>1. {} \in SUBSET Labels
      OBVIOUS
    <3>2. QED
      BY <3>1 DEF Init
  <2>7. responses \in [Peers -> Nat]
    BY DEF Init
  <2>8. /\ cb \in Peers \cup {NoPeer}
        /\ hs \in Phases
    BY DEF Init, Phases
  <2>9. /\ running \in BOOLEAN /\ listening \in BOOLEAN /\ accepting \in BOOLEAN
        /\ inputHandler \in BOOLEAN /\ transport \in BOOLEAN
        /\ sslSocket \in BOOLEAN /\ connected \in BOOLEAN /\ reqGet \in BOOLEAN
    BY Zenon DEF Init
  <2>5. QED
    BY <2>1, <2>2, <2>3, <2>4, <2>6, <2>7, <2>8, <2>9 DEF TypeOK
<1>2. PhaseConsistent
  BY DEF Init, PhaseConsistent
<1>3. HandlerNeverOrphaned
  BY ConstantsAssumption DEF Init, HandlerNeverOrphaned
<1>4. QED
  BY <1>1, <1>2, <1>3 DEF IInv

LEMMA NextIInv == IInv /\ [Next]_vars => IInv'
<1> SUFFICES ASSUME IInv, [Next]_vars PROVE IInv'
  OBVIOUS
<1> USE ConstantsAssumption DEF IInv, TypeOK, PhaseConsistent,
        HandlerNeverOrphaned, TransportExclusive, Phases, Status
<1>1. ASSUME NEW p \in Peers, Connect(p) PROVE IInv'
  BY <1>1 DEF Connect, handlerVars
<1>2. CASE ConnectionAccepted
  <2>1. /\ Head(backlog) \in Peers
        /\ Tail(backlog) \in Seq(Peers)
    BY <1>2 DEF ConnectionAccepted
  <2>2. /\ running' \in BOOLEAN /\ listening' \in BOOLEAN /\ accepting' \in BOOLEAN
        /\ inputHandler' \in BOOLEAN /\ transport' \in BOOLEAN
        /\ sslSocket' \in BOOLEAN /\ connected' \in BOOLEAN /\ reqGet' \in BOOLEAN
    BY <1>2, Zenon DEF ConnectionAccepted
  <2>3. TypeOK'
    BY <1>2, <2>1, <2>2 DEF ConnectionAccepted
  <2>4. PhaseConsistent'
    BY <1>2, <2>1 DEF ConnectionAccepted
  <2>5. HandlerNeverOrphaned'
    BY <1>2, <2>1 DEF ConnectionAccepted
  <2>6. QED
    BY <2>3, <2>4, <2>5
<1>3. CASE AcceptError
  BY <1>3 DEF AcceptError, handlerVars, sessionVars
<1>4. CASE ClientHello13
  BY <1>4 DEF ClientHello13, acceptorVars, sessionVars
<1>5. ASSUME NEW l \in Labels, SecretAvailable(l) PROVE IInv'
  BY <1>5 DEF SecretAvailable, acceptorVars, handlerVars, Labels
<1>6. CASE FizzHandshakeSuccess
  BY <1>6 DEF FizzHandshakeSuccess, WriteKeyLog, KeyLogWrites, acceptorVars
<1>7. ASSUME FinishHandler, UNCHANGED <<running, secrets>>,
             keyLog' \in [Peers -> [LogLabels -> Nat]],
             responses' \in [Peers -> Nat]
      PROVE  IInv'
  <2>1. cb \in Peers
    BY <1>7 DEF FinishHandler
  <2>2. status' \in [Peers -> Status]
    BY <1>7 DEF FinishHandler, Done
  <2>3. \A q \in Peers : status'[q] # "active"
    BY <1>7 DEF FinishHandler, Done
  <2>4. /\ running' \in BOOLEAN /\ listening' \in BOOLEAN /\ accepting' \in BOOLEAN
        /\ inputHandler' \in BOOLEAN /\ transport' \in BOOLEAN
        /\ sslSocket' \in BOOLEAN /\ connected' \in BOOLEAN /\ reqGet' \in BOOLEAN
    BY <1>7, Zenon DEF FinishHandler, Done
  <2>5. backlog' \in Seq(Peers)
    <3>1. CASE Loop
      BY <1>7, <3>1 DEF FinishHandler, Done
    <3>2. CASE ~Loop
      BY <1>7, <3>2 DEF FinishHandler, Done
    <3>3. QED
      BY <3>1, <3>2
  <2>6. /\ cb' = NoPeer /\ hs' = "none" /\ ~transport' /\ ~sslSocket'
        /\ ~inputHandler'
    BY <1>7 DEF FinishHandler, Done
  <2>7. TypeOK'
    BY <1>7, <2>2, <2>4, <2>5, <2>6 DEF FinishHandler
  <2>11. accepting' => listening'
    <3>1. CASE Loop
      BY <1>7, <2>1, <3>1 DEF FinishHandler, Done
    <3>2. CASE ~Loop
      BY <1>7, <3>2 DEF FinishHandler, Done
    <3>3. QED
      BY <3>1, <3>2
  <2>8. PhaseConsistent'
    BY <2>6, <2>11, Zenon DEF PhaseConsistent
  <2>9. HandlerNeverOrphaned'
    BY <2>3, <2>6 DEF HandlerNeverOrphaned
  <2>10. QED
    BY <2>7, <2>8, <2>9
<1>17. ASSUME Finish PROVE IInv'
  BY <1>7, <1>17 DEF Finish
<1>8. CASE FizzHandshakeError
  BY <1>17, <1>8 DEF FizzHandshakeError
<1>9. CASE FizzHandshakeAttemptFallback
  <2>1. /\ hs = "chello"
        /\ transport' = FALSE /\ sslSocket' = TRUE /\ hs' = "sslAccept"
        /\ UNCHANGED <<acceptorVars, connected, reqLen, reqGet, sessionVars>>
    BY <1>9 DEF FizzHandshakeAttemptFallback
  <2>2. TypeOK'
    BY <2>1, Zenon DEF acceptorVars, sessionVars
  <2>3. PhaseConsistent' /\ HandlerNeverOrphaned'
    BY <2>1 DEF acceptorVars, sessionVars
  <2>4. QED
    BY <2>2, <2>3
<1>10. CASE HandshakeSuc
  BY <1>10 DEF HandshakeSuc, acceptorVars, sessionVars
<1>11. CASE HandshakeErr
  BY <1>17, <1>11 DEF HandshakeErr
<1>12. ASSUME NEW k \in 1..MaxChunk, ReadData(k) PROVE IInv'
  <2>1. /\ hs \in {"fizzUp", "sslUp"}
        /\ cb \in Peers
        /\ reqLen + k \in 0..MaxReqBytes
        /\ UNCHANGED <<running, secrets>>
        /\ HttpServe(reqLen + k)
    BY <1>12 DEF ReadData
  <2>2. CASE reqLen + k >= GetPrefixLen /\ reqGet
    <3>0. /\ responses' = [responses EXCEPT ![cb] = @ + 1]
          /\ IF transport THEN WriteKeyLog ELSE UNCHANGED keyLog
          /\ CloseTransport(reqLen + k)
      BY <2>1, <2>2 DEF HttpServe
    <3>1. /\ responses' \in [Peers -> Nat]
          /\ keyLog' \in [Peers -> [LogLabels -> Nat]]
      <4>1. responses' \in [Peers -> Nat]
        BY <2>1, <3>0
      <4>2. ASSUME transport PROVE keyLog' \in [Peers -> [LogLabels -> Nat]]
        <5>1. WriteKeyLog
          BY <3>0, <4>2, Zenon
        <5>2. QED
          BY <2>1, <5>1 DEF WriteKeyLog, KeyLogWrites
      <4>3. ASSUME ~transport PROVE keyLog' \in [Peers -> [LogLabels -> Nat]]
        <5>1. keyLog' = keyLog
          BY <3>0, <4>3, Zenon
        <5>2. QED
          BY <5>1
      <4>4. QED
        BY <4>1, <4>2, <4>3
    <3>2. CASE /\ hs' = "closing"
               /\ reqLen' = reqLen + k
               /\ UNCHANGED <<acceptorVars, transport, sslSocket, connected,
                              reqGet, status>>
      <4>1. TypeOK'
        BY <2>1, <3>1, <3>2, Zenon DEF acceptorVars
      <4>2. PhaseConsistent' /\ HandlerNeverOrphaned'
        BY <2>1, <3>2, Zenon DEF acceptorVars
      <4>3. QED
        BY <4>1, <4>2
    <3>3. CASE FinishHandler
      BY <1>7, <2>1, <3>1, <3>3
    <3>4. QED
      BY <3>0, <3>2, <3>3 DEF CloseTransport
  <2>3. CASE ~(reqLen + k >= GetPrefixLen /\ reqGet)
    <3>1. KeepRequest(reqLen + k)
      BY <2>1, <2>3 DEF HttpServe
    <3>2. TypeOK'
      BY <2>1, <3>1, Zenon DEF KeepRequest, acceptorVars
    <3>3. PhaseConsistent' /\ HandlerNeverOrphaned'
      BY <2>1, <3>1 DEF KeepRequest, acceptorVars
    <3>4. QED
      BY <3>2, <3>3
  <2>4. QED
    BY <2>2, <2>3
<1>13. CASE ReadEOF
  BY <1>17, <1>13 DEF ReadEOF
<1>14. CASE TerminalClose
  BY <1>17, <1>14 DEF TerminalClose
<1>15. CASE UNCHANGED vars
  BY <1>15 DEF vars, acceptorVars, handlerVars, sessionVars
<1>16. QED
  BY <1>1, <1>2, <1>3, <1>4, <1>5, <1>6, <1>8, <1>9, <1>10, <1>11, <1>12,
     <1>13, <1>14, <1>15 DEF Next

\* Type correctness of FizzServer for every choice of the constants.
THEOREM TypeCorrect == Spec => []TypeOK
<1>1. Spec => []IInv
  BY InitIInv, NextIInv, PTL DEF Spec
<1>2. QED
  BY <1>1, PTL DEF IInv

\* fizzHandshakeAttemptFallback releases the TLS 1.3 transport before the
\* legacy socket takes the fd, and finish() clears both: the handler never
\* holds both transports.
THEOREM TransportExclusiveHolds == Spec => []TransportExclusive
<1>1. IInv => TransportExclusive
  BY DEF IInv, PhaseConsistent, TransportExclusive, TypeOK, Phases
<1>2. QED
  BY <1>1, InitIInv, NextIInv, PTL DEF Spec

\* Because connectionAccepted pauses accepting and done() releases cb_
\* before re-arming it, a live session is always the acceptor's handler.
THEOREM HandlerNeverOrphanedHolds == Spec => []HandlerNeverOrphaned
  BY InitIInv, NextIInv, PTL DEF Spec, IInv

=============================================================================
