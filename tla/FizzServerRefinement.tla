------------------------ MODULE FizzServerRefinement ------------------------
(***************************************************************************)
(* Proof that FizzServer implements AcceptorService under the mapping of   *)
(* FizzServer!Service: every step of the server is a step of the service   *)
(* or leaves the acceptor's view unchanged.  The invariant IInv of         *)
(* FizzServerProofs supplies the two facts the mapping needs: a held       *)
(* transport means a live handler (so finish() is an End), and accepting   *)
(* means no handler and an open socket (so connectionAccepted is a Serve   *)
(* and acceptError a Halt).                                                *)
(***************************************************************************)
EXTENDS FizzServerProofs

\* The acceptor's view: the variables the mapping substitutes.
serviceVars == <<running, listening, backlog, cb, status>>

\* finish(), from any callback that keeps the event loop running, is the
\* service's End.
LEMMA FinishIsEnd ==
    ASSUME IInv, running, FinishHandler, running' = running
    PROVE  Service!End
<1> USE ConstantsAssumption
<1>1. cb # NoPeer
  BY DEF FinishHandler, IInv, PhaseConsistent, TypeOK, Phases
<1>2. QED
  BY <1>1 DEF FinishHandler, Done, Service!End, Service!Waiting, Queued

\* Every step of the server is a step of the service or a stutter of its
\* view.
LEMMA StepRefines == IInv /\ [Next]_vars => [Service!Next]_serviceVars
<1> SUFFICES ASSUME IInv, [Next]_vars PROVE [Service!Next]_serviceVars
  OBVIOUS
<1> USE ConstantsAssumption
<1>1. ASSUME NEW p \in Peers, Connect(p) PROVE Service!Next
  <2>1. Service!Arrive(p)
    BY <1>1 DEF Connect, Service!Arrive
  <2>2. QED
    BY <2>1 DEF Service!Next
<1>2. CASE ConnectionAccepted
  <2>1. Service!Serve
    BY <1>2 DEF ConnectionAccepted, Service!Serve, IInv, PhaseConsistent
  <2>2. QED
    BY <2>1 DEF Service!Next
<1>3. CASE AcceptError
  <2>1. Service!Halt
    BY <1>3 DEF AcceptError, Service!Halt, IInv, PhaseConsistent, sessionVars
  <2>2. QED
    BY <2>1 DEF Service!Next
<1>4. ASSUME running, FinishHandler, running' = running PROVE Service!Next
  BY <1>4, FinishIsEnd DEF Service!Next
<1>5. CASE ClientHello13
  BY <1>5 DEF ClientHello13, acceptorVars, sessionVars, serviceVars
<1>6. ASSUME NEW l \in Labels, SecretAvailable(l) PROVE UNCHANGED serviceVars
  BY <1>6 DEF SecretAvailable, acceptorVars, serviceVars
<1>7. CASE FizzHandshakeSuccess
  BY <1>7 DEF FizzHandshakeSuccess, acceptorVars, serviceVars
<1>8. CASE FizzHandshakeAttemptFallback
  BY <1>8 DEF FizzHandshakeAttemptFallback, acceptorVars, sessionVars, serviceVars
<1>9. CASE HandshakeSuc
  BY <1>9 DEF HandshakeSuc, acceptorVars, sessionVars, serviceVars
<1>10. CASE FizzHandshakeError \/ HandshakeErr \/ ReadEOF \/ TerminalClose
  <2>1. running /\ Finish
    BY <1>10 DEF FizzHandshakeError, HandshakeErr, ReadEOF, TerminalClose
  <2>2. QED
    BY <2>1, <1>4 DEF Finish
<1>11. ASSUME NEW k \in 1..MaxChunk, ReadData(k) PROVE [Service!Next]_serviceVars
  <2>1. /\ running /\ running' = running
        /\ HttpServe(reqLen + k)
    BY <1>11 DEF ReadData
  <2>2. CASE reqLen + k >= GetPrefixLen /\ reqGet
    <3>1. CloseTransport(reqLen + k)
      BY <2>1, <2>2 DEF HttpServe
    <3>2. CASE UNCHANGED <<acceptorVars, status>>
      BY <3>2 DEF acceptorVars, serviceVars
    <3>3. CASE FinishHandler
      BY <2>1, <3>3, <1>4
    <3>4. QED
      BY <3>1, <3>2, <3>3 DEF CloseTransport
  <2>3. CASE ~(reqLen + k >= GetPrefixLen /\ reqGet)
    BY <2>1, <2>3 DEF HttpServe, KeepRequest, acceptorVars, serviceVars
  <2>4. QED
    BY <2>2, <2>3
<1>12. CASE UNCHANGED vars
  BY <1>12 DEF vars, acceptorVars, sessionVars, serviceVars
<1>13. QED
  BY <1>1, <1>2, <1>3, <1>5, <1>6, <1>7, <1>8, <1>9, <1>10, <1>11, <1>12
  DEF Next

\* The server implements the acceptor service: connections are served one
\* at a time, oldest first, and single-shot mode serves one and closes
\* (FizzServerAcceptor::connectionAccepted, done and acceptError).
THEOREM Refinement == Spec => ServiceSpec
<1>1. Init => Service!Init
  BY DEF Init, Service!Init
<1>2. QED
  BY <1>1, InitIInv, NextIInv, StepRefines, PTL
  DEF Spec, ServiceSpec, Service!Spec, serviceVars, Service!vars

=============================================================================
