------------------------- MODULE SessionEngineProofs -------------------------
(***************************************************************************)
(* Proofs about the session engine, for every number of sessions, sockets, *)
(* device models and tokens.                                               *)
(***************************************************************************)
EXTENDS SessionEngine, FunctionTheorems, FiniteSetTheorems, WellFoundedInduction, TLAPS

(***************************************************************************)
(* dedupeAlias.                                                            *)
(***************************************************************************)
\* A set of naturals that is not empty has a least element.
LEMMA LeastElement ==
    ASSUME NEW T, T \subseteq Nat, T # {}
    PROVE  \E n \in T : \A m \in T : n <= m
<1>1. PICK n \in T : \A m \in T : ~ (<<m, n>> \in OpToRel(<, Nat))
  BY NatLessThanWellFounded, WFMin
<1>2. \A m \in T : ~ (m < n)
  BY <1>1 DEF OpToRel
<1>3. QED
  BY <1>2

\* While fewer names are taken than there are suffixes, dedupeAlias
\* (sessions.ts) returns a name that nobody holds.
LEMMA DedupeAliasFresh ==
    ASSUME NEW base \in Slugs, NEW existing,
           IsFiniteSet(existing), Cardinality(existing) < MaxSuffix
    PROVE  DedupeAlias(base, existing) \in Aliases \ existing
<1> DEFINE Free == {n \in 1..MaxSuffix : AliasName[<<base, n>>] \notin existing}
           Suffixes == 1..MaxSuffix
           Name == [n \in Suffixes |-> AliasName[<<base, n>>]]
<1>1. Free # {}
  <2> SUFFICES ASSUME Free = {} PROVE FALSE
    OBVIOUS
  <2>1. Name \in [Suffixes -> existing]
    OBVIOUS
  <2>2. IsFiniteSet(Suffixes) /\ Cardinality(Suffixes) = MaxSuffix
    BY FS_Interval, BoundAssumption
  <2>3. Cardinality(existing) < Cardinality(Suffixes)
    BY <2>2
  <2>4. \E m, n \in Suffixes : m # n /\ Name[m] = Name[n]
    <3> HIDE DEF Name, Suffixes
    <3> QED
      BY <2>1, <2>2, <2>3, FS_PigeonHole
  <2>5. QED
    BY <2>4, AliasAssumption
<1>2. PICK n \in Free : \A m \in Free : n <= m
  <2>1. Free \subseteq Nat
    BY BoundAssumption
  <2>2. QED
    BY <1>1, <2>1, LeastElement
<1>3. /\ n \in 1..MaxSuffix
      /\ AliasName[<<base, n>>] \notin existing
      /\ \A m \in 1..(n - 1) : AliasName[<<base, m>>] \in existing
  BY <1>2, BoundAssumption
<1>4. \A m \in 1..MaxSuffix : AliasName[<<base, m>>] \in Aliases
  BY AliasAssumption
<1>5. QED
  BY <1>3, <1>4 DEF DedupeAlias

\* A session that is being claimed gets a name that no live session has.
LEMMA AssignAliasFresh ==
    ASSUME NEW s \in Sessions, s \notin Live, NEW base \in Slugs
    PROVE  /\ AssignAlias(base) \in Aliases
           /\ \A t \in Live : alias[t] # AssignAlias(base)
<1> DEFINE Taken == {alias[t] : t \in Live}
           Holds == [t \in Live |-> alias[t]]
<1>1. IsFiniteSet(Sessions \ {s}) /\ Cardinality(Sessions \ {s}) = Cardinality(Sessions) - 1
  BY FS_RemoveElement, AliasAssumption
<1>2. IsFiniteSet(Live) /\ Cardinality(Live) <= Cardinality(Sessions \ {s})
  BY <1>1, FS_Subset DEF Live
<1>3. Holds \in Surjection(Live, Taken)
  BY DEF Surjection
<1>4. IsFiniteSet(Taken) /\ Cardinality(Taken) <= Cardinality(Live)
  BY <1>2, <1>3, FS_Surjection
<1>5. Cardinality(Taken) < MaxSuffix
  <2>1. /\ Cardinality(Sessions) \in Nat
        /\ Cardinality(Live) \in Nat
        /\ Cardinality(Taken) \in Nat
        /\ Cardinality(Sessions \ {s}) \in Nat
    BY <1>1, <1>2, <1>4, FS_CardinalityType, AliasAssumption
  <2>2. QED
    BY <2>1, <1>1, <1>2, <1>4, AliasAssumption, BoundAssumption
<1>6. AssignAlias(base) \in Aliases \ Taken
  BY <1>4, <1>5, DedupeAliasFresh DEF AssignAlias
<1>7. QED
  BY <1>6
-------------------------------------------------------------------------------
(***************************************************************************)
(* The inductive invariant: the properties that TLC checks, and what ties  *)
(* them together, that an id in use was minted and that the tokens that    *)
(* let sockets in are older than the one that is current.                  *)
(***************************************************************************)
\* Ids that sockets or sessions refer to were minted.
IdsAreMinted ==
    /\ \A s \in Live : minted[s]
    /\ \A k \in Sockets : claimedId[k] # NoSession => minted[claimedId[k]]

\* What let a socket in is not the token a live session now honours.
TokensAreSpent ==
    \A k \in Sockets : \A s \in Live :
        claimedId[k] = s => admittedBy[k] < resumeToken[s]

IInv ==
    /\ TypeOK
    /\ LinkSingleUse
    /\ AliasUnique
    /\ OneSocketPerToken
    /\ ActiveHasSocket
    /\ GraceTimerIffSuspended
    /\ PongsAreOfThisSocket
    /\ EventsTellState
    /\ HistoryOnlyForLive
    /\ IdsAreMinted
    /\ TokensAreSpent

\* No session, no socket and no history at startup: the invariant holds.
LEMMA InitIInv == Init => IInv
  BY SentinelAssumption, BoundAssumption
  DEF Init, IInv, TypeOK, LinkSingleUse, AliasUnique, OneSocketPerToken,
      ActiveHasSocket, GraceTimerIffSuspended, PongsAreOfThisSocket, EventsTellState,
      HistoryOnlyForLive, IdsAreMinted, TokensAreSpent, Live, HasLink,
      LinkTimers, SessionStates, ConnStates, EventKinds

\* Minting a link and its timers (daemon/links.ts create) keep the invariant.
LEMMA LinkStepIInv == IInv /\ (LinkStep) => IInv'
<1> SUFFICES ASSUME IInv, NEW s \in Sessions,
                    \/ CreateLink(s)
                    \/ ClockPassesTtl(s)
                    \/ TtlTimerFires(s)
                    \/ FreeTimerFires(s)
             PROVE  IInv'
  BY DEF LinkStep
<1> USE SentinelAssumption, BoundAssumption
    DEF IInv, TypeOK, LinkSingleUse, AliasUnique, OneSocketPerToken,
      ActiveHasSocket, GraceTimerIffSuspended, PongsAreOfThisSocket, EventsTellState,
      HistoryOnlyForLive, IdsAreMinted, TokensAreSpent, Live, HasLink,
      LinkTimers, SessionStates, ConnStates, EventKinds,
      sessionVars, connVars, busVars, linkVars, Emit, TerminalEvents, Drop, RemoveLink
<1>1. CASE CreateLink(s)
  <2>1. TypeOK'
    BY <1>1 DEF CreateLink
  <2>2. LinkSingleUse'
    BY <1>1 DEF CreateLink
  <2>3. AliasUnique' /\ IdsAreMinted'
    BY <1>1 DEF CreateLink
  <2>4. OneSocketPerToken' /\ TokensAreSpent'
    BY <1>1 DEF CreateLink
  <2>5. ActiveHasSocket' /\ GraceTimerIffSuspended'
    BY <1>1 DEF CreateLink
  <2>6. PongsAreOfThisSocket'
    BY <1>1 DEF CreateLink
  <2>7. EventsTellState'
    BY <1>1 DEF CreateLink
  <2>8. HistoryOnlyForLive'
    <3>1. retained' = [retained EXCEPT ![s] = TRUE]
      BY <1>1 DEF CreateLink
    <3>2. s \notin Live /\ state' = state
      BY <1>1 DEF CreateLink
    <3>3. linkTimer' = [linkTimer EXCEPT ![s] = "ttl"]
      BY <1>1 DEF CreateLink
    <3>4. QED
      BY <3>1, <3>2, <3>3
  <2>9. QED
    BY <2>1, <2>2, <2>3, <2>4, <2>5, <2>6, <2>7, <2>8
<1>2. CASE ClockPassesTtl(s)
  BY <1>2 DEF ClockPassesTtl
<1>3. CASE TtlTimerFires(s)
  BY <1>3 DEF TtlTimerFires
<1>4. CASE FreeTimerFires(s)
  BY <1>4 DEF FreeTimerFires
<1>5. QED
  BY <1>1, <1>2, <1>3, <1>4

\* What happens to a socket outside its handshake (daemon/listener.ts, and the
\* handlers that attachSocketHandlers installs) keeps the invariant.
LEMMA SocketStepIInv == IInv /\ (SocketStep) => IInv'
<1> SUFFICES ASSUME IInv, NEW k \in Sockets,
                    \/ Connect(k)
                    \/ PreClaimTimeout(k)
                    \/ RejectFrame(k)
                    \/ FrameForDeadSession(k)
                    \/ SendFails(k)
                    \/ Pong(k)
                    \/ FallSilent(k)
                    \/ SocketCloses(k)
             PROVE  IInv'
  BY DEF SocketStep
<1> USE SentinelAssumption, BoundAssumption
    DEF IInv, TypeOK, LinkSingleUse, AliasUnique, OneSocketPerToken,
      ActiveHasSocket, GraceTimerIffSuspended, PongsAreOfThisSocket, EventsTellState,
      HistoryOnlyForLive, IdsAreMinted, TokensAreSpent, Live, HasLink,
      LinkTimers, SessionStates, ConnStates, EventKinds,
      sessionVars, connVars, busVars, linkVars, LocalClose, Unclaimed, Deliverable, Emit, TerminalEvents, Suspend, LostBy
<1>1. CASE Connect(k)
  BY <1>1 DEF Connect
<1>2. CASE PreClaimTimeout(k)
  BY <1>2 DEF PreClaimTimeout
<1>3. CASE RejectFrame(k)
  BY <1>3 DEF RejectFrame
<1>4. CASE FrameForDeadSession(k)
  BY <1>4 DEF FrameForDeadSession
<1>5. CASE SendFails(k)
  BY <1>5 DEF SendFails
<1>6. CASE Pong(k)
  <2>1. TypeOK'
    BY <1>6 DEF Pong
  <2>2. LinkSingleUse'
    BY <1>6 DEF Pong
  <2>3. AliasUnique' /\ IdsAreMinted'
    BY <1>6 DEF Pong
  <2>4. OneSocketPerToken' /\ TokensAreSpent'
    BY <1>6 DEF Pong
  <2>5. ActiveHasSocket' /\ GraceTimerIffSuspended'
    BY <1>6 DEF Pong
  <2>6. PongsAreOfThisSocket'
    BY SMTT(60), <1>6 DEF Pong
  <2>7. EventsTellState'
    BY <1>6 DEF Pong
  <2>8. HistoryOnlyForLive'
    BY <1>6 DEF Pong
  <2>9. QED
    BY <2>1, <2>2, <2>3, <2>4, <2>5, <2>6, <2>7, <2>8
<1>7. CASE FallSilent(k)
  BY <1>7 DEF FallSilent
<1>8. CASE SocketCloses(k)
  <2>1. TypeOK'
    BY <1>8 DEF SocketCloses
  <2>2. LinkSingleUse'
    BY <1>8 DEF SocketCloses
  <2>3. AliasUnique' /\ IdsAreMinted'
    BY <1>8 DEF SocketCloses
  <2>4. OneSocketPerToken' /\ TokensAreSpent'
    BY <1>8 DEF SocketCloses
  <2>5. ActiveHasSocket' /\ GraceTimerIffSuspended'
    BY <1>8 DEF SocketCloses
  <2>6. PongsAreOfThisSocket'
    BY <1>8 DEF SocketCloses
  <2>7. EventsTellState'
    BY <1>8 DEF SocketCloses
  <2>8. HistoryOnlyForLive'
    BY <1>8 DEF SocketCloses
  <2>9. QED
    BY <2>1, <2>2, <2>3, <2>4, <2>5, <2>6, <2>7, <2>8
<1>9. QED
  BY <1>1, <1>2, <1>3, <1>4, <1>5, <1>6, <1>7, <1>8

\* Claims and resumes, accepted or not (sessions.ts handleClaim, handleResume),
\* keep the invariant.
LEMMA HandshakeStepIInv == IInv /\ (HandshakeStep) => IInv'
<1> SUFFICES ASSUME IInv, NEW k \in Sockets, NEW s \in Sessions,
                    \/ ClaimWithoutLink(k, s)
                    \/ ClaimExpiredLink(k, s)
                    \/ ClaimBadToken(k, s)
                    \/ \E token \in 1..MaxTokens : ResumeRejected(k, s, token)
                    \/ \E base \in Slugs : ClaimAccepted(k, s, base)
                    \/ \E token \in 1..MaxTokens : ResumeAccepted(k, s, token)
             PROVE  IInv'
  BY DEF HandshakeStep
<1> USE SentinelAssumption, BoundAssumption
    DEF IInv, TypeOK, LinkSingleUse, AliasUnique, OneSocketPerToken,
      ActiveHasSocket, GraceTimerIffSuspended, PongsAreOfThisSocket, EventsTellState,
      HistoryOnlyForLive, IdsAreMinted, TokensAreSpent, Live, HasLink,
      LinkTimers, SessionStates, ConnStates, EventKinds,
      sessionVars, connVars, busVars, linkVars, LocalClose, Unclaimed, Deliverable, Emit, TerminalEvents, Drop, RemoveLink, Admit, AttemptsExhausted, RotatedToken, PongsOnAdoption
<1>1. CASE ClaimWithoutLink(k, s)
  BY <1>1 DEF ClaimWithoutLink
<1>2. CASE ClaimExpiredLink(k, s)
  BY <1>2 DEF ClaimExpiredLink
<1>3. CASE ClaimBadToken(k, s)
  <2>1. TypeOK'
    <3>1. CASE attempts[s] + 1 >= MaxAttempts
      <4>1. /\ linkTimer' = [linkTimer EXCEPT ![s] = "none"]
            /\ pastTtl' = [pastTtl EXCEPT ![s] = FALSE]
            /\ attempts' = [attempts EXCEPT ![s] = 0]
            /\ retained' = [retained EXCEPT ![s] = FALSE]
            /\ UNCHANGED lastEvent
        BY <1>3, <3>1 DEF ClaimBadToken
      <4>2. UNCHANGED <<minted, claimedId, preClaimTimer, admittedBy, pings, sessionVars>>
        BY <1>3 DEF ClaimBadToken
      <4>3. conn' \in [Sockets -> ConnStates]
        BY <1>3 DEF ClaimBadToken
      <4>4. QED
        BY <4>1, <4>2, <4>3
    <3>2. CASE ~(attempts[s] + 1 >= MaxAttempts)
      <4>1. /\ attempts' = [attempts EXCEPT ![s] = @ + 1]
            /\ UNCHANGED <<linkTimer, pastTtl, lastEvent, retained>>
        BY <1>3, <3>2 DEF ClaimBadToken
      <4>2. attempts[s] + 1 \in 0..(MaxAttempts - 1)
        BY <3>2
      <4>3. attempts' \in [Sessions -> 0..(MaxAttempts - 1)]
        BY <4>1, <4>2
      <4>4. UNCHANGED <<minted, claimedId, preClaimTimer, admittedBy, pings, sessionVars>>
        BY <1>3 DEF ClaimBadToken
      <4>5. conn' \in [Sockets -> ConnStates]
        BY <1>3 DEF ClaimBadToken
      <4>6. QED
        BY <4>1, <4>3, <4>4, <4>5
    <3>3. QED
      BY <3>1, <3>2
  <2>2. LinkSingleUse'
    BY <1>3 DEF ClaimBadToken
  <2>3. AliasUnique' /\ IdsAreMinted'
    BY <1>3 DEF ClaimBadToken
  <2>4. OneSocketPerToken' /\ TokensAreSpent'
    BY <1>3 DEF ClaimBadToken
  <2>5. ActiveHasSocket' /\ GraceTimerIffSuspended'
    BY <1>3 DEF ClaimBadToken
  <2>6. PongsAreOfThisSocket'
    BY <1>3 DEF ClaimBadToken
  <2>7. EventsTellState'
    BY <1>3 DEF ClaimBadToken
  <2>8. HistoryOnlyForLive'
    BY <1>3 DEF ClaimBadToken
  <2>9. QED
    BY <2>1, <2>2, <2>3, <2>4, <2>5, <2>6, <2>7, <2>8
<1>4. ASSUME NEW token \in 1..MaxTokens, ResumeRejected(k, s, token)
      PROVE  IInv'
  BY <1>4 DEF ResumeRejected
<1>5. ASSUME NEW base \in Slugs, ClaimAccepted(k, s, base)
      PROVE  IInv'
  <2>0. /\ AssignAlias(base) \in Aliases
        /\ \A t \in Live : alias[t] # AssignAlias(base)
    BY <1>5, AssignAliasFresh DEF ClaimAccepted
  <2>1. TypeOK'
    BY <1>5, <2>0 DEF ClaimAccepted
  <2>2. LinkSingleUse'
    BY <1>5 DEF ClaimAccepted
  <2>3. AliasUnique' /\ IdsAreMinted'
    <3>1. alias' = [alias EXCEPT ![s] = AssignAlias(base)] /\ Live' = Live \union {s}
      BY <1>5 DEF ClaimAccepted
    <3>2. AliasUnique'
      BY <2>0, <3>1
    <3>3. IdsAreMinted'
      BY <1>5 DEF ClaimAccepted
    <3>4. QED
      BY <3>2, <3>3
  <2>4. OneSocketPerToken' /\ TokensAreSpent'
    BY <1>5 DEF ClaimAccepted
  <2>5. ActiveHasSocket' /\ GraceTimerIffSuspended'
    BY <1>5 DEF ClaimAccepted
  <2>6. PongsAreOfThisSocket'
    BY SMTT(60), <1>5 DEF ClaimAccepted
  <2>7. EventsTellState'
    BY <1>5 DEF ClaimAccepted
  <2>8. HistoryOnlyForLive'
    BY <1>5 DEF ClaimAccepted
  <2>9. QED
    BY <2>1, <2>2, <2>3, <2>4, <2>5, <2>6, <2>7, <2>8
<1>6. ASSUME NEW token \in 1..MaxTokens, ResumeAccepted(k, s, token)
      PROVE  IInv'
  <2>1. TypeOK'
    BY <1>6 DEF ResumeAccepted
  <2>2. LinkSingleUse'
    BY <1>6 DEF ResumeAccepted
  <2>3. AliasUnique' /\ IdsAreMinted'
    BY <1>6 DEF ResumeAccepted
  <2>4. OneSocketPerToken' /\ TokensAreSpent'
    BY <1>6 DEF ResumeAccepted
  <2>5. ActiveHasSocket' /\ GraceTimerIffSuspended'
    BY <1>6 DEF ResumeAccepted
  <2>6. PongsAreOfThisSocket'
    BY SMTT(60), <1>6 DEF ResumeAccepted
  <2>7. EventsTellState'
    BY <1>6 DEF ResumeAccepted
  <2>8. HistoryOnlyForLive'
    BY <1>6 DEF ResumeAccepted
  <2>9. QED
    BY <2>1, <2>2, <2>3, <2>4, <2>5, <2>6, <2>7, <2>8
<1>7. QED
  BY <1>1, <1>2, <1>3, <1>4, <1>5, <1>6

\* Forgetting, emitting and closing keep the types of what they touch.
LEMMA ForgetType ==
    ASSUME TypeOK, NEW ids, Forget(ids)
    PROVE  /\ state' \in [Sessions -> SessionStates]
           /\ socket' \in [Sessions -> Sockets \union {NoSocket}]
           /\ graceTimer' \in [Sessions -> BOOLEAN]
           /\ resumeToken' \in [Sessions -> 0..MaxTokens]
           /\ missedPongs' \in [Sessions -> 0..2]
           /\ alias' \in [Sessions -> Aliases \union {NoAlias}]
<1>1. /\ state' \in [Sessions -> SessionStates]
      /\ socket' \in [Sessions -> Sockets \union {NoSocket}]
      /\ graceTimer' \in [Sessions -> BOOLEAN]
  BY DEF TypeOK, Forget, SessionStates
<1>2. resumeToken' \in [Sessions -> 0..MaxTokens] /\ missedPongs' \in [Sessions -> 0..2]
  BY BoundAssumption DEF TypeOK, Forget
<1>3. alias' \in [Sessions -> Aliases \union {NoAlias}]
  BY DEF TypeOK, Forget
<1>4. QED
  BY <1>1, <1>2, <1>3

LEMMA EmitType ==
    ASSUME TypeOK, NEW ids, NEW kind \in EventKinds, Emit(ids, kind)
    PROVE  lastEvent' \in [Sessions -> EventKinds] /\ retained' \in [Sessions -> BOOLEAN]
  BY DEF TypeOK, Emit

LEMMA LocalCloseType ==
    ASSUME TypeOK, NEW ks, LocalClose(ks)
    PROVE  conn' \in [Sockets -> ConnStates]
  BY DEF TypeOK, LocalClose, ConnStates

\* A pass of the keepalive interval keeps the invariant.
LEMMA KeepaliveTickIInv == IInv /\ KeepaliveTick => IInv'
<1> SUFFICES ASSUME IInv, KeepaliveTick
             PROVE  IInv'
  OBVIOUS
<1> USE SentinelAssumption, BoundAssumption
    DEF IInv, TypeOK, LinkSingleUse, AliasUnique, OneSocketPerToken,
      ActiveHasSocket, GraceTimerIffSuspended, PongsAreOfThisSocket, EventsTellState,
      HistoryOnlyForLive, IdsAreMinted, TokensAreSpent, Live, HasLink,
      LinkTimers, SessionStates, ConnStates, EventKinds,
      sessionVars, connVars, busVars, linkVars,
      LocalClose, Emit, TerminalEvents, Suspend, MissesAfterPing, KeepaliveTick
<1>1. TypeOK'
  BY SMTT(60)
<1>2. LinkSingleUse'
  OBVIOUS
<1>3. AliasUnique' /\ IdsAreMinted'
  OBVIOUS
<1>4. OneSocketPerToken' /\ TokensAreSpent'
  OBVIOUS
<1>5. ActiveHasSocket' /\ GraceTimerIffSuspended'
  BY SMTT(60)
<1>6. PongsAreOfThisSocket'
  BY SMTT(60)
<1>7. EventsTellState'
  OBVIOUS
<1>8. HistoryOnlyForLive'
  OBVIOUS
<1>9. QED
  BY <1>1, <1>2, <1>3, <1>4, <1>5, <1>6, <1>7, <1>8

\* The end of a grace window (sessions.ts expire) keeps the invariant.
LEMMA GraceExpiresIInv == ASSUME IInv, NEW s \in Sessions, GraceExpires(s) PROVE IInv'
<1> USE SentinelAssumption, BoundAssumption
    DEF IInv, TypeOK, LinkSingleUse, AliasUnique, OneSocketPerToken,
      ActiveHasSocket, GraceTimerIffSuspended, PongsAreOfThisSocket, EventsTellState,
      HistoryOnlyForLive, IdsAreMinted, TokensAreSpent, Live, HasLink,
      LinkTimers, SessionStates, ConnStates, EventKinds,
      sessionVars, connVars, busVars, linkVars,
      Emit, TerminalEvents, Forget, GraceExpires
<1>1. TypeOK'
  <2>1. Forget({s}) /\ Emit({s}, "session_expired")
    OBVIOUS
  <2>2. "session_expired" \in EventKinds
    OBVIOUS
  <2> HIDE DEF Forget, Emit
  <2>3. QED
    BY <2>1, <2>2, ForgetType, EmitType
<1>2. LinkSingleUse' /\ AliasUnique' /\ IdsAreMinted'
  OBVIOUS
<1>3. OneSocketPerToken' /\ TokensAreSpent'
  OBVIOUS
<1>4. ActiveHasSocket' /\ GraceTimerIffSuspended' /\ PongsAreOfThisSocket'
  OBVIOUS
<1>5. EventsTellState' /\ HistoryOnlyForLive'
  OBVIOUS
<1>6. QED
  BY <1>1, <1>2, <1>3, <1>4, <1>5

\* Revocation, shutdown and restart keep the invariant.
LEMMA OperatorStepIInv == IInv /\ OperatorStep => IInv'
<1> SUFFICES ASSUME IInv, OperatorStep
             PROVE  IInv'
  OBVIOUS
<1> USE SentinelAssumption, BoundAssumption
    DEF IInv, TypeOK, LinkSingleUse, AliasUnique, OneSocketPerToken,
      ActiveHasSocket, GraceTimerIffSuspended, PongsAreOfThisSocket, EventsTellState,
      HistoryOnlyForLive, IdsAreMinted, TokensAreSpent, Live, HasLink,
      LinkTimers, SessionStates, ConnStates, EventKinds,
      sessionVars, connVars, busVars, linkVars,
      LocalClose, RemoveLink, Emit, TerminalEvents, Forget
<1>1. ASSUME NEW s \in Sessions, RevokeLink(s)
      PROVE  IInv'
  BY <1>1 DEF RevokeLink
<1>2. ASSUME NEW selector, RevokeSession(selector)
      PROVE  IInv'
  <2>1. PICK s \in Live : /\ LocalClose({socket[s]})
                          /\ Forget({s})
                          /\ Emit({s}, "session_revoked")
                          /\ UNCHANGED <<linkVars, claimedId, preClaimTimer, admittedBy, pings>>
    BY <1>2 DEF RevokeSession, ResolveSession
  <2>2. TypeOK'
    <3>1. "session_revoked" \in EventKinds
      OBVIOUS
    <3> HIDE DEF Forget, Emit, LocalClose
    <3>2. QED
      BY <2>1, <3>1, ForgetType, EmitType, LocalCloseType
  <2>3. LinkSingleUse' /\ AliasUnique' /\ IdsAreMinted'
    BY <2>1
  <2>4. OneSocketPerToken' /\ TokensAreSpent'
    BY <2>1
  <2>5. ActiveHasSocket' /\ GraceTimerIffSuspended'
    <3>1. /\ state' = [t \in Sessions |-> IF t = s THEN "none" ELSE state[t]]
          /\ socket' = [t \in Sessions |-> IF t = s THEN NoSocket ELSE socket[t]]
          /\ graceTimer' = [t \in Sessions |-> t # s /\ graceTimer[t]]
          /\ claimedId' = claimedId
      BY <2>1
    <3>2. \A k \in Sockets : conn[k] # "free" => conn'[k] # "free"
      BY <2>1
    <3>3. ActiveHasSocket'
      BY <3>1, <3>2
    <3>4. GraceTimerIffSuspended'
      BY <3>1
    <3>5. QED
      BY <3>3, <3>4
  <2>8. PongsAreOfThisSocket'
    BY <2>1
  <2>6. EventsTellState' /\ HistoryOnlyForLive'
    BY ZenonT(60), <2>1
  <2>7. QED
    BY <2>2, <2>3, <2>4, <2>5, <2>6, <2>8
<1>3. ASSUME Restart
      PROVE  IInv'
  <2>1. TypeOK'
    BY <1>3 DEF Restart
  <2>2. QED
    BY <1>3, <2>1 DEF Restart
<1>4. QED
  BY <1>1, <1>2, <1>3 DEF OperatorStep

\* Every step of the engine keeps the invariant, a stutter included.
LEMMA NextIInv == IInv /\ [Next]_vars => IInv'
<1> SUFFICES ASSUME IInv, [Next]_vars
             PROVE  IInv'
  OBVIOUS
<1>1. CASE Next
  BY <1>1, LinkStepIInv, HandshakeStepIInv, SocketStepIInv, KeepaliveTickIInv,
     GraceExpiresIInv, OperatorStepIInv
  DEF Next
<1>2. CASE UNCHANGED vars
  BY <1>2
  DEF IInv, TypeOK, LinkSingleUse, AliasUnique, OneSocketPerToken,
      ActiveHasSocket, GraceTimerIffSuspended, PongsAreOfThisSocket, EventsTellState,
      HistoryOnlyForLive, IdsAreMinted, TokensAreSpent, Live, HasLink,
      vars, sessionVars, connVars, busVars, linkVars
<1>3. QED
  BY <1>1, <1>2

\* The inductive invariant holds in every behaviour of the engine.
THEOREM SpecIInv == Spec => []IInv
  BY InitIInv, NextIInv, PTL DEF Spec

\* Link tokens work once (sessions.ts handleClaim, links.ts consume).
THEOREM SpecLinkSingleUse == Spec => []LinkSingleUse
  BY SpecIInv, PTL DEF IInv

\* Every variable keeps its type, and the attempt limit is never reached by a
\* link that still exists.
THEOREM SpecTypeOK == Spec => []TypeOK
  BY SpecIInv, PTL DEF IInv

\* Aliases of live sessions differ (sessions.ts assignAlias).
THEOREM SpecAliasUnique == Spec => []AliasUnique
  BY SpecIInv, PTL DEF IInv

\* A resume token lets one socket in (sessions.ts handleResume).
THEOREM SpecOneSocketPerToken == Spec => []OneSocketPerToken
  BY SpecIInv, PTL DEF IInv

\* Keepalive charges a session with the silence of its present socket only.
THEOREM SpecPongsAreOfThisSocket == Spec => []PongsAreOfThisSocket
  BY SpecIInv, PTL DEF IInv

\* The event stream tells the state of every session, and which links that exist
\* have had their expiry announced (sessions.ts, links.ts create).
THEOREM SpecEventsTellState == Spec => []EventsTellState
  BY SpecIInv, PTL DEF IInv

\* A session is active exactly when it has an admitted socket that has not closed
\* (sessions.ts suspend, handleClaim, handleResume).
THEOREM SpecActiveHasSocket == Spec => []ActiveHasSocket
  BY SpecIInv, PTL DEF IInv

\* Grace timers are armed for suspended sessions, for all of them and for no
\* other (sessions.ts suspend, handleResume, revoke).
THEOREM SpecGraceTimerIffSuspended == Spec => []GraceTimerIffSuspended
  BY SpecIInv, PTL DEF IInv

\* The engine's events leave history for pending links and live sessions only.
THEOREM SpecHistoryOnlyForLive == Spec => []HistoryOnlyForLive
  BY SpecIInv, PTL DEF IInv
-------------------------------------------------------------------------------
(***************************************************************************)
(* Suspension.                                                             *)
(***************************************************************************)
\* The steps that suspend a session are those in which its socket is lost.
LEMMA SuspendOnlyOnLossStep ==
    ASSUME IInv, Next, NEW s \in Sessions, state[s] = "active", state'[s] = "suspended"
    PROVE  conn'[socket[s]] \in {"closing", "free"}
<1> USE DEF IInv, TypeOK, ActiveHasSocket, SessionStates, ConnStates
<1>1. socket[s] \in Sockets /\ conn[socket[s]] # "free"
  OBVIOUS
<1>2. ASSUME KeepaliveTick
      PROVE  conn'[socket[s]] \in {"closing", "free"}
  BY <1>1, <1>2 DEF KeepaliveTick, Suspend, LocalClose
<1>3. ASSUME NEW k \in Sockets, SocketCloses(k)
      PROVE  conn'[socket[s]] \in {"closing", "free"}
  BY <1>1, <1>3 DEF SocketCloses, Suspend, LostBy
<1>4. ~LinkStep
  BY DEF LinkStep, CreateLink, ClockPassesTtl, TtlTimerFires, FreeTimerFires, sessionVars
<1>5. ~HandshakeStep
  <2> SUFFICES ASSUME NEW k \in Sockets, NEW t \in Sessions,
                      \/ ClaimWithoutLink(k, t)
                      \/ ClaimExpiredLink(k, t)
                      \/ ClaimBadToken(k, t)
                      \/ \E base \in Slugs : ClaimAccepted(k, t, base)
                      \/ \E token \in 1..MaxTokens : ResumeRejected(k, t, token)
                      \/ \E token \in 1..MaxTokens : ResumeAccepted(k, t, token)
               PROVE  FALSE
    BY DEF HandshakeStep
  <2>1. state' = state \/ state' = [state EXCEPT ![t] = "active"]
    BY DEF ClaimWithoutLink, ClaimExpiredLink, ClaimBadToken, ClaimAccepted,
           ResumeRejected, ResumeAccepted, sessionVars
  <2>2. QED
    BY <2>1
<1>6. ASSUME SocketStep, ~(\E k \in Sockets : SocketCloses(k))
      PROVE  FALSE
  BY <1>6 DEF SocketStep, Connect, PreClaimTimeout, RejectFrame, FrameForDeadSession,
              SendFails, Pong, FallSilent, sessionVars
<1>7. ASSUME NEW ids, Forget(ids)
      PROVE  FALSE
  BY <1>7 DEF Forget
<1>8. ~(\E t \in Sessions : GraceExpires(t)) /\ ~OperatorStep
  BY <1>7 DEF GraceExpires, OperatorStep, RevokeLink, RevokeSession, Restart, sessionVars
<1>9. QED
  BY <1>2, <1>3, <1>4, <1>5, <1>6, <1>8 DEF Next

\* A session is suspended only in the step that loses the socket it is using
\* (the identity test of the 'close' listener, sessions.ts attachSocketHandlers).
THEOREM SpecSuspendOnlyOnLoss == Spec => SuspendOnlyOnLoss
<1>1. IInv /\ [Next]_vars
        => [\A s \in Sessions :
                state[s] = "active" /\ state'[s] = "suspended"
                    => conn'[socket[s]] \in {"closing", "free"}]_vars
  BY SuspendOnlyOnLossStep
<1>2. QED
  BY <1>1, SpecIInv, PTL DEF Spec, SuspendOnlyOnLoss
-------------------------------------------------------------------------------
(***************************************************************************)
(* The ends of a link.                                                     *)
(***************************************************************************)
\* The steps in which a link's record goes, and what was said of it by then.
LEMMA LinkEndToldStep ==
    ASSUME IInv, Next, NEW s \in Sessions, HasLink(s), ~HasLink(s)'
    PROVE  \/ lastEvent'[s] \in {"session_claimed", "session_revoked", "none"}
           \/ lastEvent[s] = "link_expired"
           \/ linkTimer[s] = "ttl" /\ pastTtl[s]
           \/ AttemptsExhausted(attempts[s] + 1)
<1> DEFINE Told == \/ lastEvent'[s] \in {"session_claimed", "session_revoked", "none"}
                   \/ lastEvent[s] = "link_expired"
                   \/ linkTimer[s] = "ttl" /\ pastTtl[s]
                   \/ AttemptsExhausted(attempts[s] + 1)
<1> USE DEF HasLink
<1>1. /\ linkTimer \in [Sessions -> LinkTimers] /\ lastEvent \in [Sessions -> EventKinds]
      /\ linkTimer[s] \in {"ttl", "free"}
      /\ linkTimer[s] = "free" => lastEvent[s] = "link_expired"
      /\ linkTimer'[s] = "none"
  BY DEF IInv, TypeOK, EventsTellState, LinkTimers
<1>2. linkTimer' # linkTimer
  BY <1>1
<1>3. ASSUME LinkStep
      PROVE  Told
  BY <1>1, <1>3 DEF LinkStep, CreateLink, ClockPassesTtl, TtlTimerFires, FreeTimerFires, RemoveLink
<1>4. ASSUME HandshakeStep
      PROVE  Told
  <2> PICK k \in Sockets, t \in Sessions :
        \/ ClaimWithoutLink(k, t)
        \/ ClaimExpiredLink(k, t)
        \/ ClaimBadToken(k, t)
        \/ \E base \in Slugs : ClaimAccepted(k, t, base)
        \/ \E token \in 1..MaxTokens : ResumeRejected(k, t, token)
        \/ \E token \in 1..MaxTokens : ResumeAccepted(k, t, token)
    BY <1>4 DEF HandshakeStep
  <2>1. CASE ClaimExpiredLink(k, t)
    BY <1>1, <2>1 DEF ClaimExpiredLink, RemoveLink
  <2>2. CASE ClaimBadToken(k, t)
    BY <1>1, <2>2 DEF ClaimBadToken, RemoveLink
  <2>3. CASE \E base \in Slugs : ClaimAccepted(k, t, base)
    BY <1>1, <2>3 DEF ClaimAccepted, RemoveLink, Emit
  <2>4. QED
    BY <1>2, <2>1, <2>2, <2>3 DEF ClaimWithoutLink, ResumeRejected, ResumeAccepted, linkVars
<1>5. ~SocketStep
  BY <1>2 DEF SocketStep, Connect, PreClaimTimeout, RejectFrame, FrameForDeadSession, SendFails,
              Pong, FallSilent, SocketCloses, linkVars
<1>6. ~KeepaliveTick /\ ~(\E t \in Sessions : GraceExpires(t))
  BY <1>2 DEF KeepaliveTick, GraceExpires, linkVars
<1>7. ASSUME OperatorStep
      PROVE  Told
  <2>1. ASSUME NEW t \in Sessions, RevokeLink(t)
        PROVE  Told
    BY <1>1, <2>1 DEF RevokeLink, RemoveLink, Emit
  <2>2. ~(\E selector \in Sessions \union Aliases \union {NoSelector} : RevokeSession(selector))
    BY <1>2 DEF RevokeSession, linkVars
  <2>3. CASE Restart
    BY <2>3 DEF Restart
  <2>4. QED
    BY <1>7, <2>1, <2>2, <2>3 DEF OperatorStep
<1>8. QED
  BY <1>3, <1>4, <1>5, <1>6, <1>7 DEF Next

\* A link ends without a word only when a claim finds it expired too early or
\* fails once too often (sessions.ts handleClaim, revoke; links.ts discard).
THEOREM SpecLinkEndTold == Spec => LinkEndTold
<1>1. IInv /\ [Next]_vars
        => [\A s \in Sessions : HasLink(s) /\ ~HasLink(s)' =>
                \/ lastEvent'[s] \in {"session_claimed", "session_revoked", "none"}
                \/ lastEvent[s] = "link_expired"
                \/ linkTimer[s] = "ttl" /\ pastTtl[s]
                \/ AttemptsExhausted(attempts[s] + 1)]_vars
  BY LinkEndToldStep
<1>2. QED
  BY <1>1, SpecIInv, PTL DEF Spec, LinkEndTold
-------------------------------------------------------------------------------
(***************************************************************************)
(* Refinement: the engine implements the life of a session id.             *)
(***************************************************************************)
\* At startup every id is unminted and held by no socket.
LEMMA InitRefines == Init => Promise!LifecycleInit
  BY DEF Init, Promise!LifecycleInit, Phase, HasLink, Live

\* What the phase of an id depends on.
LEMMA PhaseUnchanged ==
    ASSUME NEW t \in Sessions,
           linkTimer'[t] = linkTimer[t], state'[t] = state[t], minted'[t] = minted[t]
    PROVE  Phase(t)' = Phase(t)
  BY DEF Phase, HasLink, Live

\* The phases, read off the engine's variables.
PhaseTable ==
    \A t \in Sessions :
        /\ Phase(t) = "pending" <=> linkTimer[t] # "none"
        /\ Phase(t) = "active" <=> state[t] = "active"
        /\ Phase(t) = "suspended" <=> state[t] = "suspended"
        /\ Phase(t) = "unminted" <=> ~minted[t]
        /\ Phase(t) = "over" <=> minted[t] /\ state[t] = "none" /\ linkTimer[t] = "none"
        /\ Phase(t) \in {"unminted", "pending", "active", "suspended", "over"}

\* The invariant makes the phases exclusive.
LEMMA PhaseTableHolds == IInv => PhaseTable
<1> SUFFICES ASSUME IInv, NEW t \in Sessions
             PROVE  /\ Phase(t) = "pending" <=> linkTimer[t] # "none"
                    /\ Phase(t) = "active" <=> state[t] = "active"
                    /\ Phase(t) = "suspended" <=> state[t] = "suspended"
                    /\ Phase(t) = "unminted" <=> ~minted[t]
                    /\ Phase(t) = "over" <=> minted[t] /\ state[t] = "none" /\ linkTimer[t] = "none"
                    /\ Phase(t) \in {"unminted", "pending", "active", "suspended", "over"}
  BY DEF PhaseTable
<1> USE DEF IInv, TypeOK, LinkSingleUse, IdsAreMinted, SessionStates, LinkTimers, HasLink, Live
<1>1. CASE HasLink(t)
  BY <1>1 DEF Phase
<1>2. CASE ~HasLink(t) /\ t \in Live
  BY <1>2 DEF Phase
<1>3. CASE ~HasLink(t) /\ t \notin Live /\ ~minted[t]
  BY <1>3 DEF Phase
<1>4. CASE ~HasLink(t) /\ t \notin Live /\ minted[t]
  BY <1>4 DEF Phase
<1>5. QED
  BY <1>1, <1>2, <1>3, <1>4

\* A step that changes the phase and the socket of no id is a stutter.
LEMMA PhaseStutter ==
    ASSUME UNCHANGED socket, \A t \in Sessions : Phase(t)' = Phase(t)
    PROVE  UNCHANGED Promise!lifecycleVars
  BY DEF Promise!lifecycleVars

\* A link's life maps to Mint, to End, or to a stutter.
LEMMA LinkStepRefines ==
    ASSUME IInv, PhaseTable, PhaseTable', LinkStep
    PROVE  [Promise!LifecycleNext]_(Promise!lifecycleVars)
<1> SUFFICES ASSUME NEW s \in Sessions,
                    \/ CreateLink(s)
                    \/ ClockPassesTtl(s)
                    \/ TtlTimerFires(s)
                    \/ FreeTimerFires(s)
             PROVE  [Promise!LifecycleNext]_(Promise!lifecycleVars)
  BY DEF LinkStep
<1> USE DEF IInv, TypeOK, LinkSingleUse, ActiveHasSocket, LinkTimers, HasLink, Live,
            sessionVars, PhaseTable
<1>1. CASE CreateLink(s)
  <2>1. Phase(s) = "unminted" /\ Phase(s)' = "pending"
    BY <1>1 DEF CreateLink
  <2>2. \A t \in Sessions \ {s} : Phase(t)' = Phase(t)
    BY <1>1, PhaseUnchanged DEF CreateLink
  <2>3. Promise!Mint(s)
    BY ZenonT(60), <1>1, <2>1, <2>2 DEF CreateLink, Promise!Mint
  <2>4. QED
    BY <2>3 DEF Promise!LifecycleNext
<1>2. CASE ClockPassesTtl(s)
  BY <1>2, PhaseUnchanged, PhaseStutter DEF ClockPassesTtl
<1>3. CASE TtlTimerFires(s)
  <2>1. linkTimer' = [linkTimer EXCEPT ![s] = "free"] /\ UNCHANGED <<minted, state, socket>>
    BY <1>3 DEF TtlTimerFires
  <2>2. \A t \in Sessions : Phase(t)' = Phase(t)
    <3>1. Phase(s) = "pending" /\ Phase(s)' = "pending"
      BY <1>3, <2>1 DEF TtlTimerFires
    <3>2. \A t \in Sessions \ {s} : Phase(t)' = Phase(t)
      BY <2>1, PhaseUnchanged
    <3>3. QED
      BY <3>1, <3>2
  <2>3. QED
    BY <2>1, <2>2, PhaseStutter
<1>4. CASE FreeTimerFires(s)
  <2>1. linkTimer' = [linkTimer EXCEPT ![s] = "none"] /\ UNCHANGED <<minted, state, socket>>
    BY <1>4 DEF FreeTimerFires, RemoveLink
  <2>2. Phase(s) = "pending" /\ Phase(s)' = "over" /\ socket[s] = NoSocket
    BY <1>4, <2>1 DEF FreeTimerFires
  <2>3. \A t \in Sessions \ {s} : Phase(t)' = Phase(t)
    BY <2>1, PhaseUnchanged
  <2>4. Promise!End({s})
    BY <2>1, <2>2, <2>3 DEF Promise!End
  <2>5. QED
    BY <2>4 DEF Promise!LifecycleNext
<1>5. QED
  BY <1>1, <1>2, <1>3, <1>4

\* Ending the ids of `ended`: common to expiry, revocation and restart.
LEMMA EndRefines ==
    ASSUME IInv, PhaseTable, PhaseTable', NEW ended \in SUBSET Sessions,
           \A t \in ended : HasLink(t) \/ t \in Live,
           \A t \in ended : linkTimer'[t] = "none" /\ state'[t] = "none",
           \A t \in Sessions \ ended : linkTimer'[t] = linkTimer[t] /\ state'[t] = state[t],
           socket' = [t \in Sessions |-> IF t \in ended THEN NoSocket ELSE socket[t]],
           minted' = minted
    PROVE  Promise!LifecycleNext
<1>1. \A t \in ended : Phase(t) \in {"pending", "active", "suspended"}
  BY DEF PhaseTable, HasLink, Live, IInv, TypeOK, SessionStates
<1>2. \A t \in ended : Phase(t)' = "over"
  BY DEF PhaseTable, HasLink, Live, IInv, IdsAreMinted, LinkSingleUse
<1>3. \A t \in Sessions \ ended : Phase(t)' = Phase(t)
  BY PhaseUnchanged
<1>4. Promise!End(ended)
  BY <1>1, <1>2, <1>3 DEF Promise!End
<1>5. QED
  BY <1>4 DEF Promise!LifecycleNext

\* Losing the sockets of `lost`: a closed socket, or a keepalive tick.
LEMMA LoseRefines ==
    ASSUME IInv, PhaseTable, PhaseTable', NEW lost \in SUBSET Sessions,
           \A t \in lost : state[t] = "active",
           Suspend(lost), linkTimer' = linkTimer, minted' = minted
    PROVE  Promise!LifecycleNext
<1>1. \A t \in lost : Phase(t) = "active" /\ Phase(t)' = "suspended"
  BY DEF PhaseTable, Suspend
<1>2. \A t \in Sessions \ lost : Phase(t)' = Phase(t)
  BY PhaseUnchanged DEF Suspend, IInv, TypeOK
<1>3. Promise!Lose(lost)
  BY <1>1, <1>2 DEF Promise!Lose, Suspend
<1>4. QED
  BY <1>3 DEF Promise!LifecycleNext

\* Letting socket k in for s: a claim or a resume.
LEMMA AdoptRefines ==
    ASSUME IInv, PhaseTable, PhaseTable', NEW k \in Sockets, NEW s \in Sessions,
           Unclaimed(k), HasLink(s) \/ s \in Live,
           state' = [state EXCEPT ![s] = "active"],
           socket' = [socket EXCEPT ![s] = k],
           \A t \in Sessions \ {s} : linkTimer'[t] = linkTimer[t],
           minted' = minted
    PROVE  Promise!LifecycleNext
<1>1. Phase(s) \in {"pending", "active", "suspended"}
  BY DEF PhaseTable, HasLink, Live, IInv, TypeOK, SessionStates
<1>2. Phase(s)' = "active"
  BY DEF PhaseTable, IInv, TypeOK
<1>3. \A t \in Sessions \ {s} : Phase(t)' = Phase(t)
  BY PhaseUnchanged DEF IInv, TypeOK
<1>4. \A t \in Sessions : socket[t] # k
  BY SentinelAssumption DEF IInv, TypeOK, ActiveHasSocket, Unclaimed
<1>5. Promise!Adopt(s, k)
  BY <1>1, <1>2, <1>3, <1>4 DEF Promise!Adopt, IInv, TypeOK
<1>6. QED
  BY <1>5 DEF Promise!LifecycleNext

\* One id ends: its session is forgotten, or its link record is removed.
LEMMA EndOneRefines ==
    ASSUME IInv, PhaseTable, PhaseTable', NEW s \in Sessions,
           \/ s \in Live /\ Forget({s}) /\ UNCHANGED linkVars
           \/ HasLink(s) /\ RemoveLink(s) /\ UNCHANGED <<minted, sessionVars>>
    PROVE  Promise!LifecycleNext
<1>1. CASE s \in Live /\ Forget({s}) /\ UNCHANGED linkVars
  <2>1. linkTimer'[s] = "none" /\ state'[s] = "none"
    BY <1>1 DEF IInv, LinkSingleUse, TypeOK, HasLink, Forget, linkVars
  <2>2. \A t \in Sessions \ {s} : linkTimer'[t] = linkTimer[t] /\ state'[t] = state[t]
    BY <1>1 DEF Forget, linkVars
  <2>3. socket' = [t \in Sessions |-> IF t \in {s} THEN NoSocket ELSE socket[t]]
    BY <1>1 DEF Forget
  <2>4. minted' = minted
    BY <1>1 DEF linkVars
  <2>5. QED
    BY <1>1, <2>1, <2>2, <2>3, <2>4, EndRefines
<1>2. CASE HasLink(s) /\ RemoveLink(s) /\ UNCHANGED <<minted, sessionVars>>
  <2>1. state[s] = "none" /\ socket[s] = NoSocket
    BY <1>2 DEF IInv, LinkSingleUse, ActiveHasSocket, Live
  <2>2. linkTimer'[s] = "none" /\ state'[s] = "none"
    BY <1>2, <2>1 DEF RemoveLink, IInv, TypeOK, sessionVars
  <2>3. \A t \in Sessions \ {s} : linkTimer'[t] = linkTimer[t] /\ state'[t] = state[t]
    BY <1>2 DEF RemoveLink, IInv, TypeOK, sessionVars
  <2>4. socket' = [t \in Sessions |-> IF t \in {s} THEN NoSocket ELSE socket[t]]
    BY <1>2, <2>1 DEF IInv, TypeOK, sessionVars
  <2>5. minted' = minted
    BY <1>2
  <2>6. \A t \in {s} : HasLink(t) \/ t \in Live
    BY <1>2
  <2>7. \A t \in {s} : linkTimer'[t] = "none" /\ state'[t] = "none"
    BY <2>2
  <2>8. QED
    BY <2>3, <2>4, <2>5, <2>6, <2>7, EndRefines
<1>3. QED
  BY <1>1, <1>2

\* A socket's life maps to Lose when it closes, and else to a stutter.
LEMMA SocketStepRefines ==
    ASSUME IInv, PhaseTable, PhaseTable', SocketStep
    PROVE  [Promise!LifecycleNext]_(Promise!lifecycleVars)
<1>1. ASSUME NEW k \in Sockets, SocketCloses(k)
      PROVE  Promise!LifecycleNext
  <2>1. \A t \in LostBy(k) : state[t] = "active"
    BY <1>1, SentinelAssumption DEF LostBy, IInv, ActiveHasSocket, TypeOK
  <2>2. QED
    BY <1>1, <2>1, LoseRefines DEF SocketCloses, LostBy, linkVars
<1>2. ASSUME ~(\E k \in Sockets : SocketCloses(k))
      PROVE  UNCHANGED Promise!lifecycleVars
  <2>1. UNCHANGED <<linkTimer, state, minted, socket>>
    BY <1>2 DEF SocketStep, Connect, PreClaimTimeout, RejectFrame, FrameForDeadSession,
                SendFails, Pong, FallSilent, sessionVars, linkVars
  <2>2. QED
    BY <2>1, PhaseUnchanged, PhaseStutter
<1>3. QED
  BY <1>1, <1>2

\* An accepted handshake maps to Adopt, a rejected one to End of its link or to
\* a stutter.
LEMMA HandshakeStepRefines ==
    ASSUME IInv, PhaseTable, PhaseTable', HandshakeStep
    PROVE  [Promise!LifecycleNext]_(Promise!lifecycleVars)
<1> SUFFICES ASSUME NEW k \in Sockets, NEW s \in Sessions,
                    \/ ClaimWithoutLink(k, s)
                    \/ ClaimExpiredLink(k, s)
                    \/ ClaimBadToken(k, s)
                    \/ \E base \in Slugs : ClaimAccepted(k, s, base)
                    \/ \E token \in 1..MaxTokens : ResumeRejected(k, s, token)
                    \/ \E token \in 1..MaxTokens : ResumeAccepted(k, s, token)
             PROVE  [Promise!LifecycleNext]_(Promise!lifecycleVars)
  BY DEF HandshakeStep
<1>1. ASSUME UNCHANGED <<linkTimer, state, minted, socket>>
      PROVE  UNCHANGED Promise!lifecycleVars
  BY <1>1, PhaseUnchanged, PhaseStutter
<1>2. CASE ClaimWithoutLink(k, s)
  BY <1>1, <1>2 DEF ClaimWithoutLink, sessionVars, linkVars
<1>3. CASE ClaimExpiredLink(k, s)
  <2>1. s \notin Live
    BY <1>3 DEF ClaimExpiredLink, IInv, LinkSingleUse
  <2>2. QED
    BY <1>3, <2>1, EndOneRefines DEF ClaimExpiredLink
<1>4. CASE ClaimBadToken(k, s)
  <2>1. s \notin Live
    BY <1>4 DEF ClaimBadToken, IInv, LinkSingleUse
  <2>2. CASE AttemptsExhausted(attempts[s] + 1)
    BY <1>4, <2>1, <2>2, EndOneRefines DEF ClaimBadToken
  <2>3. CASE ~AttemptsExhausted(attempts[s] + 1)
    BY <1>1, <1>4, <2>3 DEF ClaimBadToken, sessionVars
  <2>4. QED
    BY <2>2, <2>3
<1>5. ASSUME NEW base \in Slugs, ClaimAccepted(k, s, base)
      PROVE  Promise!LifecycleNext
  BY <1>5, AdoptRefines DEF ClaimAccepted, RemoveLink, IInv, TypeOK
<1>6. ASSUME NEW token \in 1..MaxTokens, ResumeRejected(k, s, token)
      PROVE  UNCHANGED Promise!lifecycleVars
  BY <1>1, <1>6 DEF ResumeRejected, sessionVars, linkVars
<1>7. ASSUME NEW token \in 1..MaxTokens, ResumeAccepted(k, s, token)
      PROVE  Promise!LifecycleNext
  BY <1>7, AdoptRefines DEF ResumeAccepted, linkVars
<1>8. QED
  BY <1>2, <1>3, <1>4, <1>5, <1>6, <1>7

\* Revocation and restart map to End.
LEMMA OperatorStepRefines ==
    ASSUME IInv, PhaseTable, PhaseTable', OperatorStep
    PROVE  Promise!LifecycleNext
<1>1. ASSUME NEW s \in Sessions, RevokeLink(s)
      PROVE  Promise!LifecycleNext
  BY <1>1, EndOneRefines DEF RevokeLink
<1>2. ASSUME NEW selector, RevokeSession(selector)
      PROVE  Promise!LifecycleNext
  <2>1. PICK s \in Live : Forget({s}) /\ UNCHANGED linkVars
    BY <1>2 DEF RevokeSession, ResolveSession
  <2>2. QED
    BY <2>1, EndOneRefines DEF Live
<1>3. ASSUME Restart
      PROVE  Promise!LifecycleNext
  <2> DEFINE ended == {t \in Sessions : HasLink(t) \/ t \in Live}
  <2>1. \A t \in Sessions \ ended : socket[t] = NoSocket
    BY DEF Live, IInv, ActiveHasSocket
  <2>2. \A t \in Sessions \ ended : linkTimer'[t] = linkTimer[t] /\ state'[t] = state[t]
    BY <1>3 DEF Restart, Forget, HasLink, Live
  <2>3. \A t \in ended : linkTimer'[t] = "none" /\ state'[t] = "none"
    BY <1>3 DEF Restart, Forget
  <2>4. socket' = [t \in Sessions |-> IF t \in ended THEN NoSocket ELSE socket[t]]
    BY <1>3, <2>1 DEF Restart, Forget
  <2>5. minted' = minted
    BY <1>3 DEF Restart
  <2>6. ended \in SUBSET Sessions /\ \A t \in ended : HasLink(t) \/ t \in Live
    OBVIOUS
  <2> HIDE DEF ended
  <2>7. QED
    BY <2>2, <2>3, <2>4, <2>5, <2>6, EndRefines
<1>4. QED
  BY <1>1, <1>2, <1>3 DEF OperatorStep

\* Every step of the engine maps to a step of SessionLifecycle or to a stutter.
LEMMA NextRefines ==
    ASSUME IInv, PhaseTable, PhaseTable', [Next]_vars
    PROVE  [Promise!LifecycleNext]_(Promise!lifecycleVars)
<1>1. ASSUME KeepaliveTick
      PROVE  Promise!LifecycleNext
  <2>1. PICK lost \in SUBSET Sessions :
            (\A t \in lost : state[t] = "active") /\ Suspend(lost)
    BY <1>1 DEF KeepaliveTick
  <2>2. QED
    BY <1>1, <2>1, LoseRefines DEF KeepaliveTick, linkVars
<1>2. ASSUME NEW s \in Sessions, GraceExpires(s)
      PROVE  Promise!LifecycleNext
  BY <1>2, EndOneRefines DEF GraceExpires, Live
<1>3. CASE UNCHANGED vars
  BY <1>3, PhaseUnchanged, PhaseStutter DEF vars, linkVars, sessionVars
<1>4. QED
  BY <1>1, <1>2, <1>3, LinkStepRefines, HandshakeStepRefines, SocketStepRefines,
     OperatorStepRefines
  DEF Next

\* Every session id lives the life that SessionLifecycle promises: minted once,
\* claimed at most once, and over for good once it is over.
THEOREM SpecRefinesLifecycle == Spec => RefinesLifecycle
<1>1. IInv /\ IInv' /\ [Next]_vars => [Promise!LifecycleNext]_(Promise!lifecycleVars)
  <2>1. IInv => PhaseTable
    BY PhaseTableHolds
  <2>2. IInv' => PhaseTable'
    BY PhaseTableHolds, PTL
  <2>3. QED
    BY <2>1, <2>2, NextRefines
<1>2. QED
  BY <1>1, InitRefines, SpecIInv, PTL DEF Spec, RefinesLifecycle, Promise!Lifecycle
===============================================================================
