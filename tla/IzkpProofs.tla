----------------------------- MODULE IzkpProofs -----------------------------
(***************************************************************************)
(* The interactive proof end to end, for any number of agents and runs:    *)
(* the composition uses the trusted application only through its entry     *)
(* points, so what IzkpTAProofs shows of the TA under arbitrary clients    *)
(* holds under the host programs, the agents and the server.               *)
(***************************************************************************)
EXTENDS Izkp, TLAPS

P == INSTANCE IzkpTAProofs

(***************************************************************************)
(* The lines that carry a challenge carry one the server can send.         *)
(***************************************************************************)
LEMMA InitLines == Init => LinesOK
  BY DEF Init, LinesOK

\* The agent moves a challenge from its socket to the host, or drops it.
LEMMA AgentLines ==
  ASSUME LinesOK, NEW a \in Client, AgentStart(a) \/ AgentAborts(a) \/ AgentStep(a)
  PROVE  LinesOK'
<1>1. CASE AgentStart(a)
  BY <1>1 DEF LinesOK, AgentStart, hostVars
<1>2. CASE AgentAborts(a)
  BY <1>2 DEF LinesOK, AgentAborts, AgentEnds, CloseSocket
<1>3. CASE AgentSendsInit(a) \/ AgentSendsResponse(a)
  BY <1>3 DEF LinesOK, AgentSendsInit, AgentSendsResponse, AgentRelays, AgentEnds,
     CloseSocket
<1>4. CASE AgentHostGone(a)
  BY <1>4 DEF LinesOK, AgentHostGone, AgentEnds, CloseSocket
<1>5. CASE AgentGetsChallenge(a)
  <2>1. s2c[a] \in {ChalLine(c) : c \in Challenge}
    BY <1>5 DEF LinesOK, AgentGetsChallenge, NoLine, ErrorLine, VerdictLine, ChalLine
  <2> QED BY <1>5, <2>1 DEF LinesOK, AgentGetsChallenge
<1>6. CASE AgentGetsRefusal(a)
  BY <1>6 DEF LinesOK, AgentGetsRefusal
<1>7. CASE AgentGetsVerdict(a)
  BY <1>7 DEF LinesOK, AgentGetsVerdict, hostVars
<1>8. CASE AgentReaps(a)
  BY <1>8 DEF LinesOK, AgentReaps, AgentEnds, CloseSocket, hostVars
<1>9. CASE AgentLosesServer(a)
  BY <1>9 DEF LinesOK, AgentLosesServer, AgentEnds, CloseSocket, hostVars
<1> QED
  BY <1>1, <1>2, <1>3, <1>4, <1>5, <1>6, <1>7, <1>8, <1>9 DEF AgentStep

\* The host only takes its line.
LEMMA HostLines ==
  ASSUME LinesOK, NEW a \in Client, HostStep(a)
  PROVE  LinesOK'
  BY DEF LinesOK, HostStep, HostOpens, HostCommits, HostAnswers, HostEndOfFile,
     HostCloses, HostKilled, netVars

\* The server sends challenges, verdicts and errors.
LEMMA ServerLines ==
  ASSUME LinesOK, ServerStep
  PROVE  LinesOK'
<1>1. CASE ServerAccepts
  BY <1>1 DEF LinesOK, ServerAccepts, hostVars
<1>2. ASSUME NEW a \in Client, ServerInit(a)
      PROVE  LinesOK'
  BY <1>2 DEF LinesOK, ServerInit, SendTo, hostVars
<1>3. ASSUME NEW a \in Client, ServerResponse(a)
      PROVE  LinesOK'
  <2>1. verify_izkp_geometry(table[a].u, table[a].c, c2s[a].z) \in BOOLEAN
    BY DEF verify_izkp_geometry
  <2> QED BY <1>3, <2>1 DEF LinesOK, ServerResponse, SendTo, hostVars
<1>4. ASSUME NEW a \in Client, ServerConnectionEnds(a) \/ ServerDies(a)
      PROVE  LinesOK'
  BY <1>4 DEF LinesOK, ServerConnectionEnds, ServerDies, hostVars, netVars
<1> QED
  BY <1>1, <1>2, <1>3, <1>4 DEF ServerStep

LEMMA NextLines == LinesOK /\ [Next]_vars => LinesOK'
<1> SUFFICES ASSUME LinesOK, [Next]_vars PROVE LinesOK'
  OBVIOUS
<1>1. CASE AllEnded \/ UNCHANGED vars
  BY <1>1 DEF LinesOK, AllEnded, vars, hostVars, netVars
<1> QED
  BY <1>1, AgentLines, HostLines, ServerLines DEF Next

(***************************************************************************)
(* Whatever an agent, a host program or the server does, the TA makes one  *)
(* of its own steps or none.                                               *)
(***************************************************************************)
LEMMA TAStepOrStutter == LinesOK /\ [Next]_vars => [TA!Next]_taVars
<1> SUFFICES ASSUME LinesOK, [Next]_vars PROVE [TA!Next]_taVars
  OBVIOUS
<1>1. CASE UNCHANGED vars
  BY <1>1 DEF vars
<1>2. ASSUME NEW a \in Client, AgentStart(a) \/ AgentAborts(a) \/ AgentStep(a)
      PROVE  UNCHANGED taVars
  BY <1>2 DEF AgentStart, AgentAborts, AgentStep, AgentSendsInit, AgentHostGone,
     AgentGetsChallenge, AgentGetsRefusal, AgentSendsResponse, AgentGetsVerdict,
     AgentReaps, AgentLosesServer, AgentRelays
<1>3. ASSUME NEW a \in Client, HostStep(a)
      PROVE  [TA!Next]_taVars
  <2>1. CASE HostOpens(a)
    BY <2>1 DEF HostOpens, TA!Next
  <2>2. CASE HostCommits(a)
    BY <2>2 DEF HostCommits, TA!Next
  <2>3. CASE HostAnswers(a)
    <3>1. hostIn[a].c \in Challenge
      BY <2>3 DEF HostAnswers, LinesOK, NoLine, ChalLine
    <3> QED BY <2>3, <3>1 DEF HostAnswers, TA!Next
  <2>4. CASE HostEndOfFile(a)
    BY <2>4 DEF HostEndOfFile
  <2>5. CASE HostCloses(a)
    BY <2>5 DEF HostCloses, TA!Next
  <2>6. CASE HostKilled(a)
    BY <2>6 DEF HostKilled, TA!Next
  <2> QED BY <1>3, <2>1, <2>2, <2>3, <2>4, <2>5, <2>6 DEF HostStep
<1>4. CASE ServerStep
  BY <1>4 DEF ServerStep, ServerAccepts, ServerInit, ServerResponse,
     ServerConnectionEnds, ServerDies
<1>5. CASE AllEnded
  BY <1>5 DEF AllEnded, vars
<1> QED BY <1>1, <1>2, <1>3, <1>4, <1>5 DEF Next

(***************************************************************************)
(* The composition runs the TA as its specification says.                  *)
(***************************************************************************)
THEOREM UsesTA == Spec => TA!Spec
<1>1. Init => TA!Init /\ LinesOK
  BY InitLines DEF Init
<1>2. LinesOK /\ [Next]_vars => [TA!Next]_(TA!taVars)
  BY TAStepOrStutter DEF taVars, TA!taVars
<1> QED
  BY <1>1, <1>2, NextLines, PTL DEF Spec, TA!Spec

LEMMA UsesProvenTA == Spec => P!Spec
<1>1. TA!Init => P!Init
  BY DEF TA!Init, P!Init, TA!ClosedCtx, P!ClosedCtx, TA!NoOutput, P!NoOutput
<1>2. [TA!Next]_(TA!taVars) => [P!Next]_(P!taVars)
  BY DEF TA!Next, P!Next, TA!taVars, P!taVars,
     TA!OpenSession, P!OpenSession, TA!OpenSessionFails, P!OpenSessionFails,
     TA!CloseSession, P!CloseSession, TA!GetCommitment, P!GetCommitment,
     TA!GetCommitmentFails, P!GetCommitmentFails,
     TA!ComputeResponse, P!ComputeResponse,
     TA!ComputeResponseRefused, P!ComputeResponseRefused,
     TA!ComputeResponseNoMemory, P!ComputeResponseNoMemory,
     TA!UnknownCommand, P!UnknownCommand, TA!IsOpen, P!IsOpen,
     TA!ClosedCtx, P!ClosedCtx, TA!IdleCtx, P!IdleCtx,
     TA!NoOutput, P!NoOutput, TA!Return, P!Return, TA!Fail, P!Fail
<1> QED
  BY <1>1, <1>2, UsesTA, PTL DEF TA!Spec, P!Spec

LEMMA TATypes == Spec => []TA!TypeOK
<1>1. P!TypeOK => TA!TypeOK
  BY DEF P!TypeOK, TA!TypeOK, P!SessionCtx, TA!SessionCtx, P!State, TA!State,
     P!Response, TA!Response, P!Reply, TA!Reply, P!Result, TA!Result
<1>2. P!Spec => []P!TypeOK
  BY ZeroIsNotNonce, P!TypeCorrect
<1> QED
  BY <1>1, <1>2, UsesProvenTA, PTL

(***************************************************************************)
(* No nonce is answered for two challenges, however many agents compete    *)
(* for the TA, abort, die with their host or meet a dead server            *)
(* (cmd_compute_response called by main.c).                                *)
(***************************************************************************)
THEOREM ComposedNonceSafety == Spec => []TA!NonceAnsweredOnce
<1>1. P!NonceAnsweredOnce => TA!NonceAnsweredOnce
  BY DEF P!NonceAnsweredOnce, TA!NonceAnsweredOnce
<1>2. P!Spec => []P!NonceAnsweredOnce
  BY ZeroIsNotNonce, P!NonceSafety
<1> QED
  BY <1>1, <1>2, UsesProvenTA, PTL

(***************************************************************************)
(* What leaves the TA (cmd_get_commitment and cmd_compute_response called  *)
(* by main.c) while agents and server go on, abort or die is a behaviour   *)
(* of the abstract prover.                                                 *)
(***************************************************************************)
THEOREM ComposedLedger == Spec => P!ImplementsLedger
<1>1. P!Spec => P!ImplementsLedger
  BY ZeroIsNotNonce, P!LedgerRefinement
<1> QED
  BY <1>1, UsesProvenTA, PTL

(***************************************************************************)
(* The lines differ in their kind, and what they carry can be read back.   *)
(***************************************************************************)
LEMMA LineKinds ==
  /\ NoLine.type = "none" /\ ErrorLine.type = "ERROR" /\ NoEntry.type = "none"
  /\ \A u : InitLine(u).type = "IZKP_INIT" /\ InitLine(u).u = u
  /\ \A z : RespLine(z).type = "IZKP_RESPONSE" /\ RespLine(z).z = z
  /\ \A c : ChalLine(c).type = "IZKP_CHALLENGE" /\ ChalLine(c).c = c
  /\ \A ok : VerdictLine(ok).type = "VERDICT"
  /\ \A u, c : Entry(u, c).type = "entry" /\ Entry(u, c).u = u /\ Entry(u, c).c = c
  BY DEF NoLine, ErrorLine, NoEntry, InitLine, RespLine, ChalLine, VerdictLine, Entry

LEMMA PacketKinds ==
  ASSUME NEW p \in Packet
  PROVE  /\ p.type = "IZKP_INIT" => p.u \in Nonce /\ p = InitLine(p.u)
         /\ p.type = "IZKP_RESPONSE" => p.z \in TA!Response /\ p = RespLine(p.z)
         /\ p # NoLine => p.type \in {"IZKP_INIT", "IZKP_RESPONSE"}
  BY LineKinds DEF Packet

(***************************************************************************)
(* What an agent, its host and its connection are made of, and what an     *)
(* action leaves alone of an agent it is not about.                        *)
(***************************************************************************)
Shapes ==
    /\ DOMAIN agent = Client /\ DOMAIN host = Client /\ DOMAIN hostIn = Client
    /\ DOMAIN hostOut = Client /\ DOMAIN c2s = Client /\ DOMAIN s2c = Client
    /\ DOMAIN table = Client /\ DOMAIN sess = Client

SameAt(a) ==
    /\ agent'[a] = agent[a] /\ host'[a] = host[a] /\ hostIn'[a] = hostIn[a]
    /\ hostOut'[a] = hostOut[a] /\ c2s'[a] = c2s[a] /\ s2c'[a] = s2c[a]
    /\ table'[a] = table[a] /\ sess'[a] = sess[a]

Grows ==
    /\ answered \subseteq answered'
    /\ challenged \subseteq challenged'
    /\ verdicts \subseteq verdicts'

LEMMA IInvShapes == IInv => Shapes
  BY DEF IInv, TypeOK, LinesOK, PacketsOK, TA!TypeOK, Shapes

LEMMA AcceptedStays ==
  ASSUME NEW a \in Client, Accepted(a), Grows
  PROVE  Accepted(a)'
  BY DEF Accepted, Grows

LEMMA AskedStays ==
  ASSUME NEW a \in Client, NEW u, NEW c, Asked(a, u, c), table'[a] = table[a], Grows
  PROVE  Asked(a, u, c)'
  BY DEF Asked, Grows

LEMMA Frame ==
  ASSUME NEW a \in Client, Placed(a), SameAt(a), Grows
  PROVE  Placed(a)'
  BY AcceptedStays, AskedStays DEF Placed, SameAt, Grows, Active, AskedAndAnswered

\* A step of one agent, its host or its connection.
StepAt(a) ==
    /\ Grows
    /\ Placed(a)'
    /\ \A b \in Client \ {a} : SameAt(b)

LEMMA StepPlaces ==
  ASSUME IInv, NEW a \in Client, StepAt(a)
  PROVE  (\A b \in Client : Placed(b))'
<1> SUFFICES ASSUME NEW b \in Client PROVE Placed(b)'
  OBVIOUS
<1>1. CASE b = a
  BY <1>1 DEF StepAt
<1>2. CASE b # a
  BY <1>2, Frame DEF StepAt, IInv
<1> QED BY <1>1, <1>2

(***************************************************************************)
(* The agent.                                                              *)
(***************************************************************************)
LEMMA EndPlaces ==
  ASSUME IInv, NEW a \in Client, NEW outcome \in {"done", "failed"},
         AgentEnds(a, outcome), outcome = "done" => Accepted(a),
         UNCHANGED <<table, sess, answered, challenged, verdicts>>
  PROVE  Placed(a)'
<1>1. agent'[a] = outcome /\ s2c'[a] = NoLine /\ c2s'[a] = c2s[a]
  BY IInvShapes DEF AgentEnds, CloseSocket, Shapes
<1>2. Grows
  BY DEF Grows
<1>3. (c2s[a].type = "IZKP_RESPONSE" => AskedAndAnswered(a, c2s[a].z))'
  BY <1>1, <1>2 DEF IInv, Placed, AskedAndAnswered, Asked, Grows
<1>4. outcome = "done" => Accepted(a)'
  BY <1>2, AcceptedStays
<1> QED
  BY <1>1, <1>3, <1>4 DEF Placed, Active, Waiting

LEMMA AgentStartPlaces ==
  ASSUME IInv, NEW a \in Client, AgentStart(a)
  PROVE  StepAt(a)
<1>1. Shapes
  BY IInvShapes
<1>2. Grows
  BY DEF AgentStart, Grows, taVars, serverVars
<1>3. ASSUME NEW b \in Client \ {a} PROVE SameAt(b)
  BY <1>1 DEF AgentStart, SameAt, Shapes, taVars, serverVars, hostVars
<1>4. Placed(a)'
  <2>1. s2c'[a] = NoLine /\ c2s'[a] = NoLine
    BY <1>1 DEF AgentStart, IInv, Placed, Shapes
  <2>2. CASE server = "up"
    <3>1. agent'[a] = "init" /\ hostIn'[a] = NoLine /\ hostOut'[a] = NoLine
      BY <2>2, <1>1 DEF AgentStart, Shapes
    <3> QED BY <2>1, <3>1, LineKinds DEF Placed, Active, Waiting
  <2>3. CASE server # "up"
    <3>1. agent'[a] = "failed"
      BY <2>3, <1>1 DEF AgentStart, Shapes
    <3> QED BY <2>1, <3>1, LineKinds DEF Placed, Active, Waiting
  <2> QED BY <2>2, <2>3
<1> QED BY <1>2, <1>3, <1>4 DEF StepAt

LEMMA AgentRelayPlaces ==
  ASSUME IInv, NEW a \in Client, AgentSendsInit(a) \/ AgentSendsResponse(a)
  PROVE  StepAt(a)
<1>1. Shapes
  BY IInvShapes
<1>2. Grows
  BY DEF AgentSendsInit, AgentSendsResponse, AgentRelays, Grows, taVars, serverVars
<1>3. ASSUME NEW b \in Client \ {a} PROVE SameAt(b)
  BY <1>1 DEF AgentSendsInit, AgentSendsResponse, AgentRelays, AgentEnds, CloseSocket, Goto,
     SameAt, Shapes, taVars, serverVars
<1>4. Placed(a)'
  <2>1. CASE server # "up"
    BY <2>1, EndPlaces DEF AgentSendsInit, AgentSendsResponse, AgentRelays, taVars, serverVars
  <2>2. CASE server = "up" /\ AgentSendsInit(a)
    <3>1. /\ s2c[a] = NoLine /\ hostIn[a] = NoLine
          /\ host[a] = "stdin" /\ hostOut[a] = InitLine(sess[a].r)
      BY <2>2, LineKinds DEF AgentSendsInit, AgentRelays, IInv, Placed
    <3>2. /\ agent'[a] = "challenge" /\ hostOut'[a] = NoLine /\ c2s'[a] = hostOut[a]
          /\ UNCHANGED <<host, hostIn, s2c, sess>>
      BY <2>2, <1>1 DEF AgentSendsInit, AgentRelays, Goto, Shapes, taVars
    <3> QED BY <3>1, <3>2, LineKinds DEF Placed, Active, Waiting
  <2>3. CASE server = "up" /\ AgentSendsResponse(a)
    <3>1. /\ s2c[a] = NoLine /\ host[a] \in {"closing", "exited"}
          /\ hostOut[a].type = "IZKP_RESPONSE" /\ AskedAndAnswered(a, hostOut[a].z)
      BY <2>3, LineKinds DEF AgentSendsResponse, AgentRelays, IInv, Placed
    <3>2. /\ agent'[a] = "verdict" /\ hostOut'[a] = NoLine /\ c2s'[a] = hostOut[a]
          /\ UNCHANGED <<host, s2c, table>>
      BY <2>3, <1>1 DEF AgentSendsResponse, AgentRelays, Goto, Shapes, serverVars
    <3>3. AskedAndAnswered(a, c2s[a].z)'
      BY <1>2, <3>1, <3>2 DEF AskedAndAnswered, Asked, Grows
    <3> QED BY <3>1, <3>2, <3>3, LineKinds DEF Placed, Active, Waiting
  <2> QED BY <2>1, <2>2, <2>3
<1> QED BY <1>2, <1>3, <1>4 DEF StepAt

\* The four ways in which a run ends: an aborted one, one whose host or
\* server is gone, and one whose host was reaped after the verdict.
LEMMA AgentEndPlaces ==
  ASSUME IInv, NEW a \in Client,
         AgentAborts(a) \/ AgentHostGone(a) \/ AgentLosesServer(a) \/ AgentReaps(a)
  PROVE  StepAt(a)
<1>1. Shapes
  BY IInvShapes
<1>2. UNCHANGED <<table, sess, answered, challenged, verdicts>>
  BY DEF AgentAborts, AgentHostGone, AgentLosesServer, AgentReaps, taVars, serverVars
<1>3. Grows
  BY <1>2 DEF Grows
<1>4. ASSUME NEW b \in Client \ {a} PROVE SameAt(b)
  <2>1. AgentEnds(a, "failed") \/ AgentEnds(a, "done")
    BY DEF AgentAborts, AgentHostGone, AgentLosesServer, AgentReaps
  <2>2. agent'[b] = agent[b] /\ s2c'[b] = s2c[b] /\ c2s'[b] = c2s[b]
    BY <2>1, <1>1 DEF AgentEnds, CloseSocket, Shapes
  <2>3. host'[b] = host[b] /\ UNCHANGED <<hostIn, hostOut>>
    BY <1>1 DEF AgentAborts, AgentHostGone, AgentLosesServer, AgentReaps, Kill, Shapes, hostVars
  <2> QED BY <1>2, <2>2, <2>3 DEF SameAt
<1>5. Placed(a)'
  <2>1. CASE AgentReaps(a)
    <3>1. Accepted(a)
      BY <2>1 DEF AgentReaps, IInv, Placed
    <3> QED BY <2>1, <3>1, <1>2, EndPlaces DEF AgentReaps
  <2>2. CASE ~AgentReaps(a)
    BY <2>2, <1>2, EndPlaces DEF AgentAborts, AgentHostGone, AgentLosesServer
  <2> QED BY <2>1, <2>2
<1> QED BY <1>3, <1>4, <1>5 DEF StepAt

\* An agent takes the line of the server.
LEMMA AgentReadPlaces ==
  ASSUME IInv, NEW a \in Client,
         AgentGetsChallenge(a) \/ AgentGetsRefusal(a) \/ AgentGetsVerdict(a)
  PROVE  StepAt(a)
<1>1. Shapes
  BY IInvShapes
<1>2. UNCHANGED <<table, sess, answered, challenged, verdicts, hostOut, c2s>>
  BY DEF AgentGetsChallenge, AgentGetsRefusal, AgentGetsVerdict, taVars, serverVars, hostVars
<1>3. Grows
  BY <1>2 DEF Grows
<1>4. ASSUME NEW b \in Client \ {a} PROVE SameAt(b)
  BY <1>1, <1>2 DEF AgentGetsChallenge, AgentGetsRefusal, AgentGetsVerdict, Goto, Kill, SameAt,
     Shapes, hostVars
<1>5. (c2s[a].type = "IZKP_RESPONSE" => AskedAndAnswered(a, c2s[a].z))'
  BY <1>2, <1>3 DEF IInv, Placed, AskedAndAnswered, Asked, Grows
<1>6. Placed(a)'
  <2>1. CASE AgentGetsChallenge(a)
    <3>1. PICK c \in Challenge : s2c[a] = ChalLine(c) /\ Asked(a, sess[a].r, c)
      BY <2>1, LineKinds DEF AgentGetsChallenge, IInv, Placed
    <3>2. c2s[a] = NoLine /\ host[a] = "stdin" /\ hostOut[a] = NoLine
      BY <2>1, <3>1, LineKinds DEF AgentGetsChallenge, IInv, Placed
    <3>3. /\ agent'[a] = "response" /\ hostIn'[a] = s2c[a] /\ s2c'[a] = NoLine
          /\ UNCHANGED host
      BY <2>1, <1>1 DEF AgentGetsChallenge, Goto, Shapes
    <3>4. Asked(a, sess[a].r, c)'
      BY <3>1, <1>2 DEF Asked
    <3> QED BY <1>2, <1>5, <3>1, <3>2, <3>3, <3>4 DEF Placed, Active, Waiting
  <2>2. CASE AgentGetsRefusal(a)
    <3>1. agent'[a] = "failed" /\ s2c'[a] = NoLine
      BY <2>2, <1>1 DEF AgentGetsRefusal, Shapes
    <3> QED BY <1>5, <3>1 DEF Placed, Active, Waiting
  <2>3. CASE AgentGetsVerdict(a)
    <3>1. Accepted(a)
      BY <2>3 DEF AgentGetsVerdict, IInv, Placed
    <3>2. agent'[a] = "reap"
      BY <2>3, <1>1 DEF AgentGetsVerdict, Goto, Shapes
    <3>3. Accepted(a)'
      BY <3>1, <1>3, AcceptedStays
    <3> QED BY <1>5, <3>2, <3>3 DEF Placed, Active, Waiting
  <2> QED BY <2>1, <2>2, <2>3
<1> QED BY <1>3, <1>4, <1>6 DEF StepAt

(***************************************************************************)
(* The host.  The TA changes the session of its caller only, and answers   *)
(* stay answered.                                                          *)
(***************************************************************************)
LEMMA HostFrame ==
  ASSUME IInv, NEW a \in Client, HostStep(a)
  PROVE  Grows /\ \A b \in Client \ {a} : SameAt(b)
<1>1. Shapes
  BY IInvShapes
<1>2. UNCHANGED <<agent, c2s, s2c, table, challenged, verdicts>>
  BY DEF HostStep, HostOpens, HostCommits, HostAnswers, HostEndOfFile, HostCloses, HostKilled,
     agentVars, netVars, serverVars
<1>3. answered \subseteq answered' /\ \A b \in Client \ {a} : sess'[b] = sess[b]
  BY <1>1 DEF HostStep, HostOpens, HostCommits, HostAnswers, HostEndOfFile, HostCloses,
     HostKilled, taVars, Shapes, TA!OpenSession, TA!OpenSessionFails, TA!CloseSession,
     TA!GetCommitment, TA!GetCommitmentFails, TA!ComputeResponse, TA!ComputeResponseNoMemory,
     TA!ComputeResponseRefused
<1>4. \A b \in Client \ {a} : host'[b] = host[b] /\ hostIn'[b] = hostIn[b] /\ hostOut'[b] = hostOut[b]
  BY <1>1 DEF HostStep, HostOpens, HostCommits, HostAnswers, HostEndOfFile, HostCloses,
     HostKilled, HostGoto, Shapes
<1> QED BY <1>2, <1>3, <1>4 DEF SameAt, Grows

LEMMA HostPlaces ==
  ASSUME IInv, NEW a \in Client, HostStep(a)
  PROVE  StepAt(a)
<1>1. Shapes
  BY IInvShapes
<1>2. UNCHANGED <<agent, c2s, s2c, table, challenged, verdicts>>
  BY DEF HostStep, HostOpens, HostCommits, HostAnswers, HostEndOfFile, HostCloses, HostKilled,
     agentVars, netVars, serverVars
<1>3. Grows /\ Placed(a)
  BY HostFrame DEF IInv
<1>4. /\ (c2s[a].type = "IZKP_RESPONSE" => AskedAndAnswered(a, c2s[a].z))'
      /\ (agent[a] \in {"reap", "done"} => Accepted(a))'
      /\ (\A z : AskedAndAnswered(a, z) => AskedAndAnswered(a, z)')
      /\ (Accepted(a) => Accepted(a)')
  BY <1>2, <1>3, AcceptedStays, AskedStays DEF Placed, AskedAndAnswered, Asked, Grows
<1>5. CASE HostOpens(a)
  <2>1. UNCHANGED <<hostIn, hostOut>> /\ host[a] = "start"
    BY <1>5 DEF HostOpens
  <2>2. agent[a] = "init" => hostOut[a] = NoLine
    BY <1>3, <2>1 DEF Placed
  <2>3. Placed(a)'
    BY <1>2, <1>3, <1>4, <2>1, <2>2 DEF Placed, Active
  <2> QED BY <2>3, HostFrame DEF StepAt
<1>6. CASE HostCommits(a)
  <2>1. UNCHANGED hostIn /\ host[a] = "opened"
    BY <1>6 DEF HostCommits
  <2>2. agent[a] = "init" \/ agent[a] \notin {"challenge", "response", "verdict"}
    BY <1>3, <2>1 DEF Placed
  <2>3. CASE UNCHANGED hostOut
    <3>1. hostOut[a] = NoLine \/ agent[a] # "init"
      BY <1>3, <2>1 DEF Placed
    <3> QED BY <1>2, <1>3, <1>4, <2>1, <2>2, <2>3, <3>1, HostFrame DEF Placed, Active, StepAt
  <2>4. ASSUME NEW r \in Nonce, TA!GetCommitment(a, r), HostGoto(a, "stdin"),
               hostOut' = [hostOut EXCEPT ![a] = InitLine(r)]
        PROVE  StepAt(a)
    <3>1. hostOut'[a] = InitLine(r) /\ host'[a] = "stdin" /\ sess'[a].r = r
      BY <2>4, <1>1 DEF TA!GetCommitment, HostGoto, Shapes
    <3> QED BY <1>2, <1>3, <1>4, <2>1, <2>2, <3>1, HostFrame DEF Placed, Active, StepAt
  <2> QED BY <1>6, <2>3, <2>4 DEF HostCommits
<1>7. CASE HostAnswers(a)
  <2>1. /\ host[a] = "stdin" /\ hostIn[a].type = "IZKP_CHALLENGE"
        /\ host'[a] = "closing"
    BY <1>7, <1>1 DEF HostAnswers, HostGoto, Shapes
  <2>2. agent[a] \notin {"init", "challenge", "verdict"}
    BY <1>3, <2>1, LineKinds DEF Placed
  <2>3. CASE UNCHANGED hostOut
    <3>1. agent[a] = "response" => hostOut[a] = NoLine
      BY <1>3, <2>1 DEF Placed
    <3> QED BY <1>2, <1>3, <1>4, <2>1, <2>2, <2>3, <3>1, HostFrame DEF Placed, Active, StepAt
  <2>4. ASSUME TA!ComputeResponse(a, hostIn[a].c),
               hostOut' = [hostOut EXCEPT ![a] = RespLine([r |-> sess[a].r, c |-> hostIn[a].c])]
        PROVE  StepAt(a)
    <3>z. PICK z : z = [r |-> sess[a].r, c |-> hostIn[a].c]
      OBVIOUS
    <3>1. hostOut'[a] = RespLine(z) /\ z \in answered'
      BY <2>4, <3>z, <1>1 DEF TA!ComputeResponse, Shapes
    <3>2. agent[a] = "response" => z \in TA!Response /\ Asked(a, z.r, z.c)
      <4>1. sess[a] \in TA!SessionCtx
        BY DEF IInv, TypeOK, TA!TypeOK
      <4> QED BY <4>1, <3>z, <1>3, <2>1, LineKinds DEF Placed, TA!SessionCtx, TA!Response
    <3>3. agent[a] = "response" => AskedAndAnswered(a, z)'
      BY <1>2, <3>1, <3>2 DEF AskedAndAnswered, Asked
    <3> QED BY <1>2, <1>3, <1>4, <2>1, <2>2, <3>1, <3>2, <3>3, HostFrame DEF Placed, Active, StepAt
  <2> QED BY <1>7, <2>3, <2>4 DEF HostAnswers
<1>8. CASE HostEndOfFile(a) \/ HostCloses(a) \/ HostKilled(a)
  <2>1. /\ UNCHANGED <<hostIn, hostOut>>
        /\ host'[a] \in {"closing", "exited"}
        /\ host[a] = "stdin" => ~Active(a)
    BY <1>8, <1>1 DEF HostEndOfFile, HostCloses, HostKilled, HostGoto, Shapes
  <2>2. agent[a] = "challenge" => FALSE
    BY <1>3, <2>1 DEF Placed, Active, Waiting
  <2>3. agent[a] = "init" => hostOut[a] = NoLine
    BY <1>3, <2>1 DEF Placed, Active, Waiting
  <2> QED BY <1>2, <1>3, <1>4, <2>1, <2>2, <2>3, HostFrame DEF Placed, Active, Waiting, StepAt
<1> QED BY <1>5, <1>6, <1>7, <1>8 DEF HostStep

(***************************************************************************)
(* The server.  What it sends to an agent that is gone changes nothing of  *)
(* the agent, and the entry it then leaves in the table is overwritten     *)
(* before the next run of the address can see it.                          *)
(***************************************************************************)
LEMMA SendToOther ==
  ASSUME Shapes, NEW a \in Client, NEW line, SendTo(a, line)
  PROVE  /\ \A b \in Client \ {a} : s2c'[b] = s2c[b]
         /\ Active(a) => s2c'[a] = line
         /\ ~Active(a) => s2c'[a] = s2c[a]
  BY DEF SendTo, Shapes

LEMMA ServerInitPlaces ==
  ASSUME IInv, NEW a \in Client, ServerInit(a)
  PROVE  StepAt(a)
<1>1. Shapes /\ Placed(a)
  BY IInvShapes DEF IInv
<1>2. /\ UNCHANGED <<agent, host, hostIn, hostOut, sess, answered, verdicts>>
      /\ c2s[a].type = "IZKP_INIT"
      /\ c2s' = [c2s EXCEPT ![a] = NoLine]
  BY DEF ServerInit, taVars, agentVars, hostVars
<1>3. Grows
  BY <1>2 DEF ServerInit, Grows
<1>4. \A b \in Client \ {a} : SameAt(b)
  BY <1>1, <1>2, SendToOther DEF ServerInit, SameAt, Shapes, Remember
<1>5. agent[a] \notin {"init", "response", "verdict"}
  BY <1>1, <1>2, LineKinds DEF Placed
<1>6. c2s'[a] = NoLine
  BY <1>1, <1>2 DEF Shapes
<1>7. agent[a] \in {"reap", "done"} => Accepted(a)'
  BY <1>1, <1>3, AcceptedStays DEF Placed
<1>8. CASE agent[a] = "challenge"
  <2>1. /\ host[a] = "stdin" /\ hostIn[a] = NoLine /\ hostOut[a] = NoLine
        /\ c2s[a] = InitLine(sess[a].r)
    BY <1>1, <1>2, <1>8, LineKinds DEF Placed
  <2>2. \/ s2c'[a] = ErrorLine
        \/ \E c \in Challenge :
              /\ s2c'[a] = ChalLine(c)
              /\ table'[a] = Entry(sess[a].r, c)
              /\ [a |-> a, u |-> sess[a].r, c |-> c] \in challenged'
    BY <1>1, <1>8, <2>1, SendToOther, LineKinds
       DEF ServerInit, Shapes, Remember, Active, Waiting
  <2> QED
    BY <1>2, <1>3, <1>4, <1>6, <1>8, <2>1, <2>2, LineKinds
       DEF Placed, Active, Waiting, Asked, StepAt
<1>9. CASE agent[a] # "challenge"
  <2>1. ~Active(a) => s2c'[a] = NoLine
    BY <1>1, SendToOther DEF ServerInit, Placed
  <2> QED
    BY <1>2, <1>3, <1>4, <1>5, <1>6, <1>7, <1>9, <2>1, LineKinds
       DEF Placed, Active, StepAt
<1> QED BY <1>8, <1>9

\* The entry is that of the response, so that the verdict is a success
\* unless the nonce is short.
LEMMA ServerResponsePlaces ==
  ASSUME IInv, NEW a \in Client, ServerResponse(a)
  PROVE  StepAt(a) /\ VerdictsHonest'
<1>1. Shapes /\ Placed(a) /\ c2s[a] \in Packet
  BY IInvShapes DEF IInv, PacketsOK
<1>2. /\ UNCHANGED <<agent, host, hostIn, hostOut, sess, answered, challenged>>
      /\ c2s[a].type = "IZKP_RESPONSE"
      /\ c2s' = [c2s EXCEPT ![a] = NoLine]
  BY DEF ServerResponse, taVars, agentVars, hostVars
<1>3. Grows
  BY <1>2 DEF ServerResponse, Grows
<1>4. \A b \in Client \ {a} : SameAt(b)
  BY <1>1, <1>2, SendToOther DEF ServerResponse, SameAt, Shapes
<1>5. agent[a] \notin {"init", "challenge", "response"}
  BY <1>1, <1>2, LineKinds DEF Placed
<1>6. c2s'[a] = NoLine
  BY <1>1, <1>2 DEF Shapes
<1>7. PICK z : z = c2s[a].z
  OBVIOUS
<1>8. /\ z \in TA!Response /\ z \in answered
      /\ table[a] = Entry(z.r, z.c)
      /\ [a |-> a, u |-> z.r, c |-> z.c] \in challenged
  BY <1>1, <1>2, <1>7, PacketKinds DEF Placed, AskedAndAnswered, Asked
<1>9. table[a] # NoEntry /\ table[a].u = z.r /\ table[a].c = z.c
  BY <1>8, LineKinds
<1>10. /\ z.r \in Short => verify_izkp_geometry(table[a].u, table[a].c, z) = FALSE
       /\ z.r \notin Short => verify_izkp_geometry(table[a].u, table[a].c, z) = TRUE
  BY <1>9 DEF verify_izkp_geometry
<1>11. \/ /\ z.r \notin Short
          /\ SendTo(a, VerdictLine(TRUE))
          /\ verdicts' = verdicts \union {[a |-> a, z |-> z, ok |-> TRUE]}
       \/ /\ z.r \in Short
          /\ SendTo(a, ErrorLine) \/ SendTo(a, VerdictLine(FALSE))
          /\ verdicts' \subseteq verdicts \union {[a |-> a, z |-> z, ok |-> FALSE]}
  <2>1. CASE z.r \in Short
    BY <1>7, <1>9, <1>10, <2>1 DEF ServerResponse, MaybeOffCurve
  <2>2. CASE z.r \notin Short
    BY <1>7, <1>9, <1>10, <2>2 DEF ServerResponse, MaybeOffCurve
  <2> QED BY <2>1, <2>2
<1>12. VerdictsHonest'
  <2> SUFFICES ASSUME NEW v \in verdicts' PROVE v.ok \/ v.z.r \in Short
    BY DEF VerdictsHonest
  <2>1. CASE v \in verdicts
    BY <2>1 DEF VerdictsHonest, IInv
  <2>2. CASE v \notin verdicts
    <3>1. CASE z.r \notin Short
      <4>1. v = [a |-> a, z |-> z, ok |-> TRUE]
        BY <1>11, <2>2, <3>1
      <4> QED BY <4>1
    <3>2. CASE z.r \in Short
      <4>1. v = [a |-> a, z |-> z, ok |-> FALSE]
        BY <1>11, <2>2, <3>2
      <4> QED BY <4>1, <3>2
    <3> QED BY <3>1, <3>2
  <2> QED BY <2>1, <2>2
<1>13. Accepted(a)'
  <2>1. z = [r |-> z.r, c |-> z.c]
    BY <1>8 DEF TA!Response
  <2>2. PICK q : q = [a |-> a, u |-> z.r, c |-> z.c]
    OBVIOUS
  <2>3. q \in challenged' /\ q.a = a /\ z \in answered' /\ z = [r |-> q.u, c |-> q.c]
    BY <1>2, <1>8, <2>1, <2>2
  <2>4. [a |-> a, z |-> z, ok |-> TRUE] \in verdicts' \/ q.u \in Short
    BY <1>11, <2>2
  <2> QED BY <2>3, <2>4 DEF Accepted
<1>14. Placed(a)'
  <2>1. Active(a) => s2c'[a] # NoLine
    <3>1. NoLine \notin {ErrorLine, VerdictLine(TRUE), VerdictLine(FALSE)}
      BY LineKinds
    <3>2. PICK line : SendTo(a, line) /\ line # NoLine
      BY <1>11, <3>1
    <3> QED BY <1>1, <3>2, SendToOther
  <2>2. ~Active(a) => s2c'[a] = NoLine
    BY <1>1, <1>11, SendToOther DEF Placed
  <2> QED
    BY <1>1, <1>2, <1>5, <1>6, <1>13, <2>1, <2>2, LineKinds DEF Placed, Active, Waiting
<1> QED BY <1>3, <1>4, <1>12, <1>14 DEF StepAt

LEMMA ServerQuietPlaces ==
  ASSUME IInv, ServerAccepts \/ \E a \in Client : ServerConnectionEnds(a) \/ ServerDies(a)
  PROVE  (\A b \in Client : Placed(b))'
<1>1. UNCHANGED <<agent, host, hostIn, hostOut, c2s, s2c, table, sess, answered, challenged,
                  verdicts>>
  BY DEF ServerAccepts, ServerConnectionEnds, ServerDies, taVars, agentVars, hostVars, netVars
<1>2. Grows /\ \A b \in Client : SameAt(b)
  BY <1>1 DEF Grows, SameAt
<1> QED BY <1>2, Frame DEF IInv

(***************************************************************************)
(* Types of the processes, their lines and the table.                      *)
(***************************************************************************)
ProcessTypes ==
    /\ agent \in [Client -> Waiting \union {"off", "done", "failed"}]
    /\ \A a \in Client : runs[a] \in 0..MaxRuns[a]
    /\ plain \in [Client -> BOOLEAN]
    /\ host \in [Client -> {"start", "opened", "stdin", "closing", "killed", "exited"}]
    /\ serving \in Client \union {Nobody}
    /\ server \in {"up", "down"}
    /\ reset \in [Client -> BOOLEAN]
    /\ PacketsOK

LEMMA ExceptType ==
  ASSUME NEW D, NEW R, NEW f \in [D -> R], NEW d \in D, NEW r \in R
  PROVE  [f EXCEPT ![d] = r] \in [D -> R]
  OBVIOUS

LEMMA PacketElements ==
  /\ NoLine \in Packet /\ NoEntry \in TableEntry
  /\ \A u \in Nonce : InitLine(u) \in Packet
  /\ \A z \in TA!Response : RespLine(z) \in Packet
  /\ \A u \in Nonce, c \in Challenge : Entry(u, c) \in TableEntry
  BY DEF Packet, TableEntry

LEMMA TypesSplit ==
  ProcessTypes /\ TA!TypeOK /\ LinesOK <=> TypeOK /\ PacketsOK
<1>1. PacketsOK => \A a \in Client : table[a] # NoEntry =>
          table[a].u \in Nonce /\ table[a].c \in Challenge
  BY LineKinds DEF PacketsOK, TableEntry
<1> QED BY <1>1 DEF TypeOK, ProcessTypes

LEMMA AgentTypes ==
  ASSUME ProcessTypes, LinesOK, NEW a \in Client,
         AgentStart(a) \/ AgentAborts(a) \/ AgentStep(a)
  PROVE  ProcessTypes'
<1>1. CASE AgentStart(a)
  <2>o. /\ runs \in [Client -> Nat] /\ backlog \in Seq(Client)
        /\ hostOut \in [Client -> Packet] /\ c2s \in [Client -> Packet]
        /\ table \in [Client -> TableEntry]
    BY DEF ProcessTypes, PacketsOK
  <2>1. runs' \in [Client -> Nat] /\ \A b \in Client : runs'[b] \in 0..MaxRuns[b]
    <3>1. runs' = [runs EXCEPT ![a] = runs[a] + 1] /\ runs[a] < MaxRuns[a]
      BY <1>1 DEF AgentStart
    <3>2. runs[a] + 1 \in Nat /\ runs[a] + 1 <= MaxRuns[a]
      <4>1. runs[a] \in Nat /\ MaxRuns[a] \in Nat
        BY <2>o, MaxRunsType
      <4> QED BY <3>1, <4>1
    <3>3. runs' \in [Client -> Nat]
      BY <2>o, <3>1, <3>2, ExceptType
    <3>4. ASSUME NEW b \in Client PROVE runs'[b] \in 0..MaxRuns[b]
      <4>1. CASE b = a
        BY <4>1, <2>o, <3>1, <3>2, MaxRunsType
      <4>2. CASE b # a
        BY <4>2, <2>o, <3>1 DEF ProcessTypes
      <4> QED BY <4>1, <4>2
    <3> QED BY <3>3, <3>4
  <2>2. backlog' \in Seq(Client)
    <3>1. backlog' = Append(backlog, a) \/ backlog' = backlog
      BY <1>1 DEF AgentStart
    <3>2. Append(backlog, a) \in Seq(Client)
      BY <2>o
    <3> QED BY <2>o, <3>1, <3>2
  <2>3. hostOut' \in [Client -> Packet] /\ c2s' \in [Client -> Packet]
    <3>1. /\ hostOut' = [hostOut EXCEPT ![a] = NoLine] \/ hostOut' = hostOut
          /\ c2s' = [c2s EXCEPT ![a] = NoLine]
      BY <1>1 DEF AgentStart, hostVars
    <3> QED BY <2>o, <3>1, ExceptType, PacketElements
  <2>4. agent' \in [Client -> Waiting \union {"off", "done", "failed"}]
    BY <1>1 DEF AgentStart, ProcessTypes, Waiting
  <2>5. /\ plain' \in [Client -> BOOLEAN] /\ reset' \in [Client -> BOOLEAN]
        /\ host' \in [Client -> {"start", "opened", "stdin", "closing", "killed", "exited"}]
        /\ UNCHANGED <<serving, server, table>>
    BY <1>1 DEF AgentStart, ProcessTypes, hostVars, serverVars
  <2> QED BY <2>o, <2>1, <2>2, <2>3, <2>4, <2>5 DEF ProcessTypes, PacketsOK
<1>2. CASE ~AgentStart(a)
  <2>1. UNCHANGED <<runs, plain, backlog, serving, server, table>>
    BY <1>2 DEF AgentAborts, AgentStep, AgentSendsInit, AgentSendsResponse, AgentRelays,
       AgentHostGone, AgentGetsChallenge, AgentGetsRefusal, AgentGetsVerdict, AgentReaps,
       AgentLosesServer, AgentEnds, Goto, serverVars
  <2>2. agent' \in [Client -> Waiting \union {"off", "done", "failed"}]
    BY <1>2 DEF ProcessTypes, Waiting, AgentAborts, AgentStep, AgentSendsInit,
       AgentSendsResponse, AgentRelays, AgentHostGone, AgentGetsChallenge, AgentGetsRefusal,
       AgentGetsVerdict, AgentReaps, AgentLosesServer, AgentEnds, Goto
  <2>3. host' \in [Client -> {"start", "opened", "stdin", "closing", "killed", "exited"}]
    BY <1>2 DEF ProcessTypes, AgentAborts, AgentStep, AgentSendsInit, AgentSendsResponse,
       AgentRelays, AgentHostGone, AgentGetsChallenge, AgentGetsRefusal, AgentGetsVerdict,
       AgentReaps, AgentLosesServer, Kill, hostVars
  <2>4. reset' \in [Client -> BOOLEAN]
    <3>1. UNCHANGED reset \/ reset' = [reset EXCEPT ![a] = s2c[a] # NoLine]
      BY <1>2 DEF AgentAborts, AgentStep, AgentSendsInit, AgentSendsResponse, AgentRelays,
         AgentHostGone, AgentGetsChallenge, AgentGetsRefusal, AgentGetsVerdict, AgentReaps,
         AgentLosesServer, AgentEnds, CloseSocket
    <3>2. (s2c[a] # NoLine) \in BOOLEAN
      OBVIOUS
    <3> QED BY <3>1, <3>2 DEF ProcessTypes
  <2>5. hostOut' \in [Client -> Packet] /\ c2s' \in [Client -> Packet]
    <3>1. UNCHANGED hostOut \/ hostOut' = [hostOut EXCEPT ![a] = NoLine]
      BY <1>2 DEF AgentAborts, AgentStep, AgentSendsInit, AgentSendsResponse, AgentRelays,
         AgentHostGone, AgentGetsChallenge, AgentGetsRefusal, AgentGetsVerdict, AgentReaps,
         AgentLosesServer, hostVars
    <3>2. UNCHANGED c2s \/ c2s' = [c2s EXCEPT ![a] = hostOut[a]]
      BY <1>2 DEF AgentAborts, AgentStep, AgentSendsInit, AgentSendsResponse, AgentRelays,
         AgentHostGone, AgentGetsChallenge, AgentGetsRefusal, AgentGetsVerdict, AgentReaps,
         AgentLosesServer, AgentEnds
    <3>3. hostOut \in [Client -> Packet] /\ c2s \in [Client -> Packet]
      BY DEF ProcessTypes, PacketsOK
    <3>4. hostOut[a] \in Packet
      BY <3>3
    <3> QED BY <3>1, <3>2, <3>3, <3>4, ExceptType, PacketElements
  <2> QED BY <2>1, <2>2, <2>3, <2>4, <2>5 DEF ProcessTypes, PacketsOK
<1> QED BY <1>1, <1>2

LEMMA HostTypes ==
  ASSUME ProcessTypes, TA!TypeOK, LinesOK, NEW a \in Client, HostStep(a)
  PROVE  ProcessTypes'
<1>1. UNCHANGED <<agent, runs, plain, c2s, reset, backlog, serving, server, table>>
  BY DEF HostStep, HostOpens, HostCommits, HostAnswers, HostEndOfFile, HostCloses,
     HostKilled, agentVars, netVars, serverVars
<1>2. host' \in [Client -> {"start", "opened", "stdin", "closing", "killed", "exited"}]
  BY DEF ProcessTypes, HostStep, HostOpens, HostCommits, HostAnswers, HostEndOfFile,
     HostCloses, HostKilled, HostGoto
<1>3. hostOut' \in [Client -> Packet]
  <2>o. hostOut \in [Client -> Packet]
    BY DEF ProcessTypes, PacketsOK
  <2>1. CASE HostCommits(a)
    <3>1. hostOut' = hostOut \/ \E r \in Nonce : hostOut' = [hostOut EXCEPT ![a] = InitLine(r)]
      BY <2>1 DEF HostCommits
    <3> QED BY <2>o, <3>1, ExceptType, PacketElements
  <2>2. CASE HostAnswers(a)
    <3>1. sess[a].r \in Nonce \union {Zero}
      BY DEF TA!TypeOK, TA!SessionCtx
    <3>2. hostIn[a].c \in Challenge
      BY <2>2, LineKinds DEF HostAnswers, LinesOK
    <3>3. RespLine([r |-> sess[a].r, c |-> hostIn[a].c]) \in Packet
      BY <3>1, <3>2, PacketElements DEF TA!Response
    <3>4. \/ hostOut' = hostOut
          \/ hostOut' = [hostOut EXCEPT
                            ![a] = RespLine([r |-> sess[a].r, c |-> hostIn[a].c])]
      BY <2>2 DEF HostAnswers
    <3> QED BY <2>o, <3>3, <3>4, ExceptType
  <2>3. CASE ~HostCommits(a) /\ ~HostAnswers(a)
    BY <2>3, <2>o DEF HostStep, HostOpens, HostEndOfFile, HostCloses, HostKilled
  <2> QED BY <2>1, <2>2, <2>3
<1> QED BY <1>1, <1>2, <1>3 DEF ProcessTypes, PacketsOK

LEMMA ServerTypes ==
  ASSUME ProcessTypes, LinesOK, ServerStep
  PROVE  ProcessTypes'
<1>1. CASE ServerAccepts
  BY <1>1 DEF ServerAccepts, ProcessTypes, PacketsOK, agentVars, hostVars
<1>2. ASSUME NEW a \in Client, ServerInit(a) \/ ServerResponse(a)
      PROVE  ProcessTypes'
  <2>1. /\ UNCHANGED <<agent, runs, plain, host, hostOut, backlog, serving, server>>
        /\ c2s' = [c2s EXCEPT ![a] = NoLine]
        /\ UNCHANGED reset \/ reset' = [reset EXCEPT ![a] = TRUE]
    BY <1>2 DEF ServerInit, ServerResponse, SendTo, agentVars, hostVars
  <2>o. table \in [Client -> TableEntry] /\ c2s \in [Client -> Packet]
        /\ reset \in [Client -> BOOLEAN]
    BY DEF ProcessTypes, PacketsOK
  <2>2. table' \in [Client -> TableEntry]
    <3>1. CASE ServerInit(a)
      <4>1. c2s[a].u \in Nonce
        BY <2>o, <3>1, PacketKinds DEF ServerInit
      <4>2. \/ table' = table
            \/ \E c \in Challenge : table' = [table EXCEPT ![a] = Entry(c2s[a].u, c)]
        BY <3>1 DEF ServerInit, Remember
      <4> QED BY <2>o, <4>1, <4>2, ExceptType, PacketElements
    <3>2. CASE ServerResponse(a)
      <4>1. table' = table \/ table' = [table EXCEPT ![a] = NoEntry]
        BY <3>2 DEF ServerResponse
      <4> QED BY <2>o, <4>1, ExceptType, PacketElements
    <3> QED BY <1>2, <3>1, <3>2
  <2>3. c2s' \in [Client -> Packet] /\ reset' \in [Client -> BOOLEAN]
    BY <2>o, <2>1, ExceptType, PacketElements
  <2> QED BY <2>1, <2>2, <2>3 DEF ProcessTypes, PacketsOK
<1>3. ASSUME NEW a \in Client, ServerConnectionEnds(a) \/ ServerDies(a)
      PROVE  ProcessTypes'
  <2>1. UNCHANGED <<agent, runs, plain, host, hostOut, c2s, reset, table>>
    BY <1>3 DEF ServerConnectionEnds, ServerDies, agentVars, hostVars, netVars
  <2>2. /\ serving' \in Client \union {Nobody} /\ server' \in {"up", "down"}
        /\ backlog' \in Seq(Client)
    <3>1. backlog \in Seq(Client) /\ server \in {"up", "down"}
      BY DEF ProcessTypes, PacketsOK
    <3>2. <<>> \in Seq(Client)
      OBVIOUS
    <3>3. CASE ServerConnectionEnds(a)
      BY <3>1, <3>3 DEF ServerConnectionEnds, netVars
    <3>4. CASE ServerDies(a)
      BY <3>2, <3>4 DEF ServerDies
    <3> QED BY <1>3, <3>3, <3>4
  <2> QED BY <2>1, <2>2 DEF ProcessTypes, PacketsOK
<1> QED BY <1>1, <1>2, <1>3 DEF ServerStep

(***************************************************************************)
(* The invariant.                                                          *)
(***************************************************************************)
LEMMA InitIInv == Init /\ TA!TypeOK => IInv
<1> SUFFICES ASSUME Init, TA!TypeOK PROVE IInv
  OBVIOUS
<1>1. \A a \in Client : MaxRuns[a] \in Nat /\ 0 \in 0..MaxRuns[a]
  BY MaxRunsType
<1>2. PacketsOK
  BY PacketElements DEF Init, PacketsOK
<1>3. ProcessTypes
  BY <1>1, <1>2 DEF Init, ProcessTypes
<1>4. \A a \in Client : Placed(a)
  BY LineKinds DEF Init, Placed, Active, Waiting
<1> QED
  BY <1>3, <1>4, InitLines, TypesSplit DEF Init, IInv, VerdictsHonest

LEMMA NextPlaces ==
  ASSUME IInv, [Next]_vars
  PROVE  (\A a \in Client : Placed(a))' /\ VerdictsHonest'
<1>1. ASSUME NEW a \in Client, AgentStart(a) \/ AgentAborts(a) \/ AgentStep(a)
      PROVE  (\A b \in Client : Placed(b))' /\ VerdictsHonest'
  <2>1. StepAt(a)
    BY <1>1, AgentStartPlaces, AgentRelayPlaces, AgentEndPlaces, AgentReadPlaces DEF AgentStep
  <2>2. UNCHANGED verdicts
    BY <1>1 DEF AgentStart, AgentAborts, AgentStep, AgentSendsInit, AgentHostGone,
       AgentGetsChallenge, AgentGetsRefusal, AgentSendsResponse, AgentGetsVerdict,
       AgentReaps, AgentLosesServer, AgentRelays, serverVars
  <2> QED BY <2>1, <2>2, StepPlaces DEF IInv, VerdictsHonest
<1>2. ASSUME NEW a \in Client, HostStep(a)
      PROVE  (\A b \in Client : Placed(b))' /\ VerdictsHonest'
  <2>1. UNCHANGED verdicts
    BY <1>2 DEF HostStep, HostOpens, HostCommits, HostAnswers, HostEndOfFile, HostCloses,
       HostKilled, serverVars
  <2> QED BY <1>2, <2>1, HostPlaces, StepPlaces DEF IInv, VerdictsHonest
<1>3. CASE ServerStep
  <2>1. ASSUME NEW a \in Client, ServerResponse(a)
        PROVE  (\A b \in Client : Placed(b))' /\ VerdictsHonest'
    BY <2>1, ServerResponsePlaces, StepPlaces
  <2>2. ASSUME NEW a \in Client, ServerInit(a)
        PROVE  (\A b \in Client : Placed(b))' /\ VerdictsHonest'
    <3>1. UNCHANGED verdicts
      BY <2>2 DEF ServerInit
    <3> QED BY <2>2, <3>1, ServerInitPlaces, StepPlaces DEF IInv, VerdictsHonest
  <2>3. CASE ServerAccepts \/ \E a \in Client : ServerConnectionEnds(a) \/ ServerDies(a)
    <3>1. UNCHANGED verdicts
      BY <2>3 DEF ServerAccepts, ServerConnectionEnds, ServerDies
    <3> QED BY <2>3, <3>1, ServerQuietPlaces DEF IInv, VerdictsHonest
  <2> QED BY <1>3, <2>1, <2>2, <2>3 DEF ServerStep
<1>4. CASE AllEnded \/ UNCHANGED vars
  <2>1. UNCHANGED verdicts /\ Grows /\ \A b \in Client : SameAt(b)
    BY <1>4 DEF AllEnded, vars, taVars, agentVars, hostVars, netVars, serverVars, Grows, SameAt
  <2> QED BY <2>1, Frame DEF IInv, VerdictsHonest
<1> QED BY <1>1, <1>2, <1>3, <1>4 DEF Next

LEMMA NextIInv == IInv /\ TA!TypeOK' /\ [Next]_vars => IInv'
<1> SUFFICES ASSUME IInv, TA!TypeOK', [Next]_vars PROVE IInv'
  OBVIOUS
<1>1. ProcessTypes /\ TA!TypeOK /\ LinesOK
  BY TypesSplit DEF IInv
<1>2. ProcessTypes'
  <2>1. CASE AllEnded \/ UNCHANGED vars
    BY <1>1, <2>1 DEF AllEnded, vars, agentVars, hostVars, netVars, serverVars, ProcessTypes,
       PacketsOK
  <2> QED BY <1>1, <2>1, AgentTypes, HostTypes, ServerTypes DEF Next
<1>3. LinesOK'
  BY <1>1, NextLines
<1>4. (TypeOK /\ PacketsOK)'
  <2>1. (\A a \in Client : table[a] # NoEntry =>
            table[a].u \in Nonce /\ table[a].c \in Challenge)'
    BY <1>2, LineKinds DEF ProcessTypes, PacketsOK, TableEntry
  <2> QED BY <1>2, <1>3, <2>1 DEF TypeOK, ProcessTypes
<1> QED
  BY <1>4, NextPlaces DEF IInv

(***************************************************************************)
(* The invariant holds for any number of agents, runs, nonces and          *)
(* challenges, aborted runs, reset connections and reused addresses.       *)
(***************************************************************************)
THEOREM Invariance == Spec => []IInv
<1>1. Spec => []TA!TypeOK
  BY TATypes
<1> QED
  BY <1>1, InitIInv, NextIInv, PTL DEF Spec

(***************************************************************************)
(* The variables of the exchange keep their types.                         *)
(***************************************************************************)
THEOREM TypeCorrect == Spec => []TypeOK
<1>1. IInv => TypeOK
  BY DEF IInv
<1> QED BY <1>1, Invariance, PTL

(***************************************************************************)
(* The server never checks a response against the table entry of another   *)
(* run, and always finds one: an honest proof with a full-length nonce is  *)
(* accepted (schnorr_verif.py:handle_client_data).                         *)
(***************************************************************************)
THEOREM HonestSafety == Spec => []HonestNeverRejected
<1>1. IInv => HonestNeverRejected
  <2>1. ASSUME IInv, NEW a \in Client, c2s[a].type = "IZKP_RESPONSE"
        PROVE  table[a] # NoEntry
    <3>1. table[a] = Entry(c2s[a].z.r, c2s[a].z.c)
      BY <2>1 DEF IInv, Placed, AskedAndAnswered, Asked
    <3>2. table[a].type = "entry"
      BY <3>1, LineKinds
    <3> QED BY <3>2, LineKinds
  <2> QED BY <2>1 DEF IInv, VerdictsHonest, HonestNeverRejected
<1> QED BY <1>1, Invariance, PTL

(***************************************************************************)
(* An agent that ends its run as done was accepted for an answer of the TA *)
(* to a challenge of the server (ree_client.py:execute_izkp).              *)
(***************************************************************************)
THEOREM DoneSafety == Spec => []DoneWasAccepted
<1>1. IInv => DoneWasAccepted
  BY DEF IInv, Placed, DoneWasAccepted
<1> QED BY <1>1, Invariance, PTL

=============================================================================
