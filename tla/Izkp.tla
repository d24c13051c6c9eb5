-------------------------------- MODULE Izkp --------------------------------
(***************************************************************************)
(* The interactive proof end to end: agents (shared/schnorr_verification/  *)
(* ree_client.py), each driving one host program over two pipes            *)
(* (optee_examples/schnorr_sFS_izkp/host/main.c), the single trusted       *)
(* application they compete for (module IzkpTA), and the verification      *)
(* server, which serves one TCP connection at a time                       *)
(* (shared/schnorr_verification/schnorr_verif.py).                         *)
(*                                                                         *)
(* An agent and its host program share one name, which is also the address *)
(* the server keys its session table by: an agent that runs again may get  *)
(* the port it had before, and meets the entry an aborted run left behind. *)
(* A pipe or a socket direction holds at most one line, because every      *)
(* participant waits for the answer to its last line.                      *)
(***************************************************************************)
EXTENDS Naturals, Sequences

CONSTANTS
    Client,     \* agents
    Nonce, Challenge, Zero,   \* as in IzkpTA
    Short,      \* nonces of which r, u_x or u_y starts with a zero byte
    Nobody,     \* the server serves no connection
    MaxRuns     \* bound: how often each agent is started

ASSUME ZeroIsNotNonce == Zero \notin Nonce
ASSUME ShortType == Short \subseteq Nonce
ASSUME MaxRunsType == MaxRuns \in [Client -> Nat]

VARIABLES
    sess, issued, answered, reply,   \* the trusted application
    agent,      \* where each ree_client.py is
    runs,       \* how often it was started
    plain,      \* its message contains no ':'
    host,       \* where each host program is
    hostIn,     \* line waiting on the host's stdin
    hostOut,    \* line waiting on the host's stdout
    c2s, s2c,   \* line in flight to and from the server
    reset,      \* the connection was reset by the agent's end
    backlog,    \* connections waiting for accept
    serving,    \* the connection being served
    server,     \* whether the server process is up
    table,      \* active_izkp_sessions
    challenged, \* history: challenges sent, with address and commitment
    verdicts    \* history: verdicts on responses

TA == INSTANCE IzkpTA

taVars     == <<sess, issued, answered, reply>>
agentVars  == <<agent, runs, plain>>
hostVars   == <<host, hostIn, hostOut>>
netVars    == <<c2s, s2c, reset, backlog>>
serverVars == <<serving, server, table, challenged, verdicts>>
vars       == <<taVars, agentVars, hostVars, netVars, serverVars>>

-----------------------------------------------------------------------------
(***************************************************************************)
(* Lines                                                                   *)
(***************************************************************************)
NoLine       == [type |-> "none"]
EndOfFile    == [type |-> "eof"]
InitLine(u)  == [type |-> "IZKP_INIT", u |-> u]
RespLine(z)  == [type |-> "IZKP_RESPONSE", z |-> z]
ChalLine(c)  == [type |-> "IZKP_CHALLENGE", c |-> c]
ErrorLine    == [type |-> "ERROR"]
VerdictLine(ok) == [type |-> "VERDICT", ok |-> ok]

NoEntry == [type |-> "none"]

\* Faulty variant: the two fields are written in the wrong order.
EntrySwapped(u, c) == [type |-> "entry", u |-> c, c |-> u]
Entry(u, c) == [type |-> "entry", u |-> u, c |-> c]

\* Where an agent waits, in the order of execute_izkp.
Waiting == {"init", "challenge", "response", "verdict", "reap"}
Active(a) == agent[a] \in Waiting

Init ==
    /\ TA!Init
    /\ agent = [a \in Client |-> "off"]
    /\ runs = [a \in Client |-> 0]
    /\ plain = [a \in Client |-> TRUE]
    /\ host = [a \in Client |-> "exited"]
    /\ hostIn = [a \in Client |-> NoLine]
    /\ hostOut = [a \in Client |-> NoLine]
    /\ c2s = [a \in Client |-> NoLine]
    /\ s2c = [a \in Client |-> NoLine]
    /\ reset = [a \in Client |-> FALSE]
    /\ backlog = <<>>
    /\ serving = Nobody
    /\ server = "up"
    /\ table = [a \in Client |-> NoEntry]
    /\ challenged = {}
    /\ verdicts = {}

-----------------------------------------------------------------------------
(***************************************************************************)
(* The agent, ree_client.py                                                *)
(***************************************************************************)

\* Faulty variant: a line the closed socket never read reaches the next run.
CloseSocketKeepsLine(a) == UNCHANGED <<s2c, reset>>

\* Closing a socket with unread data resets the connection.
CloseSocket(a) ==
    /\ s2c' = [s2c EXCEPT ![a] = NoLine]
    /\ reset' = [reset EXCEPT ![a] = s2c[a] # NoLine]

\* execute_izkp returns or raises: main closes the socket, and the exit of
\* the process closes the host's stdin behind any line already written.
AgentEnds(a, outcome) ==
    /\ agent' = [agent EXCEPT ![a] = outcome]
    /\ CloseSocket(a)
    /\ UNCHANGED <<runs, plain, c2s, backlog>>

Goto(a, wait) ==
    /\ agent' = [agent EXCEPT ![a] = wait]
    /\ UNCHANGED <<runs, plain>>

\* proc.kill() on the host: the kernel closes its session (HostKilled).
Kill(a) == host' = [host EXCEPT ![a] = IF @ = "exited" THEN @ ELSE "killed"]

ConnectionGone(a) ==
    /\ a \notin {backlog[i] : i \in DOMAIN backlog}
    /\ serving # a

\* main connects, then execute_izkp starts the host program.  A dead server
\* refuses the connection, and no host is started.
AgentStart(a) ==
    /\ ~Active(a)
    /\ runs[a] < MaxRuns[a]
    /\ host[a] = "exited"
    /\ ConnectionGone(a)
    /\ runs' = [runs EXCEPT ![a] = @ + 1]
    /\ \E p \in BOOLEAN : plain' = [plain EXCEPT ![a] = p]
    /\ IF server = "up"
       THEN /\ agent' = [agent EXCEPT ![a] = "init"]
            /\ backlog' = Append(backlog, a)
            /\ host' = [host EXCEPT ![a] = "start"]
            /\ hostIn' = [hostIn EXCEPT ![a] = NoLine]
            /\ hostOut' = [hostOut EXCEPT ![a] = NoLine]
       ELSE /\ agent' = [agent EXCEPT ![a] = "failed"]
            /\ UNCHANGED <<backlog, hostVars>>
    /\ c2s' = [c2s EXCEPT ![a] = NoLine]
    /\ reset' = [reset EXCEPT ![a] = FALSE]
    /\ UNCHANGED <<taVars, s2c, serverVars>>

\* readline() returns a packet, which is relayed; sendall raises when the
\* server is gone.
AgentRelays(a, from, type, to) ==
    /\ agent[a] = from
    /\ hostOut[a].type = type
    /\ hostOut' = [hostOut EXCEPT ![a] = NoLine]
    /\ IF server = "up"
       THEN /\ Goto(a, to)
            /\ c2s' = [c2s EXCEPT ![a] = hostOut[a]]
            /\ UNCHANGED <<s2c, reset, backlog>>
       ELSE AgentEnds(a, "failed")
    /\ UNCHANGED <<taVars, host, hostIn, serverVars>>

AgentSendsInit(a)     == AgentRelays(a, "init", "IZKP_INIT", "challenge")
AgentSendsResponse(a) == AgentRelays(a, "response", "IZKP_RESPONSE", "verdict")

\* readline() returns nothing: the host ended without a packet.
AgentHostGone(a) ==
    /\ agent[a] \in {"init", "response"}
    /\ host[a] = "exited"
    /\ hostOut[a] = NoLine
    /\ Kill(a)
    /\ AgentEnds(a, "failed")
    /\ UNCHANGED <<taVars, hostIn, hostOut, serverVars>>

\* The challenge goes to the host's stdin.
AgentGetsChallenge(a) ==
    /\ agent[a] = "challenge"
    /\ s2c[a].type = "IZKP_CHALLENGE"
    /\ hostIn' = [hostIn EXCEPT ![a] = s2c[a]]
    /\ s2c' = [s2c EXCEPT ![a] = NoLine]
    /\ Goto(a, "response")
    /\ UNCHANGED <<taVars, host, hostOut, c2s, reset, backlog, serverVars>>

\* Any other reply ends the run and kills the host.
AgentGetsRefusal(a) ==
    /\ agent[a] = "challenge"
    /\ s2c[a].type = "ERROR"
    /\ Kill(a)
    /\ agent' = [agent EXCEPT ![a] = "failed"]
    /\ s2c' = [s2c EXCEPT ![a] = NoLine]
    /\ UNCHANGED <<taVars, runs, plain, hostIn, hostOut, c2s, reset, backlog,
                   serverVars>>

\* The verdict is printed, whatever it is, and proc.wait() follows.
AgentGetsVerdict(a) ==
    /\ agent[a] = "verdict"
    /\ s2c[a] # NoLine
    /\ s2c' = [s2c EXCEPT ![a] = NoLine]
    /\ Goto(a, "reap")
    /\ UNCHANGED <<taVars, hostVars, c2s, reset, backlog, serverVars>>

AgentReaps(a) ==
    /\ agent[a] = "reap"
    /\ host[a] = "exited"
    /\ AgentEnds(a, "done")
    /\ UNCHANGED <<taVars, hostVars, serverVars>>

\* Faulty variant: the end of the connection is noticed in the last wait only.
AgentLosesServerLate(a) ==
    /\ agent[a] = "verdict"
    /\ s2c[a] = NoLine
    /\ server = "down"
    /\ AgentEnds(a, "failed")
    /\ UNCHANGED <<taVars, hostVars, serverVars>>

\* recv raises or returns nothing because the server process died.
AgentLosesServer(a) ==
    /\ agent[a] \in {"challenge", "verdict"}
    /\ s2c[a] = NoLine
    /\ server = "down"
    /\ AgentEnds(a, "failed")
    /\ UNCHANGED <<taVars, hostVars, serverVars>>

\* The user interrupts the agent; the host, which shares its terminal, may
\* be interrupted with it.
AgentAborts(a) ==
    /\ Active(a)
    /\ AgentEnds(a, "failed")
    /\ Kill(a) \/ UNCHANGED host
    /\ UNCHANGED <<taVars, hostIn, hostOut, serverVars>>

AgentStep(a) ==
    \/ AgentSendsInit(a) \/ AgentHostGone(a) \/ AgentGetsChallenge(a)
    \/ AgentGetsRefusal(a) \/ AgentSendsResponse(a) \/ AgentGetsVerdict(a)
    \/ AgentReaps(a) \/ AgentLosesServer(a)

-----------------------------------------------------------------------------
(***************************************************************************)
(* The host program, main.c                                                *)
(***************************************************************************)
HostGoto(a, pc) == host' = [host EXCEPT ![a] = pc]

HostOpens(a) ==
    /\ host[a] = "start"
    /\ \/ TA!OpenSession(a) /\ HostGoto(a, "opened")
       \/ TA!OpenSessionFails(a) /\ HostGoto(a, "exited")
    /\ UNCHANGED <<agentVars, hostIn, hostOut, netVars, serverVars>>

\* TA_SCHNORR_CMD_GET_COMMITMENT with a 128-byte buffer: the packet is
\* printed, or the session is closed and the program exits.
HostCommits(a) ==
    /\ host[a] = "opened"
    /\ \/ \E r \in Nonce :
             /\ TA!GetCommitment(a, r)
             /\ hostOut' = [hostOut EXCEPT ![a] = InitLine(r)]
             /\ HostGoto(a, "stdin")
       \/ TA!GetCommitmentFails(a) /\ HostGoto(a, "closing") /\ UNCHANGED hostOut
    /\ UNCHANGED <<agentVars, hostIn, netVars, serverVars>>

\* fgets returns the challenge: TA_SCHNORR_CMD_COMPUTE_RESPONSE.
HostAnswers(a) ==
    /\ host[a] = "stdin"
    /\ hostIn[a].type = "IZKP_CHALLENGE"
    /\ hostIn' = [hostIn EXCEPT ![a] = NoLine]
    /\ \/ /\ TA!ComputeResponse(a, hostIn[a].c)
          /\ hostOut' = [hostOut EXCEPT ![a] = RespLine([r |-> sess[a].r, c |-> hostIn[a].c])]
       \/ /\ TA!ComputeResponseNoMemory(a) \/ TA!ComputeResponseRefused(a)
          /\ UNCHANGED hostOut
    /\ HostGoto(a, "closing")
    /\ UNCHANGED <<agentVars, netVars, serverVars>>

\* Faulty variant: the result of fgets is not tested.
HostEndOfFileUnnoticed(a) ==
    /\ host[a] = "stdin"
    /\ ~Active(a)
    /\ UNCHANGED vars

\* fgets returns NULL: the agent is gone and left no challenge.
HostEndOfFile(a) ==
    /\ host[a] = "stdin"
    /\ hostIn[a] = NoLine
    /\ ~Active(a)
    /\ HostGoto(a, "closing")
    /\ UNCHANGED <<taVars, agentVars, hostIn, hostOut, netVars, serverVars>>

HostCloses(a) ==
    /\ host[a] = "closing"
    /\ TA!CloseSession(a)
    /\ HostGoto(a, "exited")
    /\ UNCHANGED <<agentVars, hostIn, hostOut, netVars, serverVars>>

\* A killed program leaves no session behind.
HostKilled(a) ==
    /\ host[a] = "killed"
    /\ \/ TA!CloseSession(a)
       \/ ~TA!IsOpen(a) /\ UNCHANGED taVars
    /\ HostGoto(a, "exited")
    /\ UNCHANGED <<agentVars, hostIn, hostOut, netVars, serverVars>>

HostStep(a) ==
    \/ HostOpens(a) \/ HostCommits(a) \/ HostAnswers(a)
    \/ HostEndOfFile(a) \/ HostCloses(a) \/ HostKilled(a)

-----------------------------------------------------------------------------
(***************************************************************************)
(* The verification server, schnorr_verif.py                               *)
(***************************************************************************)

(***************************************************************************)
(* g.z - X.c = u, for the one secret key of the TA.  A coordinate or r     *)
(* that starts with a zero byte reaches the 32-byte buffers of             *)
(* cmd_get_commitment one byte short and is not moved into place (the      *)
(* lengths the storage API returns are ignored), so that the u that was    *)
(* sent is not the point of the r that was kept.                           *)
(***************************************************************************)
verify_izkp_geometry(u, c, z) == z.r = u /\ z.c = c /\ u \notin Short

\* Point() refuses coordinates off the curve: a misplaced u_x or u_y.
MaybeOffCurve(u) == u \in Short

\* Faulty variant: an entry that is still there is kept.
RememberFirst(a, u, c) ==
    IF table[a] = NoEntry THEN [table EXCEPT ![a] = Entry(u, c)] ELSE table

\* active_izkp_sessions[addr] = {...}
Remember(a, u, c) == [table EXCEPT ![a] = Entry(u, c)]

\* sendall to a connection whose agent is gone provokes a reset.
SendTo(a, line) ==
    IF Active(a)
    THEN s2c' = [s2c EXCEPT ![a] = line] /\ UNCHANGED reset
    ELSE reset' = [reset EXCEPT ![a] = TRUE] /\ UNCHANGED s2c

ServerAccepts ==
    /\ server = "up"
    /\ serving = Nobody
    /\ backlog # <<>>
    /\ serving' = Head(backlog)
    /\ backlog' = Tail(backlog)
    /\ UNCHANGED <<taVars, agentVars, hostVars, c2s, s2c, reset, server, table,
                   challenged, verdicts>>

\* IZKP_INIT: a fresh challenge, kept with the commitment under the address
\* of the connection.  A ':' in the message breaks the four-field format.
ServerInit(a) ==
    /\ server = "up"
    /\ serving = a
    /\ c2s[a].type = "IZKP_INIT"
    /\ c2s' = [c2s EXCEPT ![a] = NoLine]
    /\ \/ /\ plain[a]
          /\ \E c \in Challenge \ {q.c : q \in challenged} :
                /\ table' = Remember(a, c2s[a].u, c)
                /\ challenged' = challenged \union {[a |-> a, u |-> c2s[a].u, c |-> c]}
                /\ SendTo(a, ChalLine(c))
       \/ /\ ~plain[a]
          /\ SendTo(a, ErrorLine)
          /\ UNCHANGED <<table, challenged>>
    /\ UNCHANGED <<taVars, agentVars, hostVars, backlog, serving, server, verdicts>>

\* IZKP_RESPONSE: one verdict or error per table entry.
ServerResponse(a) ==
    /\ server = "up"
    /\ serving = a
    /\ c2s[a].type = "IZKP_RESPONSE"
    /\ c2s' = [c2s EXCEPT ![a] = NoLine]
    /\ \/ /\ table[a] # NoEntry
          /\ LET ok == verify_izkp_geometry(table[a].u, table[a].c, c2s[a].z)
             IN  /\ verdicts' = verdicts \union {[a |-> a, z |-> c2s[a].z, ok |-> ok]}
                 /\ SendTo(a, VerdictLine(ok))
          /\ table' = [table EXCEPT ![a] = NoEntry]
       \/ /\ table[a] # NoEntry
          /\ MaybeOffCurve(table[a].u)
          /\ SendTo(a, ErrorLine)
          /\ table' = [table EXCEPT ![a] = NoEntry]
          /\ UNCHANGED verdicts
       \/ /\ table[a] = NoEntry
          /\ SendTo(a, ErrorLine)
          /\ UNCHANGED <<table, verdicts>>
    /\ UNCHANGED <<taVars, agentVars, hostVars, backlog, serving, server, challenged>>

\* recv returns nothing: the next connection is accepted.  The table keeps
\* the entry of a connection that ended before its response.
ServerConnectionEnds(a) ==
    /\ server = "up"
    /\ serving = a
    /\ c2s[a] = NoLine
    /\ ~Active(a)
    /\ ~reset[a]
    /\ serving' = Nobody
    /\ UNCHANGED <<taVars, agentVars, hostVars, netVars, server, table, challenged,
                   verdicts>>

\* recv raises on a reset connection: main catches only KeyboardInterrupt,
\* so the server process ends, and with it every connection.
ServerDies(a) ==
    /\ server = "up"
    /\ serving = a
    /\ c2s[a] = NoLine
    /\ reset[a]
    /\ server' = "down"
    /\ serving' = Nobody
    /\ backlog' = <<>>
    /\ UNCHANGED <<taVars, agentVars, hostVars, c2s, s2c, reset, table, challenged,
                   verdicts>>

ServerStep ==
    \/ ServerAccepts
    \/ \E a \in Client :
          ServerInit(a) \/ ServerResponse(a) \/ ServerConnectionEnds(a) \/ ServerDies(a)

-----------------------------------------------------------------------------
(***************************************************************************)
(* Every start was used and everything that was started has ended.         *)
(***************************************************************************)
AllEnded ==
    /\ \A a \in Client : /\ ~Active(a) /\ runs[a] = MaxRuns[a]
                         /\ host[a] = "exited" /\ ConnectionGone(a)
    /\ UNCHANGED vars

Next ==
    \/ \E a \in Client : AgentStart(a) \/ AgentAborts(a) \/ AgentStep(a) \/ HostStep(a)
    \/ ServerStep
    \/ AllEnded

Spec == Init /\ [][Next]_vars

(***************************************************************************)
(* The three kinds of process are scheduled by their operating systems; a  *)
(* user need not start an agent nor interrupt one.                         *)
(***************************************************************************)
Fairness ==
    /\ \A a \in Client : WF_vars(AgentStep(a)) /\ WF_vars(HostStep(a))
    /\ WF_vars(ServerStep)

FairSpec == Spec /\ Fairness

-----------------------------------------------------------------------------
(***************************************************************************)
(* Properties                                                              *)
(***************************************************************************)

\* What can wait on a host's stdin, and on an agent's socket.
LinesOK ==
    /\ hostIn \in [Client -> {NoLine} \union {ChalLine(c) : c \in Challenge}]
    /\ s2c \in [Client -> {NoLine, ErrorLine} \union {ChalLine(c) : c \in Challenge}
                                             \union {VerdictLine(ok) : ok \in BOOLEAN}]

\* Every variable keeps its type.
TypeOK ==
    /\ TA!TypeOK
    /\ LinesOK
    /\ agent \in [Client -> Waiting \union {"off", "done", "failed"}]
    /\ \A a \in Client : runs[a] \in 0..MaxRuns[a]
    /\ plain \in [Client -> BOOLEAN]
    /\ host \in [Client -> {"start", "opened", "stdin", "closing", "killed", "exited"}]
    /\ serving \in Client \union {Nobody}
    /\ server \in {"up", "down"}
    /\ reset \in [Client -> BOOLEAN]
    /\ \A a \in Client : table[a] # NoEntry =>
          table[a].u \in Nonce /\ table[a].c \in Challenge

\* An honest run with a full-length nonce is never refused: no response
\* reaches the server without a table entry, and none is checked against the
\* entry of an earlier run that had the same address.
HonestNeverRejected ==
    /\ \A v \in verdicts : v.ok \/ v.z.r \in Short
    /\ \A a \in Client : serving = a /\ c2s[a].type = "IZKP_RESPONSE" => table[a] # NoEntry

\* A verdict on a response of this address confirms what the TA answered, to
\* a challenge the server gave to this address for this commitment.
Accepted(a) ==
    \E q \in challenged :
        LET z == [r |-> q.u, c |-> q.c]
        IN  /\ q.a = a
            /\ z \in answered
            /\ [a |-> a, z |-> z, ok |-> TRUE] \in verdicts \/ q.u \in Short

\* An agent that ends its run as done has been accepted.
DoneWasAccepted == \A a \in Client : agent[a] = "done" => Accepted(a)

\* schnorrizkp_ta.c:175-179, "Octets 64 a 96 : Engagement ephemere u_x" and
\* "Octets 96 a 128 : Engagement ephemere u_y": the commitment is the point of
\* the nonce, so that every verdict on the TA's answer is a success.
\* Violated by nonces in Short.
EveryProofAccepted == \A v \in verdicts : v.ok

\* Each started agent comes to an end: backlog, single TA session and
\* blocking reads never make everyone wait for everyone.
RunsEnd == \A a \in Client : Active(a) ~> ~Active(a)

\* The one session of the TA is always given back, also when the agent
\* or the host dies in the middle of the exchange.
SessionReleased == \A a \in Client : TA!IsOpen(a) ~> ~TA!IsOpen(a)

(***************************************************************************)
(* The inductive invariant of IzkpProofs.                                  *)
(***************************************************************************)
Packet == {NoLine} \union {InitLine(u) : u \in Nonce} \union {RespLine(z) : z \in TA!Response}

TableEntry == {NoEntry} \union {Entry(u, c) : u \in Nonce, c \in Challenge}

PacketsOK ==
    /\ hostOut \in [Client -> Packet]
    /\ c2s \in [Client -> Packet]
    /\ table \in [Client -> TableEntry]
    /\ runs \in [Client -> Nat]
    /\ backlog \in Seq(Client)

\* The server gave the challenge c to this address, and remembers it.
Asked(a, u, c) ==
    /\ table[a] = Entry(u, c)
    /\ [a |-> a, u |-> u, c |-> c] \in challenged

AskedAndAnswered(a, z) == z \in answered /\ Asked(a, z.r, z.c)

\* What lies in the pipes and the socket while an agent waits, and what the
\* server remembers of it.  An aborted run leaves a line behind the end of
\* its agent, but never an answer without its table entry.
Placed(a) ==
    /\ ~Active(a) => s2c[a] = NoLine
    /\ agent[a] = "init" =>
          /\ c2s[a] = NoLine /\ s2c[a] = NoLine /\ hostIn[a] = NoLine
          /\ hostOut[a] # NoLine => host[a] = "stdin" /\ hostOut[a] = InitLine(sess[a].r)
    /\ agent[a] = "challenge" =>
          /\ host[a] = "stdin" /\ hostIn[a] = NoLine /\ hostOut[a] = NoLine
          /\ \/ c2s[a] = InitLine(sess[a].r) /\ s2c[a] = NoLine
             \/ c2s[a] = NoLine /\ s2c[a] = ErrorLine
             \/ /\ c2s[a] = NoLine
                /\ \E c \in Challenge : s2c[a] = ChalLine(c) /\ Asked(a, sess[a].r, c)
    /\ agent[a] = "response" =>
          /\ c2s[a] = NoLine /\ s2c[a] = NoLine
          /\ \/ /\ host[a] = "stdin" /\ hostOut[a] = NoLine
                /\ \E c \in Challenge : hostIn[a] = ChalLine(c) /\ Asked(a, sess[a].r, c)
             \/ /\ host[a] \in {"closing", "exited"}
                /\ hostOut[a] # NoLine =>
                      \E z \in TA!Response : hostOut[a] = RespLine(z) /\ AskedAndAnswered(a, z)
    /\ agent[a] = "verdict" =>
          /\ hostOut[a] = NoLine /\ host[a] \in {"closing", "exited"}
          /\ \/ c2s[a].type = "IZKP_RESPONSE" /\ s2c[a] = NoLine
             \/ c2s[a] = NoLine /\ s2c[a] # NoLine /\ Accepted(a)
    /\ agent[a] \in {"reap", "done"} => Accepted(a)
    /\ c2s[a].type = "IZKP_RESPONSE" => AskedAndAnswered(a, c2s[a].z)

VerdictsHonest == \A v \in verdicts : v.ok \/ v.z.r \in Short

IInv ==
    /\ TypeOK
    /\ PacketsOK
    /\ \A a \in Client : Placed(a)
    /\ VerdictsHonest

=============================================================================
