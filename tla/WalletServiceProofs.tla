------------------------- MODULE WalletServiceProofs -------------------------
(***************************************************************************)
(* Theorems about WalletService, for any number of clients and servers:    *)
(* the service drives the trusted authority only by steps of its           *)
(* specification, and the marker file of the normal world never claims     *)
(* more than the secure world holds.                                       *)
(***************************************************************************)
EXTENDS WalletService, SequenceTheorems, TLAPS

P == INSTANCE TrustedAuthorityProofs WITH Client <- Server

(***************************************************************************)
(* Whatever a client or a server does, the authority makes one of its own  *)
(* steps or none.                                                          *)
(***************************************************************************)
LEMMA TAStepOrStutter == [Next]_vars => [TA!Next]_taVars
<1> SUFFICES ASSUME [Next]_vars PROVE [TA!Next]_taVars
  OBVIOUS
<1>1. ASSUME NEW c \in Client, \/ Start(c) \/ StartBackend(c) \/ Request(c) \/ Handle(c)
                              \/ StopBackend(c) \/ Kill(c)
      PROVE  UNCHANGED taVars
  BY <1>1 DEF Start, StartBackend, Request, Handle, StopBackend, Kill
<1>2. ASSUME NEW s \in Server, CallManager(s)
      PROVE  TA!Next
  <2>1. ASSUME NEW id \in Identity, TA!Invoke(s, [cmd |-> "init", id |-> id])
        PROVE  TA!Next
    BY <2>1 DEF TA!Next, TA!Op
  <2>2. ASSUME NEW c \in Challenge, TA!Invoke(s, [cmd |-> "login", c |-> c])
        PROVE  TA!Next
    BY <2>2 DEF TA!Next, TA!Op
  <2> QED
    BY <1>2, <2>1, <2>2 DEF CallManager, TA!Next
<1>3. ASSUME NEW s \in Server, \/ Bind(s) \/ DecodeFails(s) \/ ServeDocuments(s)
                              \/ ManagerReturns(s)
      PROVE  UNCHANGED taVars
  BY <1>3 DEF Bind, DecodeFails, ServeDocuments, ManagerReturns, ProgramEnds
<1>4. ASSUME NEW s \in Server, TAStep(s)
      PROVE  TA!Next
  BY <1>4 DEF TAStep, TA!Next
<1>5. CASE Reboot
  BY <1>5 DEF Reboot, TA!Next
<1>6. CASE UNCHANGED vars
  BY <1>6 DEF vars
<1> QED
  BY <1>1, <1>2, <1>3, <1>4, <1>5, <1>6 DEF Next, ServerStep

(***************************************************************************)
(* The service runs the authority as its specification says                *)
(* (server.py:call_manager, route_to_ta).                                  *)
(***************************************************************************)
THEOREM UsesTA == Spec => TA!Spec
<1>1. Init => TA!Init
  BY DEF Init
<1>2. [Next]_vars => [TA!Next]_(TA!vars)
  BY TAStepOrStutter DEF taVars, TA!vars, TA!instanceVars
<1> QED
  BY <1>1, <1>2, PTL DEF Spec, TA!Spec

(***************************************************************************)
(* The two names of the authority, that of the service and that of its     *)
(* theorems, are the same specification.                                   *)
(***************************************************************************)
LEMMA SameInit == TA!Init => P!Init
  BY DEF TA!Init, P!Init, TA!NoOp, P!NoOp

LEMMA SameNext == [TA!Next]_(TA!vars) => [P!Next]_(P!vars)
  BY DEF TA!Next, P!Next, TA!vars, TA!instanceVars, P!vars, P!instanceVars, TA!Op, P!Op,
     TA!Invoke, P!Invoke, TA!InvokeFails, P!InvokeFails, TA!InitStep, P!InitStep,
     TA!LoginStep, P!LoginStep, TA!HashPassword, P!HashPassword,
     TA!CreateWallet, P!CreateWallet, TA!WriteWallet, P!WriteWallet,
     TA!WriteWalletFails, P!WriteWalletFails, TA!FindKey, P!FindKey,
     TA!GenerateKey, P!GenerateKey, TA!CreateKey, P!CreateKey, TA!CloseKey, P!CloseKey,
     TA!CloseWallet, P!CloseWallet, TA!OpenWallet, P!OpenWallet,
     TA!ReadWallet, P!ReadWallet, TA!OpenKey, P!OpenKey,
     TA!SignChallenge, P!SignChallenge, TA!Reboot, P!Reboot, TA!Goto, P!Goto,
     TA!Answer, P!Answer, TA!OpenRefused, P!OpenRefused, TA!Result, P!Result,
     TA!NoOp, P!NoOp

LEMMA AuthorityConstants ==
  /\ NoKey \notin RsaKey /\ Nobody \notin Server
  /\ Absent \notin Identity /\ Blank \notin Identity
  BY WalletConstants

(***************************************************************************)
(* The invariant of the authority holds in the service.                    *)
(***************************************************************************)
THEOREM AuthorityInvariant == Spec => []P!IInv
<1>1. P!Spec => []P!IInv
  BY AuthorityConstants, P!Invariance
<1> QED
  BY <1>1, SameInit, SameNext, UsesTA, PTL DEF TA!Spec, P!Spec

(***************************************************************************)
(* The signing key of trusted_authority_ta.c is created once and never     *)
(* replaced, whatever clients, servers and manager do, are killed at or    *)
(* lose power at: the service implements SigningIdentity.                  *)
(***************************************************************************)
THEOREM ServiceIdentity == Spec => P!ImplementsIdentity
<1>1. P!Spec => P!ImplementsIdentity
  BY AuthorityConstants, P!IdentityRefinement
<1> QED
  BY <1>1, SameInit, SameNext, UsesTA, PTL DEF TA!Spec, P!Spec

(***************************************************************************)
(* What an answer, the end of a server and a reply do to clients and       *)
(* servers.                                                                *)
(***************************************************************************)
LEMMA ToldProperties ==
  ASSUME NEW client \in ClientState, NEW cmd,
         NEW res \in {"", "SUCCESS", "NOTHING", "ERROR"}
  PROVE  /\ Told(client, cmd, res) \in ClientState
         /\ SuccessHeard(Told(client, cmd, res)) => cmd = "init" /\ res = "SUCCESS"
<1>1. After(cmd) \in {"stop", "menu"}
  BY DEF After
<1> QED
  BY <1>1 DEF Told, ClientState, Asking, SuccessHeard

LEMMA DisconnectedProperties ==
  ASSUME NEW s, NEW clients \in [Client -> ClientState]
  PROVE  /\ Disconnected(s, clients) \in [Client -> ClientState]
         /\ \A c \in Client :
              SuccessHeard(Disconnected(s, clients)[c]) => SuccessHeard(clients[c])
<1>1. ASSUME NEW c \in Client
      PROVE  \/ Disconnected(s, clients)[c] = clients[c]
             \/ \E cmd : Disconnected(s, clients)[c] = Told(clients[c], cmd, "ERROR")
  BY DEF Disconnected
<1>2. ASSUME NEW c \in Client
      PROVE  /\ Disconnected(s, clients)[c] \in ClientState
             /\ SuccessHeard(Disconnected(s, clients)[c]) => SuccessHeard(clients[c])
  <2>1. clients[c] \in ClientState
    BY <1>2
  <2>2. ASSUME NEW cmd, Disconnected(s, clients)[c] = Told(clients[c], cmd, "ERROR")
        PROVE  /\ Disconnected(s, clients)[c] \in ClientState
               /\ ~SuccessHeard(Disconnected(s, clients)[c])
    <3>1. /\ Told(clients[c], cmd, "ERROR") \in ClientState
          /\ ~SuccessHeard(Told(clients[c], cmd, "ERROR"))
      BY <2>1, ToldProperties
    <3> QED
      BY <2>2, <3>1
  <2> QED
    BY <1>1, <2>1, <2>2
<1>3. Disconnected(s, clients) = [c \in Client |-> Disconnected(s, clients)[c]]
  BY DEF Disconnected
<1> QED
  BY <1>2, <1>3

LEMMA EndProperties ==
  ASSUME TypeOK, NEW s \in Server, ServerEnds(s)
  PROVE  /\ sv' \in [Server -> ServerState]
         /\ cl' \in [Client -> ClientState]
         /\ path' \in Server \union {Nobody}
         /\ \A c \in Client : SuccessHeard(cl'[c]) => SuccessHeard(cl[c])
         /\ sv'[s].pc # "manager"
         /\ \A r \in Server \ {s} : sv'[r] = sv[r]
<1>1. cl \in [Client -> ClientState] /\ sv \in [Server -> ServerState]
  BY DEF TypeOK
<1>2. Off \in ServerState
  BY EmptySeq DEF Off, ServerState
<1>3. sv' = [sv EXCEPT ![s] = Off] /\ cl' = Disconnected(s, cl) /\ path' = Nobody
  BY DEF ServerEnds
<1>4. sv' \in [Server -> ServerState] /\ sv'[s].pc = "off"
      /\ \A r \in Server \ {s} : sv'[r] = sv[r]
  BY <1>1, <1>2, <1>3 DEF Off
<1>5. /\ cl' \in [Client -> ClientState]
      /\ \A c \in Client : SuccessHeard(cl'[c]) => SuccessHeard(cl[c])
  BY <1>1, <1>3, DisconnectedProperties
<1> QED
  BY <1>3, <1>4, <1>5

LEMMA ReplyProperties ==
  ASSUME TypeOK, NEW s \in Server, sv[s].conn # <<>>,
         NEW res \in {"", "SUCCESS", "NOTHING"}, NEW auth \in BOOLEAN, Reply(s, res, auth)
  PROVE  /\ sv' \in [Server -> ServerState]
         /\ cl' \in [Client -> ClientState]
         /\ path' \in Server \union {Nobody}
         /\ \A c \in Client : SuccessHeard(cl'[c]) =>
               \/ SuccessHeard(cl[c])
               \/ Served(s).cmd = "init" /\ res = "SUCCESS"
         /\ sv'[s].pc # "manager"
         /\ \A r \in Server \ {s} : sv'[r] = sv[r]
<1> DEFINE who == Served(s).who
<1>1. sv[s] \in ServerState /\ cl \in [Client -> ClientState] /\ sv \in [Server -> ServerState]
  BY DEF TypeOK
<1>2. who \in Client \union {Gone} /\ Tail(sv[s].conn) \in Seq(Connection)
  <2>1. sv[s].conn \in Seq(Connection)
    BY <1>1 DEF ServerState
  <2>2. Head(sv[s].conn) \in Connection /\ Tail(sv[s].conn) \in Seq(Connection)
    BY <2>1, HeadTailProperties
  <2> QED
    BY <2>2 DEF Served, Connection
<1>3. CASE who = Gone
  <2>1. ServerEnds(s)
    BY <1>3 DEF Reply
  <2> QED
    BY <2>1, EndProperties
<1>4. CASE who # Gone
  <2>1. who \in Client
    BY <1>2, <1>4
  <2>2. /\ sv' = [sv EXCEPT ![s] = [pc |-> "accept", auth |-> auth, conn |-> Tail(sv[s].conn)]]
        /\ cl' = [cl EXCEPT ![who] = Told(cl[who], Served(s).cmd, res)]
        /\ path' = path
    BY <1>1, <1>4, <2>1 DEF Reply
  <2>3. [pc |-> "accept", auth |-> auth, conn |-> Tail(sv[s].conn)] \in ServerState
    BY <1>2 DEF ServerState
  <2>4. sv' \in [Server -> ServerState] /\ sv'[s].pc = "accept"
        /\ \A r \in Server \ {s} : sv'[r] = sv[r]
    BY <1>1, <2>2, <2>3
  <2>5. /\ Told(cl[who], Served(s).cmd, res) \in ClientState
        /\ SuccessHeard(Told(cl[who], Served(s).cmd, res)) => Served(s).cmd = "init" /\ res = "SUCCESS"
    <3>1. cl[who] \in ClientState
      BY <1>1, <2>1
    <3>2. res \in {"", "SUCCESS", "NOTHING", "ERROR"}
      OBVIOUS
    <3> HIDE DEF who
    <3> QED
      BY <3>1, <3>2, ToldProperties
  <2>6. path' \in Server \union {Nobody}
    BY <2>2 DEF TypeOK
  <2> HIDE DEF who
  <2> QED
    BY <1>1, <2>1, <2>2, <2>4, <2>5, <2>6
<1> QED
  BY <1>3, <1>4

(***************************************************************************)
(* What the authority guarantees, in the words of the service.             *)
(***************************************************************************)
LEMMA AuthorityTypes == P!IInv => TA!TypeOK
  BY DEF P!IInv, P!TypeOK, TA!TypeOK, P!Op, TA!Op, P!NoOp, TA!NoOp, P!Result, TA!Result

LEMMA AuthorityTypesNext == P!IInv' => TA!TypeOK'
  BY DEF P!IInv, P!TypeOK, TA!TypeOK, P!Op, TA!Op, P!NoOp, TA!NoOp, P!Result, TA!Result

LEMMA AuthorityStep ==
  ASSUME P!IInv, [TA!Next]_(TA!vars)
  PROVE  /\ Made => Made'
         /\ \A s \in Server : pc[s] # "idle" /\ op[s].cmd = "init" =>
              IF pc'[s] = "idle" THEN out'[s] = "SUCCESS" => Made' ELSE op'[s].cmd = "init"
<1>1. [P!Next]_(P!vars)
  BY SameNext
<1>2. Made => Made'
  BY <1>1, WalletConstants, AuthorityConstants, P!MadeStays DEF Made, P!Made
<1>3. ASSUME NEW s \in Server, pc[s] # "idle", op[s].cmd = "init", pc'[s] = "idle",
             out'[s] = "SUCCESS"
      PROVE  Made'
  BY <1>1, <1>3, AuthorityConstants, P!InitEndsMade DEF Made, P!Made
<1>4. ASSUME NEW s \in Server, pc[s] # "idle", op[s].cmd = "init", pc'[s] # "idle"
      PROVE  op'[s].cmd = "init"
  BY <1>1, <1>4, AuthorityConstants, P!RunsItsCommand
<1> QED
  BY <1>2, <1>3, <1>4

LEMMA InitIInv == Init => IInv
<1> SUFFICES ASSUME Init PROVE IInv
  OBVIOUS
<1>1. TA!TypeOK
  BY DEF Init, TA!Init, TA!TypeOK, TA!Result
<1>2. Off \in ServerState /\ Ended \in ClientState
  BY EmptySeq DEF Off, Ended, ServerState, ClientState
<1>3. TypeOK
  BY <1>1, <1>2 DEF Init, TypeOK
<1>4. InitRuns /\ InitAnswered /\ MarkerMeansWallet
  BY DEF Init, InitRuns, InitAnswered, MarkerMeansWallet, Off, Ended, SuccessHeard
<1> QED
  BY <1>3, <1>4 DEF IInv

(***************************************************************************)
(* Steps of the client, which leave the authority alone.                   *)
(***************************************************************************)
LEMMA ClientKeeps ==
  ASSUME IInv, NEW c \in Client, UNCHANGED taVars, UNCHANGED marker,
         overlapped' \in BOOLEAN, path' \in Server \union {Nobody},
         sv' \in [Server -> ServerState], cl' \in [Client -> ClientState],
         \A s \in Server : sv'[s].pc = "manager" =>
            sv[s].pc = "manager" /\ sv'[s].conn # <<>> /\ Served(s)'.cmd = Served(s).cmd,
         \A k \in Client : SuccessHeard(cl'[k]) => SuccessHeard(cl[k])
  PROVE  IInv'
<1>1. TypeOK'
  BY DEF IInv, TypeOK, TA!TypeOK, taVars
<1>2. InitRuns' /\ InitAnswered' /\ MarkerMeansWallet'
  BY DEF IInv, InitRuns, InitAnswered, MarkerMeansWallet, Made, taVars
<1> QED
  BY <1>1, <1>2 DEF IInv

LEMMA ClientStepIInv ==
  ASSUME IInv, NEW c \in Client, \/ Start(c) \/ StartBackend(c) \/ Request(c)
                                 \/ StopBackend(c) \/ Kill(c)
  PROVE  IInv'
<1>1. /\ sv \in [Server -> ServerState] /\ cl \in [Client -> ClientState]
      /\ path \in Server \union {Nobody} /\ overlapped \in BOOLEAN /\ marker \in BOOLEAN
      /\ \A s \in Server : sv[s].pc = "manager" => sv[s].conn # <<>>
  BY DEF IInv, TypeOK, InitRuns
<1>2. Off \in ServerState /\ Ended \in ClientState
  BY EmptySeq DEF Off, Ended, ServerState, ClientState
<1>3. CASE Start(c)
  <2>1. cl' \in [Client -> ClientState]
        /\ \A k \in Client : cl'[k].res = cl[k].res
                              /\ (cl'[k].pc \in Asking => cl[k].pc \in Asking)
    <3> DEFINE step == IF marker THEN "begin" ELSE "form"
               told == [cl[c] EXCEPT !.pc = step]
    <3>1. cl' = [cl EXCEPT ![c] = told] /\ cl[c].pc \in Asking
      BY <1>1, <1>3 DEF Start, Goto, Asking
    <3>2. told \in ClientState /\ told.res = cl[c].res
      BY <1>1 DEF ClientState
    <3> HIDE DEF told
    <3> QED
      BY <1>1, <3>1, <3>2
  <2>2. overlapped' \in BOOLEAN
    BY <1>3 DEF Start
  <2>3. UNCHANGED <<taVars, marker, path, sv>>
    BY <1>3 DEF Start
  <2> QED
    BY <1>1, <2>1, <2>2, <2>3, ClientKeeps DEF Served, SuccessHeard
<1>4. CASE StartBackend(c)
  <2>1. PICK s \in Server :
          /\ sv[s].pc = "off"
          /\ sv' = [sv EXCEPT ![s].pc = "starting"]
          /\ cl' = [cl EXCEPT ![c].server = s,
                              ![c].pc = IF @ = "form" THEN "init" ELSE "login"]
    BY <1>4 DEF StartBackend
  <2>2. sv' \in [Server -> ServerState] /\ sv'[s].pc = "starting"
        /\ \A r \in Server \ {s} : sv'[r] = sv[r]
    BY <1>1, <2>1 DEF ServerState
  <2>3. cl' \in [Client -> ClientState] /\ cl'[c].res = cl[c].res
        /\ \A k \in Client \ {c} : cl'[k] = cl[k]
    <3> DEFINE told == [cl[c] EXCEPT !.server = s,
                                     !.pc = IF @ = "form" THEN "init" ELSE "login"]
    <3>1. cl' = [cl EXCEPT ![c] = told]
      BY <1>1, <2>1
    <3>2. told \in ClientState /\ told.res = cl[c].res
      BY <1>1 DEF ClientState
    <3> HIDE DEF told
    <3> QED
      BY <1>1, <3>1, <3>2
  <2>4. cl[c].pc \in Asking /\ UNCHANGED <<taVars, marker, path, overlapped>>
    BY <1>4 DEF StartBackend, Asking
  <2> QED
    BY <1>1, <2>2, <2>3, <2>4, ClientKeeps DEF Served, SuccessHeard
<1>5. CASE Request(c)
  <2>1. PICK cmd \in Requests[cl[c].pc] :
          IF path = Nobody
          THEN /\ cl' = [cl EXCEPT ![c] = Told(@, cmd, "ERROR")]
               /\ UNCHANGED sv
          ELSE /\ Len(sv[path].conn) < Backlog
               /\ sv' = [sv EXCEPT ![path].conn = Append(@, [who |-> c, cmd |-> cmd])]
               /\ Goto(c, "wait")
    BY <1>5 DEF Request
  <2>2. cmd \in {"init", "login", "document", "logout"}
    BY <1>5 DEF Request, Requests
  <2>3. UNCHANGED <<taVars, marker, path, overlapped>>
    BY <1>5 DEF Request
  <2>4. CASE path = Nobody
    <3>1. cl[c] \in ClientState
      BY <1>1
    <3>2. /\ Told(cl[c], cmd, "ERROR") \in ClientState
          /\ ~SuccessHeard(Told(cl[c], cmd, "ERROR"))
      BY <3>1, ToldProperties
    <3>3. cl' = [cl EXCEPT ![c] = Told(cl[c], cmd, "ERROR")] /\ sv' = sv
      BY <2>1, <2>4
    <3> DEFINE told == Told(cl[c], cmd, "ERROR")
    <3>4. cl' \in [Client -> ClientState]
          /\ \A k \in Client : SuccessHeard(cl'[k]) => cl'[k] = cl[k]
      <4> HIDE DEF told
      <4> QED
        BY <1>1, <3>2, <3>3
    <3> QED
      BY <1>1, <2>3, <3>3, <3>4, ClientKeeps DEF Served
  <2>5. CASE path # Nobody
    <3>1. path \in Server /\ sv[path] \in ServerState
      BY <1>1, <2>5
    <3> DEFINE new == [who |-> c, cmd |-> cmd]
               conn == sv[path].conn
    <3>2. conn \in Seq(Connection) /\ new \in Connection
      BY <2>2, <3>1 DEF ServerState, Connection
    <3>3. /\ Append(conn, new) \in Seq(Connection)
          /\ Append(conn, new) # <<>>
          /\ conn # <<>> => Head(Append(conn, new)) = Head(conn)
      <4> HIDE DEF new, conn
      <4> QED
        BY <3>2
    <3>4. /\ sv' \in [Server -> ServerState]
          /\ sv'[path].conn = Append(conn, new) /\ sv'[path].pc = sv[path].pc
          /\ \A r \in Server \ {path} : sv'[r] = sv[r]
      <4>1. sv' = [sv EXCEPT ![path] = [sv[path] EXCEPT !.conn = Append(conn, new)]]
        BY <2>1, <2>5
      <4> DEFINE st == [sv[path] EXCEPT !.conn = Append(conn, new)]
      <4>2. st \in ServerState /\ st.conn = Append(conn, new) /\ st.pc = sv[path].pc
        <5> HIDE DEF new, conn
        <5> QED
          BY <3>1, <3>3 DEF ServerState
      <4>3. sv' = [sv EXCEPT ![path] = st]
        BY <4>1
      <4> HIDE DEF st, new, conn
      <4> QED
        BY <1>1, <3>1, <4>2, <4>3
    <3>5. cl' \in [Client -> ClientState] /\ cl'[c].pc = "wait"
          /\ \A k \in Client \ {c} : cl'[k] = cl[k]
      <4>1. cl' = [cl EXCEPT ![c].pc = "wait"]
        BY <2>1, <2>5 DEF Goto
      <4> QED
        BY <1>1, <4>1 DEF ClientState
    <3>6. \A s \in Server : sv'[s].pc = "manager" =>
            sv[s].pc = "manager" /\ sv'[s].conn # <<>> /\ Served(s)' = Served(s)
      BY <1>1, <3>1, <3>3, <3>4 DEF Served
    <3> QED
      BY <1>1, <2>3, <3>4, <3>5, <3>6, ClientKeeps DEF Asking, SuccessHeard
  <2> QED
    BY <2>4, <2>5
<1>6. CASE StopBackend(c)
  <2> DEFINE s == cl[c].server
             left == [cl EXCEPT ![c] = Ended]
  <2>1. sv' = [sv EXCEPT ![s] = Off] /\ cl' = Disconnected(s, left)
        /\ path' = Nobody /\ UNCHANGED <<taVars, marker, overlapped>>
    BY <1>6 DEF StopBackend
  <2>2. left \in [Client -> ClientState]
        /\ \A k \in Client : SuccessHeard(left[k]) => left[k] = cl[k]
    BY <1>1, <1>2 DEF Ended, SuccessHeard
  <2>3. /\ cl' \in [Client -> ClientState]
        /\ \A k \in Client : SuccessHeard(cl'[k]) => SuccessHeard(cl[k])
    <3> HIDE DEF left, s
    <3>1. /\ Disconnected(s, left) \in [Client -> ClientState]
          /\ \A k \in Client :
               SuccessHeard(Disconnected(s, left)[k]) => SuccessHeard(left[k])
      BY <2>2, DisconnectedProperties
    <3> QED
      BY <2>1, <2>2, <3>1
  <2>4. /\ sv' \in [Server -> ServerState]
        /\ \A r \in Server : sv'[r].pc = "manager" => sv'[r] = sv[r]
    BY <1>1, <1>2, <2>1 DEF Off
  <2> QED
    BY <1>1, <2>1, <2>3, <2>4, ClientKeeps DEF Served
<1>7. CASE Kill(c)
  <2> DEFINE Left(q) == [i \in DOMAIN q |-> IF q[i].who = c THEN [q[i] EXCEPT !.who = Gone] ELSE q[i]]
  <2>1. ASSUME NEW q \in Seq(Connection)
        PROVE  /\ Left(q) \in Seq(Connection)
               /\ q # <<>> => Left(q) # <<>> /\ Head(Left(q)).cmd = Head(q).cmd
    <3>1. \A i \in DOMAIN q : q[i] \in Connection
      BY <2>1
    <3>2. \A i \in DOMAIN q : Left(q)[i] \in Connection /\ Left(q)[i].cmd = q[i].cmd
      BY <3>1 DEF Connection
    <3>3. Left(q) \in [1..Len(q) -> Connection]
      BY <3>2
    <3>4. Left(q) \in Seq(Connection) /\ Len(Left(q)) = Len(q)
      BY <3>3, SeqDef
    <3>5. ASSUME q # <<>>
          PROVE  Left(q) # <<>> /\ Head(Left(q)).cmd = Head(q).cmd
      <4>1. Len(q) >= 1 /\ 1 \in DOMAIN q /\ Head(q) = q[1]
        BY <2>1, <3>5
      <4> HIDE DEF Left
      <4>2. Left(q) # <<>> /\ Head(Left(q)) = Left(q)[1]
        BY <3>4, <4>1
      <4> QED
        BY <3>2, <4>1, <4>2
    <3> QED
      BY <3>4, <3>5
  <2>2. cl' = [cl EXCEPT ![c] = Ended] /\ UNCHANGED <<taVars, marker, path, overlapped>>
    BY <1>7 DEF Kill
  <2>3. sv' = [s \in Server |-> [sv[s] EXCEPT !.conn = Left(sv[s].conn)]]
    BY <1>7 DEF Kill
  <2>4. ASSUME NEW s \in Server
        PROVE  /\ sv'[s] \in ServerState /\ sv'[s].pc = sv[s].pc
               /\ sv'[s].conn = Left(sv[s].conn) /\ sv[s].conn \in Seq(Connection)
    <3>1. sv[s] \in ServerState /\ sv[s].conn \in Seq(Connection)
      BY <1>1 DEF ServerState
    <3>2. Left(sv[s].conn) \in Seq(Connection)
      BY <2>1, <3>1
    <3> HIDE DEF Left
    <3> QED
      BY <2>3, <3>1, <3>2 DEF ServerState
  <2>5. sv' \in [Server -> ServerState]
    BY <2>3, <2>4
  <2>6. \A s \in Server : sv'[s].pc = "manager" =>
            sv[s].pc = "manager" /\ sv'[s].conn # <<>> /\ Served(s)'.cmd = Served(s).cmd
    <3> HIDE DEF Left
    <3> QED
      BY <1>1, <2>1, <2>4 DEF Served
  <2>7. cl' \in [Client -> ClientState] /\ \A k \in Client : SuccessHeard(cl'[k]) => SuccessHeard(cl[k])
    BY <1>1, <1>2, <2>2 DEF Ended, SuccessHeard
  <2> QED
    BY <1>1, <2>2, <2>5, <2>6, <2>7, ClientKeeps
<1> QED
  BY <1>3, <1>4, <1>5, <1>6, <1>7

LEMMA HandleIInv ==
  ASSUME IInv, NEW c \in Client, Handle(c)
  PROVE  IInv'
<1>1. cl \in [Client -> ClientState]
  BY DEF IInv, TypeOK
<1>2. /\ cl' \in [Client -> ClientState]
      /\ \A k \in Client : SuccessHeard(cl'[k]) => SuccessHeard(cl[k])
  <2> DEFINE told == [cl[c] EXCEPT !.res = "",
                                   !.pc = IF cl[c].res # "SUCCESS" THEN "stop"
                                          ELSE IF @ = "init" THEN "login" ELSE "menu"]
  <2>1. cl' = [cl EXCEPT ![c] = told]
    BY <1>1 DEF Handle
  <2>2. told \in ClientState /\ told.res = ""
    BY <1>1 DEF ClientState
  <2> HIDE DEF told
  <2>3. cl' \in [Client -> ClientState] /\ cl'[c].res = ""
        /\ \A k \in Client \ {c} : cl'[k] = cl[k]
    BY <1>1, <2>1, <2>2
  <2> QED
    BY <2>3 DEF SuccessHeard
<1>3. marker' \in BOOLEAN /\ (marker' => Made)
  BY DEF Handle, IInv, TypeOK, MarkerMeansWallet, Made, InitAnswered, SuccessHeard, Asking
<1>4. UNCHANGED <<taVars, path, sv, overlapped>>
  BY DEF Handle
<1>5. TypeOK'
  BY <1>2, <1>4 DEF Handle, IInv, TypeOK, TA!TypeOK, taVars
<1>6. InitRuns' /\ InitAnswered' /\ MarkerMeansWallet'
  BY <1>2, <1>3, <1>4 DEF Handle, IInv, InitRuns, InitAnswered, MarkerMeansWallet, Made, taVars,
     Served, SuccessHeard, Asking
<1> QED
  BY <1>5, <1>6 DEF IInv

(***************************************************************************)
(* Steps of the servers and of the authority.                              *)
(***************************************************************************)
LEMMA BindIInv ==
  ASSUME IInv, NEW s \in Server, Bind(s)
  PROVE  IInv'
<1>1. sv \in [Server -> ServerState]
  BY DEF IInv, TypeOK
<1>2. Off \in ServerState
  BY EmptySeq DEF Off, ServerState
<1>3. /\ sv' \in [Server -> ServerState] /\ sv'[s].pc # "manager"
      /\ \A r \in Server \ {s} : sv'[r] = sv[r]
  <2>1. CASE sv' = [sv EXCEPT ![s].pc = "accept"]
    BY <1>1, <2>1 DEF ServerState
  <2>2. CASE sv' = [sv EXCEPT ![s] = Off]
    BY <1>1, <1>2, <2>2 DEF Off
  <2> QED
    BY <2>1, <2>2 DEF Bind
<1>4. UNCHANGED <<taVars, marker, cl, overlapped>> /\ path' \in Server \union {Nobody}
  BY DEF Bind, IInv, TypeOK
<1>5. TypeOK'
  BY <1>3, <1>4 DEF IInv, TypeOK, TA!TypeOK, taVars
<1>6. InitRuns' /\ InitAnswered' /\ MarkerMeansWallet'
  BY <1>3, <1>4 DEF IInv, InitRuns, InitAnswered, MarkerMeansWallet, Made, taVars, Served
<1> QED
  BY <1>5, <1>6 DEF IInv

LEMMA ReplyIInv ==
  ASSUME IInv, NEW s \in Server, sv[s].conn # <<>>,
         NEW res \in {"", "SUCCESS", "NOTHING"}, NEW auth \in BOOLEAN, Reply(s, res, auth),
         Served(s).cmd = "init" /\ res = "SUCCESS" => Made,
         UNCHANGED <<taVars, marker, overlapped>>
  PROVE  IInv'
<1>1. /\ sv' \in [Server -> ServerState]
      /\ cl' \in [Client -> ClientState]
      /\ path' \in Server \union {Nobody}
      /\ \A c \in Client : SuccessHeard(cl'[c]) => SuccessHeard(cl[c]) \/ Made
      /\ sv'[s].pc # "manager"
      /\ \A r \in Server \ {s} : sv'[r] = sv[r]
  BY ReplyProperties DEF IInv
<1>2. TypeOK'
  BY <1>1 DEF IInv, TypeOK, TA!TypeOK, taVars
<1>3. InitRuns' /\ InitAnswered' /\ MarkerMeansWallet'
  BY <1>1 DEF IInv, InitRuns, InitAnswered, MarkerMeansWallet, Made, taVars, Served
<1> QED
  BY <1>2, <1>3 DEF IInv

LEMMA DecodeFailsIInv ==
  ASSUME IInv, NEW s \in Server, DecodeFails(s)
  PROVE  IInv'
<1>1. ServerEnds(s) /\ UNCHANGED <<taVars, marker, overlapped>>
  BY DEF DecodeFails
<1>2. /\ sv' \in [Server -> ServerState]
      /\ cl' \in [Client -> ClientState]
      /\ path' \in Server \union {Nobody}
      /\ \A c \in Client : SuccessHeard(cl'[c]) => SuccessHeard(cl[c])
      /\ sv'[s].pc # "manager"
      /\ \A r \in Server \ {s} : sv'[r] = sv[r]
  BY <1>1, EndProperties DEF IInv
<1>3. TypeOK'
  BY <1>1, <1>2 DEF IInv, TypeOK, TA!TypeOK, taVars
<1>4. InitRuns' /\ InitAnswered' /\ MarkerMeansWallet'
  BY <1>1, <1>2 DEF IInv, InitRuns, InitAnswered, MarkerMeansWallet, Made, taVars, Served
<1> QED
  BY <1>3, <1>4 DEF IInv

LEMMA ServerReplyIInv ==
  ASSUME IInv, NEW s \in Server, ServeDocuments(s) \/ ManagerReturns(s)
  PROVE  IInv'
<1>1. sv[s].auth \in BOOLEAN
  BY DEF IInv, TypeOK, ServerState
<1>2. CASE ServeDocuments(s)
  <2>1. (sv[s].auth /\ Served(s).cmd # "logout") \in BOOLEAN
    OBVIOUS
  <2>2. /\ Reply(s, "", sv[s].auth /\ Served(s).cmd # "logout")
        /\ sv[s].conn # <<>> /\ UNCHANGED <<taVars, marker, overlapped>>
    BY <1>2 DEF ServeDocuments
  <2> QED
    BY <2>1, <2>2, ReplyIInv
<1>3. CASE ManagerReturns(s)
  <2> DEFINE auth == IF Served(s).cmd = "login" THEN out[s] = "SUCCESS" ELSE sv[s].auth
  <2>1. /\ Reply(s, Printed(s), auth) /\ UNCHANGED <<taVars, marker, overlapped>>
        /\ sv[s].pc = "manager" /\ pc[s] = "idle"
    BY <1>3 DEF ManagerReturns, ProgramEnds
  <2>2. auth \in BOOLEAN
    BY <1>1
  <2>3. Printed(s) \in {"", "SUCCESS", "NOTHING"}
    BY DEF Printed
  <2>4. sv[s].conn # <<>> /\ (Served(s).cmd = "init" /\ Printed(s) = "SUCCESS" => Made)
    BY <2>1 DEF IInv, InitRuns, Printed
  <2> HIDE DEF auth
  <2> QED
    BY <2>1, <2>2, <2>3, <2>4, ReplyIInv
<1> QED
  BY <1>2, <1>3

\* A command begins, at the authority or with a failure.
LEMMA CallManagerIInv ==
  ASSUME IInv, P!IInv, P!IInv', NEW s \in Server, CallManager(s)
  PROVE  IInv'
<1>1. sv \in [Server -> ServerState] /\ sv[s] \in ServerState
  BY DEF IInv, TypeOK
<1>2. /\ sv' \in [Server -> ServerState] /\ sv'[s].conn = sv[s].conn /\ sv[s].conn # <<>>
      /\ \A r \in Server \ {s} : sv'[r] = sv[r]
  BY <1>1 DEF CallManager, ServerState
<1>3. /\ wallet' = wallet /\ key' = key /\ UNCHANGED <<marker, path, cl, overlapped>>
      /\ \A r \in Server \ {s} : pc'[r] = pc[r] /\ out'[r] = out[r] /\ op'[r] = op[r]
  BY DEF CallManager, TA!Invoke, TA!InvokeFails, TA!Answer, IInv, TypeOK, TA!TypeOK
<1>4. Served(s).cmd = "init" =>
        IF pc'[s] = "idle" THEN out'[s] # "SUCCESS" ELSE op'[s].cmd = "init"
  BY DEF CallManager, TA!Invoke, TA!InvokeFails, TA!Answer, IInv, TypeOK, TA!TypeOK
<1>5. TypeOK'
  <2>1. TA!TypeOK'
    BY AuthorityTypesNext
  <2> QED
    BY <1>2, <1>3, <2>1 DEF IInv, TypeOK
<1>6. Served(s)' = Served(s)
  BY <1>2 DEF Served
<1>7. InitRuns'
  BY <1>2, <1>3, <1>4, <1>6 DEF IInv, InitRuns, Made, Served
<1>8. InitAnswered' /\ MarkerMeansWallet'
  BY <1>3 DEF IInv, InitAnswered, MarkerMeansWallet, Made
<1> QED
  BY <1>5, <1>7, <1>8 DEF IInv

LEMMA TAStepIInv ==
  ASSUME IInv, P!IInv, P!IInv', NEW s \in Server, TAStep(s)
  PROVE  IInv'
<1>1. UNCHANGED <<marker, path, sv, cl, overlapped>>
  BY DEF TAStep
<1>2. TA!Next
  BY DEF TAStep, TA!Next
<1>3. \A r \in Server : pc[r] = "idle" => pc'[r] = "idle" /\ out'[r] = out[r]
  BY DEF TAStep, TA!InitStep, TA!LoginStep, TA!HashPassword, TA!CreateWallet, TA!WriteWallet,
     TA!WriteWalletFails, TA!FindKey, TA!GenerateKey, TA!CreateKey, TA!CloseKey, TA!CloseWallet,
     TA!OpenWallet, TA!ReadWallet, TA!OpenKey, TA!SignChallenge, TA!Goto, TA!Answer,
     IInv, TypeOK, TA!TypeOK
<1>4. /\ Made => Made'
      /\ \A r \in Server : pc[r] # "idle" /\ op[r].cmd = "init" =>
            IF pc'[r] = "idle" THEN out'[r] = "SUCCESS" => Made' ELSE op'[r].cmd = "init"
  BY <1>2, AuthorityStep
<1>5. TypeOK'
  <2>1. TA!TypeOK'
    BY AuthorityTypesNext
  <2> QED
    BY <1>1, <2>1 DEF IInv, TypeOK
<1>6. InitRuns'
  BY <1>1, <1>3, <1>4 DEF IInv, InitRuns, Served
<1>7. InitAnswered' /\ MarkerMeansWallet'
  BY <1>1, <1>4 DEF IInv, InitAnswered, MarkerMeansWallet, Made
<1> QED
  BY <1>5, <1>6, <1>7 DEF IInv

LEMMA NextIInv == IInv /\ P!IInv /\ P!IInv' /\ [Next]_vars => IInv'
<1> SUFFICES ASSUME IInv, P!IInv, P!IInv', [Next]_vars PROVE IInv'
  OBVIOUS
<1>1. ASSUME NEW c \in Client, \/ Start(c) \/ StartBackend(c) \/ Request(c) \/ Handle(c)
                              \/ StopBackend(c) \/ Kill(c)
      PROVE  IInv'
  BY <1>1, ClientStepIInv, HandleIInv
<1>2. ASSUME NEW s \in Server, ServerStep(s)
      PROVE  IInv'
  BY <1>2, BindIInv, DecodeFailsIInv, ServerReplyIInv, CallManagerIInv, TAStepIInv DEF ServerStep
<1>3. CASE Reboot
  <2>1. Off \in ServerState /\ Ended \in ClientState
    BY EmptySeq DEF Off, Ended, ServerState, ClientState
  <2>2. TA!TypeOK'
    BY AuthorityTypesNext
  <2>3. TypeOK'
    BY <1>3, <2>1, <2>2 DEF Reboot, IInv, TypeOK
  <2>4. InitRuns' /\ InitAnswered' /\ MarkerMeansWallet'
    BY <1>3 DEF Reboot, TA!Reboot, IInv, InitRuns, InitAnswered, MarkerMeansWallet, Made,
       SuccessHeard, Off, Ended
  <2> QED
    BY <2>3, <2>4 DEF IInv
<1>4. CASE UNCHANGED vars
  <2>1. TypeOK'
    BY <1>4 DEF vars, taVars, IInv, TypeOK, TA!TypeOK
  <2>2. InitRuns' /\ InitAnswered' /\ MarkerMeansWallet'
    BY <1>4 DEF vars, taVars, IInv, InitRuns, InitAnswered, MarkerMeansWallet, Made, Served
  <2> QED
    BY <2>1, <2>2 DEF IInv
<1> QED
  BY <1>1, <1>2, <1>3, <1>4 DEF Next

(***************************************************************************)
(* The inductive invariant: a success on its way from the authority over   *)
(* the server to the client and its marker file is backed by a wallet and  *)
(* a key at every step.                                                    *)
(***************************************************************************)
THEOREM Invariance == Spec => []IInv
<1>1. Spec => []P!IInv
  BY AuthorityInvariant
<1> QED
  BY <1>1, InitIInv, NextIInv, PTL DEF Spec

(***************************************************************************)
(* The variables of the service keep their types.                          *)
(***************************************************************************)
THEOREM TypeCorrect == Spec => []TypeOK
<1>1. IInv => TypeOK
  BY DEF IInv
<1> QED
  BY <1>1, Invariance, PTL

(***************************************************************************)
(* The marker file (client.py:54) is never there without a wallet object   *)
(* and a key, for any number of clients and servers, whatever is killed    *)
(* and however often power is lost.                                        *)
(***************************************************************************)
THEOREM MarkerSafety == Spec => []MarkerMeansWallet
<1>1. IInv => MarkerMeansWallet
  BY DEF IInv
<1> QED
  BY <1>1, Invariance, PTL

(***************************************************************************)
(* The second invariant: a client that is alone.  What holds in every      *)
(* state of such a history, in the terms its steps are proved with.        *)
(***************************************************************************)
LEMMA ServiceTypes ==
  ASSUME IInv
  PROVE  /\ cl \in [Client -> ClientState] /\ sv \in [Server -> ServerState]
         /\ path \in Server \union {Nobody} /\ marker \in BOOLEAN /\ overlapped \in BOOLEAN
         /\ \A s \in Server : sv[s].conn \in Seq(Connection)
         /\ \A s \in Server : sv[s].pc = "manager" => sv[s].conn # <<>>
         /\ Nobody \notin Server /\ Gone \notin Client
  BY WalletConstants DEF IInv, TypeOK, InitRuns, ServerState

LEMMA ServedIsConnection ==
  ASSUME IInv, NEW s \in Server, sv[s].conn # <<>>
  PROVE  Served(s) \in Connection /\ Served(s).who \in Client \union {Gone}
         /\ Served(s).cmd \in {"init", "login", "document", "logout"}
<1>1. sv[s].conn \in Seq(Connection)
  BY ServiceTypes
<1>2. Served(s) \in Connection
  BY <1>1 DEF Served
<1> QED
  BY <1>2 DEF Connection

\* Without a connection no authority works.
LEMMA UnaskedIsIdle ==
  ASSUME IInv, Alone, Unasked
  PROVE  \A s \in Server : pc[s] = "idle" /\ sv[s].pc # "manager"
  BY ServiceTypes DEF Alone, ServerAlone, Unasked

\* With a connection nobody but its client, which waits, is there.
LEMMA AskedAwaits ==
  ASSUME IInv, Alone, NEW s \in Server, sv[s].conn # <<>>
  PROVE  /\ Listens(s) /\ path = s
         /\ \A r \in Server \ {s} : sv[r].pc = "off" /\ sv[r].conn = <<>> /\ pc[r] = "idle"
         /\ \A c \in Client : Served(s).who = c => cl[c].pc = "wait" /\ cl[c].server = s
         /\ \A c \in Client : Served(s).who # c => cl[c].pc = "off"
<1>1. Listens(s) /\ path = s /\ sv[s].pc # "off"
  BY DEF Alone, ServerAlone, Listens
<1>2. ASSUME NEW r \in Server \ {s}
      PROVE  sv[r].pc = "off" /\ sv[r].conn = <<>> /\ pc[r] = "idle"
  BY <1>1 DEF Alone, OneAtATime, ServerAlone, Listens
<1>3. ASSUME NEW c \in Client, Served(s).who = c
      PROVE  cl[c].pc = "wait" /\ cl[c].server = s
  BY <1>1, <1>3 DEF Alone, OneAtATime, ServerAlone, Active
<1>4. ASSUME NEW c \in Client, Served(s).who # c
      PROVE  cl[c].pc = "off"
  <2>1. ~Unasked
    BY DEF Unasked
  <2>2. cl[c].pc # "wait"
    <3>1. ~ \E r \in Server : sv[r].conn # <<>> /\ Served(r).who = c
      BY <1>2, <1>4
    <3>2. ClientAlone(c)
      BY DEF Alone
    <3> QED
      BY <3>1, <3>2 DEF ClientAlone
  <2> QED
    BY <2>1, <2>2 DEF Alone, ClientAlone
<1> QED
  BY <1>1, <1>2, <1>3, <1>4

\* A client that is not there stays so.
LEMMA OffStaysAlone ==
  ASSUME IInv, Alone, NEW k \in Client, cl[k].pc = "off", cl'[k] = cl[k]
  PROVE  ClientAlone(k)'
<1>1. ClientAlone(k)
  BY DEF Alone
<1>2. cl[k].server = Nobody /\ cl[k].res = ""
  BY <1>1, ServiceTypes DEF ClientAlone
<1>3. cl'[k].pc = "off" /\ cl'[k].server = Nobody /\ cl'[k].res = ""
  BY <1>2
<1> QED
  BY <1>3 DEF ClientAlone

\* A client that goes on without a connection: the servers stay.
LEMMA ClientMoves ==
  ASSUME IInv, Alone, NEW c \in Client, cl' \in [Client -> ClientState],
         \A k \in Client \ {c} : cl[k].pc = "off" /\ cl'[k] = cl[k],
         Unasked, UNCHANGED <<taVars, path, sv>>,
         marker => marker', marker' => wallet \in Identity,
         \A s \in Server : sv[s].pc # "off" => cl'[c].server = s,
         ClientAlone(c)'
  PROVE  Alone'
<1>1. \A s \in Server : pc[s] = "idle" /\ sv[s].pc # "manager"
  BY UnaskedIsIdle
<1>2. OneAtATime'
  BY DEF Alone, OneAtATime, Active
<1>3. ASSUME NEW s \in Server PROVE ServerAlone(s)'
  BY <1>1, <1>3 DEF Alone, ServerAlone, Listens, Unasked, taVars, TA!InitSteps
<1>4. ASSUME NEW k \in Client PROVE ClientAlone(k)'
  <2>1. CASE k = c
    BY <2>1
  <2>2. CASE k # c
    <3>1. cl[k].pc = "off" /\ cl'[k] = cl[k]
      BY <2>2
    <3> QED
      BY <3>1, OffStaysAlone
  <2> QED
    BY <2>1, <2>2
<1>5. marker' => wallet' \in Identity
  BY DEF taVars
<1> QED
  BY <1>2, <1>3, <1>4, <1>5 DEF Alone

LEMMA IsOneAtATime ==
  ASSUME NEW c \in Client, \A k \in Client \ {c} : cl'[k].pc = "off",
         \A s \in Server : sv'[s].pc # "off" => cl'[c].server = s
  PROVE  OneAtATime'
<1>1. \A k \in Client : Active(k)' => k = c
  BY DEF Active
<1> QED
  BY <1>1 DEF OneAtATime, Active

LEMMA OnlyOne ==
  ASSUME IInv, Alone, NEW c \in Client, cl[c].pc # "off"
  PROVE  \A k \in Client \ {c} : cl[k].pc = "off"
  BY DEF Alone, OneAtATime, Active

(***************************************************************************)
(* Steps of the client.                                                    *)
(***************************************************************************)
LEMMA StartAlone ==
  ASSUME IInv, Alone, NEW c \in Client, Start(c), ~overlapped'
  PROVE  Alone'
<1>1. /\ \A k \in Client : cl[k].pc = "off"
      /\ \A s \in Server : sv[s].pc = "off" /\ pc[s] = "idle"
  BY DEF Start
<1>2. Unasked
  BY <1>1 DEF Alone, ServerAlone, Unasked, Listens
<1>3. cl' = [cl EXCEPT ![c].pc = IF marker THEN "begin" ELSE "form"]
      /\ UNCHANGED <<taVars, marker, path, sv>>
  BY DEF Start, Goto
<1>4. /\ cl' \in [Client -> ClientState]
      /\ cl'[c].pc = (IF marker THEN "begin" ELSE "form")
      /\ cl'[c].server = cl[c].server /\ cl'[c].res = cl[c].res
      /\ \A k \in Client \ {c} : cl'[k] = cl[k]
  BY <1>3, ServiceTypes DEF ClientState
<1>5. cl[c].server = Nobody /\ cl[c].res = ""
  BY <1>1, ServiceTypes DEF Alone, ClientAlone, ClientState
<1>6. ClientAlone(c)'
  <2>1. CASE marker
    <3>1. marker' /\ cl'[c].pc = "begin"
      BY <1>3, <1>4, <2>1
    <3> QED
      BY <1>2, <1>3, <1>4, <1>5, <3>1 DEF ClientAlone, Unasked
  <2>2. CASE ~marker
    <3>1. ~marker' /\ cl'[c].pc = "form"
      BY <1>3, <1>4, <2>2
    <3> QED
      BY <1>2, <1>3, <1>4, <1>5, <3>1 DEF ClientAlone, Unasked
  <2> QED
    BY <2>1, <2>2
<1> QED
  BY <1>1, <1>2, <1>3, <1>4, <1>6, ClientMoves DEF Alone

LEMMA StartBackendAlone ==
  ASSUME IInv, Alone, NEW c \in Client, StartBackend(c)
  PROVE  Alone'
<1>1. PICK s \in Server :
        /\ sv[s].pc = "off" /\ pc[s] = "idle"
        /\ sv' = [sv EXCEPT ![s].pc = "starting"]
        /\ cl' = [cl EXCEPT ![c].server = s,
                            ![c].pc = IF @ = "form" THEN "init" ELSE "login"]
  BY DEF StartBackend
<1>2. cl[c].pc \in {"form", "begin"} /\ UNCHANGED <<taVars, marker, path, overlapped>>
  BY DEF StartBackend
<1>3. cl[c].server = Nobody /\ cl[c].res = "" /\ Unasked
      /\ (cl[c].pc = "form" => ~marker) /\ (cl[c].pc = "begin" => marker)
  BY <1>2, ServiceTypes DEF Alone, ClientAlone, ClientState
<1>4. ASSUME NEW r \in Server
      PROVE  sv[r].pc = "off" /\ pc[r] = "idle" /\ path # r /\ sv[r].conn = <<>>
  <2>1. cl[c].server # r /\ Active(c)
    BY <1>2, <1>3, ServiceTypes DEF Active
  <2>2. sv[r].pc = "off"
    BY <2>1 DEF Alone, OneAtATime
  <2> QED
    BY <2>2 DEF Alone, ServerAlone, Listens
<1>5. \A k \in Client \ {c} : cl[k].pc = "off"
  BY <1>2, OnlyOne
<1>6. /\ sv'[s].pc = "starting" /\ sv'[s].conn = sv[s].conn
      /\ \A r \in Server \ {s} : sv'[r] = sv[r]
  BY <1>1, ServiceTypes DEF ServerState
<1>7. /\ cl'[c].server = s /\ cl'[c].res = ""
      /\ cl'[c].pc = IF cl[c].pc = "form" THEN "init" ELSE "login"
      /\ \A k \in Client \ {c} : cl'[k] = cl[k]
  BY <1>1, <1>3, ServiceTypes DEF ClientState
<1>8. OneAtATime'
  <2>1. \A k \in Client \ {c} : cl'[k].pc = "off"
    BY <1>5, <1>7
  <2>2. ASSUME NEW r \in Server, sv'[r].pc # "off" PROVE cl'[c].server = r
    <3>1. r = s
      BY <1>4, <1>6, <2>2
    <3> QED
      BY <1>7, <3>1
  <2> QED
    BY <2>1, <2>2, IsOneAtATime
<1>9. ASSUME NEW r \in Server PROVE ServerAlone(r)'
  BY <1>2, <1>4, <1>6, <1>9 DEF ServerAlone, Listens, taVars, TA!InitSteps
<1>10. Unasked'
  BY <1>4, <1>6 DEF Unasked
<1>11. ASSUME NEW k \in Client PROVE ClientAlone(k)'
  <2>1. CASE k = c
    BY <1>2, <1>3, <1>7, <1>10, <2>1, ServiceTypes DEF ClientAlone
  <2>2. CASE k # c
    <3>1. cl[k].pc = "off" /\ cl'[k] = cl[k]
      BY <1>5, <1>7, <2>2
    <3> QED
      BY <3>1, OffStaysAlone
  <2> QED
    BY <2>1, <2>2
<1> QED
  BY <1>2, <1>8, <1>9, <1>11 DEF Alone, taVars

LEMMA HandleAlone ==
  ASSUME IInv, Alone, NEW c \in Client, Handle(c)
  PROVE  Alone'
<1>1. cl[c].pc \in {"init", "login"} /\ Unasked /\ cl[c].pc # "off"
  BY DEF Handle, Alone, ClientAlone
<1>2. \A k \in Client \ {c} : cl[k].pc = "off"
  BY <1>1, OnlyOne
<1> DEFINE next == IF cl[c].res # "SUCCESS" THEN "stop"
                   ELSE IF cl[c].pc = "init" THEN "login" ELSE "menu"
<1>3. /\ cl' \in [Client -> ClientState] /\ cl'[c].res = "" /\ cl'[c].pc = next
      /\ cl'[c].server = cl[c].server
      /\ \A k \in Client \ {c} : cl'[k] = cl[k]
  BY <1>1, ServiceTypes DEF Handle, ClientState
<1>4. /\ marker' = (marker \/ (cl[c].pc = "init" /\ cl[c].res = "SUCCESS"))
      /\ UNCHANGED <<taVars, path, sv>>
  BY DEF Handle
<1>5. cl[c].server # Nobody /\ (marker => wallet \in Identity)
  BY <1>1 DEF Alone, ClientAlone
<1>6. marker' => wallet \in Identity
  BY <1>4, <1>5 DEF Alone, ClientAlone
<1>7. ClientAlone(c)'
  <2>1. CASE cl[c].res # "SUCCESS"
    BY <1>1, <1>3, <1>4, <1>5, <2>1 DEF ClientAlone, Unasked
  <2>2. CASE cl[c].res = "SUCCESS" /\ cl[c].pc = "init"
    BY <1>1, <1>3, <1>4, <1>5, <2>2 DEF ClientAlone, Unasked
  <2>3. CASE cl[c].res = "SUCCESS" /\ cl[c].pc = "login"
    <3>1. Ready(c) /\ marker
      BY <2>3 DEF Alone, ClientAlone
    <3> QED
      BY <1>1, <1>3, <1>4, <1>5, <2>3, <3>1 DEF ClientAlone, Unasked, Ready
  <2> QED
    BY <1>1, <2>1, <2>2, <2>3
<1>8. \A s \in Server : sv[s].pc # "off" => cl'[c].server = s
  BY <1>1, <1>3 DEF Alone, OneAtATime, Active
<1> QED
  BY <1>1, <1>2, <1>3, <1>4, <1>6, <1>7, <1>8, ClientMoves

LEMMA RequestAlone ==
  ASSUME IInv, Alone, NEW c \in Client, Request(c)
  PROVE  Alone'
<1>1. PICK cmd \in Requests[cl[c].pc] :
        IF path = Nobody
        THEN /\ cl' = [cl EXCEPT ![c] = Told(@, cmd, "ERROR")]
             /\ UNCHANGED sv
        ELSE /\ Len(sv[path].conn) < Backlog
             /\ sv' = [sv EXCEPT ![path].conn = Append(@, [who |-> c, cmd |-> cmd])]
             /\ Goto(c, "wait")
  BY DEF Request
<1>2. /\ cl[c].pc \in {"init", "login", "menu"} /\ cl[c].res = ""
      /\ UNCHANGED <<taVars, marker, path, overlapped>>
  BY DEF Request, Requests
<1>3. /\ cl[c].pc \in {"init", "login"} => cmd = cl[c].pc
      /\ cl[c].pc = "menu" => cmd \in {"document", "logout"}
  BY <1>1, <1>2 DEF Requests
<1>4. Unasked /\ cl[c].server # Nobody
      /\ (cl[c].pc = "init" <=> ~marker) /\ (cl[c].pc = "menu" => Ready(c))
  BY <1>2 DEF Alone, ClientAlone
<1>5. \A k \in Client \ {c} : cl[k].pc = "off"
  BY <1>2, OnlyOne
<1>6. \A s \in Server : sv[s].pc # "off" => cl[c].server = s
  BY <1>2 DEF Alone, OneAtATime, Active
<1>7. CASE path = Nobody
  <2> DEFINE told == Told(cl[c], cmd, "ERROR")
  <2>1. cl[c] \in ClientState /\ marker \in BOOLEAN
    BY ServiceTypes
  <2>2. /\ told \in ClientState /\ told.server = cl[c].server
        /\ cl[c].pc \in {"init", "login"} => told.pc = cl[c].pc /\ told.res = "ERROR"
        /\ cl[c].pc = "menu" => told.pc \in {"menu", "stop"} /\ told.res = ""
    BY <1>2, <1>3, <2>1 DEF Told, After, ClientState
  <2>3. cl' = [cl EXCEPT ![c] = told]
    BY <1>1, <1>7
  <2> HIDE DEF told
  <2>4. /\ cl' \in [Client -> ClientState] /\ cl'[c] = told
        /\ \A k \in Client \ {c} : cl'[k] = cl[k]
    BY <2>2, <2>3, ServiceTypes
  <2>5. sv' = sv /\ Unasked'
    BY <1>1, <1>4, <1>7 DEF Unasked
  <2>6. ClientAlone(c)'
    <3>1. CASE cl[c].pc \in {"init", "login"}
      BY <1>2, <1>4, <2>1, <2>2, <2>4, <2>5, <3>1, ServiceTypes DEF ClientAlone
    <3>2. CASE cl[c].pc = "menu"
      <4>1. Ready(c)'
        BY <1>2, <1>4, <1>7, <2>5, <3>2 DEF Ready
      <4>2. marker'
        BY <1>2, <1>4, <2>1, <3>2
      <4> QED
        BY <1>4, <2>2, <2>4, <2>5, <3>2, <4>1, <4>2 DEF ClientAlone
    <3> QED
      BY <1>2, <3>1, <3>2
  <2>7. marker => wallet \in Identity
    BY DEF Alone
  <2>8. \A k \in Client \ {c} : cl[k].pc = "off" /\ cl'[k] = cl[k]
    BY <1>5, <2>4
  <2>9. \A r \in Server : sv[r].pc # "off" => cl'[c].server = r
    BY <1>6, <2>2, <2>4
  <2> QED
    BY <1>2, <1>4, <2>4, <2>5, <2>6, <2>7, <2>8, <2>9, ClientMoves
<1>8. CASE path # Nobody
  <2>1. PICK s \in Server : path = s
    BY <1>8, ServiceTypes
  <2> DEFINE new == [who |-> c, cmd |-> cmd]
  <2>2. sv[s].conn = <<>> /\ Listens(s) /\ sv[s].pc = "accept"
    BY <1>4, <2>1, ServiceTypes DEF Alone, ServerAlone, Unasked, Listens
  <2>3. /\ sv'[s].pc = sv[s].pc /\ sv'[s].auth = sv[s].auth
        /\ sv'[s].conn = <<new>>
        /\ \A r \in Server \ {s} : sv'[r] = sv[r]
    <3>1. sv' = [sv EXCEPT ![s].conn = Append(@, new)]
      BY <1>1, <1>8, <2>1
    <3>2. Append(sv[s].conn, new) = <<new>>
      BY <2>2
    <3> HIDE DEF new
    <3> QED
      BY <2>1, <3>1, <3>2, ServiceTypes DEF ServerState
  <2>4. Served(s)' = new /\ Len(sv'[s].conn) = 1 /\ sv'[s].conn # <<>>
        /\ new.who = c /\ new.cmd = cmd
    BY <2>3 DEF Served
  <2>5. /\ cl'[c].pc = "wait" /\ cl'[c].res = "" /\ cl'[c].server = cl[c].server
        /\ \A k \in Client \ {c} : cl'[k] = cl[k]
    <3>1. cl' = [cl EXCEPT ![c].pc = "wait"]
      BY <1>1, <1>8 DEF Goto
    <3> QED
      BY <1>2, <3>1, ServiceTypes DEF ClientState
  <2> HIDE DEF new
  <2>6. OneAtATime'
    <3>1. \A r \in Server : sv'[r].pc = sv[r].pc
      BY <2>3
    <3>2. \A r \in Server : sv'[r].pc # "off" => cl'[c].server = r
      BY <1>6, <2>5, <3>1
    <3>3. \A k \in Client \ {c} : cl'[k].pc = "off"
      BY <1>5, <2>5
    <3> QED
      BY <3>2, <3>3, IsOneAtATime
  <2>7. cmd \in {"document", "logout"} => sv[s].auth
    BY <1>2, <1>3, <1>4, <1>8, <2>1 DEF Ready
  <2>8. cmd = "init" <=> ~marker
    BY <1>2, <1>3, <1>4
  <2>9. ASSUME NEW r \in Server PROVE ServerAlone(r)'
    <3>1. CASE r = s
      <4>1. path' = s /\ Listens(s)' /\ pc'[s] = "idle"
        BY <1>2, <1>4, <2>1, <2>2, <2>3, UnaskedIsIdle DEF Listens, taVars
      <4>2. marker' => pc'[s] \notin TA!InitSteps
        BY <4>1 DEF TA!InitSteps
      <4>3. \A k \in Client : new.who = k => cl'[k].pc = "wait"
        BY <2>4, <2>5
      <4> QED
        BY <1>2, <2>2, <2>3, <2>4, <2>7, <2>8, <3>1, <4>1, <4>2, <4>3 DEF ServerAlone
    <3>2. CASE r # s
      <4>1. sv'[r] = sv[r] /\ sv[r].conn = <<>> /\ sv[r].pc # "manager"
        BY <1>4, <2>3, <3>2, UnaskedIsIdle DEF Unasked
      <4> QED
        BY <1>2, <4>1, <2>9 DEF Alone, ServerAlone, Listens, taVars
    <3> QED
      BY <3>1, <3>2
  <2>10. ASSUME NEW k \in Client PROVE ClientAlone(k)'
    <3>1. CASE k = c
      <4>1. \E r \in Server : sv'[r].conn # <<>> /\ Served(r)'.who = c
        BY <2>1, <2>4
      <4> QED
        BY <1>4, <2>5, <3>1, <4>1 DEF ClientAlone
    <3>2. CASE k # c
      <4>1. cl[k].pc = "off" /\ cl'[k] = cl[k]
        BY <1>5, <2>5, <3>2
      <4> QED
        BY <4>1, OffStaysAlone
    <3> QED
      BY <3>1, <3>2
  <2> QED
    BY <1>2, <2>6, <2>9, <2>10 DEF Alone, taVars
<1> QED
  BY <1>7, <1>8

\* Nobody is there: every client and every server is off.
LEMMA NobodyThere ==
  ASSUME IInv, UNCHANGED <<wallet, marker>>, marker => wallet \in Identity,
         \A k \in Client : cl'[k].pc = "off" /\ cl'[k].server = Nobody /\ cl'[k].res = "",
         \A s \in Server : /\ sv'[s].pc = "off" /\ sv'[s].conn = <<>>
                           /\ path' # s /\ pc'[s] = "idle"
  PROVE  Alone'
<1>1. OneAtATime'
  BY DEF OneAtATime, Active
<1>2. ASSUME NEW s \in Server PROVE ServerAlone(s)'
  BY <1>2 DEF ServerAlone, Listens, TA!InitSteps
<1>3. ASSUME NEW k \in Client PROVE ClientAlone(k)'
  BY <1>3 DEF ClientAlone
<1> QED
  BY <1>1, <1>2, <1>3 DEF Alone

LEMMA StopBackendAlone ==
  ASSUME IInv, Alone, NEW c \in Client, StopBackend(c)
  PROVE  Alone'
<1>1. PICK s \in Server : cl[c].server = s
  <2>1. cl[c].server # Nobody
    BY DEF StopBackend, Alone, ClientAlone
  <2> QED
    BY <2>1, ServiceTypes DEF ClientState
<1>2. Unasked /\ cl[c].pc # "off"
  BY DEF StopBackend, Alone, ClientAlone
<1>3. \A k \in Client \ {c} : cl[k].pc = "off" /\ cl[k].server = Nobody /\ cl[k].res = ""
  BY <1>2, OnlyOne DEF Alone, ClientAlone
<1>4. /\ sv' = [sv EXCEPT ![s] = Off]
      /\ cl' = Disconnected(s, [cl EXCEPT ![c] = Ended])
      /\ path' = Nobody /\ UNCHANGED <<taVars, marker, overlapped>>
  BY <1>1 DEF StopBackend
<1>5. \A k \in Client : cl'[k].pc = "off" /\ cl'[k].server = Nobody /\ cl'[k].res = ""
  <2> DEFINE left == [cl EXCEPT ![c] = Ended]
  <2>1. sv[s].conn = <<>>
    BY <1>2 DEF Unasked
  <2>2. \A k \in Client : left[k] = IF k = c THEN Ended ELSE cl[k]
    BY ServiceTypes
  <2> HIDE DEF left
  <2>3. DOMAIN sv[s].conn = {}
    BY <2>1
  <2>4. \A k \in Client : cl'[k] = left[k]
    BY <1>4, <2>3 DEF Disconnected, left
  <2>5. Ended.pc = "off" /\ Ended.server = Nobody /\ Ended.res = ""
    BY DEF Ended
  <2> QED
    BY <1>3, <2>2, <2>4, <2>5
<1>6. ASSUME NEW r \in Server
      PROVE  sv'[r].pc = "off" /\ sv'[r].conn = <<>> /\ path' # r /\ pc'[r] = "idle"
  <2>1. pc[r] = "idle"
    BY <1>2, UnaskedIsIdle
  <2>2. r # s => sv[r].pc = "off"
    BY <1>1, <1>2 DEF Alone, OneAtATime, Active
  <2>3. sv[r].conn = <<>>
    BY <1>2 DEF Unasked
  <2> QED
    BY <1>4, <2>1, <2>2, <2>3, ServiceTypes DEF taVars, Off
<1> QED
  BY <1>4, <1>5, <1>6, NobodyThere DEF Alone, taVars

LEMMA SingleConnection ==
  ASSUME NEW q \in Seq(Connection), Len(q) = 1
  PROVE  DOMAIN q = 1..1 /\ q[1] = Head(q) /\ Tail(q) = <<>> /\ q # <<>>
<1>1. DOMAIN q = 1..1 /\ q[1] = Head(q) /\ q # <<>>
  OBVIOUS
<1>2. Tail(q) \in Seq(Connection) /\ Len(Tail(q)) = 0
  BY <1>1
<1> QED
  BY <1>1, <1>2, EmptySeq

\* The connections of a killed client stay, without their peer.
LEMMA KillAlone ==
  ASSUME IInv, Alone, NEW c \in Client, Kill(c)
  PROVE  Alone'
<1> DEFINE Left(q) == [i \in DOMAIN q |-> IF q[i].who = c THEN [q[i] EXCEPT !.who = Gone] ELSE q[i]]
<1>1. /\ \A k \in Client \ {c} : cl[k].pc = "off"
      /\ cl' = [cl EXCEPT ![c] = Ended] /\ UNCHANGED <<taVars, marker, path, overlapped>>
      /\ sv' = [s \in Server |-> [sv[s] EXCEPT !.conn = Left(sv[s].conn)]]
  BY DEF Kill
<1>2. ASSUME NEW q \in Seq(Connection), Len(q) = 1
      PROVE  Len(Left(q)) = 1 /\ Left(q) # <<>> /\ Head(Left(q)).who # c
             /\ Head(Left(q)).cmd = Head(q).cmd
             /\ Head(Left(q)).who \in {Head(q).who, Gone}
  <2>1. DOMAIN q = 1..1 /\ q[1] \in Connection /\ Head(q) = q[1]
    BY <1>2, SingleConnection
  <2>2. /\ Left(q)[1].who # c /\ Left(q)[1].who \in {q[1].who, Gone}
        /\ Left(q)[1].cmd = q[1].cmd /\ Left(q)[1] \in Connection
    BY <2>1, ServiceTypes DEF Connection
  <2>3. Left(q) \in [1..Len(q) -> Connection]
    BY <1>2, <2>1, <2>2
  <2>4. Left(q) \in Seq(Connection) /\ Len(Left(q)) = 1
    BY <1>2, <2>3, SeqDef
  <2> HIDE DEF Left
  <2>5. Head(Left(q)) = Left(q)[1] /\ Left(q) # <<>>
    BY <2>4, SingleConnection
  <2> QED
    BY <2>1, <2>2, <2>4, <2>5
<1>3. ASSUME NEW q \in Seq(Connection), q = <<>>
      PROVE  Left(q) = <<>>
  BY <1>3
<1> HIDE DEF Left
<1>4. ASSUME NEW s \in Server
      PROVE  /\ sv'[s].pc = sv[s].pc /\ sv'[s].auth = sv[s].auth
             /\ sv'[s].conn = Left(sv[s].conn)
  BY <1>1, <1>4, ServiceTypes DEF ServerState
<1>5. \A k \in Client : cl'[k].pc = "off" /\ cl'[k].server = Nobody /\ cl'[k].res = ""
  <2> SUFFICES ASSUME NEW k \in Client
               PROVE  cl'[k].pc = "off" /\ cl'[k].server = Nobody /\ cl'[k].res = ""
    OBVIOUS
  <2>1. CASE k = c
    BY <1>1, <2>1, ServiceTypes DEF Ended
  <2>2. CASE k # c
    <3>1. cl'[k] = cl[k] /\ cl[k].pc = "off"
      BY <1>1, <2>2, ServiceTypes
    <3>2. ClientAlone(k)
      BY DEF Alone
    <3> QED
      BY <3>1, <3>2, ServiceTypes DEF ClientAlone
  <2> QED
    BY <2>1, <2>2
<1>6. OneAtATime'
  BY <1>4, <1>5 DEF Alone, OneAtATime, Active
<1>7. ASSUME NEW s \in Server PROVE ServerAlone(s)'
  <2>1. CASE sv[s].conn = <<>>
    <3>1. sv'[s].conn = <<>> /\ sv[s].pc # "manager"
      BY <1>3, <1>4, <2>1, ServiceTypes
    <3> QED
      BY <1>1, <1>4, <3>1 DEF Alone, ServerAlone, Listens, taVars
  <2>2. CASE sv[s].conn # <<>>
    <3>1. Len(sv[s].conn) = 1 /\ sv[s].conn \in Seq(Connection)
      BY <2>2, ServiceTypes DEF Alone, ServerAlone
    <3>2. /\ Len(sv'[s].conn) = 1 /\ sv'[s].conn # <<>> /\ Served(s)'.cmd = Served(s).cmd
          /\ Served(s)'.who # c /\ Served(s)'.who \in {Served(s).who, Gone}
      BY <1>2, <1>4, <3>1 DEF Served
    <3>3. \A k \in Client : Served(s)'.who # k
      BY <1>1, <2>2, <3>2, ServiceTypes DEF Alone, ServerAlone
    <3>4. Listens(s)
      BY <2>2 DEF Alone, ServerAlone
    <3> QED
      BY <1>1, <1>4, <2>2, <3>2, <3>3, <3>4 DEF Alone, ServerAlone, Listens, taVars
  <2> QED
    BY <2>1, <2>2
<1>8. ASSUME NEW k \in Client PROVE ClientAlone(k)'
  BY <1>5 DEF ClientAlone
<1> QED
  BY <1>1, <1>6, <1>7, <1>8 DEF Alone, taVars

(***************************************************************************)
(* Steps of the server.                                                    *)
(***************************************************************************)
LEMMA BindAlone ==
  ASSUME IInv, Alone, NEW s \in Server, Bind(s)
  PROVE  Alone'
<1>1. sv[s].pc = "starting" /\ UNCHANGED <<taVars, marker, cl, overlapped>>
  BY DEF Bind
<1>2. \A r \in Server \ {s} : sv[r].pc = "off"
  BY <1>1 DEF Alone, OneAtATime
<1>3. sv' = [sv EXCEPT ![s].pc = "accept"] /\ path' = s
  BY <1>2 DEF Bind
<1>4. /\ sv'[s].pc = "accept" /\ sv'[s].conn = sv[s].conn
      /\ \A r \in Server \ {s} : sv'[r] = sv[r]
  BY <1>3, ServiceTypes DEF ServerState
<1>5. \A r \in Server : sv[r].conn = <<>> /\ pc[r] = "idle" /\ path # r
  BY <1>1, <1>2 DEF Alone, ServerAlone, Listens
<1>6. Unasked /\ Unasked'
  BY <1>4, <1>5 DEF Unasked
<1>7. OneAtATime'
  BY <1>1, <1>2, <1>4 DEF Alone, OneAtATime, Active
<1>8. ASSUME NEW r \in Server PROVE ServerAlone(r)'
  <2>1. /\ sv'[r].conn = <<>> /\ pc'[r] = "idle" /\ (path' = r <=> Listens(r)')
        /\ sv'[r].pc # "manager"
    BY <1>1, <1>2, <1>3, <1>4, <1>5, <1>8 DEF Listens, taVars
  <2> QED
    BY <2>1 DEF ServerAlone, TA!InitSteps
<1>9. ASSUME NEW k \in Client PROVE ClientAlone(k)'
  <2>1. ~Ready(k)
    <3>1. path = Nobody
      BY <1>5, ServiceTypes
    <3> QED
      BY <1>1, <3>1 DEF Ready
  <2> QED
    BY <1>1, <1>6, <2>1 DEF Alone, ClientAlone, Unasked, taVars
<1> QED
  BY <1>1, <1>7, <1>8, <1>9 DEF Alone, taVars

\* The server of the one client that waits ends: it is told so, if it is
\* still there, and every other one is off.
LEMMA ServerEndsAlone ==
  ASSUME IInv, Alone, NEW s \in Server, sv[s].conn # <<>>, pc[s] = "idle",
         ServerEnds(s), UNCHANGED <<taVars, marker, overlapped>>
  PROVE  Alone'
<1>1. /\ \A r \in Server \ {s} : sv[r].pc = "off" /\ sv[r].conn = <<>> /\ pc[r] = "idle"
      /\ \A c \in Client : Served(s).who = c => cl[c].pc = "wait" /\ cl[c].server = s
      /\ \A c \in Client : Served(s).who # c => cl[c].pc = "off"
  BY AskedAwaits
<1>2. /\ Len(sv[s].conn) = 1 /\ sv[s].conn \in Seq(Connection)
      /\ (Served(s).cmd = "init" <=> ~marker)
      /\ Served(s).cmd \in {"init", "login", "document", "logout"}
  BY ServiceTypes, ServedIsConnection DEF Alone, ServerAlone
<1>3. sv' = [sv EXCEPT ![s] = Off] /\ cl' = Disconnected(s, cl) /\ path' = Nobody
  BY DEF ServerEnds
<1>4. \A r \in Server : /\ sv'[r].pc = "off" /\ sv'[r].conn = <<>>
                        /\ path' # r /\ pc'[r] = "idle"
  BY <1>1, <1>3, ServiceTypes DEF Off, taVars
<1>5. ASSUME NEW c \in Client
      PROVE  cl'[c] = IF Served(s).who = c THEN Told(cl[c], Served(s).cmd, "ERROR") ELSE cl[c]
  <2>1. DOMAIN sv[s].conn = 1..1 /\ sv[s].conn[1] = Served(s)
    BY <1>2, SingleConnection DEF Served
  <2>2. \A i \in DOMAIN sv[s].conn : i = 1
    BY <2>1
  <2>3. CASE Served(s).who = c
    <3> DEFINE n == CHOOSE i \in DOMAIN sv[s].conn : sv[s].conn[i].who = c
    <3>1. \E i \in DOMAIN sv[s].conn : sv[s].conn[i].who = c
      BY <2>1, <2>3
    <3>2. n = 1
      BY <2>2, <3>1
    <3>3. cl'[c] = Told(cl[c], sv[s].conn[n].cmd, "ERROR")
      BY <1>3, <3>1 DEF Disconnected
    <3> HIDE DEF n
    <3> QED
      BY <2>1, <2>3, <3>2, <3>3
  <2>4. CASE Served(s).who # c
    <3>1. ~\E i \in DOMAIN sv[s].conn : sv[s].conn[i].who = c
      BY <2>1, <2>2, <2>4
    <3> QED
      BY <1>3, <2>4, <3>1 DEF Disconnected
  <2> QED
    BY <2>3, <2>4
<1>6. OneAtATime'
  <2>1. \A c \in Client : Active(c)' => Served(s).who = c
    BY <1>1, <1>5 DEF Active
  <2> QED
    BY <1>4, <2>1 DEF OneAtATime
<1>7. ASSUME NEW r \in Server PROVE ServerAlone(r)'
  BY <1>4, <1>7 DEF ServerAlone, Listens, TA!InitSteps
<1>8. Unasked' /\ \A c \in Client : Ready(c)'
  BY <1>3, <1>4 DEF Unasked, Ready
<1>9. ASSUME NEW c \in Client PROVE ClientAlone(c)'
  <2>1. CASE Served(s).who = c
    <3> DEFINE told == Told(cl[c], Served(s).cmd, "ERROR")
    <3>1. cl[c] \in ClientState /\ cl[c].server = s /\ cl[c].res = "" /\ s # Nobody
      <4>1. cl[c] \in ClientState /\ cl[c].pc = "wait" /\ cl[c].server = s /\ s # Nobody
        BY <1>1, <2>1, ServiceTypes
      <4>2. ClientAlone(c)
        BY DEF Alone
      <4> QED
        BY <4>1, <4>2 DEF ClientAlone
    <3>2. /\ told.server = s
          /\ Served(s).cmd \in {"init", "login"} => told.pc = Served(s).cmd /\ told.res = "ERROR"
          /\ Served(s).cmd = "document" => told.pc = "menu" /\ told.res = ""
          /\ Served(s).cmd = "logout" => told.pc = "stop" /\ told.res = ""
      BY <3>1 DEF Told, After, ClientState
    <3>3. cl'[c] = told
      BY <1>5, <2>1
    <3>m. Served(s).cmd = "init" <=> ~marker'
      BY <1>2, ServiceTypes
    <3> HIDE DEF told
    <3>4. CASE Served(s).cmd = "init"
      BY <1>8, <3>m, <3>1, <3>2, <3>3, <3>4 DEF ClientAlone
    <3>5. CASE Served(s).cmd = "login"
      BY <1>8, <3>m, <3>1, <3>2, <3>3, <3>5 DEF ClientAlone
    <3>6. CASE Served(s).cmd = "document"
      BY <1>8, <3>m, <3>1, <3>2, <3>3, <3>6 DEF ClientAlone
    <3>7. CASE Served(s).cmd = "logout"
      BY <1>8, <3>m, <3>1, <3>2, <3>3, <3>7 DEF ClientAlone
    <3> QED
      BY <1>2, <3>4, <3>5, <3>6, <3>7
  <2>2. CASE Served(s).who # c
    <3>1. cl[c].pc = "off" /\ cl'[c] = cl[c]
      BY <1>1, <1>5, <2>2
    <3> QED
      BY <3>1, OffStaysAlone
  <2> QED
    BY <2>1, <2>2
<1> QED
  BY <1>6, <1>7, <1>9 DEF Alone, taVars

LEMMA DecodeFailsAlone ==
  ASSUME IInv, Alone, NEW s \in Server, DecodeFails(s)
  PROVE  Alone'
<1>1. /\ sv[s].pc = "accept" /\ sv[s].conn # <<>> /\ ServerEnds(s)
      /\ UNCHANGED <<taVars, marker, overlapped>>
  BY DEF DecodeFails
<1>2. pc[s] = "idle"
  BY <1>1 DEF Alone, ServerAlone
<1> QED
  BY <1>1, <1>2, ServerEndsAlone

\* An answer reaches the one client that waits for it.
LEMMA ReplyAlone ==
  ASSUME IInv, Alone, NEW s \in Server, sv[s].conn # <<>>, pc[s] = "idle",
         NEW res, NEW auth, Reply(s, res, auth),
         UNCHANGED <<taVars, marker, overlapped>>,
         Served(s).cmd = "init" /\ res = "SUCCESS" => wallet \in Identity,
         Served(s).who # Gone
         /\ (Served(s).cmd = "document" \/ (Served(s).cmd = "login" /\ res = "SUCCESS"))
            => sv'[s].auth
  PROVE  Alone'
<1>1. /\ Listens(s) /\ path = s /\ sv[s].pc # "off"
      /\ \A r \in Server \ {s} : sv[r].pc = "off" /\ sv[r].conn = <<>> /\ pc[r] = "idle"
      /\ \A c \in Client : Served(s).who = c => cl[c].pc = "wait" /\ cl[c].server = s
      /\ \A c \in Client : Served(s).who # c => cl[c].pc = "off"
  BY AskedAwaits DEF Listens
<1>2. /\ Len(sv[s].conn) = 1 /\ sv[s].conn \in Seq(Connection)
      /\ (Served(s).cmd = "init" <=> ~marker)
      /\ Served(s).who \in Client \union {Gone}
      /\ Served(s).cmd \in {"init", "login", "document", "logout"}
  BY ServiceTypes, ServedIsConnection DEF Alone, ServerAlone
<1>3. CASE Served(s).who = Gone
  <2>1. ServerEnds(s)
    BY <1>3 DEF Reply
  <2> QED
    BY <2>1, ServerEndsAlone
<1>4. CASE Served(s).who \in Client
  <2>1. PICK c \in Client : Served(s).who = c
    BY <1>4
  <2> DEFINE told == Told(cl[c], Served(s).cmd, res)
             st == [pc |-> "accept", auth |-> auth, conn |-> Tail(sv[s].conn)]
  <2>2. /\ sv' = [sv EXCEPT ![s] = st]
        /\ cl' = [cl EXCEPT ![c] = told] /\ path' = path
    BY <2>1, ServiceTypes DEF Reply
  <2>3. Tail(sv[s].conn) = <<>>
    BY <1>2, SingleConnection
  <2>4. /\ sv'[s].pc = "accept" /\ sv'[s].conn = <<>>
        /\ \A r \in Server \ {s} : sv'[r] = sv[r]
    BY <2>2, <2>3, ServiceTypes
  <2>5. cl[c] \in ClientState /\ cl[c].pc = "wait" /\ cl[c].server = s /\ cl[c].res = ""
    <3>1. cl[c] \in ClientState /\ cl[c].pc = "wait" /\ cl[c].server = s
      BY <1>1, <2>1, ServiceTypes
    <3>2. ClientAlone(c)
      BY DEF Alone
    <3> QED
      BY <3>1, <3>2 DEF ClientAlone
  <2>6. /\ told.server = s
        /\ Served(s).cmd \in {"init", "login"} => told.pc = Served(s).cmd /\ told.res = res
        /\ Served(s).cmd = "document" => told.pc = "menu" /\ told.res = ""
        /\ Served(s).cmd = "logout" => told.pc = "stop" /\ told.res = ""
    BY <2>5 DEF Told, After, ClientState
  <2> HIDE DEF told, st
  <2>7. cl'[c] = told /\ \A k \in Client \ {c} : cl'[k] = cl[k] /\ cl[k].pc = "off"
    <3>1. \A k \in Client \ {c} : cl[k].pc = "off"
      BY <1>1, <2>1
    <3>2. cl'[c] = told
      BY <2>2, ServiceTypes
    <3>3. \A k \in Client \ {c} : cl'[k] = cl[k]
      BY <2>2, ServiceTypes
    <3> QED
      BY <3>1, <3>2, <3>3
  <2>8. Unasked'
    BY <1>1, <2>4 DEF Unasked
  <2>9. OneAtATime'
    <3>1. \A r \in Server \ {s} : sv'[r].pc = "off"
      BY <1>1, <2>4
    <3>2. cl'[c].server = s
      BY <2>6, <2>7
    <3>3. \A r \in Server : sv'[r].pc # "off" => cl'[c].server = r
      BY <3>1, <3>2
    <3>4. \A k \in Client \ {c} : cl'[k].pc = "off"
      BY <2>7
    <3> QED
      BY <3>3, <3>4, IsOneAtATime
  <2>10. ASSUME NEW r \in Server PROVE ServerAlone(r)'
    <3>1. /\ sv'[r].conn = <<>> /\ pc'[r] = "idle" /\ sv'[r].pc # "manager"
          /\ (path' = r <=> Listens(r)')
      BY <1>1, <2>2, <2>4, <2>10 DEF Listens, taVars
    <3> QED
      BY <3>1 DEF ServerAlone, TA!InitSteps
  <2>11. ASSUME NEW k \in Client PROVE ClientAlone(k)'
    <3>1. CASE k = c
      <4>1. sv'[s].auth => Ready(c)'
        BY <1>1, <2>2, <2>6, <2>7, ServiceTypes DEF Ready
      <4>2. UNCHANGED <<marker, wallet>> /\ s # Nobody
        BY ServiceTypes DEF taVars
      <4>3. CASE Served(s).cmd = "init"
        <5>1. /\ cl'[k].pc = "init" /\ cl'[k].server = s /\ s # Nobody /\ ~marker'
              /\ cl'[k].res = "SUCCESS" => wallet' \in Identity
          BY <1>2, <2>6, <2>7, <3>1, <4>2, <4>3
        <5> QED
          BY <2>8, <5>1 DEF ClientAlone
      <4>4. CASE Served(s).cmd = "login"
        <5>1. /\ cl'[k].pc = "login" /\ cl'[k].server = s /\ s # Nobody /\ marker'
              /\ cl'[k].res = "SUCCESS" => Ready(k)'
          BY <1>2, <2>1, <2>6, <2>7, <3>1, <4>1, <4>2, <4>4, ServiceTypes
        <5> QED
          BY <2>8, <5>1 DEF ClientAlone
      <4>5. CASE Served(s).cmd = "document"
        <5>1. cl'[k].pc = "menu" /\ cl'[k].server = s /\ cl'[k].res = ""
          <6>1. told.pc = "menu" /\ told.res = "" /\ told.server = s
            BY <2>6, <4>5
          <6>2. cl'[k] = told
            BY <2>7, <3>1
          <6> QED
            BY <6>1, <6>2
        <5>2. marker' /\ s # Nobody
          BY <1>2, <4>2, <4>5
        <5>3. Ready(k)'
          BY <1>4, <3>1, <4>1, <4>5, ServiceTypes
        <5> QED
          BY <2>8, <5>1, <5>2, <5>3 DEF ClientAlone
      <4>6. CASE Served(s).cmd = "logout"
        BY <1>2, <2>6, <2>7, <2>8, <3>1, <4>2, <4>6 DEF ClientAlone
      <4> QED
        BY <1>2, <4>3, <4>4, <4>5, <4>6
    <3>2. CASE k # c
      <4>1. cl[k].pc = "off" /\ cl'[k] = cl[k]
        BY <2>7, <3>2
      <4> QED
        BY <4>1, OffStaysAlone
    <3> QED
      BY <3>1, <3>2
  <2> QED
    BY <2>9, <2>10, <2>11 DEF Alone, taVars
<1> QED
  BY <1>2, <1>3, <1>4

\* What the server knows after its answer.
LEMMA ReplyAuth ==
  ASSUME IInv, NEW s \in Server, NEW res, NEW auth, Reply(s, res, auth), Served(s).who # Gone
  PROVE  sv'[s].auth = auth
  BY ServiceTypes DEF Reply

LEMMA ServerReplyAlone ==
  ASSUME IInv, Alone, NEW s \in Server, ServeDocuments(s) \/ ManagerReturns(s)
  PROVE  Alone'
<1>1. sv[s].auth \in BOOLEAN /\ (sv[s].pc = "manager" => sv[s].conn # <<>>)
  BY ServiceTypes DEF ServerState
<1>2. CASE ServeDocuments(s)
  <2> DEFINE auth == sv[s].auth /\ Served(s).cmd # "logout"
  <2>1. /\ Reply(s, "", auth)
        /\ Served(s).cmd \in {"document", "logout"}
        /\ sv[s].conn # <<>> /\ sv[s].pc = "accept" /\ UNCHANGED <<taVars, marker, overlapped>>
    BY <1>2 DEF ServeDocuments
  <2>2. pc[s] = "idle" /\ sv[s].auth
    BY <2>1 DEF Alone, ServerAlone
  <2>3. Served(s).cmd = "document" => auth
    BY <2>1, <2>2
  <2> HIDE DEF auth
  <2>4. Served(s).who # Gone /\ Served(s).cmd = "document" => sv'[s].auth
    BY <2>1, <2>3, ReplyAuth
  <2> QED
    BY <2>1, <2>2, <2>4, ReplyAlone
<1>3. CASE ManagerReturns(s)
  <2> DEFINE auth == IF Served(s).cmd = "login" THEN out[s] = "SUCCESS" ELSE sv[s].auth
  <2>1. /\ Reply(s, Printed(s), auth) /\ UNCHANGED <<taVars, marker, overlapped>>
        /\ sv[s].pc = "manager" /\ pc[s] = "idle" /\ sv[s].conn # <<>>
    BY <1>1, <1>3 DEF ManagerReturns, ProgramEnds
  <2>3. Printed(s) = "SUCCESS" => out[s] = "SUCCESS"
    BY DEF Printed
  <2>4. /\ Served(s).cmd = "init" /\ Printed(s) = "SUCCESS" => wallet \in Identity
        /\ Served(s).cmd = "document" => sv[s].auth
    BY <2>1, <2>3 DEF Alone, ServerAlone
  <2>5. /\ Served(s).cmd = "login" /\ Printed(s) = "SUCCESS" => auth
        /\ Served(s).cmd = "document" => auth
    BY <1>1, <2>3, <2>4
  <2> HIDE DEF auth
  <2>6. Served(s).who # Gone
        /\ (Served(s).cmd = "document" \/ (Served(s).cmd = "login" /\ Printed(s) = "SUCCESS"))
           => sv'[s].auth
    BY <2>1, <2>5, ReplyAuth
  <2> QED
    BY <2>1, <2>4, <2>6, ReplyAlone
<1> QED
  BY <1>2, <1>3

\* The manager program and the authority begin with the client's request.
LEMMA CallManagerAlone ==
  ASSUME IInv, Alone, NEW s \in Server, CallManager(s)
  PROVE  Alone'
<1>1. /\ sv[s].conn # <<>> /\ sv[s].pc = "accept"
      /\ sv' = [sv EXCEPT ![s].pc = "manager"]
      /\ UNCHANGED <<marker, path, cl, overlapped>>
  BY DEF CallManager
<1>2. /\ sv'[s].pc = "manager" /\ sv'[s].conn = sv[s].conn /\ sv'[s].auth = sv[s].auth
      /\ \A r \in Server \ {s} : sv'[r] = sv[r]
  BY <1>1, ServiceTypes DEF ServerState
<1>3. /\ wallet' = wallet
      /\ \A r \in Server \ {s} : pc'[r] = pc[r] /\ out'[r] = out[r]
  BY DEF CallManager, TA!Invoke, TA!InvokeFails, TA!Answer, IInv, TypeOK, TA!TypeOK
<1>4. /\ Served(s).cmd # "init" => pc'[s] \in {"open_wallet", "idle"}
      /\ pc'[s] = "idle" => out'[s] # "SUCCESS"
  BY DEF CallManager, TA!Invoke, TA!InvokeFails, TA!Answer, IInv, TypeOK, TA!TypeOK
<1>5. \A c \in Client : cl[c].pc \in {"off", "wait"}
  BY <1>1, AskedAwaits
<1>6. OneAtATime'
  <2>1. \A r \in Server : sv'[r].pc # "off" => sv[r].pc # "off"
    BY <1>1, <1>2
  <2> QED
    BY <1>1, <2>1 DEF Alone, OneAtATime, Active
<1>7. ASSUME NEW r \in Server PROVE ServerAlone(r)'
  <2>1. ServerAlone(r)
    BY DEF Alone
  <2>2. CASE r = s
    <3>1. Served(s)' = Served(s) /\ Listens(s) /\ Listens(s)'
      BY <1>1, <1>2 DEF Served, Listens
    <3>2. marker => pc'[s] \notin TA!InitSteps
      BY <1>1, <1>4, <2>1, <2>2 DEF ServerAlone, TA!InitSteps
    <3> QED
      BY <1>1, <1>2, <1>4, <2>1, <2>2, <3>1, <3>2 DEF ServerAlone
  <2>3. CASE r # s
    <3>1. /\ sv'[r] = sv[r] /\ pc'[r] = pc[r] /\ out'[r] = out[r]
          /\ Served(r)' = Served(r)
      BY <1>2, <1>3, <2>3 DEF Served
    <3> QED
      BY <1>1, <1>3, <2>1, <3>1 DEF ServerAlone, Listens
  <2> QED
    BY <2>2, <2>3
<1>8. ASSUME NEW c \in Client PROVE ClientAlone(c)'
  <2>1. ClientAlone(c) /\ cl'[c] = cl[c] /\ cl[c].pc \in {"off", "wait"}
    BY <1>1, <1>5 DEF Alone
  <2>2. \A r \in Server : sv'[r].conn = sv[r].conn /\ Served(r)' = Served(r)
    BY <1>2 DEF Served
  <2> QED
    BY <2>1, <2>2 DEF ClientAlone
<1> QED
  BY <1>1, <1>3, <1>6, <1>7, <1>8 DEF Alone

(***************************************************************************)
(* Steps of the authority: only an init writes the wallet, and one that    *)
(* succeeds has written it.                                                *)
(***************************************************************************)
LEMMA AuthorityWrites ==
  ASSUME IInv, P!IInv, NEW s \in Server, TAStep(s)
  PROVE  /\ pc[s] # "idle"
         /\ pc[s] \notin TA!InitSteps => wallet' = wallet /\ pc'[s] \notin TA!InitSteps
         /\ pc'[s] = "idle" /\ op[s].cmd = "init" /\ out'[s] = "SUCCESS" => wallet' \in Identity
         /\ \A r \in Server \ {s} : pc'[r] = pc[r] /\ out'[r] = out[r]
<1>1. /\ pc[s] # "idle"
      /\ \A r \in Server \ {s} : pc'[r] = pc[r] /\ out'[r] = out[r]
  BY DEF TAStep, TA!InitStep, TA!LoginStep, TA!HashPassword, TA!CreateWallet, TA!WriteWallet,
     TA!WriteWalletFails, TA!FindKey, TA!GenerateKey, TA!CreateKey, TA!CloseKey, TA!CloseWallet,
     TA!OpenWallet, TA!ReadWallet, TA!OpenKey, TA!SignChallenge, TA!Goto, TA!Answer,
     IInv, TypeOK, TA!TypeOK
<1>2. CASE TA!LoginStep(s)
  <2>1. /\ pc[s] \in TA!LoginSteps /\ wallet' = wallet
        /\ pc'[s] \in TA!LoginSteps \union {"idle"}
    BY <1>2 DEF TA!LoginStep, TA!OpenWallet, TA!ReadWallet, TA!OpenKey, TA!SignChallenge,
       TA!Goto, TA!Answer, TA!LoginSteps, IInv, TypeOK, TA!TypeOK
  <2>2. op[s].cmd = "login"
    BY <2>1 DEF P!IInv, P!OnPath, P!LoginSteps, TA!LoginSteps
  <2> QED
    BY <1>1, <2>1, <2>2 DEF TA!LoginSteps, TA!InitSteps
<1>3. CASE TA!InitStep(s)
  <2>1. pc[s] \in TA!InitSteps
    BY <1>3 DEF TA!InitStep, TA!HashPassword, TA!CreateWallet, TA!WriteWallet,
       TA!WriteWalletFails, TA!FindKey, TA!GenerateKey, TA!CreateKey, TA!CloseKey,
       TA!CloseWallet, TA!InitSteps
  <2>2. CASE TA!CloseWallet(s)
    <3>1. pc[s] = "close_wallet" /\ wallet' = wallet
      BY <2>2 DEF TA!CloseWallet
    <3>2. wallet = op[s].id /\ op[s].cmd = "init" /\ op[s] \in P!Op \union {P!NoOp}
      BY <3>1 DEF P!IInv, P!InitLeavesWallet, P!OnPath, P!InitSteps, P!TypeOK
    <3>3. op[s].id \in Identity
      BY <3>2 DEF P!Op, P!NoOp
    <3> QED
      BY <1>1, <2>1, <3>1, <3>2, <3>3
  <2>3. CASE ~TA!CloseWallet(s)
    <3>1. pc'[s] = "idle" => out'[s] # "SUCCESS"
      BY <1>3, <2>3 DEF TA!InitStep, TA!HashPassword, TA!CreateWallet, TA!WriteWallet,
         TA!WriteWalletFails, TA!FindKey, TA!GenerateKey, TA!CreateKey, TA!CloseKey,
         TA!Goto, TA!Answer, IInv, TypeOK, TA!TypeOK
    <3> QED
      BY <1>1, <2>1, <3>1
  <2> QED
    BY <2>2, <2>3
<1> QED
  BY <1>2, <1>3 DEF TAStep

LEMMA TAStepAlone ==
  ASSUME IInv, P!IInv, Alone, NEW s \in Server, TAStep(s)
  PROVE  Alone'
<1>1. UNCHANGED <<marker, path, sv, cl, overlapped>>
  BY DEF TAStep
<1>2. /\ pc[s] # "idle"
      /\ pc[s] \notin TA!InitSteps => wallet' = wallet /\ pc'[s] \notin TA!InitSteps
      /\ pc'[s] = "idle" /\ op[s].cmd = "init" /\ out'[s] = "SUCCESS" => wallet' \in Identity
      /\ \A r \in Server \ {s} : pc'[r] = pc[r] /\ out'[r] = out[r]
  BY AuthorityWrites
<1>3. sv[s].pc = "manager" /\ sv[s].conn # <<>>
  BY <1>2, ServiceTypes DEF Alone, ServerAlone
<1>4. /\ \A c \in Client : cl[c].pc \in {"off", "wait"}
      /\ \A r \in Server \ {s} : sv[r].pc = "off"
  BY <1>3, AskedAwaits
<1>5. marker => wallet' = wallet /\ wallet \in Identity /\ pc'[s] \notin TA!InitSteps
  BY <1>2 DEF Alone, ServerAlone
<1>6. Served(s).cmd = "init" => op[s].cmd = "init"
  BY <1>2, <1>3 DEF IInv, InitRuns
<1>7. OneAtATime'
  BY <1>1 DEF Alone, OneAtATime, Active
<1>8. ASSUME NEW r \in Server PROVE ServerAlone(r)'
  <2>1. ServerAlone(r) /\ Served(r)' = Served(r) /\ (Listens(r)' <=> Listens(r))
    BY <1>1 DEF Alone, Served, Listens
  <2>2. CASE r = s
    BY <1>1, <1>2, <1>3, <1>5, <1>6, <2>1, <2>2 DEF ServerAlone
  <2>3. CASE r # s
    BY <1>1, <1>2, <1>4, <2>1, <2>3 DEF ServerAlone
  <2> QED
    BY <2>2, <2>3
<1>9. ASSUME NEW c \in Client PROVE ClientAlone(c)'
  <2>1. ClientAlone(c) /\ cl'[c] = cl[c] /\ cl[c].pc \in {"off", "wait"}
    BY <1>1, <1>4 DEF Alone
  <2>2. \A r \in Server : sv'[r].conn = sv[r].conn /\ Served(r)' = Served(r)
    BY <1>1 DEF Served
  <2> QED
    BY <1>1, <2>1, <2>2 DEF ClientAlone
<1> QED
  BY <1>1, <1>5, <1>7, <1>8, <1>9 DEF Alone

LEMMA InitAlone == Init => AloneInv
<1> SUFFICES ASSUME Init PROVE Alone
  BY DEF AloneInv
<1>1. \A c \in Client : cl[c].pc = "off" /\ cl[c].server = Nobody /\ cl[c].res = ""
  BY DEF Init, Ended
<1>2. \A s \in Server : /\ sv[s].pc = "off" /\ sv[s].conn = <<>> /\ path # s
                        /\ pc[s] = "idle"
  BY WalletConstants DEF Init, Off, TA!Init
<1>3. marker = FALSE
  BY DEF Init
<1>4. OneAtATime
  BY <1>1, <1>2 DEF OneAtATime, Active
<1>5. ASSUME NEW s \in Server PROVE ServerAlone(s)
  BY <1>2, <1>3, <1>5 DEF ServerAlone, Listens, TA!InitSteps
<1>6. ASSUME NEW c \in Client PROVE ClientAlone(c)
  BY <1>1, <1>3, <1>6 DEF ClientAlone
<1> QED
  BY <1>3, <1>4, <1>5, <1>6 DEF Alone

LEMMA NextAlone == IInv /\ P!IInv /\ AloneInv /\ [Next]_vars => AloneInv'
<1> SUFFICES ASSUME IInv, P!IInv, AloneInv, [Next]_vars, ~overlapped' PROVE Alone'
  BY DEF AloneInv
<1>1. ~overlapped
  BY DEF Next, vars, Start, StartBackend, Request, Handle, StopBackend, Kill, ServerStep, Bind,
     DecodeFails, ServeDocuments, CallManager, ManagerReturns, ProgramEnds, TAStep, Reboot
<1>2. Alone
  BY <1>1 DEF AloneInv
<1>3. ASSUME NEW c \in Client, \/ Start(c) \/ StartBackend(c) \/ Request(c) \/ Handle(c)
                              \/ StopBackend(c) \/ Kill(c)
      PROVE  Alone'
  BY <1>2, <1>3, StartAlone, StartBackendAlone, RequestAlone, HandleAlone, StopBackendAlone,
     KillAlone
<1>4. ASSUME NEW s \in Server, ServerStep(s)
      PROVE  Alone'
  BY <1>2, <1>4, BindAlone, DecodeFailsAlone, ServerReplyAlone, CallManagerAlone, TAStepAlone DEF ServerStep
<1>5. CASE Reboot
  <2>1. \A c \in Client : cl'[c].pc = "off" /\ cl'[c].server = Nobody /\ cl'[c].res = ""
    BY <1>5 DEF Reboot, Ended
  <2>2. \A s \in Server : /\ sv'[s].pc = "off" /\ sv'[s].conn = <<>> /\ path' # s
                          /\ pc'[s] = "idle"
    BY <1>5, ServiceTypes DEF Reboot, Off, TA!Reboot
  <2>3. UNCHANGED <<wallet, marker>> /\ (marker => wallet \in Identity)
    BY <1>2, <1>5 DEF Reboot, TA!Reboot, Alone
  <2> QED
    BY <2>1, <2>2, <2>3, NobodyThere
<1>6. CASE UNCHANGED vars
  <2>1. OneAtATime'
    BY <1>2, <1>6 DEF vars, Alone, OneAtATime, Active
  <2>2. ASSUME NEW s \in Server PROVE ServerAlone(s)'
    BY <1>2, <1>6, <2>2 DEF vars, taVars, Alone, ServerAlone, Served, Listens
  <2>3. ASSUME NEW c \in Client PROVE ClientAlone(c)'
    BY <1>2, <1>6, <2>3 DEF vars, taVars, Alone, ClientAlone, Served, Unasked, Ready
  <2> QED
    BY <1>2, <1>6, <2>1, <2>2, <2>3 DEF vars, taVars, Alone
<1> QED
  BY <1>3, <1>4, <1>5, <1>6 DEF Next

(***************************************************************************)
(* As long as no client was started beside another process: one client and *)
(* one server, and a request that is where the position of both says.      *)
(***************************************************************************)
THEOREM AloneInvariance == Spec => []AloneInv
  BY InitAlone, NextAlone, AuthorityInvariant, Invariance, PTL DEF Spec

(***************************************************************************)
(* A client that is alone and reached its menu (client.py:run) has a       *)
(* completely written wallet and reaches the server of its own that        *)
(* authenticated it, or none, whatever was killed or lost power before.    *)
(***************************************************************************)
THEOREM ServiceSafety == Spec => []AloneIsServed
<1>1. AloneInv => AloneIsServed
  <2> SUFFICES ASSUME Alone, NEW c \in Client, cl[c].pc = "menu"
               PROVE  /\ wallet \in Identity
                      /\ path # Nobody => path = cl[c].server /\ sv[path].auth
    BY DEF AloneInv, AloneIsServed
  <2>1. Ready(c) /\ marker
    BY DEF Alone, ClientAlone
  <2> QED
    BY <2>1 DEF Alone, Ready
<1> QED
  BY <1>1, AloneInvariance, PTL

=============================================================================
