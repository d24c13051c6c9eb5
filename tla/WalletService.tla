--------------------------- MODULE WalletService ---------------------------
(***************************************************************************)
(* The wallet as its users run it: the clients (shared/client.py), each of *)
(* which starts a server of its own (shared/server.py) on the one socket   *)
(* path of the device; the manager program a server runs for a request,    *)
(* and the manager TA that routes its command (optee_examples/TA_Manager)  *)
(* to the trusted authority, composed here from TrustedAuthority.  Of the  *)
(* requests for documents, which StorageData models, only what the server  *)
(* checks before it passes them on is needed here.                         *)
(*                                                                         *)
(* A server serves one connection at a time and keeps one authentication   *)
(* for all of them.  A second client's server takes the path over.         *)
(***************************************************************************)
EXTENDS Naturals, Sequences

CONSTANTS
    Client,     \* client.py processes
    Server,     \* bound: servers that exist at the same time
    Identity, RsaKey, Challenge, NoKey, Absent, Blank, Nobody, PowerLoss,
    Gone,       \* the peer of a connection whose client was killed
    Backlog     \* bound: connections of a server (listen(5)); connect waits beyond

ASSUME WalletConstants ==
    /\ NoKey \notin RsaKey
    /\ Absent # Blank /\ {Absent, Blank} \intersect Identity = {}
    /\ Nobody \notin Server /\ Gone \notin Client

VARIABLES
    wallet, key, walletOpen, keyOpen, pc, op, out, pair, signed,  \* TrustedAuthority
    marker,     \* whether the file .wallet_initialized exists
    path,       \* the server /tmp/tps_socket leads to
    sv,         \* the servers: pc, is_authenticated, connections (first one served)
    cl,         \* the clients: pc, server_proc, what the last request returned
    overlapped  \* history: whether a client was ever started beside other processes

TA == INSTANCE TrustedAuthority WITH Client <- Server

taVars == <<wallet, key, walletOpen, keyOpen, pc, op, out, pair, signed>>
vars == <<taVars, marker, path, sv, cl, overlapped>>

Off == [pc |-> "off", auth |-> FALSE, conn |-> <<>>]
Ended == [pc |-> "off", server |-> Nobody, res |-> ""]

Init ==
    /\ TA!Init
    /\ marker = FALSE
    /\ path = Nobody
    /\ sv = [s \in Server |-> Off]
    /\ cl = [c \in Client |-> Ended]
    /\ overlapped = FALSE

Goto(c, step) == cl' = [cl EXCEPT ![c].pc = step]

-----------------------------------------------------------------------------
(***************************************************************************)
(* shared/client.py                                                        *)
(***************************************************************************)

\* run: the marker decides whether the form is filled in first.
Start(c) ==
    /\ cl[c].pc = "off"
    /\ Goto(c, IF marker THEN "begin" ELSE "form")
    /\ overlapped' = (overlapped \/ \E k \in Client : cl[k].pc # "off"
                                 \/ \E s \in Server : sv[s].pc # "off" \/ pc[s] # "idle")
    /\ UNCHANGED <<taVars, marker, path, sv>>

\* start_backend.
StartBackend(c) ==
    /\ cl[c].pc \in {"form", "begin"}
    /\ \E s \in Server :
        /\ sv[s].pc = "off" /\ pc[s] = "idle" /\ \A k \in Client : cl[k].server # s
        /\ sv' = [sv EXCEPT ![s].pc = "starting"]
        /\ cl' = [cl EXCEPT ![c].server = s,
                            ![c].pc = IF @ = "form" THEN "init" ELSE "login"]
    /\ UNCHANGED <<taVars, marker, path, overlapped>>

Requests == [step \in {"init", "login", "menu"} |->
                IF step = "menu" THEN {"document", "logout"} ELSE {step}]

\* What follows a request of the menu, whatever was answered and printed.
After(cmd) == IF cmd = "logout" THEN "stop" ELSE "menu"

\* The answer of a request the client made, or that of its own except branch.
Told(client, cmd, res) ==
    IF cmd \in {"init", "login"} THEN [client EXCEPT !.pc = cmd, !.res = res]
    ELSE [client EXCEPT !.pc = After(cmd)]

\* The connections of a server that ends: whoever waits for it reads the end
\* of the stream or an error.
Disconnected(s, clients) ==
    [c \in Client |->
        IF \E i \in DOMAIN sv[s].conn : sv[s].conn[i].who = c
        THEN Told(clients[c], sv[s].conn[CHOOSE i \in DOMAIN sv[s].conn :
                                            sv[s].conn[i].who = c].cmd, "ERROR")
        ELSE clients[c]]

\* request: nothing tells that the server is ready after one second.
Request(c) ==
    /\ cl[c].pc \in DOMAIN Requests
    /\ cl[c].res = ""
    /\ \E cmd \in Requests[cl[c].pc] :
        IF path = Nobody
        THEN /\ cl' = [cl EXCEPT ![c] = Told(@, cmd, "ERROR")]
             /\ UNCHANGED sv
        ELSE /\ Len(sv[path].conn) < Backlog
             /\ sv' = [sv EXCEPT ![path].conn = Append(@, [who |-> c, cmd |-> cmd])]
             /\ Goto(c, "wait")
    /\ UNCHANGED <<taVars, marker, path, overlapped>>

\* Faulty variant: the marker is written whatever the answer was.
HandleMarksAlways(c) ==
    /\ cl[c].res # ""
    /\ marker' = (marker \/ cl[c].pc = "init")
    /\ cl' = [cl EXCEPT ![c].res = "",
                        ![c].pc = IF cl[c].res # "SUCCESS" THEN "stop"
                                  ELSE IF @ = "init" THEN "login" ELSE "menu"]
    /\ UNCHANGED <<taVars, path, sv, overlapped>>

\* run: what the client makes of the answer to its init or its login.
\* Anything but success ends it.
Handle(c) ==
    /\ cl[c].res # ""
    /\ marker' = (marker \/ (cl[c].pc = "init" /\ cl[c].res = "SUCCESS"))
    /\ cl' = [cl EXCEPT ![c].res = "",
                        ![c].pc = IF cl[c].res # "SUCCESS" THEN "stop"
                                  ELSE IF @ = "init" THEN "login" ELSE "menu"]
    /\ UNCHANGED <<taVars, path, sv, overlapped>>

\* stop_backend: the own server is terminated, and the path removed whoever
\* it leads to.
StopBackend(c) ==
    /\ cl[c].pc = "stop"
    /\ LET s == cl[c].server IN
       /\ sv' = [sv EXCEPT ![s] = Off]
       /\ cl' = Disconnected(s, [cl EXCEPT ![c] = Ended])
    /\ path' = Nobody
    /\ UNCHANGED <<taVars, marker, overlapped>>

\* A client is killed without reaching its finally: its server stays.  Bound:
\* not beside another client.
Kill(c) ==
    /\ cl[c].pc \notin {"off", "stop"}
    /\ \A k \in Client \ {c} : cl[k].pc = "off"
    /\ cl' = [cl EXCEPT ![c] = Ended]
    /\ sv' = [s \in Server |->
                [sv[s] EXCEPT !.conn = [i \in DOMAIN @ |->
                    IF @[i].who = c THEN [@[i] EXCEPT !.who = Gone] ELSE @[i]]]]
    /\ UNCHANGED <<taVars, marker, path, overlapped>>

-----------------------------------------------------------------------------
(***************************************************************************)
(* shared/server.py                                                        *)
(***************************************************************************)

\* The path is removed and bound again; when another server binds it in
\* between, bind raises an exception.
Bind(s) ==
    /\ sv[s].pc = "starting"
    /\ \/ sv' = [sv EXCEPT ![s].pc = "accept"] /\ path' = s
       \/ /\ \E r \in Server \ {s} : sv[r].pc # "off"
          /\ sv' = [sv EXCEPT ![s] = Off]
          /\ UNCHANGED path
    /\ UNCHANGED <<taVars, marker, cl, overlapped>>

Served(s) == Head(sv[s].conn)

\* An exception nobody catches: the server removes the path and ends.
ServerEnds(s) ==
    /\ sv' = [sv EXCEPT ![s] = Off]
    /\ cl' = Disconnected(s, cl)
    /\ path' = Nobody

\* A text longer than the buffer of recv is cut, and what is cut inside a
\* character does not decode.
DecodeFails(s) ==
    /\ sv[s].pc = "accept" /\ sv[s].conn # <<>>
    /\ Served(s).cmd # "logout"
    /\ ServerEnds(s)
    /\ UNCHANGED <<taVars, marker, overlapped>>

\* sendall and close.  A client that is gone makes sendall raise an exception.
Reply(s, res, auth) ==
    LET who == Served(s).who IN
    IF who = Gone
    THEN ServerEnds(s)
    ELSE /\ sv' = [sv EXCEPT ![s] = [pc |-> "accept", auth |-> auth, conn |-> Tail(@.conn)]]
         /\ cl' = [cl EXCEPT ![who] = Told(@, Served(s).cmd, res)]
         /\ UNCHANGED path

\* A logout, and a request for a document, refused without authentication
\* or left to the document store: is_authenticated stays what it is.
ServeDocuments(s) ==
    /\ sv[s].pc = "accept" /\ sv[s].conn # <<>>
    /\ Served(s).cmd \in {"document", "logout"}
    /\ Reply(s, "", sv[s].auth /\ Served(s).cmd # "logout")
    /\ UNCHANGED <<taVars, marker, overlapped>>

\* call_manager: the manager program opens a session of the manager TA and
\* invokes the command, route_to_ta opens one of the trusted authority.
CallManager(s) ==
    /\ sv[s].pc = "accept" /\ sv[s].conn # <<>>
    /\ \/ /\ Served(s).cmd = "init"
          /\ \E id \in Identity : TA!Invoke(s, [cmd |-> "init", id |-> id])
       \/ /\ Served(s).cmd = "login"
          /\ \E c \in Challenge : TA!Invoke(s, [cmd |-> "login", c |-> c])
       \/ Served(s).cmd \in {"init", "login"} /\ TA!InvokeFails(s)
    /\ sv' = [sv EXCEPT ![s].pc = "manager"]
    /\ UNCHANGED <<marker, path, cl, overlapped>>

\* The manager program ends when its instance has answered.
ProgramEnds(s) ==
    /\ sv[s].pc = "manager"
    /\ pc[s] = "idle"
    /\ UNCHANGED <<taVars, marker, overlapped>>

\* Faulty variant: the program prints the result code.
PrintedCode(s) == out[s]

Printed(s) == IF out[s] = "SUCCESS" THEN "SUCCESS" ELSE "NOTHING"

\* Faulty variant: a login does not change is_authenticated.
ManagerReturnsNoAuth(s) ==
    /\ ProgramEnds(s)
    /\ Reply(s, Printed(s), sv[s].auth)

\* Faulty variant: when the program printed nothing, nothing is answered and
\* the connection stays open.
ManagerReturnsSilently(s) ==
    /\ ProgramEnds(s)
    /\ IF Printed(s) = "SUCCESS"
       THEN Reply(s, "SUCCESS", Served(s).cmd = "login" \/ sv[s].auth)
       ELSE /\ sv' = [sv EXCEPT ![s].pc = "accept", ![s].conn = Tail(@)]
            /\ UNCHANGED <<cl, path>>

\* The program prints SUCCESS, or nothing, and its exit status is 0: a login
\* that failed ends the authentication.
ManagerReturns(s) ==
    /\ ProgramEnds(s)
    /\ Reply(s, Printed(s), IF Served(s).cmd = "login" THEN out[s] = "SUCCESS" ELSE sv[s].auth)

TAStep(s) ==
    /\ TA!InitStep(s) \/ TA!LoginStep(s)
    /\ UNCHANGED <<marker, path, sv, cl, overlapped>>

-----------------------------------------------------------------------------
\* The device restarts: the files and the secure storage stay.
Reboot ==
    /\ TA!Reboot
    /\ path' = Nobody
    /\ sv' = [s \in Server |-> Off]
    /\ cl' = [c \in Client |-> Ended]
    /\ UNCHANGED <<marker, overlapped>>

ServerStep(s) ==
    Bind(s) \/ DecodeFails(s) \/ ServeDocuments(s) \/ CallManager(s) \/ ManagerReturns(s) \/ TAStep(s)

Next ==
    \/ \E c \in Client : \/ Start(c) \/ StartBackend(c) \/ Request(c) \/ Handle(c)
                         \/ StopBackend(c) \/ Kill(c)
    \/ \E s \in Server : ServerStep(s)
    \/ Reboot

\* The servers and the trusted authority run on; a user need not.
Fairness == \A s \in Server : WF_vars(ServerStep(s))

Spec == Init /\ [][Next]_vars /\ Fairness

-----------------------------------------------------------------------------
(***************************************************************************)
(* Properties                                                              *)
(***************************************************************************)

Connection == [who : Client \union {Gone}, cmd : {"init", "login", "document", "logout"}]
ServerState == [pc : {"off", "starting", "accept", "manager"}, auth : BOOLEAN,
                conn : Seq(Connection)]
ClientState == [pc : {"off", "form", "begin", "init", "login", "menu", "wait", "stop"},
                server : Server \union {Nobody}, res : {"", "SUCCESS", "NOTHING", "ERROR"}]

\* Every variable of the service keeps its type.
TypeOK ==
    /\ TA!TypeOK
    /\ marker \in BOOLEAN /\ overlapped \in BOOLEAN
    /\ path \in Server \union {Nobody}
    /\ sv \in [Server -> ServerState]
    /\ cl \in [Client -> ClientState]

\* The marker, a file of the normal world, never claims more than the
\* secure world has: from then on there are a wallet object and a key,
\* whatever was killed or lost power since.
MarkerMeansWallet == marker => wallet # Absent /\ key # NoKey

\* As long as no client was started beside other processes of the wallet,
\* one that reached its menu has a wallet that was written completely, and
\* its requests reach its own server, which knows it as authenticated, or
\* nobody, after a text that did not decode.
AloneIsServed ==
    \A c \in Client : ~overlapped /\ cl[c].pc = "menu" =>
        /\ wallet \in Identity
        /\ path # Nobody => path = cl[c].server /\ sv[path].auth

\* A request is answered, or its connection breaks: no client waits for ever.
RequestsEnd == \A c \in Client : cl[c].pc = "wait" ~> cl[c].pc # "wait"

\* What is true of a wallet that was created: from the moment an init of the
\* authority has succeeded, over the answer of the server, to the marker.
Made == wallet # Absent /\ key # NoKey

InitRuns ==
    \A s \in Server : sv[s].pc = "manager" =>
        /\ sv[s].conn # <<>>
        /\ Served(s).cmd = "init" =>
              IF pc[s] = "idle" THEN out[s] = "SUCCESS" => Made ELSE op[s].cmd = "init"

\* The steps of a client up to its answer to init.
Asking == {"off", "form", "begin", "init"}

SuccessHeard(client) == client.pc \in Asking /\ client.res = "SUCCESS"

InitAnswered == \A c \in Client : SuccessHeard(cl[c]) => Made

\* The inductive invariant of WalletServiceProofs, beside that of the authority.
IInv == TypeOK /\ InitRuns /\ InitAnswered /\ MarkerMeansWallet

(***************************************************************************)
(* The second invariant, of histories in which no client was started       *)
(* beside other processes: one client and one server at most, and where    *)
(* the request that they exchange stands.                                  *)
(***************************************************************************)
Active(c) == cl[c].pc # "off"
Listens(s) == sv[s].pc \in {"accept", "manager"}
Unasked == \A s \in Server : sv[s].conn = <<>>
Ready(c) == IF path = Nobody THEN \A s \in Server : sv[s].pc = "off"
            ELSE path = cl[c].server /\ sv[path].auth

OneAtATime ==
    /\ \A c, k \in Client : Active(c) /\ Active(k) => c = k
    /\ \A r, s \in Server : sv[r].pc # "off" /\ sv[s].pc # "off" => r = s
    /\ \A c \in Client, s \in Server : Active(c) /\ sv[s].pc # "off" => cl[c].server = s

ServerAlone(s) ==
    /\ path = s <=> Listens(s)
    /\ ~Listens(s) => sv[s].conn = <<>>
    /\ pc[s] # "idle" => sv[s].pc = "manager"
    /\ sv[s].conn # <<>> =>
          /\ Len(sv[s].conn) = 1
          /\ \A c \in Client : Served(s).who = c => cl[c].pc = "wait"
          /\ Served(s).cmd = "init" <=> ~marker
          /\ Served(s).cmd \in {"document", "logout"} => sv[s].auth
    /\ marker => pc[s] \notin TA!InitSteps
    /\ sv[s].pc = "manager" /\ Served(s).cmd = "init" /\ pc[s] = "idle" /\ out[s] = "SUCCESS"
          => wallet \in Identity

ClientAlone(c) ==
    /\ cl[c].pc \in {"off", "form", "begin"} <=> cl[c].server = Nobody
    /\ cl[c].res # "" => cl[c].pc \in {"init", "login"}
    /\ cl[c].pc \in {"form", "init"} => ~marker
    /\ cl[c].pc \in {"begin", "login", "menu"} => marker
    /\ cl[c].pc \notin {"off", "wait"} => Unasked
    /\ cl[c].pc = "wait" => \E s \in Server : sv[s].conn # <<>> /\ Served(s).who = c
    /\ cl[c].pc = "init" /\ cl[c].res = "SUCCESS" => wallet \in Identity
    /\ cl[c].pc = "menu" \/ (cl[c].pc = "login" /\ cl[c].res = "SUCCESS") => Ready(c)

Alone ==
    /\ OneAtATime
    /\ \A s \in Server : ServerAlone(s)
    /\ \A c \in Client : ClientAlone(c)
    /\ marker => wallet \in Identity

AloneInv == ~overlapped => Alone

=============================================================================
