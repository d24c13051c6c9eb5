------------------------------ MODULE Reception ------------------------------
(***************************************************************************)
(* The confirmation of reception: a client (shared/client_wallet.py) sends *)
(* a message to the server of the device (shared/passt.py), which has it   *)
(* signed by a TA (optee_examples/test_passt/ta/test_passt_ta.c) through   *)
(* its host program (host/main.c) and sends the signature back.            *)
(*                                                                         *)
(* The server serves one connection at a time, the others wait in the      *)
(* backlog; it ends after 15 s without a connection, and a client that     *)
(* waited 15 s gives up and leaves its connection, with the message in it. *)
(*                                                                         *)
(* TEE_AsymmetricSignDigest (external) signs a digest of 32 bytes, and     *)
(* panics for any other length.  The TA gives it the message itself; the   *)
(* comment at test_passt_ta.c:71 has it hash the message first.  The       *)
(* message of client_wallet.py has 36 bytes: it is never signed, and what  *)
(* the client then shows as a confirmation is empty.                       *)
(***************************************************************************)
EXTENDS Naturals, Sequences

CONSTANTS
    Receiver,       \* clients, each with a message of its own
    DigestSized,    \* those whose message has 32 bytes; client_wallet.py has not
    MaxBacklog,     \* connections the kernel keeps for listen(1)
    NoReceiver      \* no client, no signature, no response

ASSUME ReceptionConstants ==
    /\ DigestSized \subseteq Receiver
    /\ MaxBacklog \in Nat \ {0}
    /\ NoReceiver \notin Receiver

VARIABLES
    passt,          \* server: "off", "accept", "recv", "sign" or "reply"
    conn,           \* the connection that is served
    backlog,        \* the connections that are not accepted yet
    response,       \* response_attestation: the client whose message is signed
    rc              \* the clients: where they are, and the signature they show

receptionVars == <<passt, conn, backlog, response, rc>>

\* A connection: its client, whether that still waits, whether it has sent.
Connection == [client : Receiver, live : BOOLEAN, data : BOOLEAN]
NoConnection == [client |-> NoReceiver, live |-> FALSE, data |-> FALSE]

ReceptionInit ==
    /\ passt = "off"
    /\ conn = NoConnection
    /\ backlog = <<>>
    /\ response = NoReceiver
    /\ rc = [c \in Receiver |-> [pc |-> "ended", sig |-> NoReceiver]]

RcEnds(clients, why) ==
    [c \in Receiver |-> IF c \in clients THEN [pc |-> why, sig |-> NoReceiver] ELSE rc[c]]

-----------------------------------------------------------------------------
(***************************************************************************)
(* client_wallet.py                                                        *)
(***************************************************************************)
Open(c) == {i \in 1..Len(backlog) : backlog[i].client = c /\ backlog[i].live}

\* The connection of c, wherever it is, after it has sent or left.
Changed(c, live, data) ==
    LET new == [client |-> c, live |-> live, data |-> data]
    IN  /\ backlog' = [i \in 1..Len(backlog) |-> IF i \in Open(c) THEN new ELSE backlog[i]]
        /\ conn' = IF conn.client = c /\ conn.live THEN new ELSE conn

\* connect is refused without a server, and times out on a full backlog.
ClientConnects(c) ==
    /\ rc[c].pc \notin {"connected", "waiting"}
    /\ \/ /\ passt = "off"
          /\ rc' = RcEnds({c}, "ended")
          /\ UNCHANGED backlog
       \/ /\ passt # "off" /\ Len(backlog) = MaxBacklog
          /\ rc' = RcEnds({c}, "ended")
          /\ UNCHANGED backlog
       \/ /\ passt # "off" /\ Len(backlog) < MaxBacklog
          /\ rc' = [rc EXCEPT ![c] = [pc |-> "connected", sig |-> NoReceiver]]
          /\ backlog' = Append(backlog, [client |-> c, live |-> TRUE, data |-> FALSE])
    /\ UNCHANGED <<passt, conn, response>>

ClientSends(c) ==
    /\ rc[c].pc = "connected"
    /\ rc' = [rc EXCEPT ![c].pc = "waiting"]
    /\ Changed(c, TRUE, TRUE)
    /\ UNCHANGED <<passt, response>>

\* The timeout of recv, or the end of the client.
ClientGivesUp(c) ==
    /\ rc[c].pc \in {"connected", "waiting"}
    /\ rc' = RcEnds({c}, "ended")
    /\ Changed(c, FALSE, rc[c].pc = "waiting")
    /\ UNCHANGED <<passt, response>>

-----------------------------------------------------------------------------
(***************************************************************************)
(* passt.py, the host program and confirm_reception                        *)
(***************************************************************************)
PasstStarts ==
    /\ passt = "off"
    /\ passt' = "accept"
    /\ UNCHANGED <<conn, backlog, response, rc>>

Accept ==
    /\ passt = "accept" /\ backlog # <<>>
    /\ conn' = Head(backlog)
    /\ backlog' = Tail(backlog)
    /\ passt' = "recv"
    /\ UNCHANGED <<response, rc>>

\* An end of the stream is no request.
Receive ==
    /\ passt = "recv"
    /\ \/ /\ conn.data
          /\ passt' = "sign"
          /\ UNCHANGED conn
       \/ /\ ~conn.data /\ ~conn.live
          /\ passt' = "accept"
          /\ conn' = NoConnection
    /\ UNCHANGED <<backlog, response, rc>>

\* The ephemeral key signs the message; the host prints the signature.
confirm_reception(c) == IF c \in DigestSized THEN {c, NoReceiver} ELSE {NoReceiver}

\* Faulty variant: a host program that prints nothing leaves the last response.
CallTAKeepsResponse ==
    /\ passt = "sign"
    /\ \E s \in confirm_reception(conn.client) :
          response' = IF s = NoReceiver THEN response ELSE s
    /\ passt' = "reply"
    /\ UNCHANGED <<conn, backlog, rc>>

\* No session (BUSY), a failed allocation or a panic: the host prints
\* nothing on its standard output, and nobody looks at how it ended.
CallTA ==
    /\ passt = "sign"
    /\ response' \in confirm_reception(conn.client)
    /\ passt' = "reply"
    /\ UNCHANGED <<conn, backlog, rc>>

\* The client shows what follows the prefix.  A client that has left may be
\* noticed, with an exception.
Reply ==
    /\ passt = "reply"
    /\ conn' = NoConnection
    /\ rc' = IF conn.live
             THEN [rc EXCEPT ![conn.client] = [pc |-> "confirmed", sig |-> response]]
             ELSE rc
    /\ passt' = "accept"
    /\ UNCHANGED <<backlog, response>>

\* accept timed out, sendall met a closed connection, or the user ended it:
\* every connection breaks.
PasstEnds ==
    /\ passt # "off"
    /\ passt' = "off"
    /\ conn' = NoConnection
    /\ backlog' = <<>>
    /\ response' = NoReceiver
    /\ rc' = RcEnds({c \in Receiver : rc[c].pc \in {"connected", "waiting"}}, "ended")

ReceptionNext ==
    \/ \E c \in Receiver : ClientConnects(c) \/ ClientSends(c) \/ ClientGivesUp(c)
    \/ PasstStarts \/ Accept \/ Receive \/ CallTA \/ Reply \/ PasstEnds

ReceptionSpec == ReceptionInit /\ [][ReceptionNext]_receptionVars

-----------------------------------------------------------------------------
(***************************************************************************)
(* Properties                                                              *)
(***************************************************************************)

\* Every variable keeps its type.
ReceptionTypeOK ==
    /\ passt \in {"off", "accept", "recv", "sign", "reply"}
    /\ conn \in Connection \union {NoConnection}
    /\ backlog \in Seq(Connection) /\ Len(backlog) <= MaxBacklog
    /\ response \in Receiver \union {NoReceiver}
    /\ rc \in [Receiver -> [pc : {"ended", "connected", "waiting", "confirmed"},
                            sig : Receiver \union {NoReceiver}]]

\* A signature that a client shows is that of its own message, although the
\* server works through connections whose clients have left or were started
\* again, and keeps its response from one to the next; and a client of
\* which no digest was made shows none.
ShownIsOwn ==
    \A c \in Receiver :
        rc[c].sig # NoReceiver => rc[c].sig = c /\ c \in DigestSized

=============================================================================
