------------------------------- MODULE SdJwt -------------------------------
(***************************************************************************)
(* The SD-JWT holder: the trusted application that keeps a token and the   *)
(* key it is bound to (optee_examples/sd-jwt-parser/ta/sd_jwt_parser.c),   *)
(* its host program (host/main.c), the client that runs it, the issuer and *)
(* the verifier (shared/sd_jwt/client.py, issuer.py, verifier.py).         *)
(*                                                                         *)
(* The TA is SINGLE_INSTANCE without MULTI_SESSION: a session excludes all *)
(* others (BUSY), so that a command is split only where a power loss may   *)
(* fall between two storage calls.  Issuer and verifier serve one          *)
(* connection at a time, the others wait in the backlog.  Signatures are   *)
(* perfect: a token names the key and the claims the issuer signed, a      *)
(* presentation the token and the signing key.                             *)
(***************************************************************************)
EXTENDS Naturals, SequencesExt

CONSTANTS
    Client,         \* processes running client.py
    Doc,            \* document names
    Key,            \* bound: key pairs alive at the same time
    Claim,          \* the selective claims of a template
    NamesIn,       \* NamesIn[c]: the claims whose name occurs in that of c
    InitialBuffer,  \* the buffer of the first attempt holds so many disclosures
    Absent, Empty,  \* no object; an object or a file without content
    Broken,         \* a token cut before its first disclosure
    Nobody

ASSUME NamesInAssumption ==
    NamesIn \in [Claim -> SUBSET Claim] /\ \A c \in Claim : c \in NamesIn[c]

ASSUME SdJwtConstants ==
    /\ IsFiniteSet(Claim) /\ InitialBuffer \in Nat /\ Nobody \notin Client
    /\ Empty # Broken /\ {Empty, Broken} \intersect [key : Key, claims : SUBSET Claim] = {}

VARIABLES
    token,          \* secure storage: the token of a document
    holderKey,      \* secure storage: its holder key
    file,           \* /tmp/<doc>_token.tmp
    session,        \* client whose host program has the session
    issuer,         \* connections to the issuer, the first one is served
    verifier,       \* connections to the verifier
    cl,             \* the clients
    enrolment       \* history: how the last enrolment of a document went

vars == <<token, holderKey, file, session, issuer, verifier, cl, enrolment>>
storage == <<token, holderKey>>

Token == [key : Key, claims : SUBSET Claim]
Stored == Token \union {Broken, Empty}

Ended(out) == [pc |-> "idle", doc |-> Absent, key |-> Absent, tok |-> Empty,
               req |-> {}, size |-> InitialBuffer, out |-> out]

Init ==
    /\ token = [d \in Doc |-> Absent]
    /\ holderKey = [d \in Doc |-> Absent]
    /\ file = [d \in Doc |-> Empty]
    /\ session = Nobody
    /\ issuer = <<>>
    /\ verifier = <<>>
    /\ cl = [c \in Client |-> Ended("none")]
    /\ enrolment = [d \in Doc |-> "none"]

doc(c) == cl[c].doc

Goto(c, pc) == cl' = [cl EXCEPT ![c].pc = pc]

End(c, out) == cl' = [cl EXCEPT ![c] = Ended(out)]

CloseSession == session' = Nobody

\* A server's connections when that of c is closed, if it is one of them.
Leave(q, c) ==
    IF c \in ToSet(q) THEN RemoveAt(q, CHOOSE i \in DOMAIN q : q[i] = c) ELSE q

\* The keys that something still refers to.
UsedKeys ==
    {holderKey[x] : x \in Doc} \union {cl[c].key : c \in Client}
    \union {t.key : t \in Token \intersect ({token[x] : x \in Doc} \union {file[x] : x \in Doc}
                                             \union {cl[c].tok : c \in Client})}

-----------------------------------------------------------------------------
(***************************************************************************)
(* Host program: opening the session                                       *)
(***************************************************************************)

\* Faulty variant: the core lets a second session in.
OpenShared(c, next) ==
    \/ session' = c /\ Goto(c, next) /\ UNCHANGED verifier
    \/ End(c, "failed") /\ verifier' = Leave(verifier, c) /\ UNCHANGED session

\* BUSY or out of memory: the program ends without a word, and the client
\* with it, closing its connection.
Open(c, next) ==
    \/ session = Nobody /\ session' = c /\ Goto(c, next) /\ UNCHANGED verifier
    \/ End(c, "failed") /\ verifier' = Leave(verifier, c) /\ UNCHANGED session

-----------------------------------------------------------------------------
(***************************************************************************)
(* Enrolment: genkey, request to the issuer, store                         *)
(***************************************************************************)
Enrolling(c, x) == doc(c) = x /\ cl[c].pc \in {"genkey", "generate", "create", "request", "issuer",
                                             "truncate", "write", "store", "load", "storeCreate",
                                             "storeWrite"}

StartEnrolment(c) ==
    /\ cl[c].pc = "idle"
    /\ \E x \in Doc :
        /\ cl' = [cl EXCEPT ![c] = [Ended("none") EXCEPT !.pc = "genkey", !.doc = x]]
        /\ enrolment' = [enrolment EXCEPT
              ![x] = IF \E k \in Client : Enrolling(k, x) THEN "mixed" ELSE "alone"]
    /\ UNCHANGED <<storage, file, session, issuer, verifier>>

GenKey(c) ==
    /\ cl[c].pc = "genkey"
    /\ Open(c, "generate")
    /\ UNCHANGED <<storage, file, issuer, enrolment>>

\* TA_GenerateHolderKey up to the deletion of the old key.  The result of
\* opening the old key is not looked at: what cannot be opened stays.
GenerateKey(c) ==
    /\ cl[c].pc = "generate"
    /\ \/ /\ CloseSession
          /\ End(c, "failed")
          /\ UNCHANGED holderKey
       \/ /\ \E k \in Key \ UsedKeys :
                cl' = [cl EXCEPT ![c].key = k, ![c].pc = "create"]
          /\ holderKey' \in {holderKey, [holderKey EXCEPT ![doc(c)] = Absent]}
          /\ UNCHANGED session
    /\ UNCHANGED <<token, file, issuer, verifier, enrolment>>

\* Faulty variant: the result of creating the object is not returned.
CreateKeyIgnored(c) ==
    /\ cl[c].pc = "create"
    /\ holderKey' \in {holderKey, [holderKey EXCEPT ![doc(c)] = cl[c].key]}
    /\ Goto(c, "request")
    /\ CloseSession
    /\ UNCHANGED <<token, file, issuer, verifier, enrolment>>

\* TA_GenerateHolderKey from the creation of the new key on; there is no
\* OVERWRITE, so that an old key is a conflict.
CreateKey(c) ==
    /\ cl[c].pc = "create"
    /\ \/ /\ holderKey[doc(c)] = Absent
          /\ holderKey' = [holderKey EXCEPT ![doc(c)] = cl[c].key]
          /\ Goto(c, "request")
       \/ /\ End(c, "failed")
          /\ UNCHANGED holderKey
    /\ CloseSession
    /\ UNCHANGED <<token, file, issuer, verifier, enrolment>>

Request(c) ==
    /\ cl[c].pc = "request"
    /\ issuer' = Append(issuer, c)
    /\ Goto(c, "issuer")
    /\ UNCHANGED <<storage, file, session, verifier, enrolment>>

\* The first bytes of a token: the disclosures at its end are missing, or a
\* part of what the issuer signed.
Received(t) == {[t EXCEPT !.claims = s] : s \in SUBSET t.claims} \union {Broken}

\* Faulty variant: the connection of a request refused stays open.
StartIssuerKeepsOpen ==
    /\ issuer # <<>>
    /\ LET c == Head(issuer) IN
       /\ cl[c].pc = "issuer"
       /\ \/ \E t \in Received([key |-> cl[c].key, claims |-> Claim]) :
                cl' = [cl EXCEPT ![c].tok = t, ![c].key = Absent, ![c].pc = "truncate"]
          \/ UNCHANGED cl
    /\ issuer' = Tail(issuer)
    /\ UNCHANGED <<storage, file, session, verifier, enrolment>>

\* start_issuer, once the request is there: the token, of which the client's only recv may return a
\* part, or no reply at all when the request is refused or an exception is
\* raised; in both cases the connection is closed.
StartIssuer ==
    /\ issuer # <<>>
    /\ LET c == Head(issuer) IN
       /\ cl[c].pc = "issuer"
       /\ \E t \in Received([key |-> cl[c].key, claims |-> Claim]) \union {Empty} :
            cl' = [cl EXCEPT ![c].tok = t, ![c].key = Absent, ![c].pc = "truncate"]
    /\ issuer' = Tail(issuer)
    /\ UNCHANGED <<storage, file, session, verifier, enrolment>>

\* open(temp_path, "w"), then write and fsync: all clients share the name.
WriteFile(c) ==
    /\ cl[c].pc \in {"truncate", "write"}
    /\ file' = [file EXCEPT ![doc(c)] = IF cl[c].pc = "truncate" THEN Empty ELSE cl[c].tok]
    /\ cl' = [cl EXCEPT ![c].pc = IF @ = "truncate" THEN "write" ELSE "store",
                        ![c].tok = IF cl[c].pc = "truncate" THEN @ ELSE Empty]
    /\ UNCHANGED <<storage, session, issuer, verifier, enrolment>>

Store(c) ==
    /\ cl[c].pc = "store"
    /\ Open(c, "load")
    /\ UNCHANGED <<storage, file, issuer, enrolment>>

\* The host reads the file; one of 4096 bytes or more is taken for empty.
Load(c) ==
    /\ cl[c].pc = "load"
    /\ \/ /\ \E t \in {file[doc(c)], Empty} :
                cl' = [cl EXCEPT ![c].tok = t, ![c].pc = "storeCreate"]
          /\ UNCHANGED session
       \/ End(c, "failed") /\ CloseSession
    /\ UNCHANGED <<storage, file, issuer, verifier, enrolment>>

\* store_sd_jwt: the object is created empty, over the old token.
StoreCreate(c) ==
    /\ cl[c].pc = "storeCreate"
    /\ \/ /\ token' = [token EXCEPT ![doc(c)] = Empty]
          /\ Goto(c, "storeWrite")
          /\ UNCHANGED session
       \/ End(c, "failed") /\ CloseSession /\ UNCHANGED token
    /\ UNCHANGED <<holderKey, file, issuer, verifier, enrolment>>

\* store_sd_jwt: then it is written, and kept when that fails.
StoreWrite(c) ==
    /\ cl[c].pc = "storeWrite"
    /\ \/ /\ token' = [token EXCEPT ![doc(c)] = cl[c].tok]
          /\ End(c, "stored")
          /\ enrolment' = [enrolment EXCEPT
                ![doc(c)] = IF @ = "alone" /\ cl[c].tok \in Token THEN "settled" ELSE @]
       \/ End(c, "failed") /\ UNCHANGED <<token, enrolment>>
    /\ CloseSession
    /\ UNCHANGED <<holderKey, file, issuer, verifier>>

-----------------------------------------------------------------------------
(***************************************************************************)
(* Presentation                                                            *)
(***************************************************************************)
Connect(c) ==
    /\ cl[c].pc = "idle"
    /\ \E x \in Doc : cl' = [cl EXCEPT ![c] = [Ended("none") EXCEPT !.pc = "challenge", !.doc = x]]
    /\ verifier' = Append(verifier, c)
    /\ UNCHANGED <<storage, file, session, issuer, enrolment>>

\* get_random_required_claims: between two and all of the claims.
RequiredClaims == {s \in SUBSET Claim : Cardinality(s) >= 2 \/ s = Claim}

\* start_verifier accepts the connection and sends its challenge.
SendChallenge ==
    /\ verifier # <<>>
    /\ LET c == Head(verifier) IN
       /\ cl[c].pc = "challenge"
       /\ \E s \in RequiredClaims : cl' = [cl EXCEPT ![c].req = s, ![c].pc = "present"]
    /\ UNCHANGED <<storage, file, session, issuer, verifier, enrolment>>

Present(c) ==
    /\ cl[c].pc = "present"
    /\ Open(c, "invoke")
    /\ UNCHANGED <<storage, file, issuer, enrolment>>

\* The disclosures of the token whose names occur in the list of claims.
Disclosed(t, req) ==
    IF t \in Token THEN {x \in t.claims : \E r \in req : x \in NamesIn[r]} ELSE {}

\* The host gives up: it prints no presentation, and the client ends.
NoPresentation(c) ==
    /\ CloseSession
    /\ End(c, "failed")
    /\ verifier' = Leave(verifier, c)

(***************************************************************************)
(* TA_CreatePresentation, invoked a second time by the host with the       *)
(* length the first attempt asked for.  Everything is computed anew.       *)
(***************************************************************************)
CreatePresentation(c) ==
    /\ cl[c].pc \in {"invoke", "retry"}
    /\ LET t == token[doc(c)]
           shown == Disclosed(t, cl[c].req)
           signed == t # Absent /\ holderKey[doc(c)] # Absent
           fits == Cardinality(shown) <= cl[c].size
       IN  \/ NoPresentation(c)
           \/ /\ signed /\ fits
              /\ cl' = [cl EXCEPT ![c].pc = "verdict", ![c].size = InitialBuffer, ![c].req = {},
                                  ![c].key = holderKey[doc(c)],
                                  ![c].tok = IF t \in Token THEN [t EXCEPT !.claims = shown] ELSE t]
              /\ CloseSession
              /\ UNCHANGED verifier
           \/ /\ signed /\ ~fits /\ cl[c].pc = "invoke"
              /\ cl' = [cl EXCEPT ![c].pc = "retry", ![c].size = Cardinality(shown)]
              /\ UNCHANGED <<session, verifier>>
    /\ UNCHANGED <<storage, file, issuer, enrolment>>

\* SDJWTVerifier (external): the issuer's signature, and that of the key the
\* token is bound to.  A claim that was required may be missing.
Accepts(c) == cl[c].tok \in Token /\ cl[c].key = cl[c].tok.key

\* start_verifier answers and closes the connection.
SendVerdict ==
    /\ verifier # <<>>
    /\ LET c == Head(verifier) IN
       /\ cl[c].pc = "verdict"
       /\ End(c, IF Accepts(c) THEN "accepted" ELSE "rejected")
    /\ verifier' = Tail(verifier)
    /\ UNCHANGED <<storage, file, session, issuer, enrolment>>

-----------------------------------------------------------------------------
(***************************************************************************)
(* Environment                                                             *)
(***************************************************************************)

\* A client is killed with its host program, whose session is closed: a
\* command in the TA ends first.  The servers read an empty string from its
\* connection and close it.
Kill(c) ==
    /\ cl[c].pc \notin {"idle", "create", "storeWrite"}
    /\ End(c, "failed")
    /\ session' = IF session = c THEN Nobody ELSE session
    /\ issuer' = Leave(issuer, c)
    /\ verifier' = Leave(verifier, c)
    /\ UNCHANGED <<storage, file, enrolment>>

\* The device restarts; /tmp and the secure storage stay.
PowerLoss ==
    /\ cl' = [c \in Client |-> Ended("failed")]
    /\ session' = Nobody
    /\ issuer' = <<>>
    /\ verifier' = <<>>
    /\ UNCHANGED <<storage, file, enrolment>>

ClientStep(c) ==
    \/ GenKey(c) \/ GenerateKey(c) \/ CreateKey(c) \/ Request(c) \/ WriteFile(c)
    \/ Store(c) \/ Load(c) \/ StoreCreate(c) \/ StoreWrite(c)
    \/ Present(c) \/ CreatePresentation(c)

ServerStep == StartIssuer \/ SendChallenge \/ SendVerdict

Next ==
    \/ \E c \in Client : StartEnrolment(c) \/ Connect(c) \/ ClientStep(c) \/ Kill(c)
    \/ ServerStep
    \/ PowerLoss

\* Every process that can take a step takes it: no call of the code sleeps.
Fairness ==
    /\ \A c \in Client : WF_vars(ClientStep(c))
    /\ WF_vars(StartIssuer)
    /\ WF_vars(SendChallenge \/ SendVerdict)

Spec == Init /\ [][Next]_vars /\ Fairness

-----------------------------------------------------------------------------
(***************************************************************************)
(* Properties                                                              *)
(***************************************************************************)

ClientRecord ==
    [pc : {"idle", "genkey", "generate", "create", "request", "issuer", "truncate", "write",
           "store", "load", "storeCreate", "storeWrite", "challenge", "present", "invoke",
           "retry", "verdict"},
     doc : Doc \union {Absent}, key : Key \union {Absent}, tok : Stored, req : SUBSET Claim,
     size : Nat, out : {"none", "failed", "stored", "accepted", "rejected"}]

\* A run of the client has a document, and once the TA generated it a key.
ClientState ==
    {r \in ClientRecord : /\ r.pc # "idle" => r.doc \in Doc
                          /\ r.pc \in {"create", "request", "issuer"} => r.key \in Key}

Typed ==
    /\ token \in [Doc -> Stored \union {Absent}]
    /\ holderKey \in [Doc -> Key \union {Absent}]
    /\ file \in [Doc -> Stored]
    /\ cl \in [Client -> ClientState]
    /\ enrolment \in [Doc -> {"none", "alone", "mixed", "settled"}]

\* Where the host program of a client has a session.
SessionPoints == {"generate", "create", "load", "storeCreate", "storeWrite", "invoke", "retry"}

\* Where a client has a connection to the verifier.
VerifierPoints == {"challenge", "present", "invoke", "retry", "verdict"}

\* Every variable keeps its type; a session and a connection have an owner
\* that is at a point of the program where it uses them.
TypeOK ==
    /\ Typed
    /\ session \in Client \union {Nobody}
    /\ \A c \in Client :
        /\ session = c <=> cl[c].pc \in SessionPoints
        /\ c \in ToSet(issuer) <=> cl[c].pc = "issuer"
        /\ c \in ToSet(verifier) <=> cl[c].pc \in VerifierPoints

\* An enrolment that ran while no other one of its document did, and whose
\* token was received and stored, leaves a token bound to the key in the
\* TA, until the next enrolment begins: whatever failed, was killed or lost
\* power before, what is presented then is accepted.
SettledIsBound ==
    \A x \in Doc : enrolment[x] = "settled" =>
        token[x] \in Token /\ token[x].key = holderKey[x]

\* The length asked for by the first attempt is enough for the second: no
\* other session changes the token or the key in between.
RetryFits ==
    \A c \in Client : cl[c].pc = "retry" =>
        Cardinality(Disclosed(token[doc(c)], cl[c].req)) = cl[c].size

\* A run of the client ends, although the servers serve one connection at a
\* time without any timeout.
RunsEnd == \A c \in Client : cl[c].pc # "idle" ~> cl[c].pc = "idle"

\* Who enrols a document, as far as its history tells.
Enrolled ==
    \A x \in Doc :
        /\ enrolment[x] \in {"none", "settled"} => \A c \in Client : ~Enrolling(c, x)
        /\ enrolment[x] = "alone" =>
              \A c, k \in Client : Enrolling(c, x) /\ Enrolling(k, x) => c = k

BoundTo(t, k) == t \in Token => t.key = k

\* The way of the key of an enrolment that is alone, from the TA to the
\* issuer and back into the TA.
OnItsWay ==
    \A c \in Client, x \in Doc : enrolment[x] = "alone" /\ Enrolling(c, x) =>
        /\ cl[c].pc \in {"request", "issuer"} => cl[c].key = holderKey[x]
        /\ cl[c].pc \in {"truncate", "write", "storeCreate", "storeWrite"} =>
              BoundTo(cl[c].tok, holderKey[x])
        /\ cl[c].pc \in {"store", "load"} => BoundTo(file[x], holderKey[x])

\* The inductive invariants of SdJwtProofs: of the enrolments, and of the
\* session, which keeps a token as it is while its length is asked for.
IInv == Typed /\ Enrolled /\ OnItsWay /\ SettledIsBound

Exclusive == \A c \in Client : cl[c].pc \in SessionPoints => session = c

SInv == IInv /\ Exclusive /\ RetryFits

\* A client has one connection to a server at most, so that closing it leaves
\* none behind.
Once(q) == q \in Seq(Client) /\ \A i, j \in DOMAIN q : q[i] = q[j] => i = j

\* The inductive invariant of TypeOK, next to IInv.
Owned ==
    /\ session \in Client \union {Nobody}
    /\ Once(issuer) /\ Once(verifier)
    /\ \A c \in Client :
        /\ session = c <=> cl[c].pc \in SessionPoints
        /\ c \in ToSet(issuer) <=> cl[c].pc = "issuer"
        /\ c \in ToSet(verifier) <=> cl[c].pc \in VerifierPoints

=============================================================================
