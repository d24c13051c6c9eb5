---------------------------- MODULE SdJwtProofs ----------------------------
(***************************************************************************)
(* Theorems about SdJwt, for any number of clients, documents, keys and    *)
(* claims: a token whose enrolment was alone is bound to the key the TA    *)
(* holds, through every failure, kill and power loss; the session and      *)
(* every connection have an owner; a retry finds the buffer long enough.   *)
(***************************************************************************)
EXTENDS SdJwt, FiniteSetTheorems, SequenceTheorems, TLAPS

EnrolPoints == {"genkey", "generate", "create", "request", "issuer", "truncate",
                "write", "store", "load", "storeCreate", "storeWrite"}

(***************************************************************************)
(* Values that the actions give to a client.                               *)
(***************************************************************************)
LEMMA EndedType ==
  ASSUME NEW out \in {"none", "failed", "stored", "accepted", "rejected"}
  PROVE  Ended(out) \in ClientState /\ Ended(out).pc = "idle"
  BY SdJwtConstants DEF Ended, ClientState, ClientRecord, Stored

LEMMA ReceivedBound ==
  ASSUME NEW k \in Key, NEW t \in Received([key |-> k, claims |-> Claim]) \union {Empty}
  PROVE  t \in Stored /\ BoundTo(t, k)
<1>1. Broken \notin Token /\ Empty \notin Token
  BY SdJwtConstants DEF Token
<1>2. CASE t \in {Empty, Broken}
  BY <1>1, <1>2 DEF Stored, BoundTo
<1>3. CASE t \notin {Empty, Broken}
  <2>1. PICK s \in SUBSET Claim : t = [key |-> k, claims |-> s]
    BY <1>3 DEF Received
  <2> QED
    BY <2>1 DEF Stored, Token, BoundTo
<1> QED
  BY <1>2, <1>3

LEMMA CountedClaims ==
  ASSUME NEW s \in SUBSET Claim
  PROVE  Cardinality(s) \in Nat
  BY SdJwtConstants, FS_Subset, FS_CardinalityType

(***************************************************************************)
(* A client does something outside an enrolment, or leaves one.            *)
(***************************************************************************)
LEMMA Leaves ==
  ASSUME IInv, NEW c \in Client, NEW r \in ClientState, cl' = [cl EXCEPT ![c] = r],
         r.pc \notin EnrolPoints, UNCHANGED <<token, holderKey, file, enrolment>>
  PROVE  IInv'
<1>1. cl \in [Client -> ClientState]
  BY DEF IInv, Typed
<1>2. \A k \in Client : cl'[k] = IF k = c THEN r ELSE cl[k]
  BY <1>1
<1>3. Typed'
  BY <1>1 DEF IInv, Typed
<1>4. ASSUME NEW k \in Client, NEW x, Enrolling(k, x)'
      PROVE  Enrolling(k, x) /\ cl'[k] = cl[k]
  BY <1>2, <1>4 DEF Enrolling, doc, EnrolPoints
<1>5. Enrolled'
  BY <1>4 DEF IInv, Enrolled
<1>6. OnItsWay'
  BY <1>4 DEF IInv, OnItsWay, BoundTo
<1>7. SettledIsBound'
  BY DEF IInv, SettledIsBound
<1> QED
  BY <1>3, <1>5, <1>6, <1>7 DEF IInv

(***************************************************************************)
(* A client makes a step of its enrolment of x, or gives it up, and        *)
(* changes nothing but what belongs to x.                                  *)
(***************************************************************************)
LEMMA Enrols ==
  ASSUME IInv, NEW c \in Client, NEW x \in Doc, Enrolling(c, x),
         NEW r \in ClientState, cl' = [cl EXCEPT ![c] = r],
         UNCHANGED enrolment,
         token' \in [Doc -> Stored \union {Absent}],
         holderKey' \in [Doc -> Key \union {Absent}],
         file' \in [Doc -> Stored],
         \A y \in Doc \ {x} : /\ token'[y] = token[y]
                              /\ holderKey'[y] = holderKey[y]
                              /\ file'[y] = file[y],
         \/ r.pc \notin EnrolPoints
         \/ /\ r.doc = x
            /\ enrolment[x] = "alone" =>
                 /\ r.pc \in {"request", "issuer"} => r.key = holderKey'[x]
                 /\ r.pc \in {"truncate", "write", "storeCreate", "storeWrite"} =>
                       BoundTo(r.tok, holderKey'[x])
                 /\ r.pc \in {"store", "load"} => BoundTo(file'[x], holderKey'[x])
  PROVE  IInv'
<1>1. cl \in [Client -> ClientState]
  BY DEF IInv, Typed
<1>2. \A k \in Client : cl'[k] = IF k = c THEN r ELSE cl[k]
  BY <1>1
<1>3. Typed'
  BY <1>1 DEF IInv, Typed
<1>4. ASSUME NEW k \in Client, NEW y, Enrolling(k, y)'
      PROVE  Enrolling(k, y) /\ (k # c => cl'[k] = cl[k]) /\ (k = c => y = x /\ cl'[k] = r
                                                                     /\ r.pc \in EnrolPoints)
  BY <1>2, <1>4 DEF Enrolling, doc, EnrolPoints
<1>5. Enrolled'
  BY <1>4 DEF IInv, Enrolled
<1>6. OnItsWay'
  <2> SUFFICES ASSUME NEW k \in Client, NEW y \in Doc, enrolment[y] = "alone", Enrolling(k, y)'
               PROVE  /\ cl'[k].pc \in {"request", "issuer"} => cl'[k].key = holderKey'[y]
                      /\ cl'[k].pc \in {"truncate", "write", "storeCreate", "storeWrite"} =>
                            BoundTo(cl'[k].tok, holderKey'[y])
                      /\ cl'[k].pc \in {"store", "load"} => BoundTo(file'[y], holderKey'[y])
    BY DEF OnItsWay, BoundTo
  <2>1. CASE k = c
    BY <1>4, <2>1
  <2>2. CASE k # c
    <3>1. Enrolling(k, y) /\ cl'[k] = cl[k]
      BY <1>4, <2>2
    <3>2. y # x
      BY <2>2, <3>1 DEF IInv, Enrolled
    <3> QED
      BY <3>1, <3>2 DEF IInv, OnItsWay
  <2> QED
    BY <2>1, <2>2
<1>7. SettledIsBound'
  <2>1. enrolment[x] # "settled"
    BY DEF IInv, Enrolled
  <2> QED
    BY <2>1 DEF IInv, SettledIsBound
<1> QED
  BY <1>3, <1>5, <1>6, <1>7 DEF IInv

(***************************************************************************)
(* The two ways every program may go: it ends, or opens its session.       *)
(***************************************************************************)
LEMMA Ends ==
  ASSUME IInv, NEW c \in Client, UNCHANGED <<token, holderKey, file, enrolment>>,
         NEW out \in {"none", "failed", "stored", "accepted", "rejected"}, End(c, out)
  PROVE  IInv'
  BY EndedType, Leaves DEF End, EnrolPoints

LEMMA InEnrolment ==
  ASSUME IInv, NEW c \in Client, cl[c].pc \in EnrolPoints
  PROVE  /\ cl \in [Client -> ClientState] /\ cl[c] \in ClientState
         /\ doc(c) \in Doc /\ Enrolling(c, doc(c))
<1>1. cl[c] \in ClientState /\ cl \in [Client -> ClientState]
  BY DEF IInv, Typed
<1> QED
  BY <1>1 DEF Enrolling, EnrolPoints, ClientState, doc

(***************************************************************************)
(* The client goes on, with nothing changed but its point and its values.  *)
(***************************************************************************)
LEMMA GoesOn ==
  ASSUME IInv, NEW c \in Client, cl[c].pc \in EnrolPoints, NEW pc, Goto(c, pc),
         <<cl[c].pc, pc>> \in {<<"genkey", "generate">>, <<"request", "issuer">>,
                               <<"store", "load">>},
         UNCHANGED <<token, holderKey, file, enrolment>>
  PROVE  IInv'
<1> DEFINE x == doc(c)
           r == [cl[c] EXCEPT !.pc = pc]
<1>1. /\ cl \in [Client -> ClientState] /\ cl[c] \in ClientState
      /\ x \in Doc /\ Enrolling(c, x)
  BY InEnrolment
<1>2. r \in ClientState /\ r.doc = x /\ r.pc = pc /\ r.key = cl[c].key /\ r.tok = cl[c].tok
  BY <1>1 DEF ClientState, ClientRecord, doc
<1>3. cl' = [cl EXCEPT ![c] = r]
  BY <1>1 DEF Goto
<1>4. /\ token' \in [Doc -> Stored \union {Absent}] /\ holderKey' \in [Doc -> Key \union {Absent}]
      /\ file' \in [Doc -> Stored]
  BY DEF IInv, Typed
<1>5. enrolment[x] = "alone" =>
        /\ pc = "issuer" => cl[c].key = holderKey'[x]
        /\ pc = "load" => BoundTo(file'[x], holderKey'[x])
  BY <1>1 DEF IInv, OnItsWay
<1> HIDE DEF x, r
<1> QED
  BY <1>1, <1>2, <1>3, <1>4, <1>5, Enrols

(***************************************************************************)
(* Enrolment, one lemma per step of the program that is not a move only.   *)
(***************************************************************************)
LEMMA StartEnrolmentKeeps ==
  ASSUME IInv, NEW c \in Client, StartEnrolment(c)
  PROVE  IInv'
<1>1. PICK x \in Doc :
        /\ cl' = [cl EXCEPT ![c] = [Ended("none") EXCEPT !.pc = "genkey", !.doc = x]]
        /\ enrolment' = [enrolment EXCEPT
              ![x] = IF \E k \in Client : Enrolling(k, x) THEN "mixed" ELSE "alone"]
  BY DEF StartEnrolment
<1> DEFINE r == [Ended("none") EXCEPT !.pc = "genkey", !.doc = x]
<1>2. r \in ClientState /\ r.doc = x /\ r.pc = "genkey"
  BY EndedType DEF ClientState, ClientRecord
<1>3. cl \in [Client -> ClientState] /\ cl[c].pc = "idle" /\ ~Enrolling(c, x)
      /\ enrolment \in [Doc -> {"none", "alone", "mixed", "settled"}]
      /\ UNCHANGED <<token, holderKey, file>>
  BY DEF IInv, Typed, StartEnrolment, storage, Enrolling
<1> HIDE DEF r
<1>4. \A k \in Client : cl'[k] = IF k = c THEN r ELSE cl[k]
  BY <1>1, <1>3 DEF r
<1>5. Typed'
  <2>1. cl' \in [Client -> ClientState]
    BY <1>1, <1>2, <1>3 DEF r
  <2>2. enrolment' \in [Doc -> {"none", "alone", "mixed", "settled"}]
    BY <1>1, <1>3
  <2> QED
    BY <1>3, <2>1, <2>2 DEF IInv, Typed
<1>6. \A k \in Client, y \in Doc : Enrolling(k, y)' <=> (IF k = c THEN y = x ELSE Enrolling(k, y))
  BY <1>2, <1>4 DEF Enrolling, doc
<1>7. \A y \in Doc \ {x} : enrolment'[y] = enrolment[y]
  BY <1>1, <1>3
<1>8. enrolment'[x] = IF \E k \in Client : Enrolling(k, x) THEN "mixed" ELSE "alone"
  BY <1>1, <1>3
<1>9. \A y \in Doc \ {x} : ~Enrolling(c, y)
  BY <1>3 DEF Enrolling
<1>10. Enrolled'
  BY <1>3, <1>6, <1>7, <1>8, <1>9 DEF IInv, Enrolled
<1>11. OnItsWay'
  <2> SUFFICES ASSUME NEW k \in Client, NEW y \in Doc, enrolment'[y] = "alone", Enrolling(k, y)'
               PROVE  /\ cl'[k].pc \in {"request", "issuer"} => cl'[k].key = holderKey[y]
                      /\ cl'[k].pc \in {"truncate", "write", "storeCreate", "storeWrite"} =>
                            BoundTo(cl'[k].tok, holderKey[y])
                      /\ cl'[k].pc \in {"store", "load"} => BoundTo(file[y], holderKey[y])
    BY <1>3 DEF OnItsWay, BoundTo
  <2>1. CASE k = c
    BY <1>2, <1>4, <2>1
  <2>2. CASE k # c
    <3>1. Enrolling(k, y) /\ cl'[k] = cl[k]
      BY <1>4, <1>6, <2>2
    <3>2. y # x /\ enrolment[y] = "alone"
      BY <1>7, <1>8, <3>1
    <3> QED
      BY <3>1, <3>2 DEF IInv, OnItsWay
  <2> QED
    BY <2>1, <2>2
<1>12. SettledIsBound'
  BY <1>3, <1>7, <1>8 DEF IInv, SettledIsBound
<1> QED
  BY <1>5, <1>10, <1>11, <1>12 DEF IInv

LEMMA GenerateKeyKeeps ==
  ASSUME IInv, NEW c \in Client, GenerateKey(c)
  PROVE  IInv'
<1> DEFINE x == doc(c)
<1>1. cl[c].pc \in EnrolPoints /\ UNCHANGED <<token, file, enrolment>>
  BY DEF GenerateKey, EnrolPoints
<1>2. /\ cl \in [Client -> ClientState] /\ cl[c] \in ClientState
      /\ x \in Doc /\ Enrolling(c, x)
  BY <1>1, InEnrolment
<1>3. CASE End(c, "failed") /\ UNCHANGED holderKey
  BY <1>1, <1>3, Ends
<1>4. CASE /\ \E k \in Key \ UsedKeys : cl' = [cl EXCEPT ![c].key = k, ![c].pc = "create"]
           /\ holderKey' \in {holderKey, [holderKey EXCEPT ![x] = Absent]}
  <2>1. PICK k \in Key : cl' = [cl EXCEPT ![c].key = k, ![c].pc = "create"]
    BY <1>4
  <2> DEFINE r == [cl[c] EXCEPT !.key = k, !.pc = "create"]
  <2>2. r \in ClientState /\ r.doc = x /\ r.pc = "create"
    BY <1>2 DEF ClientState, ClientRecord, doc
  <2>3. cl' = [cl EXCEPT ![c] = r]
    BY <1>2, <2>1
  <2>4. /\ token' \in [Doc -> Stored \union {Absent}] /\ file' \in [Doc -> Stored]
        /\ token' = token /\ file' = file
    BY <1>1 DEF IInv, Typed
  <2>5. /\ holderKey' \in [Doc -> Key \union {Absent}]
        /\ \A y \in Doc \ {x} : holderKey'[y] = holderKey[y]
    BY <1>4 DEF IInv, Typed
  <2> HIDE DEF x, r
  <2> QED
    BY <1>1, <1>2, <2>2, <2>3, <2>4, <2>5, Enrols
<1> QED
  BY <1>3, <1>4 DEF GenerateKey

LEMMA CreateKeyKeeps ==
  ASSUME IInv, NEW c \in Client, CreateKey(c)
  PROVE  IInv'
<1> DEFINE x == doc(c)
<1>1. cl[c].pc \in EnrolPoints /\ cl[c].pc = "create" /\ UNCHANGED <<token, file, enrolment>>
  BY DEF CreateKey, EnrolPoints
<1>2. /\ cl \in [Client -> ClientState] /\ cl[c] \in ClientState
      /\ x \in Doc /\ Enrolling(c, x)
  BY <1>1, InEnrolment
<1>3. CASE End(c, "failed") /\ UNCHANGED holderKey
  BY <1>1, <1>3, Ends
<1>4. CASE holderKey' = [holderKey EXCEPT ![x] = cl[c].key] /\ Goto(c, "request")
  <2> DEFINE r == [cl[c] EXCEPT !.pc = "request"]
  <2>1. r \in ClientState /\ r.doc = x /\ r.pc = "request" /\ r.key = cl[c].key /\ r.key \in Key
    BY <1>1, <1>2 DEF ClientState, ClientRecord, doc
  <2>2. cl' = [cl EXCEPT ![c] = r]
    BY <1>2, <1>4 DEF Goto
  <2>3. /\ token' \in [Doc -> Stored \union {Absent}] /\ file' \in [Doc -> Stored]
        /\ token' = token /\ file' = file
    BY <1>1 DEF IInv, Typed
  <2>4. /\ holderKey' \in [Doc -> Key \union {Absent}] /\ holderKey'[x] = cl[c].key
        /\ \A y \in Doc \ {x} : holderKey'[y] = holderKey[y]
    BY <1>2, <1>4, <2>1 DEF IInv, Typed
  <2> HIDE DEF x, r
  <2> QED
    BY <1>1, <1>2, <2>1, <2>2, <2>3, <2>4, Enrols
<1> QED
  BY <1>3, <1>4 DEF CreateKey

\* A connection whose client is gone changes nothing that the invariant
\* reads: the queues need no invariant of their own.
LEMMA Unchanged ==
  ASSUME IInv, UNCHANGED <<token, holderKey, file, cl, enrolment>>
  PROVE  IInv'
  BY DEF IInv, Typed, Enrolled, OnItsWay, SettledIsBound, Enrolling, doc, BoundTo

LEMMA StartIssuerKeeps ==
  ASSUME IInv, StartIssuer
  PROVE  IInv'
<1> DEFINE c == Head(issuer)
           x == doc(c)
<1>1. PICK t \in Received([key |-> cl[c].key, claims |-> Claim]) \union {Empty} :
        cl' = [cl EXCEPT ![c].tok = t, ![c].key = Absent, ![c].pc = "truncate"]
  BY DEF StartIssuer
<1>2. cl[c].pc = "issuer" /\ cl[c].pc \in EnrolPoints
      /\ UNCHANGED <<token, holderKey, file, enrolment>>
  BY DEF StartIssuer, EnrolPoints, storage
<1>3. CASE c \in Client
  <2> DEFINE r == [cl[c] EXCEPT !.tok = t, !.key = Absent, !.pc = "truncate"]
  <2>1. /\ cl \in [Client -> ClientState] /\ cl[c] \in ClientState
        /\ x \in Doc /\ Enrolling(c, x)
    BY <1>2, <1>3, InEnrolment
  <2>2. cl[c].key \in Key
    BY <1>2, <2>1 DEF ClientState
  <2>3. t \in Stored /\ BoundTo(t, cl[c].key)
    BY <1>1, <2>2, ReceivedBound
  <2>4. r \in ClientState /\ r.doc = x /\ r.pc = "truncate" /\ r.tok = t
    BY <2>1, <2>3 DEF ClientState, ClientRecord, doc
  <2>5. cl' = [cl EXCEPT ![c] = r]
    BY <1>1, <2>1
  <2>6. enrolment[x] = "alone" => cl[c].key = holderKey[x]
    BY <1>2, <1>3, <2>1 DEF IInv, OnItsWay
  <2>7. /\ token' \in [Doc -> Stored \union {Absent}] /\ holderKey' \in [Doc -> Key \union {Absent}]
        /\ file' \in [Doc -> Stored]
    BY <1>2 DEF IInv, Typed
  <2> HIDE DEF c, x, r
  <2> QED
    BY <1>2, <1>3, <2>1, <2>3, <2>4, <2>5, <2>6, <2>7, Enrols
<1>4. CASE c \notin Client
  <2>1. cl' = cl
    BY <1>1, <1>4 DEF IInv, Typed
  <2> QED
    BY <1>2, <2>1, Unchanged
<1> QED
  BY <1>3, <1>4

LEMMA WriteFileKeeps ==
  ASSUME IInv, NEW c \in Client, WriteFile(c)
  PROVE  IInv'
<1> DEFINE x == doc(c)
<1>1. /\ cl[c].pc \in {"truncate", "write"} /\ cl[c].pc \in EnrolPoints
      /\ UNCHANGED <<token, holderKey, enrolment>>
  BY DEF WriteFile, EnrolPoints, storage
<1>2. /\ cl \in [Client -> ClientState] /\ cl[c] \in ClientState
      /\ x \in Doc /\ Enrolling(c, x)
  BY <1>1, InEnrolment
<1>3. enrolment[x] = "alone" => BoundTo(cl[c].tok, holderKey[x])
  BY <1>1, <1>2 DEF IInv, OnItsWay
<1>4. /\ token' \in [Doc -> Stored \union {Absent}] /\ holderKey' \in [Doc -> Key \union {Absent}]
      /\ token' = token /\ holderKey' = holderKey
  BY <1>1 DEF IInv, Typed
<1>5. CASE cl[c].pc = "truncate"
  <2> DEFINE r == [cl[c] EXCEPT !.pc = "write"]
  <2>1. r \in ClientState /\ r.doc = x /\ r.pc = "write" /\ r.tok = cl[c].tok
    BY <1>2 DEF ClientState, ClientRecord, doc
  <2>2. cl' = [cl EXCEPT ![c] = r]
    BY <1>2, <1>5 DEF WriteFile
  <2>3. file' \in [Doc -> Stored] /\ \A y \in Doc \ {x} : file'[y] = file[y]
    BY <1>2, <1>5 DEF WriteFile, IInv, Typed, Stored
  <2> HIDE DEF x, r
  <2> QED
    BY <1>1, <1>2, <1>3, <1>4, <2>1, <2>2, <2>3, Enrols
<1>6. CASE cl[c].pc = "write"
  <2> DEFINE r == [cl[c] EXCEPT !.pc = "store", !.tok = Empty]
  <2>1. r \in ClientState /\ r.doc = x /\ r.pc = "store"
    BY <1>2 DEF ClientState, ClientRecord, doc, Stored
  <2>2. cl' = [cl EXCEPT ![c] = r]
    BY <1>2, <1>6 DEF WriteFile
  <2>3. cl[c].tok \in Stored
    BY <1>2 DEF ClientState, ClientRecord
  <2>4. /\ file' \in [Doc -> Stored] /\ \A y \in Doc \ {x} : file'[y] = file[y]
        /\ file'[x] = cl[c].tok
    BY <1>2, <1>6, <2>3 DEF WriteFile, IInv, Typed
  <2> HIDE DEF x, r
  <2> QED
    BY <1>1, <1>2, <1>3, <1>4, <2>1, <2>2, <2>4, Enrols
<1> QED
  BY <1>1, <1>5, <1>6

LEMMA LoadKeeps ==
  ASSUME IInv, NEW c \in Client, Load(c)
  PROVE  IInv'
<1> DEFINE x == doc(c)
<1>1. /\ cl[c].pc = "load" /\ cl[c].pc \in EnrolPoints
      /\ UNCHANGED <<token, holderKey, file, enrolment>>
  BY DEF Load, EnrolPoints, storage
<1>2. /\ cl \in [Client -> ClientState] /\ cl[c] \in ClientState
      /\ x \in Doc /\ Enrolling(c, x)
  BY <1>1, InEnrolment
<1>3. CASE End(c, "failed")
  BY <1>1, <1>3, Ends
<1>4. ASSUME NEW t \in {file[x], Empty},
             cl' = [cl EXCEPT ![c].tok = t, ![c].pc = "storeCreate"]
      PROVE  IInv'
  <2> DEFINE r == [cl[c] EXCEPT !.tok = t, !.pc = "storeCreate"]
  <2>1. t \in Stored
    BY <1>2 DEF IInv, Typed, Stored
  <2>2. r \in ClientState /\ r.doc = x /\ r.pc = "storeCreate" /\ r.tok = t
    BY <1>2, <2>1 DEF ClientState, ClientRecord, doc
  <2>3. cl' = [cl EXCEPT ![c] = r]
    BY <1>2, <1>4
  <2>4. enrolment[x] = "alone" => BoundTo(file[x], holderKey[x])
    BY <1>1, <1>2 DEF IInv, OnItsWay
  <2>5. BoundTo(Empty, holderKey[x])
    BY SdJwtConstants DEF BoundTo, Token
  <2>6. /\ token' \in [Doc -> Stored \union {Absent}] /\ holderKey' \in [Doc -> Key \union {Absent}]
        /\ file' \in [Doc -> Stored]
    BY <1>1 DEF IInv, Typed
  <2> HIDE DEF x, r
  <2> QED
    BY <1>1, <1>2, <2>2, <2>3, <2>4, <2>5, <2>6, Enrols
<1> QED
  BY <1>3, <1>4 DEF Load

LEMMA StoreCreateKeeps ==
  ASSUME IInv, NEW c \in Client, StoreCreate(c)
  PROVE  IInv'
<1> DEFINE x == doc(c)
<1>1. /\ cl[c].pc = "storeCreate" /\ cl[c].pc \in EnrolPoints
      /\ UNCHANGED <<holderKey, file, enrolment>>
  BY DEF StoreCreate, EnrolPoints
<1>2. /\ cl \in [Client -> ClientState] /\ cl[c] \in ClientState
      /\ x \in Doc /\ Enrolling(c, x)
  BY <1>1, InEnrolment
<1>3. CASE End(c, "failed") /\ UNCHANGED token
  BY <1>1, <1>3, Ends
<1>4. CASE token' = [token EXCEPT ![x] = Empty] /\ Goto(c, "storeWrite")
  <2> DEFINE r == [cl[c] EXCEPT !.pc = "storeWrite"]
  <2>1. r \in ClientState /\ r.doc = x /\ r.pc = "storeWrite" /\ r.tok = cl[c].tok
    BY <1>2 DEF ClientState, ClientRecord, doc
  <2>2. cl' = [cl EXCEPT ![c] = r]
    BY <1>2, <1>4 DEF Goto
  <2>3. enrolment[x] = "alone" => BoundTo(cl[c].tok, holderKey[x])
    BY <1>1, <1>2 DEF IInv, OnItsWay
  <2>4. /\ token' \in [Doc -> Stored \union {Absent}]
        /\ \A y \in Doc \ {x} : token'[y] = token[y]
        /\ holderKey' \in [Doc -> Key \union {Absent}] /\ file' \in [Doc -> Stored]
        /\ holderKey' = holderKey /\ file' = file
    BY <1>1, <1>4 DEF IInv, Typed, Stored
  <2> HIDE DEF x, r
  <2> QED
    BY <1>1, <1>2, <2>1, <2>2, <2>3, <2>4, Enrols
<1> QED
  BY <1>3, <1>4 DEF StoreCreate

(***************************************************************************)
(* The last step of an enrolment, the only one that makes it settled: the  *)
(* token written came from the issuer with the key the TA holds.           *)
(***************************************************************************)
LEMMA StoreWriteKeeps ==
  ASSUME IInv, NEW c \in Client, StoreWrite(c)
  PROVE  IInv'
<1> DEFINE x == doc(c)
<1>1. cl[c].pc = "storeWrite" /\ cl[c].pc \in EnrolPoints /\ UNCHANGED <<holderKey, file>>
  BY DEF StoreWrite, EnrolPoints
<1>2. /\ cl \in [Client -> ClientState] /\ cl[c] \in ClientState
      /\ x \in Doc /\ Enrolling(c, x)
  BY <1>1, InEnrolment
<1>3. CASE End(c, "failed") /\ UNCHANGED <<token, enrolment>>
  BY <1>1, <1>3, Ends
<1>4. CASE /\ token' = [token EXCEPT ![x] = cl[c].tok]
           /\ End(c, "stored")
           /\ enrolment' = [enrolment EXCEPT
                 ![x] = IF @ = "alone" /\ cl[c].tok \in Token THEN "settled" ELSE @]
  <2>1. cl[c].tok \in Stored
    BY <1>2 DEF ClientState, ClientRecord
  <2>2. \A k \in Client : cl'[k] = IF k = c THEN Ended("stored") ELSE cl[k]
    BY <1>2, <1>4 DEF End
  <2>3. \A k \in Client : \A y : Enrolling(k, y)' => Enrolling(k, y) /\ k # c /\ cl'[k] = cl[k]
    BY <2>2, EndedType DEF Enrolling, doc
  <2>4. \A y \in Doc \ {x} : token'[y] = token[y] /\ enrolment'[y] = enrolment[y]
    BY <1>4 DEF IInv, Typed
  <2>5. /\ token'[x] = cl[c].tok
        /\ enrolment'[x] = IF enrolment[x] = "alone" /\ cl[c].tok \in Token
                           THEN "settled" ELSE enrolment[x]
    BY <1>2, <1>4 DEF IInv, Typed
  <2>6. enrolment[x] \notin {"none", "settled"}
    BY <1>2 DEF IInv, Enrolled
  <2>7. enrolment[x] = "alone" =>
           /\ BoundTo(cl[c].tok, holderKey[x])
           /\ \A k \in Client : Enrolling(k, x) => k = c
    BY <1>1, <1>2 DEF IInv, OnItsWay, Enrolled
  <2>8. Typed'
    <3>1. cl' \in [Client -> ClientState]
      BY <1>2, <1>4, EndedType DEF End
    <3>2. token' \in [Doc -> Stored \union {Absent}]
      BY <1>4, <2>1 DEF IInv, Typed
    <3>3. enrolment' \in [Doc -> {"none", "alone", "mixed", "settled"}]
      BY <1>4 DEF IInv, Typed
    <3> QED
      BY <1>1, <3>1, <3>2, <3>3 DEF IInv, Typed
  <2> HIDE DEF x
  <2>9. Enrolled'
    BY <2>3, <2>4, <2>5, <2>6, <2>7 DEF IInv, Enrolled
  <2>10. OnItsWay'
    <3> SUFFICES ASSUME NEW k \in Client, NEW y \in Doc, enrolment'[y] = "alone",
                        Enrolling(k, y)'
                 PROVE  /\ cl'[k].pc \in {"request", "issuer"} => cl'[k].key = holderKey[y]
                        /\ cl'[k].pc \in {"truncate", "write", "storeCreate", "storeWrite"} =>
                              BoundTo(cl'[k].tok, holderKey[y])
                        /\ cl'[k].pc \in {"store", "load"} => BoundTo(file[y], holderKey[y])
      BY <1>1 DEF OnItsWay, BoundTo
    <3>1. enrolment[y] = "alone" /\ Enrolling(k, y) /\ cl'[k] = cl[k]
      BY <2>3, <2>4, <2>5
    <3> QED
      BY <3>1 DEF IInv, OnItsWay
  <2>11. SettledIsBound'
    <3> SUFFICES ASSUME NEW y \in Doc, enrolment'[y] = "settled"
                 PROVE  token'[y] \in Token /\ token'[y].key = holderKey[y]
      BY <1>1 DEF SettledIsBound
    <3>1. CASE y = x
      BY <2>5, <2>6, <2>7, <3>1 DEF BoundTo
    <3>2. CASE y # x
      BY <2>4, <3>2 DEF IInv, SettledIsBound
    <3> QED
      BY <3>1, <3>2
  <2> QED
    BY <2>8, <2>9, <2>10, <2>11 DEF IInv
<1> QED
  BY <1>3, <1>4 DEF StoreWrite

(***************************************************************************)
(* Presentation: what the client or the verifier does leaves every         *)
(* enrolment alone.                                                        *)
(***************************************************************************)
LEMMA ConnectKeeps ==
  ASSUME IInv, NEW c \in Client, Connect(c)
  PROVE  IInv'
<1>1. PICK x \in Doc :
        cl' = [cl EXCEPT ![c] = [Ended("none") EXCEPT !.pc = "challenge", !.doc = x]]
  BY DEF Connect
<1> DEFINE r == [Ended("none") EXCEPT !.pc = "challenge", !.doc = x]
<1>2. r \in ClientState /\ r.pc = "challenge"
  BY EndedType DEF ClientState, ClientRecord
<1> HIDE DEF r
<1> QED
  BY <1>1, <1>2, Leaves DEF Connect, storage, r, EnrolPoints

LEMMA SendChallengeKeeps ==
  ASSUME IInv, SendChallenge
  PROVE  IInv'
<1> DEFINE c == Head(verifier)
<1>1. PICK s \in SUBSET Claim : cl' = [cl EXCEPT ![c].req = s, ![c].pc = "present"]
  BY DEF SendChallenge, RequiredClaims
<1>2. cl[c].pc = "challenge" /\ UNCHANGED <<token, holderKey, file, enrolment>>
  BY DEF SendChallenge, storage
<1>3. cl \in [Client -> ClientState]
  BY DEF IInv, Typed
<1>4. CASE c \in Client
  <2> DEFINE r == [cl[c] EXCEPT !.req = s, !.pc = "present"]
  <2>1. r \in ClientState /\ r.pc = "present"
    BY <1>2, <1>3, <1>4 DEF ClientState, ClientRecord
  <2>2. cl' = [cl EXCEPT ![c] = r]
    BY <1>1, <1>3
  <2> HIDE DEF c, r
  <2> QED
    BY <1>2, <1>4, <2>1, <2>2, Leaves DEF EnrolPoints
<1>5. CASE c \notin Client
  <2>1. cl' = cl
    BY <1>1, <1>3, <1>5
  <2> QED
    BY <1>2, <2>1, Unchanged
<1> QED
  BY <1>4, <1>5

LEMMA PresentKeeps ==
  ASSUME IInv, NEW c \in Client, Present(c)
  PROVE  IInv'
<1>1. cl[c].pc = "present" /\ UNCHANGED <<token, holderKey, file, enrolment>>
  BY DEF Present, storage
<1>2. CASE End(c, "failed")
  BY <1>1, <1>2, Ends
<1>3. CASE Goto(c, "invoke")
  <2> DEFINE r == [cl[c] EXCEPT !.pc = "invoke"]
  <2>1. cl \in [Client -> ClientState]
    BY DEF IInv, Typed
  <2>2. r \in ClientState /\ r.pc = "invoke"
    BY <1>1, <2>1 DEF ClientState, ClientRecord
  <2>3. cl' = [cl EXCEPT ![c] = r]
    BY <1>3, <2>1 DEF Goto
  <2> HIDE DEF r
  <2> QED
    BY <1>1, <2>2, <2>3, Leaves DEF EnrolPoints
<1> QED
  BY <1>2, <1>3 DEF Present, Open

LEMMA CreatePresentationKeeps ==
  ASSUME IInv, NEW c \in Client, CreatePresentation(c)
  PROVE  IInv'
<1> DEFINE t == token[doc(c)]
           shown == Disclosed(t, cl[c].req)
           shownToken == IF t \in Token THEN [t EXCEPT !.claims = shown] ELSE t
<1>1. /\ cl[c].pc \in {"invoke", "retry"}
      /\ UNCHANGED <<token, holderKey, file, enrolment>>
  BY DEF CreatePresentation, storage
<1>2. /\ cl \in [Client -> ClientState] /\ cl[c] \in ClientState /\ doc(c) \in Doc
      /\ holderKey[doc(c)] \in Key \union {Absent}
      /\ t \in Stored \union {Absent}
  BY <1>1 DEF IInv, Typed, ClientState, doc
<1>3. shown \in SUBSET Claim
  <2>1. t \in Token => t.claims \in SUBSET Claim
    BY DEF Token
  <2> QED
    BY <2>1 DEF Disclosed
<1>4. Cardinality(shown) \in Nat
  BY <1>3, CountedClaims
<1>5. t # Absent => shownToken \in Stored
  BY <1>2, <1>3 DEF Stored, Token
<1> HIDE DEF t, shown, shownToken
<1>6. CASE NoPresentation(c)
  BY <1>1, <1>6, Ends DEF NoPresentation
<1>7. CASE /\ t # Absent
           /\ cl' = [cl EXCEPT ![c].pc = "verdict", ![c].size = InitialBuffer, ![c].req = {},
                               ![c].key = holderKey[doc(c)], ![c].tok = shownToken]
  <2> DEFINE r == [cl[c] EXCEPT !.pc = "verdict", !.size = InitialBuffer, !.req = {},
                                !.key = holderKey[doc(c)], !.tok = shownToken]
  <2>1. InitialBuffer \in Nat
    BY SdJwtConstants
  <2>2. r \in ClientState /\ r.pc = "verdict"
    BY <1>1, <1>2, <1>5, <1>7, <2>1 DEF ClientState, ClientRecord
  <2>3. cl' = [cl EXCEPT ![c] = r]
    BY <1>2, <1>7
  <2> HIDE DEF r
  <2> QED
    BY <1>1, <2>2, <2>3, Leaves DEF EnrolPoints
<1>8. CASE cl' = [cl EXCEPT ![c].pc = "retry", ![c].size = Cardinality(shown)]
  <2> DEFINE r == [cl[c] EXCEPT !.pc = "retry", !.size = Cardinality(shown)]
  <2>1. r \in ClientState /\ r.pc = "retry"
    BY <1>1, <1>2, <1>4 DEF ClientState, ClientRecord
  <2>2. cl' = [cl EXCEPT ![c] = r]
    BY <1>2, <1>8
  <2> HIDE DEF r
  <2> QED
    BY <1>1, <2>1, <2>2, Leaves DEF EnrolPoints
<1> QED
  BY <1>6, <1>7, <1>8 DEF CreatePresentation, t, shown, shownToken

LEMMA SendVerdictKeeps ==
  ASSUME IInv, SendVerdict
  PROVE  IInv'
<1> DEFINE c == Head(verifier)
<1>1. UNCHANGED <<token, holderKey, file, enrolment>>
  BY DEF SendVerdict, storage
<1>2. PICK out \in {"accepted", "rejected"} : End(c, out)
  BY DEF SendVerdict
<1>3. CASE c \in Client
  BY <1>1, <1>2, <1>3, Ends
<1>4. CASE c \notin Client
  <2>1. cl' = cl
    BY <1>2, <1>4 DEF End, IInv, Typed
  <2> QED
    BY <1>1, <2>1, Unchanged
<1> QED
  BY <1>3, <1>4

(***************************************************************************)
(* Every step keeps the invariant.                                         *)
(***************************************************************************)
LEMMA InitIInv == Init => IInv
<1> SUFFICES ASSUME Init PROVE IInv
  OBVIOUS
<1>1. Ended("none") \in ClientState /\ Ended("none").pc = "idle"
  BY EndedType
<1>2. cl = [c \in Client |-> Ended("none")]
  BY DEF Init
<1>3. \A c \in Client : cl[c].pc = "idle"
  BY <1>1, <1>2
<1>4. Typed
  BY <1>1 DEF Init, Typed, Stored
<1>5. \A c \in Client : \A x : ~Enrolling(c, x)
  BY <1>3 DEF Enrolling
<1>6. SettledIsBound
  BY DEF Init, SettledIsBound
<1> QED
  BY <1>4, <1>5, <1>6 DEF IInv, Enrolled, OnItsWay

LEMMA PowerLossKeeps ==
  ASSUME IInv, PowerLoss
  PROVE  IInv'
<1>1. Ended("failed") \in ClientState /\ Ended("failed").pc = "idle"
  BY EndedType
<1>2. cl' = [c \in Client |-> Ended("failed")] /\ UNCHANGED <<token, holderKey, file, enrolment>>
  BY DEF PowerLoss, storage
<1>3. \A c \in Client : cl'[c].pc = "idle"
  BY <1>1, <1>2
<1>4. \A c \in Client : \A x : ~Enrolling(c, x)'
  BY <1>3 DEF Enrolling
<1>5. Typed'
  BY <1>1, <1>2 DEF IInv, Typed
<1>6. SettledIsBound'
  BY <1>2 DEF IInv, SettledIsBound
<1> QED
  BY <1>4, <1>5, <1>6 DEF IInv, Enrolled, OnItsWay

LEMMA NextIInv == IInv /\ [Next]_vars => IInv'
<1> SUFFICES ASSUME IInv, [Next]_vars PROVE IInv'
  OBVIOUS
<1>1. ASSUME NEW c \in Client, StartEnrolment(c) \/ Connect(c)
      PROVE  IInv'
  BY <1>1, StartEnrolmentKeeps, ConnectKeeps
<1>2. ASSUME NEW c \in Client, GenKey(c) \/ Store(c)
      PROVE  IInv'
  <2>1. cl[c].pc \in EnrolPoints /\ UNCHANGED <<token, holderKey, file, enrolment>>
    BY <1>2 DEF GenKey, Store, EnrolPoints, storage
  <2>2. CASE End(c, "failed")
    BY <2>1, <2>2, Ends
  <2>3. CASE \/ cl[c].pc = "genkey" /\ Goto(c, "generate")
             \/ cl[c].pc = "store" /\ Goto(c, "load")
    BY <2>1, <2>3, GoesOn
  <2> QED
    BY <1>2, <2>2, <2>3 DEF GenKey, Store, Open
<1>3. ASSUME NEW c \in Client, Request(c)
      PROVE  IInv'
  <2>1. /\ cl[c].pc = "request" /\ cl[c].pc \in EnrolPoints /\ Goto(c, "issuer")
        /\ UNCHANGED <<token, holderKey, file, enrolment>>
    BY <1>3 DEF Request, EnrolPoints, storage
  <2> QED
    BY <2>1, GoesOn
<1>4. ASSUME NEW c \in Client, GenerateKey(c) \/ CreateKey(c) \/ WriteFile(c)
      PROVE  IInv'
  BY <1>4, GenerateKeyKeeps, CreateKeyKeeps, WriteFileKeeps
<1>5. ASSUME NEW c \in Client, Load(c) \/ StoreCreate(c) \/ StoreWrite(c)
      PROVE  IInv'
  BY <1>5, LoadKeeps, StoreCreateKeeps, StoreWriteKeeps
<1>6. ASSUME NEW c \in Client, Present(c) \/ CreatePresentation(c)
      PROVE  IInv'
  BY <1>6, PresentKeeps, CreatePresentationKeeps
<1>7. ASSUME NEW c \in Client, Kill(c)
      PROVE  IInv'
  BY <1>7, Ends DEF Kill, storage
<1>8. CASE ServerStep
  BY <1>8, StartIssuerKeeps, SendChallengeKeeps, SendVerdictKeeps DEF ServerStep
<1>9. CASE PowerLoss
  BY <1>9, PowerLossKeeps
<1>10. CASE UNCHANGED vars
  BY <1>10, Unchanged DEF vars
<1> QED
  BY <1>1, <1>2, <1>3, <1>4, <1>5, <1>6, <1>7, <1>8, <1>9, <1>10 DEF Next, ClientStep

(***************************************************************************)
(* The way of a key, from the TA to the issuer and back, is kept by every  *)
(* behaviour of the holder, the issuer and the verifier.                   *)
(***************************************************************************)
THEOREM Invariance == Spec => []IInv
  BY InitIInv, NextIInv, PTL DEF Spec

(***************************************************************************)
(* A settled enrolment leaves a token bound to the key the TA holds        *)
(* (sd_jwt_parser.c:TA_GenerateHolderKey, store_sd_jwt).                   *)
(***************************************************************************)
THEOREM BindingSafety == Spec => []SettledIsBound
<1>1. IInv => SettledIsBound
  BY DEF IInv
<1> QED
  BY <1>1, Invariance, PTL

(***************************************************************************)
(* The session: a step of one client leaves the session and the waiting    *)
(* retry of every other one as they are.                                   *)
(***************************************************************************)
LEMMA Moves ==
  ASSUME SInv, NEW c \in Client, NEW r, cl' = [cl EXCEPT ![c] = r],
         token' = token \/ cl[c].pc \in {"storeCreate", "storeWrite"},
         \/ session' = session /\ (r.pc \in SessionPoints => cl[c].pc \in SessionPoints)
         \/ session = Nobody /\ session' = c
         \/ session = c /\ session' = Nobody /\ r.pc \notin SessionPoints,
         r.pc = "retry" => Cardinality(Disclosed(token'[r.doc], r.req)) = r.size
  PROVE  Exclusive' /\ RetryFits'
<1>1. \A k \in Client : cl'[k] = IF k = c THEN r ELSE cl[k]
  BY DEF SInv, IInv, Typed
<1>2. \A k \in Client \ {c} : cl[k].pc \in SessionPoints => session' = k /\ token' = token
  <2> SUFFICES ASSUME NEW k \in Client \ {c}, cl[k].pc \in SessionPoints
               PROVE  session' = k /\ token' = token
    OBVIOUS
  <2>1. session = k /\ k # Nobody
    BY SdJwtConstants DEF SInv, Exclusive
  <2>2. cl[c].pc \notin SessionPoints
    BY <2>1 DEF SInv, Exclusive
  <2> QED
    BY <2>1, <2>2 DEF SessionPoints
<1>3. Exclusive'
  <2> SUFFICES ASSUME NEW k \in Client, cl'[k].pc \in SessionPoints
               PROVE  session' = k
    BY DEF Exclusive
  <2>1. CASE k = c
    BY <1>1, <2>1 DEF SInv, Exclusive
  <2>2. CASE k # c
    BY <1>1, <1>2, <2>2
  <2> QED
    BY <2>1, <2>2
<1>4. RetryFits'
  <2> SUFFICES ASSUME NEW k \in Client, cl'[k].pc = "retry"
               PROVE  Cardinality(Disclosed(token'[cl'[k].doc], cl'[k].req)) = cl'[k].size
    BY DEF RetryFits, doc, Disclosed
  <2>1. CASE k = c
    BY <1>1, <2>1
  <2>2. CASE k # c
    <3>1. cl'[k] = cl[k] /\ token' = token
      BY <1>1, <1>2, <2>2 DEF SessionPoints
    <3> QED
      BY <3>1 DEF SInv, RetryFits, doc
  <2> QED
    BY <2>1, <2>2
<1> QED
  BY <1>3, <1>4

\* The program ends, with its session or before it has one.
LEMMA EndsSession ==
  ASSUME SInv, NEW c \in Client,
         NEW out \in {"none", "failed", "stored", "accepted", "rejected"}, End(c, out),
         token' = token \/ cl[c].pc \in {"storeCreate", "storeWrite"},
         session' = session \/ (session = c /\ session' = Nobody)
  PROVE  Exclusive' /\ RetryFits'
<1>1. Ended(out).pc \notin SessionPoints /\ Ended(out).pc # "retry"
  BY EndedType DEF SessionPoints
<1> QED
  BY <1>1, Moves DEF End

\* The client goes on to its next point, which is not a retry.
LEMMA Goes ==
  ASSUME SInv, NEW c \in Client, NEW r, cl' = [cl EXCEPT ![c] = r], r.pc # "retry",
         token' = token \/ cl[c].pc \in {"storeCreate", "storeWrite"},
         \/ session' = session /\ (r.pc \in SessionPoints => cl[c].pc \in SessionPoints)
         \/ session = Nobody /\ session' = c
         \/ cl[c].pc \in SessionPoints /\ session' = Nobody /\ r.pc \notin SessionPoints
  PROVE  Exclusive' /\ RetryFits'
<1>1. cl[c].pc \in SessionPoints => session = c
  BY DEF SInv, Exclusive
<1> QED
  BY <1>1, Moves

LEMMA ClosesSession ==
  ASSUME SInv, NEW c \in Client, cl[c].pc \in SessionPoints, CloseSession
  PROVE  session = c /\ session' = Nobody
  BY DEF SInv, Exclusive, CloseSession

\* A connection whose client is gone changes nothing.
LEMMA UnchangedSession ==
  ASSUME SInv, UNCHANGED <<token, session, cl>>
  PROVE  Exclusive' /\ RetryFits'
  BY DEF SInv, Exclusive, RetryFits, doc, Disclosed

LEMMA StartKeepsSession ==
  ASSUME SInv, NEW c \in Client, StartEnrolment(c) \/ Connect(c)
  PROVE  Exclusive' /\ RetryFits'
<1>1. PICK x \in Doc, pc \in {"genkey", "challenge"} :
        cl' = [cl EXCEPT ![c] = [Ended("none") EXCEPT !.pc = pc, !.doc = x]]
  BY DEF StartEnrolment, Connect
<1> DEFINE r == [Ended("none") EXCEPT !.pc = pc, !.doc = x]
<1>2. r.pc = pc /\ cl' = [cl EXCEPT ![c] = r]
  BY <1>1 DEF Ended
<1>3. UNCHANGED <<token, session>>
  BY DEF StartEnrolment, Connect, storage
<1> HIDE DEF r
<1> QED
  BY <1>1, <1>2, <1>3, Goes DEF SessionPoints

LEMMA OpenKeepsSession ==
  ASSUME SInv, NEW c \in Client, GenKey(c) \/ Store(c) \/ Present(c)
  PROVE  Exclusive' /\ RetryFits'
<1>1. UNCHANGED token
  BY DEF GenKey, Store, Present, storage
<1>2. CASE End(c, "failed") /\ UNCHANGED session
  BY <1>1, <1>2, EndsSession
<1>3. CASE session = Nobody /\ session' = c
           /\ (Goto(c, "generate") \/ Goto(c, "load") \/ Goto(c, "invoke"))
  <2>1. PICK pc \in {"generate", "load", "invoke"} : cl' = [cl EXCEPT ![c].pc = pc]
    BY <1>3 DEF Goto
  <2> DEFINE r == [cl[c] EXCEPT !.pc = pc]
  <2>2. cl' = [cl EXCEPT ![c] = r] /\ r.pc = pc
    BY <2>1 DEF SInv, IInv, Typed, ClientState, ClientRecord
  <2> HIDE DEF r
  <2> QED
    BY <1>1, <1>3, <2>1, <2>2, Goes
<1> QED
  BY <1>2, <1>3 DEF GenKey, Store, Present, Open

LEMMA CommandKeepsSession ==
  ASSUME SInv, NEW c \in Client,
         GenerateKey(c) \/ CreateKey(c) \/ Load(c) \/ StoreCreate(c) \/ StoreWrite(c)
  PROVE  Exclusive' /\ RetryFits'
<1>1. cl[c].pc \in SessionPoints /\ cl[c] \in ClientRecord /\ cl \in [Client -> ClientState]
  BY DEF GenerateKey, CreateKey, Load, StoreCreate, StoreWrite, SessionPoints,
         SInv, IInv, Typed, ClientState
<1>2. token' = token \/ cl[c].pc \in {"storeCreate", "storeWrite"}
  BY DEF GenerateKey, CreateKey, Load, StoreCreate, StoreWrite, storage
<1>3. CASE (End(c, "failed") \/ End(c, "stored")) /\ CloseSession
  BY <1>1, <1>2, <1>3, ClosesSession, EndsSession
<1>4. CASE UNCHANGED session /\ \E k \in Key : cl' = [cl EXCEPT ![c].key = k, ![c].pc = "create"]
  <2>1. PICK k \in Key : cl' = [cl EXCEPT ![c].key = k, ![c].pc = "create"]
    BY <1>4
  <2> DEFINE r == [cl[c] EXCEPT !.key = k, !.pc = "create"]
  <2>2. cl' = [cl EXCEPT ![c] = r] /\ r.pc = "create"
    BY <1>1, <2>1 DEF ClientRecord
  <2> HIDE DEF r
  <2> QED
    BY <1>1, <1>2, <1>4, <2>2, Goes
<1>5. CASE UNCHANGED session
           /\ \E t \in {file[doc(c)], Empty} : cl' = [cl EXCEPT ![c].tok = t, ![c].pc = "storeCreate"]
  <2>1. PICK t : cl' = [cl EXCEPT ![c].tok = t, ![c].pc = "storeCreate"]
    BY <1>5
  <2> DEFINE r == [cl[c] EXCEPT !.tok = t, !.pc = "storeCreate"]
  <2>2. cl' = [cl EXCEPT ![c] = r] /\ r.pc = "storeCreate"
    BY <1>1, <2>1 DEF ClientRecord
  <2> HIDE DEF r
  <2> QED
    BY <1>1, <1>2, <1>5, <2>2, Goes
<1>6. CASE \/ Goto(c, "request") /\ CloseSession
           \/ Goto(c, "storeWrite") /\ UNCHANGED session
  <2>1. PICK pc \in {"request", "storeWrite"} :
          /\ cl' = [cl EXCEPT ![c].pc = pc]
          /\ pc = "request" => session' = Nobody
          /\ pc = "storeWrite" => session' = session
    BY <1>6 DEF Goto, CloseSession
  <2> DEFINE r == [cl[c] EXCEPT !.pc = pc]
  <2>2. cl' = [cl EXCEPT ![c] = r] /\ r.pc = pc
    BY <1>1, <2>1 DEF ClientRecord
  <2>3. "request" \notin SessionPoints
    BY DEF SessionPoints
  <2> HIDE DEF r
  <2> QED
    BY <1>1, <1>2, <2>1, <2>2, <2>3, Goes
<1> QED
  BY <1>3, <1>4, <1>5, <1>6 DEF GenerateKey, CreateKey, Load, StoreCreate, StoreWrite

LEMMA RelayKeepsSession ==
  ASSUME SInv, NEW c \in Client, Request(c) \/ WriteFile(c)
  PROVE  Exclusive' /\ RetryFits'
<1>1. /\ cl[c] \in ClientRecord /\ cl \in [Client -> ClientState]
      /\ UNCHANGED <<token, session>>
  BY DEF Request, WriteFile, storage, SInv, IInv, Typed, ClientState
<1>2. PICK pc \in {"issuer", "write", "store"}, t \in Stored :
        cl' = [cl EXCEPT ![c].pc = pc, ![c].tok = t]
  <2>1. CASE Request(c)
    <3>1. cl' = [cl EXCEPT ![c].pc = "issuer", ![c].tok = cl[c].tok] /\ cl[c].tok \in Stored
      BY <1>1, <2>1 DEF Request, Goto, ClientRecord
    <3> QED
      BY <3>1
  <2>2. CASE WriteFile(c)
    BY <1>1, <2>2 DEF WriteFile, ClientRecord, Stored
  <2> QED
    BY <2>1, <2>2
<1> DEFINE r == [cl[c] EXCEPT !.pc = pc, !.tok = t]
<1>3. cl' = [cl EXCEPT ![c] = r] /\ r.pc = pc
  BY <1>1, <1>2 DEF ClientRecord
<1> HIDE DEF r
<1> QED
  BY <1>1, <1>2, <1>3, Goes DEF SessionPoints

\* The command that asks for a larger buffer notes the length it needs.
LEMMA PresentationKeepsSession ==
  ASSUME SInv, NEW c \in Client, CreatePresentation(c)
  PROVE  Exclusive' /\ RetryFits'
<1> DEFINE t == token[doc(c)]
           shown == Disclosed(t, cl[c].req)
           shownToken == IF t \in Token THEN [t EXCEPT !.claims = shown] ELSE t
<1>1. /\ cl[c].pc \in {"invoke", "retry"} /\ cl[c].pc \in SessionPoints
      /\ cl[c] \in ClientRecord /\ cl \in [Client -> ClientState] /\ UNCHANGED token
  BY DEF CreatePresentation, storage, SessionPoints, SInv, IInv, Typed, ClientState
<1>2. CASE NoPresentation(c)
  BY <1>1, <1>2, ClosesSession, EndsSession DEF NoPresentation
<1>3. CASE /\ CloseSession
           /\ cl' = [cl EXCEPT ![c].pc = "verdict", ![c].size = InitialBuffer, ![c].req = {},
                               ![c].key = holderKey[doc(c)], ![c].tok = shownToken]
  <2> HIDE DEF shownToken
  <2> DEFINE r == [cl[c] EXCEPT !.pc = "verdict", !.size = InitialBuffer, !.req = {},
                                !.key = holderKey[doc(c)], !.tok = shownToken]
  <2>1. cl' = [cl EXCEPT ![c] = r] /\ r.pc = "verdict"
    BY <1>1, <1>3 DEF ClientRecord
  <2>2. "verdict" \notin SessionPoints /\ session' = Nobody
    BY <1>3 DEF SessionPoints, CloseSession
  <2> HIDE DEF r
  <2> QED
    BY <1>1, <2>1, <2>2, Goes
<1>4. CASE /\ UNCHANGED session
           /\ cl' = [cl EXCEPT ![c].pc = "retry", ![c].size = Cardinality(shown)]
  <2> DEFINE r == [cl[c] EXCEPT !.pc = "retry", !.size = Cardinality(shown)]
  <2>1. /\ cl' = [cl EXCEPT ![c] = r]
        /\ r.pc = "retry" /\ r.size = Cardinality(shown) /\ r.doc = doc(c) /\ r.req = cl[c].req
    BY <1>1, <1>4 DEF ClientRecord, doc
  <2>2. Cardinality(Disclosed(token'[r.doc], r.req)) = r.size
    BY <1>1, <2>1
  <2> HIDE DEF r
  <2> QED
    BY <1>1, <1>4, <2>1, <2>2, Moves
<1> QED
  BY <1>2, <1>3, <1>4 DEF CreatePresentation

LEMMA ServerKeepsSession ==
  ASSUME SInv, ServerStep
  PROVE  Exclusive' /\ RetryFits'
<1>1. cl \in [Client -> ClientState] /\ UNCHANGED <<token, session>>
  BY DEF ServerStep, StartIssuer, SendChallenge, SendVerdict, storage, SInv, IInv, Typed
<1>2. PICK c, r : cl' = [cl EXCEPT ![c] = r] /\ (c \in Client => r.pc \notin SessionPoints)
  <2>1. CASE StartIssuer
    <3>1. PICK t : cl' = [cl EXCEPT ![Head(issuer)].tok = t, ![Head(issuer)].key = Absent,
                                    ![Head(issuer)].pc = "truncate"]
      BY <2>1 DEF StartIssuer
    <3> DEFINE h == Head(issuer)
               r == [cl[h] EXCEPT !.tok = t, !.key = Absent, !.pc = "truncate"]
    <3>2. cl' = [cl EXCEPT ![h] = r]
      BY <1>1, <3>1
    <3>3. h \in Client => r.pc = "truncate"
      BY <1>1 DEF ClientState, ClientRecord
    <3> QED
      BY <3>2, <3>3 DEF SessionPoints
  <2>2. CASE SendChallenge
    <3>1. PICK s : cl' = [cl EXCEPT ![Head(verifier)].req = s, ![Head(verifier)].pc = "present"]
      BY <2>2 DEF SendChallenge
    <3> DEFINE h == Head(verifier)
               r == [cl[h] EXCEPT !.req = s, !.pc = "present"]
    <3>2. cl' = [cl EXCEPT ![h] = r]
      BY <1>1, <3>1
    <3>3. h \in Client => r.pc = "present"
      BY <1>1 DEF ClientState, ClientRecord
    <3> QED
      BY <3>2, <3>3 DEF SessionPoints
  <2>3. CASE SendVerdict
    <3>1. PICK out \in {"accepted", "rejected"} : cl' = [cl EXCEPT ![Head(verifier)] = Ended(out)]
      BY <2>3 DEF SendVerdict, End
    <3>2. Ended(out).pc \notin SessionPoints
      BY EndedType DEF SessionPoints
    <3> QED
      BY <3>1, <3>2
  <2> QED
    BY <2>1, <2>2, <2>3 DEF ServerStep
<1>3. CASE c \in Client
  BY <1>1, <1>2, <1>3, Goes DEF SessionPoints
<1>4. CASE c \notin Client
  <2>1. cl' = cl
    BY <1>1, <1>2, <1>4
  <2> QED
    BY <1>1, <2>1, UnchangedSession
<1> QED
  BY <1>3, <1>4

LEMMA NextSInv == SInv /\ [Next]_vars => SInv'
<1> SUFFICES ASSUME SInv, [Next]_vars PROVE Exclusive' /\ RetryFits'
  BY NextIInv DEF SInv
<1>1. ASSUME NEW c \in Client, ClientStep(c)
      PROVE  Exclusive' /\ RetryFits'
  BY <1>1, OpenKeepsSession, CommandKeepsSession, RelayKeepsSession, PresentationKeepsSession
  DEF ClientStep
<1>2. ASSUME NEW c \in Client, Kill(c)
      PROVE  Exclusive' /\ RetryFits'
  BY <1>2, EndsSession DEF Kill, storage
<1>3. CASE PowerLoss
  <2>1. \A c \in Client : cl'[c].pc = "idle"
    BY <1>3, EndedType DEF PowerLoss
  <2> QED
    BY <2>1 DEF Exclusive, RetryFits, SessionPoints
<1>4. CASE UNCHANGED vars
  BY <1>4, UnchangedSession DEF vars
<1> QED
  BY <1>1, <1>2, <1>3, <1>4, StartKeepsSession, ServerKeepsSession DEF Next

(***************************************************************************)
(* The TA admits one session at a time, so that between the two attempts   *)
(* of a presentation nobody else changes the token.                        *)
(***************************************************************************)
THEOREM SessionInvariance == Spec => []SInv
<1>1. Init => SInv
  <2> SUFFICES ASSUME Init PROVE SInv
    OBVIOUS
  <2>1. \A c \in Client : cl[c].pc = "idle"
    BY EndedType DEF Init
  <2> QED
    BY <2>1, InitIInv DEF SInv, Exclusive, RetryFits, SessionPoints
<1> QED
  BY <1>1, NextSInv, PTL DEF Spec

(***************************************************************************)
(* The length the first attempt asks for is enough for the second one      *)
(* (sd_jwt_parser.c:TA_CreatePresentation, host: the retry after           *)
(* TEEC_ERROR_SHORT_BUFFER).                                               *)
(***************************************************************************)
THEOREM RetrySafety == Spec => []RetryFits
<1>1. SInv => RetryFits
  BY DEF SInv
<1> QED
  BY <1>1, SessionInvariance, PTL

(***************************************************************************)
(* Connections: what a server's backlog holds when a client joins it,      *)
(* leaves it, or is the one that is served.                                *)
(***************************************************************************)
Beside(q, p, c) == Once(p) /\ \A d \in Client \ {c} : d \in ToSet(p) <=> d \in ToSet(q)

LEMMA Stays ==
  ASSUME NEW q, Once(q), NEW c
  PROVE  Beside(q, q, c)
  BY DEF Beside

LEMMA Joins ==
  ASSUME NEW q, Once(q), NEW c \in Client, c \notin ToSet(q)
  PROVE  Beside(q, Append(q, c), c) /\ c \in ToSet(Append(q, c))
<1> DEFINE p == Append(q, c)
           n == Len(q)
<1>1. q \in Seq(Client) /\ n \in Nat /\ DOMAIN q = 1..n
  BY DEF Once
<1>2. /\ p \in Seq(Client) /\ Len(p) = n + 1 /\ DOMAIN p = 1..(n + 1)
      /\ \A i \in 1..n : p[i] = q[i]
      /\ p[n + 1] = c
  BY <1>1, AppendProperties
<1>3. \A i \in 1..n : q[i] # c
  BY <1>1 DEF ToSet
<1> HIDE DEF p, n
<1>4. \A i \in 1..(n + 1) : i \in 1..n \/ i = n + 1
  BY <1>1
<1>5. \A i, j \in 1..(n + 1) : p[i] = p[j] => i = j
  BY <1>1, <1>2, <1>3, <1>4 DEF Once
<1>6. \A d \in Client \ {c} : d \in ToSet(p) <=> d \in ToSet(q)
  <2> SUFFICES ASSUME NEW d \in Client \ {c}
               PROVE  (\E i \in 1..(n + 1) : p[i] = d) <=> \E i \in 1..n : q[i] = d
    BY <1>1, <1>2 DEF ToSet
  <2>1. 1..n \subseteq 1..(n + 1)
    BY <1>1
  <2> QED
    BY <2>1, <1>2, <1>4
<1>7. c \in ToSet(p)
  BY <1>1, <1>2 DEF ToSet
<1> QED
  BY <1>2, <1>5, <1>6, <1>7 DEF Beside, Once, p

LEMMA Served ==
  ASSUME NEW q, Once(q), q # <<>>
  PROVE  /\ Head(q) \in Client /\ Head(q) \in ToSet(q)
         /\ Beside(q, Tail(q), Head(q)) /\ Head(q) \notin ToSet(Tail(q))
<1> DEFINE p == Tail(q)
           n == Len(q)
<1>1. q \in Seq(Client) /\ n \in Nat /\ DOMAIN q = 1..n
  BY DEF Once
<1>2. /\ Head(q) \in Client /\ n >= 1 /\ Head(q) = q[1]
      /\ p \in Seq(Client) /\ Len(p) = n - 1 /\ DOMAIN p = 1..(n - 1)
      /\ \A i \in 1..(n - 1) : p[i] = q[i + 1]
  BY <1>1, HeadTailProperties
<1> HIDE DEF p, n
<1>3. \A i, j \in 1..(n - 1) : p[i] = p[j] => i = j
  <2> SUFFICES ASSUME NEW i \in 1..(n - 1), NEW j \in 1..(n - 1), p[i] = p[j]
               PROVE  i = j
    OBVIOUS
  <2>1. i + 1 \in 1..n /\ j + 1 \in 1..n /\ q[i + 1] = q[j + 1]
    BY <1>1, <1>2
  <2>2. i + 1 = j + 1
    BY <1>1, <2>1 DEF Once
  <2> QED
    BY <2>2
<1>4. \A i \in 1..(n - 1) : p[i] # Head(q)
  <2> SUFFICES ASSUME NEW i \in 1..(n - 1), p[i] = Head(q)
               PROVE  FALSE
    OBVIOUS
  <2>1. i + 1 \in 1..n /\ 1 \in 1..n /\ q[i + 1] = q[1] /\ i + 1 # 1
    BY <1>1, <1>2
  <2> QED
    BY <1>1, <2>1 DEF Once
<1>5. \A d \in Client \ {Head(q)} : d \in ToSet(p) <=> d \in ToSet(q)
  <2>0. ToSet(p) = {p[i] : i \in 1..(n - 1)} /\ ToSet(q) = {q[i] : i \in 1..n}
    BY <1>1, <1>2 DEF ToSet
  <2> SUFFICES ASSUME NEW d \in Client \ {Head(q)}
               PROVE  (\E i \in 1..(n - 1) : p[i] = d) <=> \E i \in 1..n : q[i] = d
    BY <2>0
  <2>1. ASSUME NEW i \in 1..(n - 1), p[i] = d
        PROVE  \E j \in 1..n : q[j] = d
    <3>1. i + 1 \in 1..n /\ q[i + 1] = d
      BY <1>1, <1>2, <2>1
    <3> QED
      BY <3>1
  <2>2. ASSUME NEW i \in 1..n, q[i] = d
        PROVE  \E j \in 1..(n - 1) : p[j] = d
    <3>1. i # 1
      BY <1>2, <2>2
    <3>2. i - 1 \in 1..(n - 1) /\ (i - 1) + 1 = i
      BY <1>1, <3>1
    <3>3. p[i - 1] = d
      BY <1>2, <2>2, <3>2
    <3> QED
      BY <3>2, <3>3
  <2> QED
    BY <2>1, <2>2
<1>6. Head(q) \in ToSet(q)
  BY <1>1, <1>2 DEF ToSet
<1>7. Head(q) \notin ToSet(p)
  BY <1>2, <1>4 DEF ToSet
<1> QED
  BY <1>2, <1>3, <1>5, <1>6, <1>7 DEF Beside, Once, p

LEMMA Leaving ==
  ASSUME NEW q, Once(q), NEW c \in Client
  PROVE  Beside(q, Leave(q, c), c) /\ c \notin ToSet(Leave(q, c))
<1>1. CASE c \notin ToSet(q)
  BY <1>1, Stays DEF Leave
<1>2. CASE c \in ToSet(q)
  <2> DEFINE n == Len(q)
             k == CHOOSE i \in DOMAIN q : q[i] = c
             a == SubSeq(q, 1, k - 1)
             b == SubSeq(q, k + 1, n)
             p == a \o b
  <2>1. q \in Seq(Client) /\ n \in Nat /\ DOMAIN q = 1..n /\ \A i \in 1..n : q[i] \in Client
    BY DEF Once
  <2>2. k \in 1..n /\ q[k] = c
    <3>1. \E i \in DOMAIN q : q[i] = c
      BY <1>2 DEF ToSet
    <3> QED
      BY <2>1, <3>1
  <2>3. Leave(q, c) = p
    BY <1>2 DEF Leave, RemoveAt
  <2> HIDE DEF k, n
  <2>4. a \in Seq(Client) /\ Len(a) = k - 1 /\ \A i \in 1..(k - 1) : a[i] = q[i]
    <3>1. 1 \in Int /\ k - 1 \in Int /\ \A i \in 1..(k - 1) : q[i] \in Client
      BY <2>1, <2>2
    <3>2. /\ SubSeq(q, 1, k - 1) \in Seq(Client)
          /\ Len(SubSeq(q, 1, k - 1)) = IF 1 <= k - 1 THEN (k - 1) - 1 + 1 ELSE 0
          /\ \A i \in 1..((k - 1) - 1 + 1) : SubSeq(q, 1, k - 1)[i] = q[1 + i - 1]
      BY <3>1, SubSeqProperties
    <3> HIDE DEF a
    <3>3. a \in Seq(Client) /\ Len(a) = IF 1 <= k - 1 THEN (k - 1) - 1 + 1 ELSE 0
      BY <3>2 DEF a
    <3>4. \A i \in 1..(k - 1) : a[i] = q[1 + i - 1] /\ 1 + i - 1 = i
      BY <3>2, <2>2 DEF a
    <3>5. Len(a) = k - 1
      BY <2>1, <2>2, <3>3
    <3> QED
      BY <3>3, <3>4, <3>5
  <2>5. b \in Seq(Client) /\ Len(b) = n - k /\ \A i \in 1..(n - k) : b[i] = q[k + i]
    <3>1. k + 1 \in Int /\ n \in Int /\ \A i \in (k + 1)..n : q[i] \in Client
      BY <2>1, <2>2
    <3>2. /\ SubSeq(q, k + 1, n) \in Seq(Client)
          /\ Len(SubSeq(q, k + 1, n)) = IF k + 1 <= n THEN n - (k + 1) + 1 ELSE 0
          /\ \A i \in 1..(n - (k + 1) + 1) : SubSeq(q, k + 1, n)[i] = q[(k + 1) + i - 1]
      BY <3>1, SubSeqProperties
    <3> HIDE DEF b
    <3>3. b \in Seq(Client) /\ Len(b) = IF k + 1 <= n THEN n - (k + 1) + 1 ELSE 0
      BY <3>2 DEF b
    <3>4. \A i \in 1..(n - k) : b[i] = q[(k + 1) + i - 1] /\ (k + 1) + i - 1 = k + i
      BY <3>2, <2>1, <2>2 DEF b
    <3>5. Len(b) = n - k
      BY <2>1, <2>2, <3>3
    <3> QED
      BY <3>3, <3>4, <3>5
  <2> HIDE DEF a, b
  <2>6. /\ p \in Seq(Client) /\ Len(p) = n - 1 /\ DOMAIN p = 1..(n - 1)
        /\ \A i \in 1..(n - 1) : p[i] = IF i < k THEN q[i] ELSE q[i + 1]
    <3>1. /\ p \in Seq(Client) /\ Len(p) = Len(a) + Len(b)
          /\ \A i \in 1..(Len(a) + Len(b)) : p[i] = IF i <= Len(a) THEN a[i] ELSE b[i - Len(a)]
      BY <2>4, <2>5, ConcatProperties
    <3> HIDE DEF p
    <3>2. Len(a) + Len(b) = n - 1
      BY <2>1, <2>2, <2>4, <2>5
    <3>3. ASSUME NEW i \in 1..(n - 1)
          PROVE  p[i] = IF i < k THEN q[i] ELSE q[i + 1]
      <4>1. CASE i < k
        <5>1. i \in 1..(k - 1) /\ i <= Len(a)
          BY <2>2, <2>4, <4>1
        <5> QED
          BY <2>4, <3>1, <3>2, <4>1, <5>1
      <4>2. CASE ~(i < k)
        <5>1. i - (k - 1) \in 1..(n - k) /\ k + (i - (k - 1)) = i + 1 /\ ~(i <= k - 1)
          BY <2>1, <2>2, <4>2
        <5> QED
          BY <2>4, <2>5, <3>1, <3>2, <4>2, <5>1
      <4> QED
        BY <4>1, <4>2
    <3> QED
      BY <3>1, <3>2, <3>3
  <2> HIDE DEF p
  <2> DEFINE at(i) == IF i < k THEN i ELSE i + 1
  <2>7. \A i \in 1..(n - 1) : at(i) \in 1..n /\ at(i) # k /\ p[i] = q[at(i)]
    BY <2>1, <2>2, <2>6
  <2>8. \A i, j \in 1..(n - 1) : at(i) = at(j) => i = j
    BY <2>1, <2>2
  <2>9. \A j \in 1..n : j # k => \E i \in 1..(n - 1) : at(i) = j
    <3> SUFFICES ASSUME NEW j \in 1..n, j # k
                 PROVE  \E i \in 1..(n - 1) : at(i) = j
      OBVIOUS
    <3>1. CASE j < k
      <4>1. j \in 1..(n - 1) /\ at(j) = j
        BY <2>1, <2>2, <3>1
      <4> QED
        BY <4>1
    <3>2. CASE j > k
      <4>1. j - 1 \in 1..(n - 1) /\ at(j - 1) = j
        BY <2>1, <2>2, <3>2
      <4> QED
        BY <4>1
    <3> QED
      BY <2>1, <2>2, <3>1, <3>2
  <2> HIDE DEF at
  <2>10. Once(p)
    <3>1. \A i, j \in 1..(n - 1) : p[i] = p[j] => i = j
      BY <2>1, <2>7, <2>8 DEF Once
    <3> QED
      BY <2>6, <3>1 DEF Once
  <2>11. \A d \in Client \ {c} : d \in ToSet(p) <=> d \in ToSet(q)
    <3> SUFFICES ASSUME NEW d \in Client \ {c}
                 PROVE  (\E i \in 1..(n - 1) : p[i] = d) <=> \E i \in 1..n : q[i] = d
      BY <2>1, <2>6 DEF ToSet
    <3> QED
      BY <2>2, <2>7, <2>9
  <2>12. c \notin ToSet(p)
    <3>1. \A i \in 1..(n - 1) : p[i] # c
      BY <2>1, <2>2, <2>7 DEF Once
    <3> QED
      BY <2>6, <3>1 DEF ToSet
  <2> QED
    BY <2>3, <2>10, <2>11, <2>12 DEF Beside
<1> QED
  BY <1>1, <1>2

(***************************************************************************)
(* Owned, when one client moves to another point and the session and its   *)
(* connections move with it.                                               *)
(***************************************************************************)
LEMMA Carries ==
  ASSUME Owned, NEW c \in Client, NEW pc, cl'[c].pc = pc,
         \A d \in Client \ {c} : cl'[d].pc = cl[d].pc,
         \/ session' = session /\ (pc \in SessionPoints <=> cl[c].pc \in SessionPoints)
         \/ session = Nobody /\ session' = c /\ pc \in SessionPoints
         \/ cl[c].pc \in SessionPoints /\ session' = Nobody /\ pc \notin SessionPoints
         \/ session' = (IF session = c THEN Nobody ELSE session) /\ pc \notin SessionPoints,
         Beside(issuer, issuer', c), c \in ToSet(issuer') <=> pc = "issuer",
         Beside(verifier, verifier', c), c \in ToSet(verifier') <=> pc \in VerifierPoints
  PROVE  Owned'
<1>1. c # Nobody /\ \A d \in Client : session = d <=> cl[d].pc \in SessionPoints
  BY SdJwtConstants DEF Owned
<1>2. session' \in Client \union {Nobody}
  BY DEF Owned
<1>3. session' = c <=> pc \in SessionPoints
  BY <1>1
<1>4. \A d \in Client \ {c} : session' = d <=> cl[d].pc \in SessionPoints
  BY <1>1, SdJwtConstants
<1>5. \A d \in Client \ {c} : /\ d \in ToSet(issuer') <=> cl[d].pc = "issuer"
                              /\ d \in ToSet(verifier') <=> cl[d].pc \in VerifierPoints
  BY DEF Owned, Beside
<1>6. Once(issuer') /\ Once(verifier')
  BY DEF Beside
<1> HIDE DEF Owned
<1>7. \A d \in Client : /\ session' = d <=> cl'[d].pc \in SessionPoints
                        /\ d \in ToSet(issuer') <=> cl'[d].pc = "issuer"
                        /\ d \in ToSet(verifier') <=> cl'[d].pc \in VerifierPoints
  BY <1>3, <1>4, <1>5
<1> QED
  BY <1>2, <1>6, <1>7 DEF Owned, Once

\* A move that touches no connection: the client had it before and after,
\* or neither.
LEMMA CarriesOn ==
  ASSUME Owned, NEW c \in Client, NEW pc, cl'[c].pc = pc,
         \A d \in Client \ {c} : cl'[d].pc = cl[d].pc,
         \/ session' = session /\ (pc \in SessionPoints <=> cl[c].pc \in SessionPoints)
         \/ session = Nobody /\ session' = c /\ pc \in SessionPoints
         \/ cl[c].pc \in SessionPoints /\ session' = Nobody /\ pc \notin SessionPoints,
         UNCHANGED <<issuer, verifier>>,
         cl[c].pc = "issuer" <=> pc = "issuer",
         cl[c].pc \in VerifierPoints <=> pc \in VerifierPoints
  PROVE  Owned'
<1>1. Beside(issuer, issuer', c) /\ Beside(verifier, verifier', c)
  BY Stays DEF Owned
<1>2. /\ c \in ToSet(issuer') <=> pc = "issuer"
      /\ c \in ToSet(verifier') <=> pc \in VerifierPoints
  BY DEF Owned
<1> QED
  BY <1>1, <1>2, Carries

LEMMA Points ==
  /\ SessionPoints \intersect {"idle", "genkey", "request", "issuer", "truncate", "write",
                               "store", "challenge", "present", "verdict"} = {}
  /\ VerifierPoints \intersect {"idle", "genkey", "generate", "create", "request", "issuer",
                                "truncate", "write", "store", "load", "storeCreate",
                                "storeWrite"} = {}
  /\ {"generate", "create", "load", "storeCreate", "storeWrite", "invoke", "retry"}
        \subseteq SessionPoints
  /\ {"challenge", "present", "invoke", "retry", "verdict"} \subseteq VerifierPoints
  /\ "issuer" \notin SessionPoints /\ "issuer" \notin VerifierPoints
  BY DEF SessionPoints, VerifierPoints

\* The client whose record is replaced, or whose point is.
LEMMA Replaced ==
  ASSUME Typed, NEW c \in Client, NEW r, cl' = [cl EXCEPT ![c] = r]
  PROVE  cl'[c] = r /\ \A d \in Client \ {c} : cl'[d].pc = cl[d].pc
  BY DEF Typed

LEMMA EndedPoint ==
  ASSUME Typed, NEW c \in Client,
         NEW out \in {"none", "failed", "stored", "accepted", "rejected"}, End(c, out)
  PROVE  cl'[c].pc = "idle" /\ \A d \in Client \ {c} : cl'[d].pc = cl[d].pc
  BY Replaced, EndedType DEF End

LEMMA Went ==
  ASSUME Typed, NEW c \in Client, NEW pc, Goto(c, pc)
  PROVE  cl'[c].pc = pc /\ \A d \in Client \ {c} : cl'[d].pc = cl[d].pc
  BY DEF Typed, Goto, ClientState, ClientRecord

\* The program ends with its session, if it has one, and with the client its
\* connection to the verifier.
LEMMA EndsOwned ==
  ASSUME Typed, Owned, NEW c \in Client,
         NEW out \in {"none", "failed", "stored", "accepted", "rejected"}, End(c, out),
         \/ session' = session /\ cl[c].pc \notin SessionPoints
         \/ cl[c].pc \in SessionPoints /\ CloseSession,
         cl[c].pc # "issuer", UNCHANGED issuer,
         \/ verifier' = Leave(verifier, c)
         \/ UNCHANGED verifier /\ cl[c].pc \notin VerifierPoints
  PROVE  Owned'
<1>1. cl'[c].pc = "idle" /\ \A d \in Client \ {c} : cl'[d].pc = cl[d].pc
  BY EndedPoint
<1>2. Beside(issuer, issuer', c) /\ c \notin ToSet(issuer')
  BY Stays DEF Owned
<1>3. Beside(verifier, verifier', c) /\ c \notin ToSet(verifier')
  BY Stays, Leaving DEF Owned
<1>4. "idle" \notin SessionPoints /\ "idle" \notin VerifierPoints
  BY Points
<1> QED
  BY <1>1, <1>2, <1>3, <1>4, Carries DEF CloseSession

LEMMA OpenOwned ==
  ASSUME Typed, Owned, NEW c \in Client, NEW pc, Open(c, pc), UNCHANGED issuer,
         \/ cl[c].pc = "genkey" /\ pc = "generate"
         \/ cl[c].pc = "store" /\ pc = "load"
         \/ cl[c].pc = "present" /\ pc = "invoke"
  PROVE  Owned'
<1>1. cl[c].pc \notin SessionPoints /\ cl[c].pc # "issuer" /\ pc \in SessionPoints
      /\ pc # "issuer" /\ (cl[c].pc \in VerifierPoints <=> pc \in VerifierPoints)
  BY DEF SessionPoints, VerifierPoints
<1>2. CASE session = Nobody /\ session' = c /\ Goto(c, pc) /\ UNCHANGED verifier
  BY <1>1, <1>2, Went, CarriesOn
<1>3. CASE End(c, "failed") /\ verifier' = Leave(verifier, c) /\ UNCHANGED session
  BY <1>1, <1>3, EndsOwned
<1> QED
  BY <1>2, <1>3 DEF Open

LEMMA EnrolmentOwned ==
  ASSUME Typed, Owned, NEW c \in Client,
         GenerateKey(c) \/ CreateKey(c) \/ Load(c) \/ StoreCreate(c) \/ StoreWrite(c)
  PROVE  Owned'
<1>1. /\ cl[c].pc \in SessionPoints /\ cl[c].pc # "issuer" /\ cl[c].pc \notin VerifierPoints
      /\ cl[c] \in ClientRecord /\ cl \in [Client -> ClientState]
      /\ UNCHANGED <<issuer, verifier>>
  BY DEF GenerateKey, CreateKey, Load, StoreCreate, StoreWrite, SessionPoints, VerifierPoints,
         Typed, ClientState
<1>2. CASE (End(c, "failed") \/ End(c, "stored")) /\ CloseSession
  BY <1>1, <1>2, EndsOwned
<1>3. ASSUME NEW pc \in {"create", "storeCreate", "storeWrite"}, UNCHANGED session,
             cl'[c].pc = pc, \A d \in Client \ {c} : cl'[d].pc = cl[d].pc
      PROVE  Owned'
  <2>1. pc \in SessionPoints /\ pc # "issuer" /\ pc \notin VerifierPoints
    BY <1>3 DEF SessionPoints, VerifierPoints
  <2> QED
    BY <1>1, <1>3, <2>1, CarriesOn
<1>4. CASE UNCHANGED session /\ \E k \in Key : cl' = [cl EXCEPT ![c].key = k, ![c].pc = "create"]
  <2>1. cl'[c].pc = "create" /\ \A d \in Client \ {c} : cl'[d].pc = cl[d].pc
    BY <1>1, <1>4 DEF ClientRecord
  <2> QED
    BY <1>3, <1>4, <2>1
<1>5. CASE UNCHANGED session
           /\ \E t \in {file[doc(c)], Empty} : cl' = [cl EXCEPT ![c].tok = t, ![c].pc = "storeCreate"]
  <2>1. cl'[c].pc = "storeCreate" /\ \A d \in Client \ {c} : cl'[d].pc = cl[d].pc
    BY <1>1, <1>5 DEF ClientRecord
  <2> QED
    BY <1>3, <1>5, <2>1
<1>6. CASE Goto(c, "storeWrite") /\ UNCHANGED session
  BY <1>3, <1>6, Went
<1>7. CASE Goto(c, "request") /\ CloseSession
  <2>1. "request" \notin SessionPoints /\ "request" \notin VerifierPoints
    BY Points
  <2>2. cl'[c].pc = "request" /\ \A d \in Client \ {c} : cl'[d].pc = cl[d].pc
    BY <1>7, Went
  <2> QED
    BY <1>1, <1>7, <2>1, <2>2, CarriesOn DEF CloseSession
<1> QED
  BY <1>2, <1>4, <1>5, <1>6, <1>7 DEF GenerateKey, CreateKey, Load, StoreCreate, StoreWrite

LEMMA StartOwned ==
  ASSUME Typed, Owned, NEW c \in Client, StartEnrolment(c) \/ Connect(c)
  PROVE  Owned'
<1>1. cl[c].pc = "idle" /\ UNCHANGED <<session, issuer>> /\ c \notin ToSet(verifier)
  BY Points DEF StartEnrolment, Connect, Owned
<1>2. PICK x \in Doc, pc \in {"genkey", "challenge"} :
        /\ cl' = [cl EXCEPT ![c] = [Ended("none") EXCEPT !.pc = pc, !.doc = x]]
        /\ pc = "genkey" => verifier' = verifier
        /\ pc = "challenge" => verifier' = Append(verifier, c)
  BY DEF StartEnrolment, Connect
<1> DEFINE r == [Ended("none") EXCEPT !.pc = pc, !.doc = x]
<1>3. r.pc = pc /\ cl' = [cl EXCEPT ![c] = r]
  BY <1>2 DEF Ended
<1> HIDE DEF r
<1>4. cl'[c].pc = pc /\ \A d \in Client \ {c} : cl'[d].pc = cl[d].pc
  BY <1>3, Replaced
<1>5. Beside(issuer, issuer', c) /\ c \notin ToSet(issuer')
  BY <1>1, Stays DEF Owned
<1>6. Beside(verifier, verifier', c) /\ (c \in ToSet(verifier') <=> pc \in VerifierPoints)
  <2>1. CASE pc = "genkey"
    BY <1>1, <1>2, <2>1, Stays, Points DEF Owned
  <2>2. CASE pc = "challenge"
    BY <1>1, <1>2, <2>2, Joins, Points DEF Owned
  <2> QED
    BY <2>1, <2>2
<1>7. pc \notin SessionPoints /\ cl[c].pc \notin SessionPoints /\ pc # "issuer"
  BY <1>1, <1>2, Points
<1> QED
  BY <1>1, <1>4, <1>5, <1>6, <1>7, Carries

LEMMA RelayOwned ==
  ASSUME Typed, Owned, NEW c \in Client, Request(c) \/ WriteFile(c)
  PROVE  Owned'
<1>1. CASE Request(c)
  <2>1. /\ cl[c].pc = "request" /\ UNCHANGED <<session, verifier>> /\ issuer' = Append(issuer, c)
        /\ cl'[c].pc = "issuer" /\ \A d \in Client \ {c} : cl'[d].pc = cl[d].pc
    BY <1>1, Went DEF Request
  <2>2. /\ "request" \notin SessionPoints /\ "issuer" \notin SessionPoints
        /\ "request" \notin VerifierPoints /\ "issuer" \notin VerifierPoints
    BY Points
  <2>3. Beside(issuer, issuer', c) /\ c \in ToSet(issuer')
    BY <2>1, Joins DEF Owned
  <2>4. Beside(verifier, verifier', c) /\ c \notin ToSet(verifier')
    BY <2>1, <2>2, Stays DEF Owned
  <2> QED
    BY <2>1, <2>2, <2>3, <2>4, Carries
<1>2. CASE WriteFile(c)
  <2>1. /\ cl[c].pc \in {"truncate", "write"} /\ UNCHANGED <<session, issuer, verifier>>
    BY <1>2 DEF WriteFile
  <2>2. cl'[c].pc \in {"write", "store"} /\ \A d \in Client \ {c} : cl'[d].pc = cl[d].pc
    BY <1>2 DEF WriteFile, Typed, ClientState, ClientRecord
  <2>3. /\ cl[c].pc \notin SessionPoints /\ cl[c].pc \notin VerifierPoints
        /\ cl'[c].pc \notin SessionPoints /\ cl'[c].pc \notin VerifierPoints
        /\ cl[c].pc # "issuer" /\ cl'[c].pc # "issuer"
    BY <2>1, <2>2, Points
  <2> QED
    BY <2>1, <2>2, <2>3, CarriesOn
<1> QED
  BY <1>1, <1>2

LEMMA PresentationOwned ==
  ASSUME Typed, Owned, NEW c \in Client, CreatePresentation(c)
  PROVE  Owned'
<1> DEFINE t == token[doc(c)]
           shown == Disclosed(t, cl[c].req)
           shownToken == IF t \in Token THEN [t EXCEPT !.claims = shown] ELSE t
<1>1. /\ cl[c].pc \in {"invoke", "retry"} /\ UNCHANGED issuer
      /\ cl[c] \in ClientRecord /\ cl \in [Client -> ClientState]
  BY DEF CreatePresentation, Typed, ClientState
<1>2. cl[c].pc \in SessionPoints /\ cl[c].pc \in VerifierPoints /\ cl[c].pc # "issuer"
  BY <1>1, Points
<1>3. CASE NoPresentation(c)
  BY <1>1, <1>2, <1>3, EndsOwned DEF NoPresentation
<1>4. CASE /\ CloseSession /\ UNCHANGED verifier
           /\ cl' = [cl EXCEPT ![c].pc = "verdict", ![c].size = InitialBuffer, ![c].req = {},
                               ![c].key = holderKey[doc(c)], ![c].tok = shownToken]
  <2> HIDE DEF shownToken
  <2>1. cl'[c].pc = "verdict" /\ \A d \in Client \ {c} : cl'[d].pc = cl[d].pc
    BY <1>1, <1>4 DEF ClientRecord
  <2>2. "verdict" \notin SessionPoints /\ "verdict" \in VerifierPoints
    BY Points
  <2> QED
    BY <1>1, <1>2, <1>4, <2>1, <2>2, CarriesOn DEF CloseSession
<1>5. CASE /\ UNCHANGED <<session, verifier>>
           /\ cl' = [cl EXCEPT ![c].pc = "retry", ![c].size = Cardinality(shown)]
  <2> HIDE DEF shown
  <2>1. cl'[c].pc = "retry" /\ \A d \in Client \ {c} : cl'[d].pc = cl[d].pc
    BY <1>1, <1>5 DEF ClientRecord
  <2>2. "retry" \in SessionPoints /\ "retry" \in VerifierPoints
    BY Points
  <2> QED
    BY <1>1, <1>2, <1>5, <2>1, <2>2, CarriesOn
<1> QED
  BY <1>3, <1>4, <1>5 DEF CreatePresentation

LEMMA IssuerOwned ==
  ASSUME Typed, Owned, StartIssuer
  PROVE  Owned'
<1> DEFINE c == Head(issuer)
<1>1. issuer # <<>> /\ cl[c].pc = "issuer" /\ UNCHANGED <<session, verifier>>
      /\ issuer' = Tail(issuer)
  BY DEF StartIssuer
<1>2. c \in Client /\ Beside(issuer, issuer', c) /\ c \notin ToSet(issuer')
  BY <1>1, Served DEF Owned
<1>3. PICK t : cl' = [cl EXCEPT ![c].tok = t, ![c].key = Absent, ![c].pc = "truncate"]
  BY DEF StartIssuer
<1> HIDE DEF c
<1>4. cl'[c].pc = "truncate" /\ \A d \in Client \ {c} : cl'[d].pc = cl[d].pc
  BY <1>2, <1>3 DEF Typed, ClientState, ClientRecord
<1>5. /\ "issuer" \notin SessionPoints /\ "truncate" \notin SessionPoints
      /\ "issuer" \notin VerifierPoints /\ "truncate" \notin VerifierPoints
  BY Points
<1>6. Beside(verifier, verifier', c) /\ c \notin ToSet(verifier')
  BY <1>1, <1>2, <1>5, Stays DEF Owned
<1> QED
  BY <1>1, <1>2, <1>4, <1>5, <1>6, Carries

LEMMA VerifierOwned ==
  ASSUME Typed, Owned, SendChallenge \/ SendVerdict
  PROVE  Owned'
<1> DEFINE c == Head(verifier)
<1>1. verifier # <<>> /\ UNCHANGED <<session, issuer>>
  BY DEF SendChallenge, SendVerdict
<1>2. /\ c \in Client /\ c \in ToSet(verifier)
      /\ Beside(verifier, Tail(verifier), c) /\ c \notin ToSet(Tail(verifier))
  BY <1>1, Served DEF Owned
<1>3. CASE SendChallenge
  <2>1. PICK s : cl' = [cl EXCEPT ![c].req = s, ![c].pc = "present"]
    BY <1>3 DEF SendChallenge
  <2>2. cl[c].pc = "challenge" /\ UNCHANGED verifier
    BY <1>3 DEF SendChallenge
  <2> HIDE DEF c
  <2>3. cl'[c].pc = "present" /\ \A d \in Client \ {c} : cl'[d].pc = cl[d].pc
    BY <1>2, <2>1 DEF Typed, ClientState, ClientRecord
  <2>4. /\ "challenge" \notin SessionPoints /\ "present" \notin SessionPoints
        /\ "challenge" \in VerifierPoints /\ "present" \in VerifierPoints
    BY Points
  <2> QED
    BY <1>1, <1>2, <2>2, <2>3, <2>4, CarriesOn
<1>4. CASE SendVerdict
  <2>1. PICK out \in {"accepted", "rejected"} : End(c, out)
    BY <1>4 DEF SendVerdict
  <2>2. cl[c].pc = "verdict" /\ verifier' = Tail(verifier)
    BY <1>4 DEF SendVerdict
  <2> HIDE DEF c
  <2>3. cl'[c].pc = "idle" /\ \A d \in Client \ {c} : cl'[d].pc = cl[d].pc
    BY <1>2, <2>1, EndedPoint
  <2>4. /\ "verdict" \notin SessionPoints /\ "idle" \notin SessionPoints
        /\ "idle" \notin VerifierPoints
    BY Points
  <2>5. Beside(issuer, issuer', c) /\ c \notin ToSet(issuer')
    BY <1>1, <1>2, <2>2, Stays DEF Owned
  <2> QED
    BY <1>1, <1>2, <2>2, <2>3, <2>4, <2>5, Carries
<1> QED
  BY <1>3, <1>4

LEMMA KillOwned ==
  ASSUME Typed, Owned, NEW c \in Client, Kill(c)
  PROVE  Owned'
<1>1. cl'[c].pc = "idle" /\ \A d \in Client \ {c} : cl'[d].pc = cl[d].pc
  BY EndedPoint DEF Kill
<1>2. /\ Beside(issuer, issuer', c) /\ c \notin ToSet(issuer')
      /\ Beside(verifier, verifier', c) /\ c \notin ToSet(verifier')
  BY Leaving DEF Kill, Owned
<1>3. "idle" \notin SessionPoints /\ "idle" \notin VerifierPoints
  BY Points
<1>4. session' = IF session = c THEN Nobody ELSE session
  BY DEF Kill
<1> QED
  BY <1>1, <1>2, <1>3, <1>4, Carries

\* Nobody has a session or a connection: at the start, and after a restart.
LEMMA NobodyOwns ==
  ASSUME session = Nobody, issuer = <<>>, verifier = <<>>,
         \A c \in Client : cl[c].pc = "idle"
  PROVE  Owned
<1>1. \A q : q = <<>> => Once(q) /\ ToSet(q) = {}
  BY DEF Once, ToSet
<1>2. "idle" \notin SessionPoints /\ "idle" \notin VerifierPoints
  BY Points
<1> QED
  BY <1>1, <1>2, SdJwtConstants DEF Owned

LEMMA NextOwned == Typed /\ Owned /\ [Next]_vars => Owned'
<1> SUFFICES ASSUME Typed, Owned, [Next]_vars PROVE Owned'
  OBVIOUS
<1>1. ASSUME NEW c \in Client, GenKey(c) \/ Store(c) \/ Present(c)
      PROVE  Owned'
  BY <1>1, OpenOwned DEF GenKey, Store, Present
<1>2. ASSUME NEW c \in Client, ClientStep(c)
      PROVE  Owned'
  BY <1>1, <1>2, EnrolmentOwned, RelayOwned, PresentationOwned DEF ClientStep
<1>3. CASE PowerLoss
  <2>1. /\ session' = Nobody /\ issuer' = <<>> /\ verifier' = <<>>
        /\ \A c \in Client : cl'[c].pc = "idle"
    BY <1>3, EndedType DEF PowerLoss
  <2>2. \A q : q = <<>> => Once(q) /\ ToSet(q) = {}
    BY DEF Once, ToSet
  <2>3. "idle" \notin SessionPoints /\ "idle" \notin VerifierPoints
    BY Points
  <2> QED
    BY <2>1, <2>2, <2>3, SdJwtConstants DEF Owned
<1>4. CASE UNCHANGED vars
  BY <1>4 DEF vars, Owned, Once, ToSet
<1> QED
  BY <1>2, <1>3, <1>4, StartOwned, IssuerOwned, VerifierOwned, KillOwned DEF Next, ServerStep

(***************************************************************************)
(* The session in the TA and every connection have an owner that is at a   *)
(* point of client.py where it uses them: none is left behind, whichever   *)
(* command fails and whenever a client is killed (host/main.c: every       *)
(* return after opening the session closes it; client.py: the sockets).    *)
(***************************************************************************)
THEOREM TypeCorrect == Spec => []TypeOK
<1>1. Init => Owned
  <2> SUFFICES ASSUME Init PROVE Owned
    OBVIOUS
  <2>1. \A c \in Client : cl[c].pc = "idle"
    BY EndedType DEF Init
  <2> QED
    BY <2>1, NobodyOwns DEF Init
<1>2. IInv => Typed
  BY DEF IInv
<1>3. Typed /\ Owned => TypeOK
  BY DEF TypeOK, Owned
<1> QED
  BY <1>1, <1>2, <1>3, NextOwned, Invariance, PTL DEF Spec

=============================================================================
