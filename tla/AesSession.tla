------------------------------ MODULE AesSession ------------------------------
(***************************************************************************)
(* The AES example: a session of the TA (optee_examples/aes/ta/aes_ta.c)   *)
(* and its client, the host program (optee_examples/aes/host/main.c) or    *)
(* another one that calls the commands in any order.                       *)
(*                                                                         *)
(* TA_FLAGS is 0, so that a session has an instance of its own and shares  *)
(* nothing: every command is one step.  The five algorithms fall into the  *)
(* two classes that the code tells apart, plain and authenticated.  The    *)
(* API (external) panics when an operation is missing, of another class,   *)
(* has no key, or is not in the state the call requires; a panic ends the  *)
(* session and releases everything it holds.                               *)
(***************************************************************************)
EXTENDS Naturals, Sequences, SessionHandles

CONSTANTS
    AesKey,     \* keys a client may load, of any length
    HostKey,    \* the key of the host program, 16 bytes 0xa5
    Dummy,      \* the zero key alloc_resources loads
    NoKey,      \* an object or operation without key
    Clear,      \* the clear text
    Garbage,    \* the result of deciphering anything else
    Invalid     \* a parameter the conversions refuse, and an unset field

ASSUME AesConstants ==
    /\ HostKey \in AesKey
    /\ Dummy \notin AesKey /\ NoKey \notin AesKey \union {Dummy}
    /\ Clear # Garbage

VARIABLES
    aes,        \* struct aes_cipher
    aesHeap,    \* what the handles of the instance stand for
    aesRes,     \* result of the last command
    aesOut,     \* output buffer of the last command
    aesClient,  \* "none", "host", "failed" (the host after an error), "other"
    aesPc,      \* index of the host's next command
    aesArg,     \* the algorithm class the host was started with
    aesLoaded   \* history: the key the last successful PREPARE or SET_KEY set

aesVars == <<aes, aesHeap, aesRes, aesOut, aesClient, aesPc, aesArg, aesLoaded>>

AesAlgo == {"plain", "authenticated"}
AesMode == {"encode", "decode"}
AesSize == {16, 32}
AesText == [algo : AesAlgo, key : AesKey \union {Dummy}]

\* What a handle can stand for.
AesOperations == [algo : AesAlgo, mode : AesMode, size : AesSize,
                  key : AesKey \union {Dummy}, active : BOOLEAN]
AesObjects    == [size : AesSize, key : AesKey \union {Dummy, NoKey}]

ASSUME AesHandleValues ==
    \A none \in {Unused, Broken} : none \notin AesOperations \union AesObjects

AesClosed == [open |-> FALSE, algo |-> Invalid, size |-> 0, mode |-> Invalid,
              op |-> Null, obj |-> Null]

AesInit ==
    /\ aes = AesClosed
    /\ aesHeap = EmptyHeap
    /\ aesRes = "SUCCESS"
    /\ aesOut = Garbage
    /\ aesClient = "none"
    /\ aesPc = 1
    /\ aesArg = "plain"
    /\ aesLoaded = NoKey

AesReturn(res) == aesRes' = res /\ UNCHANGED aesOut

AesUnchanged(res) == AesReturn(res) /\ UNCHANGED <<aes, aesHeap, aesLoaded>>

\* TEE_Panic: the instance and its handles are gone.
AesPanic ==
    /\ aes' = AesClosed
    /\ aesHeap' = EmptyHeap
    /\ AesReturn("TARGET_DEAD")
    /\ UNCHANGED aesLoaded

AesOperation == aesHeap[aes.op]

-----------------------------------------------------------------------------
(***************************************************************************)
(* alloc_resources                                                         *)
(***************************************************************************)

\* The three conversions, each of which stores its result in the session
\* before the next one can refuse.
ta2tee_ids(a, s, m) ==
    LET algoOK == a # Invalid
        sizeOK == algoOK /\ s \in AesSize
    IN  [aes EXCEPT !.algo = IF algoOK THEN a ELSE @,
                    !.size = IF sizeOK THEN s ELSE @,
                    !.mode = IF sizeOK /\ m # Invalid THEN m ELSE @]

AesAccepted(a, s, m) == a # Invalid /\ s \in AesSize /\ m # Invalid

\* err: what the session holds is released.
AesRelease(s, heap) ==
    /\ aes' = [s EXCEPT !.op = Null, !.obj = Null]
    /\ aesHeap' = Freed(Freed(heap, s.op), s.obj)
    /\ AesReturn("OUT_OF_MEMORY")
    /\ UNCHANGED aesLoaded

\* Faulty variant: the mode of an earlier PREPARE is kept.
AesPrepareKeepsMode(a, s, m) ==
    LET sess  == [ta2tee_ids(a, s, m) EXCEPT !.mode = IF aes.mode = Invalid THEN m ELSE aes.mode]
        heap1 == Freed(aesHeap, aes.op)
    IN  /\ AesAccepted(a, s, m)
        /\ \E h \in Fresh(heap1) :
              LET heap2 == [heap1 EXCEPT ![h] = [algo |-> a, mode |-> sess.mode, size |-> s,
                                                 key |-> Dummy, active |-> FALSE]]
                  heap3 == Freed(heap2, aes.obj)
              IN  \E o \in Fresh(heap3) :
                      /\ aesHeap' = [heap3 EXCEPT ![o] = [size |-> s, key |-> Dummy]]
                      /\ aes' = [sess EXCEPT !.op = h, !.obj = o]
        /\ aesLoaded' = Dummy
        /\ AesReturn("SUCCESS")

\* The operation, then the key object, are freed and allocated again, and
\* the dummy key is loaded; each of these calls may fail.
alloc_resources(a, s, m) ==
    LET sess  == ta2tee_ids(a, s, m)
        heap1 == Freed(aesHeap, aes.op)
    IN  \/ /\ ~AesAccepted(a, s, m)
           /\ aes' = sess
           /\ AesReturn("BAD_PARAMETERS")
           /\ UNCHANGED <<aesHeap, aesLoaded>>
        \/ /\ AesAccepted(a, s, m)
           /\ AesRelease([sess EXCEPT !.op = Null], heap1)
        \/ /\ AesAccepted(a, s, m)
           /\ \E h \in Fresh(heap1) :
              LET heap2 == [heap1 EXCEPT ![h] = [algo |-> a, mode |-> m, size |-> s,
                                                 key |-> Dummy, active |-> FALSE]]
                  heap3 == Freed(heap2, aes.obj)
              IN  \/ AesRelease([sess EXCEPT !.op = h, !.obj = Null], heap3)
                  \/ \E o \in Fresh(heap3) :
                        LET heap4 == [heap3 EXCEPT ![o] = [size |-> s, key |-> Dummy]]
                            ready == [sess EXCEPT !.op = h, !.obj = o]
                        IN  \/ AesRelease(ready, heap4)
                            \/ /\ aesHeap' = heap4
                               /\ aes' = ready
                               /\ aesLoaded' = Dummy
                               /\ AesReturn("SUCCESS")

-----------------------------------------------------------------------------
(***************************************************************************)
(* set_aes_key, reset_aes_iv, cipher_buffer, auth_enc_op                   *)
(***************************************************************************)

\* Faulty variant: the operation is not given the new key.
set_aes_key_skips(k, s) ==
    \/ /\ s # aes.size
       /\ AesUnchanged("BAD_PARAMETERS")
    \/ /\ s = aes.size
       /\ aes.obj = Null
       /\ AesPanic
    \/ /\ s = aes.size
       /\ aes.obj # Null
       /\ aesHeap' = [aesHeap EXCEPT ![aes.obj].key = k]
       /\ aesLoaded' = k
       /\ AesReturn("SUCCESS")
       /\ UNCHANGED aes

\* A key that does not fit into the object, or memory that is missing,
\* leaves the object empty and the operation with the key it had.
set_aes_key(k, s) ==
    \/ /\ s # aes.size
       /\ AesUnchanged("BAD_PARAMETERS")
    \/ /\ s = aes.size
       /\ aes.obj = Null
       /\ AesPanic
    \/ /\ s = aes.size
       /\ aes.obj # Null
       /\ aesHeap' = [aesHeap EXCEPT ![aes.obj].key = NoKey]
       /\ AesReturn("BAD_PARAMETERS")
       /\ UNCHANGED <<aes, aesLoaded>>
    \/ /\ s = aes.size
       /\ aes.obj # Null
       /\ s <= aesHeap[aes.obj].size
       /\ aesHeap' = [aesHeap EXCEPT ![aes.obj].key = k,
                                     ![aes.op].key = k, ![aes.op].active = FALSE]
       /\ aesLoaded' = k
       /\ AesReturn("SUCCESS")
       /\ UNCHANGED aes

\* TEE_CipherInit without any test.
reset_aes_iv ==
    IF aes.op # Null /\ AesOperation.algo = "plain"
    THEN /\ aesHeap' = [aesHeap EXCEPT ![aes.op].active = TRUE]
         /\ AesReturn("SUCCESS")
         /\ UNCHANGED <<aes, aesLoaded>>
    ELSE AesPanic

\* What the operation makes of an input.
AesResult(in) ==
    IF AesOperation.mode = "encode"
    THEN IF in = Clear THEN [algo |-> AesOperation.algo, key |-> AesOperation.key] ELSE Garbage
    ELSE IF in = [algo |-> AesOperation.algo, key |-> AesOperation.key] THEN Clear ELSE Garbage

AesProcess(in) ==
    /\ aesRes' = "SUCCESS"
    /\ aesOut' = AesResult(in)
    /\ UNCHANGED <<aes, aesHeap, aesLoaded>>

cipher_buffer(in, fits) ==
    \/ ~fits /\ AesUnchanged("BAD_PARAMETERS")
    \/ fits /\ aes.op = Null /\ AesUnchanged("BAD_STATE")
    \/ /\ fits
       /\ aes.op # Null
       /\ IF AesOperation.active /\ AesOperation.algo = "plain"
          THEN AesProcess(in)
          ELSE AesPanic

(***************************************************************************)
(* The output buffer is allocated before TEE_AEInit and the tag buffer     *)
(* behind it: a failure of the second one, or of the final call, leaves    *)
(* the operation initialised, and the next AUTHENC panics in TEE_AEInit.   *)
(***************************************************************************)
auth_enc_op(in, mode) ==
    LET ready == aes.op # Null /\ AesOperation.algo = "authenticated" /\ ~AesOperation.active
        Initialised(res) ==
            /\ aesHeap' = [aesHeap EXCEPT ![aes.op].active = TRUE]
            /\ AesReturn(res)
            /\ UNCHANGED <<aes, aesLoaded>>
    IN  \/ AesUnchanged("OUT_OF_MEMORY")
        \/ ~ready /\ AesPanic
        \/ ready /\ mode = "encode" /\ Initialised("OUT_OF_MEMORY")
        \/ ready /\ mode # AesOperation.mode /\ AesPanic
        \/ /\ ready
           /\ mode = AesOperation.mode
           /\ \/ Initialised("SHORT_BUFFER")
              \/ mode = "decode" /\ AesResult(in) = Garbage /\ Initialised("MAC_INVALID")
              \/ /\ mode = "decode" => AesResult(in) # Garbage
                 /\ AesProcess(in)

-----------------------------------------------------------------------------
(***************************************************************************)
(* Entry points                                                            *)
(***************************************************************************)
AesOpenSession ==
    /\ ~aes.open
    /\ \/ /\ aes' = [AesClosed EXCEPT !.open = TRUE]
          /\ AesReturn("SUCCESS")
       \/ /\ AesReturn("OUT_OF_MEMORY")
          /\ UNCHANGED aes
    /\ UNCHANGED <<aesHeap, aesLoaded>>

\* Faulty variant: the key object is not released.
AesCloseSessionKeepsObject ==
    /\ aes.open
    /\ aes' = AesClosed
    /\ aesHeap' = Freed(aesHeap, aes.op)
    /\ AesReturn("SUCCESS")
    /\ UNCHANGED aesLoaded

AesCloseSession ==
    /\ aes.open
    /\ aes' = AesClosed
    /\ aesHeap' = Freed(Freed(aesHeap, aes.obj), aes.op)
    /\ AesReturn("SUCCESS")
    /\ UNCHANGED aesLoaded

AesCommand ==
    [cmd : {"PREPARE"}, algo : AesAlgo \union {Invalid}, size : AesSize \union {0},
     mode : AesMode \union {Invalid}]
    \union [cmd : {"SET_KEY"}, key : AesKey, size : AesSize \union {0}]
    \union [cmd : {"SET_IV", "OTHER"}]
    \union [cmd : {"CIPHER"}, in : AesText \union {Clear}, fits : BOOLEAN]
    \union [cmd : {"AUTHENC"}, in : AesText \union {Clear}, mode : AesMode]

\* TA_InvokeCommandEntryPoint.  Wrong parameter types have no effect.
AesInvokeCommand(c) ==
    /\ aes.open
    /\ \/ c.cmd = "PREPARE" /\ alloc_resources(c.algo, c.size, c.mode)
       \/ c.cmd = "SET_KEY" /\ set_aes_key(c.key, c.size)
       \/ c.cmd = "SET_IV" /\ reset_aes_iv
       \/ c.cmd = "CIPHER" /\ cipher_buffer(c.in, c.fits)
       \/ c.cmd = "AUTHENC" /\ auth_enc_op(c.in, c.mode)
       \/ c.cmd = "OTHER" /\ AesUnchanged("NOT_SUPPORTED")

-----------------------------------------------------------------------------
(***************************************************************************)
(* The host program                                                        *)
(***************************************************************************)
prepare_aes(mode) == [cmd |-> "PREPARE", algo |-> aesArg, size |-> 16, mode |-> mode]

set_key == [cmd |-> "SET_KEY", key |-> HostKey, size |-> 16]

set_iv == [cmd |-> "SET_IV"]

host_cipher_buffer(in) == [cmd |-> "CIPHER", in |-> in, fits |-> TRUE]

host_auth_enc_op(in, mode) == [cmd |-> "AUTHENC", in |-> in, mode |-> mode]

\* main, between opening and closing the session: a clear text is encoded,
\* and the output decoded in a newly prepared operation.
AesHostProgram ==
    IF aesArg = "authenticated"
    THEN <<prepare_aes("encode"), set_key, host_auth_enc_op(Clear, "encode"),
           prepare_aes("decode"), set_key, host_auth_enc_op(aesOut, "decode")>>
    ELSE <<prepare_aes("encode"), set_key, set_iv, host_cipher_buffer(Clear),
           prepare_aes("decode"), set_key, set_iv, host_cipher_buffer(aesOut)>>

\* prepare_tee_session, by the host program or another client.
AesStart ==
    /\ aesClient = "none"
    /\ AesOpenSession
    /\ \E client \in {"host", "other"} :
          aesClient' = IF aesRes' = "SUCCESS" THEN client ELSE "none"
    /\ aesPc' = 1
    /\ aesArg' \in AesAlgo

\* The next command; errx on any result but success.
AesHostStep ==
    /\ aesClient = "host"
    /\ aesPc <= Len(AesHostProgram)
    /\ AesInvokeCommand(AesHostProgram[aesPc])
    /\ IF aesRes' = "SUCCESS"
       THEN aesPc' = aesPc + 1 /\ UNCHANGED aesClient
       ELSE aesClient' = "failed" /\ UNCHANGED aesPc
    /\ UNCHANGED aesArg

AesOtherStep ==
    /\ aesClient = "other"
    /\ \E c \in AesCommand : AesInvokeCommand(c)
    /\ UNCHANGED <<aesClient, aesPc, aesArg>>

\* terminate_tee_session, or the end of a client process at any time: the
\* session is closed unless the TA is dead.
AesEnd ==
    /\ aesClient # "none"
    /\ \/ AesCloseSession
       \/ ~aes.open /\ AesUnchanged(aesRes)
    /\ aesClient' = "none"
    /\ UNCHANGED <<aesPc, aesArg>>

AesNext == AesStart \/ AesHostStep \/ AesOtherStep \/ AesEnd

AesSpec == AesInit /\ [][AesNext]_aesVars

-----------------------------------------------------------------------------
(***************************************************************************)
(* Properties                                                              *)
(***************************************************************************)
\* Every variable keeps its type, and each handle is of its kind.
AesTypeOK ==
    /\ aes \in [open : BOOLEAN, algo : AesAlgo \union {Invalid}, size : AesSize \union {0},
                mode : AesMode \union {Invalid}, op : Handle \union {Null},
                obj : Handle \union {Null}]
    /\ aes.op # Null => aesHeap[aes.op] \in AesOperations
    /\ aes.obj # Null => aesHeap[aes.obj] \in AesObjects
    /\ aesLoaded \in AesKey \union {Dummy, NoKey}

\* Whatever calls failed before, the context names exactly the operation
\* and the object that exist: none is lost, none is named after it was
\* freed, none is freed twice, and both are there or none is.
AesHandles ==
    /\ Live(aesHeap) = {aes.op, aes.obj} \ {Null}
    /\ \A h \in Handle : aesHeap[h] # Broken
    /\ aes.op = Null <=> aes.obj = Null
    /\ aes.op # Null => aes.op # aes.obj /\ aes.open

\* Data are processed with the key of the last SET_KEY that succeeded since
\* the last successful PREPARE: a refused key changes nothing.
AesKeyInUse == aes.op # Null => AesOperation.key = aesLoaded

\* The host program never makes the TA panic, and when every call succeeds
\* it gets its clear text back.
AesHostDecodes ==
    /\ aesClient \in {"host", "failed"} => aesRes # "TARGET_DEAD"
    /\ aesClient = "host" /\ aesPc > Len(AesHostProgram) => aesOut = Clear

=============================================================================
