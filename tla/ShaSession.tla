------------------------------ MODULE ShaSession ------------------------------
(***************************************************************************)
(* The SHA example: a session of the TA (optee_examples/sha/ta/sha_ta.c)   *)
(* and its client, the host program (optee_examples/sha/host/main.c) or    *)
(* another one that calls the commands in any order.                       *)
(*                                                                         *)
(* As in AesSession a session has its instance, a command is one step, and *)
(* a call that the API (external) does not allow panics.  A MAC is named   *)
(* by the key and the sequence of messages the operation absorbed.         *)
(***************************************************************************)
EXTENDS Naturals, Sequences, SessionHandles

CONSTANTS
    Message,    \* messages to process
    MacKey,     \* keys a client may load
    ZeroKey,    \* the zero key alloc_resources loads
    HostMacKey, \* the key of the host program, all 0xa5
    NoOutput,   \* an output buffer without MAC
    MaxAbsorbed \* bound: messages absorbed by one operation

ASSUME ShaConstants ==
    HostMacKey \in MacKey /\ ZeroKey \notin MacKey /\ MaxAbsorbed \in Nat

VARIABLES
    sha,        \* struct sha_hmac_algo, without algo and mode: neither is read again
    shaHeap,    \* what the handles of the instance stand for
    shaRes,     \* result of the last command
    shaOut,     \* the last MAC handed out
    shaClient,  \* "none", "host", "failed" (the host after an error), "other"
    shaPc,      \* index of the host's next command
    shaArg      \* the host's algorithm, "mac" or "digest", and its message

shaVars == <<sha, shaHeap, shaRes, shaOut, shaClient, shaPc, shaArg>>

ShaSize == {16, 64}     \* key sizes the API accepts; a client may ask for any

\* What a handle can stand for.
ShaOperations == [kind : {"mac", "digest"}, key : MacKey \union {ZeroKey}, active : BOOLEAN,
                  data : Seq(Message)]
ShaObjects    == [kind : {"key"}, size : ShaSize, key : MacKey \union {ZeroKey}]

ASSUME ShaHandleValues ==
    \A none \in {Unused, Broken} : none \notin ShaOperations \union ShaObjects

ShaClosed == [open |-> FALSE, size |-> 0, op |-> Null, obj |-> Null]

ShaInit ==
    /\ sha = ShaClosed
    /\ shaHeap = EmptyHeap
    /\ shaRes = "SUCCESS"
    /\ shaOut = NoOutput
    /\ shaClient = "none"
    /\ shaPc = 1
    /\ shaArg \in [kind : {"mac"}, msg : Message]

ShaReturn(res) == shaRes' = res /\ UNCHANGED shaOut

ShaUnchanged(res) == ShaReturn(res) /\ UNCHANGED <<sha, shaHeap>>

\* TEE_Panic: the instance and its handles are gone.
ShaPanic ==
    /\ sha' = ShaClosed
    /\ shaHeap' = EmptyHeap
    /\ ShaReturn("TARGET_DEAD")

ShaOperation == shaHeap[sha.op]

MacOperation(key)  == [kind |-> "mac", key |-> key, active |-> FALSE, data |-> <<>>]
DigestOperation    == [kind |-> "digest", key |-> ZeroKey, active |-> FALSE, data |-> <<>>]
KeyObject(s, key)  == [kind |-> "key", size |-> s, key |-> key]

-----------------------------------------------------------------------------
(***************************************************************************)
(* compute_digest: the operation of an earlier command is not freed, its   *)
(* handle is lost; the new one stays in the session.                       *)
(***************************************************************************)

compute_digest ==
    \/ ShaUnchanged("OUT_OF_MEMORY")
    \/ \E h \in Fresh(shaHeap), res \in {"SUCCESS", "SHORT_BUFFER"} :
          /\ shaHeap' = [shaHeap EXCEPT ![h] = DigestOperation]
          /\ sha' = [sha EXCEPT !.op = h]
          /\ ShaReturn(res)

(***************************************************************************)
(* alloc_resources                                                         *)
(***************************************************************************)

\* err: what the session holds is released.
ShaRelease(s, heap) ==
    /\ sha' = [s EXCEPT !.op = Null, !.obj = Null]
    /\ shaHeap' = Freed(Freed(heap, s.op), s.obj)
    /\ ShaReturn("OUT_OF_MEMORY")

\* Faulty variant: the freed operation stays in the session when the next
\* one cannot be allocated.
ShaPrepareStale(s, fits) ==
    \/ ShaRelease([sha EXCEPT !.size = s], Freed(shaHeap, sha.op))
    \/ fits /\ s \in ShaSize /\ ShaUnchanged("SUCCESS")

\* The operation and the object are freed, their handles cleared, and both
\* allocated again with a dummy key; a size that does not fit the algorithm
\* makes one of the calls fail, as missing memory does.  A key of another
\* type than the algorithm takes fits until TEE_SetOperationKey panics.
ShaPrepare(s, fits) ==
    LET heap1 == Freed(shaHeap, sha.op)
        sess  == [sha EXCEPT !.size = s, !.op = Null]
    IN  \/ ShaUnchanged("BAD_PARAMETERS")
        \/ ShaRelease(sess, heap1)
        \/ /\ s \in ShaSize
           /\ \E h \in Fresh(heap1) :
              LET heap2 == Freed([heap1 EXCEPT ![h] = MacOperation(ZeroKey)], sha.obj)
                  sess2 == [sess EXCEPT !.op = h, !.obj = Null]
              IN  \/ ShaRelease(sess2, heap2)
                  \/ \E o \in Fresh(heap2) :
                        LET heap3 == [heap2 EXCEPT ![o] = KeyObject(s, ZeroKey)]
                            ready == [sess2 EXCEPT !.obj = o]
                        IN  \/ ShaRelease(ready, heap3)
                            \/ ~fits /\ ShaPanic
                            \/ fits /\ shaHeap' = heap3 /\ sha' = ready /\ ShaReturn("SUCCESS")

-----------------------------------------------------------------------------
(***************************************************************************)
(* set_sha_key, reset_sha_iv, sha_update_op, compare_hmac_sha_algo         *)
(***************************************************************************)

\* A key that cannot be put into the object leaves the operation as it was.
\* A digest operation has no key: TEE_SetOperationKey panics.
set_sha_key(k, s) ==
    IF sha.op = Null \/ sha.obj = Null THEN ShaUnchanged("BAD_STATE")
    ELSE IF s # sha.size THEN ShaUnchanged("BAD_PARAMETERS")
    ELSE \/ /\ shaHeap' = [shaHeap EXCEPT ![sha.obj].key = ZeroKey]
            /\ ShaReturn("BAD_PARAMETERS")
            /\ UNCHANGED sha
         \/ ShaOperation.kind = "digest" /\ ShaPanic
         \/ /\ ShaOperation.kind = "mac"
            /\ shaHeap' = [shaHeap EXCEPT ![sha.obj].key = k, ![sha.op] = MacOperation(k)]
            /\ ShaReturn("SUCCESS")
            /\ UNCHANGED sha

\* TEE_MACInit forgets what was absorbed.
reset_sha_iv ==
    IF sha.op = Null THEN ShaUnchanged("BAD_STATE")
    ELSE IF ShaOperation.kind = "digest" THEN ShaPanic
    ELSE /\ shaHeap' = [shaHeap EXCEPT ![sha.op].active = TRUE, ![sha.op].data = <<>>]
         /\ ShaReturn("SUCCESS")
         /\ UNCHANGED sha

Absorbed(n, msg) == ShaOperation.data \o [i \in 1..n |-> msg]

Mac(data) == [key |-> ShaOperation.key, data |-> data]

\* After the final call the operation has to be initialised again.
Finished == [shaHeap EXCEPT ![sha.op].active = FALSE, ![sha.op].data = <<>>]

Keep(data) == [shaHeap EXCEPT ![sha.op].data = data]

(***************************************************************************)
(* TEE_MACUpdate and TEE_MACComputeFinal both absorb the message.  When    *)
(* the output buffer is too small, the first of them stays absorbed, and a *)
(* retry absorbs the message twice more.                                   *)
(***************************************************************************)
sha_update_op(msg) ==
    IF sha.op = Null THEN ShaUnchanged("BAD_STATE")
    ELSE \/ ShaUnchanged("OUT_OF_MEMORY")
         \/ ~ShaOperation.active /\ ShaPanic
         \/ /\ ShaOperation.active
            /\ Len(ShaOperation.data) < MaxAbsorbed
            /\ \/ /\ shaHeap' = Finished
                  /\ shaRes' = "SUCCESS"
                  /\ shaOut' = Mac(Absorbed(2, msg))
               \/ /\ shaHeap' = Keep(Absorbed(1, msg))
                  /\ ShaReturn("SHORT_BUFFER")
            /\ UNCHANGED sha

\* Faulty variant: the message is absorbed once.
compare_once(msg, mac) ==
    IF sha.op = Null THEN ShaUnchanged("BAD_STATE")
    ELSE \/ ~ShaOperation.active /\ ShaPanic
         \/ /\ ShaOperation.active
            /\ shaHeap' = Finished
            /\ ShaReturn(IF mac = Mac(Absorbed(1, msg)) THEN "SUCCESS" ELSE "MAC_INVALID")
            /\ UNCHANGED sha

compare_hmac_sha_algo(msg, mac) ==
    IF sha.op = Null THEN ShaUnchanged("BAD_STATE")
    ELSE \/ ~ShaOperation.active /\ ShaPanic
         \/ /\ ShaOperation.active
            /\ shaHeap' = Finished
            /\ ShaReturn(IF mac = Mac(Absorbed(2, msg)) THEN "SUCCESS" ELSE "MAC_INVALID")
            /\ UNCHANGED sha

-----------------------------------------------------------------------------
(***************************************************************************)
(* Entry points                                                            *)
(***************************************************************************)
ShaOpenSession ==
    /\ ~sha.open
    /\ \/ sha' = [ShaClosed EXCEPT !.open = TRUE] /\ ShaReturn("SUCCESS")
       \/ UNCHANGED sha /\ ShaReturn("OUT_OF_MEMORY")
    /\ UNCHANGED shaHeap

\* The two handles are freed, and the instance ends with its session.
ShaCloseSession ==
    /\ sha.open
    /\ sha' = ShaClosed
    /\ shaHeap' = EmptyHeap
    /\ ShaReturn("SUCCESS")

ShaCommand ==
    [cmd : {"PREPARE"}, size : ShaSize \union {0}, fits : BOOLEAN]
    \union [cmd : {"SET_KEY"}, key : MacKey, size : ShaSize]
    \union [cmd : {"SET_IV", "COMPUTE_DIGEST", "OTHER"}]
    \union [cmd : {"COMPUTE_MAC"}, msg : Message]
    \union [cmd : {"COMPARE_MAC"}, msg : Message, mac : {shaOut, NoOutput}]

\* TA_InvokeCommandEntryPoint.  Wrong parameter types have no effect.
ShaInvokeCommand(c) ==
    /\ sha.open
    /\ \/ c.cmd = "PREPARE" /\ ShaPrepare(c.size, c.fits)
       \/ c.cmd = "SET_KEY" /\ set_sha_key(c.key, c.size)
       \/ c.cmd = "SET_IV" /\ reset_sha_iv
       \/ c.cmd = "COMPUTE_MAC" /\ sha_update_op(c.msg)
       \/ c.cmd = "COMPARE_MAC" /\ compare_hmac_sha_algo(c.msg, c.mac)
       \/ c.cmd = "COMPUTE_DIGEST" /\ compute_digest
       \/ c.cmd = "OTHER" /\ ShaUnchanged("NOT_SUPPORTED")

-----------------------------------------------------------------------------
(***************************************************************************)
(* The host program                                                        *)
(***************************************************************************)
prepare_hmac_sha == [cmd |-> "PREPARE", size |-> 64, fits |-> TRUE]
sha_set_key      == [cmd |-> "SET_KEY", key |-> HostMacKey, size |-> 64]
sha_set_iv       == [cmd |-> "SET_IV"]
sha_update_ops   == [cmd |-> "COMPUTE_MAC", msg |-> shaArg.msg]
compare_hmac_sha == [cmd |-> "COMPARE_MAC", msg |-> shaArg.msg, mac |-> shaOut]
host_compute_digest == [cmd |-> "COMPUTE_DIGEST"]

\* main, between opening and closing the session.
ShaHostProgram ==
    IF shaArg.kind = "digest" THEN <<host_compute_digest>>
    ELSE <<prepare_hmac_sha, sha_set_key, sha_set_iv, sha_update_ops,
           prepare_hmac_sha, sha_set_key, sha_set_iv, compare_hmac_sha>>

ShaStart ==
    /\ shaClient = "none"
    /\ ShaOpenSession
    /\ \E client \in {"host", "other"} :
          shaClient' = IF shaRes' = "SUCCESS" THEN client ELSE "none"
    /\ shaPc' = 1
    /\ shaArg' \in [kind : {"mac", "digest"}, msg : Message]

\* The next command; errx on any result but success, except that of the
\* comparison, which is printed.
ShaHostStep ==
    /\ shaClient = "host"
    /\ shaPc <= Len(ShaHostProgram)
    /\ ShaInvokeCommand(ShaHostProgram[shaPc])
    /\ IF shaRes' = "SUCCESS" \/ ShaHostProgram[shaPc].cmd = "COMPARE_MAC"
       THEN shaPc' = shaPc + 1 /\ UNCHANGED shaClient
       ELSE shaClient' = "failed" /\ UNCHANGED shaPc
    /\ UNCHANGED shaArg

ShaOtherStep ==
    /\ shaClient = "other"
    /\ \E c \in ShaCommand : ShaInvokeCommand(c)
    /\ UNCHANGED <<shaClient, shaPc, shaArg>>

\* terminate_tee_session, or the end of a client process at any time.
ShaEnd ==
    /\ shaClient # "none"
    /\ \/ ShaCloseSession
       \/ ~sha.open /\ ShaUnchanged(shaRes)
    /\ shaClient' = "none"
    /\ UNCHANGED <<shaPc, shaArg>>

ShaNext == ShaStart \/ ShaHostStep \/ ShaOtherStep \/ ShaEnd

ShaSpec == ShaInit /\ [][ShaNext]_shaVars

-----------------------------------------------------------------------------
(***************************************************************************)
(* Properties                                                              *)
(***************************************************************************)

\* Every variable keeps its type.
ShaTypeOK ==
    /\ sha \in [open : BOOLEAN, size : ShaSize \union {0}, op : Handle \union {Null},
                obj : Handle \union {Null}]
    /\ shaClient \in {"none", "host", "failed", "other"}
    /\ shaPc \in 1..9

\* The handles of the context stand for an operation and for an object
\* that exist, whatever failed before, and nothing is freed twice.
ShaHandles ==
    /\ \A h \in Handle : shaHeap[h] # Broken
    /\ sha.op # Null => sha.op \in Live(shaHeap) /\ ShaOperation.kind \in {"mac", "digest"}
    /\ sha.obj # Null => sha.obj \in Live(shaHeap) /\ shaHeap[sha.obj].kind = "key"

\* The host program never makes the TA panic, and the MAC it computed
\* matches when every call succeeded, although each side absorbs the message
\* twice.
ShaHostMatches ==
    /\ shaClient \in {"host", "failed"} => shaRes # "TARGET_DEAD"
    /\ shaClient = "host" /\ shaPc > Len(ShaHostProgram) => shaRes = "SUCCESS"

=============================================================================
