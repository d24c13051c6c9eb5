---------------------------- MODULE SecureStorage ----------------------------
(***************************************************************************)
(* The secure storage example: the TA                                      *)
(* (optee_examples/secure_storage/ta/secure_storage_ta.c), its host        *)
(* program (host/main.c), of which several may run, and other clients that *)
(* call the commands in any order.                                         *)
(*                                                                         *)
(* The TA is a single instance without TA_FLAG_MULTI_SESSION: while a      *)
(* client has its session, opening one is refused with BUSY (external), so *)
(* that only the two calls of a write, behind the first of which power can *)
(* be lost, need a step each.                                              *)
(***************************************************************************)
CONSTANTS
    StoreHost,      \* running host programs
    StoreOther,     \* other clients
    StoreObject,    \* object ids
    Obj1, Obj2,     \* the two of the host program
    Obj1Data,       \* 7000 bytes 0xA1
    Text,           \* the contents of object#2
    TooLong,        \* more than the 7000 bytes a host can read
    NoObject,       \* there is no object of this id
    NoData,         \* the object is empty
    NoHolder

ASSUME StoreConstants ==
    /\ {Obj1, Obj2} \subseteq StoreObject /\ Obj1 # Obj2
    /\ {Obj1Data, Text, TooLong} \intersect {NoObject, NoData} = {}
    /\ NoObject # NoData
    /\ NoHolder \notin StoreHost \union StoreOther
    /\ StoreHost \intersect StoreOther = {}

VARIABLES
    store,          \* contents of the persistent objects
    storeSession,   \* the client that has the session
    storePc,        \* next step of each client
    storeWriting,   \* the object and data of a write between its two calls
    storeTold       \* history: what the answers since the last creation of an
                    \* object said of it: the data written, and a deletion

storeVars == <<store, storeSession, storePc, storeWriting, storeTold>>

StoreClient == StoreHost \union StoreOther
StoreData == {Obj1Data, Text, TooLong}
NotWriting == [id |-> Obj1, data |-> NoData]
NothingTold == [data |-> NoData, deleted |-> FALSE]

StoreInit ==
    /\ store = [id \in StoreObject |-> NoObject]
    /\ storeSession = NoHolder
    /\ storePc = [c \in StoreClient |-> "start"]
    /\ storeWriting = NotWriting
    /\ storeTold = [id \in StoreObject |-> NothingTold]

-----------------------------------------------------------------------------
(***************************************************************************)
(* The host program: what each step invokes, and what it makes of the      *)
(* result.  errx ends it, and with it its session; a call of the storage   *)
(* API that panics the TA ends the session of whoever calls.               *)
(***************************************************************************)
HostSteps == {"write1", "read1", "delete1", "read2", "write2", "delete2"}

MayWrite(c, id, data) ==
    \/ storePc[c] = "write1" /\ id = Obj1 /\ data = Obj1Data
    \/ storePc[c] = "write2" /\ id = Obj2 /\ data = Text
    \/ storePc[c] = "any"

MayRead(c, id) ==
    \/ storePc[c] = "read1" /\ id = Obj1
    \/ storePc[c] = "read2" /\ id = Obj2
    \/ storePc[c] = "any"

MayDelete(c, id) ==
    \/ storePc[c] = "delete1" /\ id = Obj1
    \/ storePc[c] = "delete2" /\ id = Obj2
    \/ storePc[c] = "any"

After(step, res, data) ==
    CASE step = "any" /\ res # "TARGET_DEAD" -> "any"
      [] step = "write1" /\ res = "SUCCESS" -> "read1"
      [] step = "read1" /\ res = "SUCCESS" ->
            IF data = Obj1Data THEN "delete1" ELSE "unexpected"
      [] step = "delete1" /\ res = "SUCCESS" -> "read2"
      [] step = "read2" /\ res = "SUCCESS" -> "delete2"
      [] step = "read2" /\ res = "ITEM_NOT_FOUND" -> "write2"
      [] step \in {"write2", "delete2"} /\ res = "SUCCESS" -> "close"
      [] OTHER -> "failed"

Answered(c, res, data) ==
    LET next == After(storePc[c], res, data) IN
    /\ storePc' = [storePc EXCEPT ![c] = next]
    /\ storeSession' = IF next \in {"failed", "unexpected"} THEN NoHolder ELSE c

\* Faulty variant: the TA takes further sessions.
OpenStoreShared(c) ==
    /\ storePc[c] = "start"
    /\ storeSession' = c
    /\ storePc' = [storePc EXCEPT ![c] = IF c \in StoreHost THEN "write1" ELSE "any"]
    /\ UNCHANGED <<store, storeWriting, storeTold>>

\* prepare_tee_session.
OpenStore(c) ==
    /\ storePc[c] = "start"
    /\ \/ /\ storeSession = NoHolder
          /\ storeSession' = c
          /\ storePc' = [storePc EXCEPT ![c] = IF c \in StoreHost THEN "write1" ELSE "any"]
       \/ /\ storePc' = [storePc EXCEPT ![c] = "failed"]
          /\ UNCHANGED storeSession
    /\ UNCHANGED <<store, storeWriting, storeTold>>

\* terminate_tee_session; or the client is killed between two commands.
CloseStore(c) ==
    /\ storePc[c] \in HostSteps \union {"any", "close"}
    /\ storeWriting = NotWriting
    /\ storeSession' = NoHolder
    /\ storePc' = [storePc EXCEPT ![c] = IF @ = "close" THEN "finished" ELSE "failed"]
    /\ UNCHANGED <<store, storeWriting, storeTold>>

\* The program is started again.
RestartStore(c) ==
    /\ storePc[c] \in {"failed", "unexpected", "finished"}
    /\ storePc' = [storePc EXCEPT ![c] = "start"]
    /\ UNCHANGED <<store, storeSession, storeWriting, storeTold>>

-----------------------------------------------------------------------------
(***************************************************************************)
(* The commands                                                            *)
(***************************************************************************)

\* create_raw_object up to TEE_CreatePersistentObject, with OVERWRITE: what
\* the object held is gone.  Memory or storage may be exhausted before.
CreateRawObject(c, id, data) ==
    /\ MayWrite(c, id, data) /\ storeWriting = NotWriting
    /\ \/ /\ store' = [store EXCEPT ![id] = NoData]
          /\ storeWriting' = [id |-> id, data |-> data]
          /\ storeTold' = [storeTold EXCEPT ![id] = NothingTold]
          /\ UNCHANGED <<storeSession, storePc>>
       \/ /\ \E res \in {"STORAGE", "TARGET_DEAD"} : Answered(c, res, NoData)
          /\ UNCHANGED <<store, storeWriting, storeTold>>

WriteAnswered(c, res) ==
    /\ storeTold' = [storeTold EXCEPT ![storeWriting.id].data =
                        IF res = "SUCCESS" THEN storeWriting.data ELSE @]
    /\ Answered(c, res, NoData)

DataWritten == [store EXCEPT ![storeWriting.id] = storeWriting.data]
CleanedUp == [store EXCEPT ![storeWriting.id] = NoObject]

\* Faulty variant: the result of the clean-up replaces that of the write.
WriteObjectDataCleans(c) ==
    /\ storeSession = c /\ storeWriting # NotWriting
    /\ \/ store' \in {DataWritten, CleanedUp} /\ WriteAnswered(c, "SUCCESS")
       \/ \E res \in {"STORAGE", "TARGET_DEAD"} : WriteAnswered(c, res) /\ UNCHANGED store
    /\ storeWriting' = NotWriting

\* TEE_WriteObjectData.  When it fails, the object is closed and deleted, and
\* the result of that is dropped: the object may stay as it was created.
WriteObjectData(c) ==
    /\ storeSession = c /\ storeWriting # NotWriting
    /\ \/ store' = DataWritten /\ WriteAnswered(c, "SUCCESS")
       \/ store' \in {store, CleanedUp} /\ WriteAnswered(c, "STORAGE")
       \/ UNCHANGED store /\ WriteAnswered(c, "TARGET_DEAD")
    /\ storeWriting' = NotWriting

\* read_raw_object.
ReadRawObject(c, id) ==
    /\ MayRead(c, id) /\ storeWriting = NotWriting
    /\ \/ store[id] = NoObject /\ Answered(c, "ITEM_NOT_FOUND", NoData)
       \/ store[id] = TooLong /\ Answered(c, "SHORT_BUFFER", NoData)
       \/ store[id] \notin {NoObject, TooLong} /\ Answered(c, "SUCCESS", store[id])
       \/ \E res \in {"OUT_OF_MEMORY", "TARGET_DEAD"} : Answered(c, res, NoData)
    /\ UNCHANGED <<store, storeWriting, storeTold>>

\* delete_object.  The result of the deletion is dropped: SUCCESS only means
\* that the object could be opened, and it may still be there.
DeleteObject(c, id) ==
    /\ MayDelete(c, id) /\ storeWriting = NotWriting
    /\ \/ /\ store[id] # NoObject
          /\ store' \in {store, [store EXCEPT ![id] = NoObject]}
          /\ storeTold' = [storeTold EXCEPT ![id].deleted = TRUE]
          /\ Answered(c, "SUCCESS", NoData)
       \/ /\ store[id] = NoObject
          /\ Answered(c, "ITEM_NOT_FOUND", NoData)
          /\ UNCHANGED <<store, storeTold>>
       \/ /\ \E res \in {"OUT_OF_MEMORY", "TARGET_DEAD"} : Answered(c, res, NoData)
          /\ UNCHANGED <<store, storeTold>>
    /\ UNCHANGED storeWriting

\* Power loss: the objects stay, empty when it falls into a write.
LosePower ==
    /\ storeWriting' = NotWriting
    /\ storeSession' = NoHolder
    /\ storePc' = [c \in StoreClient |-> "start"]
    /\ UNCHANGED <<store, storeTold>>

StoreNext ==
    \/ \E c \in StoreClient :
        \/ OpenStore(c) \/ CloseStore(c) \/ RestartStore(c) \/ WriteObjectData(c)
        \/ \E id \in StoreObject :
            \/ \E data \in StoreData : CreateRawObject(c, id, data)
            \/ ReadRawObject(c, id)
            \/ DeleteObject(c, id)
    \/ LosePower

StoreSpec == StoreInit /\ [][StoreNext]_storeVars

-----------------------------------------------------------------------------
\* Every variable keeps its type, and no host finds what main.c:181 calls
\* unexpected content.
StoreTypeOK ==
    /\ store \in [StoreObject -> StoreData \union {NoObject, NoData}]
    /\ storeSession \in StoreClient \union {NoHolder}
    /\ storePc \in [StoreClient -> HostSteps \union {"start", "any", "close", "failed",
                                                     "finished"}]
    /\ storeWriting \in [id : StoreObject, data : StoreData] \union {NotWriting}
    /\ storeTold \in [StoreObject -> [data : StoreData \union {NoData}, deleted : BOOLEAN]]

\* What a host found out about its objects is still so when it acts on it,
\* although other programs use the same ids: nobody comes in between.
HostViewHolds ==
    \A h \in StoreHost :
        /\ storePc[h] \in {"read1", "delete1"} => store[Obj1] = Obj1Data
        /\ storePc[h] = "delete2" => store[Obj2] # NoObject
        /\ storePc[h] = "write2" =>
            store[Obj2] = NoObject \/ storeWriting = [id |-> Obj2, data |-> Text]

\* What a write reported as written stays, across failures and power loss,
\* until the object is created again or a deletion is reported; without such
\* a report there is no data, only an empty object or none.  So the data of a
\* write that failed are never seen, and nothing half done empties an object
\* that was reported written (secure_storage_ta.c:51 and :117).
ReportedIsKept ==
    \A id \in StoreObject :
        LET told == storeTold[id] IN
        IF told.data = NoData THEN store[id] \in {NoObject, NoData}
        ELSE \/ store[id] = told.data
             \/ told.deleted /\ store[id] = NoObject

=============================================================================
