---------------------------- MODULE StorageData ----------------------------
(***************************************************************************)
(* The document store of the wallet (optee_examples/storage_data): the     *)
(* trusted application ta/storage_data_ta.c, entered by any number of      *)
(* sessions, and its secure storage.                                       *)
(*                                                                         *)
(* The TA is SINGLE_INSTANCE and MULTI_SESSION: the core lets one session  *)
(* into it at a time and the others wait.  A command is a sequence of      *)
(* steps, one for each call that can fail or be the last before a power    *)
(* loss: TEE_Malloc, the storage calls, and the frees at the end.          *)
(* TEE_CreatePersistentObject with initial data is atomic (external): the  *)
(* object is there with all of it, or as it was before.                    *)
(***************************************************************************)
EXTENDS StoreInterface, Naturals

CONSTANT Nobody      \* no client is inside the TA

ASSUME AbsentNotDoc == Absent \notin Doc
ASSUME NobodyNotClient == Nobody \notin Client
ASSUME AttrType == \A d \in Doc : \A key \in DOMAIN Attr[d] : Attr[d][key] \in Value

VARIABLES
    objects,    \* TEE_STORAGE_PRIVATE of this TA
    call,       \* what each client is calling, or was answered
    who,        \* client inside the TA
    pc,         \* the next step of its command
    doc,        \* the local SecureDocument of present_attribute
    out,        \* the local res
    blocks,     \* live TEE_Malloc blocks
    handle      \* whether the object handle is open

localVars == <<doc, out, blocks, handle>>
vars == <<objects, call, who, pc, localVars>>

Init ==
    /\ objects = [n \in Name |-> Absent]
    /\ call = [k \in Client |-> Idle]
    /\ who = Nobody
    /\ pc = "idle"
    /\ doc = Absent
    /\ out = Answer("SUCCESS")
    /\ blocks = 0
    /\ handle = FALSE

\* The command inside the TA.
op == call[who].op

\* The TA frees its blocks and returns to the core, which answers the client.
Leave(answer, freed) ==
    /\ call' = [call EXCEPT ![who] = Done(answer)]
    /\ who' = Nobody
    /\ pc' = "idle"
    /\ doc' = Absent
    /\ out' = Answer("SUCCESS")
    /\ blocks' = blocks - freed
    /\ UNCHANGED handle

-----------------------------------------------------------------------------
(***************************************************************************)
(* Clients                                                                 *)
(***************************************************************************)
Invoke(k, o) ==
    /\ call[k] = Idle
    /\ call' = [call EXCEPT ![k] = Called(o)]
    /\ UNCHANGED <<objects, who, pc, localVars>>

\* A session could not be opened for the call.
OpenSessionFails(k) ==
    /\ call[k].st = "called"
    /\ who # k
    /\ call' = [call EXCEPT ![k] = Done(Answer("OUT_OF_MEMORY"))]
    /\ UNCHANGED <<objects, who, pc, localVars>>

Return(k) ==
    /\ call[k].st = "done"
    /\ call' = [call EXCEPT ![k] = Idle]
    /\ UNCHANGED <<objects, who, pc, localVars>>

-----------------------------------------------------------------------------
(***************************************************************************)
(* The TA                                                                  *)
(***************************************************************************)

\* TA_InvokeCommandEntryPoint: the parameter tests come first, and one of
\* them compares the size of an added document with sizeof(SecureDocument).
Enter(k) ==
    /\ who = Nobody
    /\ call[k].st = "called"
    /\ IF call[k].op.cmd = "add" /\ ~call[k].op.exact
       THEN /\ call' = [call EXCEPT ![k] = Done(Answer("BAD_PARAMETERS"))]
            /\ UNCHANGED <<who, pc>>
       ELSE /\ who' = k
            /\ pc' = "malloc_id"
            /\ UNCHANGED call
    /\ UNCHANGED <<objects, localVars>>

\* obj_id = TEE_Malloc(obj_id_len, 0)
MallocId ==
    /\ pc = "malloc_id"
    /\ \/ /\ blocks' = blocks + 1
          /\ pc' = IF op.cmd = "delete" THEN "open_delete" ELSE "malloc_data"
          /\ UNCHANGED <<call, who, doc, out, handle>>
       \/ Leave(Answer("OUT_OF_MEMORY"), 0)
    /\ UNCHANGED objects

\* Faulty variant: obj_id is not freed on the second failure.
MallocDataLeaks ==
    /\ pc = "malloc_data"
    /\ \/ /\ blocks' = blocks + 1
          /\ pc' = IF op.cmd = "add" THEN "create" ELSE "open_read"
          /\ UNCHANGED <<call, who, doc, out, handle>>
       \/ Leave(Answer("OUT_OF_MEMORY"), 0)
    /\ UNCHANGED objects

\* doc_data of add_document or req_key of present_attribute; on failure
\* obj_id is freed.
MallocData ==
    /\ pc = "malloc_data"
    /\ \/ /\ blocks' = blocks + 1
          /\ pc' = IF op.cmd = "add" THEN "create" ELSE "open_read"
          /\ UNCHANGED <<call, who, doc, out, handle>>
       \/ Leave(Answer("OUT_OF_MEMORY"), 1)
    /\ UNCHANGED objects

\* Faulty variant: the object is truncated before its data is written.
CreateTruncates ==
    /\ pc = "create"
    /\ \/ /\ objects' = [objects EXCEPT ![op.name] = op.doc]
          /\ out' = Answer("SUCCESS")
          /\ handle' = TRUE
          /\ pc' = "close"
       \/ /\ objects' = [objects EXCEPT ![op.name] = Absent]
          /\ out' = Answer("STORAGE")
          /\ pc' = "free"
          /\ UNCHANGED handle
    /\ UNCHANGED <<call, who, doc, blocks>>

\* TEE_CreatePersistentObject with DATA_FLAG_OVERWRITE and initial data.
Create ==
    /\ pc = "create"
    /\ \/ /\ objects' = [objects EXCEPT ![op.name] = op.doc]
          /\ out' = Answer("SUCCESS")
          /\ handle' = TRUE
          /\ pc' = "close"
       \/ /\ out' = Answer("STORAGE")
          /\ pc' = "free"
          /\ UNCHANGED <<objects, handle>>
    /\ UNCHANGED <<call, who, doc, blocks>>

Close ==
    /\ pc = "close"
    /\ handle' = FALSE
    /\ pc' = "free"
    /\ UNCHANGED <<objects, call, who, doc, out, blocks>>

\* TEE_OpenPersistentObject of present_attribute.
OpenRead ==
    /\ pc = "open_read"
    /\ \/ /\ objects[op.name] # Absent
          /\ handle' = TRUE
          /\ pc' = "read"
          /\ UNCHANGED out
       \/ /\ \/ objects[op.name] = Absent /\ out' = Answer("ITEM_NOT_FOUND")
             \/ out' = Answer("STORAGE")
          /\ pc' = "free"
          /\ UNCHANGED handle
    /\ UNCHANGED <<objects, call, who, doc, blocks>>

\* TEE_ReadObjectData and TEE_CloseObject: any failure is CORRUPT_OBJECT.
Read ==
    /\ pc = "read"
    /\ handle' = FALSE
    /\ \/ /\ doc' = objects[op.name]
          /\ pc' = "extract"
          /\ UNCHANGED out
       \/ /\ out' = Answer("CORRUPT_OBJECT")
          /\ pc' = "free"
          /\ UNCHANGED doc
    /\ UNCHANGED <<objects, call, who, blocks>>

\* The attribute whose key was asked for, from the copy on the stack.
Extract ==
    /\ pc = "extract"
    /\ out' = Lookup(doc, op.key)
    /\ pc' = "free"
    /\ UNCHANGED <<objects, call, who, doc, blocks, handle>>

\* TEE_OpenPersistentObject, then TEE_CloseAndDeletePersistentObject1, whose
\* own result is dropped.
OpenDelete ==
    /\ pc = "open_delete"
    /\ \/ /\ objects[op.name] # Absent
          /\ \/ objects' = [objects EXCEPT ![op.name] = Absent]
             \/ UNCHANGED objects
          /\ out' = Answer("SUCCESS")
       \/ /\ \/ objects[op.name] = Absent /\ out' = Answer("ITEM_NOT_FOUND")
             \/ out' = Answer("STORAGE")
          /\ UNCHANGED objects
    /\ pc' = "free"
    /\ UNCHANGED <<call, who, doc, blocks, handle>>

\* Faulty variant: every command frees two blocks.
FreeTwoAndLeave ==
    /\ pc = "free"
    /\ Leave(out, 2)
    /\ UNCHANGED objects

\* TEE_Free of what this command allocated: one block for a deletion, two
\* for the other commands.
FreeAndLeave ==
    /\ pc = "free"
    /\ Leave(out, IF op.cmd = "delete" THEN 1 ELSE 2)
    /\ UNCHANGED objects

\* Power loss: the secure storage survives, the TA and the REE do not.
Reboot ==
    /\ call' = [k \in Client |-> Idle]
    /\ who' = Nobody
    /\ pc' = "idle"
    /\ doc' = Absent
    /\ out' = Answer("SUCCESS")
    /\ blocks' = 0
    /\ handle' = FALSE
    /\ UNCHANGED objects

TAStep ==
    \/ MallocId \/ MallocData \/ Create \/ Close
    \/ OpenRead \/ Read \/ Extract \/ OpenDelete \/ FreeAndLeave

Next ==
    \/ \E k \in Client :
          \/ \E o \in Op : Invoke(k, o)
          \/ OpenSessionFails(k) \/ Enter(k) \/ Return(k)
    \/ TAStep
    \/ Reboot

Spec == Init /\ [][Next]_vars

-----------------------------------------------------------------------------
(***************************************************************************)
(* Properties                                                              *)
(***************************************************************************)

\* Every variable keeps its type, and the client inside the TA is one that
\* called it.
TypeOK ==
    /\ objects \in [Name -> Doc \union {Absent}]
    /\ call \in [Client -> {Idle} \union {Called(o) : o \in Op} \union {Done(o) : o \in Out}]
    /\ who \in Client \union {Nobody}
    /\ pc \in {"idle", "malloc_id", "malloc_data", "create", "close", "open_read",
               "read", "extract", "open_delete", "free"}
    /\ doc \in Doc \union {Absent}
    /\ out \in Out
    /\ blocks \in Nat
    /\ handle \in BOOLEAN

\* Whatever failed on the way, a command leaves neither memory nor an open
\* object behind: a leak would end in OUT_OF_MEMORY after enough calls, an
\* open handle in an access conflict on the next call for the document.
IdleHoldsNothing ==
    pc = "idle" => blocks = 0 /\ ~handle /\ doc = Absent

\* The command runs along the path of its kind.
OnPath ==
    /\ who = Nobody <=> pc = "idle"
    /\ who # Nobody =>
          /\ call[who].st = "called"
          /\ op.cmd = "add" => op.exact
          /\ pc = "malloc_data" => op.cmd # "delete"
          /\ pc \in {"create", "close"} => op.cmd = "add"
          /\ pc \in {"open_read", "read", "extract"} => op.cmd = "present"
          /\ pc = "open_delete" => op.cmd = "delete"
          /\ pc = "read" => objects[op.name] # Absent
          /\ pc = "extract" => doc \in Doc

\* What the command holds at each step.
Holds ==
    /\ pc \in {"idle", "malloc_id"} => blocks = 0
    /\ pc \in {"malloc_data", "open_delete"} => blocks = 1
    /\ pc \in {"create", "close", "open_read", "read", "extract"} => blocks = 2
    /\ pc = "free" => blocks = IF op.cmd = "delete" THEN 1 ELSE 2
    /\ handle <=> pc \in {"close", "read"}
    /\ pc = "idle" => doc = Absent

\* The inductive invariant of StorageDataProofs.
IInv == TypeOK /\ OnPath /\ Holds

(***************************************************************************)
(* The abstract store: a call has taken effect once the storage call that  *)
(* decides it is behind it.                                                *)
(***************************************************************************)
abstractCall ==
    [k \in Client |->
        IF k # who \/ pc \notin {"close", "extract", "free"} THEN call[k]
        ELSE IF pc = "extract" THEN Done(Lookup(doc, op.key))
        ELSE Done(out)]

Store == INSTANCE DocumentStore WITH docs <- objects, call <- abstractCall

\* Every behaviour of the TA and its clients is one of the abstract store.
ImplementsStore == Store!Spec

=============================================================================
