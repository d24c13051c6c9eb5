--------------------------- MODULE DocumentStore ---------------------------
(***************************************************************************)
(* What the wallet promises the clients of its document store, seen from   *)
(* outside: a call takes effect at one instant between its invocation and  *)
(* its return, or fails and leaves the documents as they were.  A reboot   *)
(* may forget calls, never documents.                                      *)
(*                                                                         *)
(* StorageData implements this specification (see StorageDataProofs).      *)
(***************************************************************************)

EXTENDS StoreInterface

VARIABLES
    docs,       \* the stored documents
    call        \* what each client is calling, or was answered

storeVars == <<docs, call>>

Init ==
    /\ docs = [n \in Name |-> Absent]
    /\ call = [k \in Client |-> Idle]

Invoke(k, op) ==
    /\ call[k] = Idle
    /\ call' = [call EXCEPT ![k] = Called(op)]
    /\ UNCHANGED docs

Finish(k, out) == call' = [call EXCEPT ![k] = Done(out)]

Add(k, op) ==
    /\ op.cmd = "add"
    /\ op.exact
    /\ docs' = [docs EXCEPT ![op.name] = op.doc]
    /\ Finish(k, Answer("SUCCESS"))

Present(k, op) ==
    /\ op.cmd = "present"
    /\ docs[op.name] # Absent
    /\ Finish(k, Lookup(docs[op.name], op.key))
    /\ UNCHANGED docs

(***************************************************************************)
(* The result of the removal itself is not reported: a storage that is     *)
(* unavailable at that moment keeps a document whose deletion succeeded.   *)
(***************************************************************************)
Delete(k, op) ==
    /\ op.cmd = "delete"
    /\ docs[op.name] # Absent
    /\ \/ docs' = [docs EXCEPT ![op.name] = Absent]
       \/ UNCHANGED docs
    /\ Finish(k, Answer("SUCCESS"))

Missing(k, op) ==
    /\ op.cmd \in {"present", "delete"}
    /\ docs[op.name] = Absent
    /\ Finish(k, Answer("ITEM_NOT_FOUND"))
    /\ UNCHANGED docs

Failure(k) ==
    /\ \E res \in Error \ {"ITEM_NOT_FOUND"} : Finish(k, Answer(res))
    /\ UNCHANGED docs

TakeEffect(k) ==
    \E op \in Op :
        /\ call[k] = Called(op)
        /\ Add(k, op) \/ Present(k, op) \/ Delete(k, op) \/ Missing(k, op) \/ Failure(k)

Return(k) ==
    /\ \E out \in Out : call[k] = Done(out)
    /\ call' = [call EXCEPT ![k] = Idle]
    /\ UNCHANGED docs

Reboot ==
    /\ call' = [k \in Client |-> Idle]
    /\ UNCHANGED docs

Next ==
    \/ \E k \in Client : \E op \in Op : Invoke(k, op)
    \/ \E k \in Client : TakeEffect(k) \/ Return(k)
    \/ Reboot

Spec == Init /\ [][Next]_storeVars

=============================================================================
