-------------------------- MODULE StorageDataProofs --------------------------
(***************************************************************************)
(* Theorems about StorageData, for any sets of clients, documents and      *)
(* attributes: the inductive invariant IInv, that a finished command holds *)
(* no memory and no open object, and that the store is linearisable: it    *)
(* implements DocumentStore.                                               *)
(***************************************************************************)
EXTENDS StorageData, TLAPS

CallState == {Idle} \union {Called(o) : o \in Op} \union {Done(o) : o \in Out}

(***************************************************************************)
(* Call records: what a client is calling, or was answered.                *)
(***************************************************************************)
LEMMA CallRecords ==
  /\ \A c \in CallState : c.st = "called" => c = Called(c.op) /\ c.op \in Op
  /\ \A o \in Op : Called(o) \in CallState /\ Called(o).st = "called" /\ Called(o).op = o
  /\ \A o \in Out : Done(o) \in CallState /\ Done(o).st = "done"
  /\ Idle \in CallState /\ Idle.st = "idle"
<1>1. \A o \in Op : Called(o) \in CallState /\ Called(o).st = "called" /\ Called(o).op = o
  BY DEF CallState, Called
<1>2. \A o \in Out : Done(o) \in CallState /\ Done(o).st = "done"
  BY DEF CallState, Done
<1>3. Idle \in CallState /\ Idle.st = "idle"
  BY DEF CallState, Idle
<1>4. ASSUME NEW c \in CallState, c.st = "called"
      PROVE  c = Called(c.op) /\ c.op \in Op
  <2>1. PICK o \in Op : c = Called(o)
    BY <1>2, <1>3, <1>4 DEF CallState
  <2> QED
    BY <1>1, <2>1
<1> QED
  BY <1>1, <1>2, <1>3, <1>4

LEMMA Answers ==
  /\ \A res \in Error \union {"SUCCESS"} : Answer(res) \in Out
  /\ \A d \in Doc, key \in Key : Lookup(d, key) \in Out
<1>1. \A res \in Error \union {"SUCCESS"} : Answer(res) \in Out
  BY DEF Answer, Out
<1>2. ASSUME NEW d \in Doc, NEW key \in Key PROVE Lookup(d, key) \in Out
  BY <1>1, AttrType DEF Lookup, Out, Error
<1> QED
  BY <1>1, <1>2

(***************************************************************************)
(* The kinds of operations and their fields.                               *)
(***************************************************************************)
LEMMA Operations ==
  \A o \in Op : /\ o.name \in Name
                /\ o.cmd \in {"add", "present", "delete"}
                /\ o.cmd = "add" => o.doc \in Doc /\ o.exact \in BOOLEAN
                /\ o.cmd = "present" => o.key \in Key
  BY DEF Op

(***************************************************************************)
(* The client inside the TA is calling an operation of the store.          *)
(***************************************************************************)
LEMMA InsideOp ==
  ASSUME IInv, pc # "idle"
  PROVE  /\ who \in Client
         /\ call[who] = Called(op) /\ op \in Op
         /\ op.cmd = "add" => op.exact
  BY CallRecords DEF IInv, TypeOK, OnPath, op, CallState

LEMMA InitIInv == Init => IInv
<1> SUFFICES ASSUME Init PROVE IInv
  OBVIOUS
<1>1. TypeOK
  BY CallRecords, Answers DEF Init, TypeOK, CallState
<1>2. OnPath /\ Holds
  BY DEF Init, OnPath, Holds
<1> QED
  BY <1>1, <1>2 DEF IInv

(***************************************************************************)
(* A step that changes only the call of a client outside the TA.           *)
(***************************************************************************)
LEMMA OutsideStep ==
  ASSUME IInv, NEW k \in Client, k # who, NEW c \in CallState,
         call' = [call EXCEPT ![k] = c],
         UNCHANGED <<objects, who, pc, localVars>>
  PROVE  IInv'
<1>1. TypeOK'
  BY DEF IInv, TypeOK, CallState, localVars
<1>2. who # Nobody => call'[who] = call[who] /\ op' = op
  BY DEF IInv, TypeOK, op
<1>3. OnPath'
  BY <1>2 DEF IInv, OnPath, localVars
<1>4. Holds'
  BY <1>2 DEF IInv, OnPath, Holds, localVars
<1> QED
  BY <1>1, <1>3, <1>4 DEF IInv

(***************************************************************************)
(* The TA returns, having freed all it held.                               *)
(***************************************************************************)
LEMMA LeaveStep ==
  ASSUME IInv, pc # "idle", ~handle, NEW answer \in Out, NEW freed \in Nat,
         blocks = freed, Leave(answer, freed), UNCHANGED objects
  PROVE  IInv'
<1>1. who \in Client
  BY InsideOp
<1>2. TypeOK'
  <2>1. Done(answer) \in CallState
    BY CallRecords
  <2>2. call' \in [Client -> CallState]
    BY <1>1, <2>1 DEF IInv, TypeOK, Leave, CallState
  <2> QED
    BY <2>2, Answers DEF IInv, TypeOK, Leave, CallState
<1>3. OnPath'
  BY DEF OnPath, Leave
<1>4. Holds'
  BY DEF Holds, Leave
<1> QED
  BY <1>2, <1>3, <1>4 DEF IInv

(***************************************************************************)
(* A step inside the TA that stays there keeps the caller and its call.    *)
(***************************************************************************)
LEMMA NextIInv == IInv /\ [Next]_vars => IInv'
<1> SUFFICES ASSUME IInv, [Next]_vars PROVE IInv'
  OBVIOUS
<1>t. TypeOK /\ OnPath /\ Holds
  BY DEF IInv
<1>1. ASSUME NEW k \in Client, NEW o \in Op, Invoke(k, o) PROVE IInv'
  <2>1. k # who
    BY <1>1, <1>t, CallRecords, NobodyNotClient DEF Invoke, OnPath
  <2> QED
    BY <1>1, <2>1, CallRecords, OutsideStep DEF Invoke
<1>2. ASSUME NEW k \in Client, OpenSessionFails(k) PROVE IInv'
  BY <1>2, CallRecords, Answers, OutsideStep DEF OpenSessionFails, Error
<1>3. ASSUME NEW k \in Client, Return(k) PROVE IInv'
  <2>1. k # who
    BY <1>3, <1>t, NobodyNotClient DEF Return, OnPath
  <2> QED
    BY <1>3, <2>1, CallRecords, OutsideStep DEF Return
<1>4. ASSUME NEW k \in Client, Enter(k) PROVE IInv'
  <2>1. CASE call[k].op.cmd = "add" /\ ~call[k].op.exact
    <3>1. k # who
      BY <1>4, NobodyNotClient DEF Enter
    <3>2. call' = [call EXCEPT ![k] = Done(Answer("BAD_PARAMETERS"))]
          /\ UNCHANGED <<objects, who, pc, localVars>>
      BY <1>4, <2>1 DEF Enter
    <3>3. Done(Answer("BAD_PARAMETERS")) \in CallState
      BY CallRecords, Answers DEF Error
    <3> QED
      BY <3>1, <3>2, <3>3, OutsideStep
  <2>2. CASE ~(call[k].op.cmd = "add" /\ ~call[k].op.exact)
    <3>1. /\ who' = k /\ pc' = "malloc_id" /\ call' = call
          /\ UNCHANGED <<objects, doc, out, blocks, handle>>
          /\ pc = "idle"
      BY <1>4, <1>t, <2>2 DEF Enter, OnPath, localVars
    <3>2. op' = call[k].op
      BY <3>1 DEF op
    <3> QED
      BY <1>4, <1>t, <2>2, <3>1, <3>2, NobodyNotClient
         DEF IInv, TypeOK, OnPath, Holds, Enter
  <2> QED
    BY <2>1, <2>2
<1>in. ASSUME pc # "idle", who' = who, call' = call
       PROVE  /\ who \in Client /\ op \in Op /\ op' = op
              /\ call'[who].st = "called" /\ who' # Nobody
              /\ op.cmd = "add" => op.exact
  BY <1>in, <1>t, InsideOp, CallRecords, NobodyNotClient DEF op, OnPath
<1>5. CASE MallocId
  <2>1. CASE Leave(Answer("OUT_OF_MEMORY"), 0)
    BY <1>5, <1>t, <2>1, Answers, LeaveStep DEF MallocId, Holds, Error
  <2>2. CASE ~Leave(Answer("OUT_OF_MEMORY"), 0)
    BY <1>5, <1>t, <1>in, <2>2, Operations DEF MallocId, IInv, TypeOK, OnPath, Holds
  <2> QED
    BY <2>1, <2>2
<1>6. CASE MallocData
  <2>1. CASE Leave(Answer("OUT_OF_MEMORY"), 1)
    BY <1>6, <1>t, <2>1, Answers, LeaveStep DEF MallocData, Holds, Error
  <2>2. CASE ~Leave(Answer("OUT_OF_MEMORY"), 1)
    BY <1>6, <1>t, <1>in, <2>2, Operations DEF MallocData, IInv, TypeOK, OnPath, Holds
  <2> QED
    BY <2>1, <2>2
<1>7. CASE Create
  <2>1. /\ op \in Op /\ op.cmd = "add" /\ op.doc \in Doc /\ op.name \in Name
    BY <1>7, <1>t, <1>in, Operations DEF Create, OnPath
  <2>2. objects' \in [Name -> Doc \union {Absent}]
    BY <1>7, <1>t, <2>1 DEF Create, TypeOK
  <2>3. out' \in Out
    BY <1>7, Answers DEF Create, Error
  <2>4. /\ pc = "create" /\ UNCHANGED <<call, who, doc, blocks>>
        /\ \/ handle' = TRUE /\ pc' = "close"
           \/ handle' = handle /\ pc' = "free"
    BY <1>7 DEF Create
  <2>5. op' = op /\ call'[who].st = "called" /\ who' # Nobody /\ op.exact
    BY <1>in, <2>1, <2>4
  <2>6. TypeOK'
    BY <1>t, <2>2, <2>3, <2>4 DEF TypeOK
  <2>7. OnPath'
    BY <2>1, <2>4, <2>5 DEF OnPath
  <2>8. Holds'
    BY <1>t, <2>1, <2>4, <2>5 DEF Holds
  <2> QED
    BY <2>6, <2>7, <2>8 DEF IInv
<1>8. CASE Close
  BY <1>8, <1>t, <1>in DEF Close, IInv, TypeOK, OnPath, Holds
<1>9. CASE OpenRead
  <2>1. out' \in Out
    BY <1>9, <1>t, Answers DEF OpenRead, Error, TypeOK
  <2>2. /\ pc = "open_read" /\ UNCHANGED <<objects, call, who, doc, blocks>>
        /\ \/ objects[op.name] # Absent /\ handle' /\ pc' = "read"
           \/ pc' = "free" /\ handle' = handle
    BY <1>9 DEF OpenRead
  <2>3. /\ who \in Client /\ op \in Op /\ op' = op /\ op.cmd = "present"
        /\ call'[who].st = "called" /\ who' # Nobody
    BY <1>t, <1>in, <2>2 DEF OnPath
  <2>4. TypeOK'
    BY <1>t, <2>1, <2>2 DEF TypeOK
  <2>5. OnPath'
    BY <2>2, <2>3 DEF OnPath
  <2>6. Holds'
    BY <1>t, <2>2, <2>3 DEF Holds
  <2> QED
    BY <2>4, <2>5, <2>6 DEF IInv
<1>10. CASE Read
  <2>1. out' \in Out
    BY <1>10, <1>t, Answers DEF Read, Error, TypeOK
  <2>2. objects[op.name] \in Doc
    BY <1>10, <1>t, <1>in, Operations DEF Read, OnPath, TypeOK
  <2>3. /\ pc = "read" /\ UNCHANGED <<objects, call, who, blocks>> /\ handle' = FALSE
        /\ \/ doc' = objects[op.name] /\ pc' = "extract"
           \/ doc' = doc /\ pc' = "free"
    BY <1>10 DEF Read
  <2>4. /\ who \in Client /\ op \in Op /\ op' = op /\ op.cmd = "present"
        /\ call'[who].st = "called" /\ who' # Nobody
    BY <1>t, <1>in, <2>3 DEF OnPath
  <2>5. TypeOK'
    BY <1>t, <2>1, <2>2, <2>3 DEF TypeOK
  <2>6. OnPath'
    BY <2>2, <2>3, <2>4 DEF OnPath
  <2>7. Holds'
    BY <1>t, <2>3, <2>4 DEF Holds
  <2> QED
    BY <2>5, <2>6, <2>7 DEF IInv
<1>11. CASE Extract
  <2>1. out' \in Out
    BY <1>11, <1>t, <1>in, Answers, Operations DEF Extract, OnPath
  <2> QED
    BY <1>11, <1>t, <1>in, <2>1 DEF Extract, IInv, TypeOK, OnPath, Holds
<1>12. CASE OpenDelete
  <2>1. out' \in Out
    BY <1>12, Answers DEF OpenDelete, Error
  <2>2. objects' \in [Name -> Doc \union {Absent}]
    BY <1>12, <1>t, <1>in, Operations DEF OpenDelete, TypeOK
  <2> QED
    BY <1>12, <1>t, <1>in, <2>1, <2>2 DEF OpenDelete, IInv, TypeOK, OnPath, Holds
<1>13. CASE FreeAndLeave
  BY <1>13, <1>t, LeaveStep DEF FreeAndLeave, Holds, TypeOK
<1>14. CASE Reboot
  <2>1. TypeOK'
    BY <1>14, <1>t, CallRecords, Answers DEF Reboot, TypeOK, CallState
  <2>2. OnPath' /\ Holds'
    BY <1>14 DEF Reboot, OnPath, Holds
  <2> QED
    BY <2>1, <2>2 DEF IInv
<1>15. CASE UNCHANGED vars
  BY <1>15, <1>t DEF vars, localVars, IInv, TypeOK, OnPath, Holds, op
<1> QED
  BY <1>1, <1>2, <1>3, <1>4, <1>5, <1>6, <1>7, <1>8, <1>9, <1>10, <1>11, <1>12,
     <1>13, <1>14, <1>15 DEF Next, TAStep

(***************************************************************************)
(* IInv is an invariant of the document store.                             *)
(***************************************************************************)
THEOREM Invariance == Spec => []IInv
  BY InitIInv, NextIInv, PTL DEF Spec

(***************************************************************************)
(* Every variable keeps its type.                                          *)
(***************************************************************************)
THEOREM TypeCorrect == Spec => []TypeOK
<1>1. IInv => TypeOK
  BY DEF IInv
<1> QED
  BY <1>1, Invariance, PTL

(***************************************************************************)
(* No command of storage_data_ta.c leaves memory or an open object behind, *)
(* whichever of its calls failed.                                          *)
(***************************************************************************)
THEOREM NoLeak == Spec => []IdleHoldsNothing
<1>1. IInv => IdleHoldsNothing
  BY DEF IInv, Holds, IdleHoldsNothing
<1> QED
  BY <1>1, Invariance, PTL

-----------------------------------------------------------------------------
(***************************************************************************)
(* Refinement.  The interface of the abstract store is this module's own.  *)
(***************************************************************************)
LEMMA SameInterface ==
  /\ Store!Op = Op /\ Store!Out = Out /\ Store!Error = Error /\ Store!Idle = Idle
  /\ \A o : Store!Called(o) = Called(o) /\ Store!Done(o) = Done(o)
  /\ \A res : Store!Answer(res) = Answer(res)
  /\ \A d, key : Store!Lookup(d, key) = Lookup(d, key)
  BY DEF Store!Op, Op, Store!Out, Out, Store!Error, Error, Store!Idle, Idle,
         Store!Called, Called, Store!Done, Done, Store!Answer, Answer,
         Store!Lookup, Lookup

(***************************************************************************)
(* A call of the abstract store that fails without an effect.              *)
(***************************************************************************)
LEMMA FailureStep ==
  ASSUME NEW k \in Client, NEW o \in Op, abstractCall[k] = Called(o),
         NEW res \in Error \ {"ITEM_NOT_FOUND"},
         abstractCall' = [abstractCall EXCEPT ![k] = Done(Answer(res))],
         objects' = objects
  PROVE  Store!Next
<1>1. Store!Failure(k)
  BY SameInterface DEF Store!Failure, Store!Finish
<1>2. Store!TakeEffect(k)
  BY <1>1, SameInterface DEF Store!TakeEffect
<1> QED
  BY <1>2 DEF Store!Next

(***************************************************************************)
(* The mapped call of the client inside the TA, before and after the step  *)
(* that decides it.                                                        *)
(***************************************************************************)
LEMMA Undecided ==
  ASSUME IInv, pc \notin {"idle", "close", "extract", "free"}
  PROVE  /\ who \in Client /\ op \in Op
         /\ abstractCall[who] = Called(op)
<1>1. who \in Client /\ op \in Op /\ call[who] = Called(op)
  BY InsideOp
<1> QED
  BY <1>1 DEF abstractCall

LEMMA Decides ==
  ASSUME IInv, pc # "idle", who' = who, call' = call, pc' \in {"close", "free"}
  PROVE  abstractCall' = [abstractCall EXCEPT ![who] = Done(out')]
<1>1. who \in Client
  BY InsideOp
<1> QED
  BY <1>1 DEF abstractCall

LEMMA Leaves ==
  ASSUME IInv, pc # "idle", NEW answer, NEW freed, Leave(answer, freed)
  PROVE  abstractCall' = [abstractCall EXCEPT ![who] = Done(answer)]
<1>1. who \in Client /\ call \in [Client -> CallState]
  BY InsideOp DEF IInv, TypeOK, CallState
<1>2. /\ call' = [call EXCEPT ![who] = Done(answer)]
      /\ pc' = "idle"
  BY DEF Leave
<1> QED
  BY <1>1, <1>2 DEF abstractCall

LEMMA Outside ==
  ASSUME IInv, NEW k \in Client, k # who, NEW c,
         call' = [call EXCEPT ![k] = c],
         UNCHANGED <<who, pc, localVars>>
  PROVE  /\ abstractCall[k] = call[k]
         /\ abstractCall' = [abstractCall EXCEPT ![k] = c]
<1>1. call \in [Client -> CallState]
  BY DEF IInv, TypeOK, CallState
<1>2. who \in Client => call'[who] = call[who]
  BY <1>1
<1> QED
  BY <1>1, <1>2 DEF abstractCall, localVars, op

(***************************************************************************)
(* Every step of the TA or a client is a step of the abstract store or     *)
(* leaves it as it is.                                                     *)
(***************************************************************************)
LEMMA StepSimulation == IInv /\ [Next]_vars => [Store!Next]_(Store!storeVars)
<1> SUFFICES ASSUME IInv, [Next]_vars
             PROVE  Store!Next \/ UNCHANGED <<objects, abstractCall>>
  BY DEF Store!storeVars
<1>t. TypeOK /\ OnPath
  BY DEF IInv
<1>1. ASSUME NEW k \in Client, NEW o \in Op, Invoke(k, o) PROVE Store!Next
  <2>1. k # who
    BY <1>1, <1>t, CallRecords, NobodyNotClient DEF Invoke, OnPath
  <2>2. Store!Invoke(k, o)
    BY <1>1, <2>1, Outside, SameInterface DEF Invoke, Store!Invoke
  <2> QED
    BY <2>2, SameInterface DEF Store!Next
<1>2. ASSUME NEW k \in Client, OpenSessionFails(k) PROVE Store!Next
  <2>1. /\ abstractCall[k] = call[k]
        /\ abstractCall' = [abstractCall EXCEPT ![k] = Done(Answer("OUT_OF_MEMORY"))]
    BY <1>2, Outside DEF OpenSessionFails
  <2>2. call[k] = Called(call[k].op) /\ call[k].op \in Op
    BY <1>2, <1>t, CallRecords DEF OpenSessionFails, TypeOK, CallState
  <2> QED
    BY <1>2, <2>1, <2>2, FailureStep DEF OpenSessionFails, Error
<1>3. ASSUME NEW k \in Client, Return(k) PROVE Store!Next
  <2>1. k # who
    BY <1>3, <1>t, NobodyNotClient DEF Return, OnPath
  <2>2. /\ abstractCall[k] = call[k]
        /\ abstractCall' = [abstractCall EXCEPT ![k] = Idle]
    BY <1>3, <2>1, Outside DEF Return
  <2>3. \E o \in Out : call[k] = Done(o)
    BY <1>3, <1>t, CallRecords DEF Return, TypeOK
  <2>4. Store!Return(k)
    BY <1>3, <2>2, <2>3, SameInterface DEF Return, Store!Return
  <2> QED
    BY <2>4 DEF Store!Next
<1>4. ASSUME NEW k \in Client, Enter(k)
      PROVE  Store!Next \/ UNCHANGED <<objects, abstractCall>>
  <2>1. /\ who = Nobody /\ k # who /\ pc = "idle"
        /\ UNCHANGED <<objects, localVars>>
    BY <1>4, <1>t, NobodyNotClient DEF Enter, OnPath
  <2>2. CASE call[k].op.cmd = "add" /\ ~call[k].op.exact
    <3>1. /\ abstractCall[k] = call[k]
          /\ abstractCall' = [abstractCall EXCEPT ![k] = Done(Answer("BAD_PARAMETERS"))]
      BY <1>4, <2>1, <2>2, Outside DEF Enter
    <3>2. call[k] = Called(call[k].op) /\ call[k].op \in Op
      BY <1>4, <1>t, CallRecords DEF Enter, TypeOK, CallState
    <3> QED
      BY <2>1, <3>1, <3>2, FailureStep DEF Error
  <2>3. CASE ~(call[k].op.cmd = "add" /\ ~call[k].op.exact)
    BY <1>4, <2>1, <2>3 DEF Enter, abstractCall
  <2> QED
    BY <2>2, <2>3
<1>fail. ASSUME pc \notin {"idle", "close", "extract", "free"},
                NEW res \in Error \ {"ITEM_NOT_FOUND"}, objects' = objects,
                abstractCall' = [abstractCall EXCEPT ![who] = Done(Answer(res))]
         PROVE  Store!Next
  BY <1>fail, Undecided, FailureStep
<1>miss. ASSUME pc \notin {"idle", "close", "extract", "free"},
                op.cmd \in {"present", "delete"}, objects[op.name] = Absent,
                objects' = objects,
                abstractCall' = [abstractCall EXCEPT ![who] = Done(Answer("ITEM_NOT_FOUND"))]
         PROVE  Store!Next
  <2>1. Store!Missing(who, op)
    BY <1>miss, SameInterface DEF Store!Missing, Store!Finish
  <2>2. Store!TakeEffect(who)
    BY <1>miss, <2>1, Undecided, SameInterface DEF Store!TakeEffect
  <2> QED
    BY <1>miss, <2>2, Undecided DEF Store!Next
<1>5. CASE MallocId
  <2>1. CASE Leave(Answer("OUT_OF_MEMORY"), 0)
    BY <1>5, <2>1, <1>fail, Leaves DEF MallocId, Error
  <2>2. CASE ~Leave(Answer("OUT_OF_MEMORY"), 0)
    BY <1>5, <2>2 DEF MallocId, abstractCall
  <2> QED
    BY <2>1, <2>2
<1>6. CASE MallocData
  <2>1. CASE Leave(Answer("OUT_OF_MEMORY"), 1)
    BY <1>6, <2>1, <1>fail, Leaves DEF MallocData, Error
  <2>2. CASE ~Leave(Answer("OUT_OF_MEMORY"), 1)
    BY <1>6, <2>2 DEF MallocData, abstractCall
  <2> QED
    BY <2>1, <2>2
<1>7. CASE Create
  <2>1. abstractCall' = [abstractCall EXCEPT ![who] = Done(out')]
    BY <1>7, Decides DEF Create
  <2>2. CASE pc' = "close"
    <3>1. op.cmd = "add" /\ op.exact /\ who \in Client
      BY <1>7, <1>t, InsideOp DEF Create, OnPath
    <3>2. Store!Add(who, op)
      BY <1>7, <2>1, <2>2, <3>1, SameInterface DEF Create, Store!Add, Store!Finish
    <3>3. Store!TakeEffect(who)
      BY <1>7, <3>2, Undecided, SameInterface DEF Create, Store!TakeEffect
    <3> QED
      BY <3>1, <3>3 DEF Store!Next
  <2>3. CASE pc' # "close"
    BY <1>7, <2>1, <2>3, <1>fail DEF Create, Error
  <2> QED
    BY <2>2, <2>3
<1>8. CASE Close
  BY <1>8 DEF Close, abstractCall
<1>9. CASE OpenRead
  <2>1. CASE pc' = "read"
    BY <1>9, <2>1 DEF OpenRead, abstractCall
  <2>2. CASE pc' # "read"
    <3>1. abstractCall' = [abstractCall EXCEPT ![who] = Done(out')]
      BY <1>9, <2>2, Decides DEF OpenRead
    <3>2. op.cmd = "present"
      BY <1>9, <1>t, InsideOp DEF OpenRead, OnPath
    <3> QED
      BY <1>9, <2>2, <3>1, <3>2, <1>fail, <1>miss DEF OpenRead, Error
  <2> QED
    BY <2>1, <2>2
<1>10. CASE Read
  <2>0. op.cmd = "present" /\ objects[op.name] # Absent /\ who \in Client
    BY <1>10, <1>t, InsideOp DEF Read, OnPath
  <2>1. CASE pc' = "extract"
    <3>1. who' = who /\ call' = call /\ doc' = objects[op.name] /\ pc = "read"
      BY <1>10, <2>1 DEF Read
    <3>2. abstractCall' = [abstractCall EXCEPT ![who] =
                              Done(Lookup(objects[op.name], op.key))]
      BY <2>0, <2>1, <3>1 DEF abstractCall, op
    <3>3. Store!Present(who, op)
      BY <1>10, <2>0, <3>2, SameInterface DEF Read, Store!Present, Store!Finish
    <3>4. Store!TakeEffect(who)
      BY <3>1, <3>3, Undecided, SameInterface DEF Store!TakeEffect
    <3> QED
      BY <2>0, <3>4 DEF Store!Next
  <2>2. CASE pc' # "extract"
    <3>1. abstractCall' = [abstractCall EXCEPT ![who] = Done(out')]
      BY <1>10, <2>2, Decides DEF Read
    <3> QED
      BY <1>10, <2>2, <3>1, <1>fail DEF Read, Error
  <2> QED
    BY <2>1, <2>2
<1>11. CASE Extract
  BY <1>11 DEF Extract, abstractCall, op
<1>12. CASE OpenDelete
  <2>0. op.cmd = "delete" /\ who \in Client
    BY <1>12, <1>t, InsideOp DEF OpenDelete, OnPath
  <2>1. abstractCall' = [abstractCall EXCEPT ![who] = Done(out')]
    BY <1>12, Decides DEF OpenDelete
  <2>2. CASE out' = Answer("SUCCESS") /\ objects[op.name] # Absent
             /\ (objects' = [objects EXCEPT ![op.name] = Absent] \/ objects' = objects)
    <3>1. Store!Delete(who, op)
      BY <2>0, <2>1, <2>2, SameInterface DEF Store!Delete, Store!Finish
    <3>2. Store!TakeEffect(who)
      BY <1>12, <3>1, Undecided, SameInterface DEF OpenDelete, Store!TakeEffect
    <3> QED
      BY <2>0, <3>2 DEF Store!Next
  <2>3. CASE /\ objects' = objects
             /\ \/ objects[op.name] = Absent /\ out' = Answer("ITEM_NOT_FOUND")
                \/ out' = Answer("STORAGE")
    BY <1>12, <2>0, <2>1, <2>3, <1>fail, <1>miss DEF OpenDelete, Error
  <2> QED
    BY <1>12, <2>2, <2>3 DEF OpenDelete
<1>13. CASE FreeAndLeave
  <2>1. abstractCall' = [abstractCall EXCEPT ![who] = Done(out)]
    BY <1>13, Leaves DEF FreeAndLeave
  <2>2. who \in Client /\ abstractCall[who] = Done(out)
    BY <1>13, InsideOp DEF FreeAndLeave, abstractCall
  <2>3. abstractCall' = abstractCall
    BY <2>1, <2>2 DEF abstractCall
  <2> QED
    BY <1>13, <2>3 DEF FreeAndLeave
<1>14. CASE Reboot
  <2>1. abstractCall' = [k \in Client |-> Idle]
    BY <1>14 DEF Reboot, abstractCall
  <2>2. Store!Reboot
    BY <1>14, <2>1, SameInterface DEF Reboot, Store!Reboot
  <2> QED
    BY <2>2 DEF Store!Next
<1>15. CASE UNCHANGED vars
  BY <1>15 DEF vars, localVars, abstractCall, op
<1> QED
  BY <1>1, <1>2, <1>3, <1>4, <1>5, <1>6, <1>7, <1>8, <1>9, <1>10, <1>11, <1>12,
     <1>13, <1>14, <1>15 DEF Next, TAStep

(***************************************************************************)
(* The document store is linearisable: a call of storage_data_ta.c takes   *)
(* effect at one instant, or fails and changes nothing, whatever the       *)
(* other sessions do and whichever of its steps fails.                     *)
(***************************************************************************)
THEOREM StoreRefinement == Spec => ImplementsStore
<1>1. Init => Store!Init
  <2> SUFFICES ASSUME Init PROVE Store!Init
    OBVIOUS
  <2>1. abstractCall = [k \in Client |-> Idle]
    BY DEF Init, abstractCall
  <2> QED
    BY <2>1, SameInterface DEF Init, Store!Init
<1> QED
  BY <1>1, StepSimulation, Invariance, PTL DEF Spec, ImplementsStore, Store!Spec

=============================================================================
