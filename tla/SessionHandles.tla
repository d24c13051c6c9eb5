---------------------------- MODULE SessionHandles ----------------------------
(***************************************************************************)
(* Handles of the TEE Internal Core API (external): operations and         *)
(* transient objects that a session allocates and frees itself.  A heap    *)
(* maps each handle to what it stands for; a handle freed a second time is *)
(* Broken.                                                                 *)
(***************************************************************************)
CONSTANTS
    Handle,     \* handles an instance can have at the same time
    Null,       \* TEE_HANDLE_NULL
    Unused,     \* a handle that stands for nothing
    Broken      \* a handle freed twice

ASSUME HandleAssumption == Null \notin Handle /\ Unused # Broken

Fresh(heap) == {h \in Handle : heap[h] = Unused}

Live(heap) == {h \in Handle : heap[h] \notin {Unused, Broken}}

EmptyHeap == [h \in Handle |-> Unused]

\* TEE_FreeOperation and TEE_FreeTransientObject: TEE_HANDLE_NULL is ignored.
Freed(heap, h) ==
    IF h = Null THEN heap
    ELSE [heap EXCEPT ![h] = IF @ = Unused THEN Broken ELSE Unused]

=============================================================================
