--------------------------- MODULE StoreInterface ---------------------------
(***************************************************************************)
(* The calls of the wallet's document store and what they return, as its   *)
(* clients see them (optee_examples/storage_data/ta/include/               *)
(* storage_data_ta.h and the parameters of ta/storage_data_ta.c).          *)
(***************************************************************************)

CONSTANTS
    Client,     \* processes that call the store
    Name,       \* document identifiers
    Doc,        \* documents
    Key,        \* attribute keys
    Value,      \* attribute values
    Attr,       \* Attr[d] maps the keys of document d to their values
    Absent      \* no document under a name

Op ==
    [cmd : {"add"}, name : Name, doc : Doc, exact : BOOLEAN]
        \union [cmd : {"present"}, name : Name, key : Key]
        \union [cmd : {"delete"}, name : Name]

Error ==
    {"BAD_PARAMETERS", "OUT_OF_MEMORY", "ITEM_NOT_FOUND", "CORRUPT_OBJECT", "STORAGE"}

Out == [res : Error \union {"SUCCESS"}] \union [res : {"SUCCESS"}, value : Value]

Idle == [st |-> "idle"]
Called(op) == [st |-> "called", op |-> op]
Done(out)  == [st |-> "done", out |-> out]

Answer(res) == [res |-> res]

\* The attribute of a document under a key.
Lookup(d, key) ==
    IF key \in DOMAIN Attr[d]
    THEN [res |-> "SUCCESS", value |-> Attr[d][key]]
    ELSE Answer("ITEM_NOT_FOUND")

=============================================================================
