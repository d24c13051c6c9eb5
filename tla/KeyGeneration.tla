---------------------------- MODULE KeyGeneration ----------------------------
(***************************************************************************)
(* The creation of the ECDSA key of the wallet: the TA                     *)
(* (optee_examples/key_generation/ta/key_gen_ta.c) and its host program    *)
(* (host/main.c).                                                          *)
(*                                                                         *)
(* TA_FLAGS has no single instance: programs that run at the same time     *)
(* have an instance each and share only the persistent object, which no    *)
(* two of them have open at once (external).                               *)
(***************************************************************************)
CONSTANTS
    KeyGenHost,     \* running host programs
    EcdsaKey,       \* key pairs
    NoEcdsaKey,     \* no key
    NoKeyGenHost

ASSUME NoEcdsaKeyAssumption ==
    NoEcdsaKey \notin EcdsaKey /\ NoKeyGenHost \notin KeyGenHost

VARIABLES
    ecdsaKey,       \* object wallet_ecdsa_key
    ecdsaOpen,      \* the instance that has it open
    keyGenPc,       \* next step of each program and its instance
    transient,      \* transient_key of the instance
    printed,        \* what the program printed: the keys of X and of Y
    keyStored       \* history: keys that were ever stored

keyGenVars == <<ecdsaKey, ecdsaOpen, keyGenPc, transient, printed, keyStored>>

NothingPrinted == [x |-> NoEcdsaKey, y |-> NoEcdsaKey]

KeyGenInit ==
    /\ ecdsaKey = NoEcdsaKey
    /\ ecdsaOpen = NoKeyGenHost
    /\ keyGenPc = [h \in KeyGenHost |-> "start"]
    /\ transient = [h \in KeyGenHost |-> NoEcdsaKey]
    /\ printed = [h \in KeyGenHost |-> NothingPrinted]
    /\ keyStored = {}

KeyGenGoto(h, step) == keyGenPc' = [keyGenPc EXCEPT ![h] = step]

\* transient_key is freed, the command fails and errx ends the program.
KeyGenFails(h) ==
    /\ KeyGenGoto(h, "failed")
    /\ transient' = [transient EXCEPT ![h] = NoEcdsaKey]

\* The program opens its session and calls the command; transient_key is
\* allocated and generated.
GenerateEcdsaKey(h) ==
    /\ keyGenPc[h] = "start"
    /\ printed' = [printed EXCEPT ![h] = NothingPrinted]
    /\ \/ /\ \E k \in EcdsaKey \ keyStored : transient' = [transient EXCEPT ![h] = k]
          /\ KeyGenGoto(h, "create")
       \/ KeyGenFails(h)
    /\ UNCHANGED <<ecdsaKey, ecdsaOpen, keyStored>>

\* Faulty variant: a key that could not be stored is returned nevertheless.
CreateEcdsaKeyGoesOn(h) ==
    /\ keyGenPc[h] = "create"
    /\ \/ /\ ecdsaOpen = NoKeyGenHost
          /\ ecdsaKey' = transient[h]
          /\ keyStored' = keyStored \union {transient[h]}
          /\ ecdsaOpen' = h
          /\ KeyGenGoto(h, "close")
       \/ KeyGenGoto(h, "x") /\ UNCHANGED <<ecdsaKey, keyStored, ecdsaOpen>>
    /\ UNCHANGED <<printed, transient>>

\* TEE_CreatePersistentObject with OVERWRITE: a key that was there is gone.
CreateEcdsaKey(h) ==
    /\ keyGenPc[h] = "create"
    /\ \/ /\ ecdsaOpen = NoKeyGenHost
          /\ ecdsaKey' = transient[h]
          /\ keyStored' = keyStored \union {transient[h]}
          /\ ecdsaOpen' = h
          /\ KeyGenGoto(h, "close")
          /\ UNCHANGED transient
       \/ KeyGenFails(h) /\ UNCHANGED <<ecdsaKey, keyStored, ecdsaOpen>>
    /\ UNCHANGED printed

\* TEE_CloseObject.
CloseEcdsaKey(h) ==
    /\ keyGenPc[h] = "close"
    /\ ecdsaOpen' = NoKeyGenHost
    /\ KeyGenGoto(h, "x")
    /\ UNCHANGED <<ecdsaKey, transient, printed, keyStored>>

\* The coordinates are read from transient_key, not from the stored object;
\* one that fails leaves the new key stored, and nobody is told its X and Y.
ReadCoordinates(h) ==
    /\ keyGenPc[h] = "x"
    /\ \/ /\ printed' = [printed EXCEPT ![h] = [x |-> transient[h], y |-> transient[h]]]
          /\ KeyGenGoto(h, "done")
          /\ transient' = [transient EXCEPT ![h] = NoEcdsaKey]
       \/ KeyGenFails(h) /\ UNCHANGED printed
    /\ UNCHANGED <<ecdsaKey, ecdsaOpen, keyStored>>

\* The program is started again.
KeyGenRestart(h) ==
    /\ keyGenPc[h] \in {"failed", "done"}
    /\ KeyGenGoto(h, "start")
    /\ UNCHANGED <<ecdsaKey, ecdsaOpen, transient, printed, keyStored>>

\* Power loss: the object stays, instances and programs are gone.
KeyGenReboot ==
    /\ ecdsaOpen' = NoKeyGenHost
    /\ keyGenPc' = [h \in KeyGenHost |-> "start"]
    /\ transient' = [h \in KeyGenHost |-> NoEcdsaKey]
    /\ UNCHANGED <<ecdsaKey, printed, keyStored>>

KeyGenNext ==
    \/ \E h \in KeyGenHost :
        \/ GenerateEcdsaKey(h) \/ CreateEcdsaKey(h) \/ CloseEcdsaKey(h)
        \/ ReadCoordinates(h) \/ KeyGenRestart(h)
    \/ KeyGenReboot

KeyGenSpec == KeyGenInit /\ [][KeyGenNext]_keyGenVars

-----------------------------------------------------------------------------
\* Every variable keeps its type.
KeyGenTypeOK ==
    /\ ecdsaKey \in EcdsaKey \union {NoEcdsaKey}
    /\ ecdsaOpen \in KeyGenHost \union {NoKeyGenHost}
    /\ keyGenPc \in [KeyGenHost -> {"start", "create", "close", "x", "done", "failed"}]
    /\ transient \in [KeyGenHost -> EcdsaKey \union {NoEcdsaKey}]
    /\ printed \in [KeyGenHost -> [x : EcdsaKey \union {NoEcdsaKey},
                                   y : EcdsaKey \union {NoEcdsaKey}]]
    /\ keyStored \subseteq EcdsaKey

\* A public key that was printed is one key's, and that key was stored: the
\* program says "generated and stored securely" of no other, and only a
\* later program replaced it.
PrintedWasStored ==
    \A h \in KeyGenHost : printed[h] # NothingPrinted =>
        /\ printed[h].x = printed[h].y
        /\ printed[h].x \in keyStored
        /\ keyStored = {printed[h].x} => ecdsaKey = printed[h].x

=============================================================================
