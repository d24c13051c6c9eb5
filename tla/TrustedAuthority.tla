-------------------------- MODULE TrustedAuthority --------------------------
(***************************************************************************)
(* The trusted authority of the wallet                                     *)
(* (optee_examples/trusted_authority/ta/trusted_authority_ta.c): creation  *)
(* of the wallet, and login, which signs a challenge with its RSA key.     *)
(*                                                                         *)
(* TA_FLAGS is 0: every session gets an instance of its own, and instances *)
(* of several host programs and of the manager run at the same time.  They *)
(* share nothing but two persistent objects, the wallet data and the key,  *)
(* which a command opens without sharing: while one instance has an object *)
(* open, opening or creating it is refused with ACCESS_CONFLICT (external) *)
(* and nobody waits.  A command is one step per call that can fail, whose  *)
(* effect another instance can see, or behind which power can be lost.     *)
(*                                                                         *)
(* The password and the salt are stored and never read by this code, so    *)
(* that a wallet is named by the identity it was created for.              *)
(***************************************************************************)

CONSTANTS
    Client,     \* sessions, each with its instance
    Identity,   \* owners a wallet can be created for
    RsaKey,     \* key pairs TEE_GenerateKey can return
    Challenge,  \* challenges to sign
    NoKey,      \* the key object does not exist
    Absent,     \* the wallet object does not exist
    Blank,      \* the wallet object exists and is empty
    Nobody,     \* an object that nobody has open
    PowerLoss   \* bound: whether power may be lost

ASSUME NoKeyIsNotRsaKey == NoKey \notin RsaKey
ASSUME NobodyNotClient == Nobody \notin Client
ASSUME NoIdentity == Absent \notin Identity /\ Blank \notin Identity

VARIABLES
    wallet,     \* object WALLET_DATA_OBJ_ID
    key,        \* object WALLET_KEY_OBJ_ID
    walletOpen, \* the instance that has the wallet object open
    keyOpen,    \* the instance that has the key object open
    pc,         \* next step of each instance
    op,         \* its command
    out,        \* its local res, and its answer once it is idle
    pair,       \* its transient key object
    signed      \* history: signatures handed out

instanceVars == <<pc, op, out, pair>>
vars == <<wallet, key, walletOpen, keyOpen, instanceVars, signed>>

Op == [cmd : {"init"}, id : Identity] \union [cmd : {"login"}, c : Challenge]

Result ==
    {"SUCCESS", "OUT_OF_MEMORY", "STORAGE", "ACCESS_CONFLICT", "ITEM_NOT_FOUND",
     "TARGET_DEAD", "BAD_PARAMETERS"}

NoOp == [cmd |-> "none"]

Init ==
    /\ wallet = Absent
    /\ key = NoKey
    /\ walletOpen = Nobody
    /\ keyOpen = Nobody
    /\ pc = [k \in Client |-> "idle"]
    /\ op = [k \in Client |-> NoOp]
    /\ out = [k \in Client |-> "SUCCESS"]
    /\ pair = [k \in Client |-> NoKey]
    /\ signed = {}

Goto(k, step) ==
    /\ pc' = [pc EXCEPT ![k] = step]
    /\ UNCHANGED op

\* The command returns, and the session and its instance are closed.
Answer(k, res) ==
    /\ pc' = [pc EXCEPT ![k] = "idle"]
    /\ op' = [op EXCEPT ![k] = NoOp]
    /\ out' = [out EXCEPT ![k] = res]
    /\ pair' = [pair EXCEPT ![k] = NoKey]

\* What opening an object answers when it does not open it.
OpenRefused(exists, holder, res) ==
    \/ ~exists /\ res = "ITEM_NOT_FOUND"
    \/ exists /\ holder # Nobody /\ res = "ACCESS_CONFLICT"
    \/ res = "STORAGE"

-----------------------------------------------------------------------------
\* A client opens a session and invokes a command.
Invoke(k, o) ==
    /\ pc[k] = "idle"
    /\ op' = [op EXCEPT ![k] = o]
    /\ pc' = [pc EXCEPT ![k] = IF o.cmd = "init" THEN "hash" ELSE "open_wallet"]
    /\ UNCHANGED <<wallet, key, walletOpen, keyOpen, out, pair, signed>>

\* The session cannot be opened, or the command is one of those the header
\* names and TA_InvokeCommandEntryPoint does not know.
InvokeFails(k) ==
    /\ pc[k] = "idle"
    /\ \E res \in {"OUT_OF_MEMORY", "BAD_PARAMETERS"} : Answer(k, res)
    /\ UNCHANGED <<wallet, key, walletOpen, keyOpen, signed>>

-----------------------------------------------------------------------------
(***************************************************************************)
(* init_wallet                                                             *)
(***************************************************************************)

\* hash_password, on the fields copied from the parameters.
HashPassword(k) ==
    /\ pc[k] = "hash"
    /\ \/ Goto(k, "create") /\ UNCHANGED <<out, pair>>
       \/ Answer(k, "OUT_OF_MEMORY")
    /\ UNCHANGED <<wallet, key, walletOpen, keyOpen, signed>>

\* Faulty variant: the object is opened with sharing.
CreateWalletShared(k) ==
    /\ pc[k] = "create"
    /\ \/ /\ wallet' = Blank
          /\ walletOpen' = k
          /\ Goto(k, "write")
          /\ UNCHANGED <<out, pair>>
       \/ /\ Answer(k, "STORAGE")
          /\ UNCHANGED <<wallet, walletOpen>>
    /\ UNCHANGED <<key, keyOpen, signed>>

\* TEE_CreatePersistentObject with OVERWRITE and no data: a wallet that was
\* there is gone.
CreateWallet(k) ==
    /\ pc[k] = "create"
    /\ \/ /\ walletOpen = Nobody
          /\ wallet' = Blank
          /\ walletOpen' = k
          /\ Goto(k, "write")
          /\ UNCHANGED <<out, pair>>
       \/ /\ \/ walletOpen # Nobody /\ Answer(k, "ACCESS_CONFLICT")
             \/ Answer(k, "STORAGE")
          /\ UNCHANGED <<wallet, walletOpen>>
    /\ UNCHANGED <<key, keyOpen, signed>>

\* TEE_WriteObjectData.
WriteWallet(k) ==
    /\ pc[k] = "write"
    /\ wallet' = op[k].id
    /\ Goto(k, "find_key")
    /\ UNCHANGED <<key, walletOpen, keyOpen, out, pair, signed>>

(***************************************************************************)
(* The write fails.  The handle was created without WRITE_META, which      *)
(* TEE_CloseAndDeletePersistentObject1 requires ("we must be allowed to    *)
(* delete it", secure_storage_ta.c:43): the call panics the instance, the  *)
(* core closes its handles, and the empty object stays.                    *)
(***************************************************************************)
WriteWalletFails(k) ==
    /\ pc[k] = "write"
    /\ walletOpen' = Nobody
    /\ Answer(k, "TARGET_DEAD")
    /\ UNCHANGED <<wallet, key, keyOpen, signed>>

\* ensure_rsa_key_exists: a key that opens is kept.  Whatever else opening
\* it answers, a conflict too, is taken for a missing key.
FindKey(k) ==
    /\ pc[k] = "find_key"
    /\ \/ /\ key # NoKey
          /\ keyOpen = Nobody
          /\ keyOpen' = k
          /\ Goto(k, "close_key")
       \/ /\ \E res \in Result : OpenRefused(key # NoKey, keyOpen, res)
          /\ Goto(k, "generate")
          /\ UNCHANGED keyOpen
    /\ UNCHANGED <<wallet, key, walletOpen, out, pair, signed>>

\* Faulty variant: the result of a failed allocation is not set.
GenerateKeyNoResult(k) ==
    /\ pc[k] = "generate"
    /\ \/ /\ \E p \in RsaKey : pair' = [pair EXCEPT ![k] = p]
          /\ Goto(k, "create_key")
          /\ UNCHANGED out
       \/ /\ out' = [out EXCEPT ![k] = "garbage"]
          /\ Goto(k, "close_wallet")
          /\ UNCHANGED pair
    /\ UNCHANGED <<wallet, key, walletOpen, keyOpen, signed>>

\* TEE_AllocateTransientObject and TEE_GenerateKey.
GenerateKey(k) ==
    /\ pc[k] = "generate"
    /\ \/ /\ \E p \in RsaKey : pair' = [pair EXCEPT ![k] = p]
          /\ Goto(k, "create_key")
          /\ UNCHANGED out
       \/ /\ out' = [out EXCEPT ![k] = "OUT_OF_MEMORY"]
          /\ Goto(k, "close_wallet")
          /\ UNCHANGED pair
    /\ UNCHANGED <<wallet, key, walletOpen, keyOpen, signed>>

\* Faulty variant: the key object is created with OVERWRITE too.
CreateKeyOverwrite(k) ==
    /\ pc[k] = "create_key"
    /\ \/ /\ keyOpen = Nobody
          /\ key' = pair[k]
          /\ keyOpen' = k
          /\ Goto(k, "close_key")
          /\ UNCHANGED out
       \/ /\ out' = [out EXCEPT ![k] = "STORAGE"]
          /\ Goto(k, "close_wallet")
          /\ UNCHANGED <<key, keyOpen>>
    /\ pair' = [pair EXCEPT ![k] = NoKey]
    /\ UNCHANGED <<wallet, walletOpen, signed>>

\* TEE_CreatePersistentObject without OVERWRITE: a key that is there, or
\* was created since FindKey, is kept and the call refused.
CreateKey(k) ==
    /\ pc[k] = "create_key"
    /\ \/ /\ key = NoKey
          /\ key' = pair[k]
          /\ keyOpen' = k
          /\ Goto(k, "close_key")
          /\ UNCHANGED out
       \/ /\ \/ key # NoKey /\ out' = [out EXCEPT ![k] = "ACCESS_CONFLICT"]
             \/ out' = [out EXCEPT ![k] = "STORAGE"]
          /\ Goto(k, "close_wallet")
          /\ UNCHANGED <<key, keyOpen>>
    /\ pair' = [pair EXCEPT ![k] = NoKey]
    /\ UNCHANGED <<wallet, walletOpen, signed>>

\* TEE_CloseObject(persistent_key), and ensure_rsa_key_exists succeeds.
CloseKey(k) ==
    /\ pc[k] = "close_key"
    /\ keyOpen' = Nobody
    /\ out' = [out EXCEPT ![k] = "SUCCESS"]
    /\ Goto(k, "close_wallet")
    /\ UNCHANGED <<wallet, key, walletOpen, pair, signed>>

\* TEE_CloseObject(object), and the result of the key is the command's.
CloseWallet(k) ==
    /\ pc[k] = "close_wallet"
    /\ walletOpen' = Nobody
    /\ Answer(k, out[k])
    /\ UNCHANGED <<wallet, key, keyOpen, signed>>

-----------------------------------------------------------------------------
(***************************************************************************)
(* login_wallet and sign_challenge                                         *)
(***************************************************************************)

\* Every failure to open the wallet is reported as ITEM_NOT_FOUND.
OpenWallet(k) ==
    /\ pc[k] = "open_wallet"
    /\ \/ /\ wallet # Absent
          /\ walletOpen = Nobody
          /\ walletOpen' = k
          /\ Goto(k, "read")
          /\ UNCHANGED <<out, pair>>
       \/ /\ \E res \in Result : OpenRefused(wallet # Absent, walletOpen, res)
          /\ Answer(k, "ITEM_NOT_FOUND")
          /\ UNCHANGED walletOpen
    /\ UNCHANGED <<wallet, key, keyOpen, signed>>

\* TEE_ReadObjectData, whose result and contents are not used, and
\* TEE_CloseObject.
ReadWallet(k) ==
    /\ pc[k] = "read"
    /\ walletOpen' = Nobody
    /\ Goto(k, "open_key")
    /\ UNCHANGED <<wallet, key, keyOpen, out, pair, signed>>

\* The digest of the challenge, then TEE_OpenPersistentObject of the key.
OpenKey(k) ==
    /\ pc[k] = "open_key"
    /\ \/ /\ key # NoKey
          /\ keyOpen = Nobody
          /\ keyOpen' = k
          /\ Goto(k, "sign")
          /\ UNCHANGED <<out, pair>>
       \/ /\ \/ Answer(k, "OUT_OF_MEMORY")
             \/ \E res \in Result : OpenRefused(key # NoKey, keyOpen, res) /\ Answer(k, res)
          /\ UNCHANGED keyOpen
    /\ UNCHANGED <<wallet, key, walletOpen, signed>>

\* Faulty variant: the early return of a failed allocation forgets the key.
SignChallengeLeavesOpen(k) ==
    /\ pc[k] = "sign"
    /\ \/ /\ signed' = signed \union {[c |-> op[k].c, key |-> key]}
          /\ keyOpen' = Nobody
          /\ Answer(k, "SUCCESS")
       \/ /\ Answer(k, "OUT_OF_MEMORY")
          /\ UNCHANGED <<signed, keyOpen>>
    /\ UNCHANGED <<wallet, key, walletOpen>>

\* The signature, or a failing operation; the key object is closed.
SignChallenge(k) ==
    /\ pc[k] = "sign"
    /\ keyOpen' = Nobody
    /\ \/ /\ signed' = signed \union {[c |-> op[k].c, key |-> key]}
          /\ Answer(k, "SUCCESS")
       \/ /\ Answer(k, "OUT_OF_MEMORY")
          /\ UNCHANGED signed
    /\ UNCHANGED <<wallet, key, walletOpen>>

-----------------------------------------------------------------------------
\* Power loss: the persistent objects survive, every instance dies.
Reboot ==
    /\ PowerLoss
    /\ walletOpen' = Nobody
    /\ keyOpen' = Nobody
    /\ pc' = [k \in Client |-> "idle"]
    /\ op' = [k \in Client |-> NoOp]
    /\ out' = [k \in Client |-> "TARGET_DEAD"]
    /\ pair' = [k \in Client |-> NoKey]
    /\ UNCHANGED <<wallet, key, signed>>

InitStep(k) ==
    \/ HashPassword(k) \/ CreateWallet(k) \/ WriteWallet(k) \/ WriteWalletFails(k)
    \/ FindKey(k) \/ GenerateKey(k) \/ CreateKey(k) \/ CloseKey(k) \/ CloseWallet(k)

LoginStep(k) == OpenWallet(k) \/ ReadWallet(k) \/ OpenKey(k) \/ SignChallenge(k)

Next ==
    \/ \E k \in Client :
          \/ \E o \in Op : Invoke(k, o)
          \/ InvokeFails(k) \/ InitStep(k) \/ LoginStep(k)
    \/ Reboot

Spec == Init /\ [][Next]_vars

-----------------------------------------------------------------------------
(***************************************************************************)
(* Properties                                                              *)
(***************************************************************************)

\* Every variable keeps its type.
TypeOK ==
    /\ wallet \in Identity \union {Absent, Blank}
    /\ key \in RsaKey \union {NoKey}
    /\ walletOpen \in Client \union {Nobody}
    /\ keyOpen \in Client \union {Nobody}
    /\ pc \in [Client -> {"idle", "hash", "create", "write", "find_key", "generate",
                          "create_key", "close_key", "close_wallet", "open_wallet",
                          "read", "open_key", "sign"}]
    /\ op \in [Client -> Op \union {NoOp}]
    /\ out \in [Client -> Result]
    /\ pair \in [Client -> RsaKey \union {NoKey}]
    /\ signed \subseteq [c : Challenge, key : RsaKey]

\* An init that is about to answer SUCCESS has left the wallet of its own
\* owner and a key, whatever other inits and logins did in the meantime:
\* only the exclusive handle it keeps until its end makes that so.
InitLeavesWallet ==
    \A k \in Client : pc[k] = "close_wallet" =>
        /\ wallet = op[k].id
        /\ out[k] = "SUCCESS" => key # NoKey

\* An object is open only in a command that still runs and closes it: one
\* left open by a failing path would refuse every later init and login.
NoObjectLeftOpen ==
    /\ walletOpen # Nobody => pc[walletOpen] \notin {"idle", "open_key", "sign"}
    /\ keyOpen # Nobody => pc[keyOpen] \in {"close_key", "sign"}

\* trusted_authority_ta.c:171, "En cas d'erreur, on supprime l'objet mal
\* ecrit pour la securite": an empty wallet is one that is being written.
\* Violated when the write fails, without any power loss.
BadlyWrittenIsDeleted ==
    wallet = Blank => \E k \in Client : pc[k] = "write"

\* Which steps belong to which command, and which hold which object open.
InitSteps   == {"hash", "create", "write", "find_key", "generate", "create_key",
                "close_key", "close_wallet"}
LoginSteps  == {"open_wallet", "read", "open_key", "sign"}
HoldsWallet == (InitSteps \ {"hash", "create"}) \union {"read"}
HoldsKey    == {"close_key", "sign"}

OnPath ==
    \A k \in Client :
        /\ pc[k] \in InitSteps => op[k].cmd = "init"
        /\ pc[k] \in LoginSteps => op[k].cmd = "login"
        /\ pc[k] = "create_key" => pair[k] # NoKey
        /\ pc[k] \in HoldsKey => key # NoKey

Exclusive ==
    \A k \in Client :
        /\ walletOpen = k <=> pc[k] \in HoldsWallet
        /\ keyOpen = k <=> pc[k] \in HoldsKey

Written ==
    \A k \in Client :
        pc[k] \in InitSteps \ {"hash", "create", "write"} => wallet = op[k].id

\* The inductive invariant of TrustedAuthorityProofs.
IInv == TypeOK /\ OnPath /\ Exclusive /\ Written /\ InitLeavesWallet

IdentitySpec == INSTANCE SigningIdentity

\* Every behaviour keeps one signing key: re-creation of the wallet, two
\* concurrent first creations, panics and power loss never replace it.
ImplementsIdentity == IdentitySpec!Spec

=============================================================================
