----------------------------- MODULE MCExamples -----------------------------
(***************************************************************************)
(* The TAs that work alone with their own clients, checked in one run: a   *)
(* behaviour is one of any of these specifications, chosen at the start.   *)
(*                                                                         *)
(* Three handles of a session are enough for the two operations and the    *)
(* object of SET_KEY; a group of order 7 has the points of one and of two  *)
(* digits that the serialisation tells apart; three binary digits let a    *)
(* counter carry twice and wrap around.                                    *)
(***************************************************************************)
EXTENDS AesSession, ShaSession, Nizkp, SecureStorage, Hotp, ConcurrentCounter,
        KeyGeneration, Reception, TLC

CONSTANTS h1, h2, h3, k1, m1, t1, t2, t3

MCHandle == {h1, h2, h3}
MCAesKey == {k1}
MCMacKey == {k1}
MCMessage == {m1}
MCThread == {t1, t2, t3}

\* The order of the group, the coordinates of its points, and memory that
\* held nothing or the order.
MCXCoord == [e \in 1..6 |-> <<5, 6, 2, 2, 6, 5>>[e]]
MCYCoord == [e \in 1..6 |-> <<6, 7, 8, 4, 5, 1>>[e]]
MCStale == {0, 7}

MCStoreHost == {"host1", "host2"}
MCStoreOther == {"client"}
MCStoreObject == {"object#1", "object#2"}

MCHotpKey == {"rfc", "key"}
MCCountHost == {"count1", "count2"}
MCKeyGenHost == {"keygen1", "keygen2"}
MCEcdsaKey == {"ecdsa1", "ecdsa2", "ecdsa3"}
MCReceiver == {"client_wallet", "digest1", "digest2"}
MCDigestSized == {"digest1", "digest2"}

MCSymmetry == Permutations(MCHandle)

VARIABLE ta     \* the TA this behaviour is one of

Init ==
    /\ ta \in {"aes", "sha", "nizkp", "store", "hotp", "count", "keygen", "passt"}
    /\ AesInit /\ ShaInit /\ NizkpInit /\ StoreInit /\ HotpInit /\ CountInit /\ KeyGenInit
    /\ ReceptionInit
    /\ ta # "count" => single

Next ==
    /\ UNCHANGED ta
    /\ \/ ta = "aes" /\ AesNext
       \/ ta # "aes" /\ UNCHANGED aesVars
    /\ \/ ta = "sha" /\ ShaNext
       \/ ta # "sha" /\ UNCHANGED shaVars
    /\ \/ ta = "nizkp" /\ NizkpNext
       \/ ta # "nizkp" /\ UNCHANGED nizkpVars
    /\ \/ ta = "store" /\ StoreNext
       \/ ta # "store" /\ UNCHANGED storeVars
    /\ \/ ta = "hotp" /\ HotpNext
       \/ ta # "hotp" /\ UNCHANGED hotpVars
    /\ \/ ta = "count" /\ CountNext
       \/ ta # "count" /\ UNCHANGED countVars
    /\ \/ ta = "keygen" /\ KeyGenNext
       \/ ta # "keygen" /\ UNCHANGED keyGenVars
    /\ \/ ta = "passt" /\ ReceptionNext
       \/ ta # "passt" /\ UNCHANGED receptionVars

Spec == Init /\ [][Next]_<<ta, aesVars, shaVars, nizkpVars, storeVars, hotpVars,
                           countVars, keyGenVars, receptionVars>>

\* Every variable of every TA keeps its type, whichever TA runs.
TypeOK ==
    /\ AesTypeOK /\ ShaTypeOK /\ NizkpTypeOK /\ StoreTypeOK /\ HotpTypeOK
    /\ CountTypeOK /\ KeyGenTypeOK /\ ReceptionTypeOK

=============================================================================
