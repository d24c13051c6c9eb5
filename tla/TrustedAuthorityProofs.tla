----------------------- MODULE TrustedAuthorityProofs -----------------------
(***************************************************************************)
(* Theorems about TrustedAuthority, for any clients, owners, keys and      *)
(* challenges: the inductive invariant IInv, that a successful init leaves *)
(* its own wallet and a key, and that the signing key is kept for ever:    *)
(* the TA implements SigningIdentity.                                      *)
(***************************************************************************)
EXTENDS TrustedAuthority, TLAPS

(***************************************************************************)
(* The commands and their fields.                                          *)
(***************************************************************************)
LEMMA Commands ==
  /\ \A o \in Op : /\ o.cmd \in {"init", "login"}
                   /\ o.cmd = "init" => o.id \in Identity
                   /\ o.cmd = "login" => o.c \in Challenge
  /\ NoOp.cmd = "none"
  BY DEF Op, NoOp

(***************************************************************************)
(* The command of an instance that runs one.                               *)
(***************************************************************************)
LEMMA Running ==
  ASSUME TypeOK, NEW k \in Client
  PROVE  /\ op[k].cmd = "init" => op[k].id \in Identity
         /\ op[k].cmd = "login" => op[k].c \in Challenge
<1>1. op[k] \in Op \/ op[k] = NoOp
  BY DEF TypeOK
<1> QED
  BY <1>1, Commands

LEMMA InitIInv == Init => IInv
<1> SUFFICES ASSUME Init PROVE IInv
  OBVIOUS
<1>1. TypeOK
  BY DEF Init, TypeOK, Result
<1>2. OnPath /\ Exclusive /\ Written /\ InitLeavesWallet
  BY NobodyNotClient DEF Init, OnPath, Exclusive, Written, InitLeavesWallet,
     InitSteps, LoginSteps, HoldsWallet, HoldsKey
<1> QED
  BY <1>1, <1>2 DEF IInv

(***************************************************************************)
(* One step per action, and under it one per conjunct of the invariant.    *)
(***************************************************************************)
LEMMA NextIInv == IInv /\ [Next]_vars => IInv'
<1> SUFFICES ASSUME IInv, [Next]_vars PROVE IInv'
  OBVIOUS
<1> USE DEF IInv, Goto, Answer, InitSteps, LoginSteps, HoldsWallet, HoldsKey
<1>1. ASSUME NEW k \in Client, NEW o \in Op, Invoke(k, o) PROVE IInv'
  <2>1. TypeOK'
    BY <1>1 DEF Invoke, TypeOK, Result
  <2>2. OnPath'
    <3>1. op'[k] = o /\ \A l \in Client \ {k} : op'[l] = op[l] /\ pc'[l] = pc[l]
      BY <1>1 DEF Invoke, TypeOK
    <3>2. pc'[k] = IF o.cmd = "init" THEN "hash" ELSE "open_wallet"
      BY <1>1 DEF Invoke, TypeOK
    <3>3. o.cmd \in {"init", "login"} /\ pair' = pair /\ key' = key
      BY <1>1, Commands DEF Invoke
    <3> QED
      BY <3>1, <3>2, <3>3 DEF OnPath
  <2>3. Exclusive'
    BY <1>1 DEF Invoke, TypeOK, Exclusive
  <2>4. Written'
    BY <1>1 DEF Invoke, TypeOK, Written, Exclusive
  <2>5. InitLeavesWallet'
    BY <1>1, <2>2, <2>4 DEF Invoke, TypeOK, InitLeavesWallet, Written
  <2> QED
    BY <2>1, <2>2, <2>3, <2>4, <2>5
<1>2. ASSUME NEW k \in Client, InvokeFails(k) PROVE IInv'
  <2>1. TypeOK'
    BY <1>2 DEF InvokeFails, TypeOK, Result
  <2>2. OnPath'
    BY <1>2 DEF InvokeFails, TypeOK, OnPath
  <2>3. Exclusive'
    BY <1>2 DEF InvokeFails, TypeOK, Exclusive
  <2>4. Written'
    BY <1>2 DEF InvokeFails, TypeOK, Written, Exclusive
  <2>5. InitLeavesWallet'
    BY <1>2, <2>2, <2>4 DEF InvokeFails, TypeOK, InitLeavesWallet, Written
  <2> QED
    BY <2>1, <2>2, <2>3, <2>4, <2>5
<1>3. ASSUME NEW k \in Client, HashPassword(k) PROVE IInv'
  <2>1. TypeOK'
    BY <1>3 DEF HashPassword, TypeOK, Result
  <2>2. OnPath'
    BY <1>3 DEF HashPassword, TypeOK, OnPath
  <2>3. Exclusive'
    BY <1>3 DEF HashPassword, TypeOK, Exclusive
  <2>4. Written'
    BY <1>3 DEF HashPassword, TypeOK, Written
  <2>5. InitLeavesWallet'
    BY <1>3, <2>2, <2>4 DEF HashPassword, TypeOK, InitLeavesWallet, Written
  <2> QED
    BY <2>1, <2>2, <2>3, <2>4, <2>5
<1>4. ASSUME NEW k \in Client, CreateWallet(k) PROVE IInv'
  <2>1. TypeOK'
    BY <1>4 DEF CreateWallet, TypeOK, Result
  <2>2. OnPath'
    BY <1>4 DEF CreateWallet, TypeOK, OnPath
  <2>3. Exclusive'
    BY <1>4, NobodyNotClient DEF CreateWallet, TypeOK, Exclusive
  <2>4. Written'
    BY <1>4, NobodyNotClient DEF CreateWallet, TypeOK, Written, Exclusive
  <2>5. InitLeavesWallet'
    BY <1>4, <2>2, <2>4 DEF CreateWallet, TypeOK, InitLeavesWallet, Written
  <2> QED
    BY <2>1, <2>2, <2>3, <2>4, <2>5
<1>5. ASSUME NEW k \in Client, WriteWallet(k) PROVE IInv'
  <2>1. TypeOK'
    <3>1. op[k].id \in Identity
      BY <1>5, Running DEF WriteWallet, OnPath
    <3> QED
      BY <1>5, <3>1 DEF WriteWallet, TypeOK, Result
  <2>2. OnPath'
    BY <1>5 DEF WriteWallet, TypeOK, OnPath
  <2>3. Exclusive'
    BY <1>5 DEF WriteWallet, TypeOK, Exclusive
  <2>4. Written'
    BY <1>5 DEF WriteWallet, TypeOK, Written, Exclusive
  <2>5. InitLeavesWallet'
    BY <1>5, <2>2, <2>4 DEF WriteWallet, TypeOK, InitLeavesWallet, Written
  <2> QED
    BY <2>1, <2>2, <2>3, <2>4, <2>5
<1>6. ASSUME NEW k \in Client, WriteWalletFails(k) PROVE IInv'
  <2>1. TypeOK'
    BY <1>6 DEF WriteWalletFails, TypeOK, Result
  <2>2. OnPath'
    BY <1>6 DEF WriteWalletFails, TypeOK, OnPath
  <2>3. Exclusive'
    BY <1>6, NobodyNotClient DEF WriteWalletFails, TypeOK, Exclusive
  <2>4. Written'
    BY <1>6 DEF WriteWalletFails, TypeOK, Written
  <2>5. InitLeavesWallet'
    BY <1>6, <2>2, <2>4 DEF WriteWalletFails, TypeOK, InitLeavesWallet, Written
  <2> QED
    BY <2>1, <2>2, <2>3, <2>4, <2>5
<1>7. ASSUME NEW k \in Client, FindKey(k) PROVE IInv'
  <2>1. TypeOK'
    BY <1>7 DEF FindKey, TypeOK, Result
  <2>2. OnPath'
    BY <1>7 DEF FindKey, TypeOK, OnPath
  <2>3. Exclusive'
    BY <1>7, NobodyNotClient DEF FindKey, TypeOK, Exclusive
  <2>4. Written'
    BY <1>7 DEF FindKey, TypeOK, Written
  <2>5. InitLeavesWallet'
    BY <1>7, <2>2, <2>4 DEF FindKey, TypeOK, InitLeavesWallet, Written
  <2> QED
    BY <2>1, <2>2, <2>3, <2>4, <2>5
<1>8. ASSUME NEW k \in Client, GenerateKey(k) PROVE IInv'
  <2>1. TypeOK'
    BY <1>8 DEF GenerateKey, TypeOK, Result
  <2>2. OnPath'
    BY <1>8, NoKeyIsNotRsaKey DEF GenerateKey, TypeOK, OnPath
  <2>3. Exclusive'
    BY <1>8 DEF GenerateKey, TypeOK, Exclusive
  <2>4. Written'
    BY <1>8 DEF GenerateKey, TypeOK, Written
  <2>5. InitLeavesWallet'
    BY <1>8, <2>2, <2>4 DEF GenerateKey, TypeOK, InitLeavesWallet, Written
  <2> QED
    BY <2>1, <2>2, <2>3, <2>4, <2>5
<1>9. ASSUME NEW k \in Client, CreateKey(k) PROVE IInv'
  <2>1. TypeOK'
    BY <1>9 DEF CreateKey, TypeOK, Result
  <2>2. OnPath'
    BY <1>9 DEF CreateKey, TypeOK, OnPath
  <2>3. Exclusive'
    BY <1>9, NobodyNotClient DEF CreateKey, TypeOK, Exclusive, OnPath
  <2>4. Written'
    BY <1>9 DEF CreateKey, TypeOK, Written
  <2>5. InitLeavesWallet'
    BY <1>9, <2>2, <2>4 DEF CreateKey, TypeOK, InitLeavesWallet, Written
  <2> QED
    BY <2>1, <2>2, <2>3, <2>4, <2>5
<1>10. ASSUME NEW k \in Client, CloseKey(k) PROVE IInv'
  <2>1. TypeOK'
    BY <1>10 DEF CloseKey, TypeOK, Result
  <2>2. OnPath'
    BY <1>10 DEF CloseKey, TypeOK, OnPath
  <2>3. Exclusive'
    BY <1>10, NobodyNotClient DEF CloseKey, TypeOK, Exclusive
  <2>4. Written'
    BY <1>10 DEF CloseKey, TypeOK, Written
  <2>5. InitLeavesWallet'
    BY <1>10, <2>2, <2>4 DEF CloseKey, TypeOK, InitLeavesWallet, Written, OnPath
  <2> QED
    BY <2>1, <2>2, <2>3, <2>4, <2>5
<1>11. ASSUME NEW k \in Client, CloseWallet(k) PROVE IInv'
  <2>1. TypeOK'
    BY <1>11 DEF CloseWallet, TypeOK, Result
  <2>2. OnPath'
    BY <1>11 DEF CloseWallet, TypeOK, OnPath
  <2>3. Exclusive'
    BY <1>11, NobodyNotClient DEF CloseWallet, TypeOK, Exclusive
  <2>4. Written'
    BY <1>11 DEF CloseWallet, TypeOK, Written
  <2>5. InitLeavesWallet'
    BY <1>11, <2>2, <2>4 DEF CloseWallet, TypeOK, InitLeavesWallet, Written
  <2> QED
    BY <2>1, <2>2, <2>3, <2>4, <2>5
<1>12. ASSUME NEW k \in Client, OpenWallet(k) PROVE IInv'
  <2>1. TypeOK'
    BY <1>12 DEF OpenWallet, TypeOK, Result
  <2>2. OnPath'
    BY <1>12 DEF OpenWallet, TypeOK, OnPath
  <2>3. Exclusive'
    BY <1>12, NobodyNotClient DEF OpenWallet, TypeOK, Exclusive
  <2>4. Written'
    BY <1>12 DEF OpenWallet, TypeOK, Written
  <2>5. InitLeavesWallet'
    BY <1>12, <2>2, <2>4 DEF OpenWallet, TypeOK, InitLeavesWallet, Written
  <2> QED
    BY <2>1, <2>2, <2>3, <2>4, <2>5
<1>13. ASSUME NEW k \in Client, ReadWallet(k) PROVE IInv'
  <2>1. TypeOK'
    BY <1>13 DEF ReadWallet, TypeOK, Result
  <2>2. OnPath'
    BY <1>13 DEF ReadWallet, TypeOK, OnPath
  <2>3. Exclusive'
    BY <1>13, NobodyNotClient DEF ReadWallet, TypeOK, Exclusive
  <2>4. Written'
    BY <1>13 DEF ReadWallet, TypeOK, Written
  <2>5. InitLeavesWallet'
    BY <1>13, <2>2, <2>4 DEF ReadWallet, TypeOK, InitLeavesWallet, Written
  <2> QED
    BY <2>1, <2>2, <2>3, <2>4, <2>5
<1>14. ASSUME NEW k \in Client, OpenKey(k) PROVE IInv'
  <2>1. TypeOK'
    BY <1>14 DEF OpenKey, TypeOK, Result
  <2>2. OnPath'
    BY <1>14 DEF OpenKey, TypeOK, OnPath
  <2>3. Exclusive'
    BY <1>14, NobodyNotClient DEF OpenKey, TypeOK, Exclusive
  <2>4. Written'
    BY <1>14 DEF OpenKey, TypeOK, Written
  <2>5. InitLeavesWallet'
    BY <1>14, <2>2, <2>4 DEF OpenKey, TypeOK, InitLeavesWallet, Written
  <2> QED
    BY <2>1, <2>2, <2>3, <2>4, <2>5
<1>15. ASSUME NEW k \in Client, SignChallenge(k) PROVE IInv'
  <2>1. TypeOK'
    <3>1. op[k].c \in Challenge /\ key \in RsaKey
      BY <1>15, Running DEF SignChallenge, TypeOK, OnPath
    <3> QED
      BY <1>15, <3>1 DEF SignChallenge, TypeOK, Result
  <2>2. OnPath'
    BY <1>15 DEF SignChallenge, TypeOK, OnPath
  <2>3. Exclusive'
    BY <1>15, NobodyNotClient DEF SignChallenge, TypeOK, Exclusive
  <2>4. Written'
    BY <1>15 DEF SignChallenge, TypeOK, Written
  <2>5. InitLeavesWallet'
    BY <1>15, <2>2, <2>4 DEF SignChallenge, TypeOK, InitLeavesWallet, Written
  <2> QED
    BY <2>1, <2>2, <2>3, <2>4, <2>5
<1>16. CASE Reboot
  <2>1. TypeOK'
    BY <1>16 DEF Reboot, TypeOK, Result
  <2>2. OnPath' /\ Exclusive' /\ Written' /\ InitLeavesWallet'
    BY <1>16, NobodyNotClient DEF Reboot, OnPath, Exclusive, Written, InitLeavesWallet
  <2> QED
    BY <2>1, <2>2
<1>17. CASE UNCHANGED vars
  BY <1>17 DEF vars, instanceVars, TypeOK, OnPath, Exclusive, Written, InitLeavesWallet
<1> QED
  BY <1>1, <1>2, <1>3, <1>4, <1>5, <1>6, <1>7, <1>8, <1>9,
     <1>10, <1>11, <1>12, <1>13, <1>14, <1>15, <1>16, <1>17 DEF Next, InitStep, LoginStep

(***************************************************************************)
(* The inductive invariant: the paths of the two commands, which step      *)
(* holds which object open, and what the wallet holds meanwhile.           *)
(***************************************************************************)
THEOREM Invariance == Spec => []IInv
  BY InitIInv, NextIInv, PTL DEF Spec

(***************************************************************************)
(* The variables of the TA keep their types.                               *)
(***************************************************************************)
THEOREM TypeCorrect == Spec => []TypeOK
<1>1. IInv => TypeOK
  BY DEF IInv
<1> QED
  BY <1>1, Invariance, PTL

(***************************************************************************)
(* An init that answers SUCCESS leaves its own wallet and a key, whatever  *)
(* the other instances do.                                                 *)
(***************************************************************************)
THEOREM InitCompletes == Spec => []InitLeavesWallet
<1>1. IInv => InitLeavesWallet
  BY DEF IInv
<1> QED
  BY <1>1, Invariance, PTL

(***************************************************************************)
(* No failing path leaves an object open.                                  *)
(***************************************************************************)
THEOREM ObjectsClosed == Spec => []NoObjectLeftOpen
<1>1. IInv => NoObjectLeftOpen
  BY DEF IInv, TypeOK, Exclusive, NoObjectLeftOpen, HoldsWallet, HoldsKey, InitSteps
<1> QED
  BY <1>1, Invariance, PTL

(***************************************************************************)
(* Each step creates the key, signs with it, or changes neither.           *)
(***************************************************************************)
LEMMA StepSimulation ==
  ASSUME IInv, [Next]_vars
  PROVE  [IdentitySpec!Next]_<<key, signed>>
<1>1. ASSUME NEW k \in Client, CreateKey(k)
      PROVE  [IdentitySpec!Next]_<<key, signed>>
  BY <1>1 DEF CreateKey, IInv, TypeOK, OnPath, IdentitySpec!Next, IdentitySpec!Create
<1>2. ASSUME NEW k \in Client, SignChallenge(k)
      PROVE  [IdentitySpec!Next]_<<key, signed>>
  <2>1. key # NoKey /\ op[k].c \in Challenge
    BY <1>2, Running DEF SignChallenge, IInv, TypeOK, OnPath, LoginSteps, HoldsKey
  <2>2. signed' = signed \union {[c |-> op[k].c, key |-> key]} => IdentitySpec!Next
    BY <1>2, <2>1 DEF SignChallenge, IdentitySpec!Next, IdentitySpec!Sign
  <2> QED
    BY <1>2, <2>2 DEF SignChallenge
<1>3. ASSUME NEW k \in Client, ~CreateKey(k), ~SignChallenge(k),
             \/ \E o \in Op : Invoke(k, o)
             \/ InvokeFails(k) \/ InitStep(k) \/ LoginStep(k)
      PROVE  UNCHANGED <<key, signed>>
  BY <1>3 DEF Invoke, InvokeFails, InitStep, LoginStep, HashPassword, CreateWallet,
     WriteWallet, WriteWalletFails, FindKey, GenerateKey, CloseKey, CloseWallet,
     OpenWallet, ReadWallet, OpenKey
<1>4. CASE Reboot
  BY <1>4 DEF Reboot
<1>5. CASE UNCHANGED vars
  BY <1>5 DEF vars
<1> QED
  BY <1>1, <1>2, <1>3, <1>4, <1>5 DEF Next

(***************************************************************************)
(* The key a wallet signs with is created once and never replaced.         *)
(***************************************************************************)
THEOREM IdentityRefinement == Spec => ImplementsIdentity
<1>1. Init => IdentitySpec!Init
  BY DEF Init, IdentitySpec!Init
<1> QED
  BY <1>1, StepSimulation, Invariance, PTL DEF Spec, ImplementsIdentity, IdentitySpec!Spec

(***************************************************************************)
(* What another specification needs to know of the instances it calls: a   *)
(* wallet object and a key stay once both are there, an init that ends     *)
(* with SUCCESS leaves both, and an instance keeps its command.            *)
(***************************************************************************)
Made == wallet # Absent /\ key # NoKey

LEMMA MadeStays ==
  ASSUME IInv, Made, [Next]_vars, Absent # Blank
  PROVE  Made'
<1>1. ASSUME NEW k \in Client, WriteWallet(k) PROVE Made'
  <2>1. op[k].id \in Identity
    BY <1>1, Running DEF WriteWallet, IInv, OnPath, InitSteps
  <2> QED
    BY <1>1, <2>1, NoIdentity DEF WriteWallet, Made
<1>2. ASSUME NEW k \in Client, CreateKey(k) PROVE Made'
  BY <1>2 DEF CreateKey, Made, IInv, OnPath
<1>3. ASSUME NEW k \in Client, ~WriteWallet(k), ~CreateKey(k),
             \/ \E o \in Op : Invoke(k, o)
             \/ InvokeFails(k) \/ InitStep(k) \/ LoginStep(k)
      PROVE  Made'
  BY <1>3 DEF Made, Invoke, InvokeFails, InitStep, LoginStep, HashPassword, CreateWallet,
     WriteWalletFails, FindKey, GenerateKey, CloseKey, CloseWallet, OpenWallet, ReadWallet,
     OpenKey, SignChallenge
<1>4. CASE Reboot
  BY <1>4 DEF Reboot, Made
<1>5. CASE UNCHANGED vars
  BY <1>5 DEF vars, Made
<1> QED
  BY <1>1, <1>2, <1>3, <1>4, <1>5 DEF Next

LEMMA OthersStay ==
  ASSUME TypeOK, [Next]_vars, NEW k \in Client, pc[k] # "idle",
         ~InitStep(k), ~LoginStep(k), ~Reboot
  PROVE  pc'[k] = pc[k] /\ op'[k] = op[k] /\ out'[k] = out[k]
<1>1. ASSUME NEW l \in Client \ {k},
             \/ \E o \in Op : Invoke(l, o)
             \/ InvokeFails(l) \/ InitStep(l) \/ LoginStep(l)
      PROVE  pc'[k] = pc[k] /\ op'[k] = op[k] /\ out'[k] = out[k]
  BY <1>1 DEF TypeOK, Goto, Answer, Invoke, InvokeFails, InitStep, LoginStep, HashPassword,
     CreateWallet, WriteWallet, WriteWalletFails, FindKey, GenerateKey, CreateKey, CloseKey,
     CloseWallet, OpenWallet, ReadWallet, OpenKey, SignChallenge
<1>2. CASE \E o \in Op : Invoke(k, o)
  BY <1>2 DEF Invoke
<1>3. CASE InvokeFails(k)
  BY <1>3 DEF InvokeFails
<1>4. CASE UNCHANGED vars
  BY <1>4 DEF vars, instanceVars
<1> QED
  BY <1>1, <1>2, <1>3, <1>4 DEF Next

LEMMA RunsItsCommand ==
  ASSUME IInv, [Next]_vars, NEW k \in Client, pc[k] # "idle", pc'[k] # "idle"
  PROVE  op'[k] = op[k]
<1>1. CASE InitStep(k) \/ LoginStep(k)
  BY <1>1 DEF IInv, TypeOK, Goto, Answer, InitStep, LoginStep, HashPassword,
     CreateWallet, WriteWallet, WriteWalletFails, FindKey, GenerateKey, CreateKey, CloseKey,
     CloseWallet, OpenWallet, ReadWallet, OpenKey, SignChallenge
<1>2. CASE Reboot
  BY <1>2 DEF Reboot
<1> QED
  BY <1>1, <1>2, OthersStay DEF IInv

LEMMA InitEndsMade ==
  ASSUME IInv, [Next]_vars, NEW k \in Client, pc[k] # "idle", op[k].cmd = "init",
         pc'[k] = "idle", out'[k] = "SUCCESS"
  PROVE  Made'
<1>1. CASE CloseWallet(k)
  <2>1. out[k] = "SUCCESS"
    BY <1>1 DEF CloseWallet, Answer, IInv, TypeOK
  <2>2. op[k].id \in Identity /\ wallet = op[k].id /\ key # NoKey
    BY <1>1, <2>1, Running DEF CloseWallet, IInv, InitLeavesWallet
  <2> QED
    BY <1>1, <2>2, NoIdentity DEF CloseWallet, Made
<1>2. CASE InitStep(k) /\ ~CloseWallet(k)
  BY <1>2 DEF IInv, TypeOK, Goto, Answer, InitStep, HashPassword, CreateWallet, WriteWallet,
     WriteWalletFails, FindKey, GenerateKey, CreateKey, CloseKey
<1>3. CASE LoginStep(k)
  BY <1>3 DEF IInv, OnPath, LoginSteps, LoginStep, OpenWallet, ReadWallet, OpenKey,
     SignChallenge
<1>4. CASE Reboot
  BY <1>4 DEF Reboot
<1> QED
  BY <1>1, <1>2, <1>3, <1>4, OthersStay DEF IInv

=============================================================================
