---------------------------- MODULE IzkpTAProofs ----------------------------
(***************************************************************************)
(* Theorems about IzkpTA, for any sets of clients, nonces and challenges:  *)
(* the inductive invariant IInv, the two facts the protocol rests on (no   *)
(* nonce answered twice, the zeroed nonce never answered), and that every  *)
(* behaviour of the TA is one of the abstract prover SigmaLedger.          *)
(***************************************************************************)
EXTENDS IzkpTA, TLAPS

(***************************************************************************)
(* Initially no session is open and nothing was handed out.                *)
(***************************************************************************)
LEMMA InitIInv == Init => IInv
  BY DEF Init, IInv, TypeOK, PendingIsUnspent, NonceAnsweredOnce, ClosedCtx,
         SessionCtx, State, NoOutput, Reply, Result

(***************************************************************************)
(* Steps that change no session to committed, issue and answer nothing     *)
(* keep the invariant: closing, failing and refused calls all do this.     *)
(***************************************************************************)
LEMMA QuietStep ==
  ASSUME IInv,
         UNCHANGED <<issued, answered>>,
         reply' \in [Client -> Reply],
         sess' \in [Client -> SessionCtx],
         \A k \in Client : sess'[k].state = "committed" => sess'[k] = sess[k]
  PROVE  IInv'
<1>1. TypeOK'
  BY DEF IInv, TypeOK
<1>2. PendingIsUnspent'
  BY DEF IInv, TypeOK, PendingIsUnspent
<1>3. NonceAnsweredOnce' /\ (\A p \in answered : p.r \in issued)'
  BY DEF IInv, NonceAnsweredOnce
<1> QED
  BY <1>1, <1>2, <1>3 DEF IInv

(***************************************************************************)
(* What a call returns is a reply.                                         *)
(***************************************************************************)
LEMMA FailReply ==
  ASSUME NEW k \in Client, NEW res \in Result, TypeOK, Fail(k, res)
  PROVE  reply' \in [Client -> Reply]
  BY DEF TypeOK, Fail, Return, Reply

LEMMA NoOutputReply ==
  ASSUME NEW k \in Client, TypeOK, Return(k, NoOutput)
  PROVE  reply' \in [Client -> Reply]
  BY DEF TypeOK, Return, Reply, NoOutput, Result

(***************************************************************************)
(* Every call keeps the invariant.                                         *)
(***************************************************************************)
LEMMA NextIInv == IInv /\ [Next]_taVars => IInv'
<1> SUFFICES ASSUME IInv, [Next]_taVars PROVE IInv'
  OBVIOUS
<1>t. TypeOK
  BY DEF IInv
<1>ctx. ClosedCtx \in SessionCtx /\ IdleCtx \in SessionCtx
  BY DEF ClosedCtx, IdleCtx, SessionCtx, State
<1>1. ASSUME NEW k \in Client, OpenSession(k) PROVE IInv'
  <2>1. reply' \in [Client -> Reply]
    BY <1>1, <1>t, NoOutputReply DEF OpenSession
  <2>2. /\ sess' \in [Client -> SessionCtx]
        /\ \A l \in Client : sess'[l].state = "committed" => sess'[l] = sess[l]
    BY <1>1, <1>t, <1>ctx DEF OpenSession, TypeOK, IdleCtx
  <2> QED
    BY <1>1, <2>1, <2>2, QuietStep DEF OpenSession
<1>2. ASSUME NEW k \in Client, OpenSessionFails(k) PROVE IInv'
  <2>1. reply' \in [Client -> Reply]
    BY <1>2, <1>t, FailReply DEF OpenSessionFails, Result
  <2> QED
    BY <1>2, <1>t, <2>1, QuietStep DEF OpenSessionFails, TypeOK
<1>3. ASSUME NEW k \in Client, CloseSession(k) PROVE IInv'
  <2>1. reply' \in [Client -> Reply]
    BY <1>3, <1>t, NoOutputReply DEF CloseSession
  <2>2. /\ sess' \in [Client -> SessionCtx]
        /\ \A l \in Client : sess'[l].state = "committed" => sess'[l] = sess[l]
    BY <1>3, <1>t, <1>ctx DEF CloseSession, TypeOK, ClosedCtx
  <2> QED
    BY <1>3, <2>1, <2>2, QuietStep DEF CloseSession
<1>4. ASSUME NEW k \in Client, GetCommitmentFails(k) PROVE IInv'
  <2>1. reply' \in [Client -> Reply]
    BY <1>4, <1>t, FailReply DEF GetCommitmentFails, Result
  <2> QED
    BY <1>4, <1>t, <2>1, QuietStep DEF GetCommitmentFails, TypeOK
<1>5. ASSUME NEW k \in Client, NEW r \in Nonce, GetCommitment(k, r) PROVE IInv'
  <2> USE <1>5 DEF GetCommitment
  <2>1. sess'[k] = [state |-> "committed", r |-> r]
    BY <1>t DEF TypeOK
  <2>2. \A l \in Client \ {k} : sess'[l] = sess[l]
    BY <1>t DEF TypeOK
  <2>3. TypeOK'
    <3>1. [state |-> "committed", r |-> r] \in SessionCtx
      BY DEF SessionCtx, State
    <3>2. [res |-> "SUCCESS", u |-> r] \in Reply
      BY DEF Reply
    <3> QED
      BY <1>t, <3>1, <3>2 DEF TypeOK, Return
  <2>4. \A p \in answered : p.r # r
    BY DEF IInv
  <2>5. PendingIsUnspent'
    BY <2>1, <2>2, <2>4 DEF IInv, PendingIsUnspent
  <2> QED
    BY <2>3, <2>5 DEF IInv, NonceAnsweredOnce
<1>6. ASSUME NEW k \in Client, ComputeResponseRefused(k) PROVE IInv'
  <2>1. reply' \in [Client -> Reply]
    BY <1>6, <1>t, FailReply DEF ComputeResponseRefused, Result
  <2> QED
    BY <1>6, <1>t, <2>1, QuietStep DEF ComputeResponseRefused, TypeOK
<1>7. ASSUME NEW k \in Client, ComputeResponseNoMemory(k) PROVE IInv'
  <2>1. reply' \in [Client -> Reply]
    BY <1>7, <1>t, FailReply DEF ComputeResponseNoMemory, Result
  <2>2. /\ sess' \in [Client -> SessionCtx]
        /\ \A l \in Client : sess'[l].state = "committed" => sess'[l] = sess[l]
    BY <1>7, <1>t, <1>ctx DEF ComputeResponseNoMemory, TypeOK, IdleCtx
  <2> QED
    BY <1>7, <2>1, <2>2, QuietStep DEF ComputeResponseNoMemory
<1>8. ASSUME NEW k \in Client, NEW c \in Challenge, ComputeResponse(k, c)
      PROVE  IInv'
  <2> DEFINE z == [r |-> sess[k].r, c |-> c]
  <2>1. /\ sess[k].state = "committed"
        /\ sess' = [sess EXCEPT ![k] = IdleCtx]
        /\ answered' = answered \union {z}
        /\ reply' = [reply EXCEPT ![k] = [res |-> "SUCCESS", z |-> z]]
        /\ issued' = issued
    BY <1>8 DEF ComputeResponse, Return
  <2>2. z \in Response /\ z.r = sess[k].r
    BY <1>t DEF TypeOK, Response, SessionCtx
  <2> HIDE DEF z
  <2>3. sess'[k] = IdleCtx /\ \A l \in Client \ {k} : sess'[l] = sess[l]
    BY <1>t, <2>1 DEF TypeOK
  <2>4. TypeOK'
    <3>1. [res |-> "SUCCESS", z |-> z] \in Reply
      BY <2>2 DEF Reply
    <3> QED
      BY <1>t, <1>ctx, <2>1, <2>2, <3>1 DEF TypeOK
  <2>5. \A p \in answered : p.r # z.r
    BY <2>1, <2>2 DEF IInv, PendingIsUnspent
  <2>6. NonceAnsweredOnce'
    BY <2>1, <2>5 DEF IInv, NonceAnsweredOnce
  <2>7. PendingIsUnspent'
    BY <2>1, <2>2, <2>3 DEF IInv, PendingIsUnspent, IdleCtx
  <2>8. (\A p \in answered : p.r \in issued)'
    BY <2>1, <2>2 DEF IInv, PendingIsUnspent
  <2> QED
    BY <2>4, <2>6, <2>7, <2>8 DEF IInv
<1>9. ASSUME NEW k \in Client, UnknownCommand(k) PROVE IInv'
  <2>1. reply' \in [Client -> Reply]
    BY <1>9, <1>t, FailReply DEF UnknownCommand, Result
  <2> QED
    BY <1>9, <1>t, <2>1, QuietStep DEF UnknownCommand, TypeOK
<1>10. CASE UNCHANGED taVars
  BY <1>10, <1>t, QuietStep DEF taVars, TypeOK
<1> QED
  BY <1>1, <1>2, <1>3, <1>4, <1>5, <1>6, <1>7, <1>8, <1>9, <1>10 DEF Next

(***************************************************************************)
(* IInv is an invariant of the trusted application.                        *)
(***************************************************************************)
THEOREM Invariance == Spec => []IInv
  BY InitIInv, NextIInv, PTL DEF Spec

(***************************************************************************)
(* Every variable keeps its type.                                          *)
(***************************************************************************)
THEOREM TypeCorrect == Spec => []TypeOK
<1>1. IInv => TypeOK
  BY DEF IInv
<1> QED
  BY <1>1, Invariance, PTL

(***************************************************************************)
(* No nonce is used for two challenges (cmd_compute_response).             *)
(***************************************************************************)
THEOREM NonceSafety == Spec => []NonceAnsweredOnce
<1>1. IInv => NonceAnsweredOnce
  BY DEF IInv
<1> QED
  BY <1>1, Invariance, PTL

(***************************************************************************)
(* The zeroed bigint_r is never the nonce of a response.                   *)
(***************************************************************************)
THEOREM ZeroSafety == Spec => []NeverZeroNonce
<1>1. IInv => NeverZeroNonce
  BY ZeroNotNonce DEF IInv, TypeOK, NeverZeroNonce
<1> QED
  BY <1>1, Invariance, PTL

-----------------------------------------------------------------------------
(***************************************************************************)
(* Refinement.  A step that takes client k out of state committed removes  *)
(* its nonce, and only it, from the pending ones: sessions never share a   *)
(* nonce.                                                                  *)
(***************************************************************************)
LEMMA LeaveCommitted ==
  ASSUME IInv, NEW k \in Client, NEW ctx \in SessionCtx,
         ctx.state # "committed",
         sess' = [sess EXCEPT ![k] = ctx]
  PROVE  /\ sess[k].state = "committed" =>
               /\ sess[k].r \in PendingNonces
               /\ PendingNonces' = PendingNonces \ {sess[k].r}
         /\ sess[k].state # "committed" => PendingNonces' = PendingNonces
<1>1. sess'[k] = ctx /\ \A l \in Client \ {k} : sess'[l] = sess[l]
  BY DEF IInv, TypeOK
<1> QED
  BY <1>1 DEF IInv, PendingIsUnspent, PendingNonces

(***************************************************************************)
(* A new commitment adds its nonce and drops the one it replaces.          *)
(***************************************************************************)
LEMMA EnterCommitted ==
  ASSUME IInv, NEW k \in Client, NEW r \in Nonce,
         sess' = [sess EXCEPT ![k] = [state |-> "committed", r |-> r]]
  PROVE  \E dropped \in SUBSET PendingNonces :
            PendingNonces' = (PendingNonces \ dropped) \union {r}
<1>1. /\ sess'[k] = [state |-> "committed", r |-> r]
      /\ \A l \in Client \ {k} : sess'[l] = sess[l]
  BY DEF IInv, TypeOK
<1>2. CASE sess[k].state = "committed"
  <2>1. {sess[k].r} \in SUBSET PendingNonces
    BY <1>2 DEF PendingNonces
  <2>2. PendingNonces' = (PendingNonces \ {sess[k].r}) \union {r}
    BY <1>1, <1>2 DEF IInv, PendingIsUnspent, PendingNonces
  <2> QED
    BY <2>1, <2>2
<1>3. CASE sess[k].state # "committed"
  <2>1. PendingNonces' = (PendingNonces \ {}) \union {r}
    BY <1>1, <1>3 DEF PendingNonces
  <2> QED
    BY <2>1
<1> QED
  BY <1>2, <1>3

(***************************************************************************)
(* Every step of the TA is a step of the abstract prover or leaves it as   *)
(* it is.                                                                  *)
(***************************************************************************)
LEMMA StepSimulation == IInv /\ [Next]_taVars => [Ledger!Next]_(Ledger!ledgerVars)
<1> SUFFICES ASSUME IInv, [Next]_taVars
             PROVE  Ledger!Next \/ UNCHANGED <<issued, PendingNonces, answered>>
  BY DEF Ledger!ledgerVars
<1>t. TypeOK
  BY DEF IInv
<1>ctx. /\ ClosedCtx \in SessionCtx /\ ClosedCtx.state # "committed"
        /\ IdleCtx \in SessionCtx /\ IdleCtx.state # "committed"
  BY DEF ClosedCtx, IdleCtx, SessionCtx, State
<1>r. \A k \in Client : sess[k].state = "committed" => sess[k].r \in Nonce
  BY <1>t DEF IInv, PendingIsUnspent, TypeOK
<1>same. sess' = sess => PendingNonces' = PendingNonces
  BY DEF PendingNonces
<1>drop. ASSUME NEW k \in Client, sess' \in {[sess EXCEPT ![k] = ClosedCtx],
                                           [sess EXCEPT ![k] = IdleCtx]},
                UNCHANGED <<issued, answered>>
         PROVE  Ledger!Next \/ UNCHANGED <<issued, PendingNonces, answered>>
  <2>1. CASE sess[k].state = "committed"
    <3>1. sess[k].r \in Nonce /\ sess[k].r \in PendingNonces
          /\ PendingNonces' = PendingNonces \ {sess[k].r}
      BY <1>drop, <1>ctx, <1>r, <2>1, LeaveCommitted
    <3> QED
      BY <1>drop, <3>1 DEF Ledger!Next, Ledger!GiveUp
  <2>2. CASE sess[k].state # "committed"
    BY <1>drop, <1>ctx, <2>2, LeaveCommitted
  <2> QED
    BY <2>1, <2>2
<1>1. ASSUME NEW k \in Client,
             OpenSession(k) \/ CloseSession(k) \/ ComputeResponseNoMemory(k)
      PROVE  Ledger!Next \/ UNCHANGED <<issued, PendingNonces, answered>>
  BY <1>1, <1>drop DEF OpenSession, CloseSession, ComputeResponseNoMemory
<1>2. ASSUME NEW k \in Client,
             \/ OpenSessionFails(k) \/ GetCommitmentFails(k)
             \/ ComputeResponseRefused(k) \/ UnknownCommand(k)
      PROVE  UNCHANGED <<issued, PendingNonces, answered>>
  BY <1>2, <1>same DEF OpenSessionFails, GetCommitmentFails,
                       ComputeResponseRefused, UnknownCommand
<1>3. ASSUME NEW k \in Client, NEW r \in Nonce, GetCommitment(k, r)
      PROVE  Ledger!Next
  <2>1. PICK dropped \in SUBSET PendingNonces :
           PendingNonces' = (PendingNonces \ dropped) \union {r}
    BY <1>3, EnterCommitted DEF GetCommitment
  <2>2. Ledger!Issue(r, dropped)
    BY <1>3, <2>1 DEF GetCommitment, Ledger!Issue
  <2> QED
    BY <2>1, <2>2 DEF Ledger!Next
<1>4. ASSUME NEW k \in Client, NEW c \in Challenge, ComputeResponse(k, c)
      PROVE  Ledger!Next
  <2>1. /\ sess[k].r \in Nonce /\ sess[k].r \in PendingNonces
        /\ PendingNonces' = PendingNonces \ {sess[k].r}
    BY <1>4, <1>ctx, <1>r, LeaveCommitted DEF ComputeResponse
  <2>2. Ledger!Respond(sess[k].r, c)
    BY <1>4, <2>1 DEF ComputeResponse, Ledger!Respond
  <2> QED
    BY <2>1, <2>2 DEF Ledger!Next
<1>5. CASE UNCHANGED taVars
  BY <1>5, <1>same DEF taVars
<1> QED
  BY <1>1, <1>2, <1>3, <1>4, <1>5 DEF Next

(***************************************************************************)
(* The trusted application implements the abstract prover: whatever calls  *)
(* fail, are refused or are interrupted, a nonce is issued once and        *)
(* answered at most once.                                                  *)
(***************************************************************************)
THEOREM LedgerRefinement == Spec => ImplementsLedger
<1>1. Init => Ledger!Init
  BY DEF Init, Ledger!Init, PendingNonces, ClosedCtx
<1> QED
  BY <1>1, StepSimulation, Invariance, PTL DEF Spec, ImplementsLedger, Ledger!Spec

=============================================================================
