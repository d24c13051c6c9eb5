------------------------------- MODULE IzkpTA -------------------------------
(***************************************************************************)
(* The trusted application of the interactive zero-knowledge proof         *)
(* (optee_examples/schnorr_sFS_izkp/ta/schnorrizkp_ta.c): the session      *)
(* context {bigint_r, state} and the entry points that change it, called   *)
(* by any client in any order with any buffer sizes.                       *)
(*                                                                         *)
(* Points and scalars are symbolic.  The commitment u = r.G determines r   *)
(* and is named by it; the response z = r + c.x mod n is the record of the *)
(* nonce and the challenge it was computed from.  Zero is the value of     *)
(* bigint_r after TEE_BigIntInit: a response computed from it would be     *)
(* c.x, the secret key times a number the verifier chose.                  *)
(*                                                                         *)
(* The value kept in bigint_r is named by the same r, although it is not   *)
(* r when a leading zero byte was dropped on the way: see Short in Izkp.   *)
(*                                                                         *)
(* The TA is built SINGLE_INSTANCE without MULTI_SESSION, so the core runs *)
(* one entry point at a time and refuses a second session: every entry     *)
(* point is one step.                                                      *)
(***************************************************************************)

CONSTANTS
    Client,     \* REE client processes
    Nonce,      \* scalars r that TEE_GenerateKey can return
    Challenge,  \* 32-byte challenges
    Zero        \* bigint_r after TEE_BigIntInit

ASSUME ZeroNotNonce == Zero \notin Nonce

VARIABLES
    sess,       \* session context of each client
    issued,     \* nonces whose commitment left the TA
    answered,   \* responses z that left the TA
    reply       \* what the last call of each client returned

taVars == <<sess, issued, answered, reply>>

State == {"closed", "idle", "committed"}  \* closed, or izkp_state_t

SessionCtx == [state : State, r : Nonce \union {Zero}]

Response == [r : Nonce \union {Zero}, c : Challenge]

Result ==
    {"SUCCESS", "BUSY", "OUT_OF_MEMORY", "SHORT_BUFFER", "BAD_PARAMETERS",
     "BAD_STATE", "NOT_SUPPORTED", "GENERIC"}

NoOutput == [res |-> "SUCCESS"]

Reply ==
    [res : Result] \union [res : {"SUCCESS"}, u : Nonce]
                   \union [res : {"SUCCESS"}, z : Response]

ClosedCtx == [state |-> "closed", r |-> Zero]

\* Faulty variant: bigint_r is allocated and not initialised.
IdleCtxUninitialised == [state |-> "idle", r |-> "garbage"]

IdleCtx   == [state |-> "idle", r |-> Zero]

IsOpen(k) == sess[k].state # "closed"

Init ==
    /\ sess = [k \in Client |-> ClosedCtx]
    /\ issued = {}
    /\ answered = {}
    /\ reply = [k \in Client |-> NoOutput]

Return(k, out) == reply' = [reply EXCEPT ![k] = out]
Fail(k, res)   == Return(k, [res |-> res])

-----------------------------------------------------------------------------
(***************************************************************************)
(* Sessions                                                                *)
(***************************************************************************)

\* TA_OpenSessionEntryPoint: context, n and r allocated, state idle.
OpenSession(k) ==
    /\ \A l \in Client : ~IsOpen(l)
    /\ sess' = [sess EXCEPT ![k] = IdleCtx]
    /\ Return(k, NoOutput)
    /\ UNCHANGED <<issued, answered>>

\* The core refuses a second session, or one of the three allocations fails.
OpenSessionFails(k) ==
    /\ ~IsOpen(k)
    /\ IF \E l \in Client : IsOpen(l) THEN Fail(k, "BUSY")
                                      ELSE Fail(k, "OUT_OF_MEMORY")
    /\ UNCHANGED <<sess, issued, answered>>

\* TA_CloseSessionEntryPoint: also run by the core when the client dies.
CloseSession(k) ==
    /\ IsOpen(k)
    /\ sess' = [sess EXCEPT ![k] = ClosedCtx]
    /\ Return(k, NoOutput)
    /\ UNCHANGED <<issued, answered>>

-----------------------------------------------------------------------------
(***************************************************************************)
(* cmd_get_commitment                                                      *)
(***************************************************************************)

\* Wrong parameter types, output buffer below 128 bytes, or a failing
\* transient object: nothing of the context has been touched yet.
GetCommitmentFails(k) ==
    /\ IsOpen(k)
    /\ \E res \in {"BAD_PARAMETERS", "SHORT_BUFFER", "OUT_OF_MEMORY", "GENERIC"} :
          Fail(k, res)
    /\ UNCHANGED <<sess, issued, answered>>

\* Faulty variant: the key pair may repeat.
GetCommitmentRepeats(k, r) ==
    /\ IsOpen(k)
    /\ r \in Nonce
    /\ sess' = [sess EXCEPT ![k] = [state |-> "committed", r |-> r]]
    /\ issued' = issued \union {r}
    /\ Return(k, [res |-> "SUCCESS", u |-> r])
    /\ UNCHANGED answered

\* A fresh key pair (r, u): r replaces the nonce of the context, u leaves.
GetCommitment(k, r) ==
    /\ IsOpen(k)
    /\ r \in Nonce \ issued
    /\ sess' = [sess EXCEPT ![k] = [state |-> "committed", r |-> r]]
    /\ issued' = issued \union {r}
    /\ Return(k, [res |-> "SUCCESS", u |-> r])
    /\ UNCHANGED answered

-----------------------------------------------------------------------------
(***************************************************************************)
(* cmd_compute_response                                                    *)
(***************************************************************************)

\* Wrong types or sizes (tested before the state), or no commitment.
ComputeResponseRefused(k) ==
    /\ IsOpen(k)
    /\ \/ Fail(k, "BAD_PARAMETERS")
       \/ sess[k].state # "committed" /\ Fail(k, "BAD_STATE")
    /\ UNCHANGED <<sess, issued, answered>>

\* Faulty variant: r is wiped, the state stays committed.
ComputeResponseNoMemoryWipesOnly(k) ==
    /\ IsOpen(k)
    /\ sess[k].state = "committed"
    /\ sess' = [sess EXCEPT ![k].r = Zero]
    /\ Fail(k, "OUT_OF_MEMORY")
    /\ UNCHANGED <<issued, answered>>

\* One of the five big integers cannot be allocated: free_ram still ends
\* the round, so the commitment is lost.
ComputeResponseNoMemory(k) ==
    /\ IsOpen(k)
    /\ sess[k].state = "committed"
    /\ sess' = [sess EXCEPT ![k] = IdleCtx]
    /\ Fail(k, "OUT_OF_MEMORY")
    /\ UNCHANGED <<issued, answered>>

\* Faulty variant: the round is not ended.
ComputeResponseAgain(k, c) ==
    /\ IsOpen(k)
    /\ sess[k].state = "committed"
    /\ LET z == [r |-> sess[k].r, c |-> c]
       IN  /\ answered' = answered \union {z}
           /\ Return(k, [res |-> "SUCCESS", z |-> z])
    /\ UNCHANGED <<sess, issued>>

\* z = r + c.x leaves the TA, and free_ram ends the round.
ComputeResponse(k, c) ==
    /\ IsOpen(k)
    /\ sess[k].state = "committed"
    /\ LET z == [r |-> sess[k].r, c |-> c]
       IN  /\ answered' = answered \union {z}
           /\ Return(k, [res |-> "SUCCESS", z |-> z])
    /\ sess' = [sess EXCEPT ![k] = IdleCtx]
    /\ UNCHANGED issued

\* TA_InvokeCommandEntryPoint on any other command identifier.
UnknownCommand(k) ==
    /\ IsOpen(k)
    /\ Fail(k, "NOT_SUPPORTED")
    /\ UNCHANGED <<sess, issued, answered>>

Next ==
    \E k \in Client :
        \/ OpenSession(k)
        \/ OpenSessionFails(k)
        \/ CloseSession(k)
        \/ GetCommitmentFails(k)
        \/ \E r \in Nonce : GetCommitment(k, r)
        \/ ComputeResponseRefused(k)
        \/ ComputeResponseNoMemory(k)
        \/ \E c \in Challenge : ComputeResponse(k, c)
        \/ UnknownCommand(k)

Spec == Init /\ [][Next]_taVars

-----------------------------------------------------------------------------
(***************************************************************************)
(* Properties                                                              *)
(***************************************************************************)

\* Every variable keeps its type.
TypeOK ==
    /\ sess \in [Client -> SessionCtx]
    /\ issued \subseteq Nonce
    /\ answered \subseteq Response
    /\ reply \in [Client -> Reply]

\* No nonce is ever used for two different challenges: from two responses
\* of one nonce the secret key x follows (cmd_compute_response resets the
\* state and r on every path behind the state test).
NonceAnsweredOnce ==
    \A p, q \in answered : p.r = q.r => p = q

\* No response is computed from the zeroed bigint_r: r = 0 would reveal
\* c.x, whatever sequence of failing calls came before.
NeverZeroNonce ==
    \A p \in answered : p.r # Zero

\* A nonce that may still be answered has not been answered, belongs to
\* one session, and its commitment was really handed out.
PendingIsUnspent ==
    \A k \in Client : sess[k].state = "committed" =>
        /\ sess[k].r \in issued
        /\ \A p \in answered : p.r # sess[k].r
        /\ \A l \in Client \ {k} :
              sess[l].state = "committed" => sess[l].r # sess[k].r

\* The inductive invariant of IzkpTAProofs.
IInv ==
    /\ TypeOK
    /\ PendingIsUnspent
    /\ NonceAnsweredOnce
    /\ \A p \in answered : p.r \in issued

(***************************************************************************)
(* The ledger this TA implements: a nonce is pending while a session holds *)
(* it in state committed.                                                  *)
(***************************************************************************)
PendingNonces == {sess[k].r : k \in {l \in Client : sess[l].state = "committed"}}

Ledger == INSTANCE SigmaLedger WITH pending <- PendingNonces

\* Every session history is one of the abstract prover's.
ImplementsLedger == Ledger!Spec

=============================================================================
