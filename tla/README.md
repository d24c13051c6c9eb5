# TLA+ verification of the OP-TEE wallet

This directory specifies the wallet of this repository in TLA+: trusted
applications (TAs) in C, the host programs that call them, and the Python agents,
servers and scripts around them. TLC checks the specifications on small
instances; TLAPS proves the central ones for every value of their constants.

`PROJECT.json` lists the components, the runs, for each definition the source
lines it models, the hazards of the code, the findings and the theorems. Paths
below are relative to `src/`.

1. [The system](#1-the-system)
2. [The modules](#2-the-modules)
3. [What is checked](#3-what-is-checked)
4. [Fairness](#4-fairness)
5. [What is proved](#5-what-is-proved)
6. [Where the code and its documentation differ](#6-where-the-code-and-its-documentation-differ)
7. [Abstractions, and what is not modelled](#7-abstractions-and-what-is-not-modelled)
8. [What is left](#8-what-is-left)

## 1. The system

An OP-TEE machine runs two worlds. Host programs and Python processes live in
Linux; a TA runs in the secure world and is entered through sessions. Its
`TA_FLAGS` decide how: *single instance* means one instance for all sessions,
entered by one command at a time; without `MULTI_SESSION` a second session is
refused with BUSY; with no flag at all every session gets its own instance, and
the instances share only the secure storage. Secure storage survives a reboot,
everything else does not.

The repository holds one wallet demonstration, a second wallet with a service
behind a Unix socket, three proof protocols, small tests, and unchanged OP-TEE
examples.

| Component | State | Operations | Talks to |
|---|---|---|---|
| Interactive Schnorr prover TA, `optee_examples/schnorr_sFS_izkp/ta` | per session: the nonce `bigint_r` and idle/committed | open, close, GET_COMMITMENT, COMPUTE_RESPONSE | its host |
| Its host, agent and server, `.../host/main.c`, `shared/schnorr_verification/` | position of each process; the server's table `active_izkp_sessions`, keyed by address | connect, commitment, challenge, response, verdict | pipes between agent and host, TCP between agent and server |
| Document store TA, `optee_examples/storage_data/ta` | persistent documents; per command: memory blocks, an object handle | ADD, PRESENT, DELETE | its host, the TA manager |
| Wallet demonstration, `.../storage_data/host`, `python_server/` | position of `demo.sh`, its two tokens | the fixed script; the verifier's POST | store, verifier (HTTP) |
| Trusted authority TA, `optee_examples/trusted_authority` | persistent wallet object and RSA key; per instance: handles | INIT, LOGIN (signs a challenge) | its host, the TA manager |
| TA manager, `optee_examples/TA_Manager` | none; opens a session per call | routes commands to authority and store | both TAs |
| Wallet service and client, `shared/server.py`, `shared/client.py` | authenticated flag, connections, the one socket path; the marker file of the client | init, login, logout, documents | the manager's host, Unix socket |
| Non-interactive prover TA, `optee_examples/schnorr_sFS_nizkp` | none between calls | classic, AND and OR proofs | agent and server in their nizkp modes |
| SD-JWT, `optee_examples/sd-jwt-parser`, `shared/sd_jwt/` | holder key and token in secure storage, a token file | key generation, store, presentation | issuer, verifier (TCP) |
| Reception confirmation, `optee_examples/test_passt`, `shared/passt.py`, `client_wallet.py` | the server's last response | sign a message | its host, Unix socket |
| Key generation, `optee_examples/key_generation` | the persistent ECDSA key | generate, store, print | its host |
| Concurrency test, `optee_examples/concurrency_test` | a counter without a lock, in an instance whose commands of one session queue up | increment | threads of its hosts |
| `hotp`, `secure_storage`, `aes`, `sha` | counter and key; objects; operation handles of a session | see the source | their hosts |
| Alternative verifier, `shared/script_IZKP.py` | | | nothing in the repository |
| Other OP-TEE examples | none of the wallet's | single calls of the crypto API | their hosts |

What is hard about each, and what makes it right:

- **Interactive prover TA.** A nonce answered for two challenges gives the secret
  key away, and a response computed from the wiped nonce is a multiple of it. Every
  early exit of `cmd_compute_response` behind the state test has to end the round,
  and none in front of it may. *A nonce is answered at most once, never after it
  was given up.*
- **Interactive exchange.** Three processes per run block on each other; the TA
  admits one session, the server one connection; agents are interrupted; an
  aborted run leaves its table entry, a later one can get the same port; a reset
  connection ends the server. *Honest runs are accepted, a run that ended well was
  verified, everybody's run ends and the session is given back.*
- **Document store.** Each command takes blocks and handles step by step, and any
  step can fail or be the last. *A command leaves nothing behind, and the store
  behaves as if each call took effect at one instant or not at all.*
- **Wallet demonstration.** The script looks at no exit code and posts whatever
  was printed. *The verifier never gets the proof of one profile under the name of
  the other; what is announced has happened.*
- **Trusted authority.** Instances run at the same time; check-then-create on the
  key; the wallet is emptied, then written. *The signing key is created once and
  survives everything; an init that succeeds left its own wallet and a key.*
- **Service and client.** Every client starts a server of its own on the one socket
  path of the device; a server has one login for all its connections and ends with
  the first exception; the marker file is written after the fact and outlives
  crashes that the wallet may not. *The marker is never there without a wallet; a
  client that is alone is served by its own server; nobody waits for ever.*
- **Non-interactive prover.** No state, but fixed-width fields filled from
  variable-width numbers. *Every honest proof of full-width numbers verifies.*
- **SD-JWT.** Delete-then-create of the key, create-then-write of the token, a
  partial reply of the issuer, a token file two clients share, a retry after
  SHORT_BUFFER. *A stored token is bound to the stored key; the retry fits.*
- **Reception confirmation.** The server keeps its response from one connection to
  the next, and clients give up while their message is served. *A client shows the
  signature of its own message or none.*
- **Key generation.** Two programs replace the same object. *What was printed was
  stored.*
- **Concurrency test.** Threads in one instance, retries while it is busy. *Each
  thread gets a value of its own.*
- **HOTP.** A counter in bytes that is incremented before the password may fail.
  *Client and TA stay in step; no password twice.*
- **Secure storage.** Create, then write, then clean up. *What the host was told is
  still so when it acts on it; what was reported written stays, and nothing else is
  ever there.*
- **AES and SHA.** Handles that are freed and allocated again by every
  reconfiguration, any step of which can fail. *None is lost, freed twice or used
  with an older key; the host gets its text and its MAC.*

## 2. The modules

| Module | Models | Built on |
|---|---|---|
| `SigmaLedger` | abstract: what a prover may do with nonces | |
| `IzkpTA` | `schnorrizkp_ta.c`, any clients in any order | implements `SigmaLedger` |
| `Izkp` | agents, host programs, TA, server | `INSTANCE IzkpTA` |
| `StoreInterface` | calls and answers of the store | |
| `DocumentStore` | abstract: calls with one instant of effect | `StoreInterface` |
| `StorageData` | `storage_data_ta.c`, one step per call that can fail | implements `DocumentStore` |
| `WalletDemo` | `demo.sh`, `storage_data/host/main.c`, `verifier.py` | `INSTANCE StorageData` |
| `SigningIdentity` | abstract: one key, created once | |
| `TrustedAuthority` | `trusted_authority_ta.c`, concurrent instances | implements `SigningIdentity` |
| `WalletService` | `client.py`, `server.py`, the manager's host and TA | `INSTANCE TrustedAuthority` |
| `SdJwt` | `sd_jwt_parser.c`, its host, `shared/sd_jwt/` | |
| `Nizkp` | `schnorr_sFS_nizkp`, the nizkp modes of agent and server | |
| `SessionHandles` | the handles of a session (the API, external) | |
| `AesSession`, `ShaSession` | `aes_ta.c`, `sha_ta.c`, their hosts or any client | `SessionHandles` |
| `SecureStorage`, `Hotp`, `ConcurrentCounter`, `KeyGeneration`, `Reception` | the TA and its hosts | |
| `MCExamples` | the last eight, side by side | |
| `...Proofs` (eight modules) | theorems and proofs | the module they are named after, `ExamplesProofs` on `MCExamples` |
| `MC...` | constants for TLC | the module they are named after |

The definitions keep the names of the source where they can. Operators headed
`Faulty variant` are not part of the specifications: each is a plausible mistake in
the definition that follows it, and the property that notices it is recorded in
`PROJECT.json` under `mutants`.

**IzkpTA.** `sess[k]` is `schnorr_session_ctx` (`state`, `bigint_r`); `issued` and
`answered` are histories of what left the TA; `reply[k]` is what the last entry
point returned. One action per entry point and outcome, because the TA is single
instance and single session, so that the core never runs two at once. Numbers are
symbolic: a commitment is named by its nonce, a response is the pair of nonce and
challenge it was computed from.

**Izkp.** `agent[a]` is where `execute_izkp` waits, `host[a]` where `main.c` is;
`hostIn`, `hostOut`, `c2s`, `s2c` hold the at most one line in each pipe and socket
direction; `backlog`, `serving`, `reset` and `server` are the TCP side, `table` is
`active_izkp_sessions`. A host step that calls the TA *is* the action of `IzkpTA`
conjoined with what the host does next. An address is an agent name, so that a
second run of an agent reuses the port of its first: the worst case for the table.
`AgentAborts` is a user's interrupt at any moment, `HostKilled` the driver closing
the session of a dead process, `ServerDies` the unhandled `ConnectionResetError`.

**StorageData.** `pc` walks through `add_document`, `present_attribute` and
`delete_document`: two `TEE_Malloc`s, the storage call, the read, the close, the
frees, each with its failure. `blocks` and `handle` count what is held, `who` is
the one client the core lets in. `Reboot` can happen at any step. `call[k]` is the
client's view, idle, called or done, and is what the abstract store shares.

**WalletDemo.** The script is a sequence of calls; a call is `Invoke`, `Enter`, the
TA's steps and `Return` of `StorageData`, so other users' commands fall between any
two of its steps. `token` holds `TOKEN_MAJEUR` and `TOKEN_MINEUR`, each what its
`$(...)` was replaced by; a command that fails prints nothing.

**TrustedAuthority.** `wallet` and `key` are the two persistent objects (`Absent`,
`Blank` for the empty object between creation and write, or an owner; a key pair or
`NoKey`); `walletOpen` and `keyOpen` name the instance that has them open;
`pc[k]`, `op[k]`, `out[k]`, `pair[k]` are the locals of each instance. Objects are
opened without sharing, so a second opener is refused, never blocked.

**WalletService.** A server is a client of `TrustedAuthority` (`TA == INSTANCE ...
WITH Client <- Server`): `CallManager` is `call_manager` with the manager program it
runs and the session `route_to_ta` opens, conjoined with an invocation of the
authority; `TAStep` runs it, `ManagerReturns` is the answer on the way back. `sv[s]`
is a server process (where it is, `is_authenticated`, its connections, the first of
which it serves), `path` the server `/tmp/tps_socket` leads to, `cl[c]` a client in
its menu, `marker` the file `.wallet_initialized`. `Start`, `StartBackend`,
`Request`, `Handle` and `StopBackend` are `client.py`; `Bind`, `DecodeFails`,
`ServeDocuments`, `CallManager` and `ManagerReturns` are `server.py`. A client can be killed anywhere
(`Kill`) and leaves its server running, whose next answer to it raises an exception
nobody catches, as does a text that `recv` cut inside a character (`DecodeFails`); `Reboot` keeps the files and the secure storage only. `overlapped`
records whether a client was ever started beside processes of another.

**SdJwt.** `token` and `holderKey` are the persistent objects of a document, `file`
is the `/tmp` file the client hands to the host program, `session` the client whose
host has the only session of the TA, `issuer` and `verifier` the connections of the
two servers. A session excludes the others, so a command is one step unless power
loss may fall between two of its storage calls: `GenerateKey` (delete) and
`CreateKey`, `StoreCreate` and `StoreWrite`. A presentation has its two attempts,
`CreatePresentation` at `invoke` and, behind SHORT_BUFFER, at `retry`. `Received` is
what a partial `recv` leaves of the issuer's reply. `enrolment` records whether the
last enrolment of a document ran alone and was stored.

**Nizkp.** The curve is a group of small prime order; a number has `Width` digits.
`Read` and `ReadShared` say what a buffer holds after the API wrote a number into it
in as few digits as it needs, over memory that was never initialised, and what
calls that share one length variable do to each other. `MultiAnd` and `MultiOr` are
the prover's commands, `handle_client_data` the server.

**AesSession, ShaSession.** These TAs share nothing between sessions, so one session
and a command per step are enough. `aes` and `sha` are the session context, the heap
of `SessionHandles` says what each handle stands for. The client is the host program
or one that calls the commands in any order with any parameter; a call the API does
not allow panics, which ends the session.

**SecureStorage, Hotp, ConcurrentCounter, KeyGeneration, Reception.** One module for
each TA with its host programs, of which several run where they can meet. Their
variables carry the name of the TA, so that `MCExamples` can extend all of them:
its variable `ta` says which one a behaviour is of, the others stay in their
initial state.

## 3. What is checked

Runs that pass, with TLC's number of distinct states:

| Run | Configuration | States | Question |
|---|---|---|---|
| `izkp_ta` | 2 clients, 3 nonces, 2 challenges | 5 504 | is a nonce ever answered twice, or after it was wiped? |
| `izkp_safety` | 2 agents, one started twice; 3 nonces, one short; 3 challenges | 411 871 | can aborts, reused addresses and stale entries make the server reject an honest run, or a run end well unverified? |
| `izkp_live` | 2 agents, one run each | 66 396 | do all runs end and is the session given back? |
| `storage_data` | 2 clients, 2 names, 2 documents, 2 keys | 27 654 | does every command leave nothing behind and implement the abstract store? |
| `wallet_demo` | the script and one user with 2 commands | 130 305 | does the verifier get each profile's own proof, and does the script end? |
| `trusted_authority` | 3 instances, 2 owners, 2 keys, 1 challenge | 685 630 | is the key kept, does a successful init leave its wallet, is everything closed? |
| `wallet_service` | 1 client, 2 servers, 1 identity, 2 keys, backlog 2, power loss | 541 004 | is the marker ever there without a wallet, is a client served by its own server, does a request hang? |
| `sdjwt` | 2 clients, 1 document, 2 keys, 2 claims | 138 264 | is a stored token bound to the stored key, does the retry fit, do runs end? |
| `examples` | see below | 353 554 | one TA at a time: handles, counters, objects, proofs and answers |

The properties, each stated with its reason in its module:

- `NonceAnsweredOnce`, `NeverZeroNonce` (`IzkpTA`): over all histories of answers,
  however many failing calls come in between.
- `HonestNeverRejected` (`Izkp`): no response is checked against the commitment of
  another run, and none arrives without an entry. `DoneWasAccepted`: an agent that
  ends its run as done was verified for the challenge it was given. Both exempt the
  short nonces of section 6, and only those.
- `RunsEnd`, `SessionReleased` (`Izkp`): liveness, section 4.
- `IdleHoldsNothing` (`StorageData`): between commands no block, no handle.
- `TokenOfItsProfile`, `DemoEnds` (`WalletDemo`).
- `InitLeavesWallet`, `NoObjectLeftOpen` (`TrustedAuthority`): a success is about
  the wallet of this init, although three instances race; every path closes.
- `MarkerMeansWallet` (`WalletService`): the marker is never ahead of the secure
  world, whatever was killed or lost power since. `AloneIsServed`: a client that
  reached its menu, none being started beside another's processes, has a wallet
  that was written completely, and the path leads to its own server, which holds its
  login, or, after an exception, nowhere.
  `RequestsEnd`: liveness, section 4.
- `SettledIsBound` (`SdJwt`): an enrolment that ran alone and was stored leaves a
  token bound to the key in the TA. `RetryFits`: the size the first attempt asked for
  is that of the second. `RunsEnd`: liveness.
- `AesHandles`: the context names exactly the handles that exist. `ShaHandles`: what
  it names exists and is of its kind, and nothing is freed twice. `AesKeyInUse`: the operation has the key of the last configuration that succeeded.
  `AesHostDecodes`, `ShaHostMatches`: the host never makes the TA panic, and gets its
  text, and the MAC of its message.
- `WholeIsAccepted` (`Nizkp`): an honest classic or AND proof of full-width numbers is
  accepted, for each nonce and hash.
- `HostViewHolds`, `ReportedIsKept` (`SecureStorage`): what a host was told still
  holds when it acts on it; data whose write was reported stay until the object is
  created again or its deletion is reported, data of a write that was not are never
  there, and an object is empty only between the creation and such a report.
- `PasswordsInOrder` (`Hotp`), `ValuesDistinct` (`ConcurrentCounter`),
  `PrintedWasStored` (`KeyGeneration`), `ShownIsOwn` (`Reception`).
- `ImplementsLedger`, `ImplementsStore`, `ImplementsIdentity`: refinement of the
  abstract specifications.
- One `TypeOK` per run.

Why these bounds are enough to be interesting:

- *Two agents, one started twice* give every combination the exchange has: a second
  run over a stale entry of the first, while the other agent holds the session,
  waits in the backlog or has just been refused. A third agent only waits like the
  second. There is one nonce and one challenge for each run (`Nonce`, `Challenge`
  and `MaxRuns` are the bounds: keys and challenges are drawn fresh, so the model
  must not run out of them before the runs do).
- *Three nonces* in `izkp_ta`: one can be answered, one replaced, one lost in a
  failed response. *Two challenges* are what a second answer needs.
- *Two clients on two names* meet each other on one document and on different ones.
  The command inside the TA excludes the other, so a third client adds queueing,
  which is not ordered anyway.
- *One user with two commands* (`MaxUserCalls`) can delete and add a profile between
  any two steps of the script.
- *Three instances* of the authority are two that race for the key and one that
  signs with it meanwhile.
- *One client with two servers* is a client that was killed and started again while
  the server it left behind still works on its last request: the two compete for
  the path and for the wallet. `Backlog` = 2 lets that request and a new one wait on
  one server. `Kill` is bounded to moments without a second client.
- *Two clients on one document* interleave enrolments with each other and with
  presentations. Two keys are the old and the new one; with two claims and
  `InitialBuffer` = 1 a presentation of both takes the retry and one claim does not.
- `examples`: *three handles* hold the operation, the key object and the temporary
  one of a key change; one key and one message beside the zero key; `MaxAbsorbed` = 4
  messages in one operation. *Order 7* with `Base` = 3 and `Width` = 2 has numbers of
  one and of two digits, and stale memory is zero or not. *Two store hosts and
  another client* on two objects. *Radix 2 with three digits* makes the counter carry
  twice and wrap around within `MaxCalls` = 9. *Three threads in two programs* with two
  attempts each. *Two key generating programs and three keys*. *Three receivers* over
  a backlog of 2, two of them with messages of a size that is signed.

Symmetry is used on nonces, challenges, clients, keys and handles where definitions
only compare them, and never in a run with a liveness property.

Deadlock is checked in every run. The states in which everything has ended
(`AllEnded`, `AtEnd`) have a stuttering step of their own.

The runs that end in a violation are in section 6.

## 4. Fairness

`Izkp!FairSpec` asks for weak fairness of each agent, of each host program
together with the TA it calls, and of the server: they are processes of an
operating system, and the TA runs on its caller's thread. Nothing is assumed of the
user: no agent has to be started or interrupted. Fairness is weak, on a process as
a whole: whenever it can go on for ever, it goes on at some time; which of several
enabled outcomes it takes (a failure, say) is not constrained. Under this,
`RunsEnd` and `SessionReleased` hold even if the server dies, because a dead
server's connections are closed and every wait notices.

`WalletDemo!FairSpec` asks the same of the script and of the secure world; the user
is not fair, but a command inside the TA is driven to its end by the secure
world. `DemoEnds` therefore does not depend on any call succeeding. The verifier may
be down; a `wget` that hangs for ever on a silent peer is outside the model.

`WalletService!Spec` asks for weak fairness of each server together with the
manager and the instance of the authority it called; no client and no user is fair.
A client that waits is therefore answered, or told that its connection broke,
because every server either answers or dies with its connections: `RequestsEnd`.

`SdJwt!Spec` asks it of each client with its host program, of the issuer and of the
verifier. The servers have no timeout and serve one connection at a time, so
`RunsEnd` depends on clients that hold a connection going on, or being killed; both
are processes that nothing blocks. Nobody has to start a run.

The other specifications have no fairness and no liveness property: the entry
points of `IzkpTA` are single steps, a command of `StorageData` or `TrustedAuthority`
never waits for another one once it runs, and the examples of `MCExamples` wait with
a timeout or not at all.

## 5. What is proved

All proofs are for arbitrary sets of clients, nonces, documents, keys and so on. The
assumptions are the named `ASSUME`s: sentinel values (`Zero`, `Nobody`, `Absent`,
`Blank`, `NoKey`, `Gone`, `Empty`, `Broken`, `NoHolder`, `NoReceiver` ...) are not
elements of the sets they stand beside, `Short` is a set of nonces, `MaxRuns` gives
naturals, attributes have attribute values, claims are finite and a claim's name
occurs in its own, a backlog is at least 1. The group has an order above 1 that fits
the width of a number, points differ in a coordinate (`NizkpConstants`), the threads
of the test are finite (`ThreadsFinite`), what a handle stands for is neither
`Unused` nor `Broken` (`AesHandleValues`, `ShaHandleValues`), the host of the HOTP TA
asks for no more values than its counter has (`HotpTestsFit`: 10 and 2^64), and the
sentinels of the demonstration are apart from its documents (`DemoSentinels`).

**IzkpTAProofs.** `NonceAnsweredOnce` alone is not inductive: nothing in it stops a
committed session from holding a nonce that was answered before. `IInv` adds
`PendingIsUnspent`: a nonce in a committed session was issued, has no answer, and is
in no other session; and that only issued nonces were answered, so that a fresh one
is unspent. `Invariance` proves it step by step, `TypeCorrect`, `NonceSafety` and
`ZeroSafety` follow. `LedgerRefinement` maps the ledger's pending set to the nonces
of committed sessions: a commitment may replace a pending nonce, a failed response
or a close drops one, a response spends one.

**IzkpProofs.** `UsesTA` shows that every step of the composition is a step of the TA
or leaves it alone (the lines carrying challenges carry real ones, `LinesOK`), so the
behaviour of the TA inside the composition is one of `IzkpTA`.
`ComposedNonceSafety` combines it with `NonceSafety`: no nonce is answered twice,
for any number of agents, runs, aborts and server crashes. This goes beyond the
run, which has two agents. `ComposedLedger`: the whole exchange implements
`SigmaLedger`.
`HonestNeverRejected` and `DoneWasAccepted` relate an agent to the server it never
shares a step with, so `IInv` follows the lines between them: `Placed` says what lies
in the agent's pipes and socket at each of its positions and what the server's table
holds of it then. An aborted run may leave a line or an entry behind, but never an
answer without the entry it belongs to. `Frame` reduces a step to the process that
makes it; then there is one lemma per kind of step of agent, host and server.
`HonestSafety`, `DoneSafety` and `TypeCorrect` follow, again for any number of agents.

**StorageDataProofs.** `IInv` says which steps belong to which command (`OnPath`) and
what is held at each of them (`Holds`); without both, freeing two blocks at the end
could not be known to be right. `NoLeak` follows. `StoreRefinement` proves
linearisability: a call has taken effect, in the abstract store, from the step at
which its outcome is decided (`abstractCall`), whatever the frees still to come.

**TrustedAuthorityProofs.** `IInv` consists of the paths (`OnPath`), of `Exclusive`,
an object is open exactly in the instance that is at certain steps, and of
`Written`, which only exclusiveness makes inductive: between an init's write and its
end nobody else can create the wallet. `InitCompletes` and `ObjectsClosed` follow;
`IdentityRefinement` shows that only the creation on a missing key changes the key
and that every signature is made with it.

**WalletServiceProofs.** `UsesTA`: every step of the service is a step of the
authority or leaves it alone, so `AuthorityInvariant` transfers its invariant, and
`ServiceIdentity` its refinement of `SigningIdentity`.
`MarkerMeansWallet` needs the whole way of a success: an init that returned from the
authority left a wallet and a key (`InitRuns`, from the authority's `IInv`), the
client that hears of it still has them (`InitAnswered`), and only that client writes
the marker. `Made` is stable, because nothing deletes the wallet object or the key.
`MarkerSafety` holds for any number of clients, servers and power losses.
`ServiceSafety` (`AloneIsServed`) needs a second invariant, `AloneInv`, which holds as
long as no client was started beside another process. Then there is one client, one
server and at most one request between them (`OneAtATime`), and the positions of
both, the marker and the authentication say where it is (`ServerAlone`,
`ClientAlone`): an unserved request has its client waiting (`AskedAwaits`), without
one the authority is idle (`UnaskedIsIdle`), and only an init writes the wallet
(`AuthorityWrites`), so that a marker stands for a written wallet and not just for
the object `MarkerMeansWallet` promises.

**SdJwtProofs.** `SettledIsBound` needs the way of a key: from the TA to the client,
in its request, in the issuer's reply, in the file and in the TA's write
(`OnItsWay`), and that a document whose enrolment is alone is enrolled by one client
only (`Enrolled`), so that nobody else touches its key, its file or its token. The
session and the two queues need no invariant for this. `BindingSafety` holds for any
number of clients, documents, claims and buffer sizes. `RetrySafety` needs the session
instead: `SInv` adds that a program at a point inside the TA holds it (`Exclusive`),
so that whoever writes a token is not beside a waiting retry.

`TypeCorrect` is more than types: the session and each connection have an owner that
is at a point of its program where it uses them. `Owned` is its inductive form: a
client has one connection to a server at most (`Once`), so that the one it closes was
its only one. A lemma each for joining, serving and leaving says what becomes of a
queue without duplicates.

**WalletDemoProofs.** Two invariants are held together. `UsesStore` shows that script
and host program drive the document TA only by steps of its specification, which
brings in the `IInv` of `StorageDataProofs` for the command inside, and
`CommandsLinearise`, the refinement of the abstract store. `DemoInv` says what that
command was called for: whoever added it, a stored document is the profile that goes
with its name (`OwnProfiles`), and the answer of a presentation shows the attribute
that was asked for, of the profile of that name, while it is in the TA (`InTheTA`)
and on its way to the script's `$(...)` (`InTheScript`). `TokenOfItsProfile` follows.

**ExamplesProofs.** One section for each module of `MCExamples`:

- *Arithmetic.* The library's theorems of induction take an operator, which the
  provers cannot instantiate. `Induction` is the same fact about a set of numbers,
  from the library's theorem that < is well-founded on the naturals; division with
  remainder, powers and Horner's rule rest on it.
- *AES.* `AesOwns` says that the session owns exactly the handles in use, each for its
  kind, which is what every error path must restore. `AesKeyInUse` needs with it what
  key the operation was given last, `AesHostDecodes` how far the host has come.
- *SHA.* The same cannot hold (`compute_digest` loses an operation, section 6):
  `ShaOwns` says that what the context names is in use and of its kind.
- *Nizkp.* `Completes` is the equation of a Schnorr proof modulo any order; from it
  `WholeIsAccepted` follows for the lines a run can print (`NizkpInv`). `NizkpTypes`
  needs the powers of the base: the digits of a number moved to the left, with stale
  ones behind them, are still below the next power.
- *Hotp.* `CounterInStep` is about a carry through any number of digits: by induction,
  the digits behind the one that takes the carry were all at their maximum, and what
  they were worth, plus one, is what that digit is worth (`CarriesOver`). It holds for
  digits of any base and counters of any size, not just for three bits.
- *Secure storage.* `HostViewHolds` rests on the session: the steps of a host program
  happen only while it has it (`OwnerOnly`), and a write in progress is its
  (`WriteIsOwners`). `ReportedIsKept` needs that nothing was reported yet of an object
  that is being written (`WriteIsUntold`), so that a clean-up, done or not, takes
  nothing away.
- *Concurrency test.* The counter is the number of threads that have passed it, one
  thread is inside at a time, and the values handed out are those up to their number
  (`CountOf`); the library's theorems about cardinality count them.
- *Key generation.* `KeyOnItsWay`: a key on its way to be printed was stored, and the
  object holds a stored one once there was one.
- *Reception.* `ShownIsOwn` is not inductive, because the server's response outlives
  the connection it was made for; `ReplyIsOwn` adds that what is about to be sent was
  made for the connection being served.
- *All.* `EachIsOne`: a behaviour of the run is one of each of these specifications,
  the others stuttering; `TypesOfAll` follows from the types of each.

Every invariant and every action property of the passing runs is a theorem. Only
model-checked: the liveness properties (`RunsEnd` twice, `SessionReleased`, `DemoEnds`,
`RequestsEnd`), which are out of the prover's reach, as is `ENABLED`, and of course the
violations of section 6. No module declares a recursive operator; powers and the value
of a counter are recursive functions.

## 6. Where the code and its documentation differ

Each of these is a run in which TLC finds the violation.

- **`izkp_short_nonce`** (`EveryProofAccepted`). `cmd_get_commitment` reads r, u_x and
  u_y into 32-byte buffers and ignores the lengths the API returns
  (`schnorrizkp_ta.c:154-161`). A number that starts with a zero byte is one byte
  shorter and lies one byte too early. The commitment that leaves is then not the
  point of the nonce that is kept, and the server refuses an honest proof, in about
  one run of eighty. That the API returns minimal lengths is external to this code;
  `sd_jwt_parser.c:170` does use the returned size.
- **`wallet_demo_erasure`** (`DocumentsDestroyed`). `storage_data/host/main.c:78` drops
  the result of a deletion and reports success, and `demo.sh:61` announces that the
  documents are destroyed, although a deletion failed.
- **`trusted_authority_delete`** (`BadlyWrittenIsDeleted`). `trusted_authority_ta.c:171`
  says that a badly written wallet is deleted. Its handle was created without
  WRITE_META (line 157), which deletion requires (`secure_storage_ta.c:43`, `:98`), so
  `TEE_CloseAndDeletePersistentObject1` panics and the empty object stays. The run
  has no power loss (`PowerLoss = FALSE`), which could also leave an empty wallet.

Also seen while modelling, without a run:

- `README.md:31` describes a verifier with an authorisation logic; `verifier.py:13`
  grants every request without looking at the token. `WalletDemo` has it so.
- The prover makes AND and OR proofs (`schnorrzkp_ta.c:227`), but
  `schnorr_crypto.py:108-112` returns `False` for every mode other than AND.
  `WholeIsAccepted` is therefore about the classic and the AND mode.
- `sha_ta.c:84`: a `COMPUTE_DIGEST` in a session that holds an operation allocates a
  second one over its handle. The first is lost until the instance ends, although
  closing the session releases "the session resources" (`sha_ta.c:445`).
  `ShaHandles` therefore does not say that there are no other operations.
- `test_passt_ta.c:71` says the message is hashed; it is passed on as it is. With the
  36 bytes of `client_wallet.py` signing panics, and the client shows an empty
  confirmation.
- `sd_jwt_parser.c` takes a raw 64-byte signature that happens to start with 0x30 for
  DER, once in 256 presentations (`NoPresentation` in the model).
- The manager routes command 21 to a TA that does not know it.
- `concurrency_test/ta/include/user_ta_header_defines.h:15-19` calls
  `TA_FLAG_SINGLE_INSTANCE` mandatory for the test: without it "chaque thread aurait
  son propre compteur à 1". The threads do not open sessions of their own: they share
  one (`host/main.c:80`), so they reach one instance and one counter with or without
  the flag. `ConcurrentCounter` chooses the build at the start, and `ValuesDistinct`
  holds in both; the flag only makes a second program meet BUSY.

Seen in the models, without a statement of the repository they would contradict:
`secure_storage_ta.c:117` and `:51` drop the result of a deletion, so that a failed
write may leave an empty object without any power loss, and `delete_object` may answer
SUCCESS for an object that stays (`ReportedIsKept` says what remains true); an
init that fails after its creation step has already destroyed the wallet before it;
an init that loses the race for the key reports ACCESS_CONFLICT after writing its
wallet; login reports ITEM_NOT_FOUND for a wallet another instance has open, and
does not use what it reads.

## 7. Abstractions, and what is not modelled

- Elliptic-curve and RSA arithmetic, hashing and random numbers are symbolic. A
  fresh nonce or challenge never repeats, which holds up to negligible probability.
- `TEE_CreatePersistentObject` with initial data and `TEE_WriteObjectData` are atomic
  with respect to power loss, as OP-TEE's storage documents.
- TCP delivers lines whole: no participant sends a second line before it has the
  answer to its first, and each line fits one `recv`.
- Output buffers: the hosts pass constants that are large enough (64 bytes for an
  attribute, 128 for a commitment, 256 for a signature), so SHORT_BUFFER exists only
  for the arbitrary clients of `IzkpTA`. A document with more attributes than the
  array holds cannot be written by the host program.
- Sizes of names passed to the authority are assumed to fit the fields.
- A reboot is left out of `WalletDemo`, because the script would be gone with it.
- `SdJwt`: base64url, DER and JSON parsing (`jsmn.h` is vendored) are not modelled; a
  presentation may fail for any of them. A token is the key and the claims the issuer
  signed, or one cut somewhere.
- `WalletService`: personal data and passwords are opaque, the requests for documents
  end at the server: the store behind them is `StorageData`, and what the manager
  does with their commands stops at its routing table.
- `Nizkp`: the hash is a random oracle without collisions. The server's `ERROR` answers
  to a message that does not parse or a key off the curve (`schnorr_verif.py:116`) are
  left out: the agent sends neither. `Hotp`: HMAC and truncation are a function of key
  and counter.

Not modelled:

- `shared/script_IZKP.py`: a verifier that speaks a protocol no program of the
  repository answers; there is no system to model.
- The other OP-TEE examples: single calls of the crypto API, unchanged from upstream.
  The discipline of their handles is that of `AesSession` and `ShaSession`.
- `concurrency_test/ta/trusted_authority_ta.c`, which is not built.
- Templates, QR codes, notebooks and build files.

## 8. What is left

Done, in this order: `IzkpTA`, `Izkp`, `StorageData`, `WalletDemo`,
`TrustedAuthority`, `WalletService`, `SdJwt`, `Nizkp`, the session TAs and the small
ones, with the proofs of section 5. What remains:

1. A composition of `WalletService` with `StorageData` behind the manager, when the
   manager's document commands reach a TA that knows them.
2. The liveness properties stay with TLC; the safety half of `RequestsEnd`, that a
   waiting client always has a server that holds its request or is gone, would be an
   invariant worth proving.
