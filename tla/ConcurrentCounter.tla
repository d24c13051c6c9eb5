-------------------------- MODULE ConcurrentCounter --------------------------
(***************************************************************************)
(* The concurrency test: the counter of the TA                             *)
(* (optee_examples/concurrency_test/ta/hello_world_ta.c) and the host      *)
(* program (host/main.c), whose threads share one session.                 *)
(*                                                                         *)
(* Commands of one session queue up in the core (external).  The TA has    *)
(* two header files, one with and one without TA_FLAG_SINGLE_INSTANCE;     *)
(* which one a build finds is chosen at the start.  An instance lives as   *)
(* long as its session.                                                    *)
(*                                                                         *)
(* The comment at ta/include/user_ta_header_defines.h:15-19 calls the flag *)
(* mandatory for the test: without it each thread would have a counter of  *)
(* its own, at 1.  The program does not behave so: main.c opens one        *)
(* session and hands it to every thread (main.c:80), so all threads reach  *)
(* the one instance of that session in both builds.  What the flag changes *)
(* is what two running programs do to each other: BUSY.                    *)
(***************************************************************************)
EXTENDS Naturals, FiniteSets

CONSTANTS
    CountHost,      \* running host programs
    Thread,         \* threads of one, NUM_THREADS
    Retries         \* attempts to open a session

ASSUME RetriesInNat == Retries \in Nat \ {0}
ASSUME ThreadsFinite == IsFiniteSet(Thread)

VARIABLES
    single,         \* whether the TA was built as a single instance
    countPc,        \* next step of each program
    retries,        \* its local retries
    compteur,       \* compteur_partage of the instance of its session
    threadPc,       \* next step of each of its threads
    got             \* params[0].value.a of each thread, 0 before or when it failed

countVars == <<single, countPc, retries, compteur, threadPc, got>>

NotCreated == [t \in Thread |-> "none"]
NoValues == [t \in Thread |-> 0]

CountInit ==
    /\ single \in BOOLEAN
    /\ countPc = [h \in CountHost |-> "open"]
    /\ retries = [h \in CountHost |-> Retries]
    /\ compteur = [h \in CountHost |-> 0]
    /\ threadPc = [h \in CountHost |-> NotCreated]
    /\ got = [h \in CountHost |-> NoValues]

Busy(h) == single /\ \E k \in CountHost \ {h} : countPc[k] = "running"

\* The loop that opens the session: only BUSY is tried again.
CountOpen(h) ==
    /\ countPc[h] = "open"
    /\ \/ /\ ~Busy(h)
          /\ countPc' = [countPc EXCEPT ![h] = "running"]
          /\ compteur' = [compteur EXCEPT ![h] = 0]
          /\ threadPc' = [threadPc EXCEPT ![h] = [t \in Thread |-> "created"]]
          /\ UNCHANGED retries
       \/ /\ Busy(h)
          /\ retries' = [retries EXCEPT ![h] = @ - 1]
          /\ countPc' = [countPc EXCEPT ![h] = IF retries[h] = 1 THEN "failed" ELSE @]
          /\ UNCHANGED <<compteur, threadPc>>
       \/ /\ countPc' = [countPc EXCEPT ![h] = "failed"]
          /\ UNCHANGED <<compteur, threadPc, retries>>
    /\ UNCHANGED <<single, got>>

\* Faulty variant: the commands of a session do not wait for each other.
InvokeUnqueued(h, t) ==
    /\ threadPc[h][t] = "created"
    /\ threadPc' = [threadPc EXCEPT ![h][t] = "inside"]
    /\ UNCHANGED <<single, countPc, retries, compteur, got>>

\* worker_thread calls the command: one thread at a time enters the TA.
Invoke(h, t) ==
    /\ threadPc[h][t] = "created"
    /\ \/ /\ \A u \in Thread : threadPc[h][u] \notin {"inside", "counted"}
          /\ threadPc' = [threadPc EXCEPT ![h][t] = "inside"]
       \/ threadPc' = [threadPc EXCEPT ![h][t] = "ended"]
    /\ UNCHANGED <<single, countPc, retries, compteur, got>>

\* inc_compteur waits, then increments.
Increment(h, t) ==
    /\ threadPc[h][t] = "inside"
    /\ compteur' = [compteur EXCEPT ![h] = @ + 1]
    /\ threadPc' = [threadPc EXCEPT ![h][t] = "counted"]
    /\ UNCHANGED <<single, countPc, retries, got>>

\* inc_compteur reads the counter again for its caller.
ReturnValue(h, t) ==
    /\ threadPc[h][t] = "counted"
    /\ got' = [got EXCEPT ![h][t] = compteur[h]]
    /\ threadPc' = [threadPc EXCEPT ![h][t] = "ended"]
    /\ UNCHANGED <<single, countPc, retries, compteur>>

\* Every thread is joined, then the session is closed.
JoinAndClose(h) ==
    /\ countPc[h] = "running"
    /\ \A t \in Thread : threadPc[h][t] = "ended"
    /\ countPc' = [countPc EXCEPT ![h] = "finished"]
    /\ UNCHANGED <<single, retries, compteur, threadPc, got>>

\* The program is started again.
CountRestart(h) ==
    /\ countPc[h] \in {"failed", "finished"}
    /\ countPc' = [countPc EXCEPT ![h] = "open"]
    /\ retries' = [retries EXCEPT ![h] = Retries]
    /\ threadPc' = [threadPc EXCEPT ![h] = NotCreated]
    /\ got' = [got EXCEPT ![h] = NoValues]
    /\ UNCHANGED <<single, compteur>>

CountNext ==
    \E h \in CountHost :
        \/ CountOpen(h) \/ JoinAndClose(h) \/ CountRestart(h)
        \/ \E t \in Thread : Invoke(h, t) \/ Increment(h, t) \/ ReturnValue(h, t)

CountSpec == CountInit /\ [][CountNext]_countVars

-----------------------------------------------------------------------------
\* Every variable keeps its type.
CountTypeOK ==
    /\ single \in BOOLEAN
    /\ countPc \in [CountHost -> {"open", "running", "failed", "finished"}]
    /\ retries \in [CountHost -> 0..Retries]
    /\ compteur \in [CountHost -> 0..Cardinality(Thread)]
    /\ threadPc \in [CountHost -> [Thread -> {"none", "created", "inside", "counted", "ended"}]]
    /\ got \in [CountHost -> [Thread -> 0..Cardinality(Thread)]]

\* No increment is lost and no value is given to two threads of a program,
\* in whatever order they enter and whatever other programs do: the values
\* are the numbers from 1 on, as the test prints them.  It holds in both builds,
\* against user_ta_header_defines.h:19, which has each thread count by itself
\* when the TA is not a single instance.
ValuesDistinct ==
    \A h \in CountHost : countPc[h] \in {"running", "finished"} =>
        LET served == {t \in Thread : got[h][t] # 0} IN
        /\ {got[h][t] : t \in served} = 1..Cardinality(served)
        /\ countPc[h] = "finished" => compteur[h] = Cardinality(served)

=============================================================================
