-------------------------------- MODULE Hotp --------------------------------
(***************************************************************************)
(* The one time passwords of RFC 4226: a session of the TA                 *)
(* (optee_examples/hotp/ta/hotp_ta.c) and its client, the host program     *)
(* (host/main.c) or another one that calls the commands in any order.      *)
(*                                                                         *)
(* TA_FLAGS is 0: a session has an instance of its own.  A password is     *)
(* what it was computed from, the key and the counter; the counter has     *)
(* CounterSize digits of base Radix.                                       *)
(***************************************************************************)
EXTENDS Naturals, Sequences

CONSTANTS
    HotpKey,        \* keys of MIN_KEY_SIZE to MAX_KEY_SIZE bytes
    ShortKey,       \* a key of less than MIN_KEY_SIZE bytes
    RfcKey,         \* K of the host program
    NoPassword,     \* no mac was computed: whatever its memory held
    Radix,          \* values of a byte
    CounterSize,    \* COUNTER_SIZE
    TestValues,     \* number of rfc4226_test_values
    MaxCalls        \* bound: GET_HOTP calls of a session

ASSUME HotpConstants ==
    /\ RfcKey \in HotpKey /\ ShortKey \notin HotpKey
    /\ NoPassword \notin [key : HotpKey, count : Nat]
    /\ Radix \in Nat \ {0, 1} /\ CounterSize \in Nat \ {0}
    /\ TestValues \in Nat \ {0} /\ MaxCalls \in Nat

VARIABLES
    hotpClient,     \* "none", "host" or "other"
    hotpKey,        \* K and K_len of the session
    hotpCounter,    \* its counter
    hotpI,          \* the loop index of the host, 0 until the key is registered
    hotpLast,       \* the answer to the last command
    hotpCalls,      \* history: GET_HOTP calls of this session
    hotpGiven       \* history: the passwords handed out in this session

hotpVars == <<hotpClient, hotpKey, hotpCounter, hotpI, hotpLast, hotpCalls, hotpGiven>>

Zero == [i \in 1..CounterSize |-> 0]

\* The powers of the base.
Powers[n \in 0..CounterSize] == IF n = 0 THEN 1 ELSE Powers[n - 1] * Radix

\* How many values a counter of COUNTER_SIZE bytes has.
CounterRange == Powers[CounterSize]

\* The test values of the host are fewer than the counter's.
ASSUME HotpTestsFit == TestValues <= CounterRange

\* The number the digits stand for, most significant first.
CounterValue(digits) ==
    LET value[n \in 0..CounterSize] ==
            IF n = 0 THEN 0 ELSE (value[n - 1] * Radix) + digits[n]
    IN value[CounterSize]

\* Faulty variant: the carry stops one byte too early.
IncrementedNoCarry(digits) ==
    [i \in 1..CounterSize |->
        IF i = CounterSize \/ (i > 2 /\ \A j \in (i + 1)..CounterSize : digits[j] = Radix - 1)
        THEN (digits[i] + 1) % Radix ELSE digits[i]]

\* The loop of get_hotp: a byte that becomes 0 carries into the one before.
Incremented(digits) ==
    [i \in 1..CounterSize |->
        IF \A j \in (i + 1)..CounterSize : digits[j] = Radix - 1
        THEN (digits[i] + 1) % Radix ELSE digits[i]]

\* hmac_sha1 and truncate: a key that is too short, or a failing operation,
\* is BAD_PARAMETERS or OUT_OF_MEMORY, and mac stays what it was.
Passwords ==
    (IF hotpKey = ShortKey THEN {}
     ELSE {[res |-> "SUCCESS", value |-> [key |-> hotpKey, count |-> CounterValue(hotpCounter)]]})
    \union {[res |-> "FAILED", value |-> NoPassword]}

HotpInit ==
    /\ hotpClient = "none"
    /\ hotpKey = ShortKey
    /\ hotpCounter = Zero
    /\ hotpI = 0
    /\ hotpLast = [res |-> "SUCCESS", value |-> NoPassword]
    /\ hotpCalls = 0
    /\ hotpGiven = {}

\* TA_OpenSessionEntryPoint: TEE_Malloc fills the state with zeros.
HotpOpen ==
    /\ hotpClient = "none"
    /\ hotpClient' \in {"host", "other"}
    /\ hotpKey' = ShortKey
    /\ hotpCounter' = Zero
    /\ hotpI' = 0
    /\ hotpLast' = [res |-> "SUCCESS", value |-> NoPassword]
    /\ hotpCalls' = 0
    /\ hotpGiven' = {}

\* TA_CloseSessionEntryPoint.  The host closes when it is through or a
\* command failed.
HotpClose ==
    /\ \/ hotpClient = "other"
       \/ hotpClient = "host" /\ (hotpI = TestValues + 1 \/ hotpLast.res # "SUCCESS")
    /\ hotpClient' = "none"
    /\ UNCHANGED <<hotpKey, hotpCounter, hotpI, hotpLast, hotpCalls, hotpGiven>>

\* register_shared_key: the length is only compared with the largest one,
\* and the counter goes on.
RegisterSharedKey(key) ==
    /\ \/ hotpClient = "other"
       \/ hotpClient = "host" /\ hotpI = 0 /\ hotpLast.res = "SUCCESS" /\ key = RfcKey
    /\ hotpKey' = key
    /\ hotpLast' = [res |-> "SUCCESS", value |-> NoPassword]
    /\ hotpI' = IF hotpClient = "host" THEN 1 ELSE 0
    /\ UNCHANGED <<hotpClient, hotpCounter, hotpCalls, hotpGiven>>

\* get_hotp: whatever became of the hmac, the counter is incremented.
GetHotp ==
    /\ hotpCalls < MaxCalls
    /\ \/ hotpClient = "other"
       \/ hotpClient = "host" /\ hotpI \in 1..TestValues /\ hotpLast.res = "SUCCESS"
    /\ hotpLast' \in Passwords
    /\ hotpCounter' = Incremented(hotpCounter)
    /\ hotpI' = IF hotpClient = "host" /\ hotpLast'.res = "SUCCESS" THEN hotpI + 1 ELSE hotpI
    /\ hotpCalls' = hotpCalls + 1
    /\ hotpGiven' = hotpGiven \union {hotpLast'.value}
    /\ UNCHANGED <<hotpClient, hotpKey>>

HotpNext ==
    \/ HotpOpen \/ HotpClose \/ GetHotp
    \/ \E key \in HotpKey \union {ShortKey} : RegisterSharedKey(key)

HotpSpec == HotpInit /\ [][HotpNext]_hotpVars

-----------------------------------------------------------------------------
\* Every variable keeps its type.
HotpTypeOK ==
    /\ hotpClient \in {"none", "host", "other"}
    /\ hotpKey \in HotpKey \union {ShortKey}
    /\ hotpCounter \in [1..CounterSize -> 0..(Radix - 1)]
    /\ hotpI \in 0..(TestValues + 1)
    /\ hotpLast.res \in {"SUCCESS", "FAILED"}
    /\ hotpCalls \in 0..MaxCalls

\* The counter moves once for each call, failed or not, over every carry and
\* back to 0.
CounterInStep == CounterValue(hotpCounter) = hotpCalls % CounterRange

\* Client and TA stay in step whatever happened to a password: the host
\* compares its i-th expected value with the password of counter i, and a
\* session that did not wrap around hands the password of a counter out only
\* once, whatever keys are registered in between.
PasswordsInOrder ==
    /\ CounterInStep
    /\ hotpClient = "host" /\ hotpI > 1 /\ hotpLast.res = "SUCCESS" =>
          hotpLast.value = [key |-> RfcKey, count |-> hotpI - 2]
    /\ hotpCalls < CounterRange =>
          \A p \in hotpGiven \ {NoPassword} : p.count < CounterValue(hotpCounter)

=============================================================================
