--------------------------- MODULE ExamplesProofs ---------------------------
(***************************************************************************)
(* Theorems about the TAs that work alone with their own clients, for      *)
(* every value of their constants: any number of clients, handles, keys    *)
(* and objects, groups of any order.  MCExamples checks the same           *)
(* properties on small instances.                                          *)
(***************************************************************************)
EXTENDS MCExamples, FiniteSetTheorems, SequenceTheorems, TLAPS

(***************************************************************************)
(* Arithmetic.  The theorems of the library for induction take an operator *)
(* as a parameter; this one takes a set, and follows from the well-founded *)
(* order of the natural numbers.                                           *)
(***************************************************************************)
LEMMA Least ==
  ASSUME NEW S, S \subseteq Nat, S # {}
  PROVE  \E k \in S : \A j \in S : k <= j
<1> DEFINE R == {ss \in Nat \X Nat : ss[1] < ss[2]}
<1>1. PICK k \in S : \A j \in S : ~ (<<j, k>> \in R)
  <2>1. IsWellFoundedOn(R, Nat)
    BY NatLessThanWellFounded DEF OpToRel
  <2> HIDE DEF R
  <2> QED
    BY <2>1, WFMin
<1>2. \A j \in S : ~ (j < k)
  BY <1>1
<1> QED
  BY <1>2

LEMMA Induction ==
  ASSUME NEW P, 0 \in P, \A n \in Nat : n \in P => n + 1 \in P
  PROVE  \A n \in Nat : n \in P
<1> SUFFICES ASSUME Nat \ P # {} PROVE FALSE
  OBVIOUS
<1>1. PICK n \in Nat \ P : \A m \in Nat \ P : n <= m
  <2> DEFINE T == Nat \ P
  <2>1. T \subseteq Nat /\ T # {}
    OBVIOUS
  <2> HIDE DEF T
  <2>2. \E n \in T : \A m \in T : n <= m
    BY <2>1, Least
  <2> QED
    BY <2>2 DEF T
<1>2. n # 0 /\ n - 1 \in Nat /\ ~ (n <= n - 1) /\ (n - 1) + 1 = n
  OBVIOUS
<1>3. n - 1 \in P
  BY <1>1, <1>2
<1> QED
  BY <1>2, <1>3

LEMMA DivMod ==
  ASSUME NEW a \in Int, NEW n \in Nat, n > 0
  PROVE  /\ a % n \in 0..(n - 1)
         /\ a \div n \in Int
         /\ a = n * (a \div n) + (a % n)
<1>1. a % n \in 0..(n - 1)
  BY Z3
<1>2. a \div n \in Int
  BY Z3
<1>3. a = n * (a \div n) + (a % n)
  BY Z3
<1> QED
  BY <1>1, <1>2, <1>3

LEMMA Multiple ==
  ASSUME NEW n \in Nat, n > 0, NEW k \in Int, k # 0
  PROVE  n * k >= n \/ n * k <= 0 - n
<1>1. CASE k >= 1
  BY <1>1, Z3
<1>2. CASE k <= -1
  BY <1>2, Z3
<1> QED
  BY <1>1, <1>2

LEMMA ModUnique ==
  ASSUME NEW n \in Nat, n > 0, NEW k \in Int, NEW r \in 0..(n - 1), NEW a \in Int,
         a = n * k + r
  PROVE  a % n = r
<1> DEFINE q == a \div n
           s == a % n
<1>1. s \in 0..(n - 1) /\ q \in Int /\ a = n * q + s
  BY DivMod
<1> HIDE DEF q, s
<1>2. n * (k - q) = s - r
  BY <1>1, Z3
<1>3. k - q = 0
  <2>1. k - q \in Int
    BY <1>1
  <2>2. s - r < n /\ s - r > 0 - n
    BY <1>1
  <2> QED
    BY <1>2, <2>1, <2>2, Multiple
<1>4. s = r
  BY <1>1, <1>3, Z3
<1> QED
  BY <1>4 DEF s

\* The number of calls, and the counter: one more of each.
LEMMA NextModulo ==
  ASSUME NEW p \in Nat, p > 0, NEW k \in Nat
  PROVE  (k + 1) % p = IF k % p = p - 1 THEN 0 ELSE (k % p) + 1
<1> DEFINE q == k \div p
           r == k % p
<1>1. r \in 0..(p - 1) /\ q \in Int /\ k = p * q + r
  BY DivMod
<1> HIDE DEF q, r
<1>2. CASE r = p - 1
  <2>1. k + 1 = p * (q + 1) + 0
    BY <1>1, <1>2, Z3
  <2>2. q + 1 \in Int /\ 0 \in 0..(p - 1) /\ k + 1 \in Int
    BY <1>1
  <2>3. (k + 1) % p = 0
    BY <2>1, <2>2, ModUnique
  <2> QED
    BY <1>2, <2>3 DEF r
<1>3. CASE r # p - 1
  <2>1. k + 1 = p * q + (r + 1) /\ r + 1 \in 0..(p - 1) /\ k + 1 \in Int
    BY <1>1, <1>3
  <2>2. (k + 1) % p = r + 1
    BY <1>1, <2>1, ModUnique
  <2> QED
    BY <1>3, <2>2 DEF r
<1> QED
  BY <1>2, <1>3

LEMMA FewCalls ==
  ASSUME NEW p \in Nat, NEW k \in Nat, k < p
  PROVE  k % p = k
<1>1. k = p * 0 + k /\ k \in 0..(p - 1) /\ p > 0
  OBVIOUS
<1> QED
  BY <1>1, ModUnique

\* Horner's rule: the numbers of the first digits, and with the
\* digits 0 the powers of the base.
Rule(v, N, a, b, d) == v[0] = a /\ \A n \in 1..N : v[n] = (v[n - 1] * b) + d[n]

LEMMA NextNumber ==
  ASSUME NEW l \in Nat, NEW b \in Nat, NEW x \in Nat
  PROVE  (l * b) + x \in Nat
  BY Z3

LEMMA HornerExists ==
  ASSUME NEW N \in Nat, NEW a \in Nat, NEW b \in Nat, NEW d \in [1..N -> Nat]
  PROVE  \E v \in [0..N -> Nat] : Rule(v, N, a, b, d)
<1> DEFINE P == {m \in Nat : m <= N => \E v \in [0..m -> Nat] : Rule(v, m, a, b, d)}
<1>1. 0 \in P
  <2> DEFINE v == [n \in 0..0 |-> a]
  <2>1. v \in [0..0 -> Nat] /\ Rule(v, 0, a, b, d)
    BY DEF Rule
  <2> QED
    BY <2>1
<1>2. ASSUME NEW m \in Nat, m \in P
      PROVE  m + 1 \in P
  <2> SUFFICES ASSUME m + 1 <= N
               PROVE  \E v \in [0..(m + 1) -> Nat] : Rule(v, m + 1, a, b, d)
    OBVIOUS
  <2>1. PICK w \in [0..m -> Nat] : Rule(w, m, a, b, d)
    BY <1>2
  <2>2. d[m + 1] \in Nat /\ w[m] \in Nat
    OBVIOUS
  <2> DEFINE next == (w[m] * b) + d[m + 1]
             v == [n \in 0..(m + 1) |-> IF n = m + 1 THEN next ELSE w[n]]
  <2>3. next \in Nat
    BY <2>2, NextNumber
  <2> HIDE DEF next
  <2>4. v \in [0..(m + 1) -> Nat]
    BY <2>3
  <2>5. v[0] = a
    BY <2>1 DEF Rule
  <2>6. v[m + 1] = next /\ v[m] = w[m] /\ (m + 1) - 1 = m
    OBVIOUS
  <2>7. \A n \in 1..m : v[n] = w[n] /\ v[n - 1] = w[n - 1]
    OBVIOUS
  <2> HIDE DEF v
  <2>8. ASSUME NEW n \in 1..(m + 1)
        PROVE  v[n] = (v[n - 1] * b) + d[n]
    <3>1. CASE n = m + 1
      BY <2>6, <3>1 DEF next
    <3>2. CASE n # m + 1
      <4>1. n \in 1..m
        BY <3>2
      <4> QED
        BY <2>1, <2>7, <4>1 DEF Rule
    <3> QED
      BY <3>1, <3>2
  <2> QED
    BY <2>4, <2>5, <2>8 DEF Rule
<1> HIDE DEF P
<1>3. N \in P
  BY <1>1, <1>2, Induction
<1> QED
  BY <1>3 DEF P

\* The powers of a base, as Powers (Hotp) and BasePowers (Nizkp) define them.
PowersOf(v, N, b) == v = [n \in 0..N |-> IF n = 0 THEN 1 ELSE v[n - 1] * b]

LEMMA PowersExist ==
  ASSUME NEW N \in Nat, NEW b \in Nat
  PROVE  \E v : PowersOf(v, N, b)
<1> DEFINE d == [n \in 1..N |-> 0]
<1>1. d \in [1..N -> Nat] /\ 1 \in Nat
  OBVIOUS
<1>2. PICK v \in [0..N -> Nat] : Rule(v, N, 1, b, d)
  BY <1>1, HornerExists
<1>3. \A n \in 0..N : v[n] = IF n = 0 THEN 1 ELSE v[n - 1] * b
  <2> SUFFICES ASSUME NEW n \in 0..N
               PROVE  v[n] = IF n = 0 THEN 1 ELSE v[n - 1] * b
    OBVIOUS
  <2>1. CASE n = 0
    BY <1>2, <2>1 DEF Rule
  <2>2. CASE n # 0
    <3>1. n \in 1..N /\ n - 1 \in 0..N
      BY <2>2
    <3>2. v[n] = (v[n - 1] * b) + 0 /\ v[n - 1] \in Nat
      BY <1>2, <3>1 DEF Rule
    <3>3. (v[n - 1] * b) + 0 = v[n - 1] * b
      BY <3>2
    <3> QED
      BY <2>2, <3>2, <3>3
  <2> QED
    BY <2>1, <2>2
<1>4. v = [n \in 0..N |-> IF n = 0 THEN 1 ELSE v[n - 1] * b]
  BY <1>3
<1> QED
  BY <1>4 DEF PowersOf

LEMMA PowersRule ==
  ASSUME NEW N \in Nat, NEW b \in Nat \ {0}, NEW v, PowersOf(v, N, b)
  PROVE  /\ v \in [0..N -> Nat \ {0}]
         /\ v[0] = 1
         /\ \A n \in 1..N : v[n] = v[n - 1] * b
<1>1. v = [n \in 0..N |-> IF n = 0 THEN 1 ELSE v[n - 1] * b]
  BY DEF PowersOf
<1>2. \A n \in 0..N : v[n] = IF n = 0 THEN 1 ELSE v[n - 1] * b
  BY <1>1
<1>3. v[0] = 1 /\ \A n \in 1..N : v[n] = v[n - 1] * b
  BY <1>2
<1>4. \A n \in 0..N : v[n] \in Nat \ {0}
  <2> DEFINE P == {n \in Nat : n <= N => v[n] \in Nat \ {0}}
  <2>1. 0 \in P
    BY <1>3
  <2>2. ASSUME NEW n \in Nat, n \in P
        PROVE  n + 1 \in P
    <3> SUFFICES ASSUME n + 1 <= N
                 PROVE  v[n + 1] \in Nat \ {0}
      OBVIOUS
    <3>1. v[n] \in Nat \ {0} /\ n + 1 \in 1..N /\ (n + 1) - 1 = n
      BY <2>2
    <3>2. v[n + 1] = v[n] * b
      BY <1>3, <3>1
    <3>3. \A p \in Nat \ {0} : p * b \in Nat \ {0}
      BY Z3
    <3> QED
      BY <3>1, <3>2, <3>3
  <2> HIDE DEF P
  <2>3. \A n \in Nat : n \in P
    BY <2>1, <2>2, Induction
  <2> QED
    BY <2>3 DEF P
<1> QED
  BY <1>1, <1>3, <1>4

\* The power of a sum.
LEMMA PowersSplit ==
  ASSUME NEW N \in Nat, NEW b \in Nat \ {0}, NEW v, PowersOf(v, N, b), NEW k \in 0..N
  PROVE  v[k] * v[N - k] = v[N]
<1>1. v \in [0..N -> Nat \ {0}] /\ v[0] = 1 /\ \A n \in 1..N : v[n] = v[n - 1] * b
  BY PowersRule
<1> DEFINE P == {n \in Nat : n <= N - k => v[k] * v[n] = v[k + n]}
<1>2. 0 \in P
  <2>1. v[k] \in Nat /\ k + 0 = k
    BY <1>1
  <2>2. v[k] * 1 = v[k]
    BY <2>1
  <2> QED
    BY <1>1, <2>1, <2>2
<1>3. ASSUME NEW n \in Nat, n \in P
      PROVE  n + 1 \in P
  <2> SUFFICES ASSUME n + 1 <= N - k
               PROVE  v[k] * v[n + 1] = v[k + (n + 1)]
    OBVIOUS
  <2>1. /\ n + 1 \in 1..N /\ (n + 1) - 1 = n /\ n \in 0..N
        /\ k + (n + 1) \in 1..N /\ (k + (n + 1)) - 1 = k + n /\ k + n \in 0..N
    OBVIOUS
  <2>2. v[n + 1] = v[n] * b /\ v[k + (n + 1)] = v[k + n] * b
    BY <1>1, <2>1
  <2>3. v[k] * v[n] = v[k + n]
    BY <1>3
  <2>4. v[k] \in Nat /\ v[n] \in Nat
    BY <1>1, <2>1
  <2>5. \A x, y \in Nat : x * (y * b) = (x * y) * b
    BY Z3
  <2>6. v[k] * (v[n] * b) = (v[k] * v[n]) * b
    BY <2>4, <2>5
  <2> QED
    BY <2>2, <2>3, <2>6
<1> HIDE DEF P
<1>4. \A n \in Nat : n \in P
  BY <1>2, <1>3, Induction
<1>5. N - k \in Nat /\ k + (N - k) = N /\ N - k <= N - k
  OBVIOUS
<1>6. v[k] * v[N - k] = v[k + (N - k)]
  BY <1>4, <1>5 DEF P
<1> QED
  BY <1>5, <1>6

\* One digit more: the number stays below the next power.
LEMMA StaysBelow ==
  ASSUME NEW l \in Nat, NEW p \in Nat, NEW b \in Nat, NEW x \in Nat, l < p, x < b
  PROVE  (l * b) + x < p * b
<1> DEFINE q == p - 1 - l
<1>1. q \in Nat /\ p = q + 1 + l
  OBVIOUS
<1> HIDE DEF q
<1>2. p * b = q * b + b + l * b /\ q * b \in Nat
  BY <1>1, Z3
<1>3. l * b \in Nat
  BY Z3
<1> QED
  BY <1>2, <1>3

-----------------------------------------------------------------------------

(***************************************************************************)
(* AesSession.  A session and the heap it owns: exactly the handles it     *)
(* names are in use, each for its kind.                                    *)
(***************************************************************************)
AesSessions ==
    [open : BOOLEAN, algo : AesAlgo \union {Invalid}, size : AesSize \union {0},
     mode : AesMode \union {Invalid}, op : Handle \union {Null}, obj : Handle \union {Null}]

AesValues == AesOperations \union AesObjects

AesOwns(s, heap) ==
    /\ s \in AesSessions
    /\ heap \in [Handle -> AesValues \union {Unused}]
    /\ \A h \in Handle : heap[h] # Unused <=> h \in {s.op, s.obj}
    /\ s.op # Null => s.op # s.obj /\ heap[s.op] \in AesOperations
    /\ s.obj # Null => heap[s.obj] \in AesObjects

\* Between two commands both handles are there or none is, and the operation
\* has the key of the last command that set one.
AesCore ==
    /\ AesOwns(aes, aesHeap)
    /\ aes.op = Null <=> aes.obj = Null
    /\ aes.op # Null => aes.open
    /\ aes.op # Null => aesHeap[aes.op].key = aesLoaded
    /\ aesLoaded \in AesKey \union {Dummy, NoKey}

\* The calls of one direction of the host program, and what its operation
\* and its output are before its next command.
AesHalf == IF aesArg = "authenticated" THEN 3 ELSE 4

AesHostAt ==
    aesClient = "host" =>
        /\ aesPc \in 1..(2 * AesHalf + 1)
        /\ aesPc > 1 =>
              /\ aes.op # Null
              /\ aesHeap[aes.op].algo = aesArg
              /\ aesHeap[aes.op].mode = IF aesPc <= AesHalf + 1 THEN "encode" ELSE "decode"
              /\ aesHeap[aes.op].active <=> aesArg = "plain" /\ aesPc \in {4, 5, 8, 9}
              /\ aesPc \notin {2, AesHalf + 2} => aesHeap[aes.op].key = HostKey
        /\ aesPc \in (AesHalf + 1)..(2 * AesHalf) => aesOut = [algo |-> aesArg, key |-> HostKey]
        /\ aesPc = 2 * AesHalf + 1 => aesOut = Clear

AesInv ==
    /\ AesCore
    /\ aesArg \in AesAlgo
    /\ AesHostAt
    /\ aesClient \in {"host", "failed"} => aesRes # "TARGET_DEAD"
    /\ aesClient = "none" => ~aes.open

(***************************************************************************)
(* Freeing and allocating a handle.                                        *)
(***************************************************************************)
LEMMA FreedProperties ==
  ASSUME NEW V, NEW heap \in [Handle -> V \union {Unused}], NEW h \in Handle \union {Null},
         h # Null => heap[h] # Unused
  PROVE  /\ Freed(heap, h) \in [Handle -> V \union {Unused}]
         /\ \A g \in Handle : Freed(heap, h)[g] = IF g = h THEN Unused ELSE heap[g]
  BY HandleAssumption DEF Freed

LEMMA AesDistinct == \A v \in AesValues : v # Unused /\ v # Broken
  BY AesHandleValues DEF AesValues

LEMMA AesFreesOperation ==
  ASSUME NEW s, NEW heap, AesOwns(s, heap)
  PROVE  AesOwns([s EXCEPT !.op = Null], Freed(heap, s.op))
<1>1. s.op \in Handle \union {Null} /\ (s.op # Null => heap[s.op] # Unused)
  BY AesDistinct DEF AesOwns, AesSessions
<1>2. /\ Freed(heap, s.op) \in [Handle -> AesValues \union {Unused}]
      /\ \A g \in Handle : Freed(heap, s.op)[g] = IF g = s.op THEN Unused ELSE heap[g]
  <2> DEFINE h == s.op
  <2>1. heap \in [Handle -> AesValues \union {Unused}]
    BY DEF AesOwns
  <2>2. h \in Handle \union {Null} /\ (h # Null => heap[h] # Unused)
    BY <1>1
  <2> HIDE DEF h
  <2>3. /\ Freed(heap, h) \in [Handle -> AesValues \union {Unused}]
        /\ \A g \in Handle : Freed(heap, h)[g] = IF g = h THEN Unused ELSE heap[g]
    BY <2>1, <2>2, HandleAssumption DEF Freed
  <2> QED
    BY <2>3 DEF h
<1>3. [s EXCEPT !.op = Null] \in AesSessions /\ [s EXCEPT !.op = Null].op = Null
      /\ [s EXCEPT !.op = Null].obj = s.obj
  BY DEF AesOwns, AesSessions
<1> QED
  BY <1>1, <1>2, <1>3, HandleAssumption DEF AesOwns, AesSessions

LEMMA AesFreesObject ==
  ASSUME NEW s, NEW heap, AesOwns(s, heap)
  PROVE  AesOwns([s EXCEPT !.obj = Null], Freed(heap, s.obj))
<1>1. s.obj \in Handle \union {Null} /\ (s.obj # Null => heap[s.obj] # Unused)
  BY AesDistinct DEF AesOwns, AesSessions
<1>2. /\ Freed(heap, s.obj) \in [Handle -> AesValues \union {Unused}]
      /\ \A g \in Handle : Freed(heap, s.obj)[g] = IF g = s.obj THEN Unused ELSE heap[g]
  <2> DEFINE h == s.obj
  <2>1. heap \in [Handle -> AesValues \union {Unused}]
    BY DEF AesOwns
  <2>2. h \in Handle \union {Null} /\ (h # Null => heap[h] # Unused)
    BY <1>1
  <2> HIDE DEF h
  <2>3. /\ Freed(heap, h) \in [Handle -> AesValues \union {Unused}]
        /\ \A g \in Handle : Freed(heap, h)[g] = IF g = h THEN Unused ELSE heap[g]
    BY <2>1, <2>2, HandleAssumption DEF Freed
  <2> QED
    BY <2>3 DEF h
<1>3. [s EXCEPT !.obj = Null] \in AesSessions /\ [s EXCEPT !.obj = Null].op = s.op
      /\ [s EXCEPT !.obj = Null].obj = Null
  BY DEF AesOwns, AesSessions
<1> QED
  BY <1>1, <1>2, <1>3, HandleAssumption DEF AesOwns, AesSessions

LEMMA AesAllocates ==
  ASSUME NEW s, NEW heap, AesOwns(s, heap), NEW h \in Fresh(heap), NEW v
  PROVE  /\ s.op = Null /\ v \in AesOperations =>
                AesOwns([s EXCEPT !.op = h], [heap EXCEPT ![h] = v])
         /\ s.obj = Null /\ v \in AesObjects =>
                AesOwns([s EXCEPT !.obj = h], [heap EXCEPT ![h] = v])
<1>1. h \in Handle /\ heap[h] = Unused /\ h # Null
  BY HandleAssumption DEF Fresh
<1>2. /\ [s EXCEPT !.op = h] \in AesSessions /\ [s EXCEPT !.obj = h] \in AesSessions
      /\ [s EXCEPT !.op = h].op = h /\ [s EXCEPT !.op = h].obj = s.obj
      /\ [s EXCEPT !.obj = h].op = s.op /\ [s EXCEPT !.obj = h].obj = h
  BY <1>1 DEF AesOwns, AesSessions
<1>3. s.op # h /\ s.obj # h /\ s.op \in Handle \union {Null} /\ s.obj \in Handle \union {Null}
  BY <1>1 DEF AesOwns, AesSessions
<1>4. ASSUME v \in AesValues
      PROVE  /\ [heap EXCEPT ![h] = v] \in [Handle -> AesValues \union {Unused}]
             /\ \A g \in Handle : [heap EXCEPT ![h] = v][g] = IF g = h THEN v ELSE heap[g]
             /\ v # Unused
  BY <1>1, <1>4, AesDistinct DEF AesOwns
<1>5. ASSUME s.op = Null, v \in AesOperations
      PROVE  AesOwns([s EXCEPT !.op = h], [heap EXCEPT ![h] = v])
  <2> DEFINE t == [s EXCEPT !.op = h]
             new == [heap EXCEPT ![h] = v]
  <2>1. /\ t \in AesSessions /\ t.op = h /\ t.obj = s.obj
        /\ new \in [Handle -> AesValues \union {Unused}]
        /\ \A g \in Handle : new[g] = IF g = h THEN v ELSE heap[g]
        /\ v # Unused
    BY <1>2, <1>4, <1>5 DEF AesValues
  <2> HIDE DEF t, new
  <2>2. \A g \in Handle : new[g] # Unused <=> g \in {t.op, t.obj}
    BY <1>1, <1>3, <1>5, <2>1, HandleAssumption DEF AesOwns
  <2>3. t.op # t.obj /\ new[t.op] \in AesOperations
    BY <1>1, <1>3, <1>5, <2>1
  <2>4. t.obj # Null => new[t.obj] \in AesObjects
    BY <1>1, <1>3, <2>1 DEF AesOwns
  <2>5. AesOwns(t, new)
    BY <2>1, <2>2, <2>3, <2>4 DEF AesOwns
  <2> QED
    BY <2>5 DEF t, new
<1>6. ASSUME s.obj = Null, v \in AesObjects
      PROVE  AesOwns([s EXCEPT !.obj = h], [heap EXCEPT ![h] = v])
  <2> DEFINE t == [s EXCEPT !.obj = h]
             new == [heap EXCEPT ![h] = v]
  <2>1. /\ t \in AesSessions /\ t.op = s.op /\ t.obj = h
        /\ new \in [Handle -> AesValues \union {Unused}]
        /\ \A g \in Handle : new[g] = IF g = h THEN v ELSE heap[g]
        /\ v # Unused
    BY <1>2, <1>4, <1>6 DEF AesValues
  <2> HIDE DEF t, new
  <2>2. \A g \in Handle : new[g] # Unused <=> g \in {t.op, t.obj}
    BY <1>1, <1>3, <1>6, <2>1, HandleAssumption DEF AesOwns
  <2>3. t.obj # t.op /\ new[t.obj] \in AesObjects
    BY <1>1, <1>3, <1>6, <2>1
  <2>4. t.op # Null => new[t.op] \in AesOperations
    BY <1>1, <1>3, <2>1 DEF AesOwns
  <2>5. AesOwns(t, new)
    BY <2>1, <2>2, <2>3, <2>4 DEF AesOwns
  <2> QED
    BY <2>5 DEF t, new
<1> QED
  BY <1>5, <1>6

LEMMA AesReleases ==
  ASSUME NEW s, NEW heap, AesOwns(s, heap)
  PROVE  AesOwns([s EXCEPT !.op = Null, !.obj = Null], Freed(Freed(heap, s.op), s.obj))
<1> DEFINE t == [s EXCEPT !.op = Null]
<1>1. AesOwns(t, Freed(heap, s.op))
  BY AesFreesOperation
<1>2. t.obj = s.obj /\ [t EXCEPT !.obj = Null] = [s EXCEPT !.op = Null, !.obj = Null]
  BY DEF AesOwns, AesSessions
<1> HIDE DEF t
<1>3. AesOwns([t EXCEPT !.obj = Null], Freed(Freed(heap, s.op), t.obj))
  BY <1>1, AesFreesObject
<1> QED
  BY <1>2, <1>3

(***************************************************************************)
(* One command each: the handles and the key in use stay in order, and     *)
(* what a successful command leaves in the operation.                      *)
(***************************************************************************)
\* A session whose handles are released, whatever happened to it before.
LEMMA AesReleased ==
  ASSUME NEW s, NEW heap, AesOwns(s, heap), AesRelease(s, heap), AesCore, aes.open
  PROVE  AesCore' /\ aesRes' = "OUT_OF_MEMORY" /\ UNCHANGED aesOut
<1>1. AesOwns(aes', aesHeap')
  BY AesReleases DEF AesRelease
<1>2. aes'.op = Null /\ aes'.obj = Null
  BY DEF AesRelease, AesOwns, AesSessions
<1> QED
  BY <1>1, <1>2 DEF AesRelease, AesReturn, AesCore

LEMMA AesPanicked ==
  ASSUME AesPanic, AesCore, aes.open
  PROVE  AesCore' /\ aesRes' = "TARGET_DEAD" /\ UNCHANGED aesOut
<1>1. aes' \in AesSessions /\ aes'.op = Null /\ aes'.obj = Null
  BY DEF AesPanic, AesClosed, AesSessions
<1>2. /\ aesHeap' \in [Handle -> AesValues \union {Unused}]
      /\ \A h \in Handle : aesHeap'[h] = Unused
  BY DEF AesPanic, EmptyHeap
<1>3. AesOwns(aes', aesHeap')
  BY <1>1, <1>2, HandleAssumption DEF AesOwns
<1> QED
  BY <1>1, <1>3 DEF AesPanic, AesReturn, AesCore

LEMMA AesUnchangedKeeps ==
  ASSUME NEW res, AesUnchanged(res), AesCore, aes.open
  PROVE  AesCore' /\ aesRes' = res /\ UNCHANGED aesOut
  BY DEF AesUnchanged, AesReturn, AesCore

LEMMA ta2tee_idsKeeps ==
  ASSUME AesCore, NEW a \in AesAlgo \union {Invalid}, NEW s, NEW m \in AesMode \union {Invalid}
  PROVE  LET sess == ta2tee_ids(a, s, m)
         IN  /\ AesOwns(sess, aesHeap)
             /\ sess.open = aes.open /\ sess.op = aes.op /\ sess.obj = aes.obj
             /\ AesAccepted(a, s, m) => sess.size = s
<1> DEFINE sess == ta2tee_ids(a, s, m)
<1>1. aes \in AesSessions
  BY DEF AesCore, AesOwns
<1>2. sess \in AesSessions
  BY <1>1 DEF AesSessions, ta2tee_ids
<1>3. sess.open = aes.open /\ sess.op = aes.op /\ sess.obj = aes.obj
  BY <1>1 DEF AesSessions, ta2tee_ids
<1>4. AesAccepted(a, s, m) => sess.size = s
  BY <1>1 DEF AesSessions, ta2tee_ids, AesAccepted
<1> HIDE DEF sess
<1>5. AesOwns(sess, aesHeap)
  BY <1>2, <1>3 DEF AesCore, AesOwns
<1> QED
  BY <1>3, <1>4, <1>5 DEF sess

AesPrepared(a, s, m) ==
    /\ aes'.op # Null
    /\ aes'.size = s
    /\ aesHeap'[aes'.op] = [algo |-> a, mode |-> m, size |-> s, key |-> Dummy, active |-> FALSE]
    /\ aesHeap'[aes'.obj] = [size |-> s, key |-> Dummy]

LEMMA AesPrepares ==
  ASSUME AesCore, aes.open, NEW a \in AesAlgo \union {Invalid}, NEW s,
         NEW m \in AesMode \union {Invalid}, alloc_resources(a, s, m)
  PROVE  /\ AesCore'
         /\ aesRes' # "TARGET_DEAD"
         /\ aesRes' = "SUCCESS" => AesPrepared(a, s, m)
         /\ UNCHANGED aesOut
<1> DEFINE sess  == ta2tee_ids(a, s, m)
           heap1 == Freed(aesHeap, aes.op)
           oper  == [algo |-> a, mode |-> m, size |-> s, key |-> Dummy, active |-> FALSE]
           object == [size |-> s, key |-> Dummy]
           heap2(h) == [heap1 EXCEPT ![h] = oper]
           heap3(h) == Freed(heap2(h), aes.obj)
           heap4(h, o) == [heap3(h) EXCEPT ![o] = object]
<1>1. /\ AesOwns(sess, aesHeap)
      /\ sess.open = aes.open /\ sess.op = aes.op /\ sess.obj = aes.obj
      /\ AesAccepted(a, s, m) => sess.size = s
  BY ta2tee_idsKeeps
<1>2. \/ ~AesAccepted(a, s, m) /\ aes' = sess /\ AesReturn("BAD_PARAMETERS")
         /\ UNCHANGED <<aesHeap, aesLoaded>>
      \/ AesAccepted(a, s, m) /\ AesRelease([sess EXCEPT !.op = Null], heap1)
      \/ /\ AesAccepted(a, s, m)
         /\ \E h \in Fresh(heap1) :
               \/ AesRelease([sess EXCEPT !.op = h, !.obj = Null], heap3(h))
               \/ \E o \in Fresh(heap3(h)) :
                     \/ AesRelease([sess EXCEPT !.op = h, !.obj = o], heap4(h, o))
                     \/ /\ aesHeap' = heap4(h, o)
                        /\ aes' = [sess EXCEPT !.op = h, !.obj = o]
                        /\ aesLoaded' = Dummy
                        /\ AesReturn("SUCCESS")
  BY Zenon DEF alloc_resources
<1>3. AesOwns([sess EXCEPT !.op = Null], heap1)
  BY <1>1, AesFreesOperation
<1>4. sess \in AesSessions
  BY <1>1 DEF AesOwns
<1> HIDE DEF sess, heap1
<1>5. CASE ~AesAccepted(a, s, m) /\ aes' = sess /\ AesReturn("BAD_PARAMETERS")
           /\ UNCHANGED <<aesHeap, aesLoaded>>
  BY <1>1, <1>5 DEF AesReturn, AesCore
<1>6. CASE AesRelease([sess EXCEPT !.op = Null], heap1)
  BY <1>3, <1>6, AesReleased
<1>7. ASSUME AesAccepted(a, s, m), NEW h \in Fresh(heap1)
      PROVE  /\ oper \in AesOperations /\ object \in AesObjects
             /\ AesOwns([sess EXCEPT !.op = h], heap2(h))
             /\ AesOwns([sess EXCEPT !.op = h, !.obj = Null], heap3(h))
             /\ heap3(h)[h] = oper
             /\ h # Null
  <2>1. oper \in AesOperations /\ object \in AesObjects
    BY <1>7 DEF AesAccepted, AesOperations, AesObjects
  <2>2. AesOwns([[sess EXCEPT !.op = Null] EXCEPT !.op = h], heap2(h))
    <3> DEFINE none == [sess EXCEPT !.op = Null]
    <3>1. none.op = Null
      BY <1>4 DEF AesSessions
    <3> HIDE DEF none, oper
    <3>2. AesOwns([none EXCEPT !.op = h], heap2(h))
      BY <1>3, <1>7, <2>1, <3>1, AesAllocates DEF none
    <3> QED
      BY <3>2 DEF none
  <2>3. /\ [[sess EXCEPT !.op = Null] EXCEPT !.op = h] = [sess EXCEPT !.op = h]
        /\ [sess EXCEPT !.op = h].obj = aes.obj
        /\ [[sess EXCEPT !.op = h] EXCEPT !.obj = Null] = [sess EXCEPT !.op = h, !.obj = Null]
        /\ [sess EXCEPT !.op = h].op = h
    BY <1>1, <1>4 DEF AesSessions
  <2>4. AesOwns([sess EXCEPT !.op = h], heap2(h))
    BY <2>2, <2>3
  <2>5. AesOwns([sess EXCEPT !.op = h, !.obj = Null], heap3(h))
    BY <2>3, <2>4, AesFreesObject
  <2>6. h \in Handle /\ h # Null
    BY <1>7, HandleAssumption DEF Fresh
  <2>7. heap2(h)[h] = oper /\ h # aes.obj /\ aes.obj \in Handle \union {Null}
        /\ heap2(h) \in [Handle -> AesValues \union {Unused}]
        /\ (aes.obj # Null => heap2(h)[aes.obj] # Unused)
    <3> HIDE DEF oper
    <3>1. heap2(h)[h] = oper
      BY <1>3, <2>6 DEF AesOwns
    <3> HIDE DEF heap2
    <3> QED
      BY <2>3, <2>4, <2>6, <3>1, AesDistinct DEF AesOwns, AesSessions, AesValues
  <2> HIDE DEF heap2, oper, object
  <2>8. heap3(h)[h] = oper
    BY <2>6, <2>7, FreedProperties
  <2> QED
    BY <2>1, <2>4, <2>5, <2>6, <2>8
<1>8. ASSUME AesAccepted(a, s, m), NEW h \in Fresh(heap1), NEW o \in Fresh(heap3(h))
      PROVE  /\ AesOwns([sess EXCEPT !.op = h, !.obj = o], heap4(h, o))
             /\ heap4(h, o)[h] = oper /\ heap4(h, o)[o] = object
             /\ o # Null /\ h # Null
  <2> DEFINE none == [sess EXCEPT !.op = h, !.obj = Null]
  <2>1. none.obj = Null /\ none.op = h
        /\ [none EXCEPT !.obj = o] = [sess EXCEPT !.op = h, !.obj = o]
    BY <1>4 DEF AesSessions
  <2> HIDE DEF none, heap3, oper
  <2>2. AesOwns(none, heap3(h)) /\ object \in AesObjects /\ oper \in AesOperations
        /\ heap3(h)[h] = oper /\ h # Null
    BY <1>7, <1>8 DEF none
  <2>3. AesOwns([none EXCEPT !.obj = o], heap4(h, o))
    <3> HIDE DEF object
    <3> QED
      BY <1>8, <2>1, <2>2, AesAllocates
  <2>4. o \in Handle /\ o # Null /\ h \in Handle /\ heap3(h)[o] = Unused
    BY <1>7, <1>8, HandleAssumption DEF Fresh
  <2>5. o # h
    BY <2>2, <2>4, AesDistinct DEF AesValues
  <2>6. heap4(h, o)[h] = oper /\ heap4(h, o)[o] = object
    BY <2>2, <2>4, <2>5 DEF AesOwns
  <2> QED
    BY <2>1, <2>2, <2>3, <2>4, <2>6
<1>9. ASSUME AesAccepted(a, s, m), NEW h \in Fresh(heap1),
             AesRelease([sess EXCEPT !.op = h, !.obj = Null], heap3(h))
      PROVE  AesCore' /\ aesRes' = "OUT_OF_MEMORY" /\ UNCHANGED aesOut
  <2> HIDE DEF heap3
  <2> QED
    BY <1>7, <1>9, AesReleased
<1>10. ASSUME AesAccepted(a, s, m), NEW h \in Fresh(heap1), NEW o \in Fresh(heap3(h)),
              AesRelease([sess EXCEPT !.op = h, !.obj = o], heap4(h, o))
       PROVE  AesCore' /\ aesRes' = "OUT_OF_MEMORY" /\ UNCHANGED aesOut
  <2> HIDE DEF heap4, heap3
  <2> QED
    BY <1>8, <1>10, AesReleased
<1>11. ASSUME AesAccepted(a, s, m), NEW h \in Fresh(heap1), NEW o \in Fresh(heap3(h)),
              aesHeap' = heap4(h, o), aes' = [sess EXCEPT !.op = h, !.obj = o],
              aesLoaded' = Dummy, AesReturn("SUCCESS")
       PROVE  AesCore' /\ aesRes' = "SUCCESS" /\ UNCHANGED aesOut /\ AesPrepared(a, s, m)
  <2>1. aes'.op = h /\ aes'.obj = o /\ aes'.size = s /\ aes'.open = aes.open
    BY <1>1, <1>4, <1>11 DEF AesSessions
  <2>2. AesOwns(aes', aesHeap') /\ aesHeap'[h] = oper /\ aesHeap'[o] = object
        /\ o # Null /\ h # Null
    <3> HIDE DEF heap4, heap3, oper, object
    <3> QED
      BY <1>8, <1>11
  <2>3. oper.key = Dummy
    OBVIOUS
  <2> HIDE DEF heap4, heap3
  <2>4. AesPrepared(a, s, m)
    BY <2>1, <2>2 DEF AesPrepared
  <2> HIDE DEF oper, object
  <2> QED
    BY <1>11, <2>1, <2>2, <2>3, <2>4 DEF AesReturn, AesCore
<1> HIDE DEF heap4, heap3
<1> QED
  BY <1>2, <1>5, <1>6, <1>9, <1>10, <1>11

AesKeySet(k) ==
    /\ UNCHANGED aes
    /\ aesHeap'[aes.op] = [aesHeap[aes.op] EXCEPT !.key = k, !.active = FALSE]

LEMMA AesSetsKey ==
  ASSUME AesCore, aes.open, NEW k \in AesKey, NEW s, set_aes_key(k, s)
  PROVE  /\ AesCore'
         /\ aes.op # Null => aesRes' # "TARGET_DEAD"
         /\ aesRes' = "SUCCESS" => aes.op # Null /\ AesKeySet(k)
         /\ UNCHANGED aesOut
<1>1. CASE s # aes.size /\ AesUnchanged("BAD_PARAMETERS")
  BY <1>1, AesUnchangedKeeps
<1>2. CASE s = aes.size /\ aes.obj = Null /\ AesPanic
  BY <1>2, AesPanicked DEF AesCore
<1>3. ASSUME aes.obj # Null
      PROVE  /\ aes.op \in Handle /\ aes.obj \in Handle /\ aes.op # aes.obj
             /\ aesHeap[aes.op] \in AesOperations /\ aesHeap[aes.obj] \in AesObjects
             /\ aesHeap \in [Handle -> AesValues \union {Unused}]
             /\ \A h \in Handle : aesHeap[h] # Unused <=> h \in {aes.op, aes.obj}
  BY <1>3 DEF AesCore, AesOwns, AesSessions
<1>4. ASSUME aes.obj # Null, UNCHANGED aes,
             NEW oper \in AesOperations, NEW object \in AesObjects,
             aesHeap' = [aesHeap EXCEPT ![aes.obj] = object, ![aes.op] = oper]
      PROVE  AesOwns(aes', aesHeap') /\ aesHeap'[aes.op] = oper
  <2>1. oper \in AesValues /\ object \in AesValues
    BY DEF AesValues
  <2>2. /\ aesHeap' \in [Handle -> AesValues \union {Unused}]
        /\ \A h \in Handle : aesHeap'[h] = IF h = aes.op THEN oper
                                            ELSE IF h = aes.obj THEN object ELSE aesHeap[h]
    BY <1>3, <1>4, <2>1
  <2>3. \A h \in Handle : aesHeap'[h] # Unused <=> h \in {aes.op, aes.obj}
    BY <1>3, <1>4, <2>1, <2>2, AesDistinct
  <2> QED
    BY <1>3, <1>4, <2>2, <2>3 DEF AesCore, AesOwns
<1>5. CASE /\ aes.obj # Null
           /\ aesHeap' = [aesHeap EXCEPT ![aes.obj].key = NoKey]
           /\ AesReturn("BAD_PARAMETERS")
           /\ UNCHANGED <<aes, aesLoaded>>
  <2> DEFINE object == [aesHeap[aes.obj] EXCEPT !.key = NoKey]
  <2>1. object \in AesObjects
    BY <1>3, <1>5 DEF AesObjects
  <2>2. aesHeap' = [aesHeap EXCEPT ![aes.obj] = object, ![aes.op] = aesHeap[aes.op]]
    BY <1>3, <1>5
  <2> HIDE DEF object
  <2>3. AesOwns(aes', aesHeap') /\ aesHeap'[aes.op] = aesHeap[aes.op]
    BY <1>3, <1>4, <1>5, <2>1, <2>2
  <2> QED
    BY <1>5, <2>3 DEF AesReturn, AesCore
<1>6. CASE /\ aes.obj # Null
           /\ aesHeap' = [aesHeap EXCEPT ![aes.obj].key = k,
                                         ![aes.op].key = k, ![aes.op].active = FALSE]
           /\ aesLoaded' = k
           /\ AesReturn("SUCCESS")
           /\ UNCHANGED aes
  <2> DEFINE object == [aesHeap[aes.obj] EXCEPT !.key = k]
             oper == [aesHeap[aes.op] EXCEPT !.key = k, !.active = FALSE]
  <2>1. object \in AesObjects
    BY <1>3, <1>6 DEF AesObjects
  <2>2. oper \in AesOperations /\ oper.key = k
    BY <1>3, <1>6 DEF AesOperations
  <2>3. aesHeap' = [aesHeap EXCEPT ![aes.obj] = object, ![aes.op] = oper]
    BY <1>3, <1>6
  <2>4. AesOwns(aes', aesHeap') /\ aesHeap'[aes.op] = oper
    <3> HIDE DEF object, oper
    <3> QED
      BY <1>4, <1>6, <2>1, <2>2, <2>3
  <2>5. AesKeySet(k) /\ aes.op # Null
    BY <1>3, <1>6, <2>4, HandleAssumption DEF AesKeySet
  <2> HIDE DEF object, oper
  <2> QED
    BY <1>6, <2>2, <2>4, <2>5 DEF AesReturn, AesCore
<1> QED
  BY <1>1, <1>2, <1>5, <1>6 DEF set_aes_key

\* TEE_CipherInit and TEE_AEInit: the operation becomes active.
LEMMA AesActivates ==
  ASSUME AesCore, aes.op # Null, UNCHANGED <<aes, aesLoaded>>,
         aesHeap' = [aesHeap EXCEPT ![aes.op].active = TRUE]
  PROVE  /\ AesCore'
         /\ aesHeap'[aes.op] = [aesHeap[aes.op] EXCEPT !.active = TRUE]
<1> DEFINE oper == [aesHeap[aes.op] EXCEPT !.active = TRUE]
<1>1. /\ aes.op \in Handle /\ aes.obj # aes.op
      /\ aesHeap[aes.op] \in AesOperations
      /\ aesHeap \in [Handle -> AesValues \union {Unused}]
  BY DEF AesCore, AesOwns, AesSessions
<1>2. oper \in AesOperations /\ oper.key = aesHeap[aes.op].key
  BY <1>1 DEF AesOperations
<1>3. aesHeap' = [aesHeap EXCEPT ![aes.op] = oper]
  BY <1>1
<1> HIDE DEF oper
<1>4. /\ aesHeap' \in [Handle -> AesValues \union {Unused}]
      /\ \A h \in Handle : aesHeap'[h] = IF h = aes.op THEN oper ELSE aesHeap[h]
  BY <1>1, <1>2, <1>3 DEF AesValues
<1>5. oper # Unused
  BY <1>2, AesDistinct DEF AesValues
<1>6. \A h \in Handle : aesHeap'[h] # Unused <=> h \in {aes'.op, aes'.obj}
  BY <1>1, <1>4, <1>5 DEF AesCore, AesOwns
<1>7. /\ aes'.op # aes'.obj /\ aesHeap'[aes'.op] \in AesOperations
      /\ (aes'.obj # Null => aesHeap'[aes'.obj] \in AesObjects)
      /\ aes' \in AesSessions
  BY <1>1, <1>2, <1>4 DEF AesCore, AesOwns, AesSessions
<1>8. AesOwns(aes', aesHeap')
  BY <1>4, <1>6, <1>7 DEF AesOwns
<1> QED
  BY <1>1, <1>2, <1>4, <1>8 DEF AesCore, oper

LEMMA AesSetsIV ==
  ASSUME AesCore, aes.open, reset_aes_iv
  PROVE  /\ AesCore'
         /\ aes.op # Null /\ AesOperation.algo = "plain" => aesRes' # "TARGET_DEAD"
         /\ aesRes' = "SUCCESS" =>
               /\ UNCHANGED aes
               /\ aesHeap'[aes.op] = [aesHeap[aes.op] EXCEPT !.active = TRUE]
         /\ UNCHANGED aesOut
  BY AesActivates, AesPanicked DEF reset_aes_iv, AesReturn

LEMMA AesCiphers ==
  ASSUME AesCore, aes.open, NEW in, NEW fits, cipher_buffer(in, fits)
  PROVE  /\ AesCore'
         /\ aes.op # Null /\ AesOperation.algo = "plain" /\ AesOperation.active
                => aesRes' # "TARGET_DEAD"
         /\ aesRes' = "SUCCESS" => UNCHANGED <<aes, aesHeap>> /\ aesOut' = AesResult(in)
<1>1. CASE ~fits /\ AesUnchanged("BAD_PARAMETERS")
  BY <1>1, AesUnchangedKeeps
<1>2. CASE aes.op = Null /\ AesUnchanged("BAD_STATE")
  BY <1>2, AesUnchangedKeeps
<1>3. CASE ~(AesOperation.active /\ AesOperation.algo = "plain") /\ AesPanic
  BY <1>3, AesPanicked
<1>4. CASE AesProcess(in)
  BY <1>4 DEF AesProcess, AesCore
<1> QED
  BY <1>1, <1>2, <1>3, <1>4 DEF cipher_buffer

LEMMA AesAuthenticates ==
  ASSUME AesCore, aes.open, NEW in, NEW mode, auth_enc_op(in, mode)
  PROVE  /\ AesCore'
         /\ /\ aes.op # Null /\ AesOperation.algo = "authenticated"
            /\ ~AesOperation.active /\ mode = AesOperation.mode
            => aesRes' # "TARGET_DEAD"
         /\ aesRes' = "SUCCESS" => UNCHANGED <<aes, aesHeap>> /\ aesOut' = AesResult(in)
<1> DEFINE ready == aes.op # Null /\ AesOperation.algo = "authenticated" /\ ~AesOperation.active
           Initialised(res) == /\ aesHeap' = [aesHeap EXCEPT ![aes.op].active = TRUE]
                               /\ AesReturn(res)
                               /\ UNCHANGED <<aes, aesLoaded>>
<1>1. CASE AesUnchanged("OUT_OF_MEMORY")
  BY <1>1, AesUnchangedKeeps
<1>2. CASE AesPanic /\ (~ready \/ mode # AesOperation.mode)
  BY <1>2, AesPanicked
<1>3. CASE ready /\ \E res \in {"OUT_OF_MEMORY", "SHORT_BUFFER", "MAC_INVALID"} : Initialised(res)
  BY <1>3, AesActivates DEF AesReturn
<1>4. CASE AesProcess(in)
  BY <1>4 DEF AesProcess, AesCore
<1> QED
  BY <1>1, <1>2, <1>3, <1>4 DEF auth_enc_op

(***************************************************************************)
(* The host program: what its next command is, and that each command finds *)
(* and leaves the operation and the output as AesHostAt says.              *)
(***************************************************************************)
LEMMA AesHostCommands ==
  ASSUME aesArg \in AesAlgo, aesPc \in 1..(2 * AesHalf)
  PROVE  LET c    == AesHostProgram[aesPc]
             mode == IF aesPc <= AesHalf THEN "encode" ELSE "decode"
             in   == IF aesPc <= AesHalf THEN Clear ELSE aesOut
             turn == IF aesPc <= AesHalf THEN aesPc ELSE aesPc - AesHalf
         IN  \/ turn = 1 /\ c = prepare_aes(mode)
             \/ turn = 2 /\ c = set_key
             \/ turn = 3 /\ aesArg = "plain" /\ c = set_iv
             \/ turn = 4 /\ aesArg = "plain" /\ c = host_cipher_buffer(in)
             \/ turn = 3 /\ aesArg = "authenticated" /\ c = host_auth_enc_op(in, mode)
<1>1. CASE aesArg = "authenticated"
  <2>1. AesHalf = 3 /\ aesPc \in 1..6
    BY <1>1 DEF AesHalf
  <2>2. AesHostProgram = <<prepare_aes("encode"), set_key, host_auth_enc_op(Clear, "encode"),
           prepare_aes("decode"), set_key, host_auth_enc_op(aesOut, "decode")>>
    BY <1>1 DEF AesHostProgram
  <2> HIDE DEF AesHostProgram
  <2>3. aesPc \in {1, 2, 3, 4, 5, 6}
    BY <2>1
  <2> QED
    BY <1>1, <2>1, <2>2, <2>3
<1>2. CASE aesArg = "plain"
  <2>1. AesHalf = 4 /\ aesPc \in 1..8
    BY <1>2 DEF AesHalf
  <2>2. AesHostProgram = <<prepare_aes("encode"), set_key, set_iv, host_cipher_buffer(Clear),
           prepare_aes("decode"), set_key, set_iv, host_cipher_buffer(aesOut)>>
    BY <1>2 DEF AesHostProgram
  <2> HIDE DEF AesHostProgram
  <2>3. aesPc \in {1, 2, 3, 4, 5, 6, 7, 8}
    BY <2>1
  <2> QED
    BY <1>2, <2>1, <2>2, <2>3
<1> QED
  BY <1>1, <1>2 DEF AesAlgo

LEMMA AesHostLength ==
  ASSUME aesArg \in AesAlgo
  PROVE  Len(AesHostProgram) = 2 * AesHalf /\ AesHalf \in {3, 4}
  BY DEF AesHostProgram, AesHalf, AesAlgo

\* The host's view of the operation after a successful command.
AesHostNext ==
    /\ aesRes' # "TARGET_DEAD"
    /\ aesRes' = "SUCCESS" =>
          /\ aes'.op # Null
          /\ aesHeap'[aes'.op].algo = aesArg
          /\ aesHeap'[aes'.op].mode = IF aesPc <= AesHalf THEN "encode" ELSE "decode"
          /\ aesHeap'[aes'.op].active <=> aesArg = "plain" /\ aesPc \in {3, 4, 7, 8}
          /\ aesPc \notin {1, AesHalf + 1} => aesHeap'[aes'.op].key = HostKey
          /\ aesPc \notin {AesHalf, 2 * AesHalf} => UNCHANGED aesOut
          /\ aesPc = AesHalf => aesOut' = [algo |-> aesArg, key |-> HostKey]
          /\ aesPc = 2 * AesHalf => aesOut' = Clear

LEMMA AesHostCommandKeeps ==
  ASSUME AesInv, aesClient = "host", aesPc <= 2 * AesHalf,
         AesInvokeCommand(AesHostProgram[aesPc])
  PROVE  AesCore' /\ AesHostNext
<1> DEFINE c    == AesHostProgram[aesPc]
           mode == IF aesPc <= AesHalf THEN "encode" ELSE "decode"
           in   == IF aesPc <= AesHalf THEN Clear ELSE aesOut
           turn == IF aesPc <= AesHalf THEN aesPc ELSE aesPc - AesHalf
<1>1. /\ AesCore /\ aesArg \in AesAlgo /\ aes.open
      /\ AesHalf = IF aesArg = "authenticated" THEN 3 ELSE 4
  BY DEF AesInv, AesInvokeCommand, AesHalf
<1>2. /\ aesPc \in 1..(2 * AesHalf)
      /\ aesPc > 1 =>
              /\ aes.op # Null
              /\ aesHeap[aes.op].algo = aesArg
              /\ aesHeap[aes.op].mode = IF aesPc <= AesHalf + 1 THEN "encode" ELSE "decode"
              /\ aesHeap[aes.op].active <=> aesArg = "plain" /\ aesPc \in {4, 5, 8, 9}
              /\ aesPc \notin {2, AesHalf + 2} => aesHeap[aes.op].key = HostKey
      /\ aesPc \in (AesHalf + 1)..(2 * AesHalf) => aesOut = [algo |-> aesArg, key |-> HostKey]
  <2>1. AesHalf \in {3, 4}
    BY <1>1
  <2> QED
    BY <2>1 DEF AesInv, AesHostAt
<1>3. \/ turn = 1 /\ c = prepare_aes(mode)
      \/ turn = 2 /\ c = set_key
      \/ turn = 3 /\ aesArg = "plain" /\ c = set_iv
      \/ turn = 4 /\ aesArg = "plain" /\ c = host_cipher_buffer(in)
      \/ turn = 3 /\ aesArg = "authenticated" /\ c = host_auth_enc_op(in, mode)
  BY <1>1, <1>2, AesHostCommands
<1>4. mode \in AesMode
  BY DEF AesMode
<1> HIDE DEF c
<1>5. AesInvokeCommand(c)
  BY DEF c
<1>6. ASSUME aes.op # Null
      PROVE  aesHeap[aes.op] \in AesOperations
  BY <1>1, <1>6 DEF AesCore, AesOwns
<1>7. CASE turn = 1 /\ c = prepare_aes(mode)
  <2>1. alloc_resources(aesArg, 16, mode)
    BY <1>5, <1>7 DEF AesInvokeCommand, prepare_aes
  <2>2. /\ AesCore' /\ UNCHANGED aesOut /\ aesRes' # "TARGET_DEAD"
        /\ aesRes' = "SUCCESS" => AesPrepared(aesArg, 16, mode)
    BY <1>1, <1>4, <2>1, AesPrepares
  <2>3. aesPc \in {1, AesHalf + 1} /\ AesHalf \in {3, 4}
    BY <1>1, <1>2, <1>7
  <2>4. aesPc \notin {3, 7, 8, AesHalf, 2 * AesHalf} /\ (aesArg = "plain" => aesPc # 4)
    BY <1>1, <2>3
  <2> QED
    BY <2>2, <2>3, <2>4 DEF AesHostNext, AesPrepared
<1>8. CASE turn = 2 /\ c = set_key
  <2>1. set_aes_key(HostKey, 16)
    BY <1>5, <1>8 DEF AesInvokeCommand, set_key
  <2>2. aesPc \in {2, AesHalf + 2} /\ AesHalf \in {3, 4} /\ aesPc > 1
    BY <1>1, <1>2, <1>8
  <2>3. /\ AesCore' /\ UNCHANGED aesOut /\ aesRes' # "TARGET_DEAD"
        /\ aesRes' = "SUCCESS" => AesKeySet(HostKey)
    BY <1>1, <1>2, <2>1, <2>2, AesSetsKey, AesConstants
  <2>4. aesRes' = "SUCCESS" =>
            /\ aes'.op = aes.op /\ aes.op # Null
            /\ aesHeap'[aes.op].algo = aesArg
            /\ aesHeap'[aes.op].mode = aesHeap[aes.op].mode
            /\ aesHeap'[aes.op].active = FALSE
            /\ aesHeap'[aes.op].key = HostKey
    BY <1>2, <1>6, <2>2, <2>3 DEF AesKeySet, AesOperations
  <2>5. aesPc \notin {3, 7, 8, AesHalf, 2 * AesHalf} /\ (aesArg = "plain" => aesPc # 4)
    BY <1>1, <2>2
  <2> QED
    BY <1>2, <2>2, <2>3, <2>4, <2>5 DEF AesHostNext
<1>9. CASE turn = 3 /\ aesArg = "plain" /\ c = set_iv
  <2>1. reset_aes_iv
    BY <1>5, <1>9 DEF AesInvokeCommand, set_iv
  <2>2. AesHalf = 4 /\ aesPc \in {3, 7}
    BY <1>1, <1>2, <1>9
  <2>3. /\ AesCore' /\ UNCHANGED aesOut /\ aesRes' # "TARGET_DEAD"
        /\ aesRes' = "SUCCESS" =>
               /\ UNCHANGED aes
               /\ aesHeap'[aes.op] = [aesHeap[aes.op] EXCEPT !.active = TRUE]
    BY <1>1, <1>2, <1>9, <2>1, <2>2, AesSetsIV DEF AesOperation
  <2>4. aesRes' = "SUCCESS" =>
            /\ aes'.op = aes.op /\ aes.op # Null
            /\ aesHeap'[aes.op].algo = aesArg
            /\ aesHeap'[aes.op].mode = aesHeap[aes.op].mode
            /\ aesHeap'[aes.op].active
            /\ aesHeap'[aes.op].key = aesHeap[aes.op].key
    BY <1>2, <1>6, <2>2, <2>3 DEF AesOperations
  <2> QED
    BY <1>2, <1>9, <2>2, <2>3, <2>4 DEF AesHostNext
<1>10. ASSUME aesPc > 1, aesPc \notin {2, AesHalf + 2},
              aesHeap[aes.op].mode = mode, aesPc \in {AesHalf, 2 * AesHalf}
       PROVE  AesResult(in) = IF aesPc = AesHalf THEN [algo |-> aesArg, key |-> HostKey]
                              ELSE Clear
  <2>1. AesHalf \in {3, 4}
    BY <1>1
  <2>2. AesOperation.algo = aesArg /\ AesOperation.key = HostKey /\ AesOperation.mode = mode
    BY <1>2, <1>10 DEF AesOperation
  <2>3. CASE aesPc = AesHalf
    <3>1. mode = "encode" /\ in = Clear
      BY <2>3, <2>1
    <3> QED
      BY <2>2, <2>3, <3>1 DEF AesResult
  <2>4. CASE aesPc = 2 * AesHalf
    <3>1. mode = "decode" /\ in = [algo |-> aesArg, key |-> HostKey] /\ aesPc # AesHalf
      BY <1>2, <2>4, <2>1
    <3> QED
      BY <2>2, <2>4, <3>1 DEF AesResult
  <2> QED
    BY <1>10, <2>3, <2>4
<1>11. CASE turn = 4 /\ aesArg = "plain" /\ c = host_cipher_buffer(in)
  <2>1. cipher_buffer(in, TRUE)
    BY <1>5, <1>11 DEF AesInvokeCommand, host_cipher_buffer
  <2>2. AesHalf = 4 /\ aesPc \in {4, 8}
    BY <1>1, <1>2, <1>11
  <2>3. aesHeap[aes.op].active /\ aesHeap[aes.op].mode = mode /\ aes.op # Null
        /\ aesHeap[aes.op].algo = "plain"
    BY <1>2, <1>11, <2>2
  <2>4. /\ AesCore' /\ aesRes' # "TARGET_DEAD"
        /\ aesRes' = "SUCCESS" => UNCHANGED <<aes, aesHeap>> /\ aesOut' = AesResult(in)
    <3> HIDE DEF in, mode, turn
    <3>1. aes.op # Null /\ AesOperation.algo = "plain" /\ AesOperation.active
      BY <2>3 DEF AesOperation
    <3> QED
      BY <1>1, <2>1, <3>1, AesCiphers
  <2>5. AesResult(in) = IF aesPc = AesHalf THEN [algo |-> aesArg, key |-> HostKey] ELSE Clear
    BY <1>10, <2>2, <2>3
  <2> HIDE DEF mode, in, turn
  <2> QED
    BY <1>2, <1>11, <2>2, <2>3, <2>4, <2>5 DEF AesHostNext, mode
<1>12. CASE turn = 3 /\ aesArg = "authenticated" /\ c = host_auth_enc_op(in, mode)
  <2>1. auth_enc_op(in, mode)
    BY <1>5, <1>12 DEF AesInvokeCommand, host_auth_enc_op
  <2>2. AesHalf = 3 /\ aesPc \in {3, 6}
    BY <1>1, <1>2, <1>12
  <2>3. ~aesHeap[aes.op].active /\ aesHeap[aes.op].mode = mode /\ aes.op # Null
    BY <1>2, <1>12, <2>2
  <2>4. /\ AesCore' /\ aesRes' # "TARGET_DEAD"
        /\ aesRes' = "SUCCESS" => UNCHANGED <<aes, aesHeap>> /\ aesOut' = AesResult(in)
    BY <1>1, <1>2, <1>12, <2>1, <2>2, <2>3, AesAuthenticates DEF AesOperation
  <2>5. AesResult(in) = IF aesPc = AesHalf THEN [algo |-> aesArg, key |-> HostKey] ELSE Clear
    BY <1>10, <2>2, <2>3
  <2> HIDE DEF mode, in, turn
  <2> QED
    BY <1>2, <1>12, <2>2, <2>3, <2>4, <2>5 DEF AesHostNext, mode
<1> QED
  BY <1>3, <1>7, <1>8, <1>9, <1>11, <1>12

LEMMA AesHostStepKeeps == AesInv /\ AesHostStep => AesInv'
<1> SUFFICES ASSUME AesInv, AesHostStep
             PROVE  AesInv'
  OBVIOUS
<1>1. aesArg \in AesAlgo /\ aesClient = "host" /\ aesArg' = aesArg
  BY DEF AesInv, AesHostStep
<1>2. Len(AesHostProgram) = 2 * AesHalf /\ AesHalf \in {3, 4}
  BY <1>1, AesHostLength
<1>3. aesPc \in 1..(2 * AesHalf) /\ AesHalf' = AesHalf /\ AesInvokeCommand(AesHostProgram[aesPc])
  BY <1>1, <1>2 DEF AesInv, AesHostAt, AesHostStep, AesHalf
<1>4. AesCore' /\ AesHostNext
  BY <1>1, <1>2, <1>3, AesHostCommandKeeps
<1>5. aesPc \in (AesHalf + 1)..(2 * AesHalf) => aesOut = [algo |-> aesArg, key |-> HostKey]
  BY <1>1 DEF AesInv, AesHostAt
<1>6. CASE aesRes' = "SUCCESS"
  <2>1. aesPc' = aesPc + 1 /\ aesClient' = "host"
    BY <1>1, <1>6 DEF AesHostStep
  <2>2. /\ aesPc' \in 1..(2 * AesHalf + 1)
        /\ aesPc' <= AesHalf + 1 <=> aesPc <= AesHalf
        /\ aesPc' \in {4, 5, 8, 9} <=> aesPc \in {3, 4, 7, 8}
        /\ aesPc' \notin {2, AesHalf + 2} => aesPc \notin {1, AesHalf + 1}
        /\ aesPc' = 2 * AesHalf + 1 => aesPc = 2 * AesHalf
        /\ aesPc' \in (AesHalf + 1)..(2 * AesHalf) =>
              \/ aesPc = AesHalf
              \/ aesPc \notin {AesHalf, 2 * AesHalf} /\ aesPc \in (AesHalf + 1)..(2 * AesHalf)
    BY <1>2, <1>3, <2>1
  <2>3. AesHostAt'
    BY <1>1, <1>3, <1>4, <1>5, <1>6, <2>1, <2>2 DEF AesHostNext, AesHostAt
  <2> QED
    BY <1>1, <1>4, <1>6, <2>1, <2>3 DEF AesInv
<1>7. CASE aesRes' # "SUCCESS"
  BY <1>1, <1>4, <1>7 DEF AesHostStep, AesInv, AesHostAt, AesHostNext
<1> QED
  BY <1>6, <1>7

LEMMA AesOtherStepKeeps == AesInv /\ AesOtherStep => AesInv'
<1> SUFFICES ASSUME AesInv, aesClient = "other", NEW c \in AesCommand, AesInvokeCommand(c),
                    UNCHANGED <<aesClient, aesPc, aesArg>>
             PROVE  AesInv'
  BY DEF AesOtherStep
<1>1. AesCore /\ aes.open
  BY DEF AesInv, AesInvokeCommand
<1>2. CASE c.cmd = "PREPARE" /\ alloc_resources(c.algo, c.size, c.mode)
  <2>1. c.algo \in AesAlgo \union {Invalid} /\ c.mode \in AesMode \union {Invalid}
    BY <1>2 DEF AesCommand
  <2>2. AesCore'
    BY <1>1, <1>2, <2>1, AesPrepares
  <2> QED
    BY <2>2 DEF AesInv, AesHostAt
<1>3. CASE c.cmd = "SET_KEY" /\ set_aes_key(c.key, c.size)
  <2>1. c.key \in AesKey
    BY <1>3 DEF AesCommand
  <2>2. AesCore'
    BY <1>1, <1>3, <2>1, AesSetsKey
  <2> QED
    BY <2>2 DEF AesInv, AesHostAt
<1>4. CASE reset_aes_iv
  BY <1>1, <1>4, AesSetsIV DEF AesInv, AesHostAt
<1>5. CASE cipher_buffer(c.in, c.fits)
  BY <1>1, <1>5, AesCiphers DEF AesInv, AesHostAt
<1>6. CASE auth_enc_op(c.in, c.mode)
  BY <1>1, <1>6, AesAuthenticates DEF AesInv, AesHostAt
<1>7. CASE AesUnchanged("NOT_SUPPORTED")
  BY <1>1, <1>7, AesUnchangedKeeps DEF AesInv, AesHostAt
<1> QED
  BY <1>2, <1>3, <1>4, <1>5, <1>6, <1>7 DEF AesInvokeCommand

LEMMA AesClosedOwns == AesOwns(AesClosed, EmptyHeap)
<1>1. AesClosed \in AesSessions /\ AesClosed.op = Null /\ AesClosed.obj = Null
  BY DEF AesClosed, AesSessions
<1>2. /\ EmptyHeap \in [Handle -> AesValues \union {Unused}]
      /\ \A h \in Handle : EmptyHeap[h] = Unused
  BY DEF EmptyHeap
<1> QED
  BY <1>1, <1>2, HandleAssumption DEF AesOwns

\* A session that is not open holds nothing.
LEMMA AesStartKeeps == AesInv /\ AesStart => AesInv'
<1> SUFFICES ASSUME AesInv, AesStart
             PROVE  AesInv'
  OBVIOUS
<1>1. AesCore /\ aes.op = Null /\ aes.obj = Null
  BY DEF AesInv, AesStart, AesOpenSession, AesCore
<1>2. AesCore'
  <2>1. CASE UNCHANGED aes
    BY <1>1, <2>1 DEF AesStart, AesOpenSession, AesCore
  <2>2. CASE aes' = [AesClosed EXCEPT !.open = TRUE]
    <3>1. aes' \in AesSessions /\ aes'.op = Null /\ aes'.obj = Null
      BY <2>2 DEF AesClosed, AesSessions
    <3>2. AesOwns(aes', aesHeap')
      BY <1>1, <3>1 DEF AesStart, AesOpenSession, AesCore, AesOwns
    <3> QED
      BY <1>1, <3>1, <3>2 DEF AesStart, AesOpenSession, AesCore
  <2> QED
    BY <2>1, <2>2 DEF AesStart, AesOpenSession
<1>3. aesRes' # "TARGET_DEAD" /\ aesPc' = 1 /\ aesArg' \in AesAlgo
  BY DEF AesStart, AesOpenSession, AesReturn
<1>4. AesHostAt'
  <2>1. AesHalf' \in {3, 4}
    BY DEF AesHalf
  <2>2. /\ 1 \in 1..(2 * AesHalf' + 1) /\ 1 \notin (AesHalf' + 1)..(2 * AesHalf')
        /\ 1 # 2 * AesHalf' + 1
    <3>1. CASE AesHalf' = 3
      BY <3>1
    <3>2. CASE AesHalf' = 4
      BY <3>2
    <3> QED
      BY <2>1, <3>1, <3>2
  <2> QED
    BY <1>3, <2>2 DEF AesHostAt
<1>5. aesClient' = "none" => ~aes'.open
  BY DEF AesStart, AesOpenSession, AesReturn
<1> QED
  BY <1>2, <1>3, <1>4, <1>5 DEF AesInv

LEMMA AesEndKeeps == AesInv /\ AesEnd => AesInv'
<1> SUFFICES ASSUME AesInv, AesEnd
             PROVE  AesInv'
  OBVIOUS
<1>1. AesCore /\ aesClient' = "none" /\ aesArg' = aesArg /\ aesArg \in AesAlgo
  BY DEF AesInv, AesEnd
<1>2. CASE AesCloseSession
  <2> DEFINE s == [aes EXCEPT !.obj = Null]
             heap == Freed(aesHeap, aes.obj)
  <2>1. AesOwns(s, heap) /\ aes \in AesSessions
    BY <1>1, AesFreesObject DEF AesCore, AesOwns
  <2>2. s.op = aes.op
    BY <2>1 DEF AesSessions
  <2> HIDE DEF s, heap
  <2>3. AesOwns([s EXCEPT !.op = Null], Freed(heap, s.op))
    BY <2>1, AesFreesOperation
  <2>4. [s EXCEPT !.op = Null].op = Null /\ [s EXCEPT !.op = Null].obj = Null
    BY <2>1 DEF s, AesSessions
  <2>5. AesOwns(aes', aesHeap')
    <3>1. aesHeap' = Freed(heap, s.op) /\ aes' = AesClosed
      BY <1>2, <2>2 DEF AesCloseSession, heap
    <3>2. AesClosed \in AesSessions /\ AesClosed.op = Null /\ AesClosed.obj = Null
      BY AesClosedOwns DEF AesOwns, AesClosed
    <3> QED
      BY <2>3, <2>4, <3>1, <3>2 DEF AesOwns
  <2>6. AesCore' /\ ~aes'.open
    BY <1>1, <1>2, <2>5 DEF AesCloseSession, AesClosed, AesCore
  <2> QED
    BY <1>1, <2>6 DEF AesInv, AesHostAt
<1>3. CASE ~aes.open /\ AesUnchanged(aesRes)
  BY <1>1, <1>3 DEF AesUnchanged, AesReturn, AesCore, AesInv, AesHostAt
<1> QED
  BY <1>2, <1>3 DEF AesEnd

LEMMA InitAesInv == AesInit => AesInv
  BY AesClosedOwns DEF AesInit, AesInv, AesCore, AesClosed, AesAlgo, AesHostAt

LEMMA NextAesInv == AesInv /\ [AesNext]_aesVars => AesInv'
<1>1. AesInv /\ UNCHANGED aesVars => AesInv'
  BY DEF aesVars, AesInv, AesCore, AesHostAt, AesHalf
<1> QED
  BY <1>1, AesStartKeeps, AesHostStepKeeps, AesOtherStepKeeps, AesEndKeeps DEF AesNext

\* In every session of the AES TA, whatever commands its client calls and
\* whatever calls of the API fail: the handles, the key in use and the
\* host's progress are as AesInv says.
THEOREM AesInvariance == AesSpec => []AesInv
  BY InitAesInv, NextAesInv, PTL DEF AesSpec

\* No handle of alloc_resources, set_aes_key or the error path is lost,
\* dangling or freed twice, for any number of handles and of commands.
THEOREM AesHandlesSafety == AesSpec => []AesHandles
<1>1. AesInv => AesHandles
  <2> SUFFICES ASSUME AesInv
               PROVE  AesHandles
    OBVIOUS
  <2>1. AesCore
    BY DEF AesInv
  <2>2. \A h \in Handle : aesHeap[h] # Broken
    BY <2>1, AesDistinct, HandleAssumption DEF AesCore, AesOwns
  <2>3. Live(aesHeap) = {aes.op, aes.obj} \ {Null}
    <3>1. \A h \in Handle : h \in Live(aesHeap) <=> h \in {aes.op, aes.obj}
      BY <2>1, <2>2 DEF Live, AesCore, AesOwns
    <3>2. Live(aesHeap) \subseteq Handle /\ {aes.op, aes.obj} \ {Null} \subseteq Handle
      BY <2>1 DEF Live, AesCore, AesOwns, AesSessions
    <3> QED
      BY <3>1, <3>2, HandleAssumption
  <2> QED
    BY <2>1, <2>2, <2>3 DEF AesHandles, AesCore, AesOwns
<1> QED
  BY <1>1, AesInvariance, PTL

\* Data are never processed with a key other than the one the last
\* successful PREPARE or SET_KEY set: a refused key changes nothing.
THEOREM AesKeySafety == AesSpec => []AesKeyInUse
<1>1. AesInv => AesKeyInUse
  BY DEF AesInv, AesCore, AesKeyInUse, AesOperation
<1> QED
  BY <1>1, AesInvariance, PTL

\* The host program of either algorithm never makes the TA panic, and gets
\* its clear text back when every call succeeded.
THEOREM AesDecodes == AesSpec => []AesHostDecodes
<1>1. AesInv => AesHostDecodes
  BY AesHostLength DEF AesInv, AesHostAt, AesHostDecodes
<1> QED
  BY <1>1, AesInvariance, PTL

\* Each handle of the session is of its kind, and every field of its range.
THEOREM AesTypes == AesSpec => []AesTypeOK
<1>1. AesInv => AesTypeOK
  BY DEF AesInv, AesCore, AesOwns, AesSessions, AesTypeOK
<1> QED
  BY <1>1, AesInvariance, PTL

-----------------------------------------------------------------------------

(***************************************************************************)
(* ShaSession.  compute_digest loses handles, so a session does not name   *)
(* every handle in use: what it names is in use and of its kind.           *)
(***************************************************************************)
ShaSessions == [open : BOOLEAN, size : ShaSize \union {0}, op : Handle \union {Null},
                obj : Handle \union {Null}]

ShaValues == ShaOperations \union ShaObjects

ShaOwns(s, heap) ==
    /\ s \in ShaSessions
    /\ heap \in [Handle -> ShaValues \union {Unused}]
    /\ s.op # Null => heap[s.op] \in ShaOperations
    /\ s.obj # Null => heap[s.obj] \in ShaObjects

\* What the operation, the output and the last result are before each of the
\* host's commands: for a MAC, the same four calls twice.
ShaHostAt ==
    shaClient = "host" =>
        /\ shaArg.kind = "digest" => shaPc \in 1..2 /\ (shaPc = 2 => shaRes = "SUCCESS")
        /\ shaArg.kind = "mac" =>
              /\ shaPc \in 1..9
              /\ shaPc > 1 =>
                    /\ sha.op # Null /\ sha.obj # Null /\ sha.size = 64
                    /\ shaHeap[sha.op].kind = "mac"
              /\ shaPc \in {3, 4, 7, 8} => shaHeap[sha.op].key = HostMacKey
              /\ shaPc \in {4, 8} => shaHeap[sha.op].active /\ shaHeap[sha.op].data = <<>>
              /\ shaPc \in 5..8 =>
                    shaOut = [key |-> HostMacKey, data |-> <<shaArg.msg, shaArg.msg>>]
              /\ shaPc = 9 => shaRes = "SUCCESS"

ShaInv ==
    /\ ShaOwns(sha, shaHeap)
    /\ shaArg \in [kind : {"mac", "digest"}, msg : Message]
    /\ shaClient \in {"none", "host", "failed", "other"}
    /\ shaPc \in 1..9
    /\ ShaHostAt
    /\ shaClient \in {"host", "failed"} => shaRes # "TARGET_DEAD"

LEMMA ShaDistinct == \A v \in ShaValues : v # Unused /\ v # Broken
  BY ShaHandleValues DEF ShaValues

LEMMA ShaKinds ==
  \A v \in ShaValues : /\ v \in ShaOperations <=> v.kind \in {"mac", "digest"}
                       /\ v \in ShaObjects <=> v.kind = "key"
  BY DEF ShaValues, ShaOperations, ShaObjects

(***************************************************************************)
(* Freeing what a session names, and naming a handle that was free.        *)
(***************************************************************************)
LEMMA ShaFrees ==
  ASSUME NEW heap \in [Handle -> ShaValues \union {Unused}], NEW h \in Handle \union {Null},
         h # Null => heap[h] \in ShaValues
  PROVE  /\ Freed(heap, h) \in [Handle -> ShaValues \union {Unused}]
         /\ \A g \in Handle : Freed(heap, h)[g] = IF g = h THEN Unused ELSE heap[g]
<1>1. h # Null => heap[h] # Unused
  BY ShaDistinct
<1> QED
  BY <1>1, HandleAssumption DEF Freed

LEMMA ShaFreesOperation ==
  ASSUME NEW s, NEW heap, ShaOwns(s, heap)
  PROVE  ShaOwns([s EXCEPT !.op = Null], Freed(heap, s.op))
<1>1. /\ s.op \in Handle \union {Null} /\ s.obj \in Handle \union {Null}
      /\ s.op # Null => heap[s.op] \in ShaValues
  BY DEF ShaOwns, ShaSessions, ShaValues
<1>2. /\ Freed(heap, s.op) \in [Handle -> ShaValues \union {Unused}]
      /\ \A g \in Handle : Freed(heap, s.op)[g] = IF g = s.op THEN Unused ELSE heap[g]
  BY <1>1, ShaFrees DEF ShaOwns
<1>3. /\ [s EXCEPT !.op = Null] \in ShaSessions
      /\ [s EXCEPT !.op = Null].op = Null /\ [s EXCEPT !.op = Null].obj = s.obj
  BY DEF ShaOwns, ShaSessions
<1>4. s.obj # Null => s.obj # s.op
  BY DEF ShaOwns, ShaOperations, ShaObjects
<1> QED
  BY <1>1, <1>2, <1>3, <1>4 DEF ShaOwns

LEMMA ShaFreesObject ==
  ASSUME NEW s, NEW heap, ShaOwns(s, heap)
  PROVE  ShaOwns([s EXCEPT !.obj = Null], Freed(heap, s.obj))
<1>1. /\ s.op \in Handle \union {Null} /\ s.obj \in Handle \union {Null}
      /\ s.obj # Null => heap[s.obj] \in ShaValues
  BY DEF ShaOwns, ShaSessions, ShaValues
<1>2. /\ Freed(heap, s.obj) \in [Handle -> ShaValues \union {Unused}]
      /\ \A g \in Handle : Freed(heap, s.obj)[g] = IF g = s.obj THEN Unused ELSE heap[g]
  BY <1>1, ShaFrees DEF ShaOwns
<1>3. /\ [s EXCEPT !.obj = Null] \in ShaSessions
      /\ [s EXCEPT !.obj = Null].obj = Null /\ [s EXCEPT !.obj = Null].op = s.op
  BY DEF ShaOwns, ShaSessions
<1>4. s.op # Null => s.obj # s.op
  BY DEF ShaOwns, ShaOperations, ShaObjects
<1> QED
  BY <1>1, <1>2, <1>3, <1>4 DEF ShaOwns

LEMMA ShaReleases ==
  ASSUME NEW s, NEW heap, ShaOwns(s, heap)
  PROVE  ShaOwns([s EXCEPT !.op = Null, !.obj = Null], Freed(Freed(heap, s.op), s.obj))
<1> DEFINE t == [s EXCEPT !.op = Null]
<1>1. ShaOwns(t, Freed(heap, s.op))
  BY ShaFreesOperation
<1>2. t.obj = s.obj /\ [t EXCEPT !.obj = Null] = [s EXCEPT !.op = Null, !.obj = Null]
  BY DEF ShaOwns, ShaSessions
<1> HIDE DEF t
<1>3. ShaOwns([t EXCEPT !.obj = Null], Freed(Freed(heap, s.op), t.obj))
  BY <1>1, ShaFreesObject
<1> QED
  BY <1>2, <1>3

\* The handle allocated was free, so that the session named it nowhere.
LEMMA ShaFresh ==
  ASSUME NEW s, NEW heap, ShaOwns(s, heap), NEW h, h \in Fresh(heap)
  PROVE  /\ h \in Handle /\ h # Null
         /\ s.op # h /\ s.obj # h
         /\ s.op \in Handle \union {Null} /\ s.obj \in Handle \union {Null}
<1>1. h \in Handle /\ heap[h] = Unused /\ h # Null
  BY HandleAssumption DEF Fresh
<1>2. s.op # h /\ s.obj # h /\ s.op \in Handle \union {Null} /\ s.obj \in Handle \union {Null}
  BY <1>1, ShaDistinct DEF ShaOwns, ShaSessions, ShaValues
<1> QED
  BY <1>1, <1>2

LEMMA ShaAllocatesOperation ==
  ASSUME NEW s, NEW heap, ShaOwns(s, heap), NEW h, h \in Fresh(heap), NEW v \in ShaOperations
  PROVE  /\ ShaOwns([s EXCEPT !.op = h], [heap EXCEPT ![h] = v])
         /\ [heap EXCEPT ![h] = v][h] = v
<1> DEFINE t == [s EXCEPT !.op = h]
           new == [heap EXCEPT ![h] = v]
<1>1. h \in Handle /\ s.obj # h /\ s.obj \in Handle \union {Null} /\ v \in ShaValues
  BY ShaFresh DEF ShaValues
<1>2. t \in ShaSessions /\ t.op = h /\ t.obj = s.obj
  BY <1>1 DEF ShaOwns, ShaSessions
<1>3. /\ new \in [Handle -> ShaValues \union {Unused}]
      /\ \A g \in Handle : new[g] = IF g = h THEN v ELSE heap[g]
  BY <1>1 DEF ShaOwns
<1> HIDE DEF t, new
<1>4. ShaOwns(t, new) /\ new[h] = v
  BY <1>1, <1>2, <1>3 DEF ShaOwns
<1> QED
  BY <1>4 DEF t, new

LEMMA ShaAllocatesObject ==
  ASSUME NEW s, NEW heap, ShaOwns(s, heap), NEW h, h \in Fresh(heap), NEW v \in ShaObjects
  PROVE  /\ ShaOwns([s EXCEPT !.obj = h], [heap EXCEPT ![h] = v])
         /\ s.op # Null => [heap EXCEPT ![h] = v][s.op] = heap[s.op]
<1> DEFINE t == [s EXCEPT !.obj = h]
           new == [heap EXCEPT ![h] = v]
<1>1. h \in Handle /\ s.op # h /\ s.op \in Handle \union {Null} /\ v \in ShaValues
  BY ShaFresh DEF ShaValues
<1>2. t \in ShaSessions /\ t.op = s.op /\ t.obj = h
  BY <1>1 DEF ShaOwns, ShaSessions
<1>3. /\ new \in [Handle -> ShaValues \union {Unused}]
      /\ \A g \in Handle : new[g] = IF g = h THEN v ELSE heap[g]
  BY <1>1 DEF ShaOwns
<1> HIDE DEF t, new
<1>4. ShaOwns(t, new) /\ (s.op # Null => new[s.op] = heap[s.op])
  BY <1>1, <1>2, <1>3 DEF ShaOwns
<1> QED
  BY <1>4 DEF t, new

\* Every change of the operation in place.
LEMMA ShaOperationChanges ==
  ASSUME ShaOwns(sha, shaHeap), sha.op # Null, UNCHANGED sha, NEW oper \in ShaOperations,
         shaHeap' = [shaHeap EXCEPT ![sha.op] = oper]
  PROVE  ShaOwns(sha', shaHeap') /\ shaHeap'[sha.op] = oper
<1>1. sha.op \in Handle /\ sha.obj # sha.op /\ oper \in ShaValues
  BY DEF ShaOwns, ShaSessions, ShaOperations, ShaObjects, ShaValues
<1>2. /\ shaHeap' \in [Handle -> ShaValues \union {Unused}]
      /\ \A h \in Handle : shaHeap'[h] = IF h = sha.op THEN oper ELSE shaHeap[h]
  BY <1>1 DEF ShaOwns
<1> QED
  BY <1>1, <1>2 DEF ShaOwns, ShaSessions

LEMMA ShaReleased ==
  ASSUME NEW s, NEW heap, ShaOwns(s, heap), ShaRelease(s, heap)
  PROVE  ShaOwns(sha', shaHeap') /\ shaRes' = "OUT_OF_MEMORY" /\ UNCHANGED shaOut
  BY ShaReleases DEF ShaRelease, ShaReturn

LEMMA ShaClosedOwns == ShaOwns(ShaClosed, EmptyHeap)
  BY HandleAssumption DEF ShaClosed, ShaSessions, EmptyHeap, ShaOwns

LEMMA ShaPanicked ==
  ASSUME ShaPanic
  PROVE  ShaOwns(sha', shaHeap') /\ shaRes' = "TARGET_DEAD" /\ UNCHANGED shaOut
  BY ShaClosedOwns DEF ShaPanic, ShaReturn

(***************************************************************************)
(* One command each: the handles stay in order, and what a successful      *)
(* command leaves in the operation.                                        *)
(***************************************************************************)
LEMMA ShaUnchangedKeeps ==
  ASSUME NEW res, ShaUnchanged(res), ShaOwns(sha, shaHeap)
  PROVE  ShaOwns(sha', shaHeap') /\ shaRes' = res /\ UNCHANGED <<sha, shaHeap, shaOut>>
  BY DEF ShaUnchanged, ShaReturn

LEMMA compute_digestKeeps ==
  ASSUME ShaOwns(sha, shaHeap), compute_digest
  PROVE  ShaOwns(sha', shaHeap') /\ shaRes' # "TARGET_DEAD" /\ UNCHANGED shaOut
<1>1. CASE ShaUnchanged("OUT_OF_MEMORY")
  BY <1>1, ShaUnchangedKeeps
<1>2. ASSUME NEW h \in Fresh(shaHeap), NEW res \in {"SUCCESS", "SHORT_BUFFER"},
             shaHeap' = [shaHeap EXCEPT ![h] = DigestOperation],
             sha' = [sha EXCEPT !.op = h], ShaReturn(res)
      PROVE  ShaOwns(sha', shaHeap') /\ shaRes' # "TARGET_DEAD" /\ UNCHANGED shaOut
  <2>1. DigestOperation \in ShaOperations
    BY DEF DigestOperation, ShaOperations
  <2> QED
    BY <1>2, <2>1, ShaAllocatesOperation DEF ShaReturn
<1> QED
  BY <1>1, <1>2 DEF compute_digest

ShaPrepared(s) ==
    /\ sha'.op # Null /\ sha'.obj # Null /\ sha'.size = s
    /\ shaHeap'[sha'.op] = MacOperation(ZeroKey)

LEMMA ShaPrepares ==
  ASSUME ShaOwns(sha, shaHeap), NEW s \in ShaSize \union {0}, NEW fits, ShaPrepare(s, fits)
  PROVE  /\ ShaOwns(sha', shaHeap') /\ UNCHANGED shaOut
         /\ shaRes' = "TARGET_DEAD" => ~fits
         /\ shaRes' = "SUCCESS" => ShaPrepared(s)
<1> DEFINE heap1 == Freed(shaHeap, sha.op)
           sess  == [sha EXCEPT !.size = s, !.op = Null]
           oper  == MacOperation(ZeroKey)
           object == KeyObject(s, ZeroKey)
           heapM(h) == [heap1 EXCEPT ![h] = oper]
           heap2(h) == Freed(heapM(h), sha.obj)
           sess2(h) == [sess EXCEPT !.op = h, !.obj = Null]
           heap3(h, o) == [heap2(h) EXCEPT ![o] = object]
           ready(h, o) == [sess2(h) EXCEPT !.obj = o]
<1>1. \/ ShaUnchanged("BAD_PARAMETERS")
      \/ ShaRelease(sess, heap1)
      \/ /\ s \in ShaSize
         /\ \E h \in Fresh(heap1) :
               \/ ShaRelease(sess2(h), heap2(h))
               \/ \E o \in Fresh(heap2(h)) :
                     \/ ShaRelease(ready(h, o), heap3(h, o))
                     \/ ~fits /\ ShaPanic
                     \/ /\ shaHeap' = heap3(h, o)
                        /\ sha' = ready(h, o)
                        /\ ShaReturn("SUCCESS")
  BY Zenon DEF ShaPrepare
<1>2. sha \in ShaSessions
  BY DEF ShaOwns
<1>3. /\ sess \in ShaSessions /\ sess.op = Null /\ sess.obj = sha.obj /\ sess.size = s
      /\ [sha EXCEPT !.op = Null].obj = sha.obj
  BY <1>2 DEF ShaSessions
<1>4. ShaOwns(sess, heap1)
  <2>1. ShaOwns([sha EXCEPT !.op = Null], heap1)
    BY ShaFreesOperation
  <2> HIDE DEF sess, heap1
  <2> QED
    BY <1>3, <2>1 DEF ShaOwns
<1>5. oper \in ShaOperations
  BY DEF MacOperation, ShaOperations
<1> HIDE DEF sess, heap1, oper
<1>6. ASSUME NEW h \in Fresh(heap1)
      PROVE  /\ ShaOwns(sess2(h), heap2(h)) /\ heap2(h)[h] = oper
             /\ sess2(h).op = h /\ sess2(h).obj = Null /\ sess2(h).size = s
             /\ h # Null
  <2> DEFINE t == [sess EXCEPT !.op = h]
  <2>1. /\ ShaOwns(t, heapM(h)) /\ heapM(h)[h] = oper /\ h # Null /\ h \in Handle
    <3>1. h \in Handle /\ h # Null
      BY <1>4, <1>6, ShaFresh
    <3>2. ShaOwns(t, heapM(h)) /\ heapM(h)[h] = oper
      BY <1>4, <1>5, <1>6, ShaAllocatesOperation
    <3> QED
      BY <3>1, <3>2
  <2>2. /\ t.op = h /\ t.obj = sha.obj /\ t.size = s /\ [t EXCEPT !.obj = Null] = sess2(h)
        /\ sess2(h).op = h /\ sess2(h).obj = Null /\ sess2(h).size = s
    BY <1>3, <2>1 DEF ShaSessions
  <2> HIDE DEF t, heapM, sess2
  <2>3. ShaOwns(sess2(h), heap2(h))
    BY <2>1, <2>2, ShaFreesObject
  <2>4. /\ heapM(h) \in [Handle -> ShaValues \union {Unused}]
        /\ sha.obj \in Handle \union {Null} /\ sha.obj # h
        /\ sha.obj # Null => heapM(h)[sha.obj] \in ShaValues
    BY <1>5, <2>1, <2>2 DEF ShaOwns, ShaSessions, ShaValues, ShaOperations, ShaObjects
  <2>5. heap2(h)[h] = oper
    BY <2>1, <2>4, ShaFrees
  <2> QED
    BY <2>1, <2>2, <2>3, <2>5
<1>7. ASSUME s \in ShaSize, NEW h \in Fresh(heap1), NEW o \in Fresh(heap2(h))
      PROVE  /\ ShaOwns(ready(h, o), heap3(h, o)) /\ heap3(h, o)[h] = oper
             /\ ready(h, o).op = h /\ ready(h, o).obj = o /\ ready(h, o).size = s
             /\ h # Null /\ o # Null
  <2>1. object \in ShaObjects
    BY <1>7 DEF KeyObject, ShaObjects
  <2> HIDE DEF sess2, heap2, object
  <2>2. ShaOwns(sess2(h), heap2(h)) /\ heap2(h)[h] = oper /\ sess2(h).op = h /\ sess2(h).obj = Null
        /\ sess2(h).size = s /\ h # Null
    BY <1>6, <1>7
  <2>3. /\ ShaOwns(ready(h, o), heap3(h, o)) /\ o # Null
        /\ sess2(h).op # Null => heap3(h, o)[sess2(h).op] = heap2(h)[sess2(h).op]
    <3>1. o # Null
      BY <1>7, <2>2, ShaFresh
    <3>2. /\ ShaOwns(ready(h, o), heap3(h, o))
          /\ sess2(h).op # Null => heap3(h, o)[sess2(h).op] = heap2(h)[sess2(h).op]
      BY <1>7, <2>1, <2>2, ShaAllocatesObject
    <3> QED
      BY <3>1, <3>2
  <2>4. ready(h, o).op = h /\ ready(h, o).obj = o /\ ready(h, o).size = s
    BY <2>2 DEF ShaOwns, ShaSessions
  <2> HIDE DEF heap3, ready
  <2> QED
    BY <2>2, <2>3, <2>4
<1> HIDE DEF sess2, heap2, heap3, ready
<1>8. CASE ShaUnchanged("BAD_PARAMETERS")
  BY <1>8, ShaUnchangedKeeps
<1>9. CASE ShaRelease(sess, heap1)
  BY <1>4, <1>9, ShaReleased
<1>10. ASSUME NEW h \in Fresh(heap1), ShaRelease(sess2(h), heap2(h))
       PROVE  ShaOwns(sha', shaHeap') /\ shaRes' = "OUT_OF_MEMORY" /\ UNCHANGED shaOut
  BY <1>6, <1>10, ShaReleased
<1>11. ASSUME s \in ShaSize, NEW h \in Fresh(heap1), NEW o \in Fresh(heap2(h)),
              ShaRelease(ready(h, o), heap3(h, o))
       PROVE  ShaOwns(sha', shaHeap') /\ shaRes' = "OUT_OF_MEMORY" /\ UNCHANGED shaOut
  BY <1>7, <1>11, ShaReleased
<1>12. ASSUME s \in ShaSize, NEW h \in Fresh(heap1), NEW o \in Fresh(heap2(h)),
              shaHeap' = heap3(h, o), sha' = ready(h, o), ShaReturn("SUCCESS")
       PROVE  ShaOwns(sha', shaHeap') /\ shaRes' = "SUCCESS" /\ UNCHANGED shaOut /\ ShaPrepared(s)
  BY <1>7, <1>12 DEF ShaReturn, ShaPrepared, oper
<1>13. ASSUME ~fits, ShaPanic
       PROVE  ShaOwns(sha', shaHeap') /\ shaRes' = "TARGET_DEAD" /\ UNCHANGED shaOut
  BY <1>13, ShaPanicked
<1> QED
  BY <1>1, <1>8, <1>9, <1>10, <1>11, <1>12, <1>13

LEMMA ShaSetsKey ==
  ASSUME ShaOwns(sha, shaHeap), NEW k \in MacKey, NEW s, set_sha_key(k, s)
  PROVE  /\ ShaOwns(sha', shaHeap') /\ UNCHANGED shaOut
         /\ shaRes' = "TARGET_DEAD" => sha.op # Null /\ ShaOperation.kind = "digest"
         /\ shaRes' = "SUCCESS" => /\ UNCHANGED sha
                                   /\ shaHeap'[sha.op] = MacOperation(k)
<1>1. CASE ShaUnchanged("BAD_STATE")
  BY <1>1, ShaUnchangedKeeps
<1>2. CASE ShaUnchanged("BAD_PARAMETERS")
  BY <1>2, ShaUnchangedKeeps
<1>3. CASE sha.op # Null /\ ShaOperation.kind = "digest" /\ ShaPanic
  BY <1>3, ShaPanicked
<1>4. ASSUME sha.op # Null, sha.obj # Null
      PROVE  /\ sha.op \in Handle /\ sha.obj \in Handle /\ sha.op # sha.obj
             /\ shaHeap \in [Handle -> ShaValues \union {Unused}]
             /\ shaHeap[sha.obj] \in ShaObjects
  BY <1>4 DEF ShaOwns, ShaSessions, ShaOperations, ShaObjects
<1>5. ASSUME sha.op # Null, sha.obj # Null, UNCHANGED sha,
             NEW oper \in ShaOperations, NEW object \in ShaObjects,
             shaHeap' = [shaHeap EXCEPT ![sha.obj] = object, ![sha.op] = oper]
      PROVE  ShaOwns(sha', shaHeap') /\ shaHeap'[sha.op] = oper
  <2>1. oper \in ShaValues /\ object \in ShaValues
    BY DEF ShaValues
  <2>2. /\ shaHeap' \in [Handle -> ShaValues \union {Unused}]
        /\ shaHeap'[sha.op] = oper /\ shaHeap'[sha.obj] = object
    BY <1>4, <1>5, <2>1
  <2> QED
    BY <1>5, <2>2 DEF ShaOwns
<1>6. CASE /\ sha.op # Null /\ sha.obj # Null
           /\ shaHeap' = [shaHeap EXCEPT ![sha.obj].key = ZeroKey]
           /\ ShaReturn("BAD_PARAMETERS")
           /\ UNCHANGED sha
  <2> DEFINE object == [shaHeap[sha.obj] EXCEPT !.key = ZeroKey]
  <2>1. object \in ShaObjects
    BY <1>4, <1>6 DEF ShaObjects
  <2>2. shaHeap' = [shaHeap EXCEPT ![sha.obj] = object, ![sha.op] = shaHeap[sha.op]]
    BY <1>4, <1>6
  <2> HIDE DEF object
  <2>3. ShaOwns(sha', shaHeap')
    BY <1>5, <1>6, <2>1, <2>2 DEF ShaOwns
  <2> QED
    BY <1>6, <2>3 DEF ShaReturn
<1>7. CASE /\ sha.op # Null /\ sha.obj # Null
           /\ shaHeap' = [shaHeap EXCEPT ![sha.obj].key = k, ![sha.op] = MacOperation(k)]
           /\ ShaReturn("SUCCESS")
           /\ UNCHANGED sha
  <2> DEFINE object == [shaHeap[sha.obj] EXCEPT !.key = k]
  <2>1. object \in ShaObjects
    BY <1>4, <1>7 DEF ShaObjects
  <2>2. MacOperation(k) \in ShaOperations
    BY DEF MacOperation, ShaOperations
  <2>3. shaHeap' = [shaHeap EXCEPT ![sha.obj] = object, ![sha.op] = MacOperation(k)]
    BY <1>4, <1>7
  <2> HIDE DEF object
  <2>4. ShaOwns(sha', shaHeap') /\ shaHeap'[sha.op] = MacOperation(k)
    BY <1>5, <1>7, <2>1, <2>2, <2>3
  <2> QED
    BY <1>7, <2>4 DEF ShaReturn
<1> QED
  BY <1>1, <1>2, <1>3, <1>6, <1>7 DEF set_sha_key

LEMMA ShaSetsIV ==
  ASSUME ShaOwns(sha, shaHeap), reset_sha_iv
  PROVE  /\ ShaOwns(sha', shaHeap') /\ UNCHANGED shaOut
         /\ shaRes' = "TARGET_DEAD" => sha.op # Null /\ ShaOperation.kind = "digest"
         /\ shaRes' = "SUCCESS" =>
               /\ UNCHANGED sha
               /\ shaHeap'[sha.op] = [shaHeap[sha.op] EXCEPT !.active = TRUE, !.data = <<>>]
<1>1. CASE ShaUnchanged("BAD_STATE")
  BY <1>1, ShaUnchangedKeeps
<1>2. CASE sha.op # Null /\ ShaOperation.kind = "digest" /\ ShaPanic
  BY <1>2, ShaPanicked
<1>3. CASE /\ sha.op # Null
           /\ shaHeap' = [shaHeap EXCEPT ![sha.op].active = TRUE, ![sha.op].data = <<>>]
           /\ ShaReturn("SUCCESS")
           /\ UNCHANGED sha
  <2> DEFINE oper == [shaHeap[sha.op] EXCEPT !.active = TRUE, !.data = <<>>]
  <2>1. oper \in ShaOperations
    <3>1. shaHeap[sha.op] \in ShaOperations /\ <<>> \in Seq(Message)
      BY <1>3 DEF ShaOwns
    <3> QED
      BY <3>1 DEF ShaOperations
  <2>2. shaHeap' = [shaHeap EXCEPT ![sha.op] = oper]
    BY <1>3 DEF ShaOwns, ShaSessions
  <2> HIDE DEF oper
  <2>3. ShaOwns(sha', shaHeap') /\ shaHeap'[sha.op] = oper
    BY <1>3, <2>1, <2>2, ShaOperationChanges
  <2> QED
    BY <1>3, <2>3 DEF ShaReturn, oper
<1> QED
  BY <1>1, <1>2, <1>3 DEF reset_sha_iv

LEMMA FinishedOwns ==
  ASSUME ShaOwns(sha, shaHeap), sha.op # Null, UNCHANGED sha, shaHeap' = Finished
  PROVE  /\ ShaOwns(sha', shaHeap')
         /\ shaHeap'[sha.op].kind = shaHeap[sha.op].kind
         /\ shaHeap'[sha.op].key = shaHeap[sha.op].key
<1> DEFINE oper == [shaHeap[sha.op] EXCEPT !.active = FALSE, !.data = <<>>]
<1>1. /\ oper \in ShaOperations
      /\ oper.kind = shaHeap[sha.op].kind /\ oper.key = shaHeap[sha.op].key
  <2>1. shaHeap[sha.op] \in ShaOperations /\ <<>> \in Seq(Message)
    BY DEF ShaOwns
  <2> QED
    BY <2>1 DEF ShaOperations
<1>2. shaHeap' = [shaHeap EXCEPT ![sha.op] = oper]
  BY DEF Finished, ShaOwns, ShaSessions
<1> HIDE DEF oper
<1>3. ShaOwns(sha', shaHeap') /\ shaHeap'[sha.op] = oper
  BY <1>1, <1>2, ShaOperationChanges
<1> QED
  BY <1>1, <1>3

LEMMA ShaUpdates ==
  ASSUME ShaOwns(sha, shaHeap), NEW msg \in Message, sha_update_op(msg)
  PROVE  /\ ShaOwns(sha', shaHeap')
         /\ shaRes' = "TARGET_DEAD" => sha.op # Null /\ ~ShaOperation.active
         /\ shaRes' = "SUCCESS" =>
               /\ UNCHANGED sha
               /\ shaHeap'[sha.op].kind = shaHeap[sha.op].kind
               /\ shaHeap'[sha.op].key = shaHeap[sha.op].key
               /\ shaOut' = Mac(Absorbed(2, msg))
<1>1. CASE ShaUnchanged("BAD_STATE")
  BY <1>1, ShaUnchangedKeeps
<1>2. CASE ShaUnchanged("OUT_OF_MEMORY")
  BY <1>2, ShaUnchangedKeeps
<1>3. CASE sha.op # Null /\ ~ShaOperation.active /\ ShaPanic
  BY <1>3, ShaPanicked
<1>4. CASE /\ sha.op # Null /\ UNCHANGED sha
           /\ shaHeap' = Finished
           /\ shaRes' = "SUCCESS"
           /\ shaOut' = Mac(Absorbed(2, msg))
  BY <1>4, FinishedOwns
<1>5. CASE /\ sha.op # Null /\ UNCHANGED sha
           /\ shaHeap' = Keep(Absorbed(1, msg))
           /\ ShaReturn("SHORT_BUFFER")
  <2> DEFINE more == Absorbed(1, msg)
             oper == [shaHeap[sha.op] EXCEPT !.data = more]
  <2>1. shaHeap[sha.op] \in ShaOperations
    BY <1>5 DEF ShaOwns
  <2>2. more \in Seq(Message)
    <3>1. ShaOperation.data \in Seq(Message)
      BY <2>1 DEF ShaOperation, ShaOperations
    <3>2. [i \in 1..1 |-> msg] \in Seq(Message)
      OBVIOUS
    <3> QED
      BY <3>1, <3>2 DEF Absorbed
  <2> HIDE DEF more
  <2>3. oper \in ShaOperations
    BY <2>1, <2>2 DEF ShaOperations
  <2>4. shaHeap' = [shaHeap EXCEPT ![sha.op] = oper]
    BY <1>5 DEF ShaOwns, ShaSessions, Keep, more
  <2> HIDE DEF oper
  <2>5. ShaOwns(sha', shaHeap')
    BY <1>5, <2>3, <2>4, ShaOperationChanges
  <2> QED
    BY <1>5, <2>5 DEF ShaReturn
<1> QED
  BY <1>1, <1>2, <1>3, <1>4, <1>5 DEF sha_update_op

LEMMA ShaCompares ==
  ASSUME ShaOwns(sha, shaHeap), NEW msg, NEW mac, compare_hmac_sha_algo(msg, mac)
  PROVE  /\ ShaOwns(sha', shaHeap') /\ UNCHANGED shaOut
         /\ shaRes' = "TARGET_DEAD" => sha.op # Null /\ ~ShaOperation.active
         /\ sha.op # Null /\ ShaOperation.active =>
               /\ UNCHANGED sha
               /\ shaHeap'[sha.op].kind = shaHeap[sha.op].kind
               /\ mac = Mac(Absorbed(2, msg)) => shaRes' = "SUCCESS"
<1>1. CASE sha.op = Null /\ ShaUnchanged("BAD_STATE")
  BY <1>1, ShaUnchangedKeeps
<1>2. CASE sha.op # Null /\ ~ShaOperation.active /\ ShaPanic
  BY <1>2, ShaPanicked
<1>3. CASE /\ sha.op # Null /\ UNCHANGED sha
           /\ shaHeap' = Finished
           /\ ShaReturn(IF mac = Mac(Absorbed(2, msg)) THEN "SUCCESS" ELSE "MAC_INVALID")
  BY <1>3, FinishedOwns DEF ShaReturn
<1> QED
  BY <1>1, <1>2, <1>3 DEF compare_hmac_sha_algo

(***************************************************************************)
(* The host program.                                                       *)
(***************************************************************************)
LEMMA ShaHostCommands ==
  ASSUME shaArg \in [kind : {"mac", "digest"}, msg : Message]
  PROVE  /\ shaArg.kind = "digest" =>
               Len(ShaHostProgram) = 1 /\ ShaHostProgram[1] = host_compute_digest
         /\ shaArg.kind = "mac" =>
               /\ Len(ShaHostProgram) = 8
               /\ \A i \in {1, 5} : ShaHostProgram[i] = prepare_hmac_sha
               /\ \A i \in {2, 6} : ShaHostProgram[i] = sha_set_key
               /\ \A i \in {3, 7} : ShaHostProgram[i] = sha_set_iv
               /\ ShaHostProgram[4] = sha_update_ops
               /\ ShaHostProgram[8] = compare_hmac_sha
<1>1. CASE shaArg.kind = "digest"
  BY <1>1 DEF ShaHostProgram
<1>2. CASE shaArg.kind = "mac"
  <2>1. ShaHostProgram =
          <<prepare_hmac_sha, sha_set_key, sha_set_iv, sha_update_ops,
            prepare_hmac_sha, sha_set_key, sha_set_iv, compare_hmac_sha>>
    BY <1>2 DEF ShaHostProgram
  <2> HIDE DEF ShaHostProgram
  <2> QED
    BY <1>2, <2>1
<1> QED
  BY <1>1, <1>2

\* What the host finds after a command that lets it go on.
ShaHostNext ==
    /\ ShaOwns(sha', shaHeap')
    /\ shaRes' # "TARGET_DEAD"
    /\ shaRes' = "SUCCESS" =>
          /\ sha'.op # Null /\ sha'.obj # Null /\ sha'.size = 64
          /\ shaHeap'[sha'.op].kind = "mac"
          /\ shaPc \in {2, 3, 6, 7} => shaHeap'[sha'.op].key = HostMacKey
          /\ shaPc \in {3, 7} => shaHeap'[sha'.op].active /\ shaHeap'[sha'.op].data = <<>>
          /\ shaPc = 4 => shaOut' = [key |-> HostMacKey, data |-> <<shaArg.msg, shaArg.msg>>]
    /\ shaPc # 4 => UNCHANGED shaOut
    /\ shaPc = 8 => shaRes' = "SUCCESS"

LEMMA ShaHostMac ==
  ASSUME ShaInv, shaClient = "host", shaArg.kind = "mac", shaPc <= 8,
         ShaInvokeCommand(ShaHostProgram[shaPc])
  PROVE  ShaHostNext
<1> DEFINE c == ShaHostProgram[shaPc]
<1>1. /\ ShaOwns(sha, shaHeap) /\ shaArg.msg \in Message /\ shaPc \in 1..8
      /\ shaPc > 1 =>
            /\ sha.op # Null /\ sha.obj # Null /\ sha.size = 64
            /\ shaHeap[sha.op].kind = "mac"
      /\ shaPc \in {4, 8} => shaHeap[sha.op].active /\ shaHeap[sha.op].data = <<>>
      /\ shaPc \in {4, 8} => shaHeap[sha.op].key = HostMacKey
      /\ shaPc = 8 => shaOut = [key |-> HostMacKey, data |-> <<shaArg.msg, shaArg.msg>>]
  BY DEF ShaInv, ShaHostAt
<1>2. /\ shaPc \in {1, 5} => c = prepare_hmac_sha
      /\ shaPc \in {2, 6} => c = sha_set_key
      /\ shaPc \in {3, 7} => c = sha_set_iv
      /\ shaPc = 4 => c = sha_update_ops
      /\ shaPc = 8 => c = compare_hmac_sha
  BY ShaHostCommands DEF ShaInv
<1> HIDE DEF c
<1>3. ShaInvokeCommand(c)
  BY DEF c
<1>4. shaPc \in {1, 5} \/ shaPc \in {2, 6} \/ shaPc \in {3, 7} \/ shaPc = 4 \/ shaPc = 8
  BY <1>1
<1>5. CASE shaPc \in {1, 5}
  <2>1. c.cmd = "PREPARE" /\ c.size = 64 /\ c.fits
    BY <1>2, <1>5 DEF prepare_hmac_sha
  <2>2. ShaPrepare(c.size, c.fits) /\ c.size \in ShaSize
    BY <1>3, <2>1 DEF ShaInvokeCommand, ShaSize
  <2>3. /\ ShaOwns(sha', shaHeap') /\ UNCHANGED shaOut
        /\ shaRes' = "TARGET_DEAD" => ~c.fits
        /\ shaRes' = "SUCCESS" => ShaPrepared(c.size)
    BY <1>1, <2>2, ShaPrepares
  <2> QED
    BY <1>5, <2>1, <2>3 DEF ShaHostNext, ShaPrepared, MacOperation
<1>6. CASE shaPc \in {2, 6}
  <2>1. set_sha_key(HostMacKey, 64) /\ HostMacKey \in MacKey
    BY <1>2, <1>3, <1>6, ShaConstants DEF ShaInvokeCommand, sha_set_key
  <2>2. /\ ShaOwns(sha', shaHeap') /\ UNCHANGED shaOut
        /\ shaRes' = "TARGET_DEAD" => sha.op # Null /\ ShaOperation.kind = "digest"
        /\ shaRes' = "SUCCESS" => /\ UNCHANGED sha
                                  /\ shaHeap'[sha.op] = MacOperation(HostMacKey)
    BY <1>1, <2>1, ShaSetsKey
  <2>3. shaRes' # "TARGET_DEAD"
    BY <1>1, <1>6, <2>2 DEF ShaOperation
  <2> QED
    BY <1>1, <1>6, <2>2, <2>3 DEF ShaHostNext, MacOperation
<1>7. CASE shaPc \in {3, 7}
  <2>1. reset_sha_iv
    BY <1>2, <1>3, <1>7 DEF ShaInvokeCommand, sha_set_iv
  <2>2. /\ ShaOwns(sha', shaHeap') /\ UNCHANGED shaOut
        /\ shaRes' = "TARGET_DEAD" => sha.op # Null /\ ShaOperation.kind = "digest"
        /\ shaRes' = "SUCCESS" =>
               /\ UNCHANGED sha
               /\ shaHeap'[sha.op] = [shaHeap[sha.op] EXCEPT !.active = TRUE, !.data = <<>>]
    BY <1>1, <2>1, ShaSetsIV
  <2>3. shaRes' # "TARGET_DEAD"
    BY <1>1, <1>7, <2>2 DEF ShaOperation
  <2>4. shaHeap[sha.op].key = HostMacKey /\ shaHeap[sha.op] \in ShaOperations
    BY <1>1, <1>7 DEF ShaInv, ShaHostAt, ShaOwns
  <2>5. shaRes' = "SUCCESS" =>
            /\ shaHeap'[sha.op].kind = "mac" /\ shaHeap'[sha.op].key = HostMacKey
            /\ shaHeap'[sha.op].active /\ shaHeap'[sha.op].data = <<>>
    <3> DEFINE oper == [shaHeap[sha.op] EXCEPT !.active = TRUE, !.data = <<>>]
    <3>1. oper.kind = "mac" /\ oper.key = HostMacKey /\ oper.active /\ oper.data = <<>>
      BY <1>1, <1>7, <2>4 DEF ShaOperations
    <3> HIDE DEF oper
    <3>2. shaRes' = "SUCCESS" => shaHeap'[sha.op] = oper
      BY <2>2 DEF oper
    <3> QED
      BY <3>1, <3>2
  <2> QED
    BY <1>1, <1>7, <2>2, <2>3, <2>5 DEF ShaHostNext
<1>8. ASSUME shaPc \in {4, 8}
      PROVE  /\ ShaOperation.active
             /\ Mac(Absorbed(2, shaArg.msg)) =
                    [key |-> HostMacKey, data |-> <<shaArg.msg, shaArg.msg>>]
  <2>1. <<>> \o [i \in 1..2 |-> shaArg.msg] = <<shaArg.msg, shaArg.msg>>
    OBVIOUS
  <2> QED
    BY <1>1, <1>8, <2>1 DEF ShaOperation, Mac, Absorbed
<1>9. CASE shaPc = 4
  <2>1. sha_update_op(shaArg.msg)
    BY <1>2, <1>3, <1>9 DEF ShaInvokeCommand, sha_update_ops
  <2>2. /\ ShaOwns(sha', shaHeap')
        /\ shaRes' = "TARGET_DEAD" => sha.op # Null /\ ~ShaOperation.active
        /\ shaRes' = "SUCCESS" =>
               /\ UNCHANGED sha
               /\ shaHeap'[sha.op].kind = shaHeap[sha.op].kind
               /\ shaOut' = Mac(Absorbed(2, shaArg.msg))
    BY <1>1, <2>1, ShaUpdates
  <2> QED
    BY <1>1, <1>8, <1>9, <2>2 DEF ShaHostNext
<1>10. CASE shaPc = 8
  <2>1. compare_hmac_sha_algo(shaArg.msg, shaOut)
    BY <1>2, <1>3, <1>10 DEF ShaInvokeCommand, compare_hmac_sha
  <2>2. ShaOperation.active /\ shaOut = Mac(Absorbed(2, shaArg.msg)) /\ sha.op # Null
    BY <1>1, <1>8, <1>10
  <2>3. /\ ShaOwns(sha', shaHeap') /\ UNCHANGED shaOut /\ UNCHANGED sha
        /\ shaHeap'[sha.op].kind = shaHeap[sha.op].kind
        /\ shaRes' = "SUCCESS"
    BY <1>1, <2>1, <2>2, ShaCompares
  <2> QED
    BY <1>1, <1>10, <2>3 DEF ShaHostNext
<1> QED
  BY <1>4, <1>5, <1>6, <1>7, <1>9, <1>10

LEMMA ShaHostStepKeeps == ShaInv /\ ShaHostStep => ShaInv'
<1> SUFFICES ASSUME ShaInv, ShaHostStep
             PROVE  ShaInv'
  OBVIOUS
<1>1. /\ shaClient = "host" /\ UNCHANGED shaArg
      /\ shaArg \in [kind : {"mac", "digest"}, msg : Message]
      /\ shaPc <= Len(ShaHostProgram) /\ ShaInvokeCommand(ShaHostProgram[shaPc])
  BY DEF ShaInv, ShaHostStep
<1>2. CASE shaArg.kind = "digest"
  <2>1. shaPc = 1 /\ ShaHostProgram[1] = host_compute_digest
    <3>1. Len(ShaHostProgram) = 1 /\ ShaHostProgram[1] = host_compute_digest
      BY <1>1, <1>2, ShaHostCommands
    <3>2. shaPc \in 1..9
      BY DEF ShaInv
    <3> QED
      BY <1>1, <3>1, <3>2
  <2>2. compute_digest
    BY <1>1, <2>1 DEF ShaInvokeCommand, host_compute_digest
  <2>3. ShaOwns(sha', shaHeap') /\ shaRes' # "TARGET_DEAD"
    BY <2>2, compute_digestKeeps DEF ShaInv
  <2>4. \/ shaRes' = "SUCCESS" /\ shaPc' = 2 /\ shaClient' = "host"
        \/ shaClient' = "failed" /\ shaPc' = 1
    BY <1>1, <2>1 DEF ShaHostStep, host_compute_digest
  <2> QED
    BY <1>1, <1>2, <2>3, <2>4 DEF ShaInv, ShaHostAt
<1>3. CASE shaArg.kind = "mac"
  <2>1. shaPc \in 1..8 /\ ShaHostNext
    <3>1. Len(ShaHostProgram) = 8
      BY <1>1, <1>3, ShaHostCommands
    <3>2. shaPc \in 1..9
      BY DEF ShaInv
    <3>3. shaPc \in 1..8
      BY <1>1, <3>1, <3>2
    <3> QED
      BY <1>1, <1>3, <3>3, ShaHostMac
  <2>2. \/ shaRes' = "SUCCESS" /\ shaPc' = shaPc + 1 /\ shaClient' = "host"
        \/ shaClient' = "failed" /\ shaPc' = shaPc
    <3>1. CASE shaPc = 8
      BY <1>1, <2>1, <3>1 DEF ShaHostNext, ShaHostStep
    <3>2. CASE shaPc # 8
      <4>1. ShaHostProgram[shaPc].cmd # "COMPARE_MAC"
        <5>1. shaPc \in {1, 5} \/ shaPc \in {2, 6} \/ shaPc \in {3, 7} \/ shaPc = 4
          BY <2>1, <3>2
        <5> QED
          BY <1>1, <1>3, <5>1, ShaHostCommands
            DEF prepare_hmac_sha, sha_set_key, sha_set_iv, sha_update_ops
      <4> QED
        BY <1>1, <4>1 DEF ShaHostStep
    <3> QED
      BY <3>1, <3>2
  <2>3. CASE shaClient' = "failed" /\ shaPc' = shaPc
    BY <1>1, <2>1, <2>3 DEF ShaInv, ShaHostAt, ShaHostNext
  <2>4. CASE shaRes' = "SUCCESS" /\ shaPc' = shaPc + 1 /\ shaClient' = "host"
    <3>1. /\ shaPc' \in {3, 4, 7, 8} => shaPc \in {2, 3, 6, 7}
          /\ shaPc' \in {4, 8} => shaPc \in {3, 7}
          /\ shaPc' \in 5..8 => shaPc = 4 \/ (shaPc # 4 /\ shaPc \in 5..8)
          /\ shaPc' \in 1..9
      BY <2>1, <2>4
    <3>2. shaPc \in 5..8 => shaOut = [key |-> HostMacKey, data |-> <<shaArg.msg, shaArg.msg>>]
      BY <1>1, <1>3 DEF ShaInv, ShaHostAt
    <3>3. ShaHostAt'
      BY <1>1, <1>3, <2>1, <2>4, <3>1, <3>2 DEF ShaHostAt, ShaHostNext
    <3> QED
      BY <1>1, <2>1, <2>4, <3>1, <3>3 DEF ShaInv, ShaHostNext
  <2> QED
    BY <2>2, <2>3, <2>4
<1> QED
  BY <1>1, <1>2, <1>3

LEMMA ShaOtherStepKeeps == ShaInv /\ ShaOtherStep => ShaInv'
<1> SUFFICES ASSUME ShaInv, shaClient = "other", NEW c \in ShaCommand, ShaInvokeCommand(c),
                    UNCHANGED <<shaClient, shaPc, shaArg>>
             PROVE  ShaInv'
  BY DEF ShaOtherStep
<1>1. ShaOwns(sha, shaHeap)
  BY DEF ShaInv
<1>2. CASE c.cmd = "PREPARE" /\ ShaPrepare(c.size, c.fits)
  <2>1. c.size \in ShaSize \union {0}
    BY <1>2 DEF ShaCommand
  <2> QED
    BY <1>1, <1>2, <2>1, ShaPrepares DEF ShaInv, ShaHostAt
<1>3. CASE c.cmd = "SET_KEY" /\ set_sha_key(c.key, c.size)
  <2>1. c.key \in MacKey
    BY <1>3 DEF ShaCommand
  <2> QED
    BY <1>1, <1>3, <2>1, ShaSetsKey DEF ShaInv, ShaHostAt
<1>4. CASE reset_sha_iv
  BY <1>1, <1>4, ShaSetsIV DEF ShaInv, ShaHostAt
<1>5. CASE c.cmd = "COMPUTE_MAC" /\ sha_update_op(c.msg)
  <2>1. c.msg \in Message
    BY <1>5 DEF ShaCommand
  <2> QED
    BY <1>1, <1>5, <2>1, ShaUpdates DEF ShaInv, ShaHostAt
<1>6. CASE compare_hmac_sha_algo(c.msg, c.mac)
  BY <1>1, <1>6, ShaCompares DEF ShaInv, ShaHostAt
<1>7. CASE compute_digest
  BY <1>1, <1>7, compute_digestKeeps DEF ShaInv, ShaHostAt
<1>8. CASE ShaUnchanged("NOT_SUPPORTED")
  BY <1>1, <1>8, ShaUnchangedKeeps DEF ShaInv, ShaHostAt
<1> QED
  BY <1>2, <1>3, <1>4, <1>5, <1>6, <1>7, <1>8 DEF ShaInvokeCommand

LEMMA ShaStartKeeps == ShaInv /\ ShaStart => ShaInv'
<1> SUFFICES ASSUME ShaInv, ShaStart
             PROVE  ShaInv'
  OBVIOUS
<1>1. ShaOwns(sha', shaHeap')
  <2>1. CASE UNCHANGED <<sha, shaHeap>>
    BY <2>1 DEF ShaInv
  <2>2. CASE sha' = [ShaClosed EXCEPT !.open = TRUE] /\ UNCHANGED shaHeap
    BY <2>2 DEF ShaInv, ShaOwns, ShaClosed, ShaSessions
  <2> QED
    BY <2>1, <2>2 DEF ShaStart, ShaOpenSession
<1>2. /\ shaPc' = 1 /\ shaRes' # "TARGET_DEAD"
      /\ shaArg' \in [kind : {"mac", "digest"}, msg : Message]
      /\ shaClient' \in {"none", "host", "other"}
  BY DEF ShaStart, ShaOpenSession, ShaReturn
<1> QED
  BY <1>1, <1>2 DEF ShaInv, ShaHostAt

LEMMA ShaEndKeeps == ShaInv /\ ShaEnd => ShaInv'
<1> SUFFICES ASSUME ShaInv, ShaEnd
             PROVE  ShaInv'
  OBVIOUS
<1>1. ShaOwns(sha', shaHeap')
  <2>1. CASE ShaCloseSession
    BY <2>1, ShaClosedOwns DEF ShaCloseSession
  <2>2. CASE ShaUnchanged(shaRes)
    BY <2>2, ShaUnchangedKeeps DEF ShaInv
  <2> QED
    BY <2>1, <2>2 DEF ShaEnd
<1> QED
  BY <1>1 DEF ShaEnd, ShaInv, ShaHostAt

LEMMA InitShaInv == ShaInit => ShaInv
  BY ShaClosedOwns DEF ShaInit, ShaInv, ShaHostAt

LEMMA NextShaInv == ShaInv /\ [ShaNext]_shaVars => ShaInv'
<1>1. ShaInv /\ UNCHANGED shaVars => ShaInv'
  BY DEF shaVars, ShaInv, ShaHostAt
<1> QED
  BY <1>1, ShaStartKeeps, ShaHostStepKeeps, ShaOtherStepKeeps, ShaEndKeeps DEF ShaNext

\* In every session of the SHA TA, whatever commands its client calls and
\* whatever calls of the API fail, ShaInv holds.
THEOREM ShaInvariance == ShaSpec => []ShaInv
  BY InitShaInv, NextShaInv, PTL DEF ShaSpec

\* The context never names a handle that was freed, or frees one twice, not
\* even after compute_digest has lost one.
THEOREM ShaHandlesSafety == ShaSpec => []ShaHandles
<1>1. ShaInv => ShaHandles
  <2> SUFFICES ASSUME ShaInv
               PROVE  ShaHandles
    OBVIOUS
  <2>1. /\ ShaOwns(sha, shaHeap)
        /\ sha.op \in Handle \union {Null} /\ sha.obj \in Handle \union {Null}
    BY DEF ShaInv, ShaOwns, ShaSessions
  <2>2. \A h \in Handle : shaHeap[h] # Broken
    BY <2>1, ShaDistinct, HandleAssumption DEF ShaOwns
  <2>3. sha.op # Null => sha.op \in Live(shaHeap) /\ ShaOperation.kind \in {"mac", "digest"}
    BY <2>1, ShaDistinct DEF ShaOwns, Live, ShaOperation, ShaValues, ShaOperations
  <2>4. sha.obj # Null => sha.obj \in Live(shaHeap) /\ shaHeap[sha.obj].kind = "key"
    BY <2>1, ShaDistinct DEF ShaOwns, Live, ShaValues, ShaObjects
  <2> QED
    BY <2>2, <2>3, <2>4 DEF ShaHandles
<1> QED
  BY <1>1, ShaInvariance, PTL

\* The host program of either algorithm never makes the TA panic, and the
\* MAC it computed matches when every call succeeded: the two absorptions of
\* sha_update_op and of compare_hmac_sha_algo agree.
THEOREM ShaMatches == ShaSpec => []ShaHostMatches
<1>1. ShaInv => ShaHostMatches
  <2> SUFFICES ASSUME ShaInv
               PROVE  ShaHostMatches
    OBVIOUS
  <2>1. ASSUME shaClient = "host", shaPc > Len(ShaHostProgram)
        PROVE  shaRes = "SUCCESS"
    <3>1. /\ shaArg \in [kind : {"mac", "digest"}, msg : Message]
          /\ shaPc \in 1..9 /\ ShaHostAt
      BY DEF ShaInv
    <3>2. CASE shaArg.kind = "digest"
      <4>1. Len(ShaHostProgram) = 1
        BY <3>1, <3>2, ShaHostCommands
      <4> QED
        BY <2>1, <3>1, <3>2, <4>1 DEF ShaHostAt
    <3>3. CASE shaArg.kind = "mac"
      <4>1. Len(ShaHostProgram) = 8
        BY <3>1, <3>3, ShaHostCommands
      <4> QED
        BY <2>1, <3>1, <3>3, <4>1 DEF ShaHostAt
    <3> QED
      BY <3>1, <3>2, <3>3
  <2> QED
    BY <2>1 DEF ShaInv, ShaHostMatches
<1> QED
  BY <1>1, ShaInvariance, PTL

\* The session, its client and the host's place keep their types.
THEOREM ShaTypes == ShaSpec => []ShaTypeOK
<1>1. ShaInv => ShaTypeOK
  BY DEF ShaInv, ShaOwns, ShaSessions, ShaTypeOK
<1> QED
  BY <1>1, ShaInvariance, PTL

-----------------------------------------------------------------------------

(***************************************************************************)
(* Nizkp.  The equation of a Schnorr proof.                                *)
(***************************************************************************)
LEMMA Completes ==
  ASSUME NEW n \in Nat, n > 1, NEW r \in 1..(n - 1), NEW x \in Int, NEW c \in Int
  PROVE  (((c * x + r) % n) + x * ((-c) % n)) % n = r
<1> DEFINE z == (c * x + r) % n
           m == (-c) % n
           q1 == (c * x + r) \div n
           q2 == (-c) \div n
<1>1. c * x + r \in Int /\ -c \in Int
  OBVIOUS
<1>2. z \in Int /\ q1 \in Int /\ c * x + r = n * q1 + z
  BY <1>1, DivMod
<1>3. m \in Int /\ q2 \in Int /\ -c = n * q2 + m
  BY <1>1, DivMod
<1> HIDE DEF z, m, q1, q2
<1>4. z + x * m = n * (0 - q1 - x * q2) + r
  <2>1. z = c * x + r - n * q1
    BY <1>2
  <2>2. x * m = x * (0 - c - n * q2)
    BY <1>3
  <2>3. x * (0 - c - n * q2) = 0 - c * x - n * (x * q2)
    BY <1>3, Z3
  <2> QED
    BY <1>2, <1>3, <2>1, <2>2, <2>3, Z3
<1>5. z + x * m \in Int /\ 0 - q1 - x * q2 \in Int
  BY <1>2, <1>3
<1>6. (z + x * m) % n = r
  <2> DEFINE a == z + x * m
             q == 0 - q1 - x * q2
  <2>1. a \in Int /\ q \in Int /\ a = n * q + r
    BY <1>4, <1>5
  <2>2. r \in 0..(n - 1)
    OBVIOUS
  <2> HIDE DEF a, q
  <2>3. a % n = r
    BY <2>1, <2>2, ModUnique
  <2> QED
    BY <2>3 DEF a
<1> QED
  BY <1>6 DEF z, m
(***************************************************************************)
(* What is written whole is read as it was written.                        *)
(***************************************************************************)
LEMMA WholeRead ==
  ASSUME NEW v, Digits(v) = Width
  PROVE  Read(v, Width) = {v}
  BY NizkpConstants DEF Read

LEMMA WholeShared ==
  ASSUME NEW vs, NEW s \in ReadShared(vs), Len(vs) \in Nat, \A i \in 1..Len(vs) : Whole(vs[i])
  PROVE  /\ DOMAIN s = 1..Len(vs)
         /\ \A i \in 1..Len(vs) : s[i] = vs[i]
<1> DEFINE may(i) == Read(vs[i], IF i = 1 THEN Width ELSE Digits(vs[i - 1]))
<1>1. /\ DOMAIN s = 1..Len(vs)
      /\ \A i \in 1..Len(vs) : s[i] \in may(i)
  BY DEF ReadShared
<1>2. ASSUME NEW i \in 1..Len(vs)
      PROVE  may(i) = {vs[i]}
  <2>1. Digits(vs[i]) = Width /\ (i # 1 => Digits(vs[i - 1]) = Width)
    BY DEF Whole
  <2> QED
    BY <2>1, WholeRead
<1> HIDE DEF may
<1> QED
  BY <1>1, <1>2

\* The draws of a run.
Draws == [r1 : Scalar, r2 : Scalar, hash : Number]

LEMMA Integral ==
  /\ Order \in Nat /\ Order > 1 /\ private_x1 \in Int /\ private_x2 \in Int
  /\ \A d \in Draws : d.r1 \in 1..(Order - 1) /\ d.r2 \in 1..(Order - 1) /\ d.hash \in Int
                      /\ d.hash >= 0
  BY NizkpConstants DEF Draws, Number, Scalar

LEMMA Commits ==
  ASSUME NEW r \in Scalar, NEW c \in Int, NEW x \in Int
  PROVE  /\ Commitment(Response(c, x, r), c, x) = r
         /\ Coordinates(r) = <<XCoord[r], YCoord[r]>>
<1>1. r \in 1..(Order - 1)
  BY DEF Scalar
<1>2. (((c * x + r) % Order) + x * ((-c) % Order)) % Order = r
  BY <1>1, Integral, Completes
<1> QED
  BY <1>2 DEF Commitment, Response, Coordinates

(***************************************************************************)
(* A line of the host program is one its mode may print for the draws, and *)
(* the verdict is that of the server on this line.                         *)
(***************************************************************************)
Verdict(p) ==
    IF nizkpMode = "classic"
    THEN IF ~OnCurve(p.u) THEN "ERROR"
         ELSE IF verify_izkp_geometry(p.u, p.z[1], p.c[1]) THEN "SUCCESS" ELSE "FAILED"
    ELSE IF verify_multi_attribute_nizkp(p, nizkpDraw.hash) THEN "SUCCESS" ELSE "FAILED"

NizkpInv ==
    /\ nizkpPc \in {"start", "invoke", "sent", "done"}
    /\ nizkpDraw \in Draws \union {NoDraw}
    /\ nizkpPc \in {"invoke", "sent"} => nizkpDraw \in Draws
    /\ nizkpPc = "sent" => nizkpPacket \in host_main(nizkpMode, nizkpDraw)
    /\ nizkpPc = "done" /\ nizkpPacket # NoPacket =>
          /\ nizkpDraw \in Draws
          /\ nizkpPacket \in host_main(nizkpMode, nizkpDraw)
          /\ nizkpVerdict = Verdict(nizkpPacket)

LEMMA InitNizkpInv == NizkpInit => NizkpInv
  BY DEF NizkpInit, NizkpInv

LEMMA NextNizkpInv == NizkpInv /\ [NizkpNext]_nizkpVars => NizkpInv'
<1> SUFFICES ASSUME NizkpInv, [NizkpNext]_nizkpVars PROVE NizkpInv'
  OBVIOUS
<1>1. CASE UNCHANGED nizkpVars
  BY <1>1 DEF nizkpVars, NizkpInv, Verdict, verify_multi_attribute_nizkp
<1>2. CASE NizkpStart
  BY <1>2 DEF NizkpStart, NizkpInv, Draws
<1>3. CASE NizkpExit
  BY <1>3 DEF NizkpExit, NizkpInv
<1>4. CASE execute_nizkp
  <2>1. CASE \E why \in {"host failed", "malformed"} : NizkpEnd(why)
    BY <2>1 DEF NizkpEnd, NizkpInv
  <2>2. CASE /\ nizkpPacket' \in host_main(nizkpMode, nizkpDraw)
             /\ nizkpPc' = "sent"
             /\ UNCHANGED <<nizkpDraw, nizkpVerdict>>
    BY <1>4, <2>2 DEF execute_nizkp, NizkpInv
  <2> QED
    BY <1>4, <2>1, <2>2 DEF execute_nizkp
<1>5. CASE handle_client_data
  BY <1>5 DEF handle_client_data, NizkpInv, Verdict, verify_multi_attribute_nizkp
<1> QED
  BY <1>1, <1>2, <1>3, <1>4, <1>5 DEF NizkpNext

\* What the line of a whole proof holds.
LEMMA ClassicLine ==
  ASSUME NEW d \in Draws, NEW p \in schnorr_sFS(d),
         \A v \in {XCoord[d.r1], YCoord[d.r1], d.r1, Response(d.hash, private_x1, d.r1)} : Whole(v)
  PROVE  p = Packet(<<XCoord[d.r1], YCoord[d.r1]>>, <<Response(d.hash, private_x1, d.r1)>>,
                    <<d.hash>>)
<1> DEFINE at == Attributes(d.r1)
           zs == <<Response(d.hash, private_x1, d.r1)>>
<1>1. PICK a \in ReadShared(at) :
         \E z \in ReadShared(<<Response(d.hash, private_x1, a[3])>>) :
            p = Packet(<<a[1], a[2]>>, <<z[1]>>, <<d.hash>>)
  BY DEF schnorr_sFS
<1>2. /\ Len(at) = 3 /\ at[1] = XCoord[d.r1] /\ at[2] = YCoord[d.r1] /\ at[3] = d.r1
  BY DEF Attributes
<1>3. zs[1] = Response(d.hash, private_x1, d.r1) /\ Len(zs) = 1
  OBVIOUS
<1>4. (\A i \in 1..3 : Whole(at[i])) /\ Whole(zs[1])
  BY <1>2, <1>3
<1> HIDE DEF at
<1>5. a[1] = XCoord[d.r1] /\ a[2] = YCoord[d.r1] /\ a[3] = d.r1
  BY <1>2, <1>4, WholeShared
<1>6. PICK z \in ReadShared(zs) : p = Packet(<<a[1], a[2]>>, <<z[1]>>, <<d.hash>>)
  BY <1>1, <1>5
<1> HIDE DEF zs
<1>7. z[1] = zs[1]
  BY <1>3, <1>4, WholeShared
<1> QED
  BY <1>3, <1>5, <1>6, <1>7

LEMMA AndLine ==
  ASSUME NEW d \in Draws, NEW p \in MultiAnd(d),
         \A v \in {XCoord[d.r1], YCoord[d.r1], d.r1, XCoord[d.r2], YCoord[d.r2], d.r2,
                   Response(d.hash, private_x1, d.r1), Response(d.hash, private_x2, d.r2)} :
             Whole(v)
  PROVE  p = Packet(<<XCoord[d.r1], YCoord[d.r1], XCoord[d.r2], YCoord[d.r2]>>,
                    <<Response(d.hash, private_x1, d.r1), Response(d.hash, private_x2, d.r2)>>,
                    <<d.hash, d.hash>>)
<1> DEFINE at == Attributes(d.r1)
           bt == Attributes(d.r2)
           z1 == Response(d.hash, private_x1, d.r1)
           z2 == Response(d.hash, private_x2, d.r2)
           zs == <<d.r2, z1, z2>>
<1>1. PICK a \in ReadShared(at), b \in ReadShared(bt) :
         \E z \in ReadShared(<<d.r2, Response(d.hash, private_x1, a[3]),
                              Response(d.hash, private_x2, b[3])>>) :
            p = Packet(<<a[1], a[2], b[1], b[2]>>, <<z[2], z[3]>>, <<d.hash, d.hash>>)
  <2> DEFINE Lines(a, b) ==
                 {Packet(<<a[1], a[2], b[1], b[2]>>, <<z[2], z[3]>>, <<d.hash, d.hash>>) :
                     z \in ReadShared(<<d.r2, Response(d.hash, private_x1, a[3]),
                                       Response(d.hash, private_x2, b[3])>>)}
  <2>1. p \in UNION {UNION {Lines(a, b) : b \in ReadShared(bt)} : a \in ReadShared(at)}
    BY DEF MultiAnd
  <2> HIDE DEF Lines, at, bt
  <2>2. PICK a \in ReadShared(at), b \in ReadShared(bt) : p \in Lines(a, b)
    BY <2>1
  <2> QED
    BY <2>2 DEF Lines, at, bt
<1>2. /\ Len(at) = 3 /\ at[1] = XCoord[d.r1] /\ at[2] = YCoord[d.r1] /\ at[3] = d.r1
      /\ Len(bt) = 3 /\ bt[1] = XCoord[d.r2] /\ bt[2] = YCoord[d.r2] /\ bt[3] = d.r2
  BY DEF Attributes
<1>3. zs[1] = d.r2 /\ zs[2] = z1 /\ zs[3] = z2 /\ Len(zs) = 3
  OBVIOUS
<1>4. \A i \in 1..3 : Whole(at[i]) /\ Whole(bt[i])
  BY <1>2
<1>5. \A i \in 1..3 : Whole(zs[i])
  BY <1>3
<1> HIDE DEF z1, z2
<1> HIDE DEF at, bt
<1>6. a[1] = XCoord[d.r1] /\ a[2] = YCoord[d.r1] /\ a[3] = d.r1
  BY <1>2, <1>4, WholeShared
<1>7. b[1] = XCoord[d.r2] /\ b[2] = YCoord[d.r2] /\ b[3] = d.r2
  BY <1>2, <1>4, WholeShared
<1>8. PICK z \in ReadShared(zs) :
         p = Packet(<<a[1], a[2], b[1], b[2]>>, <<z[2], z[3]>>, <<d.hash, d.hash>>)
  BY <1>1, <1>6, <1>7 DEF z1, z2
<1> HIDE DEF zs
<1>9. z[2] = zs[2] /\ z[3] = zs[3]
  BY <1>3, <1>5, WholeShared
<1> QED
  BY <1>3, <1>6, <1>7, <1>8, <1>9 DEF z1, z2

\* The server's equations hold on these lines.
LEMMA ClassicAccepted ==
  ASSUME NEW d \in Draws, NEW p, nizkpMode = "classic",
         p = Packet(<<XCoord[d.r1], YCoord[d.r1]>>, <<Response(d.hash, private_x1, d.r1)>>,
                    <<d.hash>>)
  PROVE  Verdict(p) = "SUCCESS"
<1>1. d.r1 \in Scalar /\ d.hash \in Int /\ private_x1 \in Int
  BY Integral DEF Draws
<1>2. /\ Commitment(Response(d.hash, private_x1, d.r1), d.hash, private_x1) = d.r1
      /\ Coordinates(d.r1) = <<XCoord[d.r1], YCoord[d.r1]>>
  BY <1>1, Commits
<1>3. /\ p.u = Coordinates(d.r1) /\ p.c[1] = d.hash
      /\ p.z[1] = Response(d.hash, private_x1, d.r1)
  BY <1>2 DEF Packet
<1>4. OnCurve(p.u)
  BY <1>1, <1>3 DEF OnCurve
<1>5. verify_izkp_geometry(p.u, p.z[1], p.c[1])
  BY <1>2, <1>3 DEF verify_izkp_geometry
<1> QED
  BY <1>4, <1>5 DEF Verdict

LEMMA AndAccepted ==
  ASSUME NizkpInv, nizkpMode = "and", nizkpDraw \in Draws, nizkpDraw.hash < Order, NEW p,
         p = Packet(<<XCoord[nizkpDraw.r1], YCoord[nizkpDraw.r1],
                      XCoord[nizkpDraw.r2], YCoord[nizkpDraw.r2]>>,
                    <<Response(nizkpDraw.hash, private_x1, nizkpDraw.r1),
                      Response(nizkpDraw.hash, private_x2, nizkpDraw.r2)>>,
                    <<nizkpDraw.hash, nizkpDraw.hash>>)
  PROVE  Verdict(p) = "SUCCESS"
<1> DEFINE d == nizkpDraw
<1>1. d.r1 \in Scalar /\ d.r2 \in Scalar /\ d.hash \in Int /\ d.hash >= 0
      /\ private_x1 \in Int /\ private_x2 \in Int /\ Order \in Nat /\ Order > 1
  BY Integral DEF Draws
<1>2. /\ Commitment(Response(d.hash, private_x1, d.r1), d.hash, private_x1) = d.r1
      /\ Coordinates(d.r1) = <<XCoord[d.r1], YCoord[d.r1]>>
  BY <1>1, Commits
<1>3. /\ Commitment(Response(d.hash, private_x2, d.r2), d.hash, private_x2) = d.r2
      /\ Coordinates(d.r2) = <<XCoord[d.r2], YCoord[d.r2]>>
  BY <1>1, Commits
<1>4. d.hash % Order = d.hash
  <2>1. d.hash \in 0..(Order - 1) /\ d.hash = Order * 0 + d.hash /\ 0 \in Int
    BY <1>1
  <2> QED
    BY <1>1, <2>1, ModUnique
<1>5. /\ p.u = <<XCoord[d.r1], YCoord[d.r1], XCoord[d.r2], YCoord[d.r2]>>
      /\ p.c[1] = d.hash /\ p.c[2] = d.hash
      /\ p.z[1] = Response(d.hash, private_x1, d.r1)
      /\ p.z[2] = Response(d.hash, private_x2, d.r2)
  BY DEF Packet
<1>6. p.u[1] = XCoord[d.r1] /\ p.u[2] = YCoord[d.r1]
      /\ p.u[3] = XCoord[d.r2] /\ p.u[4] = YCoord[d.r2]
  BY <1>5
<1>7. ASSUME NEW i \in 1..2
      PROVE  Coordinates(Commitment(p.z[i], p.c[i], IF i = 1 THEN private_x1 ELSE private_x2))
                 = <<p.u[2 * i - 1], p.u[2 * i]>>
  <2>1. CASE i = 1
    <3>1. 2 * i - 1 = 1 /\ 2 * i = 2
      BY <2>1
    <3>2. Coordinates(Commitment(p.z[1], p.c[1], private_x1)) = <<p.u[1], p.u[2]>>
      BY <1>2, <1>5, <1>6
    <3> QED
      BY <2>1, <3>1, <3>2
  <2>2. CASE i = 2
    <3>1. 2 * i - 1 = 3 /\ 2 * i = 4 /\ i # 1
      BY <2>2
    <3>2. Coordinates(Commitment(p.z[2], p.c[2], private_x2)) = <<p.u[3], p.u[4]>>
      BY <1>3, <1>5, <1>6
    <3> QED
      BY <2>2, <3>1, <3>2
  <2>3. i = 1 \/ i = 2
    OBVIOUS
  <2> QED
    BY <2>1, <2>2, <2>3
<1>8. verify_multi_attribute_nizkp(p, nizkpDraw.hash)
  BY <1>4, <1>5, <1>7 DEF verify_multi_attribute_nizkp
<1> QED
  BY <1>8 DEF Verdict

LEMMA WholeFollows == NizkpInv => WholeIsAccepted
<1> SUFFICES ASSUME NizkpInv, Judged({"classic", "and"}),
                    nizkpMode = "and" => nizkpDraw.hash < Order
             PROVE  nizkpVerdict = "SUCCESS"
  BY DEF WholeIsAccepted
<1>1. /\ nizkpDraw \in Draws /\ nizkpVerdict = Verdict(nizkpPacket)
      /\ nizkpPacket \in host_main(nizkpMode, nizkpDraw)
      /\ (\A v \in Written : Whole(v)) /\ nizkpMode \in {"classic", "and"}
  BY DEF NizkpInv, Judged
<1>2. CASE nizkpMode = "classic"
  <2>1. /\ nizkpPacket \in schnorr_sFS(nizkpDraw)
        /\ \A v \in {XCoord[nizkpDraw.r1], YCoord[nizkpDraw.r1], nizkpDraw.r1,
                     Response(nizkpDraw.hash, private_x1, nizkpDraw.r1)} : Whole(v)
    BY <1>1, <1>2 DEF host_main, Written
  <2> QED
    BY <1>1, <1>2, <2>1, ClassicLine, ClassicAccepted
<1>3. CASE nizkpMode = "and"
  <2>1. /\ nizkpPacket \in MultiAnd(nizkpDraw)
        /\ \A v \in {XCoord[nizkpDraw.r1], YCoord[nizkpDraw.r1], nizkpDraw.r1,
                     XCoord[nizkpDraw.r2], YCoord[nizkpDraw.r2], nizkpDraw.r2,
                     Response(nizkpDraw.hash, private_x1, nizkpDraw.r1),
                     Response(nizkpDraw.hash, private_x2, nizkpDraw.r2)} : Whole(v)
    BY <1>1, <1>3 DEF host_main, Written, schnorr_multi_attribute
  <2> QED
    BY <1>1, <1>3, <2>1, AndLine, AndAccepted
<1> QED
  BY <1>1, <1>2, <1>3

\* The line the host program printed and the verdict on it are those of one
\* draw of nonces and hash.
THEOREM NizkpInvariance == NizkpSpec => []NizkpInv
  BY InitNizkpInv, NextNizkpInv, PTL DEF NizkpSpec

\* Completeness of the non-interactive proofs, for a group of any order, any
\* coordinates and any width of a number: the classic proof and the AND
\* proof are accepted, for every nonce and hash, when every number fills its
\* buffer and the challenge of the AND proof is below the order.
THEOREM HonestProofsAccepted == NizkpSpec => []WholeIsAccepted
  BY WholeFollows, NizkpInvariance, PTL

(***************************************************************************)
(* Types: what was written over stale memory is still a number of Width    *)
(* digits.                                                                 *)
(***************************************************************************)
LEMMA BasePowersHere ==
  /\ BasePowers \in [0..Width -> Nat \ {0}]
  /\ BasePowers[0] = 1
  /\ \A k \in 0..Width : BasePowers[k] * BasePowers[Width - k] = BasePowers[Width]
<1>1. Width \in Nat /\ Base \in Nat \ {0}
  BY NizkpConstants
<1>2. \E v : v = [k \in 0..Width |-> IF k = 0 THEN 1 ELSE v[k - 1] * Base]
  BY <1>1, PowersExist DEF PowersOf
<1>3. BasePowers = [k \in 0..Width |-> IF k = 0 THEN 1 ELSE BasePowers[k - 1] * Base]
  BY <1>2 DEF BasePowers
<1>4. PowersOf(BasePowers, Width, Base)
  BY <1>3 DEF PowersOf
<1>5. BasePowers \in [0..Width -> Nat \ {0}] /\ BasePowers[0] = 1
  BY <1>1, <1>4, PowersRule
<1>6. \A k \in 0..Width : BasePowers[k] * BasePowers[Width - k] = BasePowers[Width]
  BY <1>1, <1>4, PowersSplit
<1> QED
  BY <1>5, <1>6

LEMMA DigitsType ==
  ASSUME NEW v \in Number
  PROVE  Digits(v) \in 0..Width /\ v < BasePowers[Digits(v)]
<1> DEFINE S == {k \in 0..Width : v < BasePowers[k]}
<1>1. Width \in Nat /\ BasePowers \in [0..Width -> Nat \ {0}] /\ v \in Nat /\ v < BasePowers[Width]
  <2>1. Width \in Nat /\ BasePowers \in [0..Width -> Nat \ {0}]
    BY NizkpConstants, BasePowersHere
  <2>2. BasePowers[Width] \in Nat
    BY <2>1
  <2> QED
    BY <2>1, <2>2 DEF Number
<1>2. S \subseteq Nat /\ S # {}
  BY <1>1
<1>3. PICK k \in S : \A j \in S : k <= j
  <2> HIDE DEF S
  <2> QED
    BY <1>2, Least
<1>4. k \in 0..Width /\ v < BasePowers[k] /\ \A j \in 0..(k - 1) : v >= BasePowers[j]
  <2> SUFFICES ASSUME NEW j \in 0..(k - 1)
               PROVE  v >= BasePowers[j]
    BY <1>3
  <2>1. j \in 0..Width /\ ~ (k <= j)
    BY <1>1
  <2>2. j \notin S
    BY <1>3, <2>1
  <2>3. BasePowers[j] \in Nat /\ ~ (v < BasePowers[j])
    BY <1>1, <2>1, <2>2
  <2> QED
    BY <1>1, <2>3
<1>5. \E i \in 0..Width : v < BasePowers[i] /\ \A j \in 0..(i - 1) : v >= BasePowers[j]
  BY <1>4
<1> QED
  BY <1>5 DEF Digits

\* The digits of v, moved to the left, and as many stale ones behind them.
LEMMA ShiftedBelow ==
  ASSUME NEW v \in Nat, NEW p \in Nat, v < p, NEW f \in Nat, f > 0, NEW s \in Nat
  PROVE  v * f + (s % f) \in Nat /\ v * f + (s % f) < p * f
<1>1. s % f \in Nat /\ s % f < f
  BY DivMod
<1> DEFINE t == s % f
<1> HIDE DEF t
<1>2. t \in Nat /\ t < f
  BY <1>1 DEF t
<1>3. (v * f) + t < p * f
  BY <1>2, StaysBelow
<1>4. (v * f) + t \in Nat
  BY <1>2, NextNumber
<1> QED
  BY <1>3, <1>4 DEF t

LEMMA ReadType ==
  ASSUME NEW v \in Number, NEW len
  PROVE  Read(v, len) \subseteq Number
<1> DEFINE k == Digits(v)
           free == BasePowers[Width - k]
<1>1. /\ Width \in Nat /\ Stale \subseteq Number
      /\ BasePowers \in [0..Width -> Nat \ {0}]
      /\ k \in 0..Width /\ v \in Nat /\ v < BasePowers[k]
      /\ BasePowers[k] * free = BasePowers[Width]
  <2>1. Width \in Nat /\ Stale \subseteq Number
    BY NizkpConstants
  <2>2. v < BasePowers[k] /\ k \in 0..Width
    BY DigitsType
  <2>3. BasePowers \in [0..Width -> Nat \ {0}] /\ BasePowers[k] * free = BasePowers[Width]
    BY <2>2, BasePowersHere
  <2>4. v \in Nat
    BY <2>1, <2>3 DEF Number
  <2> HIDE DEF k, free
  <2> QED
    BY <2>1, <2>2, <2>3, <2>4
<1>2. free \in Nat /\ free > 0 /\ BasePowers[k] \in Nat
  <2>1. Width - k \in 0..Width
    BY <1>1
  <2> QED
    BY <1>1, <2>1
<1> HIDE DEF k, free
<1>3. \A s \in Stale : v * free + (s % free) \in Number
  <2> SUFFICES ASSUME NEW s \in Stale
               PROVE  v * free + (s % free) \in Number
    OBVIOUS
  <2>1. s \in Nat
    BY <1>1 DEF Number
  <2>2. v * free + (s % free) \in Nat /\ v * free + (s % free) < BasePowers[k] * free
    BY <1>1, <1>2, <2>1, ShiftedBelow
  <2>3. BasePowers[Width] \in Nat
    BY <1>1
  <2> DEFINE n == v * free + (s % free)
  <2> HIDE DEF n
  <2>4. n \in Nat /\ n < BasePowers[Width]
    BY <1>1, <2>2 DEF n
  <2>5. n \in Number
    BY <2>3, <2>4 DEF Number
  <2> QED
    BY <2>5 DEF n
<1>4. Read(v, len) \in {Stale, {v}, {v * free + (s % free) : s \in Stale}}
  BY DEF Read, k, free
<1>5. {v * free + (s % free) : s \in Stale} \subseteq Number
  BY <1>3
<1>6. Stale \subseteq Number /\ {v} \subseteq Number
  BY <1>1
<1> DEFINE stale == {v * free + (s % free) : s \in Stale}
<1> HIDE DEF stale
<1>7. stale \subseteq Number /\ Read(v, len) \in {Stale, {v}, stale}
  BY <1>4, <1>5 DEF stale
<1> QED
  BY <1>6, <1>7

LEMMA SharedType ==
  ASSUME NEW vs, NEW s, s \in ReadShared(vs), NEW n \in Nat, Len(vs) = n,
         \A i \in 1..n : vs[i] \in Number
  PROVE  \A i \in 1..n : s[i] \in Number
<1> SUFFICES ASSUME NEW i, i \in 1..n
             PROVE  s[i] \in Number
  OBVIOUS
<1> DEFINE len == IF i = 1 THEN Width ELSE Digits(vs[i - 1])
<1>1. s[i] \in Read(vs[i], len)
  BY DEF ReadShared
<1>2. vs[i] \in Number
  OBVIOUS
<1> HIDE DEF len
<1> QED
  BY <1>1, <1>2, ReadType

LEMMA SharedByThree ==
  ASSUME NEW vs, NEW s, s \in ReadShared(vs), Len(vs) = 3, \A i \in 1..3 : vs[i] \in Number
  PROVE  s[1] \in Number /\ s[2] \in Number /\ s[3] \in Number
<1>1. 3 \in Nat
  OBVIOUS
<1>2. \A i \in 1..3 : s[i] \in Number
  BY <1>1, SharedType
<1>3. 1 \in 1..3 /\ 2 \in 1..3 /\ 3 \in 1..3
  OBVIOUS
<1> QED
  BY <1>2, <1>3

\* The numbers of a run have Width digits.
LEMMA RunNumbers ==
  ASSUME NEW d \in Draws
  PROVE  /\ d.r1 \in Number /\ d.r2 \in Number /\ d.hash \in Number
         /\ \A i \in 1..3 : Attributes(d.r1)[i] \in Number /\ Attributes(d.r2)[i] \in Number
         /\ \A c, x, r \in Int : Response(c, x, r) \in Number
         /\ \A a \in Int : a % Order \in Number
         /\ Number \subseteq Int
<1>1. /\ Order \in Nat /\ Order > 1 /\ BasePowers[Width] \in Nat /\ Order < BasePowers[Width]
  BY NizkpConstants, BasePowersHere DEF Number
<1>2. d.r1 \in Scalar /\ d.r2 \in Scalar /\ d.hash \in Number
  BY DEF Draws
<1>3. Scalar \subseteq Number /\ Number \subseteq Int
  BY <1>1 DEF Scalar, Number
<1>4. \A a \in Int : a % Order \in Number
  <2> SUFFICES ASSUME NEW a \in Int PROVE a % Order \in Number
    OBVIOUS
  <2>1. a % Order \in 0..(Order - 1)
    BY <1>1, DivMod
  <2> QED
    BY <1>1, <2>1 DEF Number
<1>5. \A c, x, r \in Int : Response(c, x, r) \in Number
  <2> SUFFICES ASSUME NEW c \in Int, NEW x \in Int, NEW r \in Int
               PROVE  Response(c, x, r) \in Number
    OBVIOUS
  <2>1. c * x + r \in Int
    BY Z3
  <2> QED
    BY <1>4, <2>1 DEF Response
<1>6. ASSUME NEW r \in Scalar, NEW i \in 1..3
      PROVE  Attributes(r)[i] \in Number
  <2>1. XCoord[r] \in Number /\ YCoord[r] \in Number
    BY NizkpConstants
  <2> QED
    BY <1>3, <2>1 DEF Attributes
<1> QED
  BY <1>2, <1>3, <1>4, <1>5, <1>6

\* A line of the host program: numbers of Width digits, twice as many
\* coordinates as responses.
Line(p, n) ==
    /\ p.u \in Seq(Number) /\ p.z \in Seq(Number) /\ p.c \in Seq(Number)
    /\ Len(p.u) = 2 * n /\ Len(p.z) = n

LEMMA ClassicType ==
  ASSUME NEW d \in Draws, NEW p \in schnorr_sFS(d)
  PROVE  Line(p, 1)
<1> DEFINE at == Attributes(d.r1)
<1>1. PICK a \in ReadShared(at) :
         \E z \in ReadShared(<<Response(d.hash, private_x1, a[3])>>) :
            p = Packet(<<a[1], a[2]>>, <<z[1]>>, <<d.hash>>)
  BY DEF schnorr_sFS
<1>2. Len(at) = 3 /\ \A i \in 1..3 : at[i] \in Number
  BY RunNumbers DEF Attributes
<1> HIDE DEF at
<1>3. a[1] \in Number /\ a[2] \in Number /\ a[3] \in Number
  BY <1>2, SharedByThree
<1> DEFINE zs == <<Response(d.hash, private_x1, a[3])>>
<1>4. Len(zs) = 1 /\ \A i \in 1..1 : zs[i] \in Number
  <2>1. Response(d.hash, private_x1, a[3]) \in Number
    BY <1>3, RunNumbers, Integral
  <2> QED
    BY <2>1
<1>5. PICK z \in ReadShared(zs) : p = Packet(<<a[1], a[2]>>, <<z[1]>>, <<d.hash>>)
  BY <1>1
<1> HIDE DEF zs
<1>6. z[1] \in Number
  <2>1. 1 \in Nat /\ 1 \in 1..1
    OBVIOUS
  <2>2. \A i \in 1..1 : z[i] \in Number
    BY <1>4, <2>1, SharedType
  <2> QED
    BY <2>1, <2>2
<1>7. d.hash \in Number
  BY RunNumbers
<1> QED
  BY <1>3, <1>5, <1>6, <1>7 DEF Packet, Line

LEMMA AndType ==
  ASSUME NEW d \in Draws, NEW p \in MultiAnd(d)
  PROVE  Line(p, 2)
<1> DEFINE at == Attributes(d.r1)
           bt == Attributes(d.r2)
           Lines(a, b) ==
               {Packet(<<a[1], a[2], b[1], b[2]>>, <<z[2], z[3]>>, <<d.hash, d.hash>>) :
                   z \in ReadShared(<<d.r2, Response(d.hash, private_x1, a[3]),
                                     Response(d.hash, private_x2, b[3])>>)}
<1>1. PICK a \in ReadShared(at), b \in ReadShared(bt) : p \in Lines(a, b)
  <2>1. p \in UNION {UNION {Lines(a, b) : b \in ReadShared(bt)} : a \in ReadShared(at)}
    BY DEF MultiAnd
  <2> HIDE DEF Lines, at, bt
  <2> QED
    BY <2>1
<1>2. /\ Len(at) = 3 /\ \A i \in 1..3 : at[i] \in Number
      /\ Len(bt) = 3 /\ \A i \in 1..3 : bt[i] \in Number
  BY RunNumbers DEF Attributes
<1> HIDE DEF at, bt
<1>3. /\ a[1] \in Number /\ a[2] \in Number /\ a[3] \in Number
      /\ b[1] \in Number /\ b[2] \in Number /\ b[3] \in Number
  BY <1>2, SharedByThree
<1> DEFINE z1 == Response(d.hash, private_x1, a[3])
           z2 == Response(d.hash, private_x2, b[3])
           zs == <<d.r2, z1, z2>>
<1>4. z1 \in Number /\ z2 \in Number /\ d.r2 \in Number /\ d.hash \in Number
  BY <1>3, RunNumbers, Integral
<1>5. PICK z \in ReadShared(zs) :
         p = Packet(<<a[1], a[2], b[1], b[2]>>, <<z[2], z[3]>>, <<d.hash, d.hash>>)
  BY <1>1
<1> HIDE DEF Lines
<1> HIDE DEF z1, z2
<1>6. Len(zs) = 3 /\ \A i \in 1..3 : zs[i] \in Number
  BY <1>4
<1> HIDE DEF zs
<1>7. z[2] \in Number /\ z[3] \in Number
  BY <1>6, SharedByThree
<1> QED
  BY <1>3, <1>4, <1>5, <1>7 DEF Packet, Line

LEMMA OrType ==
  ASSUME NEW d \in Draws, NEW p \in MultiOr(d)
  PROVE  Line(p, 2)
<1> DEFINE at == Attributes(d.r1)
           c1 == (d.hash - d.r2) % Order
<1>1. PICK a \in ReadShared(at) :
         \E s \in ReadShared(<<d.r1, c1, Response(c1, private_x1, a[3])>>) :
            p = Packet(<<a[1], a[2], d.r2, d.r2>>, <<s[3], d.r2>>, <<s[2], d.r2>>)
  BY DEF MultiOr
<1>2. Len(at) = 3 /\ \A i \in 1..3 : at[i] \in Number
  BY RunNumbers DEF Attributes
<1> HIDE DEF at
<1>3. a[1] \in Number /\ a[2] \in Number /\ a[3] \in Number
  BY <1>2, SharedByThree
<1>4. d.r1 \in Number /\ d.r2 \in Number /\ d.hash \in Number /\ d.hash - d.r2 \in Int
  <2>1. d.r1 \in Number /\ d.r2 \in Number /\ d.hash \in Number /\ Number \subseteq Int
    BY RunNumbers
  <2> HIDE DEF c1
  <2>2. d.r2 \in Int /\ d.hash \in Int
    BY <2>1
  <2> QED
    BY <2>1, <2>2
<1>5. c1 \in Number
  BY <1>4, RunNumbers
<1> HIDE DEF c1
<1> DEFINE z == Response(c1, private_x1, a[3])
           zs == <<d.r1, c1, z>>
<1>6. z \in Number
  BY <1>3, <1>5, RunNumbers, Integral
<1>7. PICK s \in ReadShared(zs) :
         p = Packet(<<a[1], a[2], d.r2, d.r2>>, <<s[3], d.r2>>, <<s[2], d.r2>>)
  BY <1>1
<1> HIDE DEF z
<1>8. Len(zs) = 3 /\ \A i \in 1..3 : zs[i] \in Number
  BY <1>4, <1>5, <1>6
<1> HIDE DEF zs
<1>9. s[2] \in Number /\ s[3] \in Number
  BY <1>8, SharedByThree
<1> QED
  BY <1>3, <1>4, <1>7, <1>9 DEF Packet, Line

\* The line of the host program has the form its mode asks for.
LEMMA NizkpShapeFollows ==
  ASSUME NizkpInv, nizkpPc = "sent" \/ (nizkpPc = "done" /\ nizkpPacket # NoPacket)
  PROVE  Line(nizkpPacket, IF nizkpMode = "classic" THEN 1 ELSE 2)
<1>1. nizkpDraw \in Draws /\ nizkpPacket \in host_main(nizkpMode, nizkpDraw)
  BY DEF NizkpInv
<1>2. CASE nizkpMode = "classic"
  BY <1>1, <1>2, ClassicType DEF host_main
<1>3. CASE nizkpMode = "and"
  BY <1>1, <1>3, AndType DEF host_main, schnorr_multi_attribute
<1>4. CASE nizkpMode \notin {"classic", "and"}
  BY <1>1, <1>4, OrType DEF host_main, schnorr_multi_attribute
<1> QED
  BY <1>2, <1>3, <1>4

NizkpEmpty == nizkpPc \in {"start", "invoke"} => nizkpPacket = NoPacket

LEMMA NizkpTyped == NizkpInv /\ NizkpEmpty => NizkpTypeOK
<1> SUFFICES ASSUME NizkpInv, NizkpEmpty PROVE NizkpTypeOK
  OBVIOUS
<1>1. nizkpPc \in {"start", "invoke", "sent", "done"}
  BY DEF NizkpInv
<1>2. CASE nizkpPc = "sent" \/ (nizkpPc = "done" /\ nizkpPacket # NoPacket)
  BY <1>1, <1>2, NizkpShapeFollows DEF Line, NizkpTypeOK
<1>3. CASE nizkpPc # "sent" /\ nizkpPacket = NoPacket
  <2>1. nizkpPacket.u = <<>> /\ nizkpPacket.z = <<>> /\ nizkpPacket.c = <<>>
    BY <1>3 DEF NoPacket
  <2>2. <<>> \in Seq(Number)
    OBVIOUS
  <2> QED
    BY <1>1, <1>3, <2>1, <2>2 DEF NizkpTypeOK
<1> QED
  BY <1>1, <1>2, <1>3 DEF NizkpEmpty

\* Numbers keep their width, whatever memory held before they were written,
\* for any base, width and order.
THEOREM NizkpTypes == NizkpSpec => []NizkpTypeOK
<1>1. NizkpInit => NizkpEmpty
  BY DEF NizkpInit, NizkpEmpty
<1>2. NizkpEmpty /\ [NizkpNext]_nizkpVars => NizkpEmpty'
  BY DEF NizkpEmpty, NizkpNext, NizkpStart, NizkpExit, execute_nizkp, handle_client_data,
         NizkpEnd, nizkpVars
<1> QED
  BY <1>1, <1>2, NizkpTyped, NizkpInvariance, PTL DEF NizkpSpec

-----------------------------------------------------------------------------

(***************************************************************************)
(* Hotp.  The number of the counter, digit by digit.                       *)
(***************************************************************************)
CounterDigits == [1..CounterSize -> 0..(Radix - 1)]

\* The numbers of the leading digits.
Leading(d) ==
    CHOOSE v : v = [n \in 0..CounterSize |->
                      IF n = 0 THEN 0 ELSE (v[n - 1] * Radix) + d[n]]

LEMMA LeadingRule ==
  ASSUME NEW d \in CounterDigits
  PROVE  /\ Leading(d) \in [0..CounterSize -> Nat]
         /\ Rule(Leading(d), CounterSize, 0, Radix, d)
         /\ CounterValue(d) = Leading(d)[CounterSize]
<1>1. CounterSize \in Nat /\ d \in [1..CounterSize -> Nat] /\ Radix \in Nat
  BY HotpConstants DEF CounterDigits
<1>2. PICK v \in [0..CounterSize -> Nat] : Rule(v, CounterSize, 0, Radix, d)
  BY <1>1, HornerExists
<1>3. v = [n \in 0..CounterSize |-> IF n = 0 THEN 0 ELSE (v[n - 1] * Radix) + d[n]]
  <2>1. \A n \in 0..CounterSize : v[n] = IF n = 0 THEN 0 ELSE (v[n - 1] * Radix) + d[n]
    BY <1>1, <1>2 DEF Rule
  <2> QED
    BY <2>1
<1>4. Leading(d) = [n \in 0..CounterSize |->
                      IF n = 0 THEN 0 ELSE (Leading(d)[n - 1] * Radix) + d[n]]
  BY <1>3 DEF Leading
<1> DEFINE l == Leading(d)
<1>5. CounterValue(d) = Leading(d)[CounterSize]
  BY DEF CounterValue, Leading
<1> HIDE DEF l
<1>6. l = [n \in 0..CounterSize |-> IF n = 0 THEN 0 ELSE (l[n - 1] * Radix) + d[n]]
  BY <1>4 DEF l
<1>7. \A n \in 0..CounterSize : l[n] = IF n = 0 THEN 0 ELSE (l[n - 1] * Radix) + d[n]
  BY <1>6
<1>8. Rule(l, CounterSize, 0, Radix, d)
  BY <1>1, <1>7 DEF Rule
<1>9. l \in [0..CounterSize -> Nat]
  <2> DEFINE P == {n \in Nat : n <= CounterSize => l[n] \in Nat}
  <2>1. 0 \in P
    BY <1>1, <1>7
  <2>2. ASSUME NEW n \in Nat, n \in P
        PROVE  n + 1 \in P
    <3> SUFFICES ASSUME n + 1 <= CounterSize
                 PROVE  l[n + 1] \in Nat
      OBVIOUS
    <3>1. l[n] \in Nat /\ d[n + 1] \in Nat
      BY <1>1, <2>2
    <3>2. n + 1 \in 0..CounterSize /\ n + 1 # 0 /\ (n + 1) - 1 = n
      BY <1>1
    <3>3. l[n + 1] = (l[n] * Radix) + d[n + 1]
      BY <1>7, <3>2
    <3>4. (l[n] * Radix) + d[n + 1] \in Nat
      BY <1>1, <3>1, NextNumber
    <3> QED
      BY <3>3, <3>4
  <2> HIDE DEF P
  <2>3. \A n \in Nat : n \in P
    BY <2>1, <2>2, Induction
  <2>4. \A n \in 0..CounterSize : l[n] \in Nat
    BY <1>1, <2>3 DEF P
  <2> QED
    BY <1>6, <2>4
<1> QED
  BY <1>5, <1>8, <1>9 DEF l

LEMMA PowersHere ==
  /\ Powers \in [0..CounterSize -> Nat \ {0}]
  /\ Powers[0] = 1
  /\ \A n \in 1..CounterSize : Powers[n] = Powers[n - 1] * Radix
<1>1. CounterSize \in Nat /\ Radix \in Nat \ {0}
  BY HotpConstants
<1>2. \E v : v = [n \in 0..CounterSize |-> IF n = 0 THEN 1 ELSE v[n - 1] * Radix]
  BY <1>1, PowersExist DEF PowersOf
<1>3. Powers = [n \in 0..CounterSize |-> IF n = 0 THEN 1 ELSE Powers[n - 1] * Radix]
  BY <1>2 DEF Powers
<1>4. PowersOf(Powers, CounterSize, Radix)
  BY <1>3 DEF PowersOf
<1> QED
  BY <1>1, <1>4, PowersRule

LEMMA LeadingBelow ==
  ASSUME NEW d \in CounterDigits, NEW n \in 0..CounterSize
  PROVE  Leading(d)[n] < Powers[n]
<1> DEFINE l == Leading(d)
           P == {i \in Nat : i <= CounterSize => l[i] < Powers[i]}
<1>1. CounterSize \in Nat /\ l \in [0..CounterSize -> Nat] /\ Rule(l, CounterSize, 0, Radix, d)
      /\ Radix \in Nat
  BY LeadingRule, HotpConstants
<1> HIDE DEF l
<1>2. 0 \in P
  BY <1>1, PowersHere DEF Rule
<1>3. ASSUME NEW i \in Nat, i \in P
      PROVE  i + 1 \in P
  <2> SUFFICES ASSUME i + 1 <= CounterSize
               PROVE  l[i + 1] < Powers[i + 1]
    OBVIOUS
  <2>1. i + 1 \in 1..CounterSize /\ (i + 1) - 1 = i /\ i \in 0..CounterSize
    BY <1>1
  <2>2. l[i] \in Nat /\ Powers[i] \in Nat /\ l[i] < Powers[i]
    BY <1>1, <1>3, <2>1, PowersHere
  <2>3. d[i + 1] \in Nat /\ d[i + 1] < Radix
    BY <1>1, <2>1 DEF CounterDigits
  <2>4. l[i + 1] = (l[i] * Radix) + d[i + 1] /\ Powers[i + 1] = Powers[i] * Radix
    BY <1>1, <2>1, PowersHere DEF Rule
  <2>5. (l[i] * Radix) + d[i + 1] < Powers[i] * Radix
    BY <1>1, <2>2, <2>3, StaysBelow
  <2> QED
    BY <2>4, <2>5
<1> HIDE DEF P
<1>4. \A i \in Nat : i \in P
  BY <1>2, <1>3, Induction
<1> QED
  BY <1>1, <1>4 DEF P, l

LEMMA NextDigit ==
  ASSUME NEW x \in 0..(Radix - 1)
  PROVE  (x + 1) % Radix = IF x = Radix - 1 THEN 0 ELSE x + 1
<1>1. Radix \in Nat /\ Radix > 1
  BY HotpConstants
<1>2. CASE x = Radix - 1
  <2>1. x + 1 = Radix * 1 + 0 /\ 0 \in 0..(Radix - 1) /\ x + 1 \in Int
    BY <1>1, <1>2
  <2>2. (x + 1) % Radix = 0
    BY <1>1, <2>1, ModUnique
  <2> QED
    BY <1>2, <2>2
<1>3. CASE x # Radix - 1
  <2>1. x + 1 = Radix * 0 + (x + 1) /\ x + 1 \in 0..(Radix - 1) /\ x + 1 \in Int
    BY <1>1, <1>3
  <2>2. (x + 1) % Radix = x + 1
    BY <1>1, <2>1, ModUnique
  <2> QED
    BY <1>3, <2>2
<1> QED
  BY <1>2, <1>3

\* A carry arrives at digit n from the right.
Carry(d, n) == \A j \in (n + 1)..CounterSize : d[j] = Radix - 1

LEMMA IncrementedDigits ==
  ASSUME NEW d \in CounterDigits
  PROVE  /\ Incremented(d) \in CounterDigits
         /\ \A n \in 1..CounterSize : Incremented(d)[n] =
               IF ~Carry(d, n) THEN d[n] ELSE IF d[n] = Radix - 1 THEN 0 ELSE d[n] + 1
<1>1. Radix \in Nat /\ Radix > 1 /\ \A n \in 1..CounterSize : d[n] \in 0..(Radix - 1)
  BY HotpConstants DEF CounterDigits
<1>2. \A n \in 1..CounterSize : Incremented(d)[n] =
        IF Carry(d, n) THEN (d[n] + 1) % Radix ELSE d[n]
  BY DEF Incremented, Carry
<1>3. \A n \in 1..CounterSize : Incremented(d)[n] =
        IF ~Carry(d, n) THEN d[n] ELSE IF d[n] = Radix - 1 THEN 0 ELSE d[n] + 1
  BY <1>1, <1>2, NextDigit
<1>4. \A n \in 1..CounterSize : Incremented(d)[n] \in 0..(Radix - 1)
  BY <1>1, <1>3
<1>5. DOMAIN Incremented(d) = 1..CounterSize
      /\ Incremented(d) = [n \in 1..CounterSize |-> Incremented(d)[n]]
  BY DEF Incremented
<1> QED
  BY <1>3, <1>4, <1>5 DEF CounterDigits

\* The leading digits, when the carry has gone over those behind them.
CarriedOver(l, m, p, carry) ==
    m = IF ~carry THEN l ELSE IF l = p - 1 THEN 0 ELSE l + 1

LEMMA CarriedOverDigit ==
  ASSUME NEW l \in Nat, NEW p \in Nat, l < p, NEW b \in Nat, b > 0, NEW x \in Nat, x < b,
         NEW m \in Nat, NEW carry, NEW further,
         further <=> carry /\ x = b - 1,
         CarriedOver(l, m, p, further),
         NEW y \in Nat, y = IF ~carry THEN x ELSE IF x = b - 1 THEN 0 ELSE x + 1
  PROVE  CarriedOver((l * b) + x, (m * b) + y, p * b, carry)
<1>1. CASE ~carry
  BY <1>1 DEF CarriedOver
<1>2. CASE carry /\ x # b - 1
  <2>1. m = l /\ y = x + 1 /\ x + 1 < b
    BY <1>2 DEF CarriedOver
  <2>2. (l * b) + (x + 1) < p * b
    BY <2>1, StaysBelow
  <2>3. l * b \in Nat /\ p * b \in Nat
    BY Z3
  <2>4. (l * b) + x # p * b - 1 /\ (l * b) + (x + 1) = ((l * b) + x) + 1
    BY <2>2, <2>3
  <2> QED
    BY <1>2, <2>1, <2>4 DEF CarriedOver
<1>3. CASE carry /\ x = b - 1 /\ l = p - 1
  <2>1. m = 0 /\ y = 0
    BY <1>3 DEF CarriedOver
  <2>2. (l * b) + x = p * b - 1
    BY <1>3, Z3
  <2>3. (m * b) + y = 0
    BY <2>1
  <2> QED
    BY <1>3, <2>2, <2>3 DEF CarriedOver
<1>4. CASE carry /\ x = b - 1 /\ l # p - 1
  <2>1. m = l + 1 /\ y = 0
    BY <1>4 DEF CarriedOver
  <2>2. (l + 1) * b = l * b + b /\ l * b \in Nat /\ p * b \in Nat
    BY Z3
  <2>3. (m * b) + y = ((l * b) + x) + 1
    BY <1>4, <2>1, <2>2
  <2>4. l + 1 < p /\ l + 1 \in Nat /\ 0 < b
    BY <1>4
  <2>5. ((l + 1) * b) + 0 < p * b
    BY <2>4, StaysBelow
  <2>6. (l * b) + x # p * b - 1
    BY <1>4, <2>2, <2>5
  <2> QED
    BY <1>4, <2>3, <2>6 DEF CarriedOver
<1> QED
  BY <1>1, <1>2, <1>3, <1>4

\* The loop of get_hotp adds one to the number of the counter, and makes the
\* largest one 0.
LEMMA CarriesOver ==
  ASSUME NEW d \in CounterDigits
  PROVE  CounterValue(Incremented(d)) =
            IF CounterValue(d) = CounterRange - 1 THEN 0 ELSE CounterValue(d) + 1
<1> DEFINE e == Incremented(d)
           l == Leading(d)
           m == Leading(e)
           P == {n \in Nat : n <= CounterSize => CarriedOver(l[n], m[n], Powers[n], Carry(d, n))}
<1>1. e \in CounterDigits /\ \A n \in 1..CounterSize :
        e[n] = IF ~Carry(d, n) THEN d[n] ELSE IF d[n] = Radix - 1 THEN 0 ELSE d[n] + 1
  BY IncrementedDigits
<1>2. CounterSize \in Nat /\ Radix \in Nat /\ Radix > 0
  BY HotpConstants
<1> HIDE DEF e
<1>3. /\ l \in [0..CounterSize -> Nat] /\ Rule(l, CounterSize, 0, Radix, d)
      /\ CounterValue(d) = l[CounterSize]
      /\ \A n \in 0..CounterSize : l[n] < Powers[n]
  BY LeadingRule, LeadingBelow
<1>4. /\ m \in [0..CounterSize -> Nat] /\ Rule(m, CounterSize, 0, Radix, e)
      /\ CounterValue(e) = m[CounterSize]
  BY <1>1, LeadingRule
<1> HIDE DEF l, m
<1>5. 0 \in P
  <2>1. l[0] = 0 /\ m[0] = 0 /\ Powers[0] - 1 = 0
    BY <1>3, <1>4, PowersHere DEF Rule
  <2> QED
    BY <2>1 DEF CarriedOver
<1>6. ASSUME NEW i \in Nat, i \in P
      PROVE  i + 1 \in P
  <2> SUFFICES ASSUME i + 1 <= CounterSize
               PROVE  CarriedOver(l[i + 1], m[i + 1], Powers[i + 1], Carry(d, i + 1))
    OBVIOUS
  <2> DEFINE x == d[i + 1]
             y == e[i + 1]
             carry == Carry(d, i + 1)
  <2>1. i + 1 \in 1..CounterSize /\ (i + 1) - 1 = i /\ i \in 0..CounterSize
    BY <1>2
  <2>2. l[i] \in Nat /\ m[i] \in Nat /\ Powers[i] \in Nat /\ l[i] < Powers[i]
    BY <1>3, <1>4, <2>1, PowersHere
  <2>3. x \in Nat /\ x < Radix /\ y \in Nat
    BY <1>1, <1>2, <2>1 DEF CounterDigits
  <2>4. /\ l[i + 1] = (l[i] * Radix) + x
        /\ m[i + 1] = (m[i] * Radix) + y
        /\ Powers[i + 1] = Powers[i] * Radix
    BY <1>3, <1>4, <2>1, PowersHere DEF Rule
  <2>5. y = IF ~carry THEN x ELSE IF x = Radix - 1 THEN 0 ELSE x + 1
    BY <1>1, <2>1
  <2>6. Carry(d, i) <=> carry /\ x = Radix - 1
    <3>1. (i + 1)..CounterSize = {i + 1} \union ((i + 1) + 1)..CounterSize
      BY <1>2, <2>1
    <3> QED
      BY <3>1 DEF Carry
  <2>7. CarriedOver(l[i], m[i], Powers[i], Carry(d, i))
    BY <1>6, <2>1
  <2> HIDE DEF x, y, carry
  <2>9. CarriedOver((l[i] * Radix) + x, (m[i] * Radix) + y, Powers[i] * Radix, carry)
    BY <1>2, <2>2, <2>3, <2>5, <2>6, <2>7, CarriedOverDigit
  <2> QED
    BY <2>4, <2>9 DEF carry
<1> HIDE DEF P
<1>7. CounterSize \in P
  BY <1>2, <1>5, <1>6, Induction
<1>8. Carry(d, CounterSize)
  BY <1>2 DEF Carry
<1>9. CarriedOver(l[CounterSize], m[CounterSize], Powers[CounterSize], TRUE)
  BY <1>2, <1>7, <1>8 DEF P, CarriedOver
<1> QED
  BY <1>3, <1>4, <1>9 DEF CarriedOver, CounterRange, e

HotpPasswords == [key : HotpKey, count : Nat] \union {NoPassword}

\* The host and its session: it knows how many calls it made.
HotpHostAt ==
    hotpClient = "host" /\ hotpLast.res = "SUCCESS" =>
        /\ hotpI = 0 => hotpCalls = 0
        /\ hotpI > 0 => hotpKey = RfcKey /\ hotpCalls = hotpI - 1
        /\ hotpI > 1 => hotpLast.value = [key |-> RfcKey, count |-> hotpI - 2]

HotpOrder ==
    hotpCalls < CounterRange =>
        \A p \in hotpGiven \ {NoPassword} : p.count < CounterValue(hotpCounter)

HotpInv ==
    /\ HotpTypeOK
    /\ hotpLast \in [res : {"SUCCESS", "FAILED"}, value : HotpPasswords]
    /\ hotpGiven \subseteq HotpPasswords
    /\ CounterInStep
    /\ HotpHostAt
    /\ HotpOrder

LEMMA ZeroCounter ==
  /\ Zero \in CounterDigits
  /\ CounterValue(Zero) = 0 /\ 0 % CounterRange = 0
  /\ CounterRange \in Nat /\ CounterRange > 0
<1>1. Radix \in Nat /\ Radix > 0 /\ CounterSize \in Nat /\ CounterSize \in 0..CounterSize
  BY HotpConstants
<1>2. CounterRange \in Nat /\ CounterRange > 0
  BY <1>1, PowersHere DEF CounterRange
<1>3. 0 % CounterRange = 0
  BY <1>2, FewCalls
<1>4. Zero \in CounterDigits
  BY <1>1 DEF Zero, CounterDigits
<1>5. CounterValue(Zero) = 0
  <2> DEFINE l == Leading(Zero)
             P == {n \in Nat : n <= CounterSize => l[n] = 0}
  <2>1. Rule(l, CounterSize, 0, Radix, Zero) /\ CounterValue(Zero) = l[CounterSize]
    BY <1>4, LeadingRule
  <2> HIDE DEF l
  <2>2. 0 \in P
    BY <2>1 DEF Rule
  <2>3. ASSUME NEW n \in Nat, n \in P
        PROVE  n + 1 \in P
    <3> SUFFICES ASSUME n + 1 <= CounterSize
                 PROVE  l[n + 1] = 0
      OBVIOUS
    <3>1. n + 1 \in 1..CounterSize /\ (n + 1) - 1 = n /\ l[n] = 0
      BY <1>1, <2>3
    <3>2. l[n + 1] = (0 * Radix) + 0
      BY <2>1, <3>1 DEF Rule, Zero
    <3> QED
      BY <1>1, <3>2
  <2> HIDE DEF P
  <2>4. \A n \in Nat : n \in P
    BY <2>2, <2>3, Induction
  <2> QED
    BY <1>1, <2>1, <2>4 DEF P
<1> QED
  BY <1>2, <1>3, <1>4, <1>5

LEMMA InitHotpInv == HotpInit => HotpInv
<1> SUFFICES ASSUME HotpInit PROVE HotpInv
  OBVIOUS
<1>1. hotpCounter \in [1..CounterSize -> 0..(Radix - 1)] /\ CounterInStep
  BY ZeroCounter DEF HotpInit, CounterInStep, CounterDigits
<1> QED
  BY <1>1, HotpConstants
  DEF HotpInit, HotpInv, HotpTypeOK, HotpPasswords, HotpHostAt, HotpOrder

LEMMA HotpOpenKeeps == HotpInv /\ HotpOpen => HotpInv'
<1> SUFFICES ASSUME HotpInv, HotpOpen PROVE HotpInv'
  OBVIOUS
<1>1. hotpCounter' \in [1..CounterSize -> 0..(Radix - 1)] /\ CounterInStep'
  BY ZeroCounter DEF HotpOpen, CounterInStep, CounterDigits
<1>2. HotpTypeOK'
  BY <1>1, HotpConstants DEF HotpOpen, HotpTypeOK
<1>3. hotpLast' \in [res : {"SUCCESS", "FAILED"}, value : HotpPasswords]
  BY DEF HotpOpen, HotpPasswords
<1>4. HotpHostAt' /\ HotpOrder' /\ hotpGiven' \subseteq HotpPasswords
  BY DEF HotpOpen, HotpHostAt, HotpOrder
<1> QED
  BY <1>1, <1>2, <1>3, <1>4 DEF HotpInv

LEMMA HotpCloseKeeps == HotpInv /\ HotpClose => HotpInv'
  BY DEF HotpInv, HotpClose, HotpTypeOK, CounterInStep, HotpHostAt, HotpOrder

LEMMA RegisterKeeps ==
  ASSUME HotpInv, NEW key \in HotpKey \union {ShortKey}, RegisterSharedKey(key)
  PROVE  HotpInv'
<1>1. UNCHANGED <<hotpClient, hotpCounter, hotpCalls, hotpGiven>>
  BY DEF RegisterSharedKey
<1>2. HotpTypeOK'
  BY <1>1, HotpConstants DEF HotpInv, RegisterSharedKey, HotpTypeOK
<1>3. hotpLast' \in [res : {"SUCCESS", "FAILED"}, value : HotpPasswords]
  BY DEF RegisterSharedKey, HotpPasswords
<1>4. CounterInStep' /\ HotpOrder' /\ hotpGiven' \subseteq HotpPasswords
  BY <1>1 DEF HotpInv, CounterInStep, HotpOrder
<1>5. HotpHostAt'
  <2> SUFFICES ASSUME hotpClient = "host"
               PROVE  hotpI' = 1 /\ hotpKey' = RfcKey /\ hotpCalls = 0
    BY <1>1 DEF HotpHostAt
  <2> QED
    BY DEF HotpInv, HotpHostAt, RegisterSharedKey
<1> QED
  BY <1>2, <1>3, <1>4, <1>5 DEF HotpInv

LEMMA GetHotpKeeps == HotpInv /\ GetHotp => HotpInv'
<1> SUFFICES ASSUME HotpInv, GetHotp PROVE HotpInv'
  OBVIOUS
<1> DEFINE v == CounterValue(hotpCounter)
           w == CounterValue(hotpCounter')
<1>1. /\ hotpCounter \in CounterDigits /\ hotpCalls \in Nat
      /\ hotpCounter' = Incremented(hotpCounter) /\ hotpCalls' = hotpCalls + 1
      /\ hotpKey \in HotpKey \union {ShortKey}
      /\ UNCHANGED <<hotpClient, hotpKey>>
  BY DEF HotpInv, HotpTypeOK, GetHotp, CounterDigits
<1>2. CounterRange \in Nat /\ CounterRange > 0 /\ v = hotpCalls % CounterRange
  BY ZeroCounter DEF HotpInv, CounterInStep
<1>3. w = IF v = CounterRange - 1 THEN 0 ELSE v + 1
  BY <1>1, CarriesOver
<1> HIDE DEF v, w
<1>4. w = (hotpCalls + 1) % CounterRange
  BY <1>1, <1>2, <1>3, NextModulo
<1>5. hotpCalls < CounterRange => v = hotpCalls
  BY <1>1, <1>2, FewCalls
<1>6. v \in Nat
  BY <1>1, LeadingRule, HotpConstants DEF v
<1>7. \/ hotpKey \in HotpKey
         /\ hotpLast' = [res |-> "SUCCESS", value |-> [key |-> hotpKey, count |-> v]]
      \/ hotpLast' = [res |-> "FAILED", value |-> NoPassword]
  BY <1>1 DEF GetHotp, Passwords, v
<1>8. hotpLast' \in [res : {"SUCCESS", "FAILED"}, value : HotpPasswords]
  BY <1>6, <1>7 DEF HotpPasswords
<1>9. HotpTypeOK'
  <2>1. hotpCounter' \in [1..CounterSize -> 0..(Radix - 1)]
    BY <1>1, IncrementedDigits DEF CounterDigits
  <2>2. hotpI' \in 0..(TestValues + 1)
    BY HotpConstants DEF HotpInv, HotpTypeOK, GetHotp
  <2>3. hotpCalls' \in 0..MaxCalls
    BY <1>1, HotpConstants DEF GetHotp
  <2>4. hotpLast'.res \in {"SUCCESS", "FAILED"}
    BY <1>7
  <2> QED
    BY <1>1, <2>1, <2>2, <2>3, <2>4 DEF HotpInv, HotpTypeOK
<1>10. CounterInStep'
  BY <1>1, <1>4 DEF CounterInStep, w
<1>11. hotpGiven' = hotpGiven \union {hotpLast'.value}
  BY DEF GetHotp
<1>12. hotpGiven' \subseteq HotpPasswords
  BY <1>8, <1>11 DEF HotpInv
<1>13. HotpOrder'
  <2> SUFFICES ASSUME hotpCalls + 1 < CounterRange,
                      NEW p \in hotpGiven' \ {NoPassword}
               PROVE  p.count < w
    BY <1>1 DEF HotpOrder, w
  <2>1. v = hotpCalls /\ w = v + 1
    BY <1>1, <1>2, <1>3, <1>5
  <2>2. CASE p = hotpLast'.value
    <3>1. p.count = v
      BY <1>7, <2>2
    <3> QED
      BY <1>6, <2>1, <3>1
  <2>3. CASE p \in hotpGiven
    <3>1. p.count < v
      BY <1>1, <1>2, <2>3 DEF HotpInv, HotpOrder, v
    <3>2. p.count \in Nat
      BY <2>3 DEF HotpInv, HotpPasswords
    <3> QED
      BY <1>6, <2>1, <3>1, <3>2
  <2> QED
    BY <1>11, <2>2, <2>3
<1>14. HotpHostAt'
  <2> SUFFICES ASSUME hotpClient = "host", hotpLast'.res = "SUCCESS"
               PROVE  /\ hotpI' > 1 /\ hotpKey' = RfcKey /\ hotpCalls' = hotpI' - 1
                      /\ hotpLast'.value = [key |-> RfcKey, count |-> hotpI' - 2]
    BY <1>1 DEF HotpHostAt
  <2>1. hotpI \in 1..TestValues /\ hotpI' = hotpI + 1 /\ hotpLast.res = "SUCCESS"
    BY DEF GetHotp
  <2>2. hotpKey = RfcKey /\ hotpCalls = hotpI - 1
    BY <2>1 DEF HotpInv, HotpHostAt
  <2>3. hotpCalls < CounterRange
    BY <1>2, <2>1, <2>2, HotpTestsFit, HotpConstants
  <2>4. v = hotpI' - 2
    BY <1>5, <2>1, <2>2, <2>3
  <2>5. hotpLast'.value = [key |-> hotpKey, count |-> v]
    BY <1>7
  <2> QED
    BY <1>1, <2>1, <2>2, <2>4, <2>5
<1> QED
  BY <1>8, <1>9, <1>10, <1>12, <1>13, <1>14 DEF HotpInv

\* In every session of the HOTP TA the counter is the number of calls, for
\* any base and any number of bytes.
THEOREM HotpInvariance == HotpSpec => []HotpInv
<1>1. HotpInv /\ UNCHANGED hotpVars => HotpInv'
  BY DEF hotpVars, HotpInv, HotpTypeOK, CounterInStep, HotpHostAt, HotpOrder
<1>2. HotpInv /\ [HotpNext]_hotpVars => HotpInv'
  BY <1>1, HotpOpenKeeps, HotpCloseKeeps, RegisterKeeps, GetHotpKeeps DEF HotpNext
<1> QED
  BY <1>2, InitHotpInv, PTL DEF HotpSpec

\* Client and TA stay in step over every carry of get_hotp (hotp_ta.c), and
\* no password of a session comes twice before its counter wraps around.
THEOREM PasswordOrder == HotpSpec => []PasswordsInOrder
<1>1. HotpInv => PasswordsInOrder
  <2> SUFFICES ASSUME HotpInv PROVE PasswordsInOrder
    OBVIOUS
  <2>1. hotpClient = "host" /\ hotpI > 1 /\ hotpLast.res = "SUCCESS" =>
          hotpLast.value = [key |-> RfcKey, count |-> hotpI - 2]
    BY DEF HotpInv, HotpHostAt
  <2> QED
    BY <2>1 DEF HotpInv, HotpOrder, PasswordsInOrder
<1> QED
  BY <1>1, HotpInvariance, PTL

-----------------------------------------------------------------------------

(***************************************************************************)
(* SecureStorage.  The points of a client at which it has the session, and *)
(* that it is the only one there: what neither property says and both rest *)
(* on.                                                                     *)
(***************************************************************************)
Inside == HostSteps \union {"any", "close"}

OwnerOnly ==
    /\ \A c \in StoreClient : storePc[c] \in Inside <=> storeSession = c
    /\ \A c \in StoreHost : storePc[c] # "any"
    /\ \A c \in StoreClient : storePc[c] \in HostSteps => c \in StoreHost

\* A write is one of the program that has the session.
WriteIsOwners ==
    storeWriting # NotWriting =>
        /\ storeSession \in StoreClient
        /\ MayWrite(storeSession, storeWriting.id, storeWriting.data)

\* Nothing has been said yet of the data that are being written.
WriteIsUntold == storeWriting # NotWriting => storeTold[storeWriting.id].data = NoData

SInv == /\ StoreTypeOK /\ OwnerOnly /\ WriteIsOwners /\ WriteIsUntold
        /\ HostViewHolds /\ ReportedIsKept

(***************************************************************************)
(* Where a program goes from an answer.                                    *)
(***************************************************************************)
LEMMA NextPoint ==
  ASSUME NEW step \in HostSteps \union {"any"}, NEW res, NEW data,
         step = "read1" /\ res = "SUCCESS" => data = Obj1Data
  PROVE  /\ After(step, res, data) \in Inside \union {"failed"}
         /\ After(step, res, data) = "any" => step = "any"
         /\ step = "any" => After(step, res, data) \in {"any", "failed"}
         /\ After(step, res, data) = "read1" => step = "write1" /\ res = "SUCCESS"
         /\ After(step, res, data) = "delete1" => step = "read1" /\ res = "SUCCESS"
         /\ After(step, res, data) = "delete2" => step = "read2" /\ res = "SUCCESS"
         /\ After(step, res, data) = "write2" => step = "read2" /\ res = "ITEM_NOT_FOUND"
         /\ After(step, res, data) \notin {"write1"}
  BY DEF After, Inside, HostSteps

(***************************************************************************)
(* An answer moves the program that has the session, and no other one.     *)
(***************************************************************************)
LEMMA AnsweredProperties ==
  ASSUME SInv, NEW c \in StoreClient, storeSession = c,
         storePc[c] \in HostSteps \union {"any"},
         NEW res, NEW data, Answered(c, res, data),
         storePc[c] = "read1" /\ res = "SUCCESS" => data = Obj1Data
  PROVE  /\ OwnerOnly'
         /\ storeSession' \in StoreClient \union {NoHolder}
         /\ storePc' \in [StoreClient -> HostSteps \union {"start", "any", "close", "failed",
                                                           "finished"}]
         /\ storePc'[c] = After(storePc[c], res, data)
         /\ \A h \in StoreClient \ {c} : storePc'[h] = storePc[h] /\ storePc[h] \notin Inside
<1> DEFINE next == After(storePc[c], res, data)
<1>1. /\ next \in Inside \union {"failed"} /\ (next = "any" => storePc[c] = "any")
      /\ storePc[c] = "any" => next \in {"any", "failed"}
  BY NextPoint
<1>2. /\ storePc' = [storePc EXCEPT ![c] = next]
      /\ storeSession' = IF next \in {"failed", "unexpected"} THEN NoHolder ELSE c
  BY DEF Answered
<1> HIDE DEF next
<1>3. /\ storePc \in [StoreClient -> HostSteps \union {"start", "any", "close", "failed",
                                                       "finished"}]
      /\ \A k \in StoreClient : storePc[k] \in Inside <=> k = c
      /\ \A k \in StoreHost : storePc[k] # "any"
  BY DEF SInv, StoreTypeOK, OwnerOnly
<1>4. /\ storePc'[c] = next
      /\ \A h \in StoreClient \ {c} : storePc'[h] = storePc[h] /\ storePc[h] \notin Inside
  BY <1>2, <1>3
<1>5. NoHolder \notin StoreClient /\ StoreHost \subseteq StoreClient
  BY StoreConstants DEF StoreClient
<1>6. "failed" \notin Inside /\ "unexpected" \notin Inside
  BY DEF Inside, HostSteps
<1>7. storePc' \in [StoreClient -> HostSteps \union {"start", "any", "close", "failed",
                                                     "finished"}]
  BY <1>1, <1>2, <1>3 DEF Inside
<1>8. storeSession' = IF next \in Inside THEN c ELSE NoHolder
  BY <1>1, <1>2, <1>6
<1>9. \A k \in StoreClient : storePc'[k] \in Inside <=> storeSession' = k
  BY <1>4, <1>5, <1>8
<1>10. \A k \in StoreHost : storePc'[k] # "any"
  BY <1>1, <1>3, <1>4, <1>5
<1>11. \A k \in StoreClient : storePc'[k] \in HostSteps => k \in StoreHost
  <2>1. next \in HostSteps => storePc[c] \in HostSteps
    BY <1>1 DEF HostSteps
  <2> QED
    BY <1>4, <2>1 DEF SInv, OwnerOnly
<1> QED
  BY <1>4, <1>7, <1>8, <1>9, <1>10, <1>11 DEF next, OwnerOnly

\* A client that may invoke a command has the session.
LEMMA InvokerOwns ==
  ASSUME SInv, NEW c \in StoreClient, NEW id, NEW data,
         MayWrite(c, id, data) \/ MayRead(c, id) \/ MayDelete(c, id)
  PROVE  storeSession = c /\ storePc[c] \in HostSteps \union {"any"}
<1>1. storePc[c] \in HostSteps \union {"any"}
  BY DEF MayWrite, MayRead, MayDelete, HostSteps
<1> QED
  BY <1>1 DEF SInv, OwnerOnly, Inside

\* A write that goes on is not the record that says there is none.
LEMMA WritesAreReal ==
  ASSUME NEW id, NEW data \in StoreData
  PROVE  [id |-> id, data |-> data] # NotWriting
<1>1. NoData \notin StoreData
  BY StoreConstants DEF StoreData
<1> QED
  BY <1>1 DEF NotWriting

-----------------------------------------------------------------------------
LEMMA CreateRawObjectKeeps ==
  ASSUME SInv, NEW c \in StoreClient, NEW id \in StoreObject, NEW data \in StoreData,
         CreateRawObject(c, id, data)
  PROVE  SInv'
<1>1. MayWrite(c, id, data) /\ storeWriting = NotWriting
  BY DEF CreateRawObject
<1>2. storeSession = c /\ storePc[c] \in HostSteps \union {"any"}
      /\ storePc[c] \in {"write1", "write2", "any"}
  BY <1>1, InvokerOwns DEF MayWrite
<1>3. /\ \A h \in StoreClient : storePc[h] \in Inside <=> h = c
      /\ \A h \in StoreHost : storePc[h] # "any"
  BY <1>2 DEF SInv, OwnerOnly
<1>4. StoreHost \subseteq StoreClient
  BY DEF StoreClient
<1>5. CASE /\ store' = [store EXCEPT ![id] = NoData]
           /\ storeWriting' = [id |-> id, data |-> data]
           /\ storeTold' = [storeTold EXCEPT ![id] = NothingTold]
           /\ UNCHANGED <<storeSession, storePc>>
  <2>1. StoreTypeOK'
    BY <1>5 DEF SInv, StoreTypeOK, NothingTold
  <2>2. OwnerOnly'
    BY <1>5 DEF SInv, OwnerOnly
  <2>3. WriteIsOwners'
    BY <1>1, <1>2, <1>5 DEF WriteIsOwners, MayWrite
  <2>4. HostViewHolds'
    <3> SUFFICES ASSUME NEW h \in StoreHost
                 PROVE  /\ storePc[h] \notin {"read1", "delete1", "delete2"}
                        /\ storePc[h] = "write2" => storeWriting' = [id |-> Obj2, data |-> Text]
      BY <1>5 DEF HostViewHolds
    <3>1. CASE h = c
      BY <1>1, <1>2, <1>5, <3>1 DEF MayWrite
    <3>2. CASE h # c
      BY <1>3, <1>4, <3>2 DEF Inside, HostSteps
    <3> QED
      BY <3>1, <3>2
  <2>5. ReportedIsKept' /\ WriteIsUntold'
    <3>1. storeTold'[id].data = NoData /\ store'[id] = NoData
      BY <1>5 DEF SInv, StoreTypeOK, NothingTold
    <3>2. \A o \in StoreObject \ {id} : storeTold'[o] = storeTold[o] /\ store'[o] = store[o]
      BY <1>5 DEF SInv, StoreTypeOK
    <3>3. storeWriting'.id = id
      BY <1>5
    <3> QED
      BY <3>1, <3>2, <3>3 DEF SInv, ReportedIsKept, WriteIsUntold
  <2> QED
    BY <2>1, <2>2, <2>3, <2>4, <2>5 DEF SInv
<1>6. ASSUME NEW res \in {"STORAGE", "TARGET_DEAD"}, Answered(c, res, NoData),
             UNCHANGED <<store, storeWriting, storeTold>>
      PROVE  SInv'
  <2>1. /\ OwnerOnly'
        /\ storeSession' \in StoreClient \union {NoHolder}
        /\ storePc' \in [StoreClient -> HostSteps \union {"start", "any", "close", "failed",
                                                          "finished"}]
        /\ storePc'[c] = After(storePc[c], res, NoData)
        /\ \A h \in StoreClient \ {c} : storePc'[h] = storePc[h] /\ storePc[h] \notin Inside
    BY <1>2, <1>6, AnsweredProperties
  <2>2. HostViewHolds'
    <3>1. storePc'[c] \notin {"read1", "delete1", "delete2", "write2"}
      BY <1>2, <2>1, NextPoint
    <3> QED
      BY <1>4, <2>1, <3>1 DEF HostViewHolds, Inside, HostSteps
  <2> QED
    BY <1>1, <1>6, <2>1, <2>2
    DEF SInv, StoreTypeOK, WriteIsOwners, WriteIsUntold, ReportedIsKept
<1> QED
  BY <1>5, <1>6 DEF CreateRawObject

\* What was written is what the owner meant to write.
LEMMA WriteObjectDataSafe ==
  ASSUME SInv, NEW c \in StoreClient, WriteObjectData(c)
  PROVE  SInv'
<1> DEFINE id == storeWriting.id
           data == storeWriting.data
<1>1. storeSession = c /\ storeWriting # NotWriting /\ storeWriting' = NotWriting
  BY DEF WriteObjectData
<1>2. id \in StoreObject /\ data \in StoreData /\ MayWrite(c, id, data)
  BY <1>1 DEF SInv, StoreTypeOK, WriteIsOwners
<1>3. storePc[c] \in {"write1", "write2", "any"} /\ storePc[c] \in HostSteps \union {"any"}
  BY <1>2 DEF MayWrite, HostSteps
<1>4. StoreHost \subseteq StoreClient
  BY DEF StoreClient
<1>5. PICK res \in {"SUCCESS", "STORAGE", "TARGET_DEAD"} :
        /\ IF res = "SUCCESS" THEN store' = [store EXCEPT ![id] = data]
           ELSE store' \in {store, [store EXCEPT ![id] = NoObject]}
        /\ storeTold' = [storeTold EXCEPT ![id].data = IF res = "SUCCESS" THEN data ELSE @]
        /\ Answered(c, res, NoData)
  BY DEF WriteObjectData, WriteAnswered, DataWritten, CleanedUp
<1> HIDE DEF id, data
<1>6. /\ OwnerOnly'
      /\ storeSession' \in StoreClient \union {NoHolder}
      /\ storePc' \in [StoreClient -> HostSteps \union {"start", "any", "close", "failed",
                                                        "finished"}]
      /\ storePc'[c] = After(storePc[c], res, NoData)
      /\ \A h \in StoreClient \ {c} : storePc'[h] = storePc[h] /\ storePc[h] \notin Inside
  BY <1>1, <1>3, <1>5, AnsweredProperties
<1>7. store' \in [StoreObject -> StoreData \union {NoObject, NoData}]
  BY <1>2, <1>5 DEF SInv, StoreTypeOK
<1>8. /\ IF res = "SUCCESS" THEN store'[id] = data ELSE store'[id] \in {store[id], NoObject}
      /\ \A o \in StoreObject \ {id} : store'[o] = store[o]
  BY <1>2, <1>5 DEF SInv, StoreTypeOK
<1>9. HostViewHolds'
  <2>1. storePc'[c] = "read1" => res = "SUCCESS" /\ storePc[c] = "write1"
    <3>1. storePc[c] # "read1"
      BY <1>3
    <3>2. After(storePc[c], res, NoData) = "read1" => storePc[c] = "write1" /\ res = "SUCCESS"
      BY <1>3, <3>1, NextPoint
    <3> QED
      BY <1>6, <3>2
  <2>2. storePc[c] = "write1" => id = Obj1 /\ data = Obj1Data
    BY <1>2 DEF MayWrite
  <2>3. storePc'[c] = "read1" => store'[Obj1] = Obj1Data
    BY <1>8, <2>1, <2>2
  <2>4. storePc'[c] \notin {"delete1", "delete2", "write2"}
    BY <1>3, <1>6, NextPoint
  <2> QED
    BY <1>4, <1>6, <2>3, <2>4 DEF HostViewHolds, Inside, HostSteps
<1>10. /\ storeTold' \in [StoreObject -> [data : StoreData \union {NoData}, deleted : BOOLEAN]]
       /\ storeTold'[id].data = IF res = "SUCCESS" THEN data ELSE storeTold[id].data
       /\ \A o \in StoreObject \ {id} : storeTold'[o] = storeTold[o]
  BY <1>2, <1>5 DEF SInv, StoreTypeOK
<1>11. ReportedIsKept'
  <2>1. NoData \notin StoreData
    BY StoreConstants DEF StoreData
  <2>2. storeTold[id].data = NoData /\ store[id] \in {NoObject, NoData}
    BY <1>1, <1>2 DEF SInv, WriteIsUntold, ReportedIsKept, id
  <2> SUFFICES ASSUME NEW o \in StoreObject
               PROVE  IF storeTold'[o].data = NoData THEN store'[o] \in {NoObject, NoData}
                      ELSE \/ store'[o] = storeTold'[o].data
                           \/ storeTold'[o].deleted /\ store'[o] = NoObject
    BY DEF ReportedIsKept
  <2>3. CASE o = id
    BY <1>2, <1>8, <1>10, <2>1, <2>2, <2>3
  <2>4. CASE o # id
    BY <1>8, <1>10, <2>4 DEF SInv, ReportedIsKept
  <2> QED
    BY <2>3, <2>4
<1> QED
  BY <1>1, <1>6, <1>7, <1>9, <1>10, <1>11 DEF SInv, StoreTypeOK, WriteIsOwners, WriteIsUntold

LEMMA ReadRawObjectKeeps ==
  ASSUME SInv, NEW c \in StoreClient, NEW id \in StoreObject, ReadRawObject(c, id)
  PROVE  SInv'
<1>1. MayRead(c, id) /\ storeWriting = NotWriting /\ UNCHANGED <<store, storeWriting, storeTold>>
  BY DEF ReadRawObject
<1>2. storeSession = c /\ storePc[c] \in HostSteps \union {"any"}
      /\ storePc[c] \in {"read1", "read2", "any"}
      /\ (storePc[c] = "read1" => id = Obj1) /\ (storePc[c] = "read2" => id = Obj2)
  BY <1>1, InvokerOwns DEF MayRead
<1>3. StoreHost \subseteq StoreClient /\ (c \in StoreHost => storePc[c] # "any")
  BY DEF StoreClient, SInv, OwnerOnly
<1>4. c \in StoreHost /\ storePc[c] = "read1" => store[Obj1] = Obj1Data
  BY DEF SInv, HostViewHolds
<1>5. storePc[c] = "read1" => c \in StoreHost
  BY DEF SInv, OwnerOnly, HostSteps
<1>6. PICK res, data :
        /\ Answered(c, res, data)
        /\ res = "ITEM_NOT_FOUND" => store[id] = NoObject
        /\ res = "SUCCESS" => store[id] # NoObject /\ data = store[id]
  BY DEF ReadRawObject
<1>7. storePc[c] = "read1" /\ res = "SUCCESS" => data = Obj1Data
  BY <1>2, <1>4, <1>5, <1>6
<1>8. /\ OwnerOnly'
      /\ storeSession' \in StoreClient \union {NoHolder}
      /\ storePc' \in [StoreClient -> HostSteps \union {"start", "any", "close", "failed",
                                                        "finished"}]
      /\ storePc'[c] = After(storePc[c], res, data)
      /\ \A h \in StoreClient \ {c} : storePc'[h] = storePc[h] /\ storePc[h] \notin Inside
  BY <1>2, <1>6, <1>7, AnsweredProperties
<1>9. HostViewHolds'
  <2> DEFINE next == After(storePc[c], res, data)
  <2>1. /\ next = "read1" => storePc[c] = "write1"
        /\ next = "delete1" => storePc[c] = "read1"
        /\ next = "delete2" => storePc[c] = "read2" /\ res = "SUCCESS"
        /\ next = "write2" => storePc[c] = "read2" /\ res = "ITEM_NOT_FOUND"
    BY <1>2, <1>7, NextPoint
  <2>2. storePc'[c] = next
    BY <1>8
  <2> HIDE DEF next
  <2>3. storePc'[c] # "read1"
    BY <1>2, <2>1, <2>2
  <2>4. storePc'[c] = "delete1" => store[Obj1] = Obj1Data
    BY <1>4, <1>5, <2>1, <2>2
  <2>5. storePc'[c] = "delete2" => store[Obj2] # NoObject
    BY <1>2, <1>6, <2>1, <2>2
  <2>6. storePc'[c] = "write2" => store[Obj2] = NoObject
    BY <1>2, <1>6, <2>1, <2>2
  <2> QED
    BY <1>1, <1>3, <1>8, <2>3, <2>4, <2>5, <2>6 DEF HostViewHolds, Inside, HostSteps
<1> QED
  BY <1>1, <1>8, <1>9
  DEF SInv, StoreTypeOK, WriteIsOwners, WriteIsUntold, ReportedIsKept

LEMMA DeleteObjectKeeps ==
  ASSUME SInv, NEW c \in StoreClient, NEW id \in StoreObject, DeleteObject(c, id)
  PROVE  SInv'
<1>1. MayDelete(c, id) /\ storeWriting = NotWriting /\ UNCHANGED storeWriting
  BY DEF DeleteObject
<1>2. storeSession = c /\ storePc[c] \in HostSteps \union {"any"}
      /\ storePc[c] \in {"delete1", "delete2", "any"}
  BY <1>1, InvokerOwns DEF MayDelete
<1>3. StoreHost \subseteq StoreClient
  BY DEF StoreClient
<1>4. PICK res : /\ Answered(c, res, NoData)
                 /\ \/ store' = store /\ storeTold' = storeTold
                    \/ /\ store' \in {store, [store EXCEPT ![id] = NoObject]}
                       /\ storeTold' = [storeTold EXCEPT ![id].deleted = TRUE]
  BY DEF DeleteObject
<1>5. /\ OwnerOnly'
      /\ storeSession' \in StoreClient \union {NoHolder}
      /\ storePc' \in [StoreClient -> HostSteps \union {"start", "any", "close", "failed",
                                                        "finished"}]
      /\ storePc'[c] = After(storePc[c], res, NoData)
      /\ \A h \in StoreClient \ {c} : storePc'[h] = storePc[h] /\ storePc[h] \notin Inside
  BY <1>2, <1>4, AnsweredProperties
<1>6. store' \in [StoreObject -> StoreData \union {NoObject, NoData}]
  BY <1>4 DEF SInv, StoreTypeOK
<1>7. HostViewHolds'
  <2>1. storePc'[c] \notin {"read1", "delete1", "delete2", "write2"}
    BY <1>2, <1>5, NextPoint
  <2> QED
    BY <1>3, <1>5, <2>1 DEF HostViewHolds, Inside, HostSteps
<1>8. storeTold' \in [StoreObject -> [data : StoreData \union {NoData}, deleted : BOOLEAN]]
  BY <1>4 DEF SInv, StoreTypeOK
<1>9. ReportedIsKept'
  <2>1. /\ storeTold'[id].data = storeTold[id].data
        /\ \/ store'[id] = store[id] /\ (storeTold[id].deleted => storeTold'[id].deleted)
           \/ store'[id] = NoObject /\ storeTold'[id].deleted
    BY <1>4 DEF SInv, StoreTypeOK
  <2>2. \A o \in StoreObject \ {id} : storeTold'[o] = storeTold[o] /\ store'[o] = store[o]
    BY <1>4 DEF SInv, StoreTypeOK
  <2> QED
    BY <2>1, <2>2 DEF SInv, ReportedIsKept
<1> QED
  BY <1>1, <1>5, <1>6, <1>7, <1>8, <1>9 DEF SInv, StoreTypeOK, WriteIsOwners, WriteIsUntold

-----------------------------------------------------------------------------
(***************************************************************************)
(* Sessions and power                                                      *)
(***************************************************************************)
LEMMA OpenStoreKeeps ==
  ASSUME SInv, NEW c \in StoreClient, OpenStore(c)
  PROVE  SInv'
<1>1. storePc[c] = "start" /\ UNCHANGED <<store, storeWriting, storeTold>>
  BY DEF OpenStore
<1>2. storePc \in [StoreClient -> HostSteps \union {"start", "any", "close", "failed",
                                                    "finished"}]
      /\ NoHolder \notin StoreClient /\ StoreHost \subseteq StoreClient
      /\ (c \notin StoreHost => c \in StoreOther)
  BY StoreConstants DEF SInv, StoreTypeOK, StoreClient
<1>3. PICK next \in {"write1", "any", "failed"} :
        /\ storePc' = [storePc EXCEPT ![c] = next]
        /\ next = "write1" => c \in StoreHost
        /\ next = "any" => c \notin StoreHost
        /\ IF next = "failed" THEN storeSession' = storeSession
           ELSE storeSession = NoHolder /\ storeSession' = c
  BY DEF OpenStore
<1>4. \A k \in StoreClient : storePc'[k] = IF k = c THEN next ELSE storePc[k]
  BY <1>2, <1>3
<1>5. storePc' \in [StoreClient -> HostSteps \union {"start", "any", "close", "failed",
                                                     "finished"}]
  BY <1>2, <1>3 DEF HostSteps
<1>6. OwnerOnly'
  BY <1>1, <1>2, <1>3, <1>4 DEF SInv, OwnerOnly, Inside, HostSteps
<1>7. WriteIsOwners'
  <2> SUFFICES ASSUME storeWriting # NotWriting
               PROVE  /\ storeSession' \in StoreClient
                      /\ MayWrite(storeSession, storeWriting.id, storeWriting.data)'
    BY <1>1 DEF WriteIsOwners
  <2>1. storeSession \in StoreClient /\ MayWrite(storeSession, storeWriting.id, storeWriting.data)
    BY DEF SInv, WriteIsOwners
  <2>2. storeSession' = storeSession /\ storeSession # c
    BY <1>1, <1>2, <1>3, <2>1 DEF MayWrite
  <2> QED
    BY <1>1, <1>4, <2>1, <2>2 DEF MayWrite
<1>8. HostViewHolds'
  BY <1>1, <1>2, <1>4 DEF SInv, HostViewHolds
<1> QED
  BY <1>1, <1>2, <1>3, <1>5, <1>6, <1>7, <1>8
  DEF SInv, StoreTypeOK, WriteIsUntold, ReportedIsKept

LEMMA CloseStoreKeeps ==
  ASSUME SInv, NEW c \in StoreClient, CloseStore(c) \/ RestartStore(c)
  PROVE  SInv'
<1>1. PICK next \in {"finished", "failed", "start"} :
        storePc' = [storePc EXCEPT ![c] = next] /\ UNCHANGED <<store, storeWriting, storeTold>>
  BY DEF CloseStore, RestartStore
<1>2. /\ storePc \in [StoreClient -> HostSteps \union {"start", "any", "close", "failed",
                                                       "finished"}]
      /\ StoreHost \subseteq StoreClient /\ NoHolder \notin StoreClient
  BY StoreConstants DEF SInv, StoreTypeOK, StoreClient
<1>3. \A k \in StoreClient : storePc'[k] = IF k = c THEN next ELSE storePc[k]
  BY <1>1, <1>2
<1>4. storeSession' \in StoreClient \union {NoHolder}
  BY DEF SInv, StoreTypeOK, CloseStore, RestartStore
<1>5. storePc' \in [StoreClient -> HostSteps \union {"start", "any", "close", "failed",
                                                     "finished"}]
  BY <1>1, <1>2
<1>6. OwnerOnly'
  <2>1. CASE CloseStore(c)
    <3>1. storePc[c] \in Inside /\ storeSession' = NoHolder
      BY <2>1 DEF CloseStore, Inside
    <3> QED
      BY <1>1, <1>2, <1>3, <3>1 DEF SInv, OwnerOnly, Inside, HostSteps
  <2>2. CASE RestartStore(c)
    <3>1. storePc[c] \notin Inside /\ storeSession' = storeSession
      BY <2>2 DEF RestartStore, Inside, HostSteps
    <3> QED
      BY <1>1, <1>2, <1>3, <3>1 DEF SInv, OwnerOnly, Inside, HostSteps
  <2> QED
    BY <2>1, <2>2
<1>7. WriteIsOwners'
  <2>1. CASE CloseStore(c)
    BY <1>1, <2>1 DEF CloseStore, WriteIsOwners
  <2>2. CASE RestartStore(c)
    <3> SUFFICES ASSUME storeWriting # NotWriting
                 PROVE  /\ storeSession' \in StoreClient
                        /\ MayWrite(storeSession, storeWriting.id, storeWriting.data)'
      BY <1>1 DEF WriteIsOwners
    <3>1. storeSession \in StoreClient
          /\ MayWrite(storeSession, storeWriting.id, storeWriting.data)
      BY DEF SInv, WriteIsOwners
    <3>2. storeSession' = storeSession /\ storeSession # c
      BY <2>2, <3>1 DEF RestartStore, MayWrite
    <3> QED
      BY <1>1, <1>3, <3>1, <3>2 DEF MayWrite
  <2> QED
    BY <2>1, <2>2
<1>8. HostViewHolds'
  BY <1>1, <1>2, <1>3 DEF SInv, HostViewHolds
<1>9. WriteIsUntold'
  BY <1>1 DEF SInv, WriteIsUntold, CloseStore, RestartStore
<1> QED
  BY <1>1, <1>4, <1>5, <1>6, <1>7, <1>8, <1>9 DEF SInv, StoreTypeOK, ReportedIsKept

LEMMA LosePowerKeeps ==
  ASSUME SInv, LosePower
  PROVE  SInv'
<1>1. /\ storeWriting' = NotWriting /\ storeSession' = NoHolder
      /\ storePc' = [c \in StoreClient |-> "start"] /\ UNCHANGED <<store, storeTold>>
  BY DEF LosePower
<1>2. NoHolder \notin StoreClient /\ StoreHost \subseteq StoreClient
  BY StoreConstants DEF StoreClient
<1>3. StoreTypeOK'
  BY <1>1 DEF SInv, StoreTypeOK
<1>4. OwnerOnly' /\ HostViewHolds' /\ WriteIsOwners' /\ WriteIsUntold'
  BY <1>1, <1>2
  DEF OwnerOnly, HostViewHolds, WriteIsOwners, WriteIsUntold, Inside, HostSteps
<1>5. ReportedIsKept'
  BY <1>1 DEF SInv, ReportedIsKept
<1> QED
  BY <1>3, <1>4, <1>5 DEF SInv

-----------------------------------------------------------------------------
LEMMA InitSInv == StoreInit => SInv
<1> SUFFICES ASSUME StoreInit PROVE SInv
  OBVIOUS
<1>1. NoHolder \notin StoreClient /\ StoreHost \subseteq StoreClient /\ NoObject # NoData
  BY StoreConstants DEF StoreClient
<1>2. storeWriting = NotWriting /\ storeTold = [id \in StoreObject |-> NothingTold]
      /\ store = [id \in StoreObject |-> NoObject] /\ storeSession = NoHolder
      /\ storePc = [c \in StoreClient |-> "start"]
  BY DEF StoreInit
<1>3. StoreTypeOK
  BY <1>2 DEF StoreTypeOK, NothingTold
<1>4. OwnerOnly /\ WriteIsOwners /\ WriteIsUntold /\ HostViewHolds
  BY <1>1, <1>2 DEF OwnerOnly, WriteIsOwners, WriteIsUntold, HostViewHolds, Inside, HostSteps
<1>5. ReportedIsKept
  BY <1>2 DEF ReportedIsKept, NothingTold
<1> QED
  BY <1>3, <1>4, <1>5 DEF SInv

LEMMA NextSInv == SInv /\ [StoreNext]_storeVars => SInv'
<1> SUFFICES ASSUME SInv, [StoreNext]_storeVars PROVE SInv'
  OBVIOUS
<1>1. ASSUME NEW c \in StoreClient,
             OpenStore(c) \/ CloseStore(c) \/ RestartStore(c) \/ WriteObjectData(c)
      PROVE  SInv'
  BY <1>1, OpenStoreKeeps, CloseStoreKeeps, WriteObjectDataSafe
<1>2. ASSUME NEW c \in StoreClient, NEW id \in StoreObject, NEW data \in StoreData,
             CreateRawObject(c, id, data)
      PROVE  SInv'
  BY <1>2, CreateRawObjectKeeps
<1>3. ASSUME NEW c \in StoreClient, NEW id \in StoreObject,
             ReadRawObject(c, id) \/ DeleteObject(c, id)
      PROVE  SInv'
  BY <1>3, ReadRawObjectKeeps, DeleteObjectKeeps
<1>4. CASE LosePower
  BY <1>4, LosePowerKeeps
<1>5. CASE UNCHANGED storeVars
  BY <1>5 DEF storeVars, SInv, StoreTypeOK, OwnerOnly, WriteIsOwners, WriteIsUntold,
     HostViewHolds, ReportedIsKept, MayWrite
<1> QED
  BY <1>1, <1>2, <1>3, <1>4, <1>5 DEF StoreNext

(***************************************************************************)
(* The invariant of the store.                                             *)
(***************************************************************************)
THEOREM StoreInvariance == StoreSpec => []SInv
  BY InitSInv, NextSInv, PTL DEF StoreSpec

(***************************************************************************)
(* What a host program was told is still so when it acts on it             *)
(* (host/main.c:main, between two of its commands).                        *)
(***************************************************************************)
THEOREM ViewSafety == StoreSpec => []HostViewHolds
<1>1. SInv => HostViewHolds
  BY DEF SInv
<1> QED
  BY <1>1, StoreInvariance, PTL

(***************************************************************************)
(* Data that were reported as written stay until they are written again or *)
(* a deletion is reported, and no other data are ever seen, although the   *)
(* results of deletions are dropped                                        *)
(* (secure_storage_ta.c:create_raw_object and delete_object).              *)
(***************************************************************************)
THEOREM KeptSafety == StoreSpec => []ReportedIsKept
<1>1. SInv => ReportedIsKept
  BY DEF SInv
<1> QED
  BY <1>1, StoreInvariance, PTL

-----------------------------------------------------------------------------

(***************************************************************************)
(* ConcurrentCounter.  The counter is the number of threads that have      *)
(* incremented it; at most one of them has not told its value yet.         *)
(***************************************************************************)
Served(h)  == {t \in Thread : got[h][t] # 0}
Counted(h) == {t \in Thread : threadPc[h][t] = "counted" \/ got[h][t] # 0}

CountOf(h) ==
    /\ \A t \in Thread : got[h][t] # 0 => threadPc[h][t] = "ended"
    /\ \A t, u \in Thread :
          threadPc[h][t] \in {"inside", "counted"} /\ threadPc[h][u] \in {"inside", "counted"}
              => t = u
    /\ countPc[h] \in {"open", "failed"} =>
          \A t \in Thread : got[h][t] = 0 /\ threadPc[h][t] = "none"
    /\ countPc[h] \in {"running", "finished"} =>
          /\ compteur[h] = Cardinality(Counted(h))
          /\ {got[h][t] : t \in Served(h)} = 1..Cardinality(Served(h))
    /\ countPc[h] = "finished" => \A t \in Thread : threadPc[h][t] = "ended"
    /\ retries[h] = 0 => countPc[h] = "failed"

CountInv == CountTypeOK /\ \A h \in CountHost : CountOf(h)

\* The sets of threads are finite, and a thread adds one to its set.
LEMMA ThreadSets ==
  \A S \in SUBSET Thread :
     /\ IsFiniteSet(S) /\ Cardinality(S) \in 0..Cardinality(Thread)
     /\ \A t \in Thread \ S : Cardinality(S \union {t}) = Cardinality(S) + 1
<1> SUFFICES ASSUME NEW S \in SUBSET Thread
             PROVE  /\ IsFiniteSet(S) /\ Cardinality(S) \in 0..Cardinality(Thread)
                    /\ \A t \in Thread \ S : Cardinality(S \union {t}) = Cardinality(S) + 1
  OBVIOUS
<1>1. IsFiniteSet(S) /\ Cardinality(S) <= Cardinality(Thread)
  BY ThreadsFinite, FS_Subset
<1>2. Cardinality(S) \in Nat /\ Cardinality(Thread) \in Nat
  BY <1>1, ThreadsFinite, FS_CardinalityType
<1>3. \A t \in Thread \ S : Cardinality(S \union {t}) = Cardinality(S) + 1
  BY <1>1, FS_AddElement
<1> QED
  BY <1>1, <1>2, <1>3

LEMMA CountSets ==
  \A h \in CountHost : /\ Served(h) \in SUBSET Thread /\ Counted(h) \in SUBSET Thread
                       /\ Cardinality(Served(h)) \in Nat /\ Cardinality(Counted(h)) \in Nat
<1>1. \A h \in CountHost : Served(h) \in SUBSET Thread /\ Counted(h) \in SUBSET Thread
  BY DEF Served, Counted
<1> QED
  BY <1>1, ThreadSets

\* Programs keep their counts when a step of another one is taken.
LEMMA OtherPrograms ==
  ASSUME CountInv, NEW h \in CountHost,
         \A k \in CountHost \ {h} :
            /\ countPc'[k] = countPc[k] /\ retries'[k] = retries[k]
            /\ compteur'[k] = compteur[k] /\ threadPc'[k] = threadPc[k]
            /\ got'[k] = got[k]
  PROVE  \A k \in CountHost \ {h} : CountOf(k)'
<1> SUFFICES ASSUME NEW k \in CountHost \ {h} PROVE CountOf(k)'
  OBVIOUS
<1>1. Served(k)' = Served(k) /\ Counted(k)' = Counted(k)
  BY DEF Served, Counted
<1> QED
  BY <1>1 DEF CountInv, CountOf

LEMMA InitCountInv == CountInit => CountInv
<1> SUFFICES ASSUME CountInit PROVE CountInv
  OBVIOUS
<1>1. CountTypeOK
  BY RetriesInNat, ThreadsFinite, FS_CardinalityType
     DEF CountInit, CountTypeOK, NotCreated, NoValues
<1>2. \A h \in CountHost : CountOf(h)
  BY RetriesInNat DEF CountInit, CountOf, NotCreated, NoValues
<1> QED
  BY <1>1, <1>2 DEF CountInv

LEMMA CountOpenKeeps ==
  ASSUME CountInv, NEW h \in CountHost, CountOpen(h)
  PROVE  CountInv'
<1>t. CountTypeOK /\ CountOf(h)
  BY DEF CountInv
<1>1. countPc[h] = "open" /\ retries[h] \in 1..Retries
      /\ \A t \in Thread : got[h][t] = 0 /\ threadPc[h][t] = "none"
  BY <1>t, RetriesInNat DEF CountOpen, CountOf, CountTypeOK
<1>2. CountTypeOK'
  <2>1. 0 \in 0..Cardinality(Thread) /\ [t \in Thread |-> "created"] \in
           [Thread -> {"none", "created", "inside", "counted", "ended"}]
    BY ThreadsFinite, FS_CardinalityType
  <2>2. retries[h] - 1 \in 0..Retries
    BY <1>1, RetriesInNat
  <2>3. single' = single /\ got' = got
    BY DEF CountOpen
  <2>4. compteur' \in [CountHost -> 0..Cardinality(Thread)]
    BY <1>t, <2>1 DEF CountOpen, CountTypeOK
  <2>5. threadPc' \in [CountHost ->
                         [Thread -> {"none", "created", "inside", "counted", "ended"}]]
    BY <1>t, <2>1 DEF CountOpen, CountTypeOK
  <2>6. retries' \in [CountHost -> 0..Retries]
    BY <1>t, <2>2 DEF CountOpen, CountTypeOK
  <2>7. countPc' \in [CountHost -> {"open", "running", "failed", "finished"}]
    BY <1>t DEF CountOpen, CountTypeOK
  <2> QED
    BY <1>t, <2>3, <2>4, <2>5, <2>6, <2>7 DEF CountTypeOK
<1>3. ASSUME countPc'[h] = "running" PROVE CountOf(h)'
  <2>1. /\ compteur'[h] = 0 /\ got' = got
        /\ \A t \in Thread : threadPc'[h][t] = "created"
        /\ retries' = retries
    BY <1>t, <1>1, <1>3 DEF CountOpen, CountTypeOK
  <2>2. Served(h)' = {} /\ Counted(h)' = {}
    BY <1>1, <2>1 DEF Served, Counted
  <2>3. Cardinality(Served(h)') = 0 /\ Cardinality(Counted(h)') = 0
    BY <2>2, FS_EmptySet
  <2>4. {got'[h][t] : t \in Served(h)'} = 1..Cardinality(Served(h)')
    BY <2>2, <2>3
  <2>5. \A t \in Thread : got'[h][t] = 0
    BY <1>1, <2>1
  <2>6. retries'[h] # 0
    BY <1>1, <2>1
  <2>7. /\ \A t, u \in Thread : threadPc'[h][t] \in {"inside", "counted"}
                                /\ threadPc'[h][u] \in {"inside", "counted"} => t = u
        /\ countPc'[h] \notin {"open", "failed", "finished"}
        /\ compteur'[h] = Cardinality(Counted(h)')
    BY <1>3, <2>1, <2>3
  <2> QED
    BY <2>4, <2>5, <2>6, <2>7 DEF CountOf
<1>4. ASSUME countPc'[h] # "running" PROVE CountOf(h)'
  <2>1. threadPc' = threadPc /\ got' = got /\ countPc'[h] \in {"open", "failed"}
        /\ (retries'[h] = 0 => countPc'[h] = "failed")
    BY <1>t, <1>1, <1>4, RetriesInNat DEF CountOpen, CountTypeOK
  <2>2. \A t \in Thread : got'[h][t] = 0 /\ threadPc'[h][t] = "none"
    BY <1>1, <2>1
  <2>3. /\ \A t, u \in Thread : threadPc'[h][t] \in {"inside", "counted"}
                                /\ threadPc'[h][u] \in {"inside", "counted"} => t = u
        /\ countPc'[h] \notin {"running", "finished"}
    BY <2>1, <2>2
  <2> QED
    BY <2>1, <2>2, <2>3 DEF CountOf
<1>5. \A k \in CountHost \ {h} : CountOf(k)'
  BY <1>t, OtherPrograms DEF CountOpen, CountTypeOK
<1> QED
  BY <1>2, <1>3, <1>4, <1>5 DEF CountInv

LEMMA InvokeKeeps ==
  ASSUME CountInv, NEW h \in CountHost, NEW t \in Thread, Invoke(h, t)
  PROVE  CountInv'
<1>t. CountTypeOK /\ CountOf(h)
  BY DEF CountInv
<1>1. /\ threadPc[h][t] = "created" /\ UNCHANGED <<countPc, retries, compteur, got>>
      /\ threadPc'[h][t] \in {"inside", "ended"}
      /\ \A u \in Thread \ {t} : threadPc'[h][u] = threadPc[h][u]
      /\ threadPc'[h][t] = "inside" =>
            \A u \in Thread : threadPc[h][u] \notin {"inside", "counted"}
  BY <1>t DEF Invoke, CountTypeOK
<1>2. CountTypeOK'
  <2>1. threadPc' = [threadPc EXCEPT ![h][t] = "inside"]
        \/ threadPc' = [threadPc EXCEPT ![h][t] = "ended"]
    BY DEF Invoke
  <2>2. threadPc' \in [CountHost ->
                         [Thread -> {"none", "created", "inside", "counted", "ended"}]]
    <3>1. CASE threadPc' = [threadPc EXCEPT ![h][t] = "inside"]
      BY <1>t, <3>1 DEF CountTypeOK
    <3>2. CASE threadPc' = [threadPc EXCEPT ![h][t] = "ended"]
      BY <1>t, <3>2 DEF CountTypeOK
    <3> QED
      BY <2>1, <3>1, <3>2
  <2> QED
    BY <1>t, <1>1, <2>2 DEF Invoke, CountTypeOK
<1>3. Served(h)' = Served(h) /\ Counted(h)' = Counted(h)
  BY <1>1 DEF Served, Counted
<1>4. CountOf(h)'
  BY <1>t, <1>1, <1>3 DEF CountOf
<1>5. \A k \in CountHost \ {h} : CountOf(k)'
  BY <1>t, OtherPrograms DEF Invoke, CountTypeOK
<1> QED
  BY <1>2, <1>4, <1>5 DEF CountInv

LEMMA IncrementKeeps ==
  ASSUME CountInv, NEW h \in CountHost, NEW t \in Thread, Increment(h, t)
  PROVE  CountInv'
<1>t. CountTypeOK /\ CountOf(h)
  BY DEF CountInv
<1>1. /\ threadPc[h][t] = "inside" /\ UNCHANGED <<countPc, retries, got>>
      /\ threadPc'[h][t] = "counted" /\ compteur'[h] = compteur[h] + 1
      /\ \A u \in Thread \ {t} : threadPc'[h][u] = threadPc[h][u]
      /\ got[h][t] = 0
  BY <1>t DEF Increment, CountTypeOK, CountOf
<1>2. countPc[h] = "running"
  BY <1>t, <1>1 DEF CountOf, CountTypeOK
<1>3. Served(h)' = Served(h) /\ Counted(h)' = Counted(h) \union {t} /\ t \notin Counted(h)
  BY <1>1 DEF Served, Counted
<1>4. Cardinality(Counted(h)') = Cardinality(Counted(h)) + 1
      /\ Cardinality(Counted(h)') \in 0..Cardinality(Thread)
  BY <1>3, CountSets, ThreadSets
<1>5. CountTypeOK'
  <2>1. compteur'[h] \in 0..Cardinality(Thread)
    BY <1>t, <1>1, <1>2, <1>4 DEF CountOf
  <2> QED
    BY <1>t, <1>1, <2>1 DEF Increment, CountTypeOK
<1>6. CountOf(h)'
  BY <1>t, <1>1, <1>2, <1>3, <1>4 DEF CountOf
<1>7. \A k \in CountHost \ {h} : CountOf(k)'
  BY <1>t, OtherPrograms DEF Increment, CountTypeOK
<1> QED
  BY <1>5, <1>6, <1>7 DEF CountInv

LEMMA ReturnValueKeeps ==
  ASSUME CountInv, NEW h \in CountHost, NEW t \in Thread, ReturnValue(h, t)
  PROVE  CountInv'
<1>t. CountTypeOK /\ CountOf(h)
  BY DEF CountInv
<1>1. /\ threadPc[h][t] = "counted" /\ UNCHANGED <<countPc, retries, compteur>>
      /\ threadPc'[h][t] = "ended" /\ got'[h][t] = compteur[h]
      /\ \A u \in Thread \ {t} : threadPc'[h][u] = threadPc[h][u] /\ got'[h][u] = got[h][u]
      /\ got[h][t] = 0
  BY <1>t DEF ReturnValue, CountTypeOK, CountOf
<1>2. /\ countPc[h] = "running" /\ compteur[h] = Cardinality(Counted(h))
      /\ {got[h][u] : u \in Served(h)} = 1..Cardinality(Served(h))
  BY <1>t, <1>1 DEF CountOf, CountTypeOK
<1>3. Counted(h) = Served(h) \union {t} /\ t \notin Served(h)
  BY <1>t, <1>1 DEF Served, Counted, CountOf
<1>4. compteur[h] = Cardinality(Served(h)) + 1 /\ Cardinality(Served(h)) \in Nat
  BY <1>2, <1>3, CountSets, ThreadSets
<1>5. Served(h)' = Served(h) \union {t} /\ Counted(h)' = Counted(h)
  BY <1>1, <1>4 DEF Served, Counted
<1>6. {got'[h][u] : u \in Served(h)'} = 1..Cardinality(Served(h)')
  <2>1. {got'[h][u] : u \in Served(h)'} = {got[h][u] : u \in Served(h)} \union {compteur[h]}
    BY <1>1, <1>3, <1>5 DEF Served
  <2>2. Cardinality(Served(h)') = compteur[h]
    BY <1>2, <1>3, <1>5
  <2> QED
    BY <1>2, <1>4, <2>1, <2>2
<1>7. CountTypeOK'
  BY <1>t DEF ReturnValue, CountTypeOK
<1>8. CountOf(h)'
  BY <1>t, <1>1, <1>2, <1>5, <1>6 DEF CountOf
<1>9. \A k \in CountHost \ {h} : CountOf(k)'
  BY <1>t, OtherPrograms DEF ReturnValue, CountTypeOK
<1> QED
  BY <1>7, <1>8, <1>9 DEF CountInv

LEMMA JoinAndCloseKeeps ==
  ASSUME CountInv, NEW h \in CountHost, JoinAndClose(h)
  PROVE  CountInv'
<1>t. CountTypeOK /\ CountOf(h)
  BY DEF CountInv
<1>1. /\ countPc[h] = "running" /\ countPc'[h] = "finished"
      /\ \A t \in Thread : threadPc[h][t] = "ended"
      /\ UNCHANGED <<retries, compteur, threadPc, got>>
  BY <1>t DEF JoinAndClose, CountTypeOK
<1>2. Served(h)' = Served(h) /\ Counted(h)' = Counted(h)
  BY <1>1 DEF Served, Counted
<1>3. CountOf(h)' /\ CountTypeOK'
  BY <1>t, <1>1, <1>2 DEF CountOf, CountTypeOK, JoinAndClose
<1>4. \A k \in CountHost \ {h} : CountOf(k)'
  BY <1>t, OtherPrograms DEF JoinAndClose, CountTypeOK
<1> QED
  BY <1>3, <1>4 DEF CountInv

LEMMA CountRestartKeeps ==
  ASSUME CountInv, NEW h \in CountHost, CountRestart(h)
  PROVE  CountInv'
<1>t. CountTypeOK /\ CountOf(h)
  BY DEF CountInv
<1>1. CountTypeOK'
  BY <1>t, RetriesInNat, ThreadsFinite, FS_CardinalityType
     DEF CountRestart, CountTypeOK, NotCreated, NoValues
<1>2. CountOf(h)'
  BY <1>t, RetriesInNat DEF CountRestart, CountTypeOK, CountOf, NotCreated, NoValues
<1>3. \A k \in CountHost \ {h} : CountOf(k)'
  BY <1>t, OtherPrograms DEF CountRestart, CountTypeOK
<1> QED
  BY <1>1, <1>2, <1>3 DEF CountInv

LEMMA NextCountInv == CountInv /\ [CountNext]_countVars => CountInv'
<1> SUFFICES ASSUME CountInv, [CountNext]_countVars PROVE CountInv'
  OBVIOUS
<1>1. CASE UNCHANGED countVars
  <2>1. \A h \in CountHost : Served(h)' = Served(h) /\ Counted(h)' = Counted(h)
    BY <1>1 DEF countVars, Served, Counted
  <2> QED
    BY <1>1, <2>1 DEF countVars, CountInv, CountTypeOK, CountOf
<1> QED
  BY <1>1, CountOpenKeeps, InvokeKeeps, IncrementKeeps, ReturnValueKeeps,
     JoinAndCloseKeeps, CountRestartKeeps DEF CountNext

(***************************************************************************)
(* CountInv is an invariant.                                               *)
(***************************************************************************)
THEOREM CountInvariance == CountSpec => []CountInv
  BY InitCountInv, NextCountInv, PTL DEF CountSpec

(***************************************************************************)
(* Whatever the order in which any number of threads call inc_compteur, no *)
(* value is lost or handed out twice.                                      *)
(***************************************************************************)
THEOREM CounterValues == CountSpec => []ValuesDistinct
<1>1. CountInv => ValuesDistinct
  <2> SUFFICES ASSUME CountInv, NEW h \in CountHost, countPc[h] \in {"running", "finished"}
               PROVE  /\ {got[h][t] : t \in Served(h)} = 1..Cardinality(Served(h))
                      /\ countPc[h] = "finished" => compteur[h] = Cardinality(Served(h))
    BY DEF ValuesDistinct, Served
  <2>1. CountOf(h)
    BY DEF CountInv
  <2>2. countPc[h] = "finished" => Counted(h) = Served(h)
    BY <2>1 DEF CountOf, Counted, Served
  <2> QED
    BY <2>1, <2>2 DEF CountOf
<1> QED
  BY <1>1, CountInvariance, PTL

-----------------------------------------------------------------------------

(***************************************************************************)
(* KeyGeneration.  A key on its way to be printed was stored, and the      *)
(* object holds a key that was stored once there was one.                  *)
(***************************************************************************)
KeyOnItsWay ==
    /\ \A h \in KeyGenHost :
          /\ keyGenPc[h] \in {"create", "close", "x"} => transient[h] \in EcdsaKey
          /\ keyGenPc[h] \in {"close", "x"} => transient[h] \in keyStored
    /\ keyStored # {} => ecdsaKey \in keyStored

KeyGenInv == KeyGenTypeOK /\ KeyOnItsWay /\ PrintedWasStored

LEMMA InitKeyGenInv == KeyGenInit => KeyGenInv
  BY DEF KeyGenInit, KeyGenInv, KeyGenTypeOK, KeyOnItsWay, PrintedWasStored, NothingPrinted

LEMMA KeyGenFailsKeeps ==
  ASSUME KeyGenInv, NEW h \in KeyGenHost, KeyGenFails(h),
         UNCHANGED <<ecdsaKey, ecdsaOpen, keyStored>>,
         printed' = printed \/ printed' = [printed EXCEPT ![h] = NothingPrinted]
  PROVE  KeyGenInv'
<1>1. \A k \in KeyGenHost : printed'[k] = printed[k] \/ printed'[k] = NothingPrinted
  BY DEF KeyGenInv, KeyGenTypeOK
<1>2. KeyGenTypeOK'
  BY DEF KeyGenInv, KeyGenTypeOK, KeyGenFails, KeyGenGoto, NothingPrinted
<1>3. KeyOnItsWay'
  BY DEF KeyGenInv, KeyGenTypeOK, KeyOnItsWay, KeyGenFails, KeyGenGoto
<1>4. PrintedWasStored'
  BY <1>1 DEF KeyGenInv, PrintedWasStored
<1> QED
  BY <1>2, <1>3, <1>4 DEF KeyGenInv

LEMMA NextKeyGenInv == KeyGenInv /\ [KeyGenNext]_keyGenVars => KeyGenInv'
<1> SUFFICES ASSUME KeyGenInv, [KeyGenNext]_keyGenVars PROVE KeyGenInv'
  OBVIOUS
<1> USE DEF KeyGenInv, KeyGenTypeOK, KeyGenGoto
<1>1. ASSUME NEW h \in KeyGenHost, GenerateEcdsaKey(h) PROVE KeyGenInv'
  <2>1. CASE KeyGenFails(h)
    BY <1>1, <2>1, KeyGenFailsKeeps DEF GenerateEcdsaKey
  <2>2. CASE ~KeyGenFails(h)
    <3>1. PICK k \in EcdsaKey \ keyStored :
             /\ keyGenPc[h] = "start"
             /\ printed' = [printed EXCEPT ![h] = NothingPrinted]
             /\ transient' = [transient EXCEPT ![h] = k]
             /\ keyGenPc' = [keyGenPc EXCEPT ![h] = "create"]
             /\ UNCHANGED <<ecdsaKey, ecdsaOpen, keyStored>>
      BY <1>1, <2>2 DEF GenerateEcdsaKey
    <3>2. KeyGenTypeOK' /\ KeyOnItsWay'
      BY <3>1 DEF NothingPrinted, KeyOnItsWay
    <3>3. PrintedWasStored'
      BY <3>1 DEF PrintedWasStored
    <3> QED
      BY <3>2, <3>3
  <2> QED
    BY <2>1, <2>2
<1>2. ASSUME NEW h \in KeyGenHost, CreateEcdsaKey(h) PROVE KeyGenInv'
  <2>1. CASE KeyGenFails(h) /\ UNCHANGED <<ecdsaKey, keyStored, ecdsaOpen>>
    BY <1>2, <2>1, KeyGenFailsKeeps DEF CreateEcdsaKey
  <2>2. CASE ~(KeyGenFails(h) /\ UNCHANGED <<ecdsaKey, keyStored, ecdsaOpen>>)
    <3>1. /\ ecdsaKey' = transient[h] /\ keyStored' = keyStored \union {transient[h]}
          /\ ecdsaOpen' = h /\ UNCHANGED <<transient, printed>>
          /\ keyGenPc[h] = "create" /\ keyGenPc' = [keyGenPc EXCEPT ![h] = "close"]
          /\ transient[h] \in EcdsaKey
      BY <1>2, <2>2 DEF CreateEcdsaKey, KeyOnItsWay
    <3>2. KeyGenTypeOK' /\ KeyOnItsWay'
      BY <3>1 DEF KeyOnItsWay
    <3>3. PrintedWasStored'
      BY <3>1 DEF PrintedWasStored
    <3> QED
      BY <3>2, <3>3
  <2> QED
    BY <2>1, <2>2
<1>3. ASSUME NEW h \in KeyGenHost, CloseEcdsaKey(h) PROVE KeyGenInv'
  BY <1>3 DEF CloseEcdsaKey, KeyOnItsWay, PrintedWasStored
<1>4. ASSUME NEW h \in KeyGenHost, ReadCoordinates(h) PROVE KeyGenInv'
  <2>1. CASE KeyGenFails(h) /\ UNCHANGED printed
    BY <1>4, <2>1, KeyGenFailsKeeps DEF ReadCoordinates
  <2>2. CASE ~(KeyGenFails(h) /\ UNCHANGED printed)
    <3>1. /\ printed' = [printed EXCEPT ![h] = [x |-> transient[h], y |-> transient[h]]]
          /\ keyGenPc' = [keyGenPc EXCEPT ![h] = "done"]
          /\ transient' = [transient EXCEPT ![h] = NoEcdsaKey]
          /\ UNCHANGED <<ecdsaKey, ecdsaOpen, keyStored>>
          /\ transient[h] \in keyStored /\ transient[h] \in EcdsaKey /\ ecdsaKey \in keyStored
      BY <1>4, <2>2 DEF ReadCoordinates, KeyOnItsWay
    <3>2. KeyGenTypeOK' /\ KeyOnItsWay'
      BY <3>1 DEF KeyOnItsWay
    <3>3. PrintedWasStored'
      BY <3>1 DEF PrintedWasStored
    <3> QED
      BY <3>2, <3>3
  <2> QED
    BY <2>1, <2>2
<1>5. ASSUME NEW h \in KeyGenHost, KeyGenRestart(h) PROVE KeyGenInv'
  BY <1>5 DEF KeyGenRestart, KeyOnItsWay, PrintedWasStored
<1>6. CASE KeyGenReboot
  BY <1>6 DEF KeyGenReboot, KeyOnItsWay, PrintedWasStored
<1>7. CASE UNCHANGED keyGenVars
  BY <1>7 DEF keyGenVars, KeyOnItsWay, PrintedWasStored
<1> QED
  BY <1>1, <1>2, <1>3, <1>4, <1>5, <1>6, <1>7 DEF KeyGenNext

(***************************************************************************)
(* KeyGenInv is an invariant.                                              *)
(***************************************************************************)
THEOREM KeyGenInvariance == KeyGenSpec => []KeyGenInv
  BY InitKeyGenInv, NextKeyGenInv, PTL DEF KeyGenSpec

(***************************************************************************)
(* A public key that key_gen_ta.c handed out is one key's, and that key    *)
(* was stored, for any number of programs and power losses.                *)
(***************************************************************************)
THEOREM PrintedKeyStored == KeyGenSpec => []PrintedWasStored
<1>1. KeyGenInv => PrintedWasStored
  BY DEF KeyGenInv
<1> QED
  BY <1>1, KeyGenInvariance, PTL

-----------------------------------------------------------------------------

(***************************************************************************)
(* Reception.  What the server is about to send was made for the           *)
(* connection it serves.  ShownIsOwn alone is not inductive: response      *)
(* outlives the connection it was made for.                                *)
(***************************************************************************)
ReplyIsOwn == passt = "reply" => response \in confirm_reception(conn.client)

RInv == ReceptionTypeOK /\ ReplyIsOwn /\ ShownIsOwn

Clients == [Receiver -> [pc : {"ended", "connected", "waiting", "confirmed"},
                         sig : Receiver \union {NoReceiver}]]

LEMMA TypedQueue ==
  ASSUME ReceptionTypeOK
  PROVE  /\ backlog \in Seq(Connection) /\ Len(backlog) \in Nat /\ MaxBacklog \in Nat
         /\ rc \in Clients
         /\ conn \in [client : Receiver \union {NoReceiver}, live : BOOLEAN, data : BOOLEAN]
         /\ conn.live => conn.client \in Receiver
<1>1. backlog \in Seq(Connection) /\ rc \in Clients /\ conn \in Connection \union {NoConnection}
  BY DEF ReceptionTypeOK, Clients
<1>2. Len(backlog) \in Nat /\ MaxBacklog \in Nat
  BY <1>1, ReceptionConstants
<1>3. /\ conn \in [client : Receiver \union {NoReceiver}, live : BOOLEAN, data : BOOLEAN]
      /\ conn.live => conn.client \in Receiver
  <2>1. CASE conn \in Connection
    BY <2>1 DEF Connection
  <2>2. CASE conn = NoConnection
    BY <2>2 DEF NoConnection
  <2> QED
    BY <1>1, <2>1, <2>2
<1> QED
  BY <1>1, <1>2, <1>3

LEMMA RcEndsProperties ==
  ASSUME RInv, NEW clients \in SUBSET Receiver, rc' = RcEnds(clients, "ended")
  PROVE  rc' \in Clients /\ ShownIsOwn'
<1>1. rc \in Clients
  BY TypedQueue DEF RInv
<1>2. \A c \in Receiver :
        rc'[c] = IF c \in clients THEN [pc |-> "ended", sig |-> NoReceiver] ELSE rc[c]
  BY DEF RcEnds
<1>3. rc' \in Clients
  BY <1>1 DEF RcEnds, Clients
<1>4. \A c \in Receiver : rc'[c].sig # NoReceiver => rc'[c].sig = rc[c].sig
  BY <1>2
<1>5. ShownIsOwn'
  BY <1>4 DEF RInv, ShownIsOwn
<1> QED
  BY <1>3, <1>5

LEMMA ChangedProperties ==
  ASSUME RInv, NEW c \in Receiver, NEW live \in BOOLEAN, NEW data \in BOOLEAN,
         Changed(c, live, data)
  PROVE  /\ backlog' \in Seq(Connection) /\ Len(backlog') = Len(backlog)
         /\ conn' \in Connection \union {NoConnection}
         /\ conn'.client = conn.client
<1> DEFINE new == [client |-> c, live |-> live, data |-> data]
<1>1. new \in Connection
  BY DEF Connection
<1>2. backlog \in Seq(Connection) /\ conn \in Connection \union {NoConnection}
  BY DEF RInv, ReceptionTypeOK
<1>3. /\ backlog' = [i \in 1..Len(backlog) |-> IF i \in Open(c) THEN new ELSE backlog[i]]
      /\ conn' = IF conn.client = c /\ conn.live THEN new ELSE conn
  BY DEF Changed
<1>4. \A i \in 1..Len(backlog) : backlog[i] \in Connection
  BY <1>2
<1>5. Len(backlog) \in Nat
  BY <1>2
<1>6. backlog' \in [1..Len(backlog) -> Connection]
  BY <1>1, <1>3, <1>4
<1>7. backlog' \in Seq(Connection) /\ Len(backlog') = Len(backlog)
  BY <1>5, <1>6
<1>8. new.client = c
  OBVIOUS
<1> HIDE DEF new
<1> QED
  BY <1>1, <1>2, <1>3, <1>7, <1>8

-----------------------------------------------------------------------------
(***************************************************************************)
(* The clients                                                             *)
(***************************************************************************)
LEMMA ClientConnectsKeeps ==
  ASSUME RInv, NEW c \in Receiver, ClientConnects(c)
  PROVE  RInv'
<1>1. UNCHANGED <<passt, conn, response>>
  BY DEF ClientConnects
<1>2. ReplyIsOwn'
  BY <1>1 DEF RInv, ReplyIsOwn, confirm_reception
<1>3. /\ backlog \in Seq(Connection) /\ Len(backlog) \in Nat /\ MaxBacklog \in Nat
      /\ rc \in Clients
  BY TypedQueue DEF RInv
<1>4. CASE rc' = RcEnds({c}, "ended") /\ UNCHANGED backlog
  <2>1. rc' \in Clients /\ ShownIsOwn'
    BY <1>4, RcEndsProperties
  <2> QED
    BY <1>1, <1>2, <1>4, <2>1 DEF RInv, ReceptionTypeOK, Clients
<1>5. CASE /\ Len(backlog) < MaxBacklog
           /\ rc' = [rc EXCEPT ![c] = [pc |-> "connected", sig |-> NoReceiver]]
           /\ backlog' = Append(backlog, [client |-> c, live |-> TRUE, data |-> FALSE])
  <2>1. [client |-> c, live |-> TRUE, data |-> FALSE] \in Connection
    BY DEF Connection
  <2>2. backlog' \in Seq(Connection) /\ Len(backlog') <= MaxBacklog
    BY <1>3, <1>5, <2>1
  <2>3. rc' \in Clients
    BY <1>3, <1>5 DEF Clients
  <2>4. ShownIsOwn'
    BY <1>3, <1>5 DEF RInv, ShownIsOwn, Clients
  <2> QED
    BY <1>1, <1>2, <2>2, <2>3, <2>4 DEF RInv, ReceptionTypeOK, Clients
<1> QED
  BY <1>4, <1>5 DEF ClientConnects

LEMMA ClientSendsKeeps ==
  ASSUME RInv, NEW c \in Receiver, ClientSends(c)
  PROVE  RInv'
<1>1. UNCHANGED <<passt, response>> /\ Changed(c, TRUE, TRUE)
      /\ rc' = [rc EXCEPT ![c].pc = "waiting"]
  BY DEF ClientSends
<1>2. /\ backlog' \in Seq(Connection) /\ Len(backlog') = Len(backlog)
      /\ conn' \in Connection \union {NoConnection} /\ conn'.client = conn.client
  BY <1>1, ChangedProperties
<1>3. rc \in Clients
  BY TypedQueue DEF RInv
<1>4. rc' \in Clients
  BY <1>1, <1>3 DEF Clients
<1>5. \A k \in Receiver : rc'[k].sig = rc[k].sig
  BY <1>1, <1>3 DEF Clients
<1>6. ShownIsOwn'
  BY <1>5 DEF RInv, ShownIsOwn
<1>7. ReplyIsOwn'
  BY <1>1, <1>2 DEF RInv, ReplyIsOwn, confirm_reception
<1> QED
  BY <1>1, <1>2, <1>4, <1>6, <1>7 DEF RInv, ReceptionTypeOK, Clients

LEMMA ClientGivesUpKeeps ==
  ASSUME RInv, NEW c \in Receiver, ClientGivesUp(c)
  PROVE  RInv'
<1>1. UNCHANGED <<passt, response>> /\ Changed(c, FALSE, rc[c].pc = "waiting")
      /\ rc' = RcEnds({c}, "ended")
  BY DEF ClientGivesUp
<1>2. /\ backlog' \in Seq(Connection) /\ Len(backlog') = Len(backlog)
      /\ conn' \in Connection \union {NoConnection} /\ conn'.client = conn.client
  BY <1>1, ChangedProperties
<1>3. rc' \in Clients /\ ShownIsOwn'
  BY <1>1, RcEndsProperties
<1>4. ReplyIsOwn'
  BY <1>1, <1>2 DEF RInv, ReplyIsOwn, confirm_reception
<1> QED
  BY <1>1, <1>2, <1>3, <1>4 DEF RInv, ReceptionTypeOK, Clients

-----------------------------------------------------------------------------
(***************************************************************************)
(* The server: one connection after the other                              *)
(***************************************************************************)
LEMMA AcceptKeeps ==
  ASSUME RInv, Accept
  PROVE  RInv'
<1>1. backlog \in Seq(Connection) /\ Len(backlog) \in Nat /\ MaxBacklog \in Nat
  BY TypedQueue DEF RInv
<1>2. backlog # <<>> /\ conn' = Head(backlog) /\ backlog' = Tail(backlog) /\ passt' = "recv"
      /\ UNCHANGED <<response, rc>>
  BY DEF Accept
<1>3. Head(backlog) \in Connection /\ Tail(backlog) \in Seq(Connection)
      /\ Len(Tail(backlog)) = Len(backlog) - 1
  BY <1>1, <1>2, HeadTailProperties
<1>4. Len(backlog) <= MaxBacklog
  BY DEF RInv, ReceptionTypeOK
<1>5. Len(backlog') <= MaxBacklog
  BY <1>1, <1>2, <1>3, <1>4
<1> QED
  BY <1>2, <1>3, <1>5 DEF RInv, ReceptionTypeOK, ReplyIsOwn, ShownIsOwn

LEMMA CallTAKeeps ==
  ASSUME RInv, CallTA
  PROVE  RInv'
<1>1. /\ response' \in confirm_reception(conn.client) /\ passt' = "reply"
      /\ UNCHANGED <<conn, backlog, rc>>
  BY DEF CallTA
<1>2. ReplyIsOwn'
  BY <1>1 DEF ReplyIsOwn, confirm_reception
<1>3. response' \in Receiver \union {NoReceiver}
  BY <1>1, ReceptionConstants DEF confirm_reception
<1> QED
  BY <1>1, <1>2, <1>3 DEF RInv, ReceptionTypeOK, ShownIsOwn

LEMMA ReplyKeeps ==
  ASSUME RInv, Reply
  PROVE  RInv'
<1>1. /\ passt = "reply" /\ passt' = "accept" /\ conn' = NoConnection
      /\ UNCHANGED <<backlog, response>>
      /\ rc' = IF conn.live
               THEN [rc EXCEPT ![conn.client] = [pc |-> "confirmed", sig |-> response]]
               ELSE rc
  BY DEF Reply
<1>2. response \in {conn.client, NoReceiver}
      /\ (response # NoReceiver => conn.client \in DigestSized)
  BY <1>1, ReceptionConstants DEF RInv, ReplyIsOwn, confirm_reception
<1>3. rc \in Clients /\ (conn.live => conn.client \in Receiver)
      /\ response \in Receiver \union {NoReceiver}
  BY TypedQueue DEF RInv, ReceptionTypeOK
<1>4. rc' \in Clients
  BY <1>1, <1>3 DEF Clients
<1>5. ShownIsOwn'
  <2> SUFFICES ASSUME NEW c \in Receiver, rc'[c].sig # NoReceiver
               PROVE  rc'[c].sig = c /\ c \in DigestSized
    BY DEF ShownIsOwn
  <2>1. CASE rc'[c] = rc[c]
    BY <2>1 DEF RInv, ShownIsOwn
  <2>2. CASE rc'[c] # rc[c]
    <3>1. c = conn.client /\ rc'[c] = [pc |-> "confirmed", sig |-> response]
      BY <1>1, <1>3, <2>2 DEF Clients
    <3> QED
      BY <1>2, <3>1
  <2> QED
    BY <2>1, <2>2
<1> QED
  BY <1>1, <1>4, <1>5 DEF RInv, ReceptionTypeOK, ReplyIsOwn, Clients

LEMMA PasstEndsKeeps ==
  ASSUME RInv, PasstEnds
  PROVE  RInv'
<1>1. /\ passt' = "off" /\ conn' = NoConnection /\ backlog' = <<>> /\ response' = NoReceiver
      /\ rc' = RcEnds({c \in Receiver : rc[c].pc \in {"connected", "waiting"}}, "ended")
  BY DEF PasstEnds
<1>2. rc' \in Clients /\ ShownIsOwn'
  BY <1>1, RcEndsProperties
<1>3. Len(backlog') <= MaxBacklog /\ backlog' \in Seq(Connection)
  BY <1>1, ReceptionConstants, EmptySeq
<1> QED
  BY <1>1, <1>2, <1>3 DEF RInv, ReceptionTypeOK, ReplyIsOwn, Clients

-----------------------------------------------------------------------------
LEMMA InitRInv == ReceptionInit => RInv
<1> SUFFICES ASSUME ReceptionInit PROVE RInv
  OBVIOUS
<1>1. Len(backlog) <= MaxBacklog /\ backlog \in Seq(Connection)
  BY ReceptionConstants, EmptySeq DEF ReceptionInit
<1>2. rc = [c \in Receiver |-> [pc |-> "ended", sig |-> NoReceiver]]
  BY DEF ReceptionInit
<1> QED
  BY <1>1, <1>2 DEF ReceptionInit, RInv, ReceptionTypeOK, ReplyIsOwn, ShownIsOwn

LEMMA NextRInv == RInv /\ [ReceptionNext]_receptionVars => RInv'
<1> SUFFICES ASSUME RInv, [ReceptionNext]_receptionVars PROVE RInv'
  OBVIOUS
<1>1. ASSUME NEW c \in Receiver, ClientConnects(c) \/ ClientSends(c) \/ ClientGivesUp(c)
      PROVE  RInv'
  BY <1>1, ClientConnectsKeeps, ClientSendsKeeps, ClientGivesUpKeeps
<1>2. CASE PasstStarts
  BY <1>2 DEF PasstStarts, RInv, ReceptionTypeOK, ReplyIsOwn, ShownIsOwn
<1>3. CASE Accept \/ CallTA \/ Reply \/ PasstEnds
  BY <1>3, AcceptKeeps, CallTAKeeps, ReplyKeeps, PasstEndsKeeps
<1>4. CASE Receive
  BY <1>4 DEF Receive, RInv, ReceptionTypeOK, ReplyIsOwn, ShownIsOwn
<1>5. CASE UNCHANGED receptionVars
  BY <1>5 DEF receptionVars, RInv, ReceptionTypeOK, ReplyIsOwn, ShownIsOwn, confirm_reception
<1> QED
  BY <1>1, <1>2, <1>3, <1>4, <1>5 DEF ReceptionNext

(***************************************************************************)
(* The invariant of the service.                                           *)
(***************************************************************************)
THEOREM ReceptionInvariance == ReceptionSpec => []RInv
  BY InitRInv, NextRInv, PTL DEF ReceptionSpec

(***************************************************************************)
(* A client shows the signature of its own message or none                 *)
(* (passt.py:response_attestation, test_passt_ta.c:confirm_reception).     *)
(***************************************************************************)
THEOREM OwnSignature == ReceptionSpec => []ShownIsOwn
<1>1. RInv => ShownIsOwn
  BY DEF RInv
<1> QED
  BY <1>1, ReceptionInvariance, PTL

-----------------------------------------------------------------------------

(***************************************************************************)
(* MCExamples.  A behaviour of the run is a behaviour of each of the       *)
(* specifications: the one chosen at the start takes its steps, the others *)
(* stutter.                                                                *)
(***************************************************************************)
LEMMA EachIsOne ==
  Spec => /\ AesSpec /\ ShaSpec /\ NizkpSpec /\ StoreSpec /\ HotpSpec
          /\ CountSpec /\ KeyGenSpec /\ ReceptionSpec
<1>1. Init => /\ AesInit /\ ShaInit /\ NizkpInit /\ StoreInit /\ HotpInit
              /\ CountInit /\ KeyGenInit /\ ReceptionInit
  BY DEF Init
<1> DEFINE Vars == <<ta, aesVars, shaVars, nizkpVars, storeVars, hotpVars,
                     countVars, keyGenVars, receptionVars>>
<1>2. [Next]_Vars => /\ [AesNext]_aesVars /\ [ShaNext]_shaVars /\ [NizkpNext]_nizkpVars
                     /\ [StoreNext]_storeVars /\ [HotpNext]_hotpVars /\ [CountNext]_countVars
                     /\ [KeyGenNext]_keyGenVars /\ [ReceptionNext]_receptionVars
  BY DEF Next
<1> QED
  BY <1>1, <1>2, PTL DEF Spec, AesSpec, ShaSpec, NizkpSpec, StoreSpec, HotpSpec,
                         CountSpec, KeyGenSpec, ReceptionSpec

\* Every variable of every TA keeps its type, whichever TA runs and whatever
\* the values of the constants.
THEOREM TypesOfAll == Spec => []TypeOK
<1>1. SInv => StoreTypeOK
  BY DEF SInv
<1>2. HotpInv => HotpTypeOK
  BY DEF HotpInv
<1>3. CountInv => CountTypeOK
  BY DEF CountInv
<1>4. KeyGenInv => KeyGenTypeOK
  BY DEF KeyGenInv
<1>5. RInv => ReceptionTypeOK
  BY DEF RInv
<1>6. AesTypeOK /\ ShaTypeOK /\ NizkpTypeOK /\ StoreTypeOK /\ HotpTypeOK
         /\ CountTypeOK /\ KeyGenTypeOK /\ ReceptionTypeOK => TypeOK
  BY DEF TypeOK
<1> QED
  BY <1>1, <1>2, <1>3, <1>4, <1>5, <1>6, EachIsOne, AesTypes, ShaTypes, NizkpTypes,
     StoreInvariance, HotpInvariance, CountInvariance, KeyGenInvariance,
     ReceptionInvariance, PTL

=============================================================================
