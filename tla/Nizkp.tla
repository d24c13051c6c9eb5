------------------------------- MODULE Nizkp -------------------------------
(***************************************************************************)
(* The non-interactive Schnorr proofs: the prover                          *)
(* (optee_examples/schnorr_sFS_nizkp/ta/schnorrzkp_ta.c), its host program *)
(* (host/main.c), the agent and the server (ree_client.py, schnorr_verif.py*)
(* and schnorr_crypto.py of shared/schnorr_verification).                  *)
(*                                                                         *)
(* The curve is a group of small prime order: a point is its discrete      *)
(* logarithm, with two coordinates.  The numbers of 32 bytes have Width    *)
(* digits.  What the API writes is written in as few digits as the number  *)
(* needs (hazard of schnorrzkp_ta.c:197), from the left, over memory that  *)
(* was never initialised.  The hash is a random oracle without collisions. *)
(* Nothing is kept between two runs; one agent is one run.                 *)
(***************************************************************************)
EXTENDS Integers, Sequences

CONSTANTS
    Order,              \* n_bytes
    Base, Width,        \* the values of a byte, the bytes of a number
    Stale,              \* bound: what memory never initialised may hold
    private_x1, private_x2,
    XCoord, YCoord      \* the coordinates of a point

\* The powers of Base, as far as a number has digits.
BasePowers[k \in 0..Width] == IF k = 0 THEN 1 ELSE BasePowers[k - 1] * Base

Number == 0..(BasePowers[Width] - 1)
Scalar == 1..(Order - 1)

ASSUME NizkpConstants ==
    /\ Order \in Number \ {0, 1} /\ Base \in Nat \ {0, 1} /\ Width \in Nat \ {0}
    /\ Stale \subseteq Number
    /\ private_x1 \in Scalar /\ private_x2 \in Scalar
    /\ XCoord \in [Scalar -> Number] /\ YCoord \in [Scalar -> Number]
    /\ \A e, f \in Scalar : XCoord[e] = XCoord[f] /\ YCoord[e] = YCoord[f] => e = f

VARIABLES
    nizkpPc,        \* "start", "invoke", "sent", "done"
    nizkpMode,      \* sub_mode of the agent: "classic", "and" or "or"
    nizkpMsg,       \* whether the message has a colon
    nizkpDraw,      \* the values of this run: the nonces, the hash
    nizkpPacket,    \* the line of the host program
    nizkpVerdict    \* the answer of the server, or why there is none

nizkpVars == <<nizkpPc, nizkpMode, nizkpMsg, nizkpDraw, nizkpPacket, nizkpVerdict>>

NoDraw == [r1 |-> 1, r2 |-> 1, hash |-> 0]
NoPacket == [u |-> <<>>, z |-> <<>>, c |-> <<>>]

NizkpInit ==
    /\ nizkpPc = "start"
    /\ nizkpMode = "classic"
    /\ nizkpMsg = "plain"
    /\ nizkpDraw = NoDraw
    /\ nizkpPacket = NoPacket
    /\ nizkpVerdict = "none"

-----------------------------------------------------------------------------
(***************************************************************************)
(* Octet strings                                                           *)
(***************************************************************************)
Digits(v) == CHOOSE k \in 0..Width : v < BasePowers[k] /\ \A j \in 0..(k - 1) : v >= BasePowers[j]

\* What a buffer of Width digits holds after v was written to it by a call
\* that may write len digits: stale memory when that is not enough, and
\* stale memory behind the digits of v when they do not fill it.
Read(v, len) ==
    IF Digits(v) > len THEN Stale
    ELSE IF Digits(v) = Width THEN {v}
    ELSE LET free == BasePowers[Width - Digits(v)] IN {v * free + (s % free) : s \in Stale}

\* Calls that share their length variable: each leaves in it the digits its
\* number needs, and the next call may write no more.
ReadShared(vs) ==
    LET may(i) == Read(vs[i], IF i = 1 THEN Width ELSE Digits(vs[i - 1]))
    IN  {s \in [1..Len(vs) -> UNION {may(i) : i \in 1..Len(vs)}] :
            \A i \in 1..Len(vs) : s[i] \in may(i)}

Attributes(r) == <<XCoord[r], YCoord[r], r>>

\* Faulty variant: the nonce is subtracted.
ResponseMinus(c, x, r) == (c * x - r) % Order

\* TEE_BigIntMul, TEE_BigIntAdd, TEE_BigIntMod.
Response(c, x, r) == (c * x + r) % Order

-----------------------------------------------------------------------------
(***************************************************************************)
(* The TA: what it can put into its output buffers                         *)
(***************************************************************************)
Packet(u, z, c) == [u |-> u, z |-> z, c |-> c]

schnorr_sFS(d) ==
    UNION {{Packet(<<a[1], a[2]>>, <<z[1]>>, <<d.hash>>) :
                z \in ReadShared(<<Response(d.hash, private_x1, a[3])>>)} :
            a \in ReadShared(Attributes(d.r1))}

\* The length left by the attributes of the second nonce bounds z1, and that
\* of z1 bounds z2; the challenge is that of both attributes.
MultiAnd(d) ==
    LET Lines(a, b) ==
            {Packet(<<a[1], a[2], b[1], b[2]>>, <<z[2], z[3]>>, <<d.hash, d.hash>>) :
                z \in ReadShared(<<d.r2, Response(d.hash, private_x1, a[3]),
                                  Response(d.hash, private_x2, b[3])>>)}
    IN  UNION {UNION {Lines(a, b) : b \in ReadShared(Attributes(d.r2))} :
               a \in ReadShared(Attributes(d.r1))}

\* The second proof is drawn at random (here one draw: nothing looks at it
\* before the verdict), c1 is what is left of the hash.
MultiOr(d) ==
    LET c1 == (d.hash - d.r2) % Order
    IN  UNION {
            {Packet(<<a[1], a[2], d.r2, d.r2>>, <<s[3], d.r2>>, <<s[2], d.r2>>) :
                s \in ReadShared(<<d.r1, c1, Response(c1, private_x1, a[3])>>)} :
            a \in ReadShared(Attributes(d.r1))}

schnorr_multi_attribute(mode, d) == IF mode = "and" THEN MultiAnd(d) ELSE MultiOr(d)

-----------------------------------------------------------------------------
(***************************************************************************)
(* The agent and the host program                                          *)
(***************************************************************************)

\* The lines the host program may print for its mode.
host_main(mode, d) ==
    IF mode = "classic" THEN schnorr_sFS(d) ELSE schnorr_multi_attribute(mode, d)

\* main of the agent, which knows these three modes.
NizkpStart ==
    /\ nizkpPc = "start"
    /\ nizkpMode' \in {"classic", "and", "or"}
    /\ nizkpMsg' \in {"plain", "colon"}
    /\ \E r1, r2 \in Scalar, h \in Number :
          nizkpDraw' = [r1 |-> r1, r2 |-> r2, hash |-> h]
    /\ nizkpPc' = "invoke"
    /\ UNCHANGED <<nizkpPacket, nizkpVerdict>>

NizkpEnd(why) ==
    /\ nizkpPc' = "done"
    /\ nizkpVerdict' = why
    /\ nizkpPacket' = NoPacket
    /\ nizkpDraw' = NoDraw

\* The host ends with an error: the session is taken, or a call of the TA
\* fails.  The agent refuses a line whose message adds a field to it.
execute_nizkp ==
    /\ nizkpPc = "invoke"
    /\ \/ NizkpEnd("host failed")
       \/ nizkpMsg = "colon" /\ NizkpEnd("malformed")
       \/ /\ nizkpMsg = "plain"
          /\ nizkpPacket' \in host_main(nizkpMode, nizkpDraw)
          /\ nizkpPc' = "sent"
          /\ UNCHANGED <<nizkpDraw, nizkpVerdict>>
    /\ UNCHANGED <<nizkpMode, nizkpMsg>>

-----------------------------------------------------------------------------
(***************************************************************************)
(* The server                                                              *)
(***************************************************************************)

\* gen * z + X * (-c), as a multiple of the generator.
Commitment(z, c, x) == (z + x * (-c % Order)) % Order

Coordinates(e) == IF e \in Scalar THEN <<XCoord[e], YCoord[e]>> ELSE <<>>

\* Point() refuses what is not on the curve, with an exception.
OnCurve(u) == \E e \in Scalar : u = Coordinates(e)

verify_izkp_geometry(u, z, c) == u = Coordinates(Commitment(z, c, private_x1))

\* The hash the server computes is that of the prover, reduced, exactly when
\* the commitments it finds are those the prover hashed.  An exception in it
\* (a commitment that is the point at infinity) is caught inside and is False.
verify_multi_attribute_nizkp(p, hash) ==
    /\ nizkpMode = "and"
    /\ p.c[1] = p.c[2]
    /\ \A i \in 1..2 :
          Coordinates(Commitment(p.z[i], p.c[i], IF i = 1 THEN private_x1 ELSE private_x2))
              = <<p.u[2 * i - 1], p.u[2 * i]>>
    /\ p.c[1] = hash % Order

\* handle_client_data, the two NIZKP headers.  The answers for a message that
\* does not parse or a public key off the curve are left out: the agent sends
\* neither.
handle_client_data ==
    /\ nizkpPc = "sent"
    /\ LET p == nizkpPacket IN
       nizkpVerdict' = IF nizkpMode = "classic"
                       THEN IF ~OnCurve(p.u) THEN "ERROR"
                            ELSE IF verify_izkp_geometry(p.u, p.z[1], p.c[1])
                            THEN "SUCCESS" ELSE "FAILED"
                       ELSE IF verify_multi_attribute_nizkp(p, nizkpDraw.hash)
                            THEN "SUCCESS" ELSE "FAILED"
    /\ nizkpPc' = "done"
    /\ UNCHANGED <<nizkpMode, nizkpMsg, nizkpDraw, nizkpPacket>>

\* The agent prints the verdict and ends.
NizkpExit ==
    /\ nizkpPc = "done"
    /\ nizkpPc' = "start"
    /\ nizkpMode' = "classic"
    /\ nizkpMsg' = "plain"
    /\ nizkpDraw' = NoDraw
    /\ nizkpPacket' = NoPacket
    /\ nizkpVerdict' = "none"

NizkpNext == NizkpStart \/ NizkpExit \/ execute_nizkp \/ handle_client_data

NizkpSpec == NizkpInit /\ [][NizkpNext]_nizkpVars

-----------------------------------------------------------------------------
(***************************************************************************)
(* Properties                                                              *)
(***************************************************************************)

\* Every variable keeps its type: as many numbers of full width as the mode asks for.
NizkpTypeOK ==
    /\ nizkpPc \in {"start", "invoke", "sent", "done"}
    /\ nizkpPacket.z \in Seq(Number) /\ nizkpPacket.c \in Seq(Number)
    /\ nizkpPacket.u \in Seq(Number)
    /\ nizkpPc = "sent" => /\ Len(nizkpPacket.u) = 2 * Len(nizkpPacket.z)
                           /\ Len(nizkpPacket.z) = IF nizkpMode = "classic" THEN 1 ELSE 2

Whole(v) == Digits(v) = Width

\* The numbers of the run that are written to buffers, in each mode.
Written ==
    LET d  == nizkpDraw
        c1 == (d.hash - d.r2) % Order
        Of(r) == {XCoord[r], YCoord[r], r}
    IN  CASE nizkpMode = "classic" -> Of(d.r1) \union {Response(d.hash, private_x1, d.r1)}
          [] nizkpMode = "and" ->
                 Of(d.r1) \union Of(d.r2) \union {Response(d.hash, private_x1, d.r1),
                                                  Response(d.hash, private_x2, d.r2)}
          [] OTHER -> Of(d.r1) \union {c1, Response(c1, private_x1, d.r1)}

Judged(modes) ==
    /\ nizkpPc = "done" /\ nizkpPacket # NoPacket
    /\ nizkpMode \in modes
    /\ \A v \in Written : Whole(v)

\* An honest proof is accepted, for each nonce and hash, as long as every
\* number of it needs all the bytes of its buffer and the challenge of a
\* multi-attribute proof is below the order.
WholeIsAccepted ==
    Judged({"classic", "and"}) /\ (nizkpMode = "and" => nizkpDraw.hash < Order)
        => nizkpVerdict = "SUCCESS"

=============================================================================
