----------------------------- MODULE CounterCodec -----------------------------
(***************************************************************************)
(* 64-bit counters and what a save to the JSON file followed by a load     *)
(* makes of them.  The encoder writes an int64 digit by digit; the decoder *)
(* reads every JSON number as a float64 and the loader converts it back    *)
(* with int64(value).  A float64 keeps Precision significant bits, so a    *)
(* large counter comes back as the nearest representable number.           *)
(***************************************************************************)
EXTENDS Integers

CONSTANTS IntMin, IntMax,   \* range of an int64
          Precision         \* significant bits of a float64: 53

ASSUME IntRangeAssumption ==
  IntMin \in Int /\ IntMax \in Int /\ IntMin <= 0 /\ IntMax >= 0

ASSUME PrecisionAssumption == Precision \in Nat \ {0}

Int64 == IntMin .. IntMax

(* 2 ^ n, as a function that can be reasoned about. *)
Pow2[n \in Nat] == IF n = 0 THEN 1 ELSE 2 * Pow2[n - 1]

(* The integers are two's complement. *)
ASSUME WidthAssumption ==
  \E w \in 0 .. IntMax : IntMin = -Pow2[w] /\ IntMax = Pow2[w] - 1

(* Go's + on int64: two's complement, it wraps around silently. *)
Plus(a, b) == IntMin + ((a + b - IntMin) % (IntMax - IntMin + 1))

Magnitude(c) == IF c < 0 THEN -c ELSE c

(* The distance between neighbouring float64 values around the integer c. *)
Ulp(c) ==
  LET Fits(e) == Magnitude(c) < Pow2[Precision + e]
  IN IF Fits(0) THEN 1
     ELSE Pow2[CHOOSE e \in 1 .. IntMax - IntMin : Fits(e) /\ ~Fits(e - 1)]

(* The float64 nearest to the integer c; a tie goes to the even multiple. *)
ToFloat(c) ==
  LET u    == Ulp(c)
      q    == Magnitude(c) \div u
      r    == Magnitude(c) % u
      m    == IF 2 * r > u \/ (2 * r = u /\ q % 2 = 1) THEN q + 1 ELSE q
  IN IF c < 0 THEN -(m * u) ELSE m * u

(* A bug: a number that was read before is added to, as a second attempt   *)
(* of the load would. *)
AddingToInt(f) == IF f + f \in Int64 THEN {f + f} ELSE {IntMin, IntMax}

(* A bug: the sign is lost on the way through an unsigned integer. *)
SignlessToInt(f) == IF Magnitude(f) \in Int64 THEN {Magnitude(f)} ELSE {IntMin, IntMax}

(* A bug: the number goes through a shorter float, which keeps fewer bits. *)
ShortFloatToInt(f) ==
  LET g == IF Magnitude(f) < Pow2[Precision - 1] THEN f ELSE f - (f % 2)
  IN IF g \in Int64 THEN {g} ELSE {IntMin, IntMax}

(* int64(f): Go leaves the result to the platform when f is out of range;  *)
(* the ones it is built for give the smallest or the largest int64.        *)
ToInt(f) == IF f \in Int64 THEN {f} ELSE {IntMin, IntMax}

(* What a counter may be after it went through the file. *)
Decodings(c) == ToInt(ToFloat(c))
===============================================================================
