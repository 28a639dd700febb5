--------------------------- MODULE PtpTime_proofs ---------------------------
(***************************************************************************)
(* Proofs about PtpTime, for clocks of any width, any delays, residences   *)
(* and waits.                                                              *)
(***************************************************************************)
EXTENDS PtpTime, TLAPS

(* A time that fits into a clock, its lower part below 125. *)
Time == {u \in Nat : u < SIGN /\ Canonical(u)}

-----------------------------------------------------------------------------
(* Arithmetic of the two parts of a time. *)

LEMMA Parts ==
  \A u \in Nat : Canonical(u) =>
    \E us \in Nat, low \in 0 .. 124 :
      /\ u = 128 * us + low
      /\ Low(u) = low /\ High(u) = 128 * us
      /\ Ticks(u) = 125 * us + low
<1> TAKE u \in Nat
<1> HAVE Canonical(u)
<1>1. u \div 128 \in Nat /\ u % 128 \in 0 .. 124 /\ u = 128 * (u \div 128) + (u % 128)
  BY DEF Canonical, Low
<1> QED
  BY <1>1 DEF High, Low, Ticks

LEMMA PartsOf ==
  ASSUME NEW us \in Nat, NEW low \in 0 .. 124
  PROVE  LET u == 128 * us + low IN
         /\ u \in Nat /\ Canonical(u)
         /\ Low(u) = low /\ High(u) = 128 * us
         /\ Ticks(u) = 125 * us + low
BY DEF High, Low, Ticks, Canonical

LEMMA Width ==
  /\ SIGN \in Nat \ {0} /\ SIGN \div 128 \in Nat
  /\ SIGN = 128 * (SIGN \div 128)
  /\ WORD \in Nat /\ WORD = 65536 * SIGN
BY PtpTimeAssumption DEF WORD

LEMMA Unwrapped ==
  ASSUME NEW x \in Nat, x < WORD
  PROVE  Wrapped(x) = x
BY Width DEF Wrapped

(* ts_add adds, as long as the sum has 48 bits and one more. *)
LEMMA AddExact ==
  ASSUME NEW u1 \in Nat, NEW u2 \in Nat, Canonical(u1), Canonical(u2),
         u1 < 4 * SIGN, u2 < 4 * SIGN
  PROVE  /\ ts_add(u1, u2) \in Nat
         /\ Canonical(ts_add(u1, u2))
         /\ Ticks(ts_add(u1, u2)) = Ticks(u1) + Ticks(u2)
<1>a. PICK q1 \in Nat, r1 \in 0 .. 124 :
        u1 = 128 * q1 + r1 /\ Low(u1) = r1 /\ High(u1) = 128 * q1 /\ Ticks(u1) = 125 * q1 + r1
  BY Parts
<1>b. PICK q2 \in Nat, r2 \in 0 .. 124 :
        u2 = 128 * q2 + r2 /\ Low(u2) = r2 /\ High(u2) = 128 * q2 /\ Ticks(u2) = 125 * q2 + r2
  BY Parts
<1>2. Wrapped(High(u1) + High(u2)) = 128 * (q1 + q2)
  <2>1. High(u1) + High(u2) \in Nat /\ High(u1) + High(u2) < WORD
    BY <1>a, <1>b, Width
  <2> QED
    BY <1>a, <1>b, <2>1, Unwrapped
<1>3. CASE r1 + r2 > 124
  <2>1. r1 + r2 - 125 \in 0 .. 124 /\ q1 + q2 + 1 \in Nat
    BY <1>a, <1>b, <1>3
  <2>2. 128 * (q1 + q2) + (r1 + r2 + 3) = 128 * (q1 + q2 + 1) + (r1 + r2 - 125)
    BY <1>a, <1>b
  <2>3. 128 * (q1 + q2) + (r1 + r2 + 3) \in Nat /\ 128 * (q1 + q2) + (r1 + r2 + 3) < WORD
    BY <1>a, <1>b, Width
  <2>4. ts_add(u1, u2) = 128 * (q1 + q2 + 1) + (r1 + r2 - 125)
    BY <1>a, <1>b, <1>2, <1>3, <2>2, <2>3, Unwrapped DEF ts_add
  <2> DEFINE us == q1 + q2 + 1  low == r1 + r2 - 125
  <2>5. us \in Nat /\ low \in 0 .. 124 /\ ts_add(u1, u2) = 128 * us + low
    BY <2>1, <2>4
  <2>6. 125 * us + low = Ticks(u1) + Ticks(u2)
    BY <1>a, <1>b
  <2> HIDE DEF us, low
  <2> QED
    BY <2>5, <2>6, PartsOf
<1>4. CASE ~(r1 + r2 > 124)
  <2>1. r1 + r2 \in 0 .. 124 /\ q1 + q2 \in Nat
    BY <1>a, <1>b, <1>4
  <2>3. 128 * (q1 + q2) + (r1 + r2) \in Nat /\ 128 * (q1 + q2) + (r1 + r2) < WORD
    BY <1>a, <1>b, Width
  <2>4. ts_add(u1, u2) = 128 * (q1 + q2) + (r1 + r2)
    BY <1>a, <1>b, <1>2, <1>4, <2>3, Unwrapped DEF ts_add
  <2> DEFINE us == q1 + q2  low == r1 + r2
  <2>5. us \in Nat /\ low \in 0 .. 124 /\ ts_add(u1, u2) = 128 * us + low
    BY <2>1, <2>4
  <2>6. 125 * us + low = Ticks(u1) + Ticks(u2)
    BY <1>a, <1>b
  <2> HIDE DEF us, low
  <2> QED
    BY <2>5, <2>6, PartsOf
<1> QED
  BY <1>3, <1>4

(* Canonical times are ordered as the ticks they stand for. *)
LEMMA Monotone ==
  \A u, v \in Nat : Canonical(u) /\ Canonical(v) => (u < v <=> Ticks(u) < Ticks(v))
<1> TAKE u, v \in Nat
<1> HAVE Canonical(u) /\ Canonical(v)
<1>1. PICK q1 \in Nat, r1 \in 0 .. 124 : u = 128 * q1 + r1 /\ Ticks(u) = 125 * q1 + r1
  BY Parts
<1>2. PICK q2 \in Nat, r2 \in 0 .. 124 : v = 128 * q2 + r2 /\ Ticks(v) = 125 * q2 + r2
  BY Parts
<1>3. CASE q1 = q2
  BY <1>1, <1>2, <1>3
<1>4. CASE q1 < q2
  <2>1. q1 + 1 <= q2
    BY <1>4
  <2> QED
    BY <1>1, <1>2, <2>1
<1>5. CASE q1 > q2
  <2>1. q2 + 1 <= q1
    BY <1>5
  <2> QED
    BY <1>1, <1>2, <2>1
<1> QED
  BY <1>3, <1>4, <1>5

LEMMA TicksNat == \A u \in Nat : Ticks(u) \in Nat
BY DEF Ticks, Low

(* The bit above a time is a multiple of a microsecond. *)
LEMMA AboveTime ==
  \A u \in Nat : Canonical(u) =>
    /\ Canonical(u + SIGN)
    /\ Ticks(u + SIGN) = Ticks(u) + 125 * (SIGN \div 128)
<1> TAKE u \in Nat
<1> HAVE Canonical(u)
<1>1. PICK q \in Nat, r \in 0 .. 124 : u = 128 * q + r /\ Ticks(u) = 125 * q + r
  BY Parts
<1> DEFINE us == q + SIGN \div 128
<1>2. us \in Nat /\ u + SIGN = 128 * us + r
  BY <1>1, Width
<1>3. 125 * us + r = Ticks(u) + 125 * (SIGN \div 128)
  BY <1>1, Width
<1> HIDE DEF us
<1> QED
  BY <1>2, <1>3, PartsOf

(* The borrow of a subtraction. *)
LEMMA DistanceExact ==
  \A u1, u2 \in Nat :
    Canonical(u1) /\ Canonical(u2) /\ u1 < 4 * SIGN /\ u2 <= u1 =>
      /\ Distance(u1, u2) \in Nat
      /\ Canonical(Distance(u1, u2))
      /\ Ticks(Distance(u1, u2)) = Ticks(u1) - Ticks(u2)
<1> TAKE u1, u2 \in Nat
<1> HAVE Canonical(u1) /\ Canonical(u2) /\ u1 < 4 * SIGN /\ u2 <= u1
<1>1. PICK q1 \in Nat, r1 \in 0 .. 124 :
        u1 = 128 * q1 + r1 /\ Low(u1) = r1 /\ High(u1) = 128 * q1 /\ Ticks(u1) = 125 * q1 + r1
  BY Parts
<1>2. PICK q2 \in Nat, r2 \in 0 .. 124 :
        u2 = 128 * q2 + r2 /\ Low(u2) = r2 /\ High(u2) = 128 * q2 /\ Ticks(u2) = 125 * q2 + r2
  BY Parts
<1>3. q1 >= q2
  BY <1>1, <1>2
<1>4. CASE r1 < r2
  <2> DEFINE a == r1 + 125 - r2  us == q1 - q2 - 1  b == 128 * us
  <2>1. q1 > q2
    BY <1>1, <1>2, <1>4
  <2>2. a \in 0 .. 124 /\ us \in Nat /\ 0 \in 0 .. 124
    BY <1>4, <2>1
  <2>3. a = 128 * 0 + a /\ b = 128 * us + 0
    BY <2>2
  <2>4. High(u1) - 128 - High(u2) = b /\ Low(u1) + 125 - Low(u2) = a
    BY <1>1, <1>2
  <2>5. a \in Nat /\ a < WORD /\ a < 4 * SIGN /\ b < 4 * SIGN
    <3>1. SIGN >= 128
      BY Width
    <3> QED
      BY <1>1, <1>2, <2>2, <3>1, Width
  <2>6. 125 * us + a = Ticks(u1) - Ticks(u2)
    BY <1>1, <1>2
  <2> HIDE DEF us
  <2>7. b \in Nat /\ Canonical(b) /\ Ticks(b) = 125 * us
    BY <2>2, <2>3, PartsOf
  <2> HIDE DEF a, b
  <2>8. Canonical(a) /\ Ticks(a) = a
    BY <2>2, <2>3, PartsOf
  <2>9. Distance(u1, u2) = ts_add(a, b)
    <3>1. Wrapped(a) = a
      BY <2>5, Unwrapped
    <3> QED
      BY <1>1, <1>2, <1>4, <2>4, <3>1 DEF Distance
  <2> QED
    BY <2>2, <2>5, <2>6, <2>7, <2>8, <2>9, AddExact
<1>5. CASE ~(r1 < r2)
  <2> DEFINE us == q1 - q2  low == r1 - r2
  <2>1. us \in Nat /\ low \in 0 .. 124 /\ u1 - u2 = 128 * us + low
    BY <1>1, <1>2, <1>3, <1>5
  <2>2. 125 * us + low = Ticks(u1) - Ticks(u2)
    BY <1>1, <1>2
  <2>3. Distance(u1, u2) = 128 * us + low
    BY <1>1, <1>2, <1>5 DEF Distance
  <2> HIDE DEF us, low
  <2>4. us \in Nat /\ low \in 0 .. 124
    BY <2>1
  <2> QED
    BY <2>2, <2>3, <2>4, PartsOf
<1> QED
  BY <1>4, <1>5

(* What ts_sub returns: a magnitude, and the bit above it for a minus. *)
Magnitude(s, d) ==
  /\ s \in Nat
  /\ d >= 0 => s < SIGN /\ Canonical(s) /\ Ticks(s) = d
  /\ d < 0 => s > SIGN /\ Canonical(s - SIGN) /\ s - SIGN \in Nat /\ s - SIGN < SIGN
               /\ Ticks(s - SIGN) = -d

(* A part of a canonical time is no greater than it. *)
LEMMA Bounded ==
  \A u, v \in Nat : Canonical(u) /\ Canonical(v) /\ Ticks(u) <= Ticks(v) => u <= v
<1> TAKE u, v \in Nat
<1> HAVE Canonical(u) /\ Canonical(v) /\ Ticks(u) <= Ticks(v)
<1>1. ~(v < u)
  BY Monotone, TicksNat
<1> QED
  BY <1>1

(* ts_sub subtracts times. *)
LEMMA SubExact ==
  \A u1, u2 \in Time : Magnitude(ts_sub(u1, u2), Ticks(u1) - Ticks(u2))
<1> TAKE u1, u2 \in Time
<1>0. /\ u1 \in Nat /\ Canonical(u1) /\ u1 < SIGN /\ u1 < 4 * SIGN
      /\ u2 \in Nat /\ Canonical(u2) /\ u2 < SIGN /\ u2 < 4 * SIGN
      /\ Ticks(u1) \in Nat /\ Ticks(u2) \in Nat
  BY TicksNat, Width DEF Time
<1>1. CASE u2 <= u1
  <2>1. /\ Distance(u1, u2) \in Nat /\ Canonical(Distance(u1, u2))
        /\ Ticks(Distance(u1, u2)) = Ticks(u1) - Ticks(u2)
    BY <1>0, <1>1, DistanceExact
  <2>2. Distance(u1, u2) <= u1 /\ Ticks(Distance(u1, u2)) \in Nat
    BY <1>0, <2>1, Bounded, TicksNat
  <2>3. ts_sub(u1, u2) = Distance(u1, u2)
    BY <1>0, <1>1 DEF ts_sub
  <2>4. Ticks(u1) - Ticks(u2) >= 0
    BY <1>0, <2>1, <2>2
  <2> QED
    BY <1>0, <2>1, <2>2, <2>3, <2>4, Width DEF Magnitude
<1>2. CASE ~(u2 <= u1)
  <2> DEFINE d == Distance(u2, u1)
  <2>1. d \in Nat /\ Canonical(d) /\ Ticks(d) = Ticks(u2) - Ticks(u1)
    BY <1>0, <1>2, DistanceExact
  <2>2. d <= u2 /\ Ticks(d) \in Nat
    BY <1>0, <2>1, Bounded, TicksNat
  <2>3. Ticks(u1) < Ticks(u2)
    BY <1>0, <1>2, Monotone
  <2>4. d > 0
    <3>1. Ticks(0) = 0
      BY DEF Ticks, Low
    <3> HIDE DEF d
    <3> QED
      BY <1>0, <2>1, <2>3, <3>1
  <2>5. ts_sub(u1, u2) = Wrapped(d + SIGN)
    BY <1>0, <1>2 DEF ts_sub
  <2> HIDE DEF d
  <2>6. Wrapped(d + SIGN) = d + SIGN
    <3>1. d + SIGN \in Nat /\ d + SIGN < WORD
      BY <1>0, <2>1, <2>2, Width
    <3> QED
      BY <3>1, Unwrapped
  <2>7. ts_sub(u1, u2) - SIGN = d /\ ts_sub(u1, u2) > SIGN /\ ts_sub(u1, u2) \in Nat
    BY <2>1, <2>4, <2>5, <2>6, Width
  <2> QED
    BY <1>0, <2>1, <2>2, <2>3, <2>7, Width DEF Magnitude
<1> QED
  BY <1>0, <1>1, <1>2

-----------------------------------------------------------------------------
(* The offset. *)

(* Half of a canonical time as a binary number: up to half a tick less than
   half of the ticks, or one and a half more. *)
LEMMA Half ==
  \A s \in Nat : Canonical(s) =>
    /\ s \div 2 \in Nat
    /\ 2 * Ticks(s \div 2) - Ticks(s) \in -1 .. 3
<1> TAKE s \in Nat
<1> HAVE Canonical(s)
<1>1. PICK q \in Nat, r \in 0 .. 124 : s = 128 * q + r /\ Ticks(s) = 125 * q + r
  BY Parts
<1>2. PICK p \in Nat : q = 2 * p \/ q = 2 * p + 1
  <2>1. q \div 2 \in Nat /\ (q = 2 * (q \div 2) \/ q = 2 * (q \div 2) + 1)
    OBVIOUS
  <2> QED
    BY <2>1
<1>3. PICK h \in 0 .. 62 : r = 2 * h \/ r = 2 * h + 1
  <2>1. r \div 2 \in 0 .. 62 /\ (r = 2 * (r \div 2) \/ r = 2 * (r \div 2) + 1)
    OBVIOUS
  <2> QED
    BY <2>1
<1>4. CASE q = 2 * p
  <2>1. s \div 2 = 128 * p + h
    BY <1>1, <1>3, <1>4
  <2>2. Ticks(128 * p + h) = 125 * p + h
    BY PartsOf
  <2> QED
    BY <1>1, <1>3, <1>4, <2>1, <2>2
<1>5. CASE q = 2 * p + 1
  <2>1. s \div 2 = 128 * p + (64 + h)
    BY <1>1, <1>3, <1>5
  <2>2. Ticks(128 * p + (64 + h)) = 125 * p + (64 + h)
    BY DEF Ticks, Low
  <2> QED
    BY <1>1, <1>3, <1>5, <2>1, <2>2
<1> QED
  BY <1>2, <1>4, <1>5

(* The differences of the stamps of the two ways, of a Sync and a request. *)
WayThere(s) == ts_sub(s.t2, ts_add(s.t1, corr_trans(s.corr_ms)))
WayBack(s) == ts_sub(s.t4, ts_add(s.t3, corr_trans(s.corr_sm)))

(* offset_calu returns half of a canonical time of z ticks, and its sign. *)
HalfOf(o, z) ==
  \E twice \in Nat, flag \in {0, 1} :
    /\ o = [offset |-> twice \div 2, flag |-> flag]
    /\ Canonical(twice)
    /\ Ticks(twice) = IF flag = 0 THEN z ELSE -z

(* What offset_calu makes of the two differences of a slave, x on the way
   to it and y on the way back. *)
LEMMA OffsetTwice ==
  ASSUME NEW s, NEW x \in Int, NEW y \in Int,
         Magnitude(WayThere(s), x), Magnitude(WayBack(s), y)
  PROVE  HalfOf(offset_calu(s), x - y)
<1> DEFINE m == WayThere(s)
           n == WayBack(s)
           Result(twice, flag) == [offset |-> twice \div 2, flag |-> flag]
<1>1. offset_calu(s) =
        CASE m < SIGN /\ n < SIGN ->
               IF m >= n THEN Result(ts_sub(m, n), 0) ELSE Result(ts_sub(n, m), 1)
          [] m < SIGN /\ n > SIGN -> Result(ts_add(m, n - SIGN), 0)
          [] m > SIGN /\ n < SIGN -> Result(ts_add(m - SIGN, n), 1)
          [] OTHER -> IF Wrapped(m - SIGN) >= Wrapped(n - SIGN)
                      THEN Result(ts_sub(m, n), 1) ELSE Result(ts_sub(n, m), 0)
  BY DEF offset_calu, WayThere, WayBack
<1>2. Magnitude(m, x) /\ Magnitude(n, y)
  OBVIOUS
<1> HIDE DEF m, n
<1>3. \A twice \in Nat : Canonical(twice) =>
        /\ Ticks(twice) = x - y => HalfOf(Result(twice, 0), x - y)
        /\ Ticks(twice) = y - x => HalfOf(Result(twice, 1), x - y)
  <2> TAKE twice \in Nat
  <2> HAVE Canonical(twice)
  <2>1. ASSUME Ticks(twice) = x - y
        PROVE  HalfOf(Result(twice, 0), x - y)
    BY <2>1 DEF HalfOf
  <2>2. ASSUME Ticks(twice) = y - x
        PROVE  HalfOf(Result(twice, 1), x - y)
    <3>1. Ticks(twice) = IF 1 = 0 THEN x - y ELSE -(x - y)
      BY <2>2
    <3> QED
      BY <3>1 DEF HalfOf
  <2> QED
    BY <2>1, <2>2
<1> HIDE DEF Result
<1>4. /\ m \in Nat /\ n \in Nat
      /\ x >= 0 => m \in Time /\ m < 4 * SIGN /\ Canonical(m) /\ Ticks(m) = x
      /\ y >= 0 => n \in Time /\ n < 4 * SIGN /\ Canonical(n) /\ Ticks(n) = y
      /\ x < 0 => m > SIGN /\ m - SIGN \in Time /\ m - SIGN < 4 * SIGN
                  /\ Canonical(m - SIGN) /\ Ticks(m - SIGN) = -x
      /\ y < 0 => n > SIGN /\ n - SIGN \in Time /\ n - SIGN < 4 * SIGN
                  /\ Canonical(n - SIGN) /\ Ticks(n - SIGN) = -y
  BY <1>2, Width DEF Magnitude, Time
<1>5. CASE x >= 0 /\ y >= 0
  <2>0. m < SIGN /\ n < SIGN /\ ~(m > SIGN) /\ ~(n > SIGN) /\ m \in Nat /\ n \in Nat
    BY <1>4, <1>5, Width DEF Time
  <2>1. CASE m >= n
    <3>1. offset_calu(s) = Result(ts_sub(m, n), 0)
      BY <1>1, <2>0, <2>1
    <3>2. x >= y
      <4>1. ~(m < n) /\ Ticks(m) = x /\ Ticks(n) = y
        BY <1>4, <1>5, <2>0, <2>1
      <4> QED
        BY <1>4, <1>5, <2>0, <4>1, Monotone
    <3>3. Magnitude(ts_sub(m, n), x - y)
      BY <1>4, <1>5, SubExact
    <3>4. ts_sub(m, n) \in Nat /\ Canonical(ts_sub(m, n)) /\ Ticks(ts_sub(m, n)) = x - y
      BY <3>2, <3>3 DEF Magnitude
    <3> QED
      BY <1>3, <3>1, <3>4
  <2>2. CASE ~(m >= n)
    <3>1. offset_calu(s) = Result(ts_sub(n, m), 1)
      BY <1>1, <2>0, <2>2
    <3>2. x < y
      BY <1>4, <1>5, <2>2, Monotone
    <3>3. Magnitude(ts_sub(n, m), y - x)
      BY <1>4, <1>5, SubExact
    <3>4. ts_sub(n, m) \in Nat /\ Canonical(ts_sub(n, m)) /\ Ticks(ts_sub(n, m)) = y - x
      BY <3>2, <3>3 DEF Magnitude
    <3> QED
      BY <1>3, <3>1, <3>4
  <2> QED
    BY <2>1, <2>2
<1>6. CASE x >= 0 /\ y < 0
  <2>1. offset_calu(s) = Result(ts_add(m, n - SIGN), 0)
    <3>1. m < SIGN /\ n > SIGN /\ ~(n < SIGN)
      BY <1>4, <1>6, Width DEF Time
    <3> QED
      BY <1>1, <3>1
  <2>2. LET twice == ts_add(m, n - SIGN) IN
          twice \in Nat /\ Canonical(twice) /\ Ticks(twice) = x - y
    <3>1. n - SIGN \in Nat
      BY <1>4, <1>6 DEF Time
    <3> DEFINE v == n - SIGN
    <3>2. v \in Nat /\ v < 4 * SIGN /\ Canonical(v) /\ Ticks(v) = -y
      BY <1>4, <1>6, <3>1
    <3> HIDE DEF v
    <3>3. /\ ts_add(m, v) \in Nat /\ Canonical(ts_add(m, v))
          /\ Ticks(ts_add(m, v)) = x - y
      BY <1>4, <1>6, <3>2, AddExact
    <3> QED
      BY <3>3 DEF v
  <2> QED
    BY <1>3, <2>1, <2>2
<1>7. CASE x < 0 /\ y >= 0
  <2>1. offset_calu(s) = Result(ts_add(m - SIGN, n), 1)
    <3>1. n < SIGN /\ m > SIGN /\ ~(m < SIGN)
      BY <1>4, <1>7, Width DEF Time
    <3> QED
      BY <1>1, <3>1
  <2>2. LET twice == ts_add(m - SIGN, n) IN
          twice \in Nat /\ Canonical(twice) /\ Ticks(twice) = y - x
    <3>1. m - SIGN \in Nat
      BY <1>4, <1>7 DEF Time
    <3> DEFINE v == m - SIGN
    <3>2. v \in Nat /\ v < 4 * SIGN /\ Canonical(v) /\ Ticks(v) = -x
      BY <1>4, <1>7, <3>1
    <3> HIDE DEF v
    <3>3. /\ ts_add(v, n) \in Nat /\ Canonical(ts_add(v, n))
          /\ Ticks(ts_add(v, n)) = y - x
      BY <1>4, <1>7, <3>2, AddExact
    <3> QED
      BY <3>3 DEF v
  <2> QED
    BY <1>3, <2>1, <2>2
<1>8. CASE x < 0 /\ y < 0
  <2> DEFINE a == m - SIGN  b == n - SIGN
  <2>1. /\ a \in Time /\ a \in Nat /\ Canonical(a) /\ Ticks(a) = -x /\ m = a + SIGN
        /\ b \in Time /\ b \in Nat /\ Canonical(b) /\ Ticks(b) = -y /\ n = b + SIGN
        /\ a < SIGN /\ b < SIGN /\ m > SIGN /\ n > SIGN
    BY <1>4, <1>8, Width DEF Time
  <2>2. Wrapped(m - SIGN) = a /\ Wrapped(n - SIGN) = b
    <3>1. a < WORD /\ b < WORD
      BY <2>1, Width
    <3> QED
      BY <2>1, <3>1, Unwrapped
  <2> HIDE DEF a, b
  <2>3. /\ Canonical(m) /\ Ticks(m) = -x + 125 * (SIGN \div 128)
        /\ Canonical(n) /\ Ticks(n) = -y + 125 * (SIGN \div 128)
        /\ m < 4 * SIGN /\ n < 4 * SIGN
    BY <2>1, AboveTime, Width
  <2>4. CASE a >= b
    <3>1. offset_calu(s) = Result(ts_sub(m, n), 1)
      <4>1. ~(m < SIGN) /\ ~(n < SIGN)
        BY <2>1, Width
      <4> QED
        BY <1>1, <2>2, <2>4, <4>1
    <3>2. m >= n
      BY <2>1, <2>4, Width
    <3>3. ts_sub(m, n) = Distance(m, n)
      BY <3>2 DEF ts_sub
    <3>4. Distance(m, n) \in Nat /\ Canonical(Distance(m, n))
          /\ Ticks(Distance(m, n)) = Ticks(m) - Ticks(n)
      BY <1>4, <2>3, <3>2, DistanceExact
    <3>5. Ticks(m) - Ticks(n) = y - x
      BY <2>3, Width
    <3> QED
      BY <1>3, <3>1, <3>3, <3>4, <3>5
  <2>5. CASE ~(a >= b)
    <3>1. offset_calu(s) = Result(ts_sub(n, m), 0)
      <4>1. ~(m < SIGN) /\ ~(n < SIGN)
        BY <2>1, Width
      <4> QED
        BY <1>1, <2>2, <2>5, <4>1
    <3>2. n >= m
      BY <2>1, <2>5, Width
    <3>3. ts_sub(n, m) = Distance(n, m)
      BY <3>2 DEF ts_sub
    <3>4. Distance(n, m) \in Nat /\ Canonical(Distance(n, m))
          /\ Ticks(Distance(n, m)) = Ticks(n) - Ticks(m)
      BY <1>4, <2>3, <3>2, DistanceExact
    <3>5. Ticks(n) - Ticks(m) = x - y
      BY <2>3, Width
    <3> QED
      BY <1>3, <3>1, <3>3, <3>4, <3>5
  <2> QED
    BY <2>4, <2>5
<1> QED
  BY <1>5, <1>6, <1>7, <1>8

LEMMA OffsetExact ==
  ASSUME NEW o, NEW z \in Int, HalfOf(o, z)
  PROVE  Meant(o) \in Int /\ 2 * Meant(o) - z \in -3 .. 3
<1>1. PICK twice \in Nat, flag \in {0, 1} :
        /\ o = [offset |-> twice \div 2, flag |-> flag]
        /\ Canonical(twice)
        /\ Ticks(twice) = IF flag = 0 THEN z ELSE -z
  BY DEF HalfOf
<1>2. /\ twice \div 2 \in Nat /\ Ticks(twice \div 2) \in Nat /\ Ticks(twice) \in Nat
      /\ 2 * Ticks(twice \div 2) - Ticks(twice) \in -1 .. 3
  BY <1>1, Half, TicksNat
<1>3. Meant(o) = IF flag = 0 THEN Ticks(twice \div 2) ELSE -Ticks(twice \div 2)
  BY <1>1 DEF Meant
<1> QED
  BY <1>1, <1>2, <1>3

-----------------------------------------------------------------------------
(* The clocks. *)

LEMMA Modulo ==
  /\ \A x \in Int : x % SIGN \in 0 .. SIGN - 1
  /\ \A x \in Nat : x < SIGN => x % SIGN = x
BY Width

LEMMA ClockRange ==
  \A high, low \in Int : Clock(high, low) \in 0 .. SIGN - 1
BY Modulo, Width DEF Clock

LEMMA ShowExact ==
  \A t \in Nat : Show(t) \in Nat /\ Canonical(Show(t)) /\ Ticks(Show(t)) = t
<1> TAKE t \in Nat
<1> DEFINE us == t \div 125  low == t % 125
<1>1. us \in Nat /\ low \in 0 .. 124 /\ t = 125 * us + low
  OBVIOUS
<1>2. Show(t) = 128 * us + low
  BY DEF Show
<1> HIDE DEF us, low
<1> QED
  BY <1>1, <1>2, PartsOf

(* How far a clock gets within k ticks. *)
LEMMA ShowBelow ==
  \A us, low, t, k \in Nat :
    low <= 124 /\ t <= 125 * us + low + k => Show(t) < 128 * us + 128 + Show(k)
<1> TAKE us, low, t, k \in Nat
<1> HAVE low <= 124 /\ t <= 125 * us + low + k
<1> DEFINE p == k \div 125  s == k % 125
<1>1. p \in Nat /\ s \in 0 .. 124 /\ k = 125 * p + s
  OBVIOUS
<1>2. Show(k) = 128 * p + s
  BY DEF Show
<1> HIDE DEF p, s
<1> DEFINE v == us + 1 + p
<1>3. v \in Nat /\ 128 * us + 128 + Show(k) = 128 * v + s /\ t < 125 * v + s
  BY <1>1, <1>2
<1> HIDE DEF v
<1>4. 128 * v + s \in Nat /\ Canonical(128 * v + s) /\ Ticks(128 * v + s) = 125 * v + s
  <2>1. v \in Nat /\ s \in 0 .. 124
    BY <1>1, <1>3
  <2> QED
    BY <2>1, PartsOf
<1> DEFINE w == 128 * v + s
<1>5. w \in Nat /\ Canonical(w) /\ Ticks(w) = 125 * v + s
  BY <1>4
<1> HIDE DEF w
<1>6. Show(t) < w
  BY <1>1, <1>3, <1>5, ShowExact, Monotone
<1> QED
  BY <1>3, <1>6 DEF w

LEMMA ElapseExact ==
  \A c, k \in Nat : Canonical(c) /\ ~Ends(c, k) =>
    /\ Elapse(c, k) \in Time
    /\ Ticks(Elapse(c, k)) = Ticks(c) + k
<1> TAKE c, k \in Nat
<1> HAVE Canonical(c) /\ ~Ends(c, k)
<1>1. PICK q \in Nat, r \in 0 .. 124 : c = 128 * q + r /\ High(c) = 128 * q /\ Ticks(c) = 125 * q + r
  BY Parts
<1>2. Elapse(c, k) = Show(Ticks(c) + k)
  BY DEF Elapse
<1>3. Ticks(c) + k \in Nat
  BY <1>1
<1>4. Show(Ticks(c) + k) < 128 * q + 128 + Show(k)
  <2> DEFINE t == Ticks(c) + k
  <2>1. t \in Nat /\ r \in Nat /\ r <= 124 /\ t <= 125 * q + r + k
    BY <1>1
  <2> HIDE DEF t
  <2>2. Show(t) < 128 * q + 128 + Show(k)
    BY <2>1, ShowBelow
  <2> QED
    BY <2>2 DEF t
<1>5. Show(Ticks(c) + k) < SIGN
  BY <1>1, <1>3, <1>4, ShowExact, Width DEF Ends
<1> QED
  BY <1>2, <1>3, <1>5, ShowExact DEF Time

LEMMA ElapseRange ==
  \A c \in 0 .. SIGN - 1, k \in Nat : ~Ends(c, k) => Elapse(c, k) \in 0 .. SIGN - 1
<1> TAKE c \in 0 .. SIGN - 1, k \in Nat
<1> HAVE ~Ends(c, k)
<1>1. CASE Canonical(c)
  BY <1>1, ElapseExact, Width DEF Time
<1>2. CASE ~Canonical(c)
  <2> DEFINE q == c \div 128  r == c % 128
  <2>1. /\ q \in Nat /\ r \in 125 .. 127 /\ c = 128 * q + r
        /\ Low(c) = r /\ High(c) = 128 * q
    BY <1>2, Width DEF Canonical, High, Low
  <2> HIDE DEF q, r
  <2>2. Show(k) \in Nat /\ 128 * q + 128 + Show(k) < SIGN
    BY <2>1, ShowExact, Width DEF Ends
  <2>3. CASE r + k < 128
    <3>1. Elapse(c, k) = c + k
      BY <1>2, <2>1, <2>3 DEF Elapse
    <3> QED
      BY <2>1, <2>2, <2>3, <3>1, Width
  <2>4. CASE ~(r + k < 128)
    <3> DEFINE t == 125 * q + k - (128 - r)
    <3>1. t \in Nat /\ t <= 125 * q + 0 + k /\ 0 \in Nat /\ 0 <= 124
      BY <2>1, <2>4
    <3>2. Elapse(c, k) = Show(t)
      <4>1. Ticks(128 * q) = 125 * q
        BY <2>1 DEF Ticks, Low
      <4> QED
        BY <1>2, <2>1, <2>4, <4>1 DEF Elapse
    <3> HIDE DEF t
    <3>3. Show(t) \in Nat /\ Show(t) < 128 * q + 128 + Show(k)
      BY <2>1, <3>1, ShowBelow, ShowExact
    <3>4. Show(t) \in 0 .. SIGN - 1
      BY <2>1, <2>2, <3>3, Width
    <3> QED
      BY <3>2, <3>4
  <2> QED
    BY <2>3, <2>4
<1> QED
  BY <1>1, <1>2

LEMMA Injective ==
  \A u, v \in Nat : Canonical(u) /\ Canonical(v) /\ Ticks(u) = Ticks(v) => u = v
<1> TAKE u, v \in Nat
<1> HAVE Canonical(u) /\ Canonical(v) /\ Ticks(u) = Ticks(v)
<1>1. ~(u < v) /\ ~(v < u)
  BY Monotone, TicksNat
<1> QED
  BY <1>1

(* A tick of a canonical clock. *)
LEMMA CountExact ==
  \A c \in Time : Show(Ticks(c) + 1) < SIGN => Count(c) = Show(Ticks(c) + 1)
<1> TAKE c \in Time
<1> HAVE Show(Ticks(c) + 1) < SIGN
<1>1. PICK q \in Nat, r \in 0 .. 124 :
        c = 128 * q + r /\ Low(c) = r /\ High(c) = 128 * q /\ Ticks(c) = 125 * q + r
  BY Parts DEF Time
<1> DEFINE e == Show(Ticks(c) + 1)
<1>2. e \in Nat /\ Canonical(e) /\ Ticks(e) = 125 * q + r + 1 /\ e < SIGN
  BY <1>1, ShowExact
<1> HIDE DEF e
<1>3. CASE r = 124
  <2> DEFINE us == q + 1  v == 128 * us + 0
  <2>1. us \in Nat /\ 0 \in 0 .. 124 /\ 125 * us + 0 = Ticks(e)
    BY <1>2, <1>3
  <2>2. High(c) + 128 + (0 % 128) = v
    BY <1>1
  <2> HIDE DEF us
  <2>3. v \in Nat /\ Canonical(v) /\ Ticks(v) = 125 * us + 0
    BY <2>1, PartsOf
  <2> HIDE DEF v
  <2>4. v = e
    BY <1>2, <2>1, <2>3, Injective
  <2>5. Count(c) = v % SIGN
    BY <1>1, <1>3, <2>2 DEF Count, Clock
  <2> QED
    BY <1>2, <2>4, <2>5, Modulo DEF e
<1>4. CASE r # 124
  <2> DEFINE low == r + 1  v == 128 * q + low
  <2>1. low \in 0 .. 124 /\ 125 * q + low = Ticks(e) /\ low % 128 = low
    BY <1>1, <1>2, <1>4
  <2>2. High(c) + (low % 128) = v
    BY <1>1, <2>1
  <2>5. Count(c) = v % SIGN
    BY <1>1, <1>4, <2>2 DEF Count, Clock
  <2> HIDE DEF low
  <2>3. v \in Nat /\ Canonical(v) /\ Ticks(v) = 125 * q + low
    BY <2>1, PartsOf
  <2> HIDE DEF v
  <2>4. v = e
    BY <1>2, <2>1, <2>3, Injective
  <2> QED
    BY <1>2, <2>4, <2>5, Modulo DEF e
<1> QED
  BY <1>3, <1>4

LEMMA CountCanonical ==
  \A c \in Time : ~Ends(c, 1) => Count(c) \in Time
<1> TAKE c \in Time
<1> HAVE ~Ends(c, 1)
<1>1. c \in Nat /\ Canonical(c) /\ 1 \in Nat
  BY DEF Time
<1>2. Elapse(c, 1) = Show(Ticks(c) + 1)
  BY <1>1 DEF Elapse
<1>3. Show(Ticks(c) + 1) \in Time
  BY <1>1, <1>2, ElapseExact
<1> QED
  BY <1>3, CountExact DEF Time

LEMMA EndsLater ==
  \A c, k \in Nat : ~Ends(c, k + 1) => ~Ends(c, k)
<1> TAKE c, k \in Nat
<1> HAVE ~Ends(c, k + 1)
<1>1. Show(k) < Show(k + 1)
  BY ShowExact, Monotone
<1> QED
  BY <1>1, ShowExact, Width DEF Ends, High

(* Elapse is the clock of global_time_sync, tick by tick. *)
THEOREM ElapseCounts ==
  \A c \in 0 .. SIGN - 1, k \in Nat : ~Ends(c, k + 1) =>
    /\ Elapse(c, 0) = c
    /\ Elapse(c, k + 1) = Count(Elapse(c, k))
<1> TAKE c \in 0 .. SIGN - 1, k \in Nat
<1> HAVE ~Ends(c, k + 1)
<1>0. c \in Nat /\ k + 1 \in Nat /\ ~Ends(c, k) /\ Ticks(c) \in Nat
  BY EndsLater, TicksNat
<1>1. CASE Canonical(c)
  <2>1. Elapse(c, 0) = c
    <3>1. Elapse(c, 0) = Show(Ticks(c) + 0)
      BY <1>1 DEF Elapse
    <3> QED
      BY <1>0, <1>1, <3>1, ShowExact, Injective
  <2> DEFINE e == Elapse(c, k)
  <2>2. e \in Time /\ Ticks(e) = Ticks(c) + k
    BY <1>0, <1>1, ElapseExact
  <2>3. Elapse(c, k + 1) \in Time /\ Elapse(c, k + 1) = Show(Ticks(c) + (k + 1))
    BY <1>0, <1>1, ElapseExact DEF Elapse
  <2> HIDE DEF e
  <2>4. Ticks(c) + (k + 1) = Ticks(e) + 1
    BY <1>0, <2>2
  <2>5. Count(e) = Show(Ticks(e) + 1)
    BY <2>2, <2>3, <2>4, CountExact DEF Time
  <2> QED
    BY <2>1, <2>3, <2>4, <2>5 DEF e
<1>2. CASE ~Canonical(c)
  <2> DEFINE q == c \div 128  r == c % 128
  <2>1. /\ q \in Nat /\ r \in 125 .. 127 /\ c = 128 * q + r
        /\ Low(c) = r /\ High(c) = 128 * q
    BY <1>2, Width DEF Canonical, High, Low
  <2> HIDE DEF q, r
  <2>2. Show(k + 1) \in Nat /\ 128 * q + 128 + Show(k + 1) < SIGN
    <3>1. ~(High(c) + 128 + Show(k + 1) >= SIGN)
      BY DEF Ends
    <3>2. Show(k + 1) \in Nat
      BY <1>0, ShowExact
    <3> QED
      BY <2>1, <3>1, <3>2, Width
  <2>3. Elapse(c, 0) = c
    BY <1>2, <2>1 DEF Elapse
  <2>4. CASE r + k < 128
    <3>1. Elapse(c, k) = 128 * q + (r + k)
      BY <1>2, <2>1, <2>4 DEF Elapse
    <3>2. Low(128 * q + (r + k)) = r + k /\ High(128 * q + (r + k)) = 128 * q
      BY <2>1, <2>4 DEF Low, High
    <3>3. Count(Elapse(c, k)) = (128 * q + ((r + k + 1) % 128)) % SIGN
      BY <2>1, <3>1, <3>2 DEF Count, Clock
    <3>4. CASE r + k < 127
      <4>1. (r + k + 1) % 128 = r + k + 1
        BY <2>1, <3>4
      <4>2. 128 * q + (r + k + 1) \in Nat /\ 128 * q + (r + k + 1) < SIGN
        BY <2>1, <2>2, <3>4, Width
      <4>3. Elapse(c, k + 1) = 128 * q + (r + k + 1)
        BY <1>2, <2>1, <3>4 DEF Elapse
      <4> QED
        BY <2>3, <3>3, <4>1, <4>2, <4>3, Modulo
    <3>5. CASE r + k = 127
      <4>1. (r + k + 1) % 128 = 0
        BY <2>1, <3>5
      <4>2. 128 * q \in Nat /\ 128 * q < SIGN
        BY <2>1, <2>2, Width
      <4>3. Count(Elapse(c, k)) = 128 * q
        BY <2>1, <3>3, <4>1, <4>2, Modulo
      <4>4. Elapse(c, k + 1) = Show(Ticks(128 * q) + (k + 1) - (128 - r))
        BY <1>2, <2>1, <3>5 DEF Elapse
      <4>5. Canonical(128 * q) /\ Ticks(128 * q) \in Nat
        BY <2>1 DEF Canonical, Low, Ticks
      <4>6. Ticks(128 * q) + (k + 1) - (128 - r) = Ticks(128 * q)
        BY <2>1, <3>5, <4>5
      <4>7. Show(Ticks(128 * q)) = 128 * q
        BY <4>2, <4>5, ShowExact, Injective
      <4> QED
        BY <2>3, <4>3, <4>4, <4>6, <4>7
    <3> QED
      BY <2>1, <2>4, <3>4, <3>5
  <2>5. CASE ~(r + k < 128)
    <3> DEFINE t == Ticks(128 * q) + k - (128 - r)
    <3>1. Ticks(128 * q) = 125 * q /\ t \in Nat
      BY <2>1, <2>5 DEF Ticks, Low
    <3>2. Elapse(c, k) = Show(t)
      BY <1>2, <2>1, <2>5 DEF Elapse
    <3>3. Elapse(c, k + 1) = Show(t + 1)
      <4>1. Elapse(c, k + 1) = Show(Ticks(128 * q) + (k + 1) - (128 - r))
        BY <1>2, <2>1, <2>5 DEF Elapse
      <4>2. Ticks(128 * q) + (k + 1) - (128 - r) = t + 1
        BY <2>1, <3>1
      <4> QED
        BY <4>1, <4>2
    <3>4. Elapse(c, k) \in 0 .. SIGN - 1 /\ Elapse(c, k + 1) \in 0 .. SIGN - 1
      BY <1>0, ElapseRange
    <3> HIDE DEF t
    <3> DEFINE e == Show(t)
    <3>5. e \in Time /\ Ticks(e) = t /\ Show(t + 1) < SIGN
      BY <3>1, <3>2, <3>3, <3>4, ShowExact, Width DEF Time
    <3> HIDE DEF e
    <3>6. Count(e) = Show(t + 1)
      BY <3>5, CountExact
    <3> QED
      BY <2>3, <3>2, <3>3, <3>6 DEF e
  <2> QED
    BY <2>4, <2>5
<1> QED
  BY <1>1, <1>2

-----------------------------------------------------------------------------
(* Types: whatever the stamps are, the register holds 49 bits. *)

LEMMA AddInt == \A u1, u2 \in Int : ts_add(u1, u2) \in Int
<1> TAKE u1, u2 \in Int
<1>1. \A x \in Int : Wrapped(x) \in Int
  BY Width DEF Wrapped
<1>2. High(u1) + High(u2) \in Int /\ Low(u1) + Low(u2) \in Int
  BY DEF High, Low
<1> DEFINE high == High(u1) + High(u2)  low == Low(u1) + Low(u2)
<1>3. ts_add(u1, u2) = Wrapped(Wrapped(high) + IF low > 124 THEN low + 3 ELSE low)
  BY DEF ts_add
<1>4. high \in Int /\ low \in Int
  BY <1>2
<1> HIDE DEF high, low
<1> QED
  BY <1>1, <1>3, <1>4

LEMMA SubInt == \A u1, u2 \in Int : ts_sub(u1, u2) \in Int
<1>1. \A x \in Int : Wrapped(x) \in Int
  BY Width DEF Wrapped
<1>2. \A u1, u2 \in Int : Distance(u1, u2) \in Int
  <2> TAKE u1, u2 \in Int
  <2>1. Low(u1) + 125 - Low(u2) \in Int /\ High(u1) - 128 - High(u2) \in Int
    BY DEF High, Low
  <2> DEFINE a == Low(u1) + 125 - Low(u2)  b == High(u1) - 128 - High(u2)
  <2>2. ts_add(Wrapped(a), b) \in Int
    <3> HIDE DEF a, b
    <3>1. a \in Int /\ b \in Int
      BY <2>1 DEF a, b
    <3> QED
      BY <1>1, <3>1, AddInt
  <2>3. Distance(u1, u2) = IF Low(u1) < Low(u2) THEN ts_add(Wrapped(a), b) ELSE u1 - u2
    BY DEF Distance
  <2> HIDE DEF a, b
  <2> QED
    BY <2>2, <2>3
<1> QED
  BY <1>1, <1>2, Width DEF ts_sub

Stamps == [t1 : Nat, t2 : Nat, corr_ms : Nat, t3 : Nat, t4 : Nat, corr_sm : Nat]

LEMMA OffsetInt ==
  \A s \in Stamps :
    offset_calu(s).offset \in Int /\ OffsetRegister(offset_calu(s)) \in Int
<1> TAKE s \in Stamps
<1> DEFINE m == ts_sub(s.t2, ts_add(s.t1, corr_trans(s.corr_ms)))
           n == ts_sub(s.t4, ts_add(s.t3, corr_trans(s.corr_sm)))
           Result(twice, flag) == [offset |-> twice \div 2, flag |-> flag]
<1>1. m \in Int /\ n \in Int
  <2>1. /\ s.t1 \in Int /\ s.t2 \in Int /\ s.t3 \in Int /\ s.t4 \in Int
        /\ s.corr_ms \in Int /\ s.corr_sm \in Int
    BY DEF Stamps
  <2>2. corr_trans(s.corr_ms) \in Int /\ corr_trans(s.corr_sm) \in Int
    BY <2>1 DEF corr_trans
  <2> QED
    BY <2>1, <2>2, AddInt, SubInt
<1>2. offset_calu(s) =
        CASE m < SIGN /\ n < SIGN ->
               IF m >= n THEN Result(ts_sub(m, n), 0) ELSE Result(ts_sub(n, m), 1)
          [] m < SIGN /\ n > SIGN -> Result(ts_add(m, n - SIGN), 0)
          [] m > SIGN /\ n < SIGN -> Result(ts_add(m - SIGN, n), 1)
          [] OTHER -> IF Wrapped(m - SIGN) >= Wrapped(n - SIGN)
                      THEN Result(ts_sub(m, n), 1) ELSE Result(ts_sub(n, m), 0)
  BY DEF offset_calu
<1> HIDE DEF m, n
<1>3. /\ ts_sub(m, n) \in Int /\ ts_sub(n, m) \in Int
      /\ ts_add(m, n - SIGN) \in Int /\ ts_add(m - SIGN, n) \in Int
  <2>1. m - SIGN \in Int /\ n - SIGN \in Int
    BY <1>1, Width
  <2> QED
    BY <1>1, <2>1, AddInt, SubInt
<1>4. \A twice \in Int, flag \in {0, 1} :
        /\ Result(twice, flag).offset \in Int
        /\ OffsetRegister(Result(twice, flag)) \in Int
  BY Width DEF OffsetRegister
<1> HIDE DEF Result
<1>5. \E twice \in Int, flag \in {0, 1} : offset_calu(s) = Result(twice, flag)
  <2>1. 0 \in {0, 1} /\ 1 \in {0, 1}
    OBVIOUS
  <2>2. CASE m < SIGN /\ n < SIGN
    BY <1>2, <1>3, <2>1, <2>2
  <2>3. CASE m < SIGN /\ n > SIGN
    <3>1. ~(n < SIGN) /\ ~(m > SIGN)
      BY <1>1, <2>3, Width
    <3> QED
      BY <1>2, <1>3, <2>1, <2>3, <3>1
  <2>4. CASE m > SIGN /\ n < SIGN
    <3>1. ~(m < SIGN) /\ ~(n > SIGN)
      BY <1>1, <2>4, Width
    <3> QED
      BY <1>2, <1>3, <2>1, <2>4, <3>1
  <2>5. CASE /\ ~(m < SIGN /\ n < SIGN) /\ ~(m < SIGN /\ n > SIGN)
             /\ ~(m > SIGN /\ n < SIGN)
    BY <1>2, <1>3, <2>1, <2>5
  <2> QED
    BY <2>2, <2>3, <2>4, <2>5
<1> QED
  BY <1>4, <1>5

LEMMA CorrectedRange ==
  \A c \in Nat, register \in Int : Corrected(c, register) \in 0 .. SIGN - 1
<1> TAKE c \in Nat, register \in Int
<1>1. \A x \in Int : High(x) \in Int /\ Low(x) \in 0 .. 127
  BY DEF High, Low
<1>2. \A o \in Int : Forward(c, o) \in 0 .. SIGN - 1
  <2> TAKE o \in Int
  <2>1. /\ High(c) + High(o) \in Int /\ High(c) + High(o) + 128 \in Int
        /\ Low(c) + Low(o) - 124 \in Int /\ Low(c) + Low(o) + 1 \in Int
    BY DEF High, Low
  <2>2. /\ Clock(High(c) + High(o) + 128, Low(c) + Low(o) - 124) \in 0 .. SIGN - 1
        /\ Clock(High(c) + High(o), Low(c) + Low(o) + 1) \in 0 .. SIGN - 1
    BY <2>1, ClockRange
  <2> QED
    BY <2>2 DEF Forward
<1>3. \A o \in Int : Back(c, o) \in 0 .. SIGN - 1
  <2> TAKE o \in Int
  <2> DEFINE high == High(c) - High(o)  low == Low(c) - Low(o)
  <2>1. high \in Int /\ low \in Int
    BY DEF High, Low
  <2>2. Back(c, o) = CASE low = 124 -> Clock(high + 128, 0)
                       [] low >= 0 /\ low # 124 -> Clock(high, low + 1)
                       [] low = -1 -> Clock(high, 0)
                       [] low < -1 -> Clock(high - 128, low + 126)
    BY DEF Back
  <2> HIDE DEF high, low
  <2>3. /\ high + 128 \in Int /\ high - 128 \in Int /\ low + 1 \in Int /\ low + 126 \in Int
        /\ 0 \in Int
    BY <2>1
  <2>4. /\ Clock(high + 128, 0) \in 0 .. SIGN - 1 /\ Clock(high, low + 1) \in 0 .. SIGN - 1
        /\ Clock(high, 0) \in 0 .. SIGN - 1 /\ Clock(high - 128, low + 126) \in 0 .. SIGN - 1
    BY <2>1, <2>3, ClockRange
  <2>5. CASE low = 124
    BY <2>2, <2>4, <2>5
  <2>6. CASE low >= 0 /\ low # 124
    BY <2>2, <2>4, <2>6
  <2>7. CASE low = -1
    BY <2>2, <2>4, <2>7
  <2>8. CASE low < -1
    BY <2>2, <2>4, <2>8
  <2> QED
    BY <2>1, <2>5, <2>6, <2>7, <2>8
<1> QED
  BY <1>2, <1>3, Width DEF Corrected

-----------------------------------------------------------------------------
(* The invariant: what the stamps of a round say of the clocks. *)

LEMMA CorrTransShow == \A r \in Nat : corr_trans(r) = Show(r)
BY DEF corr_trans, Show

(* The stamps of a Sync that came to a canonical clock differ, without its
   residence, by the slave's lead and the delay. *)
ThereIsTrue ==
  phase \in {"synced", "waited", "measured", "answered"} /\ sound =>
    Canonical(slave) /\ Magnitude(WayThere(stamps), Ahead + delay.ms)

(* Those of the request by the delay without the lead. *)
BackIsTrue ==
  phase \in {"measured", "answered"} /\ sound =>
    Magnitude(WayBack(stamps), delay.sm - Ahead)

(* A round that has begun will still be counted. *)
RoundsLeft == phase \notin {"corrected", "due"} => rounds < MaxRounds

IInv == TypeOK /\ RoundsLeft /\ ThereIsTrue /\ BackIsTrue

(* A way of d ticks on the wires and r in switches, from u to v, between
   clocks that differ by x: the difference of the stamps is x + d. *)
LEMMA WayExact ==
  ASSUME NEW u \in Time, NEW v \in Time, NEW r \in Nat, NEW d \in Nat, NEW x \in Int,
         NEW w \in Time, Ticks(u) + r + d <= Ticks(w),
         Ticks(v) = Ticks(u) + r + d + x
  PROVE  Magnitude(ts_sub(v, ts_add(u, corr_trans(r))), x + d)
<1> DEFINE e == Show(r)  s == ts_add(u, e)
<1>1. corr_trans(r) = e /\ e \in Nat /\ Canonical(e) /\ Ticks(e) = r
  BY CorrTransShow, ShowExact
<1> HIDE DEF e
<1>2. /\ u \in Nat /\ Canonical(u) /\ u < SIGN /\ w \in Nat /\ Canonical(w) /\ w < SIGN
      /\ Ticks(u) \in Nat /\ Ticks(w) \in Nat
  BY TicksNat DEF Time
<1>3. e <= w
  BY <1>1, <1>2, Bounded
<1>4. s \in Nat /\ Canonical(s) /\ Ticks(s) = Ticks(u) + r
  BY <1>1, <1>2, <1>3, AddExact, Width
<1> HIDE DEF s
<1>5. s <= w
  BY <1>2, <1>4, Bounded
<1>6. s \in Time
  BY <1>2, <1>4, <1>5, Width DEF Time
<1>7. Magnitude(ts_sub(v, s), Ticks(v) - Ticks(s))
  BY <1>6, SubExact
<1>8. Ticks(v) - Ticks(s) = x + d
  BY <1>2, <1>4
<1> QED
  BY <1>1, <1>7, <1>8 DEF s

LEMMA AheadInt == ASSUME TypeOK PROVE Ahead \in Int
<1>1. master \in Nat /\ slave \in Nat
  BY Width DEF TypeOK
<1> QED
  BY <1>1, TicksNat DEF Ahead

LEMMA InvImplies == IInv => OffsetIsRight
<1> SUFFICES ASSUME IInv, phase \in {"measured", "answered"}, sound
             PROVE  2 * Abs(Computed - Ahead) <= Abs(delay.ms - delay.sm) + 3
  BY DEF OffsetIsRight
<1>1. delay.ms \in Nat /\ delay.sm \in Nat /\ Ahead \in Int
  BY AheadInt DEF IInv, TypeOK
<1> DEFINE x == Ahead + delay.ms  y == delay.sm - Ahead
<1>2. Magnitude(WayThere(stamps), x) /\ Magnitude(WayBack(stamps), y)
  BY DEF IInv, ThereIsTrue, BackIsTrue
<1>3. x \in Int /\ y \in Int /\ x - y \in Int /\ x - y = 2 * Ahead + (delay.ms - delay.sm)
  BY <1>1
<1> HIDE DEF x, y
<1>4. HalfOf(offset_calu(stamps), x - y)
  BY <1>2, <1>3, OffsetTwice
<1>5. Computed \in Int /\ 2 * Computed - (x - y) \in -3 .. 3
  BY <1>3, <1>4, OffsetExact DEF Computed
<1> QED
  BY <1>1, <1>3, <1>5 DEF Abs

LEMMA StartInTime ==
  \A t \in 0 .. 125 * (SIGN \div 128) - 1 : Show(t) \in Time
<1> TAKE t \in 0 .. 125 * (SIGN \div 128) - 1
<1>1. SIGN \in Nat /\ Canonical(SIGN) /\ Ticks(SIGN) = 125 * (SIGN \div 128)
  <2> DEFINE us == SIGN \div 128
  <2>1. us \in Nat /\ 0 \in 0 .. 124 /\ SIGN = 128 * us + 0 /\ 125 * us + 0 = 125 * us
    BY Width
  <2> HIDE DEF us
  <2>2. SIGN \in Nat /\ Canonical(SIGN) /\ Ticks(SIGN) = 125 * us
    BY <2>1, PartsOf
  <2> QED
    BY <2>2 DEF us
<1>2. t \in Nat /\ t < Ticks(SIGN)
  BY <1>1, Width
<1>3. Show(t) < SIGN
  BY <1>1, <1>2, ShowExact, Monotone
<1> QED
  BY <1>2, <1>3, ShowExact DEF Time

LEMMA InitInv == Init => IInv
<1> SUFFICES ASSUME Init PROVE IInv
  OBVIOUS
<1>1. PICK p \in Starts : master = Show(p[1]) /\ slave = Show(p[2])
  BY DEF Init
<1>2. p[1] \in 0 .. 125 * (SIGN \div 128) - 1 /\ p[2] \in 0 .. 125 * (SIGN \div 128) - 1
  BY PtpTimeAssumption
<1>3. master \in Time /\ slave \in Time
  BY <1>1, <1>2, StartInTime
<1>4. TypeOK
  <2>1. /\ master \in 0 .. SIGN - 1 /\ slave \in 0 .. SIGN - 1
        /\ Canonical(master)
    BY <1>3, Width DEF Time
  <2>2. 0 \in 0 .. MaxRounds
    BY PtpTimeAssumption
  <2> QED
    BY <2>1, <2>2 DEF Init, TypeOK
<1> QED
  BY <1>4 DEF Init, IInv, RoundsLeft, ThereIsTrue, BackIsTrue

(* While k ticks pass the master stays a time, and the lead of a canonical
   slave stays what it is. *)
LEMMA PassKeeps ==
  ASSUME TypeOK, NEW k \in Nat, Pass(k)
  PROVE  /\ master' \in Time /\ Ticks(master') = Ticks(master) + k
         /\ slave' \in 0 .. SIGN - 1
         /\ Canonical(slave) => /\ slave' \in Time
                                /\ Ticks(slave') = Ticks(slave) + k
                                /\ Ahead' = Ahead
<1>1. /\ master \in Nat /\ Canonical(master) /\ slave \in Nat /\ slave \in 0 .. SIGN - 1
      /\ Ticks(master) \in Nat /\ Ticks(slave) \in Nat
  BY TicksNat, Width DEF TypeOK
<1>2. master' \in Time /\ Ticks(master') = Ticks(master) + k
  BY <1>1, ElapseExact DEF Pass
<1>3. slave' \in 0 .. SIGN - 1
  BY <1>1, ElapseRange DEF Pass
<1>4. ASSUME Canonical(slave)
      PROVE  slave' \in Time /\ Ticks(slave') = Ticks(slave) + k
  BY <1>1, <1>4, ElapseExact DEF Pass
<1>5. ASSUME Canonical(slave)
      PROVE  Ahead' = Ahead
  <2>1. Ahead' = Ticks(slave') - Ticks(master')
    BY DEF Ahead, Ticks, Low
  <2> QED
    BY <1>1, <1>2, <1>4, <1>5, <2>1 DEF Ahead
<1> QED
  BY <1>2, <1>3, <1>4, <1>5

(* A request that leaves a canonical slave. *)
LEMMA BackExact ==
  ASSUME TypeOK, slave \in Time, NEW d \in Nat, NEW r \in Nat, Pass(d + r)
  PROVE  Magnitude(ts_sub(master', ts_add(slave, corr_trans(r))), d - Ahead)
<1>1. Canonical(slave) /\ Ahead \in Int /\ d + r \in Nat
  BY AheadInt DEF Time
<1>2. /\ master' \in Time /\ Ticks(master') = Ticks(master) + (d + r)
      /\ slave' \in Time /\ Ticks(slave') = Ticks(slave) + (d + r)
  BY <1>1, PassKeeps
<1>3. Ticks(master) \in Nat /\ Ticks(slave) \in Nat
  BY TicksNat, Width DEF TypeOK
<1> DEFINE x == -Ahead
<1>4. /\ x \in Int /\ x + d = d - Ahead
      /\ Ticks(slave) + r + d <= Ticks(slave')
      /\ Ticks(master') = Ticks(slave) + r + d + x
  BY <1>1, <1>2, <1>3 DEF Ahead
<1> HIDE DEF x
<1>5. Magnitude(ts_sub(master', ts_add(slave, corr_trans(r))), x + d)
  BY <1>2, <1>4, WayExact
<1> QED
  BY <1>4, <1>5

LEMMA SyncInv ==
  ASSUME IInv, NEW d \in Delays, NEW r \in Residences, Sync(d, r)
  PROVE  IInv'
<1>1. /\ d \in Nat /\ r \in Nat /\ d + r \in Nat /\ TypeOK /\ Pass(d + r)
      /\ phase' = "synced" /\ rounds' = rounds /\ sound' = Canonical(slave')
      /\ asymmetric' = asymmetric
      /\ stamps' = [stamps EXCEPT !.t1 = master, !.t2 = slave', !.corr_ms = r]
      /\ delay' = [delay EXCEPT !.ms = d]
  BY PtpTimeAssumption DEF IInv, Sync
<1>2. /\ master' \in Time /\ Ticks(master') = Ticks(master) + (d + r)
      /\ slave' \in 0 .. SIGN - 1
  BY <1>1, PassKeeps
<1>3. /\ stamps'.t1 = master /\ stamps'.t2 = slave' /\ stamps'.corr_ms = r
      /\ delay'.ms = d
      /\ stamps' \in [t1 : Nat, t2 : Nat, corr_ms : Nat, t3 : Nat, t4 : Nat, corr_sm : Nat]
      /\ delay' \in [ms : Nat, sm : Nat]
  <2>1. master \in Nat /\ slave' \in Nat
    BY <1>1, <1>2, Width DEF TypeOK
  <2> QED
    BY <1>1, <2>1 DEF TypeOK
<1>4. TypeOK'
  <2>1. Canonical(master')
    BY <1>2 DEF Time
  <2> QED
    BY <1>1, <1>2, <1>3, <2>1, Width DEF TypeOK, Time, Canonical, Low
<1>5. ThereIsTrue'
  <2> SUFFICES ASSUME sound'
               PROVE  Canonical(slave') /\ Magnitude(WayThere(stamps)', Ahead' + delay'.ms)
    BY DEF ThereIsTrue, Canonical, Low, Ticks, Time
  <2>1. Canonical(slave') /\ slave' \in Time
    BY <1>1, <1>2, Width DEF Time
  <2>2. master \in Time /\ Ticks(master) \in Nat /\ Ticks(slave') \in Nat
    BY <1>1, <2>1, TicksNat, Width DEF TypeOK, Time
  <2> DEFINE x == Ahead'
  <2>3. x \in Int /\ Ticks(slave') = Ticks(master) + r + d + x
        /\ Ticks(master) + r + d <= Ticks(master')
    <3>1. x = Ticks(slave') - Ticks(master')
      BY DEF Ahead, Ticks, Low
    <3> HIDE DEF x
    <3> QED
      BY <1>1, <1>2, <2>2, <3>1
  <2>4. WayThere(stamps)' = ts_sub(slave', ts_add(master, corr_trans(r)))
    BY <1>3 DEF WayThere
  <2> HIDE DEF x
  <2>5. Magnitude(ts_sub(slave', ts_add(master, corr_trans(r))), x + d)
    BY <1>1, <1>2, <2>1, <2>2, <2>3, WayExact
  <2> QED
    BY <1>3, <2>1, <2>4, <2>5 DEF x
<1>6. BackIsTrue'
  BY <1>1 DEF BackIsTrue
<1>7. RoundsLeft'
  BY <1>1 DEF IInv, RoundsLeft, Sync
<1> QED
  BY <1>4, <1>5, <1>6, <1>7 DEF IInv

LEMMA TimePassesInv ==
  ASSUME IInv, NEW k \in Waits, TimePasses(k)
  PROVE  IInv'
<1>1. /\ k \in Nat /\ TypeOK /\ Pass(k)
      /\ \/ phase = "corrected" /\ phase' = "due"
         \/ phase = "synced" /\ phase' = "waited"
         \/ phase = "measured" /\ phase' = "answered"
      /\ rounds' = rounds /\ sound' = sound
      /\ asymmetric' = asymmetric /\ stamps' = stamps /\ delay' = delay
  BY PtpTimeAssumption DEF IInv, TimePasses, Later
<1>2. /\ master' \in Time /\ slave' \in 0 .. SIGN - 1
      /\ Canonical(slave) => slave' \in Time /\ Ahead' = Ahead
  BY <1>1, PassKeeps
<1>4. TypeOK'
  <2>1. master' \in 0 .. SIGN - 1 /\ Canonical(master')
    BY <1>2, Width DEF Time
  <2>2. phase' \in {"corrected", "due", "synced", "waited", "measured", "answered"}
    BY <1>1
  <2> QED
    BY <1>1, <1>2, <2>1, <2>2 DEF TypeOK, Canonical, Low
<1>5. ThereIsTrue'
  <2> SUFFICES ASSUME phase' \in {"synced", "waited", "measured", "answered"}, sound
               PROVE  Canonical(slave') /\ Magnitude(WayThere(stamps), Ahead' + delay.ms)
    BY <1>1 DEF ThereIsTrue, WayThere, Canonical, Low
  <2>1. Canonical(slave) /\ Magnitude(WayThere(stamps), Ahead + delay.ms)
    BY <1>1 DEF IInv, ThereIsTrue
  <2> QED
    BY <1>2, <2>1 DEF Time
<1>6. BackIsTrue'
  <2> SUFFICES ASSUME phase' \in {"measured", "answered"}, sound
               PROVE  Magnitude(WayBack(stamps), delay.sm - Ahead')
    BY <1>1 DEF BackIsTrue, WayBack
  <2>1. Canonical(slave) /\ Magnitude(WayBack(stamps), delay.sm - Ahead)
    BY <1>1 DEF IInv, ThereIsTrue, BackIsTrue
  <2> QED
    BY <1>2, <2>1
<1>7. RoundsLeft'
  BY <1>1 DEF IInv, RoundsLeft
<1> QED
  BY <1>4, <1>5, <1>6, <1>7 DEF IInv

LEMMA RequestInv ==
  ASSUME IInv, NEW d \in Delays, NEW r \in Residences, Request(d, r)
  PROVE  IInv'
<1>1. /\ d \in Nat /\ r \in Nat /\ d + r \in Nat /\ TypeOK /\ Pass(d + r)
      /\ phase = "waited" /\ phase' = "measured" /\ rounds' = rounds /\ sound' = sound
      /\ asymmetric' \in BOOLEAN
      /\ stamps' = [stamps EXCEPT !.t3 = slave, !.t4 = master', !.corr_sm = r]
      /\ delay' = [delay EXCEPT !.sm = d]
  <2>1. asymmetric \in BOOLEAN
    BY DEF IInv, TypeOK
  <2> QED
    BY <2>1, PtpTimeAssumption DEF IInv, Request
<1>2. /\ master' \in Time /\ Ticks(master') = Ticks(master) + (d + r)
      /\ slave' \in 0 .. SIGN - 1
      /\ Canonical(slave) => /\ slave' \in Time
                             /\ Ticks(slave') = Ticks(slave) + (d + r)
                             /\ Ahead' = Ahead
  BY <1>1, PassKeeps
<1>3. /\ stamps'.t1 = stamps.t1 /\ stamps'.t2 = stamps.t2
      /\ stamps'.corr_ms = stamps.corr_ms /\ delay'.ms = delay.ms
      /\ stamps'.t3 = slave /\ stamps'.t4 = master' /\ stamps'.corr_sm = r
      /\ delay'.sm = d
      /\ stamps' \in [t1 : Nat, t2 : Nat, corr_ms : Nat, t3 : Nat, t4 : Nat, corr_sm : Nat]
      /\ delay' \in [ms : Nat, sm : Nat]
  <2>1. master' \in Nat /\ slave \in Nat
    BY <1>1, <1>2, Width DEF TypeOK, Time
  <2> QED
    BY <1>1, <2>1 DEF TypeOK
<1>4. TypeOK'
  <2>1. Canonical(master')
    BY <1>2 DEF Time
  <2> QED
    BY <1>1, <1>2, <1>3, <2>1, Width DEF TypeOK, Time, Canonical, Low
<1>5. ThereIsTrue'
  <2> SUFFICES ASSUME sound
               PROVE  Canonical(slave') /\ Magnitude(WayThere(stamps), Ahead' + delay.ms)
    BY <1>1, <1>3 DEF ThereIsTrue, WayThere, Canonical, Low
  <2>1. Canonical(slave) /\ Magnitude(WayThere(stamps), Ahead + delay.ms)
    BY <1>1 DEF IInv, ThereIsTrue
  <2> QED
    BY <1>2, <2>1 DEF Time
<1>6. BackIsTrue'
  <2> SUFFICES ASSUME sound
               PROVE  Magnitude(WayBack(stamps)', delay'.sm - Ahead')
    BY <1>1 DEF BackIsTrue
  <2>1. Canonical(slave) /\ slave \in Time
    BY <1>1, Width DEF IInv, ThereIsTrue, TypeOK, Time
  <2>2. WayBack(stamps)' = ts_sub(master', ts_add(slave, corr_trans(r)))
    BY <1>3 DEF WayBack
  <2>3. Magnitude(ts_sub(master', ts_add(slave, corr_trans(r))), d - Ahead)
    BY <1>1, <1>2, <2>1, BackExact
  <2> QED
    BY <1>2, <1>3, <2>1, <2>2, <2>3
<1>7. RoundsLeft'
  BY <1>1 DEF IInv, RoundsLeft, Request
<1> QED
  BY <1>4, <1>5, <1>6, <1>7 DEF IInv

LEMMA CorrectInv ==
  ASSUME IInv, Correct
  PROVE  IInv'
<1>1. /\ TypeOK /\ phase' = "corrected" /\ sound' = sound
      /\ asymmetric' = asymmetric /\ stamps' = stamps /\ delay' = delay
      /\ rounds' = rounds + 1 /\ master' = Count(master) /\ ~Ends(master, 1)
      /\ slave' = Corrected(slave, OffsetRegister(offset_calu(stamps)))
  BY DEF IInv, Correct
<1>2. master' \in Time
  <2>1. master \in Time
    BY <1>1, Width DEF TypeOK, Time
  <2> QED
    BY <1>1, <2>1, CountCanonical
<1>3. slave' \in 0 .. SIGN - 1
  <2>1. slave \in Nat /\ stamps \in Stamps
    BY <1>1, Width DEF TypeOK, Stamps
  <2> QED
    BY <1>1, <2>1, OffsetInt, CorrectedRange
<1>4. rounds' \in 0 .. MaxRounds
  BY PtpTimeAssumption DEF IInv, TypeOK, RoundsLeft, Correct
<1>5. TypeOK'
  BY <1>1, <1>2, <1>3, <1>4, Width DEF TypeOK, Time, Canonical, Low
<1> QED
  BY <1>1, <1>5 DEF IInv, RoundsLeft, ThereIsTrue, BackIsTrue

(* Types, and the rest of the invariant. *)
LEMMA NextInv == IInv /\ [Next]_vars => IInv'
<1> SUFFICES ASSUME IInv, [Next]_vars PROVE IInv'
  OBVIOUS
<1>1. ASSUME NEW d \in Delays, NEW r \in Residences, Sync(d, r)
      PROVE  IInv'
  BY <1>1, SyncInv
<1>2. ASSUME NEW d \in Delays, NEW r \in Residences, Request(d, r)
      PROVE  IInv'
  BY <1>2, RequestInv
<1>3. ASSUME NEW k \in Waits, TimePasses(k)
      PROVE  IInv'
  BY <1>3, TimePassesInv
<1>4. CASE Correct
  BY <1>4, CorrectInv
<1>5. CASE UNCHANGED vars
  BY <1>5 DEF vars, IInv, TypeOK, RoundsLeft, ThereIsTrue, BackIsTrue, Ahead, Ticks, Canonical, Low, Time
<1> QED
  BY <1>1, <1>2, <1>3, <1>4, <1>5 DEF Next

(* The clocks of a switch and of the master hold 48 bits, and the master's
   is a time in every state. *)
THEOREM TypeCorrect == Spec => []TypeOK
<1>1. IInv => TypeOK
  BY DEF IInv
<1> QED
  BY <1>1, InitInv, NextInv, PTL DEF Spec

(* Whatever the delays, the residences, the waits and the width of the
   clocks: the offset that offset_calu computes of a slave whose clock was
   canonical is how far it is ahead, up to half of what the delays of the
   two ways differ, and one and a half ticks. *)
THEOREM OffsetCorrect == Spec => []OffsetIsRight
<1> QED
  BY InitInv, NextInv, InvImplies, PTL DEF Spec

-----------------------------------------------------------------------------
(* One correction. *)

(* The binary half of a time of 2 * n ticks has n or n + 1 ticks, and a
   lower part of at most 125.  Up to 128 it is 125 only for n = 124. *)
LEMMA HalfEven ==
  \A s, n \in Nat : Canonical(s) /\ Ticks(s) = 2 * n =>
    /\ s \div 2 \in Nat
    /\ n = 0 => Ticks(s \div 2) = 0
    /\ Ticks(s \div 2) \in n .. n + 1
    /\ Low(s \div 2) <= 125
    /\ Low(s \div 2) = 125 => Ticks(s \div 2) = n + 1 /\ (n <= 128 => n = 124)
<1> TAKE s, n \in Nat
<1> HAVE Canonical(s) /\ Ticks(s) = 2 * n
<1>1. PICK q \in Nat, r \in 0 .. 124 : s = 128 * q + r /\ Ticks(s) = 125 * q + r
  <2>1. s \in Nat /\ Canonical(s)
    OBVIOUS
  <2> QED
    BY ONLY <2>1, Parts
<1>2. PICK p \in Nat : q = 2 * p \/ q = 2 * p + 1
  <2>1. q \div 2 \in Nat /\ (q = 2 * (q \div 2) \/ q = 2 * (q \div 2) + 1)
    OBVIOUS
  <2> QED
    BY <2>1
<1>3. CASE q = 2 * p
  <2>1. PICK h \in 0 .. 62 : r = 2 * h /\ n = 125 * p + h
    <3>1. r \div 2 \in 0 .. 62 /\ (r = 2 * (r \div 2) \/ r = 2 * (r \div 2) + 1)
      OBVIOUS
    <3>2. 250 * p + r = 2 * n
      BY <1>1, <1>3
    <3>3. r # 2 * (r \div 2) + 1
      BY <3>1, <3>2
    <3> QED
      BY <3>1, <3>2, <3>3
  <2>2. s \div 2 = 128 * p + h
    BY <1>1, <1>3, <2>1
  <2>3. Ticks(128 * p + h) = 125 * p + h /\ Low(128 * p + h) = h
    BY PartsOf
  <2> QED
    BY <2>1, <2>2, <2>3
<1>4. CASE q = 2 * p + 1
  <2>1. PICK h \in 0 .. 61 : r = 2 * h + 1 /\ n = 125 * p + 63 + h
    <3>1. r \div 2 \in 0 .. 62 /\ (r = 2 * (r \div 2) \/ r = 2 * (r \div 2) + 1)
      OBVIOUS
    <3>2. 250 * p + 125 + r = 2 * n
      BY <1>1, <1>4
    <3>3. r # 2 * (r \div 2)
      BY <3>1, <3>2
    <3>4. r \div 2 # 62
      BY <3>1, <3>3
    <3> QED
      BY <3>1, <3>2, <3>3, <3>4
  <2>2. s \div 2 = 128 * p + (64 + h)
    BY <1>1, <1>4, <2>1
  <2>3. Ticks(128 * p + (64 + h)) = 125 * p + (64 + h) /\ Low(128 * p + (64 + h)) = 64 + h
    BY DEF Ticks, Low
  <2>4. h = 61 /\ n <= 128 => n = 124
    BY <2>1
  <2> QED
    BY <2>1, <2>2, <2>3, <2>4
<1> QED
  BY <1>2, <1>3, <1>4

Limit == 125 * (SIGN \div 128)

(* A clock is set: from its parts, as long as it does not pass its end. *)
LEMMA ClockSets ==
  ASSUME NEW h \in Int, NEW low \in 0 .. 125,
         125 * h + low >= 0, 125 * h + low < Limit, low = 125 => h >= 0
  PROVE  /\ Clock(128 * h, low) = 128 * h + low
         /\ 128 * h + low \in 0 .. SIGN - 1
         /\ Low(128 * h + low) = low
         /\ Ticks(128 * h + low) = 125 * h + low
<1>1. h \in Nat
  OBVIOUS
<1>2. h < SIGN \div 128
  BY <1>1, Width DEF Limit
<1>3. 128 * h + low \in Nat /\ 128 * h + low < SIGN /\ low % 128 = low
  BY <1>1, <1>2, Width
<1>4. Clock(128 * h, low) = 128 * h + low
  BY <1>3, Modulo DEF Clock
<1> QED
  BY <1>1, <1>3, <1>4, Width DEF Low, Ticks

(* The two corrections of a canonical clock, with the tick that passes. *)
LEMMA ForwardExact ==
  ASSUME NEW c \in Time, NEW o \in Nat, Low(o) <= 125, Ticks(c) + Ticks(o) + 1 < Limit
  PROVE  LET s == Forward(c, o) IN
         /\ s \in 0 .. SIGN - 1
         /\ Ticks(s) = Ticks(c) + Ticks(o) + 1
         /\ Low(s) <= 125
         /\ Low(s) = 125 => Low(o) = 125
<1>1. PICK q \in Nat, r \in 0 .. 124 :
        c = 128 * q + r /\ Low(c) = r /\ High(c) = 128 * q /\ Ticks(c) = 125 * q + r
  BY Parts DEF Time
<1>2. PICK p \in Nat, l \in 0 .. 125 :
        o = 128 * p + l /\ Low(o) = l /\ High(o) = 128 * p /\ Ticks(o) = 125 * p + l
  <2>1. o \div 128 \in Nat /\ o % 128 \in 0 .. 125 /\ o = 128 * (o \div 128) + (o % 128)
    BY DEF Low
  <2> QED
    BY <2>1 DEF Low, High, Ticks
<1>3. CASE r + l >= 124
  <2> DEFINE h == q + p + 1  low == r + l - 124
  <2>1. /\ h \in Nat /\ low \in 0 .. 125 /\ 125 * h + low = Ticks(c) + Ticks(o) + 1
        /\ low = 125 => l = 125
    BY <1>1, <1>2, <1>3
  <2>2. High(c) + High(o) + 128 = 128 * h /\ Low(c) + Low(o) - 124 = low
    BY <1>1, <1>2
  <2>3. Forward(c, o) = Clock(128 * h, low)
    BY <1>1, <1>2, <1>3, <2>2 DEF Forward
  <2> HIDE DEF h, low
  <2>4. 125 * h + low >= 0 /\ 125 * h + low < Limit /\ h >= 0 /\ h \in Int
    BY <2>1
  <2>5. /\ Clock(128 * h, low) = 128 * h + low
        /\ 128 * h + low \in 0 .. SIGN - 1
        /\ Low(128 * h + low) = low
        /\ Ticks(128 * h + low) = 125 * h + low
    BY <2>1, <2>4, ClockSets
  <2> QED
    BY <1>2, <2>1, <2>3, <2>5
<1>4. CASE ~(r + l >= 124)
  <2> DEFINE h == q + p  low == r + l + 1
  <2>1. /\ h \in Nat /\ low \in 0 .. 124 /\ 125 * h + low = Ticks(c) + Ticks(o) + 1
    BY <1>1, <1>2, <1>4
  <2>2. High(c) + High(o) = 128 * h /\ Low(c) + Low(o) + 1 = low
    BY <1>1, <1>2
  <2>3. Forward(c, o) = Clock(128 * h, low)
    BY <1>1, <1>2, <1>4, <2>2 DEF Forward
  <2> HIDE DEF h, low
  <2>4. 125 * h + low >= 0 /\ 125 * h + low < Limit /\ h >= 0 /\ h \in Int
    BY <2>1
  <2>5. /\ Clock(128 * h, low) = 128 * h + low
        /\ 128 * h + low \in 0 .. SIGN - 1
        /\ Low(128 * h + low) = low
        /\ Ticks(128 * h + low) = 125 * h + low
    BY <2>1, <2>4, ClockSets
  <2> QED
    BY <1>2, <2>1, <2>3, <2>5
<1> QED
  BY <1>3, <1>4

LEMMA BackwardExact ==
  ASSUME NEW c \in Time, NEW o \in Nat, Low(o) <= 125,
         Ticks(c) - Ticks(o) + 1 >= 0, Ticks(c) - Ticks(o) + 1 < Limit
  PROVE  LET s == Back(c, o) IN
         /\ s \in Time
         /\ Ticks(s) = Ticks(c) - Ticks(o) + 1
<1>1. PICK q \in Nat, r \in 0 .. 124 :
        c = 128 * q + r /\ Low(c) = r /\ High(c) = 128 * q /\ Ticks(c) = 125 * q + r
  BY Parts DEF Time
<1>2. PICK p \in Nat, l \in 0 .. 125 :
        o = 128 * p + l /\ Low(o) = l /\ High(o) = 128 * p /\ Ticks(o) = 125 * p + l
  <2>1. o \div 128 \in Nat /\ o % 128 \in 0 .. 125 /\ o = 128 * (o \div 128) + (o % 128)
    BY DEF Low
  <2> QED
    BY <2>1 DEF Low, High, Ticks
<1>3. ASSUME NEW h \in Int, NEW low \in 0 .. 124, 125 * h + low = Ticks(c) - Ticks(o) + 1,
             Back(c, o) = Clock(128 * h, low)
      PROVE  Back(c, o) \in Time /\ Ticks(Back(c, o)) = Ticks(c) - Ticks(o) + 1
  <2>1. /\ Clock(128 * h, low) = 128 * h + low
        /\ 128 * h + low \in 0 .. SIGN - 1
        /\ Low(128 * h + low) = low
        /\ Ticks(128 * h + low) = 125 * h + low
    <3>1. 125 * h + low >= 0 /\ 125 * h + low < Limit /\ low # 125 /\ low \in 0 .. 125
      BY <1>3
    <3> QED
      BY <3>1, ClockSets
  <2> QED
    BY <1>3, <2>1, Width DEF Time, Canonical
<1> DEFINE high == 128 * (q - p)  low == r - l
<1>4. Back(c, o) = CASE low = 124 -> Clock(high + 128, 0)
                     [] low >= 0 /\ low # 124 -> Clock(high, low + 1)
                     [] low = -1 -> Clock(high, 0)
                     [] low < -1 -> Clock(high - 128, low + 126)
  <2>1. High(c) - High(o) = high /\ Low(c) - Low(o) = low
    BY <1>1, <1>2
  <2> HIDE DEF high, low
  <2> QED
    BY <2>1 DEF Back
<1>5. /\ low \in -125 .. 124 /\ low \in Int
      /\ high + 128 = 128 * (q - p + 1) /\ high - 128 = 128 * (q - p - 1)
      /\ 125 * (q - p) + low = Ticks(c) - Ticks(o)
  BY <1>1, <1>2
<1> HIDE DEF low
<1>6. CASE low = 124
  <2>1. Back(c, o) = Clock(128 * (q - p + 1), 0)
    BY <1>4, <1>5, <1>6
  <2> DEFINE h == q - p + 1
  <2>2. h \in Int /\ 0 \in 0 .. 124 /\ 125 * h + 0 = Ticks(c) - Ticks(o) + 1
    BY <1>1, <1>2, <1>5, <1>6
  <2>3. Back(c, o) = Clock(128 * h, 0)
    BY <2>1
  <2> HIDE DEF h
  <2> QED
    BY <1>3, <2>2, <2>3
<1>7. CASE low >= 0 /\ low # 124
  <2> DEFINE h == q - p  b == low + 1
  <2>1. Back(c, o) = Clock(128 * h, b)
    <3>1. ~(low = 124) /\ ~(low = -1) /\ ~(low < -1)
      BY <1>5, <1>7
    <3> QED
      BY <1>4, <1>7, <3>1
  <2>2. h \in Int /\ b \in 0 .. 124 /\ 125 * h + b = Ticks(c) - Ticks(o) + 1
    BY <1>1, <1>2, <1>5, <1>7
  <2> HIDE DEF h, b
  <2> QED
    BY <1>3, <2>1, <2>2
<1>8. CASE low = -1
  <2> DEFINE h == q - p
  <2>1. Back(c, o) = Clock(128 * h, 0)
    BY <1>4, <1>8
  <2>2. h \in Int /\ 0 \in 0 .. 124 /\ 125 * h + 0 = Ticks(c) - Ticks(o) + 1
    BY <1>1, <1>2, <1>5, <1>8
  <2> HIDE DEF h
  <2> QED
    BY <1>3, <2>1, <2>2
<1>9. CASE low < -1
  <2> DEFINE h == q - p - 1  b == low + 126
  <2>1. Back(c, o) = Clock(128 * h, b)
    BY <1>4, <1>5, <1>9
  <2>2. h \in Int /\ b \in 0 .. 124 /\ 125 * h + b = Ticks(c) - Ticks(o) + 1
    BY <1>1, <1>2, <1>5, <1>9
  <2> HIDE DEF h, b
  <2> QED
    BY <1>3, <2>1, <2>2
<1> QED
  BY <1>5, <1>6, <1>7, <1>8, <1>9

LEMMA LowRange == \A u \in Int : Low(u) \in 0 .. 127
BY DEF Low

LEMMA TimeTicks == \A u \in Time : u \in Nat /\ Canonical(u) /\ Ticks(u) \in Nat /\ Ticks(u) < Limit
<1> TAKE u \in Time
<1>1. u \in Nat /\ Canonical(u) /\ u < SIGN
  BY DEF Time
<1>2. PICK q \in Nat, r \in 0 .. 124 : u = 128 * q + r /\ Ticks(u) = 125 * q + r
  BY <1>1, Parts
<1>3. q < SIGN \div 128
  BY <1>1, <1>2, Width
<1> QED
  BY <1>1, <1>2, <1>3, Width DEF Limit

LEMMA HalfFits ==
  \A s \in Nat : Canonical(s) /\ Ticks(s) < 2 * Limit => s \div 2 < SIGN
<1> TAKE s \in Nat
<1> HAVE Canonical(s) /\ Ticks(s) < 2 * Limit
<1>1. PICK q \in Nat, r \in 0 .. 124 : s = 128 * q + r /\ Ticks(s) = 125 * q + r
  BY Parts
<1>2. q < 2 * (SIGN \div 128)
  BY <1>1, Width DEF Limit
<1>3. s < 2 * SIGN
  BY <1>1, <1>2, Width
<1> QED
  BY <1>3, Width

(* The tick with which a correction is applied. *)
LEMMA CountTick ==
  \A c \in Time : ~Ends(c, 1) =>
    /\ Count(c) \in Time
    /\ Ticks(Count(c)) = Ticks(c) + 1
    /\ Ticks(c) + 126 <= Limit
<1> TAKE c \in Time
<1> HAVE ~Ends(c, 1)
<1>0. c \in Nat /\ Canonical(c) /\ 1 \in Nat
  BY DEF Time
<1>1. PICK q \in Nat, r \in 0 .. 124 : c = 128 * q + r /\ High(c) = 128 * q /\ Ticks(c) = 125 * q + r
  BY <1>0, Parts
<1>2. Show(1) = 1
  BY DEF Show
<1>3. q + 2 <= SIGN \div 128
  <2>1. 128 * q + 128 + 1 < SIGN
    BY <1>1, <1>2, Width DEF Ends
  <2> QED
    BY <2>1, Width
<1>4. Show(Ticks(c) + 1) \in Time /\ Ticks(Show(Ticks(c) + 1)) = Ticks(c) + 1
  BY <1>0, ElapseExact DEF Elapse
<1>5. Count(c) = Show(Ticks(c) + 1)
  BY <1>4, CountExact DEF Time
<1> QED
  BY <1>1, <1>3, <1>4, <1>5, Width DEF Limit

(* The sign in the register: a slave that is ahead is set back. *)
LEMMA RegisterSigned ==
  ASSUME NEW c \in Nat, NEW h \in Nat, h < SIGN
  PROVE  /\ Corrected(c, OffsetRegister([offset |-> h, flag |-> 0])) = Back(c, h)
         /\ Corrected(c, OffsetRegister([offset |-> h, flag |-> 1])) = Forward(c, h)
<1>1. OffsetRegister([offset |-> h, flag |-> 0]) = h + SIGN
  <2>1. (h + SIGN) % (2 * SIGN) = h + SIGN
    BY Width
  <2> QED
    BY <2>1 DEF OffsetRegister
<1>2. OffsetRegister([offset |-> h, flag |-> 1]) = h
  <2>1. (h + 0) % (2 * SIGN) = h
    BY Width
  <2> QED
    BY <2>1 DEF OffsetRegister
<1> QED
  BY <1>1, <1>2, Width DEF Corrected

(* How far a clock may be ahead, so that two more corrections bring it
   within a tick: not so that the offset has a lower part of 125. *)
Leads == (-128 .. 1) \ {-124}

(* A correction by two sound measurements over equal wires. *)
LEMMA CorrectSound ==
  ASSUME IInv, Correct, sound, delay.sm = delay.ms
  PROVE  /\ Ahead' \in -1 .. 1
         /\ Canonical(slave') \/ (Low(slave') = 125 /\ Ahead' = 1)
         /\ Ahead \in Leads => Canonical(slave')
<1>1. /\ TypeOK /\ phase = "answered"
      /\ master' = Count(master) /\ ~Ends(master, 1)
      /\ slave' = Corrected(slave, OffsetRegister(offset_calu(stamps)))
  BY DEF IInv, Correct
<1>2. Canonical(slave) /\ master \in Time /\ slave \in Time
  BY <1>1, Width DEF IInv, ThereIsTrue, TypeOK, Time
<1>3. /\ Ticks(master) \in Nat /\ Ticks(slave) \in Nat /\ Ticks(slave) < Limit
      /\ Ticks(master') = Ticks(master) + 1 /\ Ticks(master) + 126 <= Limit
      /\ slave \in Nat
  BY <1>1, <1>2, TimeTicks, CountTick
<1> DEFINE a == Ahead
<1>4. a \in Int /\ Ticks(slave) = Ticks(master) + a
  BY <1>3 DEF Ahead
<1>5. Ahead' = Ticks(slave') - Ticks(master) - 1
  <2>1. Ahead' = Ticks(slave') - Ticks(master')
    BY DEF Ahead, Ticks, Low
  <2>2. Ticks(slave') \in Int
    <3>1. slave' \in 0 .. SIGN - 1
      BY CorrectInv DEF IInv, TypeOK
    <3> QED
      BY <3>1, TicksNat, Width
  <2> QED
    BY <1>3, <2>1, <2>2
<1>6. HalfOf(offset_calu(stamps), 2 * a)
  <2> DEFINE x == a + delay.ms  y == delay.sm - a
  <2>1. Magnitude(WayThere(stamps), x) /\ Magnitude(WayBack(stamps), y)
    BY <1>1 DEF IInv, ThereIsTrue, BackIsTrue
  <2>2. x \in Int /\ y \in Int /\ x - y = 2 * a
    BY <1>1, <1>4 DEF TypeOK
  <2> HIDE DEF x, y
  <2> QED
    BY <2>1, <2>2, OffsetTwice
<1> HIDE DEF a
<1>7. PICK twice \in Nat, flag \in {0, 1} :
        /\ offset_calu(stamps) = [offset |-> twice \div 2, flag |-> flag]
        /\ Canonical(twice)
        /\ Ticks(twice) = IF flag = 0 THEN 2 * a ELSE -(2 * a)
  BY <1>6 DEF HalfOf
<1> DEFINE h == twice \div 2
<1>8. h < SIGN
  <2>1. Ticks(twice) < 2 * Limit
    <3>1. Limit \in Nat
      BY Width DEF Limit
    <3> QED
      BY <1>3, <1>4, <1>7, <3>1
  <2> QED
    BY <1>7, <2>1, HalfFits
<1>9. CASE flag = 0
  <2>1. a \in Nat /\ Ticks(twice) = 2 * a
    BY <1>4, <1>7, <1>9, TicksNat
  <2>2. h \in Nat /\ Ticks(h) \in a .. a + 1 /\ Low(h) <= 125
    BY <1>7, <2>1, HalfEven
  <2>3. slave' = Back(slave, h)
    BY <1>1, <1>3, <1>7, <1>8, <1>9, <2>2, RegisterSigned
  <2> HIDE DEF h
  <2>4. Ticks(slave) - Ticks(h) + 1 >= 0 /\ Ticks(slave) - Ticks(h) + 1 < Limit
    <3>1. Limit \in Nat
      BY Width DEF Limit
    <3> QED
      BY <1>3, <1>4, <2>1, <2>2, <3>1
  <2>5. slave' \in Time /\ Ticks(slave') = Ticks(slave) - Ticks(h) + 1
    BY <1>2, <2>2, <2>3, <2>4, BackwardExact
  <2>6. Ahead' \in -1 .. 1
    BY <1>3, <1>4, <1>5, <2>1, <2>2, <2>5
  <2> QED
    BY <2>5, <2>6 DEF Time
<1>10. CASE flag = 1
  <2> DEFINE n == -a
  <2>1. n \in Nat /\ a = -n /\ Ticks(twice) = 2 * n
    BY <1>4, <1>7, <1>10, TicksNat
  <2> HIDE DEF n
  <2>2. /\ h \in Nat /\ Ticks(h) \in n .. n + 1 /\ Low(h) <= 125
        /\ Low(h) = 125 => Ticks(h) = n + 1 /\ (n <= 128 => n = 124)
    BY <1>7, <2>1, HalfEven
  <2>3. slave' = Forward(slave, h)
    <3>1. offset_calu(stamps) = [offset |-> h, flag |-> 1]
      BY <1>7, <1>10
    <3> HIDE DEF h
    <3>2. Corrected(slave, OffsetRegister([offset |-> h, flag |-> 1])) = Forward(slave, h)
      BY <1>3, <1>8, <2>2, RegisterSigned
    <3> QED
      BY <1>1, <3>1, <3>2
  <2> HIDE DEF h
  <2>4. Ticks(slave) + Ticks(h) + 1 < Limit
    <3>1. Limit \in Nat
      BY Width DEF Limit
    <3> QED
      BY <1>3, <1>4, <2>1, <2>2, <3>1
  <2>5. /\ Ticks(slave') = Ticks(slave) + Ticks(h) + 1
        /\ Low(slave') <= 125 /\ (Low(slave') = 125 => Low(h) = 125)
        /\ slave' \in 0 .. SIGN - 1
    BY <1>2, <2>2, <2>3, <2>4, ForwardExact
  <2>6. Ahead' = Ticks(h) - n
    BY <1>3, <1>4, <1>5, <2>1, <2>2, <2>5
  <2>7. Ahead' \in -1 .. 1
    BY <2>1, <2>2, <2>6
  <2>8. Canonical(slave') \/ Low(slave') = 125
    <3>1. slave' \in Int /\ Low(slave') \in 0 .. 127
      BY <2>5, LowRange, Width
    <3> QED
      BY <2>5, <3>1 DEF Canonical
  <2>9. Low(slave') = 125 => Ahead' = 1 /\ (a \in Leads => FALSE)
    BY <2>1, <2>2, <2>5, <2>6 DEF Leads
  <2> QED
    BY <2>7, <2>8, <2>9 DEF a
<1> QED
  BY <1>7, <1>9, <1>10

-----------------------------------------------------------------------------
(* A clock that counts beyond 124, and what is measured while it does. *)

LEMMA ElapseLoses ==
  ASSUME NEW c \in 0 .. SIGN - 1, NEW k \in Nat, ~Canonical(c), ~Ends(c, k)
  PROVE  /\ Low(c) \in 125 .. 127
         /\ Low(c) + k <= 127 => /\ Elapse(c, k) = c + k
                                 /\ Low(Elapse(c, k)) = Low(c) + k
                                 /\ Ticks(Elapse(c, k)) = Ticks(c) + k
         /\ Low(c) + k > 127 => /\ Elapse(c, k) \in Time
                                /\ Ticks(Elapse(c, k)) = Ticks(c) + k - 128
<1> DEFINE q == c \div 128  r == c % 128
<1>1. /\ q \in Nat /\ r \in 125 .. 127 /\ c = 128 * q + r
      /\ Low(c) = r /\ High(c) = 128 * q /\ Ticks(c) = 125 * q + r
  BY Width DEF Canonical, High, Low, Ticks
<1> HIDE DEF q, r
<1>2. CASE r + k <= 127
  <2>1. Elapse(c, k) = c + k
    BY <1>1, <1>2 DEF Elapse
  <2>2. c + k = 128 * q + (r + k) /\ r + k \in 0 .. 127
    BY <1>1, <1>2
  <2>3. Low(c + k) = r + k /\ Ticks(c + k) = 125 * q + (r + k)
    BY <1>1, <2>2 DEF Low, Ticks
  <2> QED
    BY <1>1, <1>2, <2>1, <2>3
<1>3. CASE ~(r + k <= 127)
  <2> DEFINE t == 125 * q + k - (128 - r)
  <2>1. t \in Nat
    BY <1>1, <1>3
  <2>2. Elapse(c, k) = Show(t)
    <3>1. Ticks(128 * q) = 125 * q
      BY <1>1 DEF Ticks, Low
    <3> QED
      BY <1>1, <1>3, <3>1 DEF Elapse
  <2>3. t = Ticks(c) + k - 128
    BY <1>1
  <2> HIDE DEF t
  <2>4. Show(t) \in Nat /\ Canonical(Show(t)) /\ Ticks(Show(t)) = t
    BY <2>1, ShowExact
  <2>5. Elapse(c, k) \in 0 .. SIGN - 1
    BY ElapseRange
  <2> QED
    BY <1>1, <1>3, <2>2, <2>3, <2>4, <2>5, Width DEF Time
<1> QED
  BY <1>2, <1>3

(* A stamp beyond 124 against a canonical one of the same microsecond ... *)
LEMMA SubSame ==
  ASSUME NEW q \in Nat, NEW l \in {126, 127}
  PROVE  ts_sub(128 * q + l, 128 * q + 124) = l - 124
<1>1. Low(128 * q + l) = l /\ Low(128 * q + 124) = 124
  BY DEF Low
<1> QED
  BY <1>1 DEF ts_sub, Distance

LEMMA AddZero ==
  \A x \in {0, 1} : ts_add(x, 0) = x
<1> TAKE x \in {0, 1}
<1>1. Low(x) = x /\ High(x) = 0 /\ Low(0) = 0 /\ High(0) = 0
  BY DEF Low, High
<1>2. Wrapped(0) = 0 /\ Wrapped(x) = x
  BY Width DEF Wrapped
<1> QED
  BY <1>1, <1>2 DEF ts_add

(* ... and of the next one: as if it were a tick ahead. *)
LEMMA SubOver ==
  ASSUME NEW q \in Nat
  PROVE  ts_sub(128 * q + 127, 128 * (q + 1)) = SIGN + 1
<1>1. /\ Low(128 * q + 127) = 127 /\ High(128 * q + 127) = 128 * q
      /\ Low(128 * (q + 1)) = 0 /\ High(128 * (q + 1)) = 128 * (q + 1)
  BY DEF Low, High
<1>2. Distance(128 * (q + 1), 128 * q + 127) = ts_add(Wrapped(0 + 125 - 127), 128 * (q + 1) - 128 - 128 * q)
  BY <1>1 DEF Distance
<1>3. Wrapped(0 + 125 - 127) = WORD - 2 /\ 128 * (q + 1) - 128 - 128 * q = 0
  BY Width DEF Wrapped
<1>4. Low(WORD - 2) = 126 /\ High(WORD - 2) = WORD - 128 /\ Low(0) = 0 /\ High(0) = 0
  <2>1. PICK n \in Nat : WORD = 128 * n /\ n >= 1
    <3>1. WORD = 128 * (65536 * (SIGN \div 128)) /\ 65536 * (SIGN \div 128) >= 1
      BY Width
    <3> QED
      BY <3>1, Width
  <2>2. WORD - 2 = 128 * (n - 1) + 126 /\ n - 1 \in Nat
    BY <2>1
  <2> QED
    BY <2>1, <2>2 DEF Low, High
<1>5. Wrapped(WORD - 128) = WORD - 128 /\ Wrapped(WORD - 128 + 129) = 1
  BY Width DEF Wrapped
<1>6. ts_add(WORD - 2, 0) = Wrapped(Wrapped((WORD - 128) + 0) + IF 126 + 0 > 124 THEN 126 + 0 + 3 ELSE 126 + 0)
  BY <1>4 DEF ts_add
<1>7. ts_add(WORD - 2, 0) = 1
  <2>1. (WORD - 128) + 0 = WORD - 128 /\ 126 + 0 > 124 /\ 126 + 0 + 3 = 129
    BY Width
  <2> QED
    BY <1>5, <1>6, <2>1
<1>8. Distance(128 * (q + 1), 128 * q + 127) = 1
  BY <1>2, <1>3, <1>7
<1>9. Wrapped(1 + SIGN) = SIGN + 1
  BY Width DEF Wrapped
<1>10. ~(128 * q + 127 >= 128 * (q + 1))
  OBVIOUS
<1> QED
  BY <1>8, <1>9, <1>10 DEF ts_sub

(* The delays and differences of such a way to the slave. *)
LosesThere(d, w) == <<d, w>> \in {<<1, 2>>, <<2, 3>>, <<1, SIGN + 1>>}

LEMMA ThereLost ==
  ASSUME NEW q \in Nat, NEW l \in 125 .. 127, NEW d \in Nat \ {0}, NEW r \in Nat,
         NEW u \in Time, Ticks(u) = 125 * q + l - 1, l + d + r <= 127
  PROVE  LET w == ts_sub(128 * q + (l + d + r), ts_add(u, corr_trans(r))) IN
         /\ LosesThere(d, w)
         /\ l + d + r \in {126, 127}
         /\ l + d + r = 126 => w = 2
<1>1. \/ l = 125 /\ d = 1 /\ r = 0
      \/ l = 125 /\ d = 2 /\ r = 0
      \/ l = 125 /\ d = 1 /\ r = 1
      \/ l = 126 /\ d = 1 /\ r = 0
  OBVIOUS
<1>2. corr_trans(r) = r /\ Canonical(r) /\ Ticks(r) = r /\ r < 4 * SIGN
  BY <1>1, Width DEF corr_trans, Canonical, Low, Ticks
<1> DEFINE s == ts_add(u, r)
<1>3. s \in Nat /\ Canonical(s) /\ Ticks(s) = 125 * q + (l - 1 + r)
  <2>1. u \in Nat /\ Canonical(u) /\ u < 4 * SIGN
    BY Width DEF Time
  <2>2. s \in Nat /\ Canonical(s) /\ Ticks(s) = Ticks(u) + Ticks(r)
    BY <1>2, <2>1, AddExact
  <2> QED
    BY <1>2, <2>2
<1> HIDE DEF s
<1>4. ASSUME l - 1 + r = 124
      PROVE  s = 128 * q + 124
  <2>1. /\ 128 * q + 124 \in Nat /\ Canonical(128 * q + 124)
        /\ Ticks(128 * q + 124) = 125 * q + 124
    BY DEF Canonical, Low, Ticks
  <2> QED
    BY <1>3, <1>4, <2>1, Injective
<1>5. ASSUME l - 1 + r = 125
      PROVE  s = 128 * (q + 1)
  <2>1. /\ 128 * (q + 1) \in Nat /\ Canonical(128 * (q + 1))
        /\ Ticks(128 * (q + 1)) = 125 * q + 125
    BY DEF Canonical, Low, Ticks
  <2> QED
    BY <1>3, <1>5, <2>1, Injective
<1> DEFINE w == ts_sub(128 * q + (l + d + r), s)
<1>6. CASE l = 125 /\ d = 1 /\ r = 0
  <2>1. w = 2
    BY <1>4, <1>6, SubSame
  <2> QED
    BY <1>2, <1>6, <2>1 DEF LosesThere, s
<1>7. CASE l = 125 /\ d = 2 /\ r = 0
  <2>1. w = 3
    BY <1>4, <1>7, SubSame
  <2> QED
    BY <1>2, <1>7, <2>1 DEF LosesThere, s
<1>8. CASE (l = 125 /\ d = 1 /\ r = 1) \/ (l = 126 /\ d = 1 /\ r = 0)
  <2>1. w = SIGN + 1
    BY <1>5, <1>8, SubOver
  <2> QED
    BY <1>2, <1>8, <2>1 DEF LosesThere, s
<1> QED
  BY <1>1, <1>6, <1>7, <1>8

(* A request that is stamped beyond 124 by a slave that is a tick ahead. *)
LEMMA BackLost ==
  ASSUME NEW q \in Nat, NEW l \in {126, 127}, 128 * q + l < SIGN, NEW r \in Nat,
         NEW x \in {0, 1}, NEW v \in Time, Ticks(v) = 125 * q + l + r + x
  PROVE  ts_sub(v, ts_add(128 * q + l, corr_trans(r))) = x
<1> DEFINE e == Show(r)
<1>1. corr_trans(r) = e /\ e \in Nat /\ Canonical(e) /\ Ticks(e) = r
  BY CorrTransShow, ShowExact
<1> HIDE DEF e
<1>2. PICK a \in Nat, b \in 0 .. 124 :
        e = 128 * a + b /\ Low(e) = b /\ High(e) = 128 * a /\ Ticks(e) = 125 * a + b
  <2>1. e \in Nat /\ Canonical(e)
    BY <1>1
  <2> QED
    BY ONLY <2>1, Parts
<1>3. v \in Nat /\ Canonical(v) /\ v < SIGN
  BY DEF Time
<1>4. PICK p \in Nat, k \in 0 .. 124 :
        v = 128 * p + k /\ Low(v) = k /\ High(v) = 128 * p /\ Ticks(v) = 125 * p + k
  BY ONLY <1>3, Parts
<1> DEFINE n == q + a + 1  m == l + b - 125  s == ts_add(128 * q + l, e)
<1>5. /\ n \in Nat /\ m \in 1 .. 126
      /\ 128 * (q + a) + (l + b + 3) = 128 * n + m
      /\ 125 * p + k = 125 * n + m + x
  BY <1>1, <1>2, <1>4
<1>6. e < SIGN
  <2>1. Ticks(e) <= Ticks(v)
    BY <1>1
  <2> QED
    BY <1>1, <1>3, <2>1, Bounded, Width
<1>7. s = 128 * n + m
  <2>1. Low(128 * q + l) = l /\ High(128 * q + l) = 128 * q
    BY DEF Low, High
  <2>2. 128 * (q + a) \in Nat /\ 128 * (q + a) < WORD
    BY <1>2, <1>6, Width
  <2>3. 128 * (q + a) + (l + b + 3) \in Nat /\ 128 * (q + a) + (l + b + 3) < WORD
    BY <1>2, <1>6, Width
  <2>4. l + b > 124 /\ 128 * q + 128 * a = 128 * (q + a)
    BY <1>2
  <2>5. s = Wrapped(Wrapped(128 * (q + a)) + (l + b + 3))
    BY <1>2, <2>1, <2>4 DEF ts_add
  <2>6. Wrapped(128 * (q + a)) = 128 * (q + a)
    BY <2>2, Unwrapped
  <2>7. Wrapped(128 * (q + a) + (l + b + 3)) = 128 * (q + a) + (l + b + 3)
    BY <2>3, Unwrapped
  <2> QED
    BY <1>5, <2>5, <2>6, <2>7
<1> HIDE DEF n, m, s
<1>8. Low(128 * n + m) = m /\ High(128 * n + m) = 128 * n
  BY <1>5 DEF Low, High
<1>9. \/ p = n /\ k = m + x
      \/ p = n + 1 /\ k = m + x - 125
  <2>1. p = n \/ p = n + 1
    BY <1>4, <1>5
  <2> QED
    BY <1>4, <1>5, <2>1
<1>10. CASE p = n /\ k = m + x
  <2>1. v >= 128 * n + m /\ v - (128 * n + m) = x /\ ~(k < m)
    BY <1>4, <1>5, <1>10
  <2>2. ts_sub(v, 128 * n + m) = x
    BY <1>4, <1>8, <2>1 DEF ts_sub, Distance
  <2> QED
    BY <1>1, <1>7, <2>2 DEF s
<1>11. CASE p = n + 1 /\ k = m + x - 125
  <2>1. v >= 128 * n + m /\ k < m /\ k + 125 - m = x /\ 128 * p - 128 - 128 * n = 0
    BY <1>4, <1>5, <1>11
  <2>2. Wrapped(x) = x
    BY Width DEF Wrapped
  <2>3. ts_sub(v, 128 * n + m) = ts_add(x, 0)
    BY <1>4, <1>8, <2>1, <2>2 DEF ts_sub, Distance
  <2>4. ts_sub(v, 128 * n + m) = x
    BY <2>3, AddZero
  <2> QED
    BY <1>1, <1>7, <2>4 DEF s
<1> QED
  BY <1>9, <1>10, <1>11

(* What is computed when the way to the slave was measured so. *)
LEMMA OffsetLost ==
  ASSUME NEW s, NEW d \in Nat, LosesThere(d, WayThere(s))
  PROVE  /\ WayBack(s) = d - 1 =>
              /\ offset_calu(s) \in {[offset |-> 1, flag |-> 0], [offset |-> 0, flag |-> 1]}
              /\ WayThere(s) = 2 => offset_calu(s) = [offset |-> 1, flag |-> 0]
         /\ Magnitude(WayBack(s), 127 + d) =>
              offset_calu(s) \in {[offset |-> 64, flag |-> 1], [offset |-> 66, flag |-> 1]}
<1> DEFINE m == WayThere(s)
           n == WayBack(s)
           Result(twice, flag) == [offset |-> twice \div 2, flag |-> flag]
<1>1. offset_calu(s) =
        CASE m < SIGN /\ n < SIGN ->
               IF m >= n THEN Result(ts_sub(m, n), 0) ELSE Result(ts_sub(n, m), 1)
          [] m < SIGN /\ n > SIGN -> Result(ts_add(m, n - SIGN), 0)
          [] m > SIGN /\ n < SIGN -> Result(ts_add(m - SIGN, n), 1)
          [] OTHER -> IF Wrapped(m - SIGN) >= Wrapped(n - SIGN)
                      THEN Result(ts_sub(m, n), 1) ELSE Result(ts_sub(n, m), 0)
  BY DEF offset_calu, WayThere, WayBack
<1>2. \/ d = 1 /\ m = 2
      \/ d = 2 /\ m = 3
      \/ d = 1 /\ m = SIGN + 1
  BY DEF LosesThere
<1>3. SIGN \in Nat /\ SIGN >= 128
  BY Width
<1>4. /\ Result(2, 0) = [offset |-> 1, flag |-> 0] /\ Result(1, 1) = [offset |-> 0, flag |-> 1]
      /\ Result(129, 1) = [offset |-> 64, flag |-> 1] /\ Result(132, 1) = [offset |-> 66, flag |-> 1]
  OBVIOUS
<1> HIDE DEF m, n, Result
<1>5. /\ ts_sub(2, 0) = 2 /\ ts_sub(3, 1) = 2 /\ ts_add(1, 0) = 1
      /\ ts_sub(131, 2) = 129 /\ ts_sub(132, 3) = 129 /\ ts_add(1, 131) = 132
  <2>1. ts_sub(2, 0) = 2 /\ ts_sub(3, 1) = 2 /\ ts_sub(131, 2) = 129 /\ ts_sub(132, 3) = 129
    BY DEF ts_sub, Distance, Low
  <2>2. ts_add(1, 131) = 132
    <3>1. Low(1) = 1 /\ High(1) = 0 /\ Low(131) = 3 /\ High(131) = 128
      BY DEF Low, High
    <3>2. Wrapped(128) = 128 /\ Wrapped(132) = 132
      BY Width DEF Wrapped
    <3> QED
      BY <3>1, <3>2 DEF ts_add
  <2> QED
    BY <2>1, <2>2, AddZero
<1>6. ASSUME n = d - 1
      PROVE  \/ m # SIGN + 1 /\ offset_calu(s) = Result(2, 0)
             \/ m = SIGN + 1 /\ offset_calu(s) = Result(1, 1)
  <2>1. CASE d = 1 /\ m = 2
    <3>1. m < SIGN /\ n < SIGN /\ ~(m > SIGN) /\ ~(n > SIGN) /\ m >= n /\ n = 0 /\ m # SIGN + 1
      BY <1>3, <1>6, <2>1
    <3>2. offset_calu(s) = Result(ts_sub(m, n), 0)
      BY <1>1, <3>1
    <3> QED
      BY <1>5, <2>1, <3>1, <3>2
  <2>2. CASE d = 2 /\ m = 3
    <3>1. m < SIGN /\ n < SIGN /\ ~(m > SIGN) /\ ~(n > SIGN) /\ m >= n /\ n = 1 /\ m # SIGN + 1
      BY <1>3, <1>6, <2>2
    <3>2. offset_calu(s) = Result(ts_sub(m, n), 0)
      BY <1>1, <3>1
    <3> QED
      BY <1>5, <2>2, <3>1, <3>2
  <2>3. CASE d = 1 /\ m = SIGN + 1
    <3>1. ~(m < SIGN) /\ m > SIGN /\ n < SIGN /\ n = 0 /\ m - SIGN = 1
      BY <1>3, <1>6, <2>3
    <3>2. offset_calu(s) = Result(ts_add(m - SIGN, n), 1)
      BY <1>1, <3>1
    <3> QED
      BY <1>5, <2>3, <3>1, <3>2
  <2> QED
    BY <1>2, <2>1, <2>2, <2>3
<1>7. ASSUME Magnitude(n, 127 + d)
      PROVE  offset_calu(s) \in {Result(129, 1), Result(132, 1)}
  <2>1. n \in Nat /\ n < SIGN /\ Canonical(n) /\ Ticks(n) = 127 + d
    BY <1>7 DEF Magnitude
  <2>2. /\ Canonical(131) /\ Ticks(131) = 128
        /\ Canonical(132) /\ Ticks(132) = 129
    BY DEF Canonical, Low, Ticks
  <2>3. CASE d = 1 /\ m = 2
    <3>1. n = 131
      BY <2>1, <2>2, <2>3, Injective
    <3>2. m < SIGN /\ n < SIGN /\ ~(m > SIGN) /\ ~(n > SIGN) /\ ~(m >= n)
      BY <1>3, <2>1, <2>3, <3>1
    <3>3. offset_calu(s) = Result(ts_sub(n, m), 1)
      BY <1>1, <3>2
    <3> QED
      BY <1>5, <2>3, <3>1, <3>3
  <2>4. CASE d = 2 /\ m = 3
    <3>1. n = 132
      BY <2>1, <2>2, <2>4, Injective
    <3>2. m < SIGN /\ n < SIGN /\ ~(m > SIGN) /\ ~(n > SIGN) /\ ~(m >= n)
      BY <1>3, <2>1, <2>4, <3>1
    <3>3. offset_calu(s) = Result(ts_sub(n, m), 1)
      BY <1>1, <3>2
    <3> QED
      BY <1>5, <2>4, <3>1, <3>3
  <2>5. CASE d = 1 /\ m = SIGN + 1
    <3>1. n = 131
      BY <2>1, <2>2, <2>5, Injective
    <3>2. ~(m < SIGN) /\ m > SIGN /\ m - SIGN = 1
      BY <1>3, <2>5
    <3>3. offset_calu(s) = Result(ts_add(m - SIGN, n), 1)
      BY <1>1, <2>1, <3>2
    <3> QED
      BY <1>5, <3>1, <3>2, <3>3
  <2> QED
    BY <1>2, <2>3, <2>4, <2>5
<1>8. 2 # SIGN + 1
  BY <1>3
<1> QED
  BY <1>4, <1>6, <1>7, <1>8 DEF m, n

-----------------------------------------------------------------------------
(* Settling, round by round. *)

Near == Ahead \in IF rounds >= 3 THEN -1 .. 1 ELSE Leads

(* When a round begins: the first correction may leave a clock that counts
   beyond 124 and is a tick ahead, the second one that is about to lose a
   microsecond. *)
Begun ==
  \/ Canonical(slave) /\ Near
  \/ rounds = 1 /\ ~Canonical(slave) /\ Ahead = 1
  \/ rounds = 2 /\ Low(slave) = 127 /\ Ahead = 0

(* The Sync came while the clock counted beyond 124. *)
LostThere ==
  /\ rounds = 1
  /\ LosesThere(delay.ms, WayThere(stamps))
  /\ \/ Canonical(slave) /\ Ahead = -127
     \/ Low(slave) = 127 /\ Ahead = 1
     \/ Low(slave) = 126 /\ Ahead = 1 /\ WayThere(stamps) = 2

(* What is computed then, before or after the microsecond is lost. *)
LostBack ==
  /\ rounds = 1
  /\ \/ /\ Canonical(slave) /\ Ahead = -127
        /\ offset_calu(stamps) \in {[offset |-> 1, flag |-> 0], [offset |-> 0, flag |-> 1],
                                    [offset |-> 64, flag |-> 1], [offset |-> 66, flag |-> 1]}
     \/ /\ Low(slave) = 127 /\ Ahead = 1
        /\ offset_calu(stamps) = [offset |-> 1, flag |-> 0]

(* Of wires that were equal in every round, after the first. *)
Settling ==
  /\ phase \in {"corrected", "due"} => Begun
  /\ phase \in {"synced", "waited"} => IF sound THEN Near ELSE LostThere
  /\ phase \in {"measured", "answered"} => IF sound THEN Near ELSE LostBack

SettlesInv ==
  /\ rounds = 0 => Canonical(slave) /\ sound
  /\ phase \in {"measured", "answered"} /\ ~asymmetric => delay.sm = delay.ms
  /\ rounds >= 1 /\ ~asymmetric => Settling

LEMMA SettlesInvImplies == IInv /\ SettlesInv => Settles
<1> SUFFICES ASSUME IInv, SettlesInv, phase = "corrected", rounds >= 3, ~asymmetric
             PROVE  Canonical(slave) /\ Abs(Ahead) <= 1
  BY DEF Settles
<1>1. rounds \in Nat /\ rounds >= 1
  BY PtpTimeAssumption DEF IInv, TypeOK
<1>2. Begun
  BY <1>1 DEF SettlesInv, Settling
<1>3. rounds # 1 /\ rounds # 2
  BY <1>1
<1>4. Canonical(slave) /\ Ahead \in -1 .. 1
  BY <1>2, <1>3 DEF Begun, Near
<1> QED
  BY <1>4 DEF Abs

LEMMA InitSettles == Init => SettlesInv
<1> SUFFICES ASSUME Init PROVE SettlesInv
  OBVIOUS
<1>1. PICK p \in Starts : slave = Show(p[2])
  BY DEF Init
<1>2. p[2] \in Nat
  BY PtpTimeAssumption
<1>3. Canonical(slave)
  BY <1>1, <1>2, ShowExact
<1> QED
  BY <1>3 DEF Init, SettlesInv

(* While time passes, a clock that counts beyond 124 goes on to 127, or
   loses a microsecond. *)
LEMMA PassLoses ==
  ASSUME TypeOK, NEW k \in Nat, Pass(k), ~Canonical(slave)
  PROVE  /\ Low(slave) \in 125 .. 127
         /\ Low(slave) + k <= 127 => /\ slave' = slave + k
                                     /\ Low(slave') = Low(slave) + k
                                     /\ ~Canonical(slave')
                                     /\ Ahead' = Ahead
         /\ Low(slave) + k > 127 => Canonical(slave') /\ Ahead' = Ahead - 128
<1>1. /\ slave \in 0 .. SIGN - 1 /\ slave' = Elapse(slave, k) /\ ~Ends(slave, k)
      /\ Ticks(slave) \in Nat /\ Ticks(master) \in Nat
      /\ master' \in Time /\ Ticks(master') = Ticks(master) + k
  BY PassKeeps, TicksNat, Width DEF TypeOK, Pass
<1>2. /\ Low(slave) \in 125 .. 127
      /\ Low(slave) + k <= 127 => /\ slave' = slave + k
                                  /\ Low(slave') = Low(slave) + k
                                  /\ Ticks(slave') = Ticks(slave) + k
      /\ Low(slave) + k > 127 => /\ slave' \in Time
                                 /\ Ticks(slave') = Ticks(slave) + k - 128
  BY <1>1, ElapseLoses
<1>3. Ahead' = Ticks(slave') - Ticks(master')
  BY DEF Ahead, Ticks, Low
<1>4. Ahead = Ticks(slave) - Ticks(master)
  BY DEF Ahead
<1>5. ASSUME Low(slave) + k <= 127
      PROVE  ~Canonical(slave') /\ Ahead' = Ahead
  BY <1>1, <1>2, <1>3, <1>4, <1>5 DEF Canonical
<1>6. ASSUME Low(slave) + k > 127
      PROVE  Canonical(slave') /\ Ahead' = Ahead - 128
  BY <1>1, <1>2, <1>3, <1>4, <1>6 DEF Time
<1> QED
  BY <1>2, <1>5, <1>6

LEMMA TimePassesSettles ==
  ASSUME IInv, SettlesInv, NEW k \in Waits, TimePasses(k)
  PROVE  SettlesInv'
<1>1. /\ k \in Nat /\ TypeOK /\ Pass(k)
      /\ \/ phase = "corrected" /\ phase' = "due"
         \/ phase = "synced" /\ phase' = "waited"
         \/ phase = "measured" /\ phase' = "answered"
      /\ rounds' = rounds /\ sound' = sound
      /\ asymmetric' = asymmetric /\ stamps' = stamps /\ delay' = delay
  BY PtpTimeAssumption DEF IInv, TimePasses, Later
<1>2. Canonical(slave) => Canonical(slave') /\ Ahead' = Ahead
  BY <1>1, PassKeeps DEF Time
<1>3. ~Canonical(slave) =>
         /\ Low(slave) \in 125 .. 127
         /\ Low(slave) + k <= 127 => /\ Low(slave') = Low(slave) + k
                                     /\ ~Canonical(slave')
                                     /\ Ahead' = Ahead
         /\ Low(slave) + k > 127 => Canonical(slave') /\ Ahead' = Ahead - 128
  BY <1>1, PassLoses
<1>4. rounds = 0 => Canonical(slave') /\ sound
  BY <1>2 DEF SettlesInv
<1>5. phase' \in {"measured", "answered"} /\ ~asymmetric => delay.sm = delay.ms
  BY <1>1 DEF SettlesInv
<1>6. ASSUME rounds >= 1, ~asymmetric
      PROVE  Settling'
  <2>0. Settling
    BY <1>6 DEF SettlesInv
  <2>1. CASE phase = "corrected"
    <3> SUFFICES Begun'
      BY <1>1, <2>1 DEF Settling
    <3>0. Begun
      BY <2>0, <2>1 DEF Settling
    <3>1. CASE Canonical(slave) /\ Near
      BY <1>1, <1>2, <3>1 DEF Begun, Near
    <3>2. CASE rounds = 1 /\ ~Canonical(slave) /\ Ahead = 1
      <4>1. ~(rounds >= 3)
        BY <3>2
      <4>2. CASE Low(slave) + k <= 127
        BY <1>1, <1>3, <3>2, <4>2 DEF Begun
      <4>3. CASE Low(slave) + k > 127
        <5>1. Canonical(slave') /\ Ahead' = -127
          BY <1>3, <3>2, <4>3
        <5> QED
          BY <1>1, <4>1, <5>1 DEF Begun, Near, Leads
      <4> QED
        BY <1>1, <1>3, <3>2, <4>2, <4>3
    <3>3. CASE rounds = 2 /\ Low(slave) = 127 /\ Ahead = 0
      <4>1. ~(rounds >= 3) /\ ~Canonical(slave)
        BY <3>3 DEF Canonical
      <4>2. CASE k = 0
        BY <1>1, <1>3, <3>3, <4>1, <4>2 DEF Begun
      <4>3. CASE k # 0
        <5>1. Canonical(slave') /\ Ahead' = -128
          BY <1>1, <1>3, <3>3, <4>1, <4>3
        <5> QED
          BY <1>1, <4>1, <5>1 DEF Begun, Near, Leads
      <4> QED
        BY <4>2, <4>3
    <3> QED
      BY <3>0, <3>1, <3>2, <3>3 DEF Begun
  <2>2. CASE sound /\ phase # "corrected"
    <3>1. Canonical(slave) /\ Near
      BY <1>1, <2>0, <2>2 DEF IInv, ThereIsTrue, Settling
    <3> QED
      BY <1>1, <1>2, <2>2, <3>1 DEF Settling, Near
  <2>3. CASE ~sound /\ phase = "synced"
    <3> SUFFICES LostThere'
      BY <1>1, <2>3 DEF Settling
    <3>0. LostThere
      BY <2>0, <2>3 DEF Settling
    <3>1. WayThere(stamps)' = WayThere(stamps) /\ delay'.ms = delay.ms
      BY <1>1 DEF WayThere
    <3>2. CASE Canonical(slave) /\ Ahead = -127
      BY <1>1, <1>2, <3>0, <3>1, <3>2 DEF LostThere
    <3>3. CASE Low(slave) = 127 /\ Ahead = 1
      <4>1. ~Canonical(slave)
        BY <3>3 DEF Canonical
      <4>2. CASE k = 0
        BY <1>1, <1>3, <3>0, <3>1, <3>3, <4>1, <4>2 DEF LostThere
      <4>3. CASE k # 0
        <5>1. Canonical(slave') /\ Ahead' = -127
          BY <1>1, <1>3, <3>3, <4>1, <4>3
        <5> QED
          BY <1>1, <3>0, <3>1, <5>1 DEF LostThere
      <4> QED
        BY <4>2, <4>3
    <3>4. CASE Low(slave) = 126 /\ Ahead = 1 /\ WayThere(stamps) = 2
      <4>1. ~Canonical(slave)
        BY <3>4 DEF Canonical
      <4>2. CASE k <= 1
        <5>1. (Low(slave') = 126 \/ Low(slave') = 127) /\ Ahead' = 1
          BY <1>1, <1>3, <3>4, <4>1, <4>2
        <5> QED
          BY <1>1, <3>0, <3>1, <3>4, <5>1 DEF LostThere
      <4>3. CASE k > 1
        <5>1. Canonical(slave') /\ Ahead' = -127
          BY <1>1, <1>3, <3>4, <4>1, <4>3
        <5> QED
          BY <1>1, <3>0, <3>1, <5>1 DEF LostThere
      <4> QED
        BY <1>1, <4>2, <4>3
    <3> QED
      BY <3>0, <3>2, <3>3, <3>4 DEF LostThere
  <2>4. CASE ~sound /\ phase = "measured"
    <3> SUFFICES LostBack'
      BY <1>1, <2>4 DEF Settling
    <3>0. LostBack
      BY <2>0, <2>4 DEF Settling
    <3>1. offset_calu(stamps)' = offset_calu(stamps)
      BY <1>1 DEF offset_calu
    <3>2. CASE Canonical(slave) /\ Ahead = -127
      <4>1. ~(Ahead = 1)
        BY <3>2
      <4> QED
        BY <1>1, <1>2, <3>0, <3>1, <3>2, <4>1 DEF LostBack
    <3>3. CASE /\ Low(slave) = 127 /\ Ahead = 1
               /\ offset_calu(stamps) = [offset |-> 1, flag |-> 0]
      <4>1. ~Canonical(slave)
        BY <3>3 DEF Canonical
      <4>2. CASE k = 0
        BY <1>1, <1>3, <3>0, <3>1, <3>3, <4>1, <4>2 DEF LostBack
      <4>3. CASE k # 0
        <5>1. Canonical(slave') /\ Ahead' = -127
          BY <1>1, <1>3, <3>3, <4>1, <4>3
        <5> QED
          BY <1>1, <3>0, <3>1, <3>3, <5>1 DEF LostBack
      <4> QED
        BY <4>2, <4>3
    <3> QED
      BY <3>0, <3>2, <3>3 DEF LostBack
  <2> QED
    BY <1>1, <2>1, <2>2, <2>3, <2>4
<1> QED
  BY <1>1, <1>4, <1>5, <1>6 DEF SettlesInv

LEMMA SyncSettles ==
  ASSUME IInv, SettlesInv, 0 \notin Delays,
         NEW d \in Delays, NEW r \in Residences, Sync(d, r)
  PROVE  SettlesInv'
<1>1. /\ d \in Nat \ {0} /\ r \in Nat /\ d + r \in Nat /\ d + r >= 1 /\ TypeOK /\ Pass(d + r)
      /\ phase = "due" /\ phase' = "synced" /\ rounds' = rounds /\ sound' = Canonical(slave')
      /\ asymmetric' = asymmetric
  BY PtpTimeAssumption DEF IInv, Sync
<1>2. /\ stamps'.t1 = master /\ stamps'.t2 = slave' /\ stamps'.corr_ms = r /\ delay'.ms = d
  BY DEF Sync, IInv, TypeOK
<1>3. Canonical(slave) => Canonical(slave') /\ Ahead' = Ahead
  BY <1>1, PassKeeps DEF Time
<1>4. ~Canonical(slave) =>
         /\ Low(slave) \in 125 .. 127
         /\ Low(slave) + (d + r) <= 127 => /\ slave' = slave + (d + r)
                                           /\ Low(slave') = Low(slave) + (d + r)
                                           /\ ~Canonical(slave')
                                           /\ Ahead' = Ahead
         /\ Low(slave) + (d + r) > 127 => Canonical(slave') /\ Ahead' = Ahead - 128
  BY <1>1, PassLoses
<1>5. rounds = 0 => Canonical(slave') /\ sound'
  BY <1>1, <1>3 DEF SettlesInv
<1>6. ASSUME rounds >= 1, ~asymmetric
      PROVE  IF sound' THEN Near' ELSE LostThere'
  <2>0. Begun
    BY <1>1, <1>6 DEF SettlesInv, Settling
  <2>1. CASE Canonical(slave) /\ Near
    BY <1>1, <1>3, <2>1 DEF Near
  <2>2. CASE rounds = 1 /\ ~Canonical(slave) /\ Ahead = 1
    <3>1. CASE Low(slave) + (d + r) <= 127
      <4> DEFINE q == slave \div 128  l == Low(slave)
      <4>1. /\ q \in Nat /\ l \in 125 .. 127 /\ slave = 128 * q + l /\ Ticks(slave) = 125 * q + l
        BY <1>1, <1>4, <2>2, Width DEF TypeOK, Low, Ticks
      <4>2. l + (d + r) <= 127
        BY <3>1
      <4>3. /\ slave' = slave + (d + r) /\ Low(slave') = l + (d + r)
            /\ ~Canonical(slave') /\ Ahead' = 1
        BY <1>4, <2>2, <3>1
      <4> HIDE DEF q, l
      <4>4. master \in Time /\ Ticks(master) = 125 * q + l - 1
        <5>1. master \in Time /\ Ticks(master) \in Nat /\ Ticks(slave) - Ticks(master) = 1
          BY <1>1, <2>2, TicksNat, Width DEF TypeOK, Time, Ahead
        <5> QED
          BY <4>1, <5>1
      <4>5. WayThere(stamps)' = ts_sub(128 * q + (l + d + r), ts_add(master, corr_trans(r)))
        <5>1. slave' = 128 * q + (l + d + r)
          BY <1>1, <4>1, <4>3
        <5> QED
          BY <1>2, <5>1 DEF WayThere
      <4>6. /\ LosesThere(d, WayThere(stamps)')
            /\ l + d + r \in {126, 127}
            /\ l + d + r = 126 => WayThere(stamps)' = 2
        <5>1. l + d + r <= 127
          BY <1>1, <4>1, <4>2
        <5> QED
          BY <1>1, <4>1, <4>4, <4>5, <5>1, ThereLost
      <4>7. Low(slave') = l + d + r
        BY <1>1, <4>1, <4>3
      <4>8. LosesThere(delay.ms, WayThere(stamps))'
        BY <1>2, <4>6 DEF LosesThere
      <4> QED
        BY <1>1, <2>2, <4>3, <4>6, <4>7, <4>8 DEF LostThere
    <3>2. CASE Low(slave) + (d + r) > 127
      <4>1. Canonical(slave') /\ Ahead' = -127 /\ ~(rounds >= 3)
        BY <1>4, <2>2, <3>2
      <4> QED
        BY <1>1, <4>1 DEF Near, Leads
    <3> QED
      BY <1>1, <1>4, <2>2, <3>1, <3>2
  <2>3. CASE rounds = 2 /\ Low(slave) = 127 /\ Ahead = 0
    <3>1. ~Canonical(slave) /\ Low(slave) + (d + r) > 127 /\ ~(rounds >= 3)
      BY <1>1, <2>3 DEF Canonical
    <3>2. Canonical(slave') /\ Ahead' = -128
      BY <1>4, <2>3, <3>1
    <3> QED
      BY <1>1, <3>1, <3>2 DEF Near, Leads
  <2> QED
    BY <2>0, <2>1, <2>2, <2>3 DEF Begun
<1> QED
  BY <1>1, <1>5, <1>6 DEF SettlesInv, Settling

LEMMA RequestSettles ==
  ASSUME IInv, SettlesInv, 0 \notin Delays,
         NEW d \in Delays, NEW r \in Residences, Request(d, r)
  PROVE  SettlesInv'
<1>1. /\ d \in Nat \ {0} /\ r \in Nat /\ d + r \in Nat /\ d + r >= 1 /\ TypeOK /\ Pass(d + r)
      /\ phase = "waited" /\ phase' = "measured" /\ rounds' = rounds /\ sound' = sound
      /\ asymmetric' = (asymmetric \/ d # delay.ms)
  BY PtpTimeAssumption DEF IInv, Request
<1>2. /\ stamps'.t1 = stamps.t1 /\ stamps'.t2 = stamps.t2
      /\ stamps'.corr_ms = stamps.corr_ms /\ delay'.ms = delay.ms
      /\ stamps'.t3 = slave /\ stamps'.t4 = master' /\ stamps'.corr_sm = r
      /\ delay'.sm = d
  BY DEF Request, IInv, TypeOK
<1>3. Canonical(slave) => Canonical(slave') /\ Ahead' = Ahead
  BY <1>1, PassKeeps DEF Time
<1>4. ~Canonical(slave) =>
         /\ Low(slave) \in 125 .. 127
         /\ Low(slave) + (d + r) <= 127 => /\ slave' = slave + (d + r)
                                           /\ Low(slave') = Low(slave) + (d + r)
                                           /\ ~Canonical(slave')
                                           /\ Ahead' = Ahead
         /\ Low(slave) + (d + r) > 127 => Canonical(slave') /\ Ahead' = Ahead - 128
  BY <1>1, PassLoses
<1>5. rounds = 0 => Canonical(slave') /\ sound
  BY <1>3 DEF SettlesInv
<1>6. ASSUME rounds >= 1, ~asymmetric, d = delay.ms
      PROVE  IF sound THEN Near' ELSE LostBack'
  <2>0. IF sound THEN Near ELSE LostThere
    BY <1>1, <1>6 DEF SettlesInv, Settling
  <2>1. CASE sound
    <3>1. Canonical(slave) /\ Near
      BY <1>1, <2>0, <2>1 DEF IInv, ThereIsTrue
    <3> QED
      BY <1>1, <1>3, <2>1, <3>1 DEF Near
  <2>2. CASE ~sound
    <3> SUFFICES LostBack'
      BY <2>2
    <3> DEFINE s == stamps'
    <3>0. /\ LostThere /\ offset_calu(stamps)' = offset_calu(s)
          /\ WayThere(s) = WayThere(stamps)
          /\ WayBack(s) = ts_sub(master', ts_add(slave, corr_trans(r)))
      <4>1. offset_calu(stamps)' = offset_calu(s)
        BY DEF offset_calu
      <4> QED
        BY <1>2, <2>0, <2>2, <4>1 DEF WayThere, WayBack
    <3> HIDE DEF s
    <3>1. LosesThere(d, WayThere(s)) /\ d \in {1, 2} /\ (WayThere(s) = 2 => d = 1)
      BY <1>6, <3>0, Width DEF LostThere, LosesThere
    <3>a. /\ WayBack(s) = d - 1 =>
               /\ offset_calu(s) \in {[offset |-> 1, flag |-> 0], [offset |-> 0, flag |-> 1]}
               /\ WayThere(s) = 2 => offset_calu(s) = [offset |-> 1, flag |-> 0]
          /\ Magnitude(WayBack(s), 127 + d) =>
               offset_calu(s) \in {[offset |-> 64, flag |-> 1], [offset |-> 66, flag |-> 1]}
      BY <1>1, <3>1, OffsetLost
    <3>2. CASE Canonical(slave) /\ Ahead = -127
      <4>1. slave \in Time
        BY <1>1, <3>2, Width DEF TypeOK, Time
      <4>2. Magnitude(WayBack(s), d - Ahead)
        BY <1>1, <3>0, <4>1, BackExact
      <4>3. d - Ahead = 127 + d
        BY <1>1, <3>2
      <4>4. offset_calu(s) \in {[offset |-> 64, flag |-> 1], [offset |-> 66, flag |-> 1]}
        BY <3>a, <4>2, <4>3
      <4> QED
        BY <1>1, <1>3, <3>0, <3>2, <4>4 DEF LostThere, LostBack
    <3>3. CASE Low(slave) \in {126, 127} /\ Ahead = 1
      <4> DEFINE q == slave \div 128  l == Low(slave)  x == d - 1
      <4>1. /\ q \in Nat /\ l \in {126, 127} /\ slave = 128 * q + l /\ Ticks(slave) = 125 * q + l
            /\ 128 * q + l < SIGN /\ x \in {0, 1}
        BY <1>1, <3>1, <3>3, Width DEF TypeOK, Low, Ticks
      <4>2. master' \in Time /\ Ticks(master') = Ticks(master) + (d + r)
        BY <1>1, PassKeeps
      <4>3. Ticks(master) \in Nat /\ Ticks(slave) - Ticks(master) = 1
        BY <1>1, <3>3, TicksNat, Width DEF TypeOK, Ahead
      <4> HIDE DEF q, l
      <4>a. x = d - 1
        OBVIOUS
      <4> HIDE DEF x
      <4>4. Ticks(master') = 125 * q + l + r + x
        <5>1. Ticks(master) = 125 * q + l - 1
          BY <4>1, <4>3
        <5> QED
          BY <1>1, <4>1, <4>2, <4>a, <5>1
      <4>5. WayBack(s) = x
        BY <1>1, <3>0, <4>1, <4>2, <4>4, BackLost
      <4>6. /\ offset_calu(s) \in {[offset |-> 1, flag |-> 0], [offset |-> 0, flag |-> 1]}
            /\ WayThere(s) = 2 => offset_calu(s) = [offset |-> 1, flag |-> 0]
        BY <3>a, <4>5 DEF x
      <4>7. ~Canonical(slave)
        BY <3>3 DEF Canonical
      <4>8. CASE Low(slave) + (d + r) > 127
        <5>1. Canonical(slave') /\ Ahead' = -127
          BY <1>4, <3>3, <4>7, <4>8
        <5> QED
          BY <1>1, <3>0, <4>6, <5>1 DEF LostThere, LostBack
      <4>9. CASE Low(slave) + (d + r) <= 127
        <5>1. Low(slave) = 126 /\ d + r = 1
          BY <1>1, <3>3, <4>9
        <5>2. Low(slave') = 127 /\ Ahead' = 1
          BY <1>4, <3>3, <4>7, <4>9, <5>1
        <5>3. WayThere(s) = 2
          <6>1. ~(Low(slave) = 127)
            BY <5>1
          <6> QED
            BY <3>0, <4>7, <6>1 DEF LostThere
        <5> QED
          BY <1>1, <3>0, <4>6, <5>2, <5>3 DEF LostThere, LostBack
      <4> QED
        BY <1>1, <3>3, <4>8, <4>9
    <3> QED
      BY <3>0, <3>2, <3>3 DEF LostThere
  <2> QED
    BY <2>1, <2>2
<1> QED
  BY <1>1, <1>2, <1>5, <1>6 DEF SettlesInv, Settling

(* A correction by a round that was measured beyond 124. *)
LEMMA CorrectLost ==
  ASSUME IInv, Correct, LostBack
  PROVE  \/ Canonical(slave') /\ Ahead' \in Leads
         \/ Low(slave') = 127 /\ Ahead' = 0
<1>1. /\ TypeOK
      /\ master' = Count(master) /\ ~Ends(master, 1)
      /\ slave' = Corrected(slave, OffsetRegister(offset_calu(stamps)))
      /\ slave \in Nat /\ slave < SIGN /\ master \in Time
  BY Width DEF IInv, Correct, TypeOK, Time
<1>2. /\ Ticks(master) \in Nat /\ Ticks(slave) \in Nat
      /\ Ticks(master') = Ticks(master) + 1 /\ Ticks(master) + 126 <= Limit
      /\ Ticks(slave) = Ticks(master) + Ahead
  <2>1. Ticks(master) \in Nat /\ Ticks(slave) \in Nat
    BY <1>1, TicksNat DEF Time
  <2> QED
    BY <1>1, <2>1, CountTick DEF Ahead
<1>3. Ahead' = Ticks(slave') - Ticks(master')
  BY DEF Ahead, Ticks, Low
<1>4. SIGN >= 128 /\ Limit \in Nat
  BY Width DEF Limit
<1>5. CASE Canonical(slave) /\ Ahead = -127
  <2>1. slave \in Time
    BY <1>1, <1>5 DEF Time
  <2>2. ASSUME NEW h \in {0, 64, 66}, offset_calu(stamps) = [offset |-> h, flag |-> 1]
        PROVE  Canonical(slave') /\ Ahead' \in Leads
    <3>1. h \in Nat /\ h < SIGN /\ Low(h) = h /\ Ticks(h) = h /\ Low(h) <= 125 /\ Low(h) # 125
      <4>1. /\ Low(0) = 0 /\ Low(64) = 64 /\ Low(66) = 66
            /\ Ticks(0) = 0 /\ Ticks(64) = 64 /\ Ticks(66) = 66
        BY DEF Low, Ticks
      <4> QED
        BY <1>4, <4>1, Width
    <3>2. slave' = Forward(slave, h)
      <4>0. slave \in Nat /\ h \in Nat /\ h < SIGN
        BY <1>1, <3>1
      <4>1. Corrected(slave, OffsetRegister([offset |-> h, flag |-> 1])) = Forward(slave, h)
        BY ONLY <4>0, RegisterSigned
      <4> QED
        BY <1>1, <2>2, <4>1
    <3>3. Ticks(slave) + Ticks(h) + 1 < Limit
      BY <1>2, <1>4, <1>5, <3>1
    <3>4. /\ slave' \in 0 .. SIGN - 1
          /\ Ticks(slave') = Ticks(slave) + Ticks(h) + 1
          /\ Low(slave') <= 125 /\ Low(slave') # 125
      BY <2>1, <3>1, <3>2, <3>3, ForwardExact
    <3>5. Canonical(slave')
      <4>1. slave' \in Int /\ Low(slave') \in 0 .. 127
        BY <3>4, LowRange, Width
      <4> QED
        BY <3>4, <4>1 DEF Canonical
    <3>6. Ahead' = -127 + h
      BY <1>2, <1>3, <1>5, <3>1, <3>4
    <3> QED
      BY <3>5, <3>6 DEF Leads
  <2>3. ASSUME offset_calu(stamps) = [offset |-> 1, flag |-> 0]
        PROVE  Canonical(slave') /\ Ahead' \in Leads
    <3>1. 1 \in Nat /\ 1 < SIGN /\ Low(1) = 1 /\ Ticks(1) = 1 /\ Low(1) <= 125
      <4>1. Low(1) = 1 /\ Ticks(1) = 1
        BY DEF Low, Ticks
      <4> QED
        BY <1>4, <4>1, Width
    <3>2. slave' = Back(slave, 1)
      <4>1. Corrected(slave, OffsetRegister([offset |-> 1, flag |-> 0])) = Back(slave, 1)
        BY <1>1, <3>1, RegisterSigned
      <4> QED
        BY <1>1, <2>3, <4>1
    <3>3. Ticks(slave) - Ticks(1) + 1 >= 0 /\ Ticks(slave) - Ticks(1) + 1 < Limit
      BY <1>2, <1>4, <1>5, <3>1
    <3>4. slave' \in Time /\ Ticks(slave') = Ticks(slave) - Ticks(1) + 1
      BY <2>1, <3>1, <3>2, <3>3, BackwardExact
    <3>5. Ahead' = -128
      BY <1>2, <1>3, <1>5, <3>1, <3>4
    <3> QED
      BY <3>4, <3>5 DEF Leads, Time
  <2> QED
    <3>1. ~(Ahead = 1)
      BY <1>5
    <3>2. offset_calu(stamps) \in {[offset |-> 1, flag |-> 0], [offset |-> 0, flag |-> 1],
                                    [offset |-> 64, flag |-> 1], [offset |-> 66, flag |-> 1]}
      BY <3>1 DEF LostBack
    <3> QED
      BY <2>2, <2>3, <3>2
<1>6. CASE Low(slave) = 127 /\ Ahead = 1
  <2>1. offset_calu(stamps) = [offset |-> 1, flag |-> 0]
    <3>1. ~(Ahead = -127)
      BY <1>6
    <3> QED
      BY <3>1 DEF LostBack
  <2> DEFINE q == slave \div 128
  <2>2. q \in Nat /\ slave = 128 * q + 127 /\ High(slave) = 128 * q
    BY <1>1, <1>6 DEF Low, High
  <2>3. slave' = Back(slave, 1)
    <3>1. 1 \in Nat /\ 1 < SIGN
      BY <1>4, Width
    <3>2. Corrected(slave, OffsetRegister([offset |-> 1, flag |-> 0])) = Back(slave, 1)
      BY <1>1, <3>1, RegisterSigned
    <3> QED
      BY <1>1, <2>1, <3>2
  <2>4. Low(1) = 1 /\ High(1) = 0
    BY DEF Low, High
  <2>5. Back(slave, 1) = Clock(High(slave) - 0, 126 + 1)
    BY <1>6, <2>4 DEF Back
  <2> HIDE DEF q
  <2>6. Clock(High(slave) - 0, 126 + 1) = slave
    <3>1. High(slave) - 0 + ((126 + 1) % 128) = slave
      BY <2>2
    <3> QED
      BY <1>1, <3>1, Modulo DEF Clock
  <2>7. slave' = slave /\ Ticks(slave') = Ticks(slave) /\ Low(slave') = 127
    BY <1>6, <2>3, <2>5, <2>6
  <2> QED
    BY <1>2, <1>3, <1>6, <2>7
<1> QED
  BY <1>5, <1>6 DEF LostBack

LEMMA CorrectSettles ==
  ASSUME IInv, SettlesInv, Correct
  PROVE  SettlesInv'
<1>1. /\ phase = "answered" /\ phase' = "corrected" /\ rounds' = rounds + 1
      /\ asymmetric' = asymmetric /\ rounds \in Nat
  BY PtpTimeAssumption DEF IInv, TypeOK, Correct
<1>2. ASSUME ~asymmetric
      PROVE  Begun'
  <2>0. delay.sm = delay.ms
    BY <1>1, <1>2 DEF SettlesInv
  <2>1. CASE sound
    <3>1. /\ Ahead' \in -1 .. 1
          /\ Canonical(slave') \/ (Low(slave') = 125 /\ Ahead' = 1)
          /\ Ahead \in Leads => Canonical(slave')
      BY <2>0, <2>1, CorrectSound
    <3>2. Near'
      <4>1. \A a \in -1 .. 1 : a \in Leads
        BY DEF Leads
      <4> QED
        BY <3>1, <4>1 DEF Near
    <3>3. CASE rounds = 0
      BY <1>1, <3>1, <3>2, <3>3 DEF Begun, Canonical
    <3>4. CASE rounds # 0
      <4>1. Near
        BY <1>1, <1>2, <2>1, <3>4 DEF SettlesInv, Settling
      <4>2. Ahead \in Leads
        BY <4>1 DEF Near, Leads
      <4> QED
        BY <3>1, <3>2, <4>2 DEF Begun
    <3> QED
      BY <3>3, <3>4
  <2>2. CASE ~sound
    <3>1. rounds # 0
      BY <2>2 DEF SettlesInv
    <3>2. LostBack
      BY <1>1, <1>2, <2>2, <3>1 DEF SettlesInv, Settling
    <3>3. rounds = 1 /\ rounds' = 2 /\ ~(rounds' >= 3)
      BY <1>1, <3>2 DEF LostBack
    <3>4. \/ Canonical(slave') /\ Ahead' \in Leads
          \/ Low(slave') = 127 /\ Ahead' = 0
      BY <3>2, CorrectLost
    <3> QED
      BY <3>3, <3>4 DEF Begun, Near
  <2> QED
    BY <2>1, <2>2
<1>3. rounds' # 0
  BY <1>1
<1> QED
  BY <1>1, <1>2, <1>3 DEF SettlesInv, Settling

LEMMA NextSettles ==
  ASSUME 0 \notin Delays, IInv, SettlesInv, [Next]_vars
  PROVE  SettlesInv'
<1>1. ASSUME NEW d \in Delays, NEW r \in Residences, Sync(d, r)
      PROVE  SettlesInv'
  BY <1>1, SyncSettles
<1>2. ASSUME NEW d \in Delays, NEW r \in Residences, Request(d, r)
      PROVE  SettlesInv'
  BY <1>2, RequestSettles
<1>3. ASSUME NEW k \in Waits, TimePasses(k)
      PROVE  SettlesInv'
  BY <1>3, TimePassesSettles
<1>4. CASE Correct
  BY <1>4, CorrectSettles
<1>5. CASE UNCHANGED vars
  <2>1. offset_calu(stamps)' = offset_calu(stamps) /\ WayThere(stamps)' = WayThere(stamps)
    BY <1>5 DEF vars, offset_calu, WayThere
  <2>2. Ahead' = Ahead /\ Canonical(slave') = Canonical(slave) /\ Low(slave') = Low(slave)
    BY <1>5 DEF vars, Ahead, Ticks, Canonical, Low
  <2>3. Near' = Near /\ Begun' = Begun /\ LostThere' = LostThere /\ LostBack' = LostBack
    BY <1>5, <2>1, <2>2 DEF vars, Near, Begun, LostThere, LostBack
  <2> QED
    BY <1>5, <2>2, <2>3 DEF vars, SettlesInv, Settling
<1> QED
  BY <1>1, <1>2, <1>3, <1>4, <1>5 DEF Next

(* Whatever the width of the clocks, the residences and the waits, wherever
   the clocks begin, and whatever the delay of at least a tick is in each
   round: after three rounds over wires of equal delays the slave's clock is
   canonical and within a tick of the master's. *)
THEOREM Settled ==
  ASSUME 0 \notin Delays
  PROVE  Spec => []Settles
<1>1. Init => IInv /\ SettlesInv
  BY InitInv, InitSettles
<1>2. IInv /\ SettlesInv /\ [Next]_vars => (IInv /\ SettlesInv)'
  BY NextInv, NextSettles
<1>3. IInv /\ SettlesInv => Settles
  BY SettlesInvImplies
<1> QED
  BY <1>1, <1>2, <1>3, PTL DEF Spec
=============================================================================
