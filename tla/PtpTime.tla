------------------------------ MODULE PtpTime ------------------------------
(***************************************************************************)
(* The arithmetic of time stamps and the clocks it corrects (TSNLight:     *)
(* ptp_single_process.c; switch: global_time_sync.v).                      *)
(*                                                                         *)
(* A clock counts ticks of 8 ns.  It has 48 bits: the upper 41 count       *)
(* microseconds, the lower 7 count ticks, from 0 to 124.  The controller   *)
(* gets four stamps of a slave, computes in this form how far it is ahead, *)
(* halves the result as a binary number, and writes it to the slave, whose *)
(* clock is corrected by it at the next tick.  A slave that is 124 ticks   *)
(* ahead or behind so gets an offset of 125 or 126 ticks, and its clock    *)
(* may come to count ticks up to 127, from where it goes back to 0 without *)
(* a carry.                                                                *)
(*                                                                         *)
(* Modelled is one slave in the rounds before a guide offset is written    *)
(* (sync_seq < 10 in its table), with clocks of the same frequency, until  *)
(* the first of the clocks reaches its end, after 25 days.                 *)
(***************************************************************************)
EXTENDS Integers

CONSTANTS SIGN,        \* 0x1000000000000, the bit above a time
          Starts,      \* ticks on both clocks in the beginning
          Delays,      \* of the wires, in ticks
          Residences,  \* of a packet in the switches on its way, in ticks
          Waits,       \* between two of these steps, in ticks
          MaxRounds    \* rounds of synchronisation, for model checking

ASSUME PtpTimeAssumption ==
  /\ SIGN \in Nat \ {0} /\ SIGN % 128 = 0
  /\ \A p \in Starts : p \in (0 .. 125 * (SIGN \div 128) - 1) \X (0 .. 125 * (SIGN \div 128) - 1)
  /\ Delays \subseteq Nat /\ Residences \subseteq Nat /\ Waits \subseteq Nat
  /\ MaxRounds \in Nat

---------------------------------------------------------------------------
(* Time stamps: u64 in TSNLight. *)

WORD == 65536 * SIGN
Wrapped(x) == IF x < 0 THEN x + WORD ELSE IF x >= WORD THEN x - WORD ELSE x

High(u) == u - (u % 128)
Low(u) == u % 128

(* The mutant adds binary numbers. *)
ts_add_Binary(u1, u2) == Wrapped(u1 + u2)

ts_add(u1, u2) ==
  LET low == Low(u1) + Low(u2)
  IN Wrapped(Wrapped(High(u1) + High(u2)) + IF low > 124 THEN low + 3 ELSE low)

(* The greater minus the smaller one, with a borrow of 125. *)
Distance(u1, u2) ==
  IF Low(u1) < Low(u2)
  THEN ts_add(Wrapped(Low(u1) + 125 - Low(u2)), High(u1) - 128 - High(u2))
  ELSE u1 - u2

ts_sub(u1, u2) == IF u1 >= u2 THEN Distance(u1, u2) ELSE Wrapped(Distance(u2, u1) + SIGN)

(* A residence is counted in plain ticks. *)
corr_trans(a) == (a \div 125) * 128 + (a % 125)

(* Latest_Offset, and offset_flag: 0 if the slave is ahead. *)
offset_calu(s) ==
  LET t_ms == ts_sub(s.t2, ts_add(s.t1, corr_trans(s.corr_ms)))
      t_sm == ts_sub(s.t4, ts_add(s.t3, corr_trans(s.corr_sm)))
      Result(twice, flag) == [offset |-> twice \div 2, flag |-> flag]
  IN CASE t_ms < SIGN /\ t_sm < SIGN ->
            IF t_ms >= t_sm THEN Result(ts_sub(t_ms, t_sm), 0) ELSE Result(ts_sub(t_sm, t_ms), 1)
       [] t_ms < SIGN /\ t_sm > SIGN -> Result(ts_add(t_ms, t_sm - SIGN), 0)
       [] t_ms > SIGN /\ t_sm < SIGN -> Result(ts_add(t_ms - SIGN, t_sm), 1)
       [] OTHER -> IF Wrapped(t_ms - SIGN) >= Wrapped(t_sm - SIGN)
                   THEN Result(ts_sub(t_ms, t_sm), 1) ELSE Result(ts_sub(t_sm, t_ms), 0)

(* The 49 bits that reach the register: above the time, 1 for minus. *)
OffsetRegister(o) == (o.offset + IF o.flag = 0 THEN SIGN ELSE 0) % (2 * SIGN)

---------------------------------------------------------------------------
(* The clock: what it holds after a tick, without and with a correction. *)

Clock(high, low) == (high + (low % 128)) % SIGN

(* The mutant carries one tick too late. *)
Count_Late(c) == IF Low(c) = 125 THEN Clock(High(c) + 128, 0) ELSE Clock(High(c), Low(c) + 1)

Count(c) == IF Low(c) = 124 THEN Clock(High(c) + 128, 0) ELSE Clock(High(c), Low(c) + 1)

Forward(c, o) ==
  IF Low(c) + Low(o) >= 124 THEN Clock(High(c) + High(o) + 128, Low(c) + Low(o) - 124)
  ELSE Clock(High(c) + High(o), Low(c) + Low(o) + 1)

(* The mutant does not see that the tick that passes undoes the borrow. *)
Back_Borrow(c, o) ==
  LET low == Low(c) - Low(o) IN
  CASE low = 124 -> Clock(High(c) - High(o) + 128, 0)
    [] low >= 0 /\ low # 124 -> Clock(High(c) - High(o), low + 1)
    [] low < 0 -> Clock(High(c) - High(o) - 128, low + 126)

Back(c, o) ==
  LET low == Low(c) - Low(o) IN
  CASE low = 124 -> Clock(High(c) - High(o) + 128, 0)
    [] low >= 0 /\ low # 124 -> Clock(High(c) - High(o), low + 1)
    [] low = -1 -> Clock(High(c) - High(o), 0)
    [] low < -1 -> Clock(High(c) - High(o) - 128, low + 126)

Corrected(c, register) ==
  IF register < SIGN THEN Forward(c, register) ELSE Back(c, register - SIGN)

(* The time that a clock shows, in ticks, and the clock after k ticks.  One
   that counts beyond 124 loses what it has counted at 127. *)
Ticks(c) == 125 * (c \div 128) + Low(c)
Canonical(c) == Low(c) <= 124
Show(t) == 128 * (t \div 125) + (t % 125)

Elapse(c, k) ==
  IF Canonical(c) THEN Show(Ticks(c) + k)
  ELSE IF Low(c) + k < 128 THEN c + k
  ELSE Show(Ticks(High(c)) + k - (128 - Low(c)))

(* No clock reaches its end within k ticks. *)
Ends(c, k) == High(c) + 128 + Show(k) >= SIGN

---------------------------------------------------------------------------
VARIABLES
  master, slave,   \* the clocks
  phase,           \* what happened last in this round
  stamps,          \* the entry of the slave in the table
  delay,           \* of the wires, to the slave and back, in this round
  sound,           \* the slave's clock was canonical when the Sync came
  asymmetric,      \* the two delays differed in some round
  rounds           \* of synchronisation, up to MaxRounds

vars == <<master, slave, phase, stamps, delay, sound, asymmetric, rounds>>

Init ==
  /\ \E p \in Starts : master = Show(p[1]) /\ slave = Show(p[2])
  /\ phase = "corrected"
  /\ stamps = [t1 |-> 0, t2 |-> 0, corr_ms |-> 0, t3 |-> 0, t4 |-> 0, corr_sm |-> 0]
  /\ delay = [ms |-> 0, sm |-> 0]
  /\ sound = TRUE /\ asymmetric = FALSE
  /\ rounds = 0

Pass(k) ==
  /\ ~Ends(master, k) /\ ~Ends(slave, k)
  /\ master' = Elapse(master, k)
  /\ slave' = Elapse(slave, k)

(* A Sync packet leaves the master and comes to the slave. *)
Sync(d, r) ==
  /\ phase = "due" /\ rounds < MaxRounds
  /\ phase' = "synced"
  /\ Pass(d + r)
  /\ stamps' = [stamps EXCEPT !.t1 = master, !.t2 = slave', !.corr_ms = r]
  /\ delay' = [delay EXCEPT !.ms = d]
  /\ sound' = Canonical(slave')
  /\ UNCHANGED <<asymmetric, rounds>>

(* The steps of a round after which time passes. *)
Later == [corrected |-> "due", synced |-> "waited", measured |-> "answered"]

TimePasses(k) ==
  /\ phase \in DOMAIN Later
  /\ phase' = Later[phase]
  /\ Pass(k)
  /\ UNCHANGED <<stamps, delay, sound, asymmetric, rounds>>

(* A request leaves the slave and comes to the master. *)
Request(d, r) ==
  /\ phase = "waited"
  /\ phase' = "measured"
  /\ Pass(d + r)
  /\ stamps' = [stamps EXCEPT !.t3 = slave, !.t4 = master', !.corr_sm = r]
  /\ delay' = [delay EXCEPT !.sm = d]
  /\ asymmetric' = (asymmetric \/ d # delay.ms)
  /\ UNCHANGED <<sound, rounds>>

(* The offset is computed and written, and applied with the next tick. *)
Correct ==
  /\ phase = "answered"
  /\ phase' = "corrected"
  /\ ~Ends(master, 1)
  /\ master' = Count(master)
  /\ slave' = Corrected(slave, OffsetRegister(offset_calu(stamps)))
  /\ rounds' = rounds + 1
  /\ UNCHANGED <<stamps, delay, sound, asymmetric>>

Next == \/ \E d \in Delays, r \in Residences : Sync(d, r) \/ Request(d, r)
        \/ \E k \in Waits : TimePasses(k)
        \/ Correct

Spec == Init /\ [][Next]_vars

---------------------------------------------------------------------------
(* Properties. *)

Abs(x) == IF x < 0 THEN -x ELSE x

(* How far the slave really is ahead, and what is computed of it. *)
Ahead == Ticks(slave) - Ticks(master)
Meant(o) == IF o.flag = 0 THEN Ticks(o.offset) ELSE -Ticks(o.offset)
Computed == Meant(offset_calu(stamps))

(* The clocks have 48 bits, and the master's always counts to 124. *)
TypeOK ==
  /\ master \in 0 .. SIGN - 1 /\ slave \in 0 .. SIGN - 1
  /\ Canonical(master)
  /\ phase \in {"corrected", "due", "synced", "waited", "measured", "answered"}
  /\ stamps \in [t1 : Nat, t2 : Nat, corr_ms : Nat, t3 : Nat, t4 : Nat, corr_sm : Nat]
  /\ delay \in [ms : Nat, sm : Nat]
  /\ sound \in BOOLEAN /\ asymmetric \in BOOLEAN
  /\ rounds \in 0 .. MaxRounds

(* Of a clock that was canonical when the Sync came, the computed offset
   is right, sign included, up to half of what the wires differ and one and
   a half ticks: odd microseconds are halved to 64 instead of 62 and a half
   ticks. *)
OffsetIsRight ==
  phase \in {"measured", "answered"} /\ sound =>
    2 * Abs(Computed - Ahead) <= Abs(delay.ms - delay.sm) + 3

(* Wherever the clocks begin, and although the slave's may lose a
   microsecond after the first correction and be measured while it does,
   with equal delays of at least a tick it is within a tick of the master
   after the third. *)
Settles ==
  phase = "corrected" /\ rounds >= 3 /\ ~asymmetric =>
    Canonical(slave) /\ Abs(Ahead) <= 1
=============================================================================
