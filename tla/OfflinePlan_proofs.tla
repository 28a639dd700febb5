-------------------------- MODULE OfflinePlan_proofs --------------------------
(***************************************************************************)
(* Proofs about OfflinePlan, for any chips, any tables, and any documents  *)
(* and packets that are well formed.                                       *)
(***************************************************************************)
EXTENDS OfflinePlan, Lemmas, TLAPS

-----------------------------------------------------------------------------
(* Folds.  A fold over a sequence of n elements exists if the values stay in a
   set X, and is what is left after n steps. *)

LEMMA PrefixInduction ==
  ASSUME NEW n \in Nat, NEW P, 0 \in P, \A m \in 1 .. n : m - 1 \in P => m \in P
  PROVE  \A m \in 0 .. n : m \in P
<1> DEFINE Bad == {m \in 0 .. n : m \notin P}
<1>1. ASSUME Bad # {} PROVE FALSE
  <2>1. PICK m \in Bad : \A k \in Bad : m <= k
    <3>1. Bad \in SUBSET Nat
      OBVIOUS
    <3> HIDE DEF Bad
    <3> QED
      BY <1>1, <3>1, LeastNatural
  <2>2. m \in 1 .. n /\ m - 1 \in 0 .. n
    OBVIOUS
  <2>3. m - 1 \in P
    BY <2>1, <2>2
  <2> QED
    BY <2>1, <2>2, <2>3
<1> QED
  BY <1>1

LEMMA MaxPrefix ==
  ASSUME NEW m \in Nat, NEW s \in SUBSET (1 .. m), m \in s
  PROVE  Max(s) = m
<1>1. \A x \in s : m >= x
  OBVIOUS
<1>2. \A x \in s : (\A y \in s : x >= y) => x = m
  OBVIOUS
<1> QED
  BY <1>1, <1>2 DEF Max

LEMMA MaxOf ==
  ASSUME NEW n \in Nat, NEW s \in SUBSET (1 .. n), s # {}
  PROVE  Max(s) \in s /\ \A y \in s : y <= Max(s)
<1> DEFINE Gap == {n - x : x \in s}
<1>1. Gap \in SUBSET Nat /\ Gap # {}
  <2>1. ASSUME NEW x \in s PROVE n - x \in Nat
    <3>1. x \in 1 .. n
      OBVIOUS
    <3> QED
      BY <3>1
  <2>2. PICK x : x \in s
    OBVIOUS
  <2>3. n - x \in Gap
    BY <2>2
  <2>4. \A d \in Gap : d \in Nat
    BY <2>1
  <2> QED
    BY <2>3, <2>4
<1>2. PICK d \in Gap : \A e \in Gap : d <= e
  <2> HIDE DEF Gap
  <2> QED
    BY <1>1, LeastNatural
<1>3. PICK x \in s : d = n - x
  BY <1>2
<1>4. \A y \in s : x >= y
  <2>1. ASSUME NEW y \in s PROVE x >= y
    <3>1. n - y \in Gap
      OBVIOUS
    <3>2. n - x <= n - y
      <4> HIDE DEF Gap
      <4> QED
        BY <1>2, <1>3, <3>1
    <3>3. x \in 1 .. n /\ y \in 1 .. n
      OBVIOUS
    <3> HIDE DEF Gap
    <3> QED
      BY <3>2, <3>3
  <2> QED
    BY <2>1
<1>5. Max(s) \in s /\ \A y \in s : Max(s) >= y
  BY <1>3, <1>4 DEF Max
<1>6. \A y \in s : y \in Int
  <2>1. ASSUME NEW y \in s PROVE y \in Int
    <3>1. y \in 1 .. n
      OBVIOUS
    <3> QED
      BY <3>1
  <2> QED
    BY <2>1
<1> QED
  BY <1>5, <1>6

IsStep(F, X, n) == F \in [X \X (1 .. n) -> X]
IsFold(g, base, F, X, n) ==
  /\ g \in [SUBSET (1 .. n) -> X]
  /\ \A s \in SUBSET (1 .. n) : g[s] = IF s = {} THEN base ELSE F[<<g[s \ {Max(s)}], Max(s)>>]
IsRun(p, base, F, X, n) ==
  /\ p \in [0 .. n -> X] /\ p[0] = base
  /\ \A m \in 1 .. n : p[m] = F[<<p[m - 1], m>>]

Iterates(iter, base, F, X, n) ==
  /\ iter[{}] = base
  /\ \A s \in SUBSET (1 .. n) :
       s # {} /\ iter[s \ {Max(s)}] \in X => iter[s] = F[<<iter[s \ {Max(s)}], Max(s)>>]

LEMMA FoldExists ==
  ASSUME NEW X, NEW base, base \in X, NEW n, n \in Nat, NEW F, IsStep(F, X, n)
  PROVE  \E g : IsFold(g, base, F, X, n)
<1> DEFINE Folds(g, m) ==
             \A s \in SUBSET (1 .. m) :
               g[s] = IF s = {} THEN base ELSE F[<<g[s \ {Max(s)}], Max(s)>>]
           P == {m \in 0 .. n : \E g \in [SUBSET (1 .. m) -> X] : Folds(g, m)}
<1> USE DEF IsStep
<1>1. 0 \in P
  <2> DEFINE g == [s \in SUBSET (1 .. 0) |-> base]
  <2>1. g \in [SUBSET (1 .. 0) -> X] /\ Folds(g, 0)
    <3>1. 1 .. 0 = {}
      OBVIOUS
    <3> QED
      BY <3>1
  <2>2. 0 \in 0 .. n
    OBVIOUS
  <2> HIDE DEF g, Folds
  <2> QED
    BY <2>1, <2>2
<1>2. ASSUME NEW m \in 1 .. n, m - 1 \in P PROVE m \in P
  <2>1. PICK g \in [SUBSET (1 .. m - 1) -> X] : Folds(g, m - 1)
    BY <1>2
  <2> DEFINE h == [s \in SUBSET (1 .. m) |->
                     IF m \in s THEN F[<<g[s \ {m}], m>>] ELSE g[s]]
  <2>2. \A s \in SUBSET (1 .. m) : IF m \in s THEN s \ {m} \in SUBSET (1 .. m - 1)
                                              ELSE s \in SUBSET (1 .. m - 1)
    OBVIOUS
  <2>3. h \in [SUBSET (1 .. m) -> X]
    <3>1. ASSUME NEW s \in SUBSET (1 .. m)
          PROVE  (IF m \in s THEN F[<<g[s \ {m}], m>>] ELSE g[s]) \in X
      <4>1. CASE m \in s
        <5>1. g[s \ {m}] \in X
          BY <2>2, <4>1
        <5> QED
          BY <4>1, <5>1
      <4>2. CASE m \notin s
        BY <2>2, <4>2
      <4> QED
        BY <4>1, <4>2
    <3> QED
      BY <3>1
  <2>4. ASSUME NEW s \in SUBSET (1 .. m)
        PROVE  h[s] = IF s = {} THEN base ELSE F[<<h[s \ {Max(s)}], Max(s)>>]
    <3>1. CASE m \in s
      <4>1. Max(s) = m
        BY <3>1, MaxPrefix
      <4>2. h[s \ {m}] = g[s \ {m}]
        BY <2>2, <3>1
      <4>3. h[s] = F[<<g[s \ {m}], m>>]
        BY <3>1
      <4> QED
        BY <3>1, <4>1, <4>2, <4>3
    <3>2. CASE m \notin s
      <4>1. s \in SUBSET (1 .. m - 1) /\ h[s] = g[s]
        BY <2>2, <3>2
      <4>2. g[s] = IF s = {} THEN base ELSE F[<<g[s \ {Max(s)}], Max(s)>>]
        BY <2>1, <4>1
      <4>3. h[s \ {Max(s)}] = g[s \ {Max(s)}]
        BY <3>2
      <4> QED
        BY <4>1, <4>2, <4>3
    <3> QED
      BY <3>1, <3>2
  <2>5. Folds(h, m)
    BY <2>4
  <2> HIDE DEF h, Folds
  <2> QED
    BY <2>3, <2>5
<1>3. n \in P
  <2> HIDE DEF P
  <2> QED
    BY <1>1, <1>2, PrefixInduction
<1> QED
  BY <1>3 DEF IsFold

(* The fold that FoldLeft chooses, seen as a run over the prefixes. *)
LEMMA Segments ==
  ASSUME NEW n \in Nat, NEW m \in 1 .. n
  PROVE  /\ 1 .. m \in SUBSET (1 .. n) /\ 1 .. m # {}
         /\ Max(1 .. m) = m /\ (1 .. m) \ {m} = 1 .. m - 1
         /\ m - 1 \in 0 .. n /\ m \in 0 .. n
<1>1. m \in Nat /\ m \in 1 .. m /\ 1 .. m \in SUBSET (1 .. m)
  OBVIOUS
<1>2. Max(1 .. m) = m
  BY <1>1, MaxPrefix
<1>3. 1 .. m \in SUBSET (1 .. n) /\ 1 .. m # {}
  BY <1>1
<1>4. (1 .. m) \ {m} = 1 .. m - 1 /\ m - 1 \in 0 .. n /\ m \in 0 .. n
  OBVIOUS
<1> QED
  BY <1>2, <1>3, <1>4

(* The fold that FoldLeft chooses is a run over the prefixes: it goes from base
   through X by F, and ends at the value for all n elements. *)
LEMMA FoldPrefixes ==
  ASSUME NEW n, n \in Nat, NEW X, NEW base, base \in X, NEW F, IsStep(F, X, n), NEW iter,
         Iterates(iter, base, F, X, n)
  PROVE  \E p : IsRun(p, base, F, X, n) /\ p[n] = iter[1 .. n]
<1> DEFINE P == {m \in 0 .. n : iter[1 .. m] \in X}
           p == [m \in 0 .. n |-> iter[1 .. m]]
<1> USE DEF IsStep, Iterates
<1>1. ASSUME NEW m \in 1 .. n, iter[1 .. m - 1] \in X
      PROVE  iter[1 .. m] = F[<<iter[1 .. m - 1], m>>]
  <2>1. 1 .. m \in SUBSET (1 .. n) /\ 1 .. m # {} /\ Max(1 .. m) = m
        /\ (1 .. m) \ {m} = 1 .. m - 1
    BY Segments
  <2> QED
    BY <1>1, <2>1
<1>2. 0 \in P
  <2>1. 0 \in 0 .. n /\ 1 .. 0 = {}
    OBVIOUS
  <2> QED
    BY <2>1
<1>3. ASSUME NEW m \in 1 .. n, m - 1 \in P PROVE m \in P
  <2>1. iter[1 .. m] = F[<<iter[1 .. m - 1], m>>] /\ iter[1 .. m - 1] \in X
    BY <1>1, <1>3
  <2> QED
    BY <2>1
<1>4. \A m \in 0 .. n : m \in P
  <2> HIDE DEF P
  <2> QED
    BY <1>2, <1>3, PrefixInduction
<1>5. p \in [0 .. n -> X]
  BY <1>4
<1>6. p[0] = base /\ p[n] = iter[1 .. n]
  <2>1. 0 \in 0 .. n /\ n \in 0 .. n /\ 1 .. 0 = {}
    OBVIOUS
  <2> QED
    BY <2>1
<1>7. ASSUME NEW m \in 1 .. n PROVE p[m] = F[<<p[m - 1], m>>]
  <2>1. m - 1 \in 0 .. n /\ m \in 0 .. n
    OBVIOUS
  <2>2. iter[1 .. m - 1] \in X
    BY <1>4, <2>1
  <2> QED
    BY <1>1, <2>1, <2>2
<1> HIDE DEF p
<1> QED
  BY <1>5, <1>6, <1>7 DEF IsRun

-----------------------------------------------------------------------------
(* Overlay: each index has its last entry. *)

IsOverlay(iter, table, entries) ==
  iter = [s \in SUBSET DOMAIN entries |->
            IF s = {} THEN table
            ELSE [iter[s \ {Max(s)}] EXCEPT ![entries[Max(s)][1]] = entries[Max(s)][2]]]

(* n pairs of an index and a value. *)
EntriesIn(entries, n, V) ==
  DOMAIN entries = 1 .. n /\ \A k \in 1 .. n : entries[k][1] \in Index /\ entries[k][2] \in V

OverlayRun(p, table, entries, n, V) ==
  /\ p \in [0 .. n -> [Index -> V]] /\ p[0] = table /\ p[n] = Overlay(table, entries)
  /\ \A m \in 1 .. n : p[m] = [p[m - 1] EXCEPT ![entries[m][1]] = entries[m][2]]

LEMMA OverlayFold ==
  ASSUME NEW table, NEW entries, NEW g, IsOverlay(g, table, entries)
  PROVE  \E iter : IsOverlay(iter, table, entries) /\ Overlay(table, entries) = iter[DOMAIN entries]
<1> DEFINE iter == CHOOSE iter : IsOverlay(iter, table, entries)
<1>1. IsOverlay(iter, table, entries)
  OBVIOUS
<1>2. Overlay(table, entries) = iter[DOMAIN entries]
  BY Zenon DEF Overlay, FoldLeft, MapThenFoldSet, IsOverlay
<1> QED
  BY <1>1, <1>2

LEMMA OverlayRuns ==
  ASSUME NEW V, NEW table \in [Index -> V], NEW entries, NEW n \in Nat, EntriesIn(entries, n, V)
  PROVE  \E p : OverlayRun(p, table, entries, n, V)
<1> USE DEF EntriesIn
<1> DEFINE X == [Index -> V]
           F == [z \in X \X (1 .. n) |-> [z[1] EXCEPT ![entries[z[2]][1]] = entries[z[2]][2]]]
<1>1. IsStep(F, X, n)
  <2>1. ASSUME NEW z \in X \X (1 .. n)
        PROVE  [z[1] EXCEPT ![entries[z[2]][1]] = entries[z[2]][2]] \in X
    <3>1. z[1] \in X /\ z[2] \in 1 .. n
      OBVIOUS
    <3> QED
      BY <3>1
  <2> QED
    BY <2>1 DEF IsStep
<1>2. \A t \in X, m \in 1 .. n : F[<<t, m>>] = [t EXCEPT ![entries[m][1]] = entries[m][2]]
  OBVIOUS
<1>3. table \in X
  OBVIOUS
<1>4. \A s \in SUBSET (1 .. n) : s # {} =>
        Max(s) \in 1 .. n /\ s \ {Max(s)} \in SUBSET (1 .. n)
  BY MaxOf
<1> HIDE DEF X, F
<1>5. PICK g : IsFold(g, table, F, X, n)
  BY <1>1, <1>3, FoldExists
<1>6. IsOverlay(g, table, entries)
  <2>1. ASSUME NEW s \in SUBSET (1 .. n)
        PROVE  g[s] = IF s = {} THEN table
                      ELSE [g[s \ {Max(s)}] EXCEPT ![entries[Max(s)][1]] = entries[Max(s)][2]]
    <3>1. CASE s = {}
      BY <1>5, <3>1 DEF IsFold
    <3>2. CASE s # {}
      <4>1. Max(s) \in 1 .. n /\ g[s \ {Max(s)}] \in X
        BY <1>4, <1>5, <3>2 DEF IsFold
      <4>2. g[s] = F[<<g[s \ {Max(s)}], Max(s)>>]
        BY <1>5, <3>2 DEF IsFold
      <4> QED
        BY <1>2, <3>2, <4>1, <4>2
    <3> QED
      BY <3>1, <3>2
  <2> QED
    BY <1>5, <2>1 DEF IsOverlay, IsFold
<1>7. PICK iter : IsOverlay(iter, table, entries) /\ Overlay(table, entries) = iter[DOMAIN entries]
  BY <1>6, OverlayFold
<1>8. \A s \in SUBSET (1 .. n) :
        iter[s] = IF s = {} THEN table
                  ELSE [iter[s \ {Max(s)}] EXCEPT ![entries[Max(s)][1]] = entries[Max(s)][2]]
  BY <1>7 DEF IsOverlay
<1>9. iter[{}] = table
  BY <1>8
<1>10. Iterates(iter, table, F, X, n)
  BY <1>2, <1>4, <1>8, <1>9 DEF Iterates
<1>11. PICK p : IsRun(p, table, F, X, n) /\ p[n] = iter[1 .. n]
  BY <1>1, <1>3, <1>10, FoldPrefixes
<1>12. ASSUME NEW m \in 1 .. n
       PROVE  p[m] = [p[m - 1] EXCEPT ![entries[m][1]] = entries[m][2]]
  <2>1. p[m - 1] \in X
    BY <1>11 DEF IsRun
  <2> QED
    BY <1>2, <1>11, <2>1 DEF IsRun
<1>13. p[n] = Overlay(table, entries)
  BY <1>7, <1>11
<1>14. p \in [0 .. n -> [Index -> V]] /\ p[0] = table
  BY <1>11 DEF X, IsRun
<1> QED
  BY <1>12, <1>13, <1>14 DEF OverlayRun

(* LastOf: the last entry of an index, if there is one. *)
IsLast(entries, i, k) == k \in At(entries, i) /\ \A j \in At(entries, i) : j <= k

(* Entry k is the one that tells what the entries say of i. *)
Decides(entries, i, k) ==
  /\ IsLast(entries, i, k)
  /\ \A otherwise : LastOf(entries, i, otherwise) = entries[k][2]

LEMMA LastEntry ==
  ASSUME NEW entries, NEW n \in Nat, DOMAIN entries = 1 .. n, NEW i, At(entries, i) # {}
  PROVE  \E k \in 1 .. n : Decides(entries, i, k)
<1> USE DEF Decides
<1>1. At(entries, i) \in SUBSET (1 .. n)
  BY DEF At
<1>2. IsLast(entries, i, Max(At(entries, i)))
  BY <1>1, MaxOf DEF IsLast
<1> DEFINE k == CHOOSE k \in At(entries, i) : \A j \in At(entries, i) : j <= k
<1>3. IsLast(entries, i, k)
  BY <1>2 DEF IsLast
<1>4. k \in 1 .. n
  BY <1>1, <1>3 DEF IsLast
<1>5. \A otherwise : LastOf(entries, i, otherwise) = entries[k][2]
  BY DEF LastOf
<1> QED
  BY <1>3, <1>4, <1>5

LEMMA NoEntry ==
  ASSUME NEW entries, NEW i, At(entries, i) = {}, NEW otherwise
  PROVE  LastOf(entries, i, otherwise) = otherwise
BY DEF LastOf

(* What each entry of i sets, the last one leaves. *)
LEMMA LastWins ==
  ASSUME NEW entries, NEW n \in Nat, DOMAIN entries = 1 .. n, NEW i, NEW q,
         \A m \in 1 .. n : q[m] = IF entries[m][1] = i THEN entries[m][2] ELSE q[m - 1]
  PROVE  q[n] = LastOf(entries, i, q[0])
<1> DEFINE Until(m) ==
             /\ (\A k \in 1 .. m : entries[k][1] # i) => q[m] = q[0]
             /\ \A k \in 1 .. m :
                  entries[k][1] = i /\ (\A j \in 1 .. m : entries[j][1] = i => j <= k)
                    => q[m] = entries[k][2]
           P == {m \in 0 .. n : Until(m)}
<1>1. 0 \in P
  OBVIOUS
<1>2. ASSUME NEW m \in 1 .. n, m - 1 \in P PROVE m \in P
  <2>1. /\ q[m] = IF entries[m][1] = i THEN entries[m][2] ELSE q[m - 1]
        /\ m - 1 \in 0 .. n /\ m \in 0 .. n /\ m \in 1 .. m
    OBVIOUS
  <2>2. Until(m - 1)
    BY <1>2
  <2>3. CASE entries[m][1] = i
    <3>1. \A k \in 1 .. m : (\A j \in 1 .. m : entries[j][1] = i => j <= k) => k = m
      BY <2>1, <2>3
    <3> QED
      BY <2>1, <2>3, <3>1
  <2>4. CASE entries[m][1] # i
    <3>1. q[m] = q[m - 1]
      BY <2>1, <2>4
    <3>2. \A k \in 1 .. m : entries[k][1] = i => k \in 1 .. m - 1
      BY <2>4
    <3>3. \A j \in 1 .. m - 1 : j \in 1 .. m
      OBVIOUS
    <3>4. (\A k \in 1 .. m : entries[k][1] # i) => q[m] = q[0]
      BY <2>2, <3>1, <3>3
    <3>5. ASSUME NEW k \in 1 .. m, entries[k][1] = i, \A j \in 1 .. m : entries[j][1] = i => j <= k
          PROVE  q[m] = entries[k][2]
      BY <2>2, <3>1, <3>2, <3>3, <3>5
    <3> QED
      BY <2>1, <3>4, <3>5
  <2> QED
    BY <2>3, <2>4
<1>3. \A m \in 0 .. n : m \in P
  <2> HIDE DEF P
  <2> QED
    BY <1>1, <1>2, PrefixInduction
<1>4. Until(n)
  BY <1>3
<1>5. CASE At(entries, i) = {}
  <2>1. \A k \in 1 .. n : entries[k][1] # i
    BY <1>5 DEF At
  <2> QED
    BY <1>4, <1>5, <2>1, NoEntry
<1>6. CASE At(entries, i) # {}
  <2>1. PICK k \in 1 .. n : Decides(entries, i, k)
    BY <1>6, LastEntry
  <2> USE DEF Decides
  <2>2. entries[k][1] = i /\ \A j \in 1 .. n : entries[j][1] = i => j <= k
    BY <2>1 DEF IsLast, At
  <2> QED
    BY <1>4, <2>1, <2>2
<1> QED
  BY <1>5, <1>6

LEMMA OverlayIs ==
  ASSUME NEW V, NEW table \in [Index -> V], NEW entries, NEW n \in Nat, EntriesIn(entries, n, V)
  PROVE  /\ Overlay(table, entries) \in [Index -> V]
         /\ \A i \in Index : Overlay(table, entries)[i] = LastOf(entries, i, table[i])
<1>1. PICK p : OverlayRun(p, table, entries, n, V)
  BY OverlayRuns
<1> USE DEF OverlayRun, EntriesIn
<1>2. Overlay(table, entries) \in [Index -> V]
  <2>1. n \in 0 .. n
    OBVIOUS
  <2> QED
    BY <1>1, <2>1
<1>3. ASSUME NEW i \in Index
      PROVE  Overlay(table, entries)[i] = LastOf(entries, i, table[i])
  <2> DEFINE q == [m \in 0 .. n |-> p[m][i]]
  <2>1. ASSUME NEW m \in 1 .. n
        PROVE  q[m] = IF entries[m][1] = i THEN entries[m][2] ELSE q[m - 1]
    <3>1. p[m] = [p[m - 1] EXCEPT ![entries[m][1]] = entries[m][2]] /\ p[m - 1] \in [Index -> V]
          /\ m - 1 \in 0 .. n /\ m \in 0 .. n
      BY <1>1
    <3> QED
      BY <3>1
  <2>2. q[0] = table[i] /\ q[n] = Overlay(table, entries)[i]
    BY <1>1
  <2> HIDE DEF q
  <2>3. q[n] = LastOf(entries, i, q[0])
    BY <2>1, LastWins
  <2> QED
    BY <2>2, <2>3
<1> QED
  BY <1>2, <1>3

-----------------------------------------------------------------------------
(* Mapped: each index has its last value, and the address it had. *)

SetVal(t, i, v) == [t EXCEPT ![i].val = v]

IsMapped(iter, table, entries) ==
  iter = [s \in SUBSET DOMAIN entries |->
            IF s = {} THEN table
            ELSE SetVal(iter[s \ {Max(s)}], entries[Max(s)][1], entries[Max(s)][2])]

MappedRun(p, table, entries, n) ==
  /\ p \in [0 .. n -> [Index -> HcpEntry]] /\ p[0] = table /\ p[n] = Mapped(table, entries)
  /\ \A m \in 1 .. n : p[m] = SetVal(p[m - 1], entries[m][1], entries[m][2])

LEMMA SetValIs ==
  ASSUME NEW t \in [Index -> HcpEntry], NEW i \in Index, NEW v \in Word
  PROVE  /\ SetVal(t, i, v) \in [Index -> HcpEntry]
         /\ \A j \in Index : /\ SetVal(t, i, v)[j].addr = t[j].addr
                             /\ SetVal(t, i, v)[j].val = IF i = j THEN v ELSE t[j].val
<1> DEFINE r == [addr |-> t[i].addr, val |-> v]
<1>1. t[i] \in HcpEntry /\ t[i].addr \in Index \cup {None}
  BY DEF HcpEntry
<1>2. [t[i] EXCEPT !.val = v] = r
  BY <1>1 DEF HcpEntry
<1>3. r \in HcpEntry /\ r.addr = t[i].addr /\ r.val = v
  BY <1>1 DEF HcpEntry
<1> HIDE DEF r
<1>4. SetVal(t, i, v) = [t EXCEPT ![i] = r]
  BY Zenon, <1>2 DEF SetVal
<1> QED
  BY <1>3, <1>4

LEMMA MappedFold ==
  ASSUME NEW table, NEW entries, NEW g, IsMapped(g, table, entries)
  PROVE  \E iter : IsMapped(iter, table, entries) /\ Mapped(table, entries) = iter[DOMAIN entries]
<1> DEFINE iter == CHOOSE iter : IsMapped(iter, table, entries)
<1>1. IsMapped(iter, table, entries)
  OBVIOUS
<1>2. Mapped(table, entries) = iter[DOMAIN entries]
  BY Zenon DEF Mapped, FoldLeft, MapThenFoldSet, IsMapped, SetVal
<1> QED
  BY <1>1, <1>2

LEMMA MappedRuns ==
  ASSUME NEW table \in [Index -> HcpEntry], NEW entries, NEW n \in Nat,
         EntriesIn(entries, n, Word)
  PROVE  \E p : MappedRun(p, table, entries, n)
<1> USE DEF EntriesIn
<1> DEFINE X == [Index -> HcpEntry]
           F == [z \in X \X (1 .. n) |-> SetVal(z[1], entries[z[2]][1], entries[z[2]][2])]
<1>1. IsStep(F, X, n)
  <2>1. ASSUME NEW z \in X \X (1 .. n)
        PROVE  SetVal(z[1], entries[z[2]][1], entries[z[2]][2]) \in X
    <3>1. z[1] \in X /\ z[2] \in 1 .. n
      OBVIOUS
    <3> QED
      BY <3>1, SetValIs
  <2> QED
    BY <2>1 DEF IsStep
<1>2. \A t \in X, m \in 1 .. n : F[<<t, m>>] = SetVal(t, entries[m][1], entries[m][2])
  OBVIOUS
<1>3. table \in X
  OBVIOUS
<1>4. \A s \in SUBSET (1 .. n) : s # {} =>
        Max(s) \in 1 .. n /\ s \ {Max(s)} \in SUBSET (1 .. n)
  BY MaxOf
<1> HIDE DEF X, F
<1>5. PICK g : IsFold(g, table, F, X, n)
  BY <1>1, <1>3, FoldExists
<1>6. IsMapped(g, table, entries)
  <2>1. ASSUME NEW s \in SUBSET (1 .. n)
        PROVE  g[s] = IF s = {} THEN table
                      ELSE SetVal(g[s \ {Max(s)}], entries[Max(s)][1], entries[Max(s)][2])
    <3>1. CASE s = {}
      BY <1>5, <3>1 DEF IsFold
    <3>2. CASE s # {}
      <4>1. Max(s) \in 1 .. n /\ g[s \ {Max(s)}] \in X
        BY <1>4, <1>5, <3>2 DEF IsFold
      <4>2. g[s] = F[<<g[s \ {Max(s)}], Max(s)>>]
        BY <1>5, <3>2 DEF IsFold
      <4> QED
        BY <1>2, <3>2, <4>1, <4>2
    <3> QED
      BY <3>1, <3>2
  <2> QED
    BY <1>5, <2>1 DEF IsMapped, IsFold
<1>7. PICK iter : IsMapped(iter, table, entries) /\ Mapped(table, entries) = iter[DOMAIN entries]
  BY <1>6, MappedFold
<1>8. \A s \in SUBSET (1 .. n) :
        iter[s] = IF s = {} THEN table
                  ELSE SetVal(iter[s \ {Max(s)}], entries[Max(s)][1], entries[Max(s)][2])
  BY <1>7 DEF IsMapped
<1>9. iter[{}] = table
  BY <1>8
<1>10. Iterates(iter, table, F, X, n)
  BY <1>2, <1>4, <1>8, <1>9 DEF Iterates
<1>11. PICK p : IsRun(p, table, F, X, n) /\ p[n] = iter[1 .. n]
  BY <1>1, <1>3, <1>10, FoldPrefixes
<1>12. ASSUME NEW m \in 1 .. n
       PROVE  p[m] = SetVal(p[m - 1], entries[m][1], entries[m][2])
  <2>1. p[m - 1] \in X
    BY <1>11 DEF IsRun
  <2> QED
    BY <1>2, <1>11, <2>1 DEF IsRun
<1>13. p[n] = Mapped(table, entries)
  BY <1>7, <1>11
<1>14. p \in [0 .. n -> [Index -> HcpEntry]] /\ p[0] = table
  BY <1>11 DEF X, IsRun
<1> QED
  BY <1>12, <1>13, <1>14 DEF MappedRun

LEMMA MappedIs ==
  ASSUME NEW table \in [Index -> HcpEntry], NEW entries, NEW n \in Nat,
         EntriesIn(entries, n, Word)
  PROVE  /\ Mapped(table, entries) \in [Index -> HcpEntry]
         /\ \A i \in Index : /\ Mapped(table, entries)[i].addr = table[i].addr
                             /\ Mapped(table, entries)[i].val = LastOf(entries, i, table[i].val)
<1>1. PICK p : MappedRun(p, table, entries, n)
  BY MappedRuns
<1> USE DEF MappedRun, EntriesIn
<1>2. Mapped(table, entries) \in [Index -> HcpEntry]
  <2>1. n \in 0 .. n
    OBVIOUS
  <2> QED
    BY <1>1, <2>1
<1>3. ASSUME NEW m \in 1 .. n, NEW i \in Index
      PROVE  /\ p[m][i].addr = p[m - 1][i].addr
             /\ p[m][i].val = IF entries[m][1] = i THEN entries[m][2] ELSE p[m - 1][i].val
             /\ m - 1 \in 0 .. n /\ m \in 0 .. n
  <2>1. p[m] = SetVal(p[m - 1], entries[m][1], entries[m][2])
        /\ p[m - 1] \in [Index -> HcpEntry] /\ m - 1 \in 0 .. n /\ m \in 0 .. n
    BY <1>1
  <2>2. entries[m][1] \in Index /\ entries[m][2] \in Word
    OBVIOUS
  <2> HIDE DEF EntriesIn, MappedRun
  <2> DEFINE t == p[m - 1]
             i0 == entries[m][1]
             v == entries[m][2]
  <2>3. t \in [Index -> HcpEntry] /\ i0 \in Index /\ v \in Word /\ p[m] = SetVal(t, i0, v)
    BY <2>1, <2>2
  <2> HIDE DEF t, i0, v
  <2>4. /\ SetVal(t, i0, v)[i].addr = t[i].addr
        /\ SetVal(t, i0, v)[i].val = IF i0 = i THEN v ELSE t[i].val
    BY <2>3, SetValIs
  <2> QED
    BY <2>1, <2>3, <2>4 DEF t, i0, v
<1>4. ASSUME NEW i \in Index
      PROVE  Mapped(table, entries)[i].addr = table[i].addr
  <2> DEFINE P == {m \in 0 .. n : p[m][i].addr = table[i].addr}
  <2>1. 0 \in P
    BY <1>1
  <2>2. ASSUME NEW m \in 1 .. n, m - 1 \in P PROVE m \in P
    BY <1>3, <2>2
  <2>3. \A m \in 0 .. n : m \in P
    <3> HIDE DEF P
    <3> QED
      BY <2>1, <2>2, PrefixInduction
  <2> QED
    BY <1>1, <2>3
<1>5. ASSUME NEW i \in Index
      PROVE  Mapped(table, entries)[i].val = LastOf(entries, i, table[i].val)
  <2> DEFINE q == [m \in 0 .. n |-> p[m][i].val]
  <2>1. \A m \in 1 .. n : q[m] = IF entries[m][1] = i THEN entries[m][2] ELSE q[m - 1]
    BY <1>3
  <2>2. q[0] = table[i].val /\ q[n] = Mapped(table, entries)[i].val
    BY <1>1
  <2> HIDE DEF q
  <2>3. q[n] = LastOf(entries, i, q[0])
    BY <2>1, LastWins
  <2> QED
    BY <2>2, <2>3
<1> QED
  BY <1>2, <1>4, <1>5

-----------------------------------------------------------------------------
(* The other folds: what they return has its type, and thresholds stay in
   order. *)

LEMMA FoldStays ==
  ASSUME NEW n, n \in Nat, NEW X, NEW base, base \in X, NEW F, IsStep(F, X, n), NEW iter,
         Iterates(iter, base, F, X, n)
  PROVE  iter[1 .. n] \in X
<1>1. PICK p : IsRun(p, base, F, X, n) /\ p[n] = iter[1 .. n]
  BY FoldPrefixes
<1>2. n \in 0 .. n
  OBVIOUS
<1> QED
  BY <1>1, <1>2 DEF IsRun

Ordered(reg) == /\ reg[CHIP_RC_REGULATION_ADDR] <= reg[CHIP_UNMAP_REGULATION_ADDR]
                /\ reg[CHIP_UNMAP_REGULATION_ADDR] <= reg[CHIP_BE_REGULATION_ADDR]
Thresholds == {reg \in [Reg -> Below(512)] : ThresholdsFit => Ordered(reg)}

WithThresholds(reg, rc, be, unmap) ==
  [reg EXCEPT ![CHIP_RC_REGULATION_ADDR] = rc, ![CHIP_BE_REGULATION_ADDR] = be,
              ![CHIP_UNMAP_REGULATION_ADDR] = unmap]

LEMMA ThresholdsSet ==
  ASSUME NEW reg \in Thresholds, NEW rc \in Below(512), NEW unmap \in Below(512),
         NEW be \in Below(512), ThresholdsFit => rc <= unmap /\ unmap <= be
  PROVE  WithThresholds(reg, rc, be, unmap) \in Thresholds
BY DEF WithThresholds, Thresholds, Ordered, Reg, Below, CHIP_RC_REGULATION_ADDR, CHIP_BE_REGULATION_ADDR,
       CHIP_UNMAP_REGULATION_ADDR, CHIP_PORT_TYPE_ADDR

LEMMA PortTypeSet ==
  ASSUME NEW reg \in Thresholds, NEW v \in Nat
  PROVE  [reg EXCEPT ![CHIP_PORT_TYPE_ADDR] = v % 256] \in Thresholds
BY DEF Thresholds, Ordered, Reg, Below, CHIP_RC_REGULATION_ADDR, CHIP_BE_REGULATION_ADDR,
       CHIP_UNMAP_REGULATION_ADDR, CHIP_PORT_TYPE_ADDR

(* A register entry whose threshold leaves room for the best effort one. *)
IsRegEntry(e) == /\ e[1] \in Nat /\ e[2] \in Nat
                 /\ (ThresholdsFit /\ e[1] = CHIP_OFFSET_PERIOD_ADDR) => e[2] < 412

LEMMA RegEntry ==
  ASSUME NEW reg \in Thresholds, NEW e, IsRegEntry(e)
  PROVE  parse_reg_info(reg, e) \in Thresholds
<1> USE DEF IsRegEntry
<1>1. CASE e[1] = CHIP_PORT_TYPE_ADDR
  <2>1. parse_reg_info(reg, e) = [reg EXCEPT ![CHIP_PORT_TYPE_ADDR] = e[2] % 256]
    BY <1>1 DEF parse_reg_info, CHIP_PORT_TYPE_ADDR, CHIP_OFFSET_PERIOD_ADDR
  <2>2. PICK v \in Nat : v = e[2]
    OBVIOUS
  <2>3. [reg EXCEPT ![CHIP_PORT_TYPE_ADDR] = v % 256] \in Thresholds
    BY PortTypeSet
  <2> QED
    BY Zenon, <2>1, <2>2, <2>3
<1>2. CASE e[1] = CHIP_OFFSET_PERIOD_ADDR
  <2> DEFINE v == e[2] % 512
             be == RegBe(e[2])
  <2>1. v \in Below(512) /\ be \in Below(512)
    BY DEF RegBe, Below
  <2>2. ThresholdsFit => v <= v /\ v <= be
    BY <1>2 DEF RegBe
  <2>3. parse_reg_info(reg, e) = WithThresholds(reg, v, be, v)
    BY <1>2 DEF parse_reg_info, WithThresholds, CHIP_PORT_TYPE_ADDR, CHIP_OFFSET_PERIOD_ADDR
  <2> HIDE DEF v, be
  <2>4. WithThresholds(reg, v, be, v) \in Thresholds
    BY <2>1, <2>2, ThresholdsSet
  <2> QED
    BY <2>3, <2>4
<1>3. CASE e[1] # CHIP_PORT_TYPE_ADDR /\ e[1] # CHIP_OFFSET_PERIOD_ADDR
  BY <1>3 DEF parse_reg_info
<1> QED
  BY <1>1, <1>2, <1>3

(* Registers. *)
IsRegisters(iter, reg, entries) ==
  iter = [s \in SUBSET DOMAIN entries |->
            IF s = {} THEN reg ELSE parse_reg_info(iter[s \ {Max(s)}], entries[Max(s)])]

LEMMA RegistersFold ==
  ASSUME NEW reg, NEW entries, NEW g, IsRegisters(g, reg, entries)
  PROVE  \E iter : IsRegisters(iter, reg, entries) /\ Registers(reg, entries) = iter[DOMAIN entries]
<1> DEFINE iter == CHOOSE iter : IsRegisters(iter, reg, entries)
<1>1. IsRegisters(iter, reg, entries)
  OBVIOUS
<1>2. Registers(reg, entries) = iter[DOMAIN entries]
  BY Zenon DEF Registers, FoldLeft, MapThenFoldSet, IsRegisters
<1> QED
  BY <1>1, <1>2

LEMMA RegistersStays ==
  ASSUME NEW X, NEW reg, NEW entries, reg \in X, NEW n \in Nat, DOMAIN entries = 1 .. n,
         \A v \in X, m \in 1 .. n : parse_reg_info(v, entries[m]) \in X
  PROVE  Registers(reg, entries) \in X
<1> DEFINE F == [z \in X \X (1 .. n) |-> parse_reg_info(z[1], entries[z[2]])]
<1>1. IsStep(F, X, n)
  BY DEF IsStep
<1>2. \A v \in X, m \in 1 .. n : F[<<v, m>>] = parse_reg_info(v, entries[m])
  OBVIOUS
<1>3. \A s \in SUBSET (1 .. n) : s # {} =>
        Max(s) \in 1 .. n /\ s \ {Max(s)} \in SUBSET (1 .. n)
  BY MaxOf
<1> HIDE DEF F
<1>4. PICK g : IsFold(g, reg, F, X, n)
  BY <1>1, FoldExists
<1>5. IsRegisters(g, reg, entries)
  <2>1. ASSUME NEW s \in SUBSET (1 .. n)
        PROVE  g[s] = IF s = {} THEN reg ELSE parse_reg_info(g[s \ {Max(s)}], entries[Max(s)])
    <3>1. CASE s = {}
      BY <1>4, <3>1 DEF IsFold
    <3>2. CASE s # {}
      <4>1. Max(s) \in 1 .. n /\ g[s \ {Max(s)}] \in X
        BY <1>3, <1>4, <3>2 DEF IsFold
      <4>2. g[s] = F[<<g[s \ {Max(s)}], Max(s)>>]
        BY <1>4, <3>2 DEF IsFold
      <4> QED
        BY <1>2, <3>2, <4>1, <4>2
    <3> QED
      BY <3>1, <3>2
  <2> QED
    BY <1>4, <2>1 DEF IsRegisters, IsFold
<1>6. PICK iter : IsRegisters(iter, reg, entries) /\ Registers(reg, entries) = iter[DOMAIN entries]
  BY <1>5, RegistersFold
<1>7. \A s \in SUBSET (1 .. n) :
        iter[s] = IF s = {} THEN reg ELSE parse_reg_info(iter[s \ {Max(s)}], entries[Max(s)])
  BY <1>6 DEF IsRegisters
<1>8. iter[{}] = reg
  BY <1>7
<1>9. Iterates(iter, reg, F, X, n)
  BY <1>2, <1>3, <1>7, <1>8 DEF Iterates
<1>10. iter[1 .. n] \in X
  BY <1>1, <1>9, FoldStays
<1> QED
  BY <1>6, <1>10

LEMMA RegistersKeepOrder ==
  ASSUME NEW reg \in Thresholds, NEW entries, NEW n \in Nat, DOMAIN entries = 1 .. n,
         \A m \in 1 .. n : IsRegEntry(entries[m])
  PROVE  Registers(reg, entries) \in Thresholds
<1>1. \A v \in Thresholds, m \in 1 .. n : parse_reg_info(v, entries[m]) \in Thresholds
  BY RegEntry
<1> QED
  BY <1>1, RegistersStays

(* parse_init_node: the imac is that of the chip the registers name. *)
EmptyNode(e) == [imac |-> 0, port_num |-> 0, qbv_or_qch |-> 0, reg |-> RegDefault,
                 forward |-> e.forward]

IsNode(iter, e) ==
  iter = [s \in SUBSET DOMAIN e.register |->
            IF s = {} THEN EmptyNode(e) ELSE parse_register_xml(iter[s \ {Max(s)}], e.register[Max(s)])]

LEMMA NodeFold ==
  ASSUME NEW e, NEW g, IsNode(g, e)
  PROVE  \E iter : IsNode(iter, e) /\ parse_init_node(e) = iter[DOMAIN e.register]
<1> DEFINE iter == CHOOSE iter : IsNode(iter, e)
<1>1. IsNode(iter, e)
  OBVIOUS
<1>2. parse_init_node(e) = iter[DOMAIN e.register]
  BY Zenon DEF parse_init_node, EmptyNode, FoldLeft, MapThenFoldSet, IsNode
<1> QED
  BY <1>1, <1>2

NodeRun(p, e, n, X) ==
  /\ p \in [0 .. n -> X] /\ p[0] = EmptyNode(e) /\ p[n] = parse_init_node(e)
  /\ \A m \in 1 .. n : p[m] = parse_register_xml(p[m - 1], e.register[m])

SettingsKeep(X, e, n) ==
  /\ EmptyNode(e) \in X
  /\ \A v \in X, m \in 1 .. n : parse_register_xml(v, e.register[m]) \in X

LEMMA NodeRuns ==
  ASSUME NEW X, NEW e, NEW n \in Nat, DOMAIN e.register = 1 .. n, SettingsKeep(X, e, n)
  PROVE  \E p : NodeRun(p, e, n, X)
<1> USE DEF SettingsKeep
<1> DEFINE F == [z \in X \X (1 .. n) |-> parse_register_xml(z[1], e.register[z[2]])]
<1>1. IsStep(F, X, n)
  BY DEF IsStep
<1>2. \A v \in X, m \in 1 .. n : F[<<v, m>>] = parse_register_xml(v, e.register[m])
  OBVIOUS
<1>3. \A s \in SUBSET (1 .. n) : s # {} =>
        Max(s) \in 1 .. n /\ s \ {Max(s)} \in SUBSET (1 .. n)
  BY MaxOf
<1> HIDE DEF F
<1>4. PICK g : IsFold(g, EmptyNode(e), F, X, n)
  BY <1>1, FoldExists
<1>5. IsNode(g, e)
  <2>1. ASSUME NEW s \in SUBSET (1 .. n)
        PROVE  g[s] = IF s = {} THEN EmptyNode(e) ELSE parse_register_xml(g[s \ {Max(s)}], e.register[Max(s)])
    <3>1. CASE s = {}
      BY <1>4, <3>1 DEF IsFold
    <3>2. CASE s # {}
      <4>1. Max(s) \in 1 .. n /\ g[s \ {Max(s)}] \in X
        BY <1>3, <1>4, <3>2 DEF IsFold
      <4>2. g[s] = F[<<g[s \ {Max(s)}], Max(s)>>]
        BY <1>4, <3>2 DEF IsFold
      <4> QED
        BY <1>2, <3>2, <4>1, <4>2
    <3> QED
      BY <3>1, <3>2
  <2> QED
    BY <1>4, <2>1 DEF IsNode, IsFold
<1>6. PICK iter : IsNode(iter, e) /\ parse_init_node(e) = iter[DOMAIN e.register]
  BY <1>5, NodeFold
<1>7. \A s \in SUBSET (1 .. n) :
        iter[s] = IF s = {} THEN EmptyNode(e) ELSE parse_register_xml(iter[s \ {Max(s)}], e.register[Max(s)])
  BY <1>6 DEF IsNode
<1>8. iter[{}] = EmptyNode(e)
  BY <1>7
<1>9. Iterates(iter, EmptyNode(e), F, X, n)
  BY <1>2, <1>3, <1>7, <1>8 DEF Iterates
<1>10. PICK p : IsRun(p, EmptyNode(e), F, X, n) /\ p[n] = iter[1 .. n]
  BY <1>1, <1>9, FoldPrefixes
<1>11. ASSUME NEW m \in 1 .. n PROVE p[m] = parse_register_xml(p[m - 1], e.register[m])
  <2>1. p[m - 1] \in X
    BY <1>10 DEF IsRun
  <2> QED
    BY <1>2, <1>10, <2>1 DEF IsRun
<1>12. p[n] = parse_init_node(e)
  BY <1>6, <1>10
<1>13. p \in [0 .. n -> X] /\ p[0] = EmptyNode(e)
  BY <1>10 DEF IsRun
<1> QED
  BY <1>11, <1>12, <1>13 DEF NodeRun

InitNode == [imac : Chips, port_num : Nat, qbv_or_qch : Nat, reg : Thresholds, forward : Routes]
PartNode == [imac : Nat, port_num : Nat, qbv_or_qch : Nat, reg : Thresholds, forward : Routes]

IsSetting(e) == /\ e \in Setting
                /\ (ThresholdsFit /\ e[1] = "ST_buf_threshold") => 22 <= e[2] /\ e[2] < 512

LEMMA SettingKept ==
  ASSUME NEW cfg \in PartNode, NEW e, IsSetting(e)
  PROVE  /\ parse_register_xml(cfg, e) \in PartNode
         /\ parse_register_xml(cfg, e).imac = IF e[1] = "IMAC" THEN e[2] ELSE cfg.imac
<1> DEFINE v == e[2]
           c == parse_register_xml(cfg, e)
<1>1. v \in Nat /\ (e[1] = "IMAC" => v \in Chips)
  <2>1. \/ e[1] = "IMAC" /\ v \in Chips
        \/ e[1] # "IMAC" /\ v \in Nat
    BY DEF IsSetting, Setting
  <2> QED
    BY <2>1, OfflinePlanAssumption
<1>2. /\ cfg.imac \in Nat /\ cfg.port_num \in Nat /\ cfg.qbv_or_qch \in Nat
      /\ cfg.reg \in Thresholds /\ cfg.forward \in Routes
  BY DEF PartNode
<1>3. CASE e[1] = "IMAC"
  <2>1. c = [cfg EXCEPT !.imac = v]
    BY <1>3 DEF parse_register_xml
  <2> HIDE DEF v, c
  <2>2. c \in PartNode /\ c.imac = v
    BY <1>1, <2>1 DEF PartNode
  <2> QED
    BY <1>3, <2>2 DEF c, v
<1>4. CASE e[1] = "port_num"
  <2>1. c = [cfg EXCEPT !.port_num = v]
    BY <1>4 DEF parse_register_xml
  <2> HIDE DEF v, c
  <2>2. c \in PartNode /\ c.imac = cfg.imac
    BY <1>1, <2>1 DEF PartNode
  <2> QED
    BY <1>4, <2>2 DEF c
<1>5. CASE e[1] = "qbv_or_qch"
  <2>1. c = [cfg EXCEPT !.qbv_or_qch = v]
    BY <1>5 DEF parse_register_xml
  <2> HIDE DEF v, c
  <2>2. c \in PartNode /\ c.imac = cfg.imac
    BY <1>1, <2>1 DEF PartNode
  <2> QED
    BY <1>5, <2>2 DEF c
<1>6. CASE e[1] = "port_type"
  <2> DEFINE r == [cfg.reg EXCEPT ![CHIP_PORT_TYPE_ADDR] = v % 256]
  <2>1. c = [cfg EXCEPT !.reg = r]
    BY <1>6 DEF parse_register_xml
  <2> HIDE DEF c
  <2>2. r \in Thresholds
    <3> HIDE DEF v
    <3> QED
      BY <1>1, <1>2, PortTypeSet
  <2> HIDE DEF r
  <2>3. c \in PartNode /\ c.imac = cfg.imac
    BY <2>1, <2>2 DEF PartNode
  <2> QED
    BY <1>6, <2>3 DEF c
<1>7. CASE e[1] = "ST_buf_threshold"
  <2> DEFINE r == [cfg.reg EXCEPT ![CHIP_RC_REGULATION_ADDR] = (v - 22) % 512,
                                  ![CHIP_BE_REGULATION_ADDR] = v % 512,
                                  ![CHIP_UNMAP_REGULATION_ADDR] = (v - 8) % 512]
  <2>1. c = [cfg EXCEPT !.reg = r]
    BY <1>7 DEF parse_register_xml
  <2> HIDE DEF c
  <2>2. r \in Thresholds
    <3> DEFINE rc == (v - 22) % 512
               be == v % 512
               unmap == (v - 8) % 512
    <3>1. ThresholdsFit => 22 <= v /\ v < 512
      BY <1>7 DEF IsSetting
    <3> HIDE DEF v
    <3>2. rc \in Below(512) /\ be \in Below(512) /\ unmap \in Below(512)
      BY <1>1 DEF Below
    <3>3. ThresholdsFit => rc <= unmap /\ unmap <= be
      BY <1>1, <3>1
    <3> HIDE DEF rc, be, unmap
    <3>4. WithThresholds(cfg.reg, rc, be, unmap) \in Thresholds
      BY <1>2, <3>2, <3>3, ThresholdsSet
    <3> QED
      BY <3>4 DEF WithThresholds, rc, be, unmap
  <2> HIDE DEF r
  <2>3. c \in PartNode /\ c.imac = cfg.imac
    BY <2>1, <2>2 DEF PartNode
  <2> QED
    BY <1>7, <2>3 DEF c
<1>8. CASE e[1] \notin {"IMAC", "port_num", "qbv_or_qch", "port_type", "ST_buf_threshold"}
  <2>1. c = cfg
    BY <1>8 DEF parse_register_xml
  <2> QED
    BY <1>8, <2>1
<1> QED
  BY <1>3, <1>4, <1>5, <1>6, <1>7, <1>8

LEMMA NodeParsed ==
  ASSUME NEW e, e.forward \in Routes, NEW n \in Nat, DOMAIN e.register = 1 .. n,
         \A m \in 1 .. n : IsSetting(e.register[m]),
         \E k \in 1 .. n : e.register[k][1] = "IMAC"
  PROVE  parse_init_node(e) \in InitNode
<1>1. EmptyNode(e) \in PartNode
  <2>1. RegDefault \in Thresholds
    BY DEF RegDefault, Thresholds, Ordered, Reg, Below, CHIP_RC_REGULATION_ADDR,
           CHIP_BE_REGULATION_ADDR, CHIP_UNMAP_REGULATION_ADDR
  <2> QED
    BY <2>1 DEF EmptyNode, PartNode
<1>2. \A v \in PartNode, m \in 1 .. n : parse_register_xml(v, e.register[m]) \in PartNode
  BY SettingKept
<1>3. PICK p : NodeRun(p, e, n, PartNode)
  <2>1. SettingsKeep(PartNode, e, n)
    BY <1>1, <1>2 DEF SettingsKeep
  <2> QED
    BY <2>1, NodeRuns
<1> USE DEF NodeRun
<1>4. PICK k \in 1 .. n : e.register[k][1] = "IMAC"
  OBVIOUS
<1>5. ASSUME NEW m \in 1 .. n
      PROVE  p[m].imac = IF e.register[m][1] = "IMAC" THEN e.register[m][2] ELSE p[m - 1].imac
  <2>1. p[m - 1] \in PartNode
    BY <1>3
  <2> DEFINE cfg == p[m - 1]
             s == e.register[m]
  <2>2. cfg \in PartNode /\ IsSetting(s) /\ p[m] = parse_register_xml(cfg, s)
    BY <1>3, <2>1
  <2> HIDE DEF cfg, s
  <2>3. parse_register_xml(cfg, s).imac = IF s[1] = "IMAC" THEN s[2] ELSE cfg.imac
    BY <2>2, SettingKept
  <2>4. p[m].imac = IF s[1] = "IMAC" THEN s[2] ELSE cfg.imac
    BY <2>2, <2>3
  <2> QED
    BY <2>4 DEF cfg, s
<1>6. \A m \in 1 .. n : e.register[m][1] = "IMAC" => e.register[m][2] \in Chips
  <2>1. ASSUME NEW m \in 1 .. n, e.register[m][1] = "IMAC" PROVE e.register[m][2] \in Chips
    <3>1. e.register[m] \in Setting
      BY DEF IsSetting
    <3> QED
      BY <2>1, <3>1 DEF Setting
  <2> QED
    BY <2>1
<1> DEFINE P == {m \in 0 .. n : m >= k => p[m].imac \in Chips}
<1>7. 0 \in P
  OBVIOUS
<1>8. ASSUME NEW m \in 1 .. n, m - 1 \in P PROVE m \in P
  <2>1. CASE e.register[m][1] = "IMAC"
    BY <1>5, <1>6, <2>1
  <2>2. CASE e.register[m][1] # "IMAC"
    <3>1. m # k
      BY <1>4, <2>2
    <3> QED
      BY <1>5, <1>8, <2>2, <3>1
  <2> QED
    BY <2>1, <2>2
<1>9. n \in P
  <2>1. \A m \in 0 .. n : m \in P
    <3> HIDE DEF P
    <3> QED
      BY <1>7, <1>8, PrefixInduction
  <2>2. n \in 0 .. n
    OBVIOUS
  <2> QED
    BY <2>1, <2>2
<1>10. p[n].imac \in Chips /\ p[n] \in PartNode
  BY <1>3, <1>9
<1> QED
  BY <1>3, <1>10 DEF PartNode, InitNode

(* parse_init_doc. *)
NoConfig == [init_cfg |-> <<>>, init_test |-> <<>>]

IsDoc(iter, doc) ==
  iter = [s \in SUBSET DOMAIN doc |->
            IF s = {} THEN NoConfig ELSE InitElement(iter[s \ {Max(s)}], doc[Max(s)])]

LEMMA DocFold ==
  ASSUME NEW doc, NEW g, IsDoc(g, doc)
  PROVE  \E iter : IsDoc(iter, doc) /\ parse_init_doc(doc) = iter[DOMAIN doc]
<1> DEFINE iter == CHOOSE iter : IsDoc(iter, doc)
<1>1. IsDoc(iter, doc)
  OBVIOUS
<1>2. parse_init_doc(doc) = iter[DOMAIN doc]
  BY Zenon DEF parse_init_doc, NoConfig, FoldLeft, MapThenFoldSet, IsDoc
<1> QED
  BY <1>1, <1>2

LEMMA DocStays ==
  ASSUME NEW X, NEW doc, NoConfig \in X, NEW n \in Nat, DOMAIN doc = 1 .. n,
         \A v \in X, m \in 1 .. n : InitElement(v, doc[m]) \in X
  PROVE  parse_init_doc(doc) \in X
<1> DEFINE F == [z \in X \X (1 .. n) |-> InitElement(z[1], doc[z[2]])]
<1>1. IsStep(F, X, n)
  BY DEF IsStep
<1>2. \A v \in X, m \in 1 .. n : F[<<v, m>>] = InitElement(v, doc[m])
  OBVIOUS
<1>3. \A s \in SUBSET (1 .. n) : s # {} =>
        Max(s) \in 1 .. n /\ s \ {Max(s)} \in SUBSET (1 .. n)
  BY MaxOf
<1> HIDE DEF F
<1>4. PICK g : IsFold(g, NoConfig, F, X, n)
  BY <1>1, FoldExists
<1>5. IsDoc(g, doc)
  <2>1. ASSUME NEW s \in SUBSET (1 .. n)
        PROVE  g[s] = IF s = {} THEN NoConfig ELSE InitElement(g[s \ {Max(s)}], doc[Max(s)])
    <3>1. CASE s = {}
      BY <1>4, <3>1 DEF IsFold
    <3>2. CASE s # {}
      <4>1. Max(s) \in 1 .. n /\ g[s \ {Max(s)}] \in X
        BY <1>3, <1>4, <3>2 DEF IsFold
      <4>2. g[s] = F[<<g[s \ {Max(s)}], Max(s)>>]
        BY <1>4, <3>2 DEF IsFold
      <4> QED
        BY <1>2, <3>2, <4>1, <4>2
    <3> QED
      BY <3>1, <3>2
  <2> QED
    BY <1>4, <2>1 DEF IsDoc, IsFold
<1>6. PICK iter : IsDoc(iter, doc) /\ parse_init_doc(doc) = iter[DOMAIN doc]
  BY <1>5, DocFold
<1>7. \A s \in SUBSET (1 .. n) :
        iter[s] = IF s = {} THEN NoConfig ELSE InitElement(iter[s \ {Max(s)}], doc[Max(s)])
  BY <1>6 DEF IsDoc
<1>8. iter[{}] = NoConfig
  BY <1>7
<1>9. Iterates(iter, NoConfig, F, X, n)
  BY <1>2, <1>3, <1>7, <1>8 DEF Iterates
<1>10. iter[1 .. n] \in X
  BY <1>1, <1>9, FoldStays
<1> QED
  BY <1>6, <1>10

InitConfig == [init_cfg : Seq(InitNode), init_test : Seq(Chips)]

LEMMA ElementKept ==
  ASSUME NEW doc \in InitDocs, NEW k \in DOMAIN doc, NEW cfg \in InitConfig
  PROVE  InitElement(cfg, doc[k]) \in InitConfig
<1> DEFINE e == doc[k]
<1>1. InitElementOK(e)
  BY DocumentsAssumption
<1>2. (ThresholdsFit /\ e.tag = "switch") => \A j \in DOMAIN e.register :
        e.register[j][1] = "ST_buf_threshold" => 22 <= e.register[j][2] /\ e.register[j][2] < 512
  BY DEF ThresholdsFit
<1> HIDE DEF e
<1>3. CASE e.tag = "switch"
  <2>1. e.register \in Seq(Setting) /\ e.forward \in Routes
        /\ \E j \in DOMAIN e.register : e.register[j][1] = "IMAC"
    BY <1>1, <1>3 DEF InitElementOK
  <2>2. Len(e.register) \in Nat /\ DOMAIN e.register = 1 .. Len(e.register)
        /\ \A m \in 1 .. Len(e.register) : e.register[m] \in Setting
    BY <2>1
  <2>3. \A m \in 1 .. Len(e.register) : IsSetting(e.register[m])
    BY <1>2, <1>3, <2>2 DEF IsSetting
  <2>4. parse_init_node(e) \in InitNode
    BY <2>1, <2>2, <2>3, NodeParsed
  <2> DEFINE node == parse_init_node(e)
  <2>5. InitElement(cfg, e) = [cfg EXCEPT !.init_cfg = Append(@, node)]
    BY <1>3 DEF InitElement
  <2> HIDE DEF node
  <2>6. Append(cfg.init_cfg, node) \in Seq(InitNode)
    BY <2>4 DEF InitConfig, node
  <2>7. InitElement(cfg, e) \in InitConfig
    BY <2>5, <2>6 DEF InitConfig
  <2> QED
    BY <2>7 DEF e
<1>4. CASE e.tag = "test"
  <2> DEFINE n == parse_test_xml(e)
  <2>1. n \in Chips
    BY <1>1, <1>4 DEF InitElementOK, parse_test_xml
  <2>2. InitElement(cfg, e) = [cfg EXCEPT !.init_test = Append(@, n)]
    BY <1>4 DEF InitElement
  <2> HIDE DEF n
  <2>3. Append(cfg.init_test, n) \in Seq(Chips)
    BY <2>1 DEF InitConfig
  <2>4. InitElement(cfg, e) \in InitConfig
    BY <2>2, <2>3 DEF InitConfig
  <2> QED
    BY <2>4 DEF e
<1>5. CASE e.tag # "switch" /\ e.tag # "test"
  <2>1. InitElement(cfg, e) = cfg
    BY <1>5 DEF InitElement
  <2> QED
    BY <2>1 DEF e
<1> QED
  BY <1>3, <1>4, <1>5

LEMMA DocParsed ==
  ASSUME NEW doc \in InitDocs
  PROVE  parse_init_doc(doc) \in InitConfig
<1>1. Len(doc) \in Nat /\ doc = [k \in 1 .. Len(doc) |-> doc[k]]
  BY DocumentsAssumption DEF IsDocument
<1>2. DOMAIN doc = 1 .. Len(doc)
  BY <1>1
<1>3. \A v \in InitConfig, m \in 1 .. Len(doc) : InitElement(v, doc[m]) \in InitConfig
  BY <1>2, ElementKept
<1>4. NoConfig \in InitConfig
  BY DEF NoConfig, InitConfig
<1> QED
  BY <1>1, <1>2, <1>3, <1>4, DocStays

(* init_forward. *)
AddRoutes(s, cfg, n) == IF cfg.imac = n THEN s \o cfg.forward ELSE s

IsForward(iter, n) ==
  iter = [s \in SUBSET DOMAIN init_cfg |->
            IF s = {} THEN <<>> ELSE AddRoutes(iter[s \ {Max(s)}], init_cfg[Max(s)], n)]

LEMMA ForwardFold ==
  ASSUME NEW n, NEW g, IsForward(g, n)
  PROVE  \E iter : IsForward(iter, n) /\ init_forward(n) = iter[DOMAIN init_cfg]
<1> DEFINE iter == CHOOSE iter : IsForward(iter, n)
<1>1. IsForward(iter, n)
  OBVIOUS
<1>2. init_forward(n) = iter[DOMAIN init_cfg]
  BY Zenon DEF init_forward, AddRoutes, FoldLeft, MapThenFoldSet, IsForward
<1> QED
  BY <1>1, <1>2

LEMMA ForwardStays ==
  ASSUME NEW X, NEW n, <<>> \in X, NEW l \in Nat, DOMAIN init_cfg = 1 .. l,
         \A v \in X, m \in 1 .. l : AddRoutes(v, init_cfg[m], n) \in X
  PROVE  init_forward(n) \in X
<1> DEFINE F == [z \in X \X (1 .. l) |-> AddRoutes(z[1], init_cfg[z[2]], n)]
<1>1. IsStep(F, X, l)
  BY DEF IsStep
<1>2. \A v \in X, m \in 1 .. l : F[<<v, m>>] = AddRoutes(v, init_cfg[m], n)
  OBVIOUS
<1>3. \A s \in SUBSET (1 .. l) : s # {} =>
        Max(s) \in 1 .. l /\ s \ {Max(s)} \in SUBSET (1 .. l)
  BY MaxOf
<1> HIDE DEF F
<1>4. PICK g : IsFold(g, <<>>, F, X, l)
  BY <1>1, FoldExists
<1>5. IsForward(g, n)
  <2>1. ASSUME NEW s \in SUBSET (1 .. l)
        PROVE  g[s] = IF s = {} THEN <<>> ELSE AddRoutes(g[s \ {Max(s)}], init_cfg[Max(s)], n)
    <3>1. CASE s = {}
      BY <1>4, <3>1 DEF IsFold
    <3>2. CASE s # {}
      <4>1. Max(s) \in 1 .. l /\ g[s \ {Max(s)}] \in X
        BY <1>3, <1>4, <3>2 DEF IsFold
      <4>2. g[s] = F[<<g[s \ {Max(s)}], Max(s)>>]
        BY <1>4, <3>2 DEF IsFold
      <4> QED
        BY <1>2, <3>2, <4>1, <4>2
    <3> QED
      BY <3>1, <3>2
  <2> QED
    BY <1>4, <2>1 DEF IsForward, IsFold
<1>6. PICK iter : IsForward(iter, n) /\ init_forward(n) = iter[DOMAIN init_cfg]
  BY <1>5, ForwardFold
<1>7. \A s \in SUBSET (1 .. l) :
        iter[s] = IF s = {} THEN <<>> ELSE AddRoutes(iter[s \ {Max(s)}], init_cfg[Max(s)], n)
  BY <1>6 DEF IsForward
<1>8. iter[{}] = <<>>
  BY <1>7
<1>9. Iterates(iter, <<>>, F, X, l)
  BY <1>2, <1>3, <1>7, <1>8 DEF Iterates
<1>10. iter[1 .. l] \in X
  BY <1>1, <1>9, FoldStays
<1> QED
  BY <1>6, <1>10

LEMMA ForwardIsRoutes ==
  ASSUME init_cfg \in Seq(InitNode), NEW n
  PROVE  init_forward(n) \in Routes
<1> DEFINE l == Len(init_cfg)
<1>1. l \in Nat /\ DOMAIN init_cfg = 1 .. l /\ \A m \in 1 .. l : init_cfg[m] \in InitNode
  OBVIOUS
<1> HIDE DEF l
<1>2. ASSUME NEW s \in Routes, NEW m \in 1 .. l
      PROVE  AddRoutes(s, init_cfg[m], n) \in Routes
  <2>1. init_cfg[m].forward \in Routes
    BY <1>1 DEF InitNode
  <2>2. s \o init_cfg[m].forward \in Routes
    BY <2>1 DEF Routes
  <2> QED
    BY <2>2 DEF AddRoutes
<1>3. <<>> \in Routes
  BY DEF Routes
<1> QED
  BY <1>1, <1>2, <1>3, ForwardStays

LEMMA ForwardUnchanged ==
  ASSUME init_cfg' = init_cfg, NEW n
  PROVE  init_forward(n)' = init_forward(n)
BY Zenon DEF init_forward, FoldLeft, MapThenFoldSet

-----------------------------------------------------------------------------
(* Where a local plan is read: what is left of it, and of its switch, is the
   end of the document. *)

TableSet == ChipTable \cup HcpTable

Suffix(s, t) ==
  /\ s \in Seq(Elements(t)) /\ Len(s) <= Len(t)
  /\ \A i \in 1 .. Len(s) : s[i] = t[Len(t) - Len(s) + i]

Position == Len(plan) - Len(left)
InPlan ==
  /\ plan = <<>> \/ plan \in PlanDocs
  /\ Suffix(left, plan)
  /\ imac # None => /\ Position >= 1 /\ imac = plan[Position].imac
                    /\ Suffix(tables, plan[Position].tables)

NothingGiven == [n \in Chips |-> NoEntries]
Modes ==
  /\ G_STATE = "REMOTE_PLAN_CFG_S" => plan = <<>> /\ imac = None
  /\ G_STATE # "REMOTE_PLAN_CFG_S" => tail = None /\ todo = <<>>
  /\ G_STATE = "LOCAL_PLAN_CFG_S" => given = NothingGiven
  /\ todo # <<>> => tail # None

LEMMA DocumentIsSequence ==
  ASSUME NEW t, IsDocument(t)
  PROVE  Len(t) \in Nat /\ DOMAIN t = 1 .. Len(t) /\ t \in Seq(Elements(t))
<1>1. Len(t) \in Nat /\ t = [k \in 1 .. Len(t) |-> t[k]]
  BY DEF IsDocument
<1>2. DOMAIN t = 1 .. Len(t)
  BY <1>1
<1>3. t \in [1 .. Len(t) -> Elements(t)]
  BY <1>1, <1>2 DEF Elements
<1> QED
  BY <1>1, <1>2, <1>3

LEMMA EmptyIsDocument == IsDocument(<<>>)
BY DEF IsDocument

LEMMA SuffixSelf ==
  ASSUME NEW t, IsDocument(t)
  PROVE  Suffix(t, t)
BY DocumentIsSequence DEF Suffix

LEMMA SuffixTail ==
  ASSUME NEW t, IsDocument(t), NEW s, Suffix(s, t), s # <<>>
  PROVE  /\ Suffix(Tail(s), t) /\ Len(Tail(s)) = Len(s) - 1 /\ Len(s) \in Nat /\ Len(s) >= 1
         /\ Len(t) \in Nat /\ Len(t) - Len(s) + 1 \in DOMAIN t /\ Head(s) = t[Len(t) - Len(s) + 1]
<1> DEFINE S == Elements(t)
<1>1. s \in Seq(S) /\ Len(s) <= Len(t) /\ \A i \in 1 .. Len(s) : s[i] = t[Len(t) - Len(s) + i]
  BY DEF Suffix
<1>2. Len(t) \in Nat /\ DOMAIN t = 1 .. Len(t)
  BY DocumentIsSequence
<1> HIDE DEF S
<1>3. /\ Tail(s) \in Seq(S) /\ Head(s) \in S /\ Head(s) = s[1] /\ 1 \in DOMAIN s
      /\ Len(Tail(s)) = Len(s) - 1 /\ Len(s) \in Nat /\ Len(s) >= 1
      /\ \A i \in 1 .. Len(s) - 1 : Tail(s)[i] = s[i + 1]
  BY <1>1
<1>4. Head(s) = t[Len(t) - Len(s) + 1] /\ Len(t) - Len(s) + 1 \in DOMAIN t
  BY <1>1, <1>2, <1>3
<1>5. ASSUME NEW i \in 1 .. Len(Tail(s))
      PROVE  Tail(s)[i] = t[Len(t) - Len(Tail(s)) + i]
  <2>1. i \in 1 .. Len(s) - 1 /\ i + 1 \in 1 .. Len(s)
    BY <1>3
  <2>2. Tail(s)[i] = t[Len(t) - Len(s) + (i + 1)]
    BY <1>1, <1>3, <2>1
  <2>3. Len(t) - Len(s) + (i + 1) = Len(t) - Len(Tail(s)) + i
    BY <1>2, <1>3, <2>1
  <2> QED
    BY <2>2, <2>3
<1>6. Len(Tail(s)) <= Len(t)
  BY <1>1, <1>2, <1>3
<1> QED
  BY <1>2, <1>3, <1>4, <1>5, <1>6 DEF Suffix, S

LEMMA PlanIsDocument ==
  ASSUME InPlan
  PROVE  /\ IsDocument(plan)
         /\ \A k \in DOMAIN plan : /\ plan[k].imac \in Chips /\ IsDocument(plan[k].tables)
                                   /\ \A j \in DOMAIN plan[k].tables : PlanTableOK(plan[k].tables[j])
<1>1. CASE plan = <<>>
  BY <1>1, EmptyIsDocument
<1>2. CASE plan \in PlanDocs
  BY <1>2, DocumentsAssumption
<1> QED
  BY <1>1, <1>2 DEF InPlan

(* The variables of the local plan that an action leaves alone. *)
LEMMA InPlanKept ==
  ASSUME InPlan, UNCHANGED <<plan, left, imac, tables>>
  PROVE  InPlan'
BY DEF InPlan, Position, Suffix

LEMMA InPlanInit ==
  ASSUME Init
  PROVE  InPlan /\ Modes
<1>1. plan = left /\ imac = None /\ tail = None /\ todo = <<>> /\ given = NothingGiven
      /\ IF G_STATE = "LOCAL_PLAN_CFG_S" THEN left \in PlanDocs ELSE left = <<>>
  BY DEF Init, NothingGiven
<1>2. IsDocument(left) /\ (plan = <<>> \/ plan \in PlanDocs)
  BY <1>1, EmptyIsDocument, DocumentsAssumption
<1>3. Suffix(left, plan)
  BY <1>1, <1>2, SuffixSelf
<1>4. InPlan
  BY <1>1, <1>2, <1>3 DEF InPlan
<1>5. Modes
  <2>1. G_STATE \in {"LOCAL_PLAN_CFG_S", "REMOTE_PLAN_CFG_S"}
    BY DEF Init
  <2> QED
    BY <1>1, <2>1 DEF Modes
<1> QED
  BY <1>4, <1>5

(* What a table action reads, and what it leaves to be read. *)
LEMMA TableRead ==
  ASSUME InPlan, NEW name, NextTable(name), plan' = plan, left' = left, imac' = imac
  PROVE  /\ InPlan' /\ Position \in DOMAIN plan /\ imac = plan[Position].imac /\ imac \in Chips
         /\ LET all == plan[Position].tables
                j == Len(all) - Len(tables) + 1
            IN /\ j \in DOMAIN all /\ Head(tables) = all[j] /\ PlanTableOK(all[j]) /\ all[j].name = name
               /\ Len(tables) \in Nat /\ Len(all) \in Nat /\ DOMAIN all = 1 .. Len(all)
               /\ Len(tables') = Len(tables) - 1
<1> DEFINE all == plan[Position].tables
           j == Len(all) - Len(tables) + 1
<1>1. imac # None /\ tables # <<>> /\ Head(tables).name = name /\ tables' = Tail(tables)
  BY DEF NextTable
<1>2. /\ Suffix(left, plan) /\ Position >= 1 /\ imac = plan[Position].imac /\ Suffix(tables, all)
      /\ (plan = <<>> \/ plan \in PlanDocs)
  BY <1>1 DEF InPlan
<1>3. IsDocument(plan) /\ Len(plan) \in Nat /\ DOMAIN plan = 1 .. Len(plan)
  BY PlanIsDocument, DocumentIsSequence
<1>4. Len(left) \in Nat
  BY <1>2 DEF Suffix
<1>5. Position \in DOMAIN plan
  BY <1>2, <1>3, <1>4 DEF Position
<1>6. imac \in Chips /\ IsDocument(all) /\ \A i \in DOMAIN all : PlanTableOK(all[i])
  BY <1>2, <1>5, PlanIsDocument
<1>7. Position' = Position
  BY DEF Position
<1> HIDE DEF all
<1>8. Len(all) \in Nat /\ DOMAIN all = 1 .. Len(all)
  BY <1>6, DocumentIsSequence
<1>9. /\ Suffix(Tail(tables), all) /\ Len(Tail(tables)) = Len(tables) - 1
      /\ Len(tables) \in Nat /\ j \in DOMAIN all /\ Head(tables) = all[j]
  BY <1>1, <1>2, <1>6, SuffixTail
<1>10. InPlan'
  <2>1. Suffix(left, plan)'
    BY <1>2 DEF Suffix
  <2>2. Suffix(tables', plan[Position].tables)
    BY <1>1, <1>9 DEF all
  <2>3. Suffix(tables, plan[Position].tables)'
    BY <1>7, <2>2 DEF Suffix
  <2> QED
    BY <1>2, <1>7, <2>1, <2>3 DEF InPlan
<1> QED
  BY <1>1, <1>2, <1>5, <1>6, <1>8, <1>9, <1>10 DEF all

LEMMA SwitchOpened ==
  ASSUME InPlan, OpenSwitch
  PROVE  /\ InPlan' /\ Position' = Position + 1 /\ Position \in Int
         /\ imac' = plan[Position + 1].imac /\ imac' \in Chips
         /\ Head(left).imac = imac' /\ tables' = plan[Position + 1].tables
         /\ Position + 1 \in DOMAIN plan
<1>1. /\ left # <<>> /\ imac' = Head(left).imac /\ tables' = Head(left).tables
      /\ left' = Tail(left) /\ plan' = plan
  BY DEF OpenSwitch, plans
<1>2. Suffix(left, plan) /\ (plan = <<>> \/ plan \in PlanDocs)
  BY DEF InPlan
<1>3. IsDocument(plan)
  BY PlanIsDocument
<1>4. /\ Suffix(Tail(left), plan) /\ Len(Tail(left)) = Len(left) - 1
      /\ Len(left) \in Nat /\ Len(plan) \in Nat
      /\ Len(plan) - Len(left) + 1 \in DOMAIN plan
      /\ Head(left) = plan[Len(plan) - Len(left) + 1]
  BY <1>1, <1>2, <1>3, SuffixTail
<1>5. Position' = Position + 1 /\ Position \in Int
  BY <1>1, <1>4 DEF Position
<1>6. /\ Position + 1 \in DOMAIN plan /\ imac' = plan[Position + 1].imac
      /\ tables' = plan[Position + 1].tables
  BY <1>1, <1>4 DEF Position
<1>7. imac' \in Chips /\ IsDocument(tables')
  BY <1>6, PlanIsDocument
<1>8. Position + 1 >= 1
  <2>1. DOMAIN plan = 1 .. Len(plan)
    BY <1>3, DocumentIsSequence
  <2> QED
    BY <1>4, <1>5, <1>6, <2>1
<1>9. Suffix(tables', tables')
  BY <1>7, SuffixSelf
<1>10. InPlan'
  <2>1. Suffix(left, plan)'
    BY <1>1, <1>4 DEF Suffix
  <2>2. Suffix(tables, plan[Position].tables)'
    BY <1>1, <1>5, <1>6, <1>9 DEF Suffix
  <2> QED
    BY <1>1, <1>2, <1>5, <1>6, <1>8, <2>1, <2>2 DEF InPlan
<1> QED
  BY <1>1, <1>5, <1>6, <1>7, <1>10

-----------------------------------------------------------------------------
(* Writes of a chip. *)

OrderedChip == [report_en : 0 .. 1, cfg_state : 0 .. 3, reg : Thresholds,
                table : [TableSet -> Table]]

(* c is the chips after a write that leaves their tables and thresholds alone. *)
SameTables(c) ==
  /\ c \in [Chips -> OrderedChip]
  /\ \A m \in Chips : c[m].table = chip[m].table /\ c[m].reg = chip[m].reg

Rewritten(b, n, t, data) == [b EXCEPT ![n].table[t] = data]
OneTableDiffers(b, c, n, t, data) ==
  /\ c \in [Chips -> OrderedChip] /\ c[n].table[t] = data
  /\ \A m \in Chips : c[m].reg = b[m].reg
  /\ \A m \in Chips, u \in TableSet : m # n \/ u # t => c[m].table[u] = b[m].table[u]

LEMMA TableWritten ==
  ASSUME NEW before \in [Chips -> OrderedChip], NEW n \in Chips, NEW t \in TableSet,
         NEW data \in Table
  PROVE  OneTableDiffers(before, Rewritten(before, n, t, data), n, t, data)
<1> DEFINE c == Rewritten(before, n, t, data)
           old == before[n]
           tabs == [old.table EXCEPT ![t] = data]
           new == [old EXCEPT !.table = tabs]
<1>1. c = [before EXCEPT ![n] = new]
  BY Zenon DEF Rewritten
<1>2. old \in OrderedChip
  OBVIOUS
<1> HIDE DEF old, c
<1>3. old.table \in [TableSet -> Table] /\ old.reg \in Thresholds
      /\ old.report_en \in 0 .. 1 /\ old.cfg_state \in 0 .. 3
  BY <1>2 DEF OrderedChip
<1>4. /\ tabs \in [TableSet -> Table] /\ tabs[t] = data
      /\ \A u \in TableSet : u # t => tabs[u] = old.table[u]
  BY <1>3
<1> HIDE DEF tabs
<1>5. new \in OrderedChip /\ new.table = tabs /\ new.reg = old.reg
  BY <1>2, <1>3, <1>4 DEF OrderedChip
<1> HIDE DEF new
<1>6. c \in [Chips -> OrderedChip] /\ c[n] = new /\ \A m \in Chips : m # n => c[m] = before[m]
  BY <1>1, <1>5
<1>7. \A m \in Chips : c[m].reg = before[m].reg
  BY <1>5, <1>6 DEF old
<1>8. \A m \in Chips, u \in TableSet : m # n \/ u # t => c[m].table[u] = before[m].table[u]
  BY <1>4, <1>5, <1>6 DEF old
<1> QED
  BY <1>4, <1>5, <1>6, <1>7, <1>8 DEF OneTableDiffers, c

LEMMA ReportWritten ==
  ASSUME chip \in [Chips -> OrderedChip], NEW n \in Chips, NEW v \in 0 .. 1,
         NEW c, c = [chip EXCEPT ![n].report_en = v]
  PROVE  SameTables(c)
<1> DEFINE new == [chip[n] EXCEPT !.report_en = v]
<1>1. c = [chip EXCEPT ![n] = new]
  BY Zenon
<1>2. chip[n] \in OrderedChip
  OBVIOUS
<1>3. new \in OrderedChip /\ new.table = chip[n].table /\ new.reg = chip[n].reg
  BY <1>2 DEF OrderedChip
<1> HIDE DEF new
<1> QED
  BY <1>1, <1>3 DEF SameTables

LEMMA StateWritten ==
  ASSUME chip \in [Chips -> OrderedChip], NEW n \in Chips,
         NEW c, c = [chip EXCEPT ![n].report_en = 0, ![n].cfg_state = 3]
  PROVE  SameTables(c)
<1> DEFINE d == [chip EXCEPT ![n].report_en = 0]
           no == 0
<1>1. SameTables(d)
  <2>1. no \in 0 .. 1 /\ d = [chip EXCEPT ![n].report_en = no]
    OBVIOUS
  <2> HIDE DEF no, d
  <2> QED
    BY <2>1, ReportWritten
<1>2. c = [d EXCEPT ![n].cfg_state = 3]
  OBVIOUS
<1> HIDE DEF d
<1> DEFINE two == [d[n] EXCEPT !.cfg_state = 3]
<1>3. c = [d EXCEPT ![n] = two]
  BY Zenon, <1>2
<1>4. d[n] \in OrderedChip
  BY <1>1 DEF SameTables
<1>5. two \in OrderedChip /\ two.table = d[n].table /\ two.reg = d[n].reg
  BY <1>4 DEF OrderedChip
<1> HIDE DEF two
<1> QED
  BY <1>1, <1>3, <1>5 DEF SameTables

LEMMA RegistersWritten ==
  ASSUME chip \in [Chips -> OrderedChip], NEW n \in Chips, NEW reg \in Thresholds,
         NEW c, c = [chip EXCEPT ![n].reg = reg]
  PROVE  c \in [Chips -> OrderedChip] /\ \A m \in Chips : c[m].table = chip[m].table
<1> DEFINE new == [chip[n] EXCEPT !.reg = reg]
<1>1. c = [chip EXCEPT ![n] = new]
  BY Zenon
<1>2. chip[n] \in OrderedChip
  OBVIOUS
<1>3. new \in OrderedChip /\ new.table = chip[n].table
  BY <1>2 DEF OrderedChip
<1> HIDE DEF new
<1> QED
  BY <1>1, <1>3

-----------------------------------------------------------------------------
(* What is written to a table. *)

LEMMA Names ==
  /\ FLT \in ChipTable /\ TIS \in ChipTable /\ TSS \in ChipTable
  /\ FLT # TIS /\ FLT # TSS /\ TIS # TSS /\ MAP # REMAP
  /\ \A q \in Ports : QGC(q) \in ChipTable /\ QGC(q) # FLT /\ QGC(q) # TIS /\ QGC(q) # TSS
  /\ \A p, q \in Ports : QGC(p) = QGC(q) => p = q
  /\ MAP \in HcpTable /\ REMAP \in HcpTable
  /\ \A t \in HcpTable : t \notin ChipTable
  /\ REG \notin TableSet
  /\ \A t \in ChipTable : t = FLT \/ t = TIS \/ t = TSS \/ \E q \in Ports : t = QGC(q)
BY DEF FLT, TIS, TSS, QGC, MAP, REMAP, REG, ChipTable, HcpTable, TableSet

AnyWord == {-1} \cup Word

LEMMA BelowWord ==
  /\ \A w \in {256, 512, 1024} : \A v \in Below(w) : v \in Word
  /\ \A v \in Below(32), s \in Below(1024) : Time(v, s) \in Word
  /\ 0 \in Word /\ 255 \in Word /\ 0 \in Below(512) /\ 255 \in Below(256)
BY DEF Below, Word, Time

LEMMA WidthIs ==
  /\ Width(FLT) = 512 /\ Width(TIS) = 65536 /\ Width(TSS) = 65536
  /\ \A q \in Ports : Width(QGC(q)) = 256
BY Names DEF Width

LEMMA SentIs ==
  /\ \A t : \A i \in Sent(t) : i \in Index
  /\ Sent(FLT) = Index
BY OfflinePlanAssumption DEF Sent

(* k is a table that took over the data sent; data that fits comes through as
   it is. *)
TakenOver(t, data, k) == \A i \in Sent(t) : k[i] = data[i] % Width(t)
Fits(t, data) == \A i \in Index : data[i] \in Below(Width(t))
Agrees(t, data, k) == \A i \in Sent(t) : k[i] = data[i]

LEMMA ModuloWidth ==
  ASSUME NEW t \in ChipTable, NEW d \in AnyWord
  PROVE  d % Width(t) \in Word /\ (d \in Below(Width(t)) => d % Width(t) = d)
<1>1. Width(t) \in {256, 512, 65536}
  BY Names, WidthIs
<1>2. d \in Int
  BY DEF AnyWord, Word, Below
<1> DEFINE w == Width(t)
<1> HIDE DEF w
<1>3. w \in {256, 512, 65536}
  BY <1>1 DEF w
<1>4. d % w \in Word
  BY <1>2, <1>3 DEF Word, Below
<1>5. d \in Below(w) => d % w = d
  BY <1>2, <1>3 DEF Below
<1> QED
  BY <1>4, <1>5 DEF w

LEMMA KeptIs ==
  ASSUME NEW t \in ChipTable, NEW data \in [Index -> AnyWord], NEW before \in Table
  PROVE  Kept(t, data, before) \in Table /\ TakenOver(t, data, Kept(t, data, before))
<1>1. \A i \in Index : data[i] % Width(t) \in Word
  BY ModuloWidth
<1>2. \A i \in Index : before[i] \in Word
  BY DEF Table
<1>3. Kept(t, data, before) \in Table
  BY <1>1, <1>2 DEF Kept, Table
<1>4. TakenOver(t, data, Kept(t, data, before))
  BY SentIs DEF Kept, TakenOver
<1> QED
  BY <1>3, <1>4

LEMMA FitsAgrees ==
  ASSUME NEW t \in ChipTable, NEW data \in [Index -> AnyWord], Fits(t, data),
         NEW k, TakenOver(t, data, k)
  PROVE  Agrees(t, data, k)
<1>1. ASSUME NEW i \in Sent(t) PROVE k[i] = data[i]
  <2>1. i \in Index
    BY SentIs
  <2>2. data[i] \in AnyWord /\ data[i] \in Below(Width(t))
    BY <2>1 DEF Fits
  <2>3. data[i] % Width(t) = data[i]
    BY <2>2, ModuloWidth
  <2> QED
    BY <2>3 DEF TakenOver
<1> QED
  BY <1>1 DEF Agrees

LEMMA TableIsAnyWord ==
  ASSUME NEW data \in Table
  PROVE  data \in [Index -> AnyWord]
BY DEF Table, AnyWord

LEMMA AllIs ==
  /\ \A v \in Word : All(v) \in Table /\ \A i \in Index : All(v)[i] = v
  /\ All(-1) \in [Index -> AnyWord]
BY DEF All, Table, AnyWord

LEMMA PairsIn ==
  ASSUME NEW V, NEW entries \in Seq(Index \X V)
  PROVE  Len(entries) \in Nat /\ EntriesIn(entries, Len(entries), V)
<1>1. Len(entries) \in Nat /\ DOMAIN entries = 1 .. Len(entries)
      /\ \A k \in 1 .. Len(entries) : entries[k] \in Index \X V
  OBVIOUS
<1> QED
  BY <1>1 DEF EntriesIn

LEMMA TimesIn ==
  ASSUME NEW entries \in Times
  PROVE  /\ Len(entries) \in Nat /\ EntriesIn(TimeEntries(entries), Len(entries), Word)
         /\ DOMAIN TimeEntries(entries) = DOMAIN entries /\ DOMAIN entries = 1 .. Len(entries)
<1>1. Len(entries) \in Nat /\ DOMAIN entries = 1 .. Len(entries)
      /\ \A k \in 1 .. Len(entries) : entries[k] \in Index \X Below(32) \X Below(1024)
  BY DEF Times
<1>2. \A k \in 1 .. Len(entries) :
        entries[k][1] \in Index /\ Time(entries[k][2], entries[k][3]) \in Word
  <2>1. ASSUME NEW k \in 1 .. Len(entries)
        PROVE  entries[k][1] \in Index /\ Time(entries[k][2], entries[k][3]) \in Word
    <3>1. entries[k][1] \in Index /\ entries[k][2] \in Below(32) /\ entries[k][3] \in Below(1024)
      BY <1>1
    <3> QED
      BY <3>1, BelowWord
  <2> QED
    BY <2>1
<1> QED
  BY <1>1, <1>2 DEF TimeEntries, EntriesIn

LEMMA Wider ==
  ASSUME NEW entries, NEW n, NEW V, NEW W, EntriesIn(entries, n, V), \A v \in V : v \in W
  PROVE  EntriesIn(entries, n, W)
BY DEF EntriesIn

(* A last entry is one of the entries. *)
LEMMA LastOfIn ==
  ASSUME NEW V, NEW entries, NEW n \in Nat, EntriesIn(entries, n, V), NEW i, NEW otherwise,
         At(entries, i) # {} \/ otherwise \in V
  PROVE  LastOf(entries, i, otherwise) \in V
<1>1. CASE At(entries, i) = {}
  BY <1>1, NoEntry
<1>2. CASE At(entries, i) # {}
  <2>1. PICK k \in 1 .. n : Decides(entries, i, k)
    BY <1>2, LastEntry DEF EntriesIn
  <2> QED
    BY <2>1 DEF EntriesIn, Decides
<1> QED
  BY <1>1, <1>2

-----------------------------------------------------------------------------
(* What a remote packet does to the table it is for. *)

PlainEntries(t, entries) == IF t \in {TIS, TSS} THEN TimeEntries(entries) ELSE entries
TableEntries(t) == IF t = FLT THEN Routes
                   ELSE IF t \in {TIS, TSS} THEN Times
                   ELSE IF t \in HcpTable THEN Mappings ELSE GateBytes
RemoteTable(t) == IF t \in HcpTable THEN [Index -> HcpEntry] ELSE [Index -> AnyWord]
Base(n, t) == IF t = FLT THEN ForwardBase(n) ELSE remote[t]

LEMMA PlainIn ==
  ASSUME NEW t \in ChipTable, NEW entries \in TableEntries(t)
  PROVE  /\ Len(entries) \in Nat /\ EntriesIn(PlainEntries(t, entries), Len(entries), Below(Width(t)))
         /\ DOMAIN entries = 1 .. Len(entries) /\ DOMAIN PlainEntries(t, entries) = 1 .. Len(entries)
         /\ EntriesIn(PlainEntries(t, entries), Len(entries), AnyWord)
<1>1. CASE t = FLT
  <2>1. entries \in Seq(Index \X Below(512)) /\ PlainEntries(t, entries) = entries
    BY <1>1, Names DEF TableEntries, Routes, PlainEntries
  <2>2. Len(entries) \in Nat /\ EntriesIn(entries, Len(entries), Below(512))
    BY <2>1, PairsIn
  <2>3. \A v \in Below(512) : v \in AnyWord
    BY BelowWord DEF AnyWord
  <2>4. EntriesIn(entries, Len(entries), AnyWord)
    BY <2>2, <2>3, Wider
  <2> QED
    BY <1>1, <2>1, <2>2, <2>4, WidthIs DEF EntriesIn
<1>2. CASE t \in {TIS, TSS}
  <2>1. entries \in Times /\ PlainEntries(t, entries) = TimeEntries(entries)
        /\ Word = Below(Width(t))
    BY <1>2, Names, WidthIs DEF TableEntries, PlainEntries, Word
  <2>2. Len(entries) \in Nat /\ EntriesIn(TimeEntries(entries), Len(entries), Word)
        /\ DOMAIN TimeEntries(entries) = DOMAIN entries /\ DOMAIN entries = 1 .. Len(entries)
    BY <2>1, TimesIn
  <2>3. \A v \in Word : v \in AnyWord
    BY DEF AnyWord
  <2>4. EntriesIn(TimeEntries(entries), Len(entries), AnyWord)
    BY <2>2, <2>3, Wider
  <2> QED
    BY <2>1, <2>2, <2>4
<1>3. CASE \E q \in Ports : t = QGC(q)
  <2>1. entries \in Seq(Index \X Below(256)) /\ PlainEntries(t, entries) = entries /\ Width(t) = 256
    BY <1>3, Names, WidthIs DEF TableEntries, GateBytes, PlainEntries
  <2>2. Len(entries) \in Nat /\ EntriesIn(entries, Len(entries), Below(256))
    BY <2>1, PairsIn
  <2>3. \A v \in Below(256) : v \in AnyWord
    BY BelowWord DEF AnyWord
  <2>4. EntriesIn(entries, Len(entries), AnyWord)
    BY <2>2, <2>3, Wider
  <2> QED
    BY <2>1, <2>2, <2>4 DEF EntriesIn
<1> QED
  BY <1>1, <1>2, <1>3, Names

LEMMA ForwardBaseIs ==
  ASSUME init_cfg \in Seq(InitNode), remote[FLT] \in [Index -> AnyWord], NEW n
  PROVE  /\ ForwardBase(n) \in [Index -> AnyWord]
         /\ remote_first_cfg_flag # 1 => ForwardBase(n) = remote[FLT]
         /\ remote_first_cfg_flag = 1 =>
              \A i \in Index : ForwardBase(n)[i] = LastOf(init_forward(n), i, remote[FLT][i])
<1> DEFINE routes == init_forward(n)
           table == remote[FLT]
<1>1. routes \in Routes /\ table \in [Index -> AnyWord]
  BY ForwardIsRoutes
<1> HIDE DEF routes, table
<1>2. Len(routes) \in Nat /\ EntriesIn(routes, Len(routes), Below(512))
  BY <1>1, PairsIn DEF Routes
<1>3. \A v \in Below(512) : v \in AnyWord
  BY BelowWord DEF AnyWord
<1>4. EntriesIn(routes, Len(routes), AnyWord)
  BY <1>2, <1>3, Wider
<1>5. /\ Overlay(table, routes) \in [Index -> AnyWord]
      /\ \A i \in Index : Overlay(table, routes)[i] = LastOf(routes, i, table[i])
  <2>1. PICK m \in Nat : m = Len(routes)
    BY <1>2
  <2>2. PICK V : V = AnyWord
    OBVIOUS
  <2>3. table \in [Index -> V] /\ EntriesIn(routes, m, V)
    BY <1>1, <1>4, <2>1, <2>2
  <2> QED
    BY <2>2, <2>3, OverlayIs
<1>6. CASE remote_first_cfg_flag = 1
  <2>1. ForwardBase(n) = Overlay(table, routes)
    BY <1>6 DEF ForwardBase, routes, table
  <2> QED
    BY <1>5, <1>6, <2>1 DEF routes, table
<1>7. CASE remote_first_cfg_flag # 1
  BY <1>1, <1>7 DEF ForwardBase, table
<1> QED
  BY <1>6, <1>7

LEMMA PacketIs ==
  ASSUME NEW p \in Packets
  PROVE  /\ p.type \in TableSet \/ p.type = REG
         /\ p.type \in TableSet => p.entries \in TableEntries(p.type)
         /\ p.type = FLT => p.entries # <<>>
         /\ p.type = REG => p.entries \in Seq(Nat \X Nat)
<1>1. PacketOK(p)
  BY DocumentsAssumption
<1> QED
  BY <1>1, Names DEF PacketOK, TableEntries, TableSet

LEMMA CollectIs ==
  ASSUME init_cfg \in Seq(InitNode), \A t \in TableSet : remote[t] \in RemoteTable(t),
         NEW n, NEW p \in Packets, p.type \in TableSet
  PROVE  /\ Collect(n, p) \in RemoteTable(p.type)
         /\ p.type \in ChipTable => \A i \in Index :
              Collect(n, p)[i] = LastOf(PlainEntries(p.type, p.entries), i, Base(n, p.type)[i])
<1> DEFINE t == p.type
           entries == p.entries
           base == Base(n, t)
           plain == PlainEntries(t, entries)
<1>1. entries \in TableEntries(t) /\ t \in TableSet
  BY PacketIs
<1>2. CASE t \in HcpTable
  <2>1. Collect(n, p) = Mapped(remote[t], entries)
    BY <1>2, Names DEF Collect, parse_map_info
  <2>2. remote[t] \in [Index -> HcpEntry]
    BY <1>1, <1>2 DEF RemoteTable
  <2>3. entries \in Seq(Index \X Word)
    BY <1>1, <1>2, Names DEF TableEntries, Mappings
  <2> DEFINE table == remote[t]
  <2> HIDE DEF t, entries, table
  <2>4. Len(entries) \in Nat /\ EntriesIn(entries, Len(entries), Word)
    BY <2>3, PairsIn
  <2>5. Mapped(table, entries) \in [Index -> HcpEntry]
    BY <2>2, <2>4, MappedIs DEF table
  <2> QED
    BY <1>2, <2>1, <2>5, Names DEF RemoteTable, t, table
<1>3. CASE t \in ChipTable
  <2>1. base \in [Index -> AnyWord]
    <3>1. t \notin HcpTable /\ remote[t] \in [Index -> AnyWord] /\ remote[FLT] \in [Index -> AnyWord]
      BY <1>1, <1>3, Names DEF RemoteTable, TableSet
    <3>2. ForwardBase(n) \in [Index -> AnyWord]
      BY <3>1, ForwardBaseIs
    <3> QED
      BY <3>1, <3>2 DEF Base
  <2>2. Collect(n, p) = Overlay(base, plain)
    <3>1. CASE t = FLT
      BY <3>1, Names DEF Collect, parse_forward_info, Base, PlainEntries
    <3>2. CASE t \in {TIS, TSS}
      BY <3>2, Names DEF Collect, Base, PlainEntries
    <3>3. CASE \E q \in Ports : t = QGC(q)
      BY <3>3, Names DEF Collect, parse_gate_info, Base, PlainEntries
    <3> QED
      BY <1>3, <3>1, <3>2, <3>3, Names
  <2>3. Len(entries) \in Nat /\ EntriesIn(plain, Len(entries), AnyWord)
    <3> HIDE DEF t, entries
    <3> QED
      BY <1>1, <1>3, PlainIn
  <2> HIDE DEF base, plain
  <2>4. /\ Overlay(base, plain) \in [Index -> AnyWord]
        /\ \A i \in Index : Overlay(base, plain)[i] = LastOf(plain, i, base[i])
    BY <2>1, <2>3, OverlayIs
  <2>5. RemoteTable(t) = [Index -> AnyWord]
    BY <1>3, Names DEF RemoteTable
  <2> QED
    BY <2>2, <2>4, <2>5 DEF base, plain
<1> QED
  BY <1>1, <1>2, <1>3 DEF TableSet

-----------------------------------------------------------------------------
(* What a local plan writes: the tables of init_cfg_fun and of the plan. *)

LEMMA ForwardData ==
  ASSUME init_cfg \in Seq(InitNode), NEW n, NEW entries \in Routes
  PROVE  LET data == Overlay(Overlay(Cleared, init_forward(n)), entries) IN
         /\ data \in Table /\ Fits(FLT, data)
         /\ \A i \in Index : data[i] = LastOf(entries, i, LastOf(init_forward(n), i, 0))
<1> DEFINE V == Below(512)
           routes == init_forward(n)
           clear == Cleared
           laid == Overlay(clear, routes)
           data == Overlay(laid, entries)
<1>1. clear \in [Index -> V] /\ \A i \in Index : clear[i] = 0
  BY BelowWord DEF Cleared, All
<1>2. Len(routes) \in Nat /\ EntriesIn(routes, Len(routes), V)
  <2>1. routes \in Seq(Index \X V)
    BY ForwardIsRoutes DEF Routes
  <2> HIDE DEF routes, V
  <2> QED
    BY <2>1, PairsIn
<1>3. Len(entries) \in Nat /\ EntriesIn(entries, Len(entries), V)
  BY PairsIn DEF Routes
<1> HIDE DEF routes, V, clear
<1>4. laid \in [Index -> V] /\ \A i \in Index : laid[i] = LastOf(routes, i, clear[i])
  <2>1. clear \in [Index -> V]
    BY <1>1
  <2> QED
    BY <1>2, <2>1, OverlayIs
<1> HIDE DEF laid
<1>5. data \in [Index -> V] /\ \A i \in Index : data[i] = LastOf(entries, i, laid[i])
  BY <1>3, <1>4, OverlayIs
<1> HIDE DEF data
<1>6. data \in Table /\ data \in [Index -> AnyWord]
  BY <1>5, BelowWord DEF V, Table, AnyWord
<1>7. Fits(FLT, data)
  BY <1>5, WidthIs DEF V, Fits
<1>8. \A i \in Index : data[i] = LastOf(entries, i, LastOf(routes, i, 0))
  BY <1>1, <1>4, <1>5
<1> QED
  BY <1>6, <1>7, <1>8 DEF data, laid, clear, routes

LEMMA GateData ==
  ASSUME NEW q \in Ports, NEW entries \in GateBytes
  PROVE  LET data == Overlay(GatesOpen, entries) IN
         /\ data \in Table /\ Fits(QGC(q), data)
         /\ \A i \in Index : data[i] = LastOf(entries, i, 255)
<1> DEFINE V == Below(256)
           open == GatesOpen
           data == Overlay(open, entries)
<1>1. open \in [Index -> V] /\ \A i \in Index : open[i] = 255
  BY BelowWord DEF GatesOpen, All
<1>2. Len(entries) \in Nat /\ EntriesIn(entries, Len(entries), V)
  BY PairsIn DEF GateBytes
<1> HIDE DEF V, open
<1>3. data \in [Index -> V] /\ \A i \in Index : data[i] = LastOf(entries, i, open[i])
  <2>1. open \in [Index -> V]
    BY <1>1
  <2> QED
    BY <1>2, <2>1, OverlayIs
<1> HIDE DEF data
<1>4. data \in Table /\ data \in [Index -> AnyWord]
  BY <1>3, BelowWord DEF V, Table, AnyWord
<1>5. Fits(QGC(q), data)
  BY <1>3, WidthIs DEF V, Fits
<1> QED
  BY <1>1, <1>3, <1>4, <1>5 DEF data, open

SlotTimes(times) == [i \in Index |-> IF i < Len(times)
                                     THEN Time(times[i + 1].addr, times[i + 1].time_slot)
                                     ELSE Cleared[i]]

Slots == Seq([time_slot : Below(1024), addr : Below(32)])
SlotsHeld(t, data, times) ==
  /\ data \in Table /\ Fits(t, data)
  /\ \A i \in Index : data[i] =
       IF i < Len(times) THEN Time(times[i + 1].addr, times[i + 1].time_slot) ELSE 0

LEMMA TimeData ==
  ASSUME NEW times \in Slots, NEW t \in {TIS, TSS}
  PROVE  SlotsHeld(t, SlotTimes(times), times)
<1> USE DEF Slots, SlotsHeld
<1>1. ASSUME NEW i \in Index
      PROVE  /\ SlotTimes(times)[i] \in Word
             /\ SlotTimes(times)[i] =
                  IF i < Len(times) THEN Time(times[i + 1].addr, times[i + 1].time_slot) ELSE 0
  <2>1. CASE i < Len(times)
    <3>1. i + 1 \in 1 .. Len(times)
      BY <2>1, OfflinePlanAssumption
    <3>2. times[i + 1] \in [time_slot : Below(1024), addr : Below(32)]
      <4> DEFINE S == [time_slot : Below(1024), addr : Below(32)]
      <4>1. times \in Seq(S)
        OBVIOUS
      <4> HIDE DEF S
      <4>2. times[i + 1] \in S
        BY <3>1, <4>1
      <4> QED
        BY <4>2 DEF S
    <3>3. times[i + 1].time_slot \in Below(1024) /\ times[i + 1].addr \in Below(32)
      BY <3>2
    <3> QED
      BY <2>1, <3>3, BelowWord DEF SlotTimes
  <2>2. CASE ~ (i < Len(times))
    BY <2>2, BelowWord DEF SlotTimes, Cleared, All
  <2> QED
    BY <2>1, <2>2
<1>2. SlotTimes(times) \in Table
  BY <1>1 DEF SlotTimes, Table
<1>4. \A v \in Word : v \in Below(Width(t))
  BY WidthIs DEF Word
<1>6. Fits(t, SlotTimes(times))
  BY <1>1, <1>4 DEF Fits
<1> QED
  BY <1>1, <1>2, <1>6

EmptyMap(table) ==
  [i \in Index |-> [addr |-> i, val |-> IF i = 0 THEN 0 ELSE table[i].val]]

LEMMA MapData ==
  ASSUME NEW table \in [Index -> HcpEntry], NEW entries \in Mappings, NEW old \in Table
  PROVE  LET data == Mapped(EmptyMap(table), entries) IN
         /\ data \in [Index -> HcpEntry] /\ HcpWritten(old, data) \in Table
         /\ \A i \in Index : /\ HcpWritten(old, data)[i] = data[i].val
                             /\ data[i].val = LastOf(entries, i, IF i = 0 THEN 0 ELSE table[i].val)
<1> DEFINE empty == EmptyMap(table)
           data == Mapped(empty, entries)
<1>1. /\ empty \in [Index -> HcpEntry]
      /\ \A i \in Index : /\ empty[i].addr = i
                          /\ empty[i].val = IF i = 0 THEN 0 ELSE table[i].val
  <2>1. ASSUME NEW i \in Index
        PROVE  [addr |-> i, val |-> IF i = 0 THEN 0 ELSE table[i].val] \in HcpEntry
    <3>1. table[i] \in HcpEntry
      OBVIOUS
    <3>2. table[i].val \in Word
      BY <3>1 DEF HcpEntry
    <3> QED
      BY <3>2, BelowWord DEF HcpEntry
  <2> QED
    BY <2>1 DEF EmptyMap
<1>2. Len(entries) \in Nat /\ EntriesIn(entries, Len(entries), Word)
  BY PairsIn DEF Mappings
<1> HIDE DEF empty
<1>3. /\ data \in [Index -> HcpEntry]
      /\ \A i \in Index : /\ data[i].addr = empty[i].addr
                          /\ data[i].val = LastOf(entries, i, empty[i].val)
  BY <1>1, <1>2, MappedIs
<1> HIDE DEF data
<1>4. ASSUME NEW i \in Index
      PROVE  /\ data[i].addr = i /\ data[i].val \in Word
             /\ data[i].val = LastOf(entries, i, IF i = 0 THEN 0 ELSE table[i].val)
  <2>1. data[i] \in HcpEntry /\ data[i].addr = i
    BY <1>1, <1>3
  <2>2. data[i].val \in Word
    BY <2>1 DEF HcpEntry
  <2>3. LastOf(entries, i, empty[i].val) = LastOf(entries, i, IF i = 0 THEN 0 ELSE table[i].val)
    BY <1>1
  <2> QED
    BY <1>3, <2>1, <2>2, <2>3
<1>5. HcpWritten(old, data) = [i \in Index |-> data[i].val]
  BY <1>4 DEF HcpWritten
<1> QED
  BY <1>3, <1>4, <1>5 DEF data, empty, Table

-----------------------------------------------------------------------------
(* Types.  Beyond TypeOK: chips keep their thresholds in order, and the entries
   given by packets are those of their table. *)

Contents ==
  /\ chip \in [Chips -> OrderedChip]
  /\ init_cfg \in Seq(InitNode)
  /\ remote = [t \in TableSet |-> remote[t]]
  /\ \A t \in TableSet : remote[t] \in RemoteTable(t)
  /\ given = [n \in Chips |-> [t \in TableSet |-> given[n][t]]]
  /\ \A n \in Chips, t \in TableSet : given[n][t] \in TableEntries(t)
  /\ todo \in Seq(ChipTable)

TypeInv == TypeOK /\ Contents

LEMMA OrderedIsChip ==
  ASSUME NEW c \in [Chips -> OrderedChip]
  PROVE  c \in [Chips -> Chip]
<1>1. ASSUME NEW n \in Chips PROVE c[n] \in Chip
  <2>1. c[n] \in OrderedChip
    OBVIOUS
  <2>2. \A reg \in Thresholds : reg \in [Reg -> Below(512)]
    BY DEF Thresholds
  <2> QED
    BY <2>1, <2>2 DEF OrderedChip, Chip, TableSet
<1> QED
  BY <1>1

LEMMA RemoteTyped ==
  ASSUME NEW r, r = [t \in TableSet |-> r[t]], \A t \in TableSet : r[t] \in RemoteTable(t)
  PROVE  /\ DOMAIN r = ChipTable \cup HcpTable
         /\ \A t \in ChipTable : r[t] \in [Index -> {-1} \cup Word]
         /\ \A t \in HcpTable : r[t] \in [Index -> HcpEntry]
BY Names DEF RemoteTable, TableSet, AnyWord

LEMMA ConfiguredTyped ==
  ASSUME NEW cfg \in InitNode, NEW report_en \in 0 .. 1
  PROVE  /\ Configured(cfg, report_en) \in OrderedChip
         /\ [Configured(cfg, report_en) EXCEPT !.cfg_state = 1] \in OrderedChip
<1>1. cfg.reg \in Thresholds /\ cfg.forward \in Seq(Index \X Below(512))
  BY DEF InitNode, Routes
<1>2. Overlay(All(0), cfg.forward) \in Table
  <2> DEFINE routes == cfg.forward
             clear == All(0)
             l == Len(routes)
  <2>1. l \in Nat /\ EntriesIn(routes, l, Below(512))
    BY <1>1, PairsIn
  <2>2. \A v \in Below(512) : v \in Word
    BY BelowWord
  <2> HIDE DEF routes, clear, l
  <2>3. EntriesIn(routes, l, Word)
    BY <2>1, <2>2, Wider
  <2>4. clear \in [Index -> Word]
    BY BelowWord, AllIs DEF Table, clear
  <2>5. Overlay(clear, routes) \in [Index -> Word]
    BY <2>1, <2>3, <2>4, OverlayIs
  <2> QED
    BY <2>5 DEF Table, clear, routes
<1>3. All(0) \in Table /\ \A t \in ChipTable : Kept(t, All(255), All(0)) \in Table
  <2>1. All(0) \in Table /\ All(255) \in Table
    BY AllIs, BelowWord
  <2>2. All(255) \in [Index -> AnyWord]
    BY <2>1, TableIsAnyWord
  <2> QED
    BY <2>1, <2>2, KeptIs
<1> DEFINE table == [t \in TableSet |->
                       IF t = FLT THEN Overlay(All(0), cfg.forward)
                       ELSE IF t \in {QGC(p) : p \in OpenedPorts(cfg)}
                            THEN Kept(t, All(255), All(0))
                            ELSE All(0)]
<1>4. table \in [TableSet -> Table]
  <2>1. \A t : t \in {QGC(p) : p \in OpenedPorts(cfg)} => t \in ChipTable
    BY Names DEF OpenedPorts
  <2> QED
    BY <1>2, <1>3, <2>1
<1>5. Configured(cfg, report_en) =
        [report_en |-> report_en, cfg_state |-> 2, reg |-> cfg.reg, table |-> table]
  BY DEF Configured, TableSet
<1> HIDE DEF table
<1>6. Configured(cfg, report_en) \in OrderedChip
  BY <1>1, <1>4, <1>5 DEF OrderedChip
<1>7. [Configured(cfg, report_en) EXCEPT !.cfg_state = 1] \in OrderedChip
  BY <1>6 DEF OrderedChip
<1> QED
  BY <1>6, <1>7

LEMMA UnconfiguredTyped == Unconfigured \in OrderedChip
<1> DEFINE reset == [RegDefault EXCEPT ![CHIP_PORT_TYPE_ADDR] = 255]
<1>1. reset \in Thresholds
  BY DEF RegDefault, Thresholds, Ordered, Reg, Below, CHIP_RC_REGULATION_ADDR,
         CHIP_BE_REGULATION_ADDR, CHIP_UNMAP_REGULATION_ADDR, CHIP_PORT_TYPE_ADDR
<1> DEFINE shut == [t \in TableSet |-> All(0)]
<1>2. All(0) \in Table
  BY AllIs, BelowWord
<1>3. shut \in [TableSet -> Table]
  BY <1>2
<1>4. Unconfigured = [report_en |-> 1, cfg_state |-> 0, reg |-> reset, table |-> shut]
  BY DEF Unconfigured, TableSet
<1> HIDE DEF shut, reset
<1> QED
  BY <1>1, <1>3, <1>4 DEF OrderedChip

LEMMA FirstChip ==
  ASSUME NEW parsed \in InitConfig, NEW n, NEW report_en \in 0 .. 1
  PROVE  AfterBasicCfg(parsed, n, report_en) \in OrderedChip
<1> DEFINE at == {k \in DOMAIN parsed.init_cfg : parsed.init_cfg[k].imac = n}
           k0 == CHOOSE k \in at : TRUE
<1>1. parsed.init_cfg \in Seq(InitNode)
  BY DEF InitConfig
<1>2. CASE at = {}
  <2>1. AfterBasicCfg(parsed, n, report_en) = Unconfigured
    BY <1>2 DEF AfterBasicCfg
  <2> QED
    BY <2>1, UnconfiguredTyped
<1>3. CASE at # {}
  <2>1. k0 \in DOMAIN parsed.init_cfg
    BY <1>3
  <2> DEFINE nodes == parsed.init_cfg
             cfg == parsed.init_cfg[k0]
  <2>2. cfg \in InitNode
    <3>1. nodes \in Seq(InitNode) /\ k0 \in DOMAIN nodes
      BY <1>1, <2>1
    <3> HIDE DEF nodes, k0
    <3>2. nodes[k0] \in InitNode
      BY <3>1
    <3> QED
      BY <3>2 DEF nodes
  <2>3. AfterBasicCfg(parsed, n, report_en) =
          IF k0 > Len(parsed.init_test) THEN Configured(cfg, report_en)
          ELSE [Configured(cfg, report_en) EXCEPT !.cfg_state = 1]
    BY <1>3 DEF AfterBasicCfg
  <2> HIDE DEF cfg, k0
  <2> QED
    BY <2>2, <2>3, ConfiguredTyped
<1> QED
  BY <1>2, <1>3

LEMMA TypeInit ==
  ASSUME Init
  PROVE  TypeInv
<1>1. PICK doc \in InitDocs :
        LET parsed == parse_init_doc(doc) IN
          /\ init_cfg = parsed.init_cfg
          /\ \E report_en \in 0 .. 1 :
               chip = [n \in Chips |-> AfterBasicCfg(parsed, n, report_en)]
  BY DEF Init
<1> DEFINE parsed == parse_init_doc(doc)
<1>2. parsed \in InitConfig
  BY DocParsed
<1>3. PICK report_en \in 0 .. 1 : chip = [n \in Chips |-> AfterBasicCfg(parsed, n, report_en)]
  BY <1>1
<1>4. init_cfg = parsed.init_cfg
  BY <1>1
<1> HIDE DEF parsed
<1>5. chip \in [Chips -> OrderedChip]
  BY <1>2, <1>3, FirstChip
<1>6. init_cfg \in Seq(InitNode)
  BY <1>2, <1>4 DEF InitConfig
<1> DEFINE blank == [i \in Index |-> [addr |-> None, val |-> 0]]
<1>7. blank \in [Index -> HcpEntry]
  <2>1. [addr |-> None, val |-> 0] \in HcpEntry
    BY BelowWord DEF HcpEntry
  <2> QED
    BY <2>1
<1>8. All(0) \in Table /\ All(0) \in [Index -> AnyWord]
  BY AllIs, BelowWord, TableIsAnyWord
<1>9. hcp_table = [t \in HcpTable |-> blank]
      /\ remote = [t \in TableSet |-> IF t \in HcpTable THEN blank ELSE All(0)]
  BY DEF Init, TableSet
<1> HIDE DEF blank
<1>10. hcp_table \in [HcpTable -> [Index -> HcpEntry]]
  BY <1>7, <1>9
<1>11. remote = [t \in TableSet |-> remote[t]] /\ \A t \in TableSet : remote[t] \in RemoteTable(t)
  BY <1>7, <1>8, <1>9 DEF RemoteTable
<1>12. \A t \in TableSet : <<>> \in TableEntries(t)
  BY DEF TableEntries, Routes, Times, Mappings, GateBytes
<1>13. given = [n \in Chips |-> [t \in TableSet |-> <<>>]]
  BY DEF Init, NoEntries, TableSet
<1>14. /\ given = [n \in Chips |-> [t \in TableSet |-> given[n][t]]]
       /\ \A n \in Chips, t \in TableSet : given[n][t] \in TableEntries(t)
  BY <1>12, <1>13
<1>15. todo \in Seq(ChipTable) /\ \A k \in DOMAIN todo : todo[k] \in ChipTable
  BY DEF Init
<1>16. Contents
  BY <1>5, <1>6, <1>11, <1>14, <1>15 DEF Contents
<1>17. chip \in [Chips -> Chip]
  BY <1>5, OrderedIsChip
<1>18. /\ DOMAIN remote = ChipTable \cup HcpTable
       /\ \A t \in ChipTable : remote[t] \in [Index -> {-1} \cup Word]
       /\ \A t \in HcpTable : remote[t] \in [Index -> HcpEntry]
  BY <1>11, RemoteTyped
<1>19. /\ G_STATE \in {"LOCAL_PLAN_CFG_S", "REMOTE_PLAN_CFG_S", "SYNC_INIT_S"}
       /\ waiting = None /\ imac \in Chips \cup {None} /\ port_id \in Ports /\ chip_cfg_table \in Table
       /\ send_init_cfg_flag \in 0 .. 1 /\ remote_first_cfg_flag \in 0 .. 1
       /\ tail = None /\ done \subseteq Chips /\ packets \in 0 .. MaxPackets
  BY <1>8, OfflinePlanAssumption DEF Init
<1>20. TypeOK
  BY <1>10, <1>15, <1>17, <1>18, <1>19 DEF TypeOK
<1> QED
  BY <1>16, <1>20 DEF TypeInv

-----------------------------------------------------------------------------
(* What the variables say of the table s of the plan of node n when it is
   written: the table of the chip it goes to, by the port q, and its values, by
   the mapping tables hcp. *)

HcpName(t) == IF t = MAP THEN "TX_FL-tag_mapping_table" ELSE "RX_FL-tag_remapping_table"
IsGate(s) == s.name = "gate_control_list_table"

Place(s, q) == CASE s.name = "forwarding_table" -> FLT
                 [] s.name = "gate_control_list_table" -> QGC(q)
                 [] s.name = "pkt_injection_table" -> TIS
                 [] s.name = "pkt_submission_table" -> TSS
                 [] s.name = "TX_FL-tag_mapping_table" -> MAP
                 [] s.name = "RX_FL-tag_remapping_table" -> REMAP

SlotTime(s, i) ==
  IF i < Len(s.entries) THEN Time(s.entries[i + 1].addr, s.entries[i + 1].time_slot) ELSE 0

Value(n, s, hcp, i) ==
  CASE s.name = "forwarding_table" -> LastOf(s.entries, i, LastOf(init_forward(n), i, 0))
    [] s.name = "gate_control_list_table" -> LastOf(s.entries, i, 255)
    [] s.name \in {"pkt_injection_table", "pkt_submission_table"} -> SlotTime(s, i)
    [] s.name = "TX_FL-tag_mapping_table" -> hcp[MAP][i].val
    [] s.name = "RX_FL-tag_remapping_table" -> hcp[REMAP][i].val

(* What reading table s makes of the port and of the mapping tables. *)
NextPort(s, q) == IF IsGate(s) /\ s.port_id # None THEN s.port_id ELSE q
NextValue(s, hcp, t, i) ==
  IF s.name = HcpName(t) THEN LastOf(s.entries, i, IF i = 0 THEN 0 ELSE hcp[t][i].val)
  ELSE hcp[t][i].val

LEMMA PlaceIs ==
  ASSUME NEW s, PlanTableOK(s), NEW q \in Ports
  PROVE  Place(s, q) \in TableSet
<1>1. CASE IsGate(s)
  BY <1>1, Names DEF Place, TableSet, IsGate
<1>2. CASE ~ IsGate(s)
  BY <1>2, Names DEF PlanTableOK, Place, TableSet, IsGate
<1> QED
  BY <1>1, <1>2

(* Tables of one switch go to different places. *)
LEMMA DifferentPlaces ==
  ASSUME NEW s, PlanTableOK(s), NEW u, PlanTableOK(u), NamesAnother(s, u), NEW q, NEW r,
         IsGate(s) /\ s.port_id # None => q = s.port_id,
         IsGate(u) /\ u.port_id # None => r = u.port_id
  PROVE  Place(s, q) # Place(u, r)
<1>1. CASE IsGate(s) /\ IsGate(u)
  <2>1. q # r
    BY <1>1 DEF NamesAnother, IsGate
  <2> QED
    BY <1>1, <2>1 DEF Place, IsGate, QGC
<1>2. CASE IsGate(s) /\ ~ IsGate(u)
  BY <1>2 DEF PlanTableOK, Place, IsGate, QGC, FLT, TIS, TSS, MAP, REMAP
<1>3. CASE ~ IsGate(s) /\ IsGate(u)
  BY <1>3 DEF PlanTableOK, Place, IsGate, QGC, FLT, TIS, TSS, MAP, REMAP
<1>4. CASE ~ IsGate(s) /\ ~ IsGate(u)
  <2>1. s.name # u.name
    BY <1>4 DEF NamesAnother, IsGate
  <2> QED
    BY <1>4, <2>1 DEF PlanTableOK, Place, IsGate, FLT, TIS, TSS, MAP, REMAP
<1> QED
  BY <1>1, <1>2, <1>3, <1>4

-----------------------------------------------------------------------------
(* The steps of a local plan. *)

WaitingOK == waiting = None \/ (waiting.imac \in Chips /\ waiting.table \in ChipTable)

LEMMA LocalTypes ==
  ASSUME TypeInv, UNCHANGED <<basic, collected, writing, given, packets>>,
         G_STATE' \in {"LOCAL_PLAN_CFG_S", "REMOTE_PLAN_CFG_S", "SYNC_INIT_S"},
         chip' \in [Chips -> OrderedChip], WaitingOK', imac' \in Chips \cup {None},
         port_id' \in Ports, chip_cfg_table' \in Table,
         hcp_table' \in [HcpTable -> [Index -> HcpEntry]], done' \subseteq Chips
  PROVE  TypeInv'
<1>1. /\ init_cfg' = init_cfg /\ remote' = remote /\ send_init_cfg_flag' = send_init_cfg_flag
      /\ remote_first_cfg_flag' = remote_first_cfg_flag /\ tail' = tail /\ todo' = todo
      /\ given' = given /\ packets' = packets
  BY DEF basic, collected, writing
<1>2. chip' \in [Chips -> Chip]
  BY OrderedIsChip
<1>3. Contents'
  <2>1. /\ (remote = [t \in TableSet |-> remote[t]])'
        /\ (\A t \in TableSet : remote[t] \in RemoteTable(t))'
    BY <1>1 DEF TypeInv, Contents
  <2>2. /\ (given = [n \in Chips |-> [t \in TableSet |-> given[n][t]]])'
        /\ (\A n \in Chips, t \in TableSet : given[n][t] \in TableEntries(t))'
    BY <1>1 DEF TypeInv, Contents
  <2>3. (init_cfg \in Seq(InitNode))' /\ (todo \in Seq(ChipTable))'
    BY <1>1 DEF TypeInv, Contents
  <2> QED
    BY <2>1, <2>2, <2>3 DEF Contents
<1>4. TypeOK'
  BY <1>1, <1>2 DEF TypeInv, TypeOK, WaitingOK
<1> QED
  BY <1>3, <1>4 DEF TypeInv

OnlyTable(n, t, data) == OneTableDiffers(chip, chip', n, t, data)

(* A table action writes one table of the switch that is read: to the place and
   with the values that the variables give it then. *)
Wrote(n, s, k) ==
  LET t == Place(s, port_id') IN
  /\ OnlyTable(n, t, k)
  /\ \A i \in Sent(t) : k[i] = Value(n, s, hcp_table', i)
  /\ port_id' = NextPort(s, port_id)
  /\ \A u \in HcpTable, i \in Index : hcp_table'[u][i].val = NextValue(s, hcp_table, u, i)

TableStep ==
  /\ TypeInv' /\ InPlan' /\ UNCHANGED <<basic, left, imac, plan, done>>
  /\ \E s : \E n \in Chips, k \in Table :
       n = imac /\ s = Head(tables) /\ PlanTableOK(s) /\ Wrote(n, s, k)

LEMMA TableWriteStep ==
  ASSUME TypeInv, NEW n \in Chips, NEW t \in ChipTable, NEW data \in [Index -> AnyWord],
         cfg_chip_table(n, t, data)
  PROVE  (\E k \in Table : OnlyTable(n, t, k) /\ TakenOver(t, data, k)) /\ WaitingOK'
<1> DEFINE k == Kept(t, data, chip[n].table[t])
<1>1. chip \in [Chips -> OrderedChip] /\ chip' = Rewritten(chip, n, t, k) /\ t \in TableSet
  BY DEF TypeInv, Contents, cfg_chip_table, TableSet, Rewritten
<1>2. chip[n].table[t] \in Table
  <2>1. chip[n] \in OrderedChip
    BY <1>1
  <2> QED
    BY <1>1, <2>1 DEF OrderedChip
<1>3. k \in Table /\ TakenOver(t, data, k)
  BY <1>2, KeptIs
<1> HIDE DEF k
<1>4. OnlyTable(n, t, k)
  BY <1>1, <1>3, TableWritten DEF OnlyTable
<1>5. waiting' = [imac |-> n, table |-> t, data |-> data]
  BY DEF cfg_chip_table
<1>6. WaitingOK'
  BY <1>5 DEF WaitingOK
<1> QED
  BY <1>3, <1>4, <1>6

LEMMA ChipTableStep ==
  ASSUME TypeInv, NEW n \in Chips, NEW t \in ChipTable, NEW data \in Table, Fits(t, data),
         cfg_chip_table(n, t, data)
  PROVE  (\E k \in Table : OnlyTable(n, t, k) /\ Agrees(t, data, k)) /\ WaitingOK'
<1>1. data \in [Index -> AnyWord]
  BY TableIsAnyWord
<1>2. PICK k \in Table : OnlyTable(n, t, k) /\ TakenOver(t, data, k)
  BY <1>1, TableWriteStep
<1>3. Agrees(t, data, k)
  BY <1>1, <1>2, FitsAgrees
<1>4. WaitingOK'
  BY <1>1, TableWriteStep
<1> QED
  BY <1>2, <1>3, <1>4

(* A table that is not a mapping table leaves those alone. *)
LEMMA NoMapping ==
  ASSUME NEW s, s.name \notin {"TX_FL-tag_mapping_table", "RX_FL-tag_remapping_table"},
         hcp_table' = hcp_table
  PROVE  \A u \in HcpTable, i \in Index : hcp_table'[u][i].val = NextValue(s, hcp_table, u, i)
BY DEF NextValue, HcpName

LEMMA ForwardingStep ==
  ASSUME TypeInv, InPlan, ForwardingTable
  PROVE  TableStep
<1>1. /\ NextTable("forwarding_table") /\ UNCHANGED port_id
      /\ WriteChipTable(FLT, Overlay(Overlay(Cleared, init_forward(imac)), Head(tables).entries))
  BY DEF ForwardingTable
<1>2. UNCHANGED <<G_STATE, basic, left, imac, collected, writing, plans, packets>>
  BY <1>1 DEF NextTable
<1>3. plan' = plan /\ left' = left /\ imac' = imac /\ given' = given /\ done' = done /\ init_cfg' = init_cfg
  BY <1>2 DEF plans, basic
<1>4. InPlan' /\ imac \in Chips
  BY <1>1, <1>3, TableRead
<1>5. PICK s : s = Head(tables) /\ PlanTableOK(s) /\ s.name = "forwarding_table"
  BY <1>1, <1>3, TableRead
<1>6. PICK n \in Chips : n = imac
  BY <1>4
<1> DEFINE data == Overlay(Overlay(Cleared, init_forward(n)), s.entries)
<1>7. /\ data \in Table /\ Fits(FLT, data)
      /\ \A i \in Index : data[i] = LastOf(s.entries, i, LastOf(init_forward(n), i, 0))
  <2>1. s.entries \in Routes /\ init_cfg \in Seq(InitNode)
    BY <1>5 DEF PlanTableOK, TypeInv, Contents
  <2> QED
    BY <2>1, ForwardData
<1>8. cfg_chip_table(n, FLT, data) /\ chip_cfg_table' = data /\ hcp_table' = hcp_table
  BY <1>1, <1>5, <1>6 DEF WriteChipTable
<1> HIDE DEF data
<1>9. PICK k \in Table : OnlyTable(n, FLT, k) /\ Agrees(FLT, data, k)
  BY <1>7, <1>8, Names, ChipTableStep
<1>10. WaitingOK'
  BY <1>7, <1>8, Names, ChipTableStep
<1>11. Wrote(n, s, k)
  <2>1. Place(s, port_id') = FLT
    BY <1>5 DEF Place
  <2>2. ASSUME NEW i \in Sent(FLT) PROVE k[i] = Value(n, s, hcp_table', i)
    <3>1. k[i] = data[i] /\ i \in Index
      BY <1>9, SentIs DEF Agrees
    <3> QED
      BY <1>5, <1>7, <3>1 DEF Value
  <2>3. port_id' = NextPort(s, port_id)
    BY <1>1, <1>5 DEF NextPort, IsGate
  <2> QED
    BY <1>5, <1>8, <1>9, <2>1, <2>2, <2>3, NoMapping DEF Wrote
<1>12. TypeInv'
  <2>1. /\ G_STATE' \in {"LOCAL_PLAN_CFG_S", "REMOTE_PLAN_CFG_S", "SYNC_INIT_S"}
        /\ imac' \in Chips \cup {None} /\ port_id' \in Ports
        /\ hcp_table' \in [HcpTable -> [Index -> HcpEntry]] /\ done' \subseteq Chips
    BY <1>1, <1>2, <1>3, <1>8 DEF TypeInv, TypeOK
  <2>2. chip' \in [Chips -> OrderedChip] /\ chip_cfg_table' \in Table
    BY <1>7, <1>8, <1>9 DEF OnlyTable, OneTableDiffers
  <2>3. UNCHANGED <<basic, collected, writing, given, packets>>
    BY <1>2, <1>3
  <2> QED
    BY <1>10, <2>1, <2>2, <2>3, LocalTypes
<1> QED
  BY <1>2, <1>3, <1>4, <1>5, <1>6, <1>11, <1>12 DEF TableStep

LEMMA TimeStep ==
  ASSUME TypeInv, InPlan, NEW name, NEW t,
         \/ name = "pkt_injection_table" /\ t = TIS
         \/ name = "pkt_submission_table" /\ t = TSS,
         TimeTable(name, t)
  PROVE  TableStep
<1>1. /\ NextTable(name) /\ UNCHANGED port_id
      /\ WriteChipTable(t, SlotTimes(Head(tables).entries))
  BY DEF TimeTable, SlotTimes
<1>2. UNCHANGED <<G_STATE, basic, left, imac, collected, writing, plans, packets>>
  BY <1>1 DEF NextTable
<1>3. plan' = plan /\ left' = left /\ imac' = imac /\ given' = given /\ done' = done /\ init_cfg' = init_cfg
  BY <1>2 DEF plans, basic
<1>4. InPlan' /\ imac \in Chips
  BY <1>1, <1>3, TableRead
<1>5. PICK s : s = Head(tables) /\ PlanTableOK(s) /\ s.name = name
  BY <1>1, <1>3, TableRead
<1>6. PICK n \in Chips : n = imac
  BY <1>4
<1> DEFINE data == SlotTimes(s.entries)
<1>7. /\ data \in Table /\ Fits(t, data)
      /\ \A i \in Index : data[i] = SlotTime(s, i)
  <2>1. s.entries \in Slots /\ t \in {TIS, TSS}
    BY <1>5 DEF PlanTableOK, Slots
  <2>2. SlotsHeld(t, data, s.entries)
    BY <2>1, TimeData
  <2> QED
    BY Zenon, <2>2 DEF SlotsHeld, SlotTime
<1>8. cfg_chip_table(n, t, data) /\ chip_cfg_table' = data /\ hcp_table' = hcp_table
  BY <1>1, <1>5, <1>6 DEF WriteChipTable
<1>9. t \in ChipTable
  BY Names
<1> HIDE DEF data
<1>10. PICK k \in Table : OnlyTable(n, t, k) /\ Agrees(t, data, k)
  BY <1>7, <1>8, <1>9, ChipTableStep
<1>11. WaitingOK'
  BY <1>7, <1>8, <1>9, ChipTableStep
<1>12. Wrote(n, s, k)
  <2>1. Place(s, port_id') = t
    BY <1>5 DEF Place
  <2>2. ASSUME NEW i \in Sent(t) PROVE k[i] = Value(n, s, hcp_table', i)
    <3>1. k[i] = data[i] /\ i \in Index
      BY <1>10, SentIs DEF Agrees
    <3> QED
      BY <1>5, <1>7, <3>1 DEF Value
  <2>3. port_id' = NextPort(s, port_id)
    BY <1>1, <1>5 DEF NextPort, IsGate
  <2> QED
    BY <1>5, <1>8, <1>10, <2>1, <2>2, <2>3, NoMapping DEF Wrote
<1>13. TypeInv'
  <2>1. /\ G_STATE' \in {"LOCAL_PLAN_CFG_S", "REMOTE_PLAN_CFG_S", "SYNC_INIT_S"}
        /\ imac' \in Chips \cup {None} /\ port_id' \in Ports
        /\ hcp_table' \in [HcpTable -> [Index -> HcpEntry]] /\ done' \subseteq Chips
    BY <1>1, <1>2, <1>3, <1>8 DEF TypeInv, TypeOK
  <2>2. chip' \in [Chips -> OrderedChip] /\ chip_cfg_table' \in Table
    BY <1>7, <1>8, <1>10 DEF OnlyTable, OneTableDiffers
  <2>3. UNCHANGED <<basic, collected, writing, given, packets>>
    BY <1>2, <1>3
  <2> QED
    BY <1>11, <2>1, <2>2, <2>3, LocalTypes
<1> QED
  BY <1>2, <1>3, <1>4, <1>5, <1>6, <1>12, <1>13 DEF TableStep

LEMMA GateStep ==
  ASSUME TypeInv, InPlan, GateTable
  PROVE  TableStep
<1>1. /\ NextTable("gate_control_list_table")
      /\ port_id' = IF Head(tables).port_id = None THEN port_id ELSE Head(tables).port_id
      /\ WriteChipTable(QGC(port_id'), Overlay(GatesOpen, Head(tables).entries))
  BY DEF GateTable
<1>2. UNCHANGED <<G_STATE, basic, left, imac, collected, writing, plans, packets>>
  BY <1>1 DEF NextTable
<1>3. plan' = plan /\ left' = left /\ imac' = imac /\ given' = given /\ done' = done /\ init_cfg' = init_cfg
  BY <1>2 DEF plans, basic
<1>4. InPlan' /\ imac \in Chips
  BY <1>1, <1>3, TableRead
<1>5. PICK s : s = Head(tables) /\ PlanTableOK(s) /\ s.name = "gate_control_list_table"
  BY <1>1, <1>3, TableRead
<1>6. PICK n \in Chips : n = imac
  BY <1>4
<1>7. s.entries \in GateBytes /\ s.port_id \in Ports \cup {None}
  BY <1>5 DEF PlanTableOK
<1>8. port_id' \in Ports /\ port_id' = NextPort(s, port_id)
  BY <1>1, <1>5, <1>7 DEF TypeInv, TypeOK, NextPort, IsGate
<1>9. PICK q \in Ports : q = port_id'
  BY <1>8
<1> DEFINE data == Overlay(GatesOpen, s.entries)
           t == QGC(q)
<1>10. data \in Table /\ Fits(t, data) /\ \A i \in Index : data[i] = LastOf(s.entries, i, 255)
  BY <1>7, GateData
<1>11. cfg_chip_table(n, t, data) /\ chip_cfg_table' = data /\ hcp_table' = hcp_table
  BY <1>1, <1>5, <1>6, <1>9 DEF WriteChipTable
<1>12. t \in ChipTable
  BY Names
<1>13. Place(s, port_id') = t
  BY <1>5, <1>9 DEF Place
<1> HIDE DEF data, t
<1>14. PICK k \in Table : OnlyTable(n, t, k) /\ Agrees(t, data, k)
  BY <1>10, <1>11, <1>12, ChipTableStep
<1>15. WaitingOK'
  BY <1>10, <1>11, <1>12, ChipTableStep
<1>16. Wrote(n, s, k)
  <2>1. ASSUME NEW i \in Sent(t) PROVE k[i] = Value(n, s, hcp_table', i)
    <3>1. k[i] = data[i] /\ i \in Index
      BY <1>14, SentIs DEF Agrees
    <3> QED
      BY <1>5, <1>10, <3>1 DEF Value
  <2> QED
    BY <1>5, <1>8, <1>11, <1>13, <1>14, <2>1, NoMapping DEF Wrote
<1>17. TypeInv'
  <2>1. /\ G_STATE' \in {"LOCAL_PLAN_CFG_S", "REMOTE_PLAN_CFG_S", "SYNC_INIT_S"}
        /\ imac' \in Chips \cup {None}
        /\ hcp_table' \in [HcpTable -> [Index -> HcpEntry]] /\ done' \subseteq Chips
    BY <1>1, <1>2, <1>3, <1>11 DEF TypeInv, TypeOK
  <2>2. chip' \in [Chips -> OrderedChip] /\ chip_cfg_table' \in Table
    BY <1>10, <1>11, <1>14 DEF OnlyTable, OneTableDiffers
  <2>3. UNCHANGED <<basic, collected, writing, given, packets>>
    BY <1>2, <1>3
  <2> QED
    BY <1>8, <1>15, <2>1, <2>2, <2>3, LocalTypes
<1> QED
  BY <1>2, <1>3, <1>4, <1>5, <1>6, <1>16, <1>17 DEF TableStep

LEMMA MappingStep ==
  ASSUME TypeInv, InPlan, NEW name, NEW t,
         \/ name = "TX_FL-tag_mapping_table" /\ t = MAP
         \/ name = "RX_FL-tag_remapping_table" /\ t = REMAP,
         MappingTable(name, t)
  PROVE  TableStep
<1>1. /\ NextTable(name) /\ UNCHANGED <<waiting, port_id, chip_cfg_table>>
      /\ hcp_table' = [hcp_table EXCEPT ![t] = Mapped(EmptyMap(hcp_table[t]), Head(tables).entries)]
      /\ chip' = [chip EXCEPT ![imac].table[t] = HcpWritten(chip[imac].table[t], hcp_table'[t])]
  BY DEF MappingTable, EmptyMap
<1>2. UNCHANGED <<G_STATE, basic, left, imac, collected, writing, plans, packets>>
  BY <1>1 DEF NextTable
<1>3. plan' = plan /\ left' = left /\ imac' = imac /\ given' = given /\ done' = done /\ init_cfg' = init_cfg
  BY <1>2 DEF plans, basic
<1>4. InPlan' /\ imac \in Chips
  BY <1>1, <1>3, TableRead
<1>5. PICK s : s = Head(tables) /\ PlanTableOK(s) /\ s.name = name
  BY <1>1, <1>3, TableRead
<1>6. PICK n \in Chips : n = imac
  BY <1>4
<1>7. t \in HcpTable /\ t \in TableSet
  BY DEF HcpTable, TableSet
<1> DEFINE old == chip[n].table[t]
           data == Mapped(EmptyMap(hcp_table[t]), s.entries)
           new == HcpWritten(old, data)
<1>8. hcp_table[t] \in [Index -> HcpEntry] /\ s.entries \in Mappings /\ old \in Table
  <2>1. hcp_table[t] \in [Index -> HcpEntry]
    BY <1>7 DEF TypeInv, TypeOK
  <2>2. s.entries \in Mappings
    BY <1>5 DEF PlanTableOK
  <2>3. chip[n] \in OrderedChip
    BY DEF TypeInv, Contents
  <2>4. old \in Table
    BY <1>7, <2>3 DEF OrderedChip
  <2> QED
    BY <2>1, <2>2, <2>4
<1>9. /\ data \in [Index -> HcpEntry] /\ new \in Table
      /\ \A i \in Index :
           /\ new[i] = data[i].val
           /\ data[i].val = LastOf(s.entries, i, IF i = 0 THEN 0 ELSE hcp_table[t][i].val)
  <2> HIDE DEF old
  <2> QED
    BY <1>8, MapData
<1>10. hcp_table' = [hcp_table EXCEPT ![t] = data] /\ hcp_table \in [HcpTable -> [Index -> HcpEntry]]
  BY <1>1, <1>5 DEF TypeInv, TypeOK
<1>11. /\ hcp_table'[t] = data /\ hcp_table' \in [HcpTable -> [Index -> HcpEntry]]
       /\ \A u \in HcpTable : u # t => hcp_table'[u] = hcp_table[u]
  <2> HIDE DEF data
  <2> QED
    BY <1>7, <1>9, <1>10
<1>12. chip' = Rewritten(chip, n, t, new) /\ chip \in [Chips -> OrderedChip]
  BY <1>1, <1>6, <1>11 DEF Rewritten, TypeInv, Contents
<1> HIDE DEF new, data, old
<1>13. OnlyTable(n, t, new)
  BY <1>7, <1>9, <1>12, TableWritten DEF OnlyTable
<1>14. s.name = HcpName(t) /\ \A u \in HcpTable : u # t => s.name # HcpName(u)
  BY <1>5, Names DEF HcpName, HcpTable
<1>15. Wrote(n, s, new)
  <2>1. Place(s, port_id') = t
    BY <1>5 DEF Place
  <2>2. ASSUME NEW i \in Sent(t) PROVE new[i] = Value(n, s, hcp_table', i)
    <3>1. new[i] = hcp_table'[t][i].val
      BY <1>9, <1>11, SentIs
    <3> QED
      BY <1>5, <3>1 DEF Value
  <2>3. port_id' = NextPort(s, port_id)
    BY <1>1, <1>5 DEF NextPort, IsGate
  <2>4. ASSUME NEW u \in HcpTable, NEW i \in Index
        PROVE  hcp_table'[u][i].val = NextValue(s, hcp_table, u, i)
    BY <1>9, <1>11, <1>14 DEF NextValue
  <2> QED
    BY <1>13, <2>1, <2>2, <2>3, <2>4 DEF Wrote
<1>16. TypeInv'
  <2>1. /\ G_STATE' \in {"LOCAL_PLAN_CFG_S", "REMOTE_PLAN_CFG_S", "SYNC_INIT_S"}
        /\ imac' \in Chips \cup {None} /\ port_id' \in Ports /\ chip_cfg_table' \in Table
        /\ WaitingOK' /\ done' \subseteq Chips
    BY <1>1, <1>2, <1>3 DEF TypeInv, TypeOK, WaitingOK
  <2>2. chip' \in [Chips -> OrderedChip]
    BY <1>13 DEF OnlyTable, OneTableDiffers
  <2>3. UNCHANGED <<basic, collected, writing, given, packets>>
    BY <1>2, <1>3
  <2> QED
    BY <1>11, <2>1, <2>2, <2>3, LocalTypes
<1> QED
  BY <1>2, <1>3, <1>4, <1>5, <1>6, <1>9, <1>15, <1>16 DEF TableStep

LEMMA OpenStep ==
  ASSUME TypeInv, InPlan, OpenSwitch
  PROVE  TypeInv' /\ InPlan' /\ SameTables(chip')
<1>1. InPlan' /\ imac' \in Chips /\ Head(left).imac = imac'
  BY SwitchOpened
<1>2. /\ UNCHANGED <<G_STATE, basic, waiting, port_id, chip_cfg_table, hcp_table, collected, writing,
                     plans, packets>>
      /\ chip' = [chip EXCEPT ![imac'].report_en = 1]
  BY <1>1 DEF OpenSwitch
<1>3. SameTables(chip')
  <2>1. PICK n \in Chips : n = imac'
    BY <1>1
  <2>2. PICK c : c = chip'
    OBVIOUS
  <2>3. PICK v \in 0 .. 1 : v = 1
    OBVIOUS
  <2>4. c = [chip EXCEPT ![n].report_en = v] /\ chip \in [Chips -> OrderedChip]
    BY <1>2, <2>1, <2>2, <2>3 DEF TypeInv, Contents
  <2>5. SameTables(c)
    BY <2>4, ReportWritten
  <2> QED
    BY <2>2, <2>5
<1>4. TypeInv'
  <2>1. /\ G_STATE' \in {"LOCAL_PLAN_CFG_S", "REMOTE_PLAN_CFG_S", "SYNC_INIT_S"}
        /\ WaitingOK' /\ port_id' \in Ports /\ chip_cfg_table' \in Table
        /\ hcp_table' \in [HcpTable -> [Index -> HcpEntry]] /\ done' \subseteq Chips
    BY <1>2 DEF TypeInv, TypeOK, WaitingOK, plans
  <2>2. chip' \in [Chips -> OrderedChip]
    BY <1>3 DEF SameTables
  <2>3. UNCHANGED <<basic, collected, writing, given, packets>>
    BY <1>2 DEF plans
  <2>4. imac' \in Chips \cup {None}
    BY <1>1
  <2> QED
    BY <2>1, <2>2, <2>3, <2>4, LocalTypes
<1> QED
  BY <1>1, <1>3, <1>4

LEMMA CloseStep ==
  ASSUME TypeInv, InPlan, CloseSwitch
  PROVE  TypeInv' /\ InPlan' /\ SameTables(chip')
<1>1. /\ UNCHANGED <<G_STATE, basic, waiting, left, tables, port_id, chip_cfg_table, hcp_table,
                     collected, writing, plan, given, packets>>
      /\ chip' = [chip EXCEPT ![imac].report_en = 0, ![imac].cfg_state = 3]
      /\ imac # None /\ imac' = None /\ done' = done \cup {imac}
  BY DEF CloseSwitch
<1>2. imac \in Chips
  BY <1>1 DEF TypeInv, TypeOK
<1>3. SameTables(chip')
  <2>1. PICK n \in Chips : n = imac
    BY <1>2
  <2>2. PICK c : c = chip'
    OBVIOUS
  <2>3. c = [chip EXCEPT ![n].report_en = 0, ![n].cfg_state = 3] /\ chip \in [Chips -> OrderedChip]
    BY <1>1, <2>1, <2>2 DEF TypeInv, Contents
  <2>4. SameTables(c)
    BY <2>3, StateWritten
  <2> QED
    BY <2>2, <2>4
<1>4. InPlan'
  <2>1. Suffix(left, plan)'
    BY <1>1 DEF InPlan, Suffix
  <2> QED
    BY <1>1, <2>1 DEF InPlan
<1>5. TypeInv'
  <2>1. /\ G_STATE' \in {"LOCAL_PLAN_CFG_S", "REMOTE_PLAN_CFG_S", "SYNC_INIT_S"}
        /\ WaitingOK' /\ port_id' \in Ports /\ chip_cfg_table' \in Table
        /\ hcp_table' \in [HcpTable -> [Index -> HcpEntry]] /\ done' \subseteq Chips
    BY <1>1, <1>2 DEF TypeInv, TypeOK, WaitingOK
  <2>2. chip' \in [Chips -> OrderedChip]
    BY <1>3 DEF SameTables
  <2>3. UNCHANGED <<basic, collected, writing, given, packets>> /\ imac' \in Chips \cup {None}
    BY <1>1
  <2> QED
    BY <2>1, <2>2, <2>3, LocalTypes
<1> QED
  BY <1>3, <1>4, <1>5

(* The actions that leave the chips alone. *)
LEMMA SameChips ==
  ASSUME TypeInv, chip' = chip
  PROVE  SameTables(chip')
BY DEF TypeInv, Contents, SameTables

LEMMA EndStep ==
  ASSUME TypeInv, InPlan, EndPlan \/ Confirmed \/ UNCHANGED vars
  PROVE  TypeInv' /\ InPlan' /\ SameTables(chip')
<1>1. UNCHANGED <<basic, chip, local, collected, writing, plans, packets>>
      /\ G_STATE' \in {G_STATE, "SYNC_INIT_S"} /\ waiting' \in {waiting, None}
  BY DEF EndPlan, Confirmed, vars
<1>2. SameTables(chip')
  BY <1>1, SameChips
<1>3. InPlan'
  BY <1>1, InPlanKept DEF local, plans
<1>4. TypeInv'
  <2>1. /\ G_STATE' \in {"LOCAL_PLAN_CFG_S", "REMOTE_PLAN_CFG_S", "SYNC_INIT_S"}
        /\ WaitingOK' /\ port_id' \in Ports /\ chip_cfg_table' \in Table
        /\ hcp_table' \in [HcpTable -> [Index -> HcpEntry]] /\ done' \subseteq Chips
        /\ imac' \in Chips \cup {None}
    BY <1>1 DEF TypeInv, TypeOK, WaitingOK, local, plans
  <2>2. chip' \in [Chips -> OrderedChip]
    BY <1>2 DEF SameTables
  <2>3. UNCHANGED <<basic, collected, writing, given, packets>>
    BY <1>1 DEF plans
  <2> QED
    BY <2>1, <2>2, <2>3, LocalTypes
<1> QED
  BY <1>2, <1>3, <1>4

-----------------------------------------------------------------------------
(* The steps of a remote plan. *)

LEMMA AllTablesIs ==
  /\ AllTables \in Seq(ChipTable) /\ AllTables # <<>>
  /\ \A t \in ChipTable : \E k \in DOMAIN AllTables : AllTables[k] = t
<1>1. PICK n \in 0 .. 8 : Ports = 0 .. n - 1
  BY OfflinePlanAssumption
<1>2. n >= 1
  BY <1>1, OfflinePlanAssumption
<1>3. Cardinality(Ports) = n
  BY <1>1, <1>2, FS_Interval
<1> DEFINE first == <<FLT, TIS, TSS>>
           gates == [k \in 1 .. Cardinality(Ports) |-> QGC(k - 1)]
<1>4. first \in Seq(ChipTable) /\ Len(first) = 3 /\ DOMAIN first = 1 .. 3
      /\ first[1] = FLT /\ first[2] = TIS /\ first[3] = TSS
  BY Names
<1>5. /\ gates \in Seq(ChipTable) /\ Len(gates) = n /\ DOMAIN gates = 1 .. n
      /\ \A q \in Ports : q + 1 \in DOMAIN gates /\ gates[q + 1] = QGC(q)
  <2>1. \A k \in 1 .. n : k - 1 \in Ports
    BY <1>1
  <2>2. gates = [k \in 1 .. n |-> QGC(k - 1)] /\ \A k \in 1 .. n : QGC(k - 1) \in ChipTable
    BY <1>3, <2>1, Names
  <2>3. \A q \in Ports : q + 1 \in 1 .. n /\ (q + 1) - 1 = q
    BY <1>1
  <2>4. gates \in [1 .. n -> ChipTable] /\ n \in Nat
    BY <2>2
  <2>5. \A q \in Ports : gates[q + 1] = QGC(q)
    BY <2>2, <2>3
  <2>6. DOMAIN gates = 1 .. n
    BY <2>4
  <2> HIDE DEF gates
  <2>7. gates \in Seq(ChipTable)
    BY <2>4
  <2>8. Len(gates) = n
    BY <2>4, <2>6, <2>7
  <2> QED
    BY <2>3, <2>5, <2>6, <2>7, <2>8
<1>6. AllTables = first \o gates
  BY DEF AllTables
<1> HIDE DEF first, gates
<1>7. /\ AllTables \in Seq(ChipTable) /\ Len(AllTables) = 3 + n /\ DOMAIN AllTables = 1 .. 3 + n
      /\ \A k \in 1 .. 3 : AllTables[k] = first[k]
      /\ \A k \in DOMAIN gates : k + 3 \in DOMAIN AllTables /\ AllTables[k + 3] = gates[k]
  <2>1. /\ first \o gates \in Seq(ChipTable) /\ Len(first \o gates) = 3 + n
        /\ \A k \in 1 .. 3 + n : (first \o gates)[k] = IF k <= 3 THEN first[k] ELSE gates[k - 3]
    <3>1. first \in Seq(ChipTable) /\ gates \in Seq(ChipTable)
      BY <1>4, <1>5
    <3>2. /\ first \o gates \in Seq(ChipTable) /\ Len(first \o gates) = Len(first) + Len(gates)
          /\ \A k \in 1 .. Len(first) + Len(gates) :
               (first \o gates)[k] = IF k <= Len(first) THEN first[k] ELSE gates[k - Len(first)]
      BY <3>1, ConcatProperties
    <3>3. Len(first) = 3 /\ Len(gates) = n
      BY <1>4, <1>5
    <3> QED
      BY <3>2, <3>3
  <2>2. DOMAIN AllTables = 1 .. 3 + n
    BY <1>6, <2>1, LenProperties
  <2>3. \A k \in 1 .. n : k + 3 \in 1 .. 3 + n /\ ~ (k + 3 <= 3) /\ (k + 3) - 3 = k
    OBVIOUS
  <2>4. \A k \in 1 .. n : AllTables[k + 3] = gates[k]
    BY <1>6, <2>1, <2>3
  <2>5. \A k \in 1 .. 3 : k \in 1 .. 3 + n /\ k <= 3
    OBVIOUS
  <2>6. \A k \in 1 .. 3 : AllTables[k] = first[k]
    BY <1>6, <2>1, <2>5
  <2> QED
    BY <1>5, <1>6, <2>1, <2>2, <2>3, <2>4, <2>6
<1>8. ASSUME NEW t \in ChipTable
      PROVE  \E k \in DOMAIN AllTables : AllTables[k] = t
  <2>1. CASE t \in {FLT, TIS, TSS}
    <3>1. 1 \in DOMAIN AllTables /\ 2 \in DOMAIN AllTables /\ 3 \in DOMAIN AllTables
      BY <1>7
    <3> QED
      BY <1>4, <1>7, <2>1, <3>1
  <2>2. CASE \E q \in Ports : t = QGC(q)
    BY <1>5, <1>7, <2>2
  <2> QED
    BY <2>1, <2>2, Names
<1>9. AllTables # <<>>
  BY <1>7
<1> QED
  BY <1>7, <1>8, <1>9

LEMMA EntriesJoin ==
  ASSUME NEW t, NEW a \in TableEntries(t), NEW b \in TableEntries(t)
  PROVE  a \o b \in TableEntries(t)
<1>1. \E S : TableEntries(t) = Seq(S)
  BY DEF TableEntries, Routes, Times, Mappings, GateBytes
<1>2. PICK S : TableEntries(t) = Seq(S)
  BY <1>1
<1> QED
  BY <1>2

(* What packets gave a node; a node that was completed begins again. *)
Before(n) == IF n \in done THEN NoEntries ELSE given[n]

LEMMA BeforeIs ==
  ASSUME TypeInv, NEW n \in Chips
  PROVE  /\ Before(n) = [t \in TableSet |-> Before(n)[t]]
         /\ \A t \in TableSet : Before(n)[t] \in TableEntries(t)
<1>1. CASE n \in done
  <2>1. Before(n) = [t \in TableSet |-> <<>>]
    BY <1>1 DEF Before, NoEntries, TableSet
  <2>2. \A t \in TableSet : <<>> \in TableEntries(t)
    BY DEF TableEntries, Routes, Times, Mappings, GateBytes
  <2> QED
    BY <2>1, <2>2
<1>2. CASE n \notin done
  <2>1. /\ given = [m \in Chips |-> [t \in TableSet |-> given[m][t]]]
        /\ \A m \in Chips, t \in TableSet : given[m][t] \in TableEntries(t)
    BY DEF TypeInv, Contents
  <2>2. given[n] = [t \in TableSet |-> given[n][t]]
    BY <2>1
  <2>3. Before(n) = given[n]
    BY <1>2 DEF Before
  <2> QED
    BY <2>1, <2>2, <2>3
<1> QED
  BY <1>1, <1>2

LEMMA GivenIs ==
  ASSUME TypeInv, NEW n \in Chips, NEW p \in Packets, NEW f, RemotePacket(n, p, f)
  PROVE  /\ (given = [m \in Chips |-> [t \in TableSet |-> given[m][t]]])'
         /\ (\A m \in Chips, t \in TableSet : given[m][t] \in TableEntries(t))'
         /\ \A m \in Chips \ {n} : given'[m] = given[m]
         /\ \A t \in TableSet :
              given'[n][t] = IF p.type = t THEN Before(n)[t] \o p.entries ELSE Before(n)[t]
<1> DEFINE before == Before(n)
           now == IF p.type = REG THEN before
                  ELSE [before EXCEPT ![p.type] = before[p.type] \o p.entries]
<1>1. given' = [given EXCEPT ![n] = now]
  BY DEF RemotePacket, Before
<1>2. /\ before = [t \in TableSet |-> before[t]]
      /\ \A t \in TableSet : before[t] \in TableEntries(t)
  BY BeforeIs
<1>3. /\ given = [m \in Chips |-> [t \in TableSet |-> given[m][t]]]
      /\ \A m \in Chips, t \in TableSet : given[m][t] \in TableEntries(t)
  BY DEF TypeInv, Contents
<1> HIDE DEF before
<1>4. /\ now = [t \in TableSet |-> now[t]]
      /\ \A t \in TableSet : /\ now[t] = IF p.type = t THEN before[t] \o p.entries ELSE before[t]
                             /\ now[t] \in TableEntries(t)
  <2>1. CASE p.type = REG
    BY <1>2, <2>1, Names
  <2>2. CASE p.type \in TableSet
    <3>1. p.entries \in TableEntries(p.type)
      BY <2>2, PacketIs
    <3>2. before[p.type] \o p.entries \in TableEntries(p.type)
      BY <1>2, <2>2, <3>1, EntriesJoin
    <3>3. now = [before EXCEPT ![p.type] = before[p.type] \o p.entries]
      BY <2>2, Names
    <3> HIDE DEF now
    <3> QED
      BY <1>2, <2>2, <3>2, <3>3
  <2> QED
    BY <2>1, <2>2, PacketIs
<1> HIDE DEF now
<1>5. DOMAIN given = Chips
  BY <1>3
<1>6. /\ given' = [m \in Chips |-> IF m = n THEN now ELSE given[m]]
      /\ given'[n] = now /\ \A m \in Chips \ {n} : given'[m] = given[m]
  BY <1>1, <1>3, <1>5
<1>7. \A m \in Chips : given[m] = [t \in TableSet |-> given[m][t]]
  BY <1>3
<1>8. \A m \in Chips : given'[m] = [t \in TableSet |-> given'[m][t]]
  BY <1>4, <1>6, <1>7
<1>9. \A m \in Chips, t \in TableSet : given'[m][t] \in TableEntries(t)
  BY <1>3, <1>4, <1>6
<1>10. given' = [m \in Chips |-> [t \in TableSet |-> given'[m][t]]]
  BY <1>6, <1>8
<1> QED
  BY <1>4, <1>6, <1>9, <1>10 DEF before

LEMMA RemoteTypes ==
  ASSUME TypeInv, UNCHANGED <<basic, local>>,
         G_STATE' \in {"LOCAL_PLAN_CFG_S", "REMOTE_PLAN_CFG_S", "SYNC_INIT_S"},
         chip' \in [Chips -> OrderedChip], WaitingOK',
         (remote = [t \in TableSet |-> remote[t]])',
         (\A t \in TableSet : remote[t] \in RemoteTable(t))',
         send_init_cfg_flag' \in 0 .. 1, remote_first_cfg_flag' \in 0 .. 1,
         (tail = None \/ (tail.imac \in Chips /\ tail.tail_flag \in {1, 3}))',
         (todo \in Seq(ChipTable))',
         (given = [n \in Chips |-> [t \in TableSet |-> given[n][t]]])',
         (\A n \in Chips, t \in TableSet : given[n][t] \in TableEntries(t))',
         done' \subseteq Chips, packets' \in 0 .. MaxPackets
  PROVE  TypeInv'
<1>1. /\ init_cfg' = init_cfg /\ imac' = imac /\ port_id' = port_id
      /\ chip_cfg_table' = chip_cfg_table /\ hcp_table' = hcp_table
  BY DEF basic, local
<1>2. chip' \in [Chips -> Chip]
  BY OrderedIsChip
<1>3. Contents'
  <2>1. (init_cfg \in Seq(InitNode))'
    BY <1>1 DEF TypeInv, Contents
  <2> QED
    BY <2>1 DEF Contents
<1>4. (/\ DOMAIN remote = ChipTable \cup HcpTable
       /\ \A t \in ChipTable : remote[t] \in [Index -> {-1} \cup Word]
       /\ \A t \in HcpTable : remote[t] \in [Index -> HcpEntry])'
  <2>1. PICK r : r = remote'
    OBVIOUS
  <2>2. r = [t \in TableSet |-> r[t]] /\ \A t \in TableSet : r[t] \in RemoteTable(t)
    BY <2>1 DEF RemoteTable
  <2> QED
    BY <2>1, <2>2, RemoteTyped
<1>5. (\A k \in DOMAIN todo : todo[k] \in ChipTable)'
  <2>1. PICK r : r = todo'
    OBVIOUS
  <2>2. PICK S : S = ChipTable
    OBVIOUS
  <2>3. r \in Seq(S)
    BY <2>1, <2>2
  <2>4. \A k \in DOMAIN r : r[k] \in S
    BY <2>3
  <2> QED
    BY <2>1, <2>2, <2>4
<1>6. TypeOK'
  BY <1>1, <1>2, <1>4, <1>5 DEF TypeInv, TypeOK, WaitingOK
<1> QED
  BY <1>3, <1>6 DEF TypeInv

LEMMA FirstStep ==
  ASSUME TypeInv, InPlan, FirstPacket
  PROVE  TypeInv' /\ InPlan' /\ SameTables(chip')
<1>1. /\ UNCHANGED <<G_STATE, basic, chip, waiting, local, remote_first_cfg_flag, writing, plans, packets>>
      /\ send_init_cfg_flag' = 0
      /\ remote' = [t \in DOMAIN remote |->
                      IF t \in {QGC(p) : p \in Ports} THEN All(-1) ELSE remote[t]]
  BY DEF FirstPacket
<1>2. /\ remote = [t \in TableSet |-> remote[t]]
      /\ \A t \in TableSet : remote[t] \in RemoteTable(t)
  BY DEF TypeInv, Contents
<1>3. (remote = [t \in TableSet |-> remote[t]])'
  BY <1>1, <1>2
<1>4. (\A t \in TableSet : remote[t] \in RemoteTable(t))'
  <2>1. ASSUME NEW t \in TableSet
        PROVE  remote'[t] \in RemoteTable(t)
    <3>1. CASE t \in {QGC(p) : p \in Ports}
      BY <1>1, <1>2, <3>1, AllIs, Names DEF RemoteTable
    <3>2. CASE t \notin {QGC(p) : p \in Ports}
      BY <1>1, <1>2, <3>2
    <3> QED
      BY <3>1, <3>2
  <2> QED
    BY <2>1 DEF RemoteTable
<1>5. SameTables(chip')
  BY <1>1, SameChips
<1>6. InPlan'
  BY <1>1, InPlanKept DEF local, plans
<1>7. TypeInv'
  <2>1. /\ G_STATE' \in {"LOCAL_PLAN_CFG_S", "REMOTE_PLAN_CFG_S", "SYNC_INIT_S"}
        /\ WaitingOK' /\ send_init_cfg_flag' \in 0 .. 1 /\ remote_first_cfg_flag' \in 0 .. 1
        /\ (tail = None \/ (tail.imac \in Chips /\ tail.tail_flag \in {1, 3}))'
        /\ done' \subseteq Chips /\ packets' \in 0 .. MaxPackets
    BY <1>1 DEF TypeInv, TypeOK, WaitingOK, plans, writing
  <2>2. /\ (todo \in Seq(ChipTable))'
        /\ (given = [n \in Chips |-> [t \in TableSet |-> given[n][t]]])'
        /\ (\A n \in Chips, t \in TableSet : given[n][t] \in TableEntries(t))'
    BY <1>1 DEF TypeInv, Contents, plans, writing
  <2>3. chip' \in [Chips -> OrderedChip]
    BY <1>5 DEF SameTables
  <2> QED
    BY <1>1, <1>3, <1>4, <2>1, <2>2, <2>3, RemoteTypes
<1> QED
  BY <1>5, <1>6, <1>7

(* What a packet leaves in the tables being filled; it writes no chip table. *)
PacketStep(n, p) ==
  /\ TypeInv' /\ InPlan'
  /\ chip' \in [Chips -> OrderedChip] /\ \A m \in Chips : chip'[m].table = chip[m].table
  /\ \A t \in TableSet : remote'[t] = IF t = p.type THEN Collect(n, p) ELSE remote[t]

LEMMA PacketTyped ==
  ASSUME TypeInv, InPlan, NEW n \in Chips, NEW p \in Packets, NEW f \in {0, 1, 3},
         RemotePacket(n, p, f)
  PROVE  PacketStep(n, p)
<1>1. /\ UNCHANGED <<G_STATE, basic, waiting, local, send_init_cfg_flag, plan>>
      /\ packets < MaxPackets /\ packets' = packets + 1 /\ done' = done \ {n}
  BY DEF RemotePacket, Listening
<1>2. /\ remote = [t \in TableSet |-> remote[t]]
      /\ \A t \in TableSet : remote[t] \in RemoteTable(t)
      /\ chip \in [Chips -> OrderedChip] /\ init_cfg \in Seq(InitNode)
  BY DEF TypeInv, Contents
<1>3. /\ chip' \in [Chips -> OrderedChip] /\ \A m \in Chips : chip'[m].table = chip[m].table
      /\ remote' = [t \in TableSet |-> remote'[t]]
      /\ \A t \in TableSet : /\ remote'[t] = IF t = p.type THEN Collect(n, p) ELSE remote[t]
                             /\ remote'[t] \in RemoteTable(t)
      /\ remote_first_cfg_flag' \in 0 .. 1
  <2>1. CASE p.type = REG
    <3>1. /\ chip' = [chip EXCEPT ![n].reg = Registers(chip[n].reg, p.entries)]
          /\ remote' = remote /\ remote_first_cfg_flag' = remote_first_cfg_flag
      BY <2>1 DEF RemotePacket
    <3>2. chip[n].reg \in Thresholds
      <4>1. chip[n] \in OrderedChip
        BY <1>2
      <4> QED
        BY <4>1 DEF OrderedChip
    <3>3. Registers(chip[n].reg, p.entries) \in Thresholds
      <4>1. p.entries \in Seq(Nat \X Nat)
        BY <2>1, PacketIs
      <4>2. ThresholdsFit => \A k \in DOMAIN p.entries :
              p.entries[k][1] = CHIP_OFFSET_PERIOD_ADDR => p.entries[k][2] < 412
        BY <2>1 DEF ThresholdsFit
      <4> DEFINE e == p.entries
                 N == Nat \X Nat
      <4>3. Len(e) \in Nat /\ DOMAIN e = 1 .. Len(e) /\ \A k \in 1 .. Len(e) : e[k] \in N
        <5>1. e \in Seq(N)
          BY <4>1
        <5> HIDE DEF e, N
        <5> QED
          BY <5>1
      <4>4. \A k \in 1 .. Len(e) : IsRegEntry(e[k])
        BY <4>2, <4>3 DEF IsRegEntry
      <4> HIDE DEF e
      <4> QED
        BY <3>2, <4>3, <4>4, RegistersKeepOrder DEF e
    <3>4. PICK reg \in Thresholds : reg = Registers(chip[n].reg, p.entries)
      BY <3>3
    <3>5. PICK c : c = chip'
      OBVIOUS
    <3>6. c \in [Chips -> OrderedChip] /\ \A m \in Chips : c[m].table = chip[m].table
      <4>1. c = [chip EXCEPT ![n].reg = reg]
        BY <3>1, <3>4, <3>5
      <4> QED
        BY <1>2, <4>1, RegistersWritten
    <3> QED
      BY <1>2, <2>1, <3>1, <3>5, <3>6, Names DEF TypeInv, TypeOK
  <2>2. CASE p.type \in TableSet
    <3>1. /\ remote' = [remote EXCEPT ![p.type] = Collect(n, p)] /\ chip' = chip
          /\ remote_first_cfg_flag' \in {0, remote_first_cfg_flag}
      BY <2>2, Names DEF RemotePacket
    <3>2. Collect(n, p) \in RemoteTable(p.type)
      BY <1>2, <2>2, CollectIs
    <3> DEFINE now == Collect(n, p)
    <3> HIDE DEF now
    <3>3. /\ remote' = [t \in TableSet |-> remote'[t]]
          /\ \A t \in TableSet : /\ remote'[t] = IF t = p.type THEN now ELSE remote[t]
                                 /\ remote'[t] \in RemoteTable(t)
      BY <1>2, <2>2, <3>1, <3>2 DEF now
    <3> QED
      BY <1>2, <3>1, <3>3 DEF now, TypeInv, TypeOK
  <2> QED
    BY <2>1, <2>2, PacketIs
<1>4. (tail = None \/ (tail.imac \in Chips /\ tail.tail_flag \in {1, 3}))' /\ todo' \in Seq(ChipTable)
  <2>1. CASE f \in {1, 3}
    BY <2>1, AllTablesIs DEF RemotePacket
  <2>2. CASE f \notin {1, 3}
    BY <2>2 DEF RemotePacket, writing, TypeInv, TypeOK, Contents
  <2> QED
    BY <2>1, <2>2
<1>5. InPlan'
  BY <1>1, InPlanKept DEF local
<1>6. TypeInv'
  <2>1. /\ G_STATE' \in {"LOCAL_PLAN_CFG_S", "REMOTE_PLAN_CFG_S", "SYNC_INIT_S"}
        /\ WaitingOK' /\ send_init_cfg_flag' \in 0 .. 1
        /\ done' \subseteq Chips /\ packets' \in 0 .. MaxPackets
    BY <1>1, OfflinePlanAssumption DEF TypeInv, TypeOK, WaitingOK
  <2>2. /\ (remote = [t \in TableSet |-> remote[t]])'
        /\ (\A t \in TableSet : remote[t] \in RemoteTable(t))'
        /\ (todo \in Seq(ChipTable))'
    BY <1>3, <1>4 DEF RemoteTable
  <2>3. /\ (given = [m \in Chips |-> [t \in TableSet |-> given[m][t]]])'
        /\ (\A m \in Chips, t \in TableSet : given[m][t] \in TableEntries(t))'
    BY GivenIs
  <2> QED
    BY <1>1, <1>3, <1>4, <2>1, <2>2, <2>3, RemoteTypes
<1> QED
  BY <1>3, <1>5, <1>6 DEF PacketStep

LEMMA HcpWrittenTyped ==
  ASSUME NEW old \in Table, NEW data \in [Index -> HcpEntry]
  PROVE  HcpWritten(old, data) \in Table
<1>1. \A i \in Index : data[i].val \in Word /\ old[i] \in Word
  <2>1. ASSUME NEW i \in Index PROVE data[i].val \in Word /\ old[i] \in Word
    <3>1. data[i] \in HcpEntry
      OBVIOUS
    <3> QED
      BY <3>1 DEF HcpEntry, Table
  <2> QED
    BY <2>1
<1> QED
  BY <1>1 DEF HcpWritten, Table

(* The table written, and what the chip then holds. *)
WriteStep ==
  /\ TypeInv' /\ InPlan'
  /\ \E n \in Chips, t \in ChipTable :
       /\ n = tail.imac /\ t = Head(todo)
       /\ \E k \in Table : OnlyTable(n, t, k) /\ TakenOver(t, remote[t], k)

LEMMA WriteTyped ==
  ASSUME TypeInv, InPlan, Modes, WriteRemote
  PROVE  WriteStep
<1>1. /\ todo # <<>> /\ cfg_chip_table(tail.imac, Head(todo), remote[Head(todo)])
      /\ todo' = Tail(todo)
      /\ UNCHANGED <<G_STATE, basic, local, collected, tail, plans, packets>>
  BY DEF WriteRemote
<1>2. tail.imac \in Chips
  BY <1>1 DEF Modes, TypeInv, TypeOK
<1>3. Head(todo) \in ChipTable /\ Tail(todo) \in Seq(ChipTable)
  <2>1. PICK S : S = ChipTable
    OBVIOUS
  <2>2. PICK s : s = todo
    OBVIOUS
  <2>3. s \in Seq(S) /\ s # <<>>
    BY <1>1, <2>1, <2>2 DEF TypeInv, Contents
  <2>4. Head(s) \in S /\ Tail(s) \in Seq(S)
    BY <2>3
  <2> QED
    BY <2>1, <2>2, <2>4
<1>4. PICK n \in Chips, t \in ChipTable : n = tail.imac /\ t = Head(todo)
  BY <1>2, <1>3
<1>5. remote[t] \in [Index -> AnyWord]
  BY Names DEF TypeInv, Contents, RemoteTable, TableSet
<1>6. PICK data \in [Index -> AnyWord] : data = remote[t]
  BY <1>5
<1>7. cfg_chip_table(n, t, data)
  BY <1>1, <1>4, <1>6
<1>8. WaitingOK' /\ \E k \in Table : OnlyTable(n, t, k) /\ TakenOver(t, data, k)
  BY <1>7, TableWriteStep
<1>9. InPlan'
  BY <1>1, InPlanKept DEF local, plans
<1>10. TypeInv'
  <2>1. /\ G_STATE' \in {"LOCAL_PLAN_CFG_S", "REMOTE_PLAN_CFG_S", "SYNC_INIT_S"}
        /\ send_init_cfg_flag' \in 0 .. 1 /\ remote_first_cfg_flag' \in 0 .. 1
        /\ (tail = None \/ (tail.imac \in Chips /\ tail.tail_flag \in {1, 3}))'
        /\ done' \subseteq Chips /\ packets' \in 0 .. MaxPackets
    BY <1>1 DEF TypeInv, TypeOK, plans, collected
  <2>2. /\ (remote = [u \in TableSet |-> remote[u]])'
        /\ (\A u \in TableSet : remote[u] \in RemoteTable(u))'
        /\ (given = [m \in Chips |-> [u \in TableSet |-> given[m][u]]])'
        /\ (\A m \in Chips, u \in TableSet : given[m][u] \in TableEntries(u))'
    BY <1>1 DEF TypeInv, Contents, plans, collected
  <2>3. chip' \in [Chips -> OrderedChip] /\ (todo \in Seq(ChipTable))'
    BY <1>1, <1>3, <1>8 DEF OnlyTable, OneTableDiffers
  <2> QED
    BY <1>1, <1>8, <2>1, <2>2, <2>3, RemoteTypes
<1> QED
  BY <1>4, <1>6, <1>8, <1>9, <1>10 DEF WriteStep

FinishStep ==
  /\ TypeInv' /\ InPlan'
  /\ \A m \in Chips, t \in ChipTable : chip'[m].table[t] = chip[m].table[t]

LEMMA FinishTyped ==
  ASSUME TypeInv, InPlan, FinishRemote
  PROVE  FinishStep
<1>1. /\ tail # None /\ todo = <<>> /\ tail' = None
      /\ G_STATE' \in {G_STATE, "SYNC_INIT_S"} /\ remote_first_cfg_flag' = 1
      /\ done' = done \cup {tail.imac}
      /\ UNCHANGED <<basic, waiting, local, remote, send_init_cfg_flag, todo, plan, given, packets>>
  BY DEF FinishRemote, NextFirst
<1>2. PICK n \in Chips : n = tail.imac
  BY <1>1 DEF TypeInv, TypeOK
<1> DEFINE a == HcpWritten(chip[n].table[MAP], remote[MAP])
           d == Rewritten(chip, n, MAP, a)
           b == HcpWritten(chip[n].table[REMAP], remote[REMAP])
           c == Rewritten(d, n, REMAP, b)
<1>3. chip \in [Chips -> OrderedChip]
  BY DEF TypeInv, Contents
<1>4. MAP \in TableSet /\ REMAP \in TableSet /\ MAP # REMAP
  BY Names DEF TableSet
<1>5. a \in Table /\ b \in Table
  <2>1. chip[n].table[MAP] \in Table /\ chip[n].table[REMAP] \in Table
    <3>1. chip[n] \in OrderedChip
      BY <1>3
    <3> QED
      BY <1>4, <3>1 DEF OrderedChip
  <2>2. remote[MAP] \in [Index -> HcpEntry] /\ remote[REMAP] \in [Index -> HcpEntry]
    BY <1>4, Names DEF TypeInv, Contents, RemoteTable
  <2> QED
    BY <2>1, <2>2, HcpWrittenTyped
<1> HIDE DEF a, b
<1>6. OneTableDiffers(chip, d, n, MAP, a)
  BY <1>3, <1>4, <1>5, TableWritten
<1> HIDE DEF d
<1>7. d \in [Chips -> OrderedChip]
  BY <1>6 DEF OneTableDiffers
<1>8. OneTableDiffers(d, c, n, REMAP, b)
  BY <1>4, <1>5, <1>7, TableWritten
<1>10. chip' = c
  <2>1. chip' = [chip EXCEPT ![n].table[MAP] = HcpWritten(@, remote[MAP]),
                             ![n].table[REMAP] = HcpWritten(@, remote[REMAP])]
    BY <1>2 DEF FinishRemote
  <2> QED
    BY Zenon, <2>1 DEF a, b, d, Rewritten
<1>11. \A m \in Chips, t \in ChipTable : chip'[m].table[t] = chip[m].table[t]
  <2>1. \A t \in ChipTable : t # MAP /\ t # REMAP /\ t \in TableSet
    BY Names DEF TableSet
  <2> QED
    BY <1>6, <1>8, <1>10, <2>1 DEF OneTableDiffers
<1>12. chip' \in [Chips -> OrderedChip]
  BY <1>8, <1>10 DEF OneTableDiffers
<1>13. InPlan'
  BY <1>1, InPlanKept DEF local
<1>14. TypeInv'
  <2>1. /\ G_STATE' \in {"LOCAL_PLAN_CFG_S", "REMOTE_PLAN_CFG_S", "SYNC_INIT_S"}
        /\ send_init_cfg_flag' \in 0 .. 1 /\ remote_first_cfg_flag' \in 0 .. 1
        /\ (tail = None \/ (tail.imac \in Chips /\ tail.tail_flag \in {1, 3}))'
        /\ done' \subseteq Chips /\ packets' \in 0 .. MaxPackets /\ WaitingOK'
    BY <1>1, <1>2 DEF TypeInv, TypeOK, WaitingOK
  <2>2. /\ (remote = [u \in TableSet |-> remote[u]])'
        /\ (\A u \in TableSet : remote[u] \in RemoteTable(u))'
        /\ (given = [m \in Chips |-> [u \in TableSet |-> given[m][u]]])'
        /\ (\A m \in Chips, u \in TableSet : given[m][u] \in TableEntries(u))'
        /\ (todo \in Seq(ChipTable))'
    BY <1>1 DEF TypeInv, Contents
  <2> QED
    BY <1>1, <1>12, <2>1, <2>2, RemoteTypes
<1> QED
  BY <1>11, <1>13, <1>14 DEF FinishStep

-----------------------------------------------------------------------------
(* Every step keeps the types, the place in the plan, and the mode. *)

LEMMA LocalMode ==
  ASSUME LocalCfg
  PROVE  /\ G_STATE = "LOCAL_PLAN_CFG_S" /\ G_STATE' \in {G_STATE, "SYNC_INIT_S"}
         /\ UNCHANGED <<basic, collected, writing, plan, given, packets>>
<1>1. CASE OpenSwitch
  BY <1>1 DEF OpenSwitch, Reading, plans
<1>2. CASE CloseSwitch
  BY <1>2 DEF CloseSwitch, Reading
<1>3. CASE EndPlan
  BY <1>3 DEF EndPlan, Reading, plans
<1>4. CASE \E name : NextTable(name)
  BY <1>4 DEF NextTable, Reading, plans
<1>5. ForwardingTable \/ GateTable \/ TimeTable("pkt_injection_table", TIS)
      \/ TimeTable("pkt_submission_table", TSS) \/ MappingTable("TX_FL-tag_mapping_table", MAP)
      \/ MappingTable("RX_FL-tag_remapping_table", REMAP) => \E name : NextTable(name)
  BY DEF ForwardingTable, GateTable, TimeTable, MappingTable
<1> QED
  BY <1>1, <1>2, <1>3, <1>4, <1>5 DEF LocalCfg

LEMMA ModesStep ==
  ASSUME Modes, [Next]_vars
  PROVE  Modes'
<1>1. CASE LocalCfg
  BY <1>1, LocalMode DEF Modes, writing
<1>2. CASE Confirmed \/ FirstPacket \/ UNCHANGED vars
  <2>1. UNCHANGED <<G_STATE, writing, plans, local>>
    BY <1>2 DEF Confirmed, FirstPacket, vars
  <2> QED
    BY <2>1 DEF Modes, writing, plans, local
<1>3. CASE \E n \in Chips, p \in Packets, f \in {0, 1, 3} : RemotePacket(n, p, f)
  <2>1. PICK n \in Chips, p \in Packets, f \in {0, 1, 3} : RemotePacket(n, p, f)
    BY <1>3
  <2>2. G_STATE = "REMOTE_PLAN_CFG_S" /\ G_STATE' = G_STATE /\ plan' = plan /\ imac' = imac
    BY <2>1 DEF RemotePacket, Listening, local
  <2>3. (tail' = tail /\ todo' = todo) \/ (tail' = [imac |-> n, tail_flag |-> f] /\ f \in {1, 3})
    <3>1. CASE f \in {1, 3}
      BY <2>1, <3>1 DEF RemotePacket
    <3>2. CASE f \notin {1, 3}
      BY <2>1, <3>2 DEF RemotePacket, writing
    <3> QED
      BY <3>1, <3>2
  <2>4. [imac |-> n, tail_flag |-> f] # None \/ f \notin {1, 3}
    BY OfflinePlanAssumption
  <2> QED
    BY <2>2, <2>3, <2>4 DEF Modes, writing
<1>4. CASE WriteRemote
  BY <1>4 DEF WriteRemote, Modes, local, plans
<1>5. CASE FinishRemote
  BY <1>5 DEF FinishRemote, Modes, local, plans
<1> QED
  BY <1>1, <1>2, <1>3, <1>4, <1>5 DEF Next, Controller

(* The step kinds of a local plan. *)
LEMMA LocalKinds ==
  ASSUME TypeInv, InPlan, LocalCfg
  PROVE  \/ TableStep /\ (\E name : NextTable(name))
         \/ OpenSwitch /\ TypeInv' /\ InPlan' /\ SameTables(chip')
         \/ CloseSwitch /\ TypeInv' /\ InPlan' /\ SameTables(chip')
         \/ EndPlan /\ TypeInv' /\ InPlan' /\ SameTables(chip')
<1>1. CASE ForwardingTable
  BY <1>1, ForwardingStep DEF ForwardingTable
<1>2. CASE GateTable
  BY <1>2, GateStep DEF GateTable
<1>3. CASE TimeTable("pkt_injection_table", TIS)
  BY <1>3, TimeStep DEF TimeTable
<1>4. CASE TimeTable("pkt_submission_table", TSS)
  BY <1>4, TimeStep DEF TimeTable
<1>5. CASE MappingTable("TX_FL-tag_mapping_table", MAP)
  BY <1>5, MappingStep DEF MappingTable
<1>6. CASE MappingTable("RX_FL-tag_remapping_table", REMAP)
  BY <1>6, MappingStep DEF MappingTable
<1> QED
  BY <1>1, <1>2, <1>3, <1>4, <1>5, <1>6, OpenStep, CloseStep, EndStep DEF LocalCfg

Typed == TypeInv /\ InPlan /\ Modes

LEMMA TypedInit ==
  ASSUME Init
  PROVE  Typed
BY TypeInit, InPlanInit DEF Typed

LEMMA TypedStep ==
  ASSUME Typed, [Next]_vars
  PROVE  Typed'
<1>1. TypeInv /\ InPlan /\ Modes
  BY DEF Typed
<1>2. Modes'
  BY <1>1, ModesStep
<1>3. TypeInv' /\ InPlan'
  <2>1. CASE LocalCfg
    BY <1>1, <2>1, LocalKinds DEF TableStep
  <2>2. CASE Confirmed \/ UNCHANGED vars
    BY <1>1, <2>2, EndStep
  <2>3. CASE FirstPacket
    BY <1>1, <2>3, FirstStep
  <2>4. CASE \E n \in Chips, p \in Packets, f \in {0, 1, 3} : RemotePacket(n, p, f)
    BY <1>1, <2>4, PacketTyped DEF PacketStep
  <2>5. CASE WriteRemote
    BY <1>1, <2>5, WriteTyped DEF WriteStep
  <2>6. CASE FinishRemote
    BY <1>1, <2>6, FinishTyped DEF FinishStep
  <2> QED
    BY <2>1, <2>2, <2>3, <2>4, <2>5, <2>6 DEF Next, Controller
<1> QED
  BY <1>2, <1>3 DEF Typed

LEMMA AlwaysTyped == Spec => []Typed
<1>1. Init => Typed
  BY TypedInit
<1>2. Typed /\ [Next]_vars => Typed'
  BY TypedStep
<1> QED
  BY <1>1, <1>2, PTL DEF Spec

(* Whatever the documents and the packets say, as long as they are well formed,
   every variable of net_init.c, local_cfg.c and remote_cfg.c keeps a value of
   its type: a table written for a local plan fits into the 16 bits a chip
   reports, so that its confirmation can come. *)
THEOREM TypeCorrect == Spec => []TypeOK
<1>1. Typed => TypeOK
  BY DEF Typed, TypeInv
<1> QED
  BY <1>1, AlwaysTyped, PTL

(* Every chip keeps its thresholds in the order in which packets have to be
   discarded, best effort first and reserved last, whether init_cfg_fun or
   parse_reg_info set them, for thresholds from 22 in the file and offsets
   below 412 in the packets: below and above these the 9 bits overflow. *)
THEOREM OrderOfThresholds ==
  ASSUME ThresholdsFit
  PROVE  Spec => []PriorityOfThresholds
<1>1. ASSUME Typed
      PROVE  PriorityOfThresholds
  <2>1. chip \in [Chips -> OrderedChip] /\ init_cfg \in Seq(InitNode)
    BY <1>1 DEF Typed, TypeInv, Contents
  <2>2. ASSUME NEW k \in DOMAIN init_cfg
        PROVE  Ordered(chip[init_cfg[k].imac].reg)
    <3>1. PICK s : s = init_cfg
      OBVIOUS
    <3>2. PICK S : S = InitNode
      OBVIOUS
    <3>3. s[k] \in S
      BY <2>1, <3>1, <3>2
    <3>4. init_cfg[k].imac \in Chips
      BY <3>1, <3>2, <3>3 DEF InitNode
    <3>5. chip[init_cfg[k].imac] \in OrderedChip
      BY <2>1, <3>4
    <3> QED
      BY <3>5 DEF OrderedChip, Thresholds
  <2> QED
    BY <2>2 DEF PriorityOfThresholds, Ordered
<1> QED
  BY <1>1, AlwaysTyped, PTL

-----------------------------------------------------------------------------
(* A local plan.  The places read so far are those of the switches before the
   one that is read, and the first ones of this; the port and the mapping
   tables are what the tables read made of them. *)

Read ==
  {p \in Places : \/ p[1] < Position
                  \/ /\ p[1] = Position
                     /\ imac = None \/ p[2] + Len(tables) <= Len(plan[p[1]].tables)}

PortOf(S) == IF S = {} THEN 0 ELSE TableAt(Latest(S)).port_id
ValueOf(S, i) == IF S = {} THEN 0 ELSE LastOf(TableAt(Latest(S)).entries, i, 0)

LocalDone ==
  \A k \in DOMAIN plan : plan[k].imac \in done =>
    k < Position \/ (k = Position /\ imac = None)
PortFollows == port_id = PortOf(PortNamed \cap Read)
MappingFollows ==
  \A t \in HcpTable, i \in Index :
    hcp_table[t][i].val = ValueOf(Settles(HcpName(t), i) \cap Read, i)
LocalWritten ==
  \A p \in Read : PortAt(p) \in Ports /\ InForce(p)
LocalInv == LocalDone /\ PortFollows /\ MappingFollows /\ LocalWritten

(* Places. *)

LEMMA PositionIs ==
  ASSUME InPlan
  PROVE  /\ Position \in Int /\ Len(plan) \in Nat /\ DOMAIN plan = 1 .. Len(plan)
         /\ \A k \in DOMAIN plan : /\ plan[k].imac \in Chips /\ k \in Int
                                   /\ Len(plan[k].tables) \in Nat
                                   /\ DOMAIN plan[k].tables = 1 .. Len(plan[k].tables)
<1>1. IsDocument(plan) /\ \A k \in DOMAIN plan : plan[k].imac \in Chips /\ IsDocument(plan[k].tables)
  BY PlanIsDocument
<1>2. Len(plan) \in Nat /\ DOMAIN plan = 1 .. Len(plan)
  BY <1>1, DocumentIsSequence
<1>3. \A k \in DOMAIN plan : /\ Len(plan[k].tables) \in Nat
                             /\ DOMAIN plan[k].tables = 1 .. Len(plan[k].tables)
  BY <1>1, DocumentIsSequence
<1>4. Len(left) \in Nat
  BY DEF InPlan, Suffix
<1> QED
  BY <1>1, <1>2, <1>3, <1>4 DEF Position

LEMMA PlanNamesOnce ==
  ASSUME InPlan, NEW k \in DOMAIN plan
  PROVE  /\ \A l \in DOMAIN plan : k # l => plan[k].imac # plan[l].imac
         /\ \A i, j \in DOMAIN plan[k].tables : i # j => NamesAnother(plan[k].tables[i], plan[k].tables[j])
<1>1. plan # <<>>
  OBVIOUS
<1>2. plan \in PlanDocs
  BY <1>1 DEF InPlan
<1> QED
  BY <1>2, PlansAssumption

IsPlace(p) == p = <<p[1], p[2]>> /\ p[1] \in Int /\ p[2] \in Int

LEMMA PlacesAre ==
  ASSUME InPlan
  PROVE  /\ \A k \in DOMAIN plan : \A j \in DOMAIN plan[k].tables : <<k, j>> \in Places
         /\ \A p \in Places :
              /\ IsPlace(p) /\ p[1] \in DOMAIN plan /\ p[2] \in DOMAIN plan[p[1]].tables
              /\ plan[p[1]].imac \in Chips /\ PlanTableOK(TableAt(p))
<1>1. ASSUME NEW k \in DOMAIN plan, NEW j \in DOMAIN plan[k].tables
      PROVE  <<k, j>> \in Places
  <2>1. <<k, j>> \in {k} \X DOMAIN plan[k].tables
    OBVIOUS
  <2> QED
    BY <2>1 DEF Places
<1>2. ASSUME NEW p \in Places
      PROVE  /\ IsPlace(p) /\ p[1] \in DOMAIN plan /\ p[2] \in DOMAIN plan[p[1]].tables
             /\ plan[p[1]].imac \in Chips /\ PlanTableOK(TableAt(p))
  <2>1. PICK k \in DOMAIN plan : p \in {k} \X DOMAIN plan[k].tables
    BY DEF Places
  <2>2. p = <<p[1], p[2]>> /\ p[1] = k /\ p[2] \in DOMAIN plan[k].tables
    BY <2>1
  <2>3. k \in Int /\ plan[k].imac \in Chips /\ DOMAIN plan[k].tables = 1 .. Len(plan[k].tables)
        /\ Len(plan[k].tables) \in Nat
    BY PositionIs
  <2>4. p[2] \in Int
    BY <2>2, <2>3
  <2>5. PlanTableOK(plan[k].tables[p[2]])
    BY <2>2, PlanIsDocument
  <2> QED
    BY <2>2, <2>3, <2>4, <2>5 DEF IsPlace, TableAt
<1> QED
  BY <1>1, <1>2

LEMMA LatestIs ==
  ASSUME NEW S, \A q \in S : IsPlace(q), NEW p \in S, \A q \in S : NotAfter(q, p)
  PROVE  Latest(S) = p
<1>1. ASSUME NEW q \in S, \A r \in S : NotAfter(r, q)
      PROVE  q = p
  <2>1. NotAfter(p, q) /\ NotAfter(q, p)
    BY <1>1
  <2>2. IsPlace(p) /\ IsPlace(q)
    OBVIOUS
  <2>3. p[1] = q[1] /\ p[2] = q[2]
    BY <2>1, <2>2 DEF NotAfter, IsPlace
  <2> QED
    BY <2>2, <2>3 DEF IsPlace
<1> QED
  BY <1>1 DEF Latest

(* What is said of places depends on the plan and the initial configuration
   only. *)
LEMMA PlacesUnchanged ==
  ASSUME plan' = plan, UNCHANGED basic
  PROVE  /\ Places' = Places /\ PortNamed' = PortNamed
         /\ \A p : PortAt(p)' = PortAt(p) /\ Destination(p)' = Destination(p)
         /\ \A p, i : Planned(p, i)' = Planned(p, i)
         /\ \A S : PortOf(S)' = PortOf(S)
         /\ \A S, i : ValueOf(S, i)' = ValueOf(S, i)
         /\ \A name, i : Settles(name, i)' = Settles(name, i)
<1>1. init_cfg' = init_cfg
  BY DEF basic
<1>2. Places' = Places /\ \A p : TableAt(p)' = TableAt(p)
  BY DEF Places, TableAt
<1>3. PortNamed' = PortNamed
  BY <1>2 DEF PortNamed
<1>4. \A name, i : Settles(name, i)' = Settles(name, i)
  BY <1>2 DEF Settles
<1>5. \A p : PortAt(p)' = PortAt(p)
  BY <1>2, <1>3 DEF PortAt
<1>6. \A p : Destination(p)' = Destination(p)
  BY <1>2, <1>5 DEF Destination
<1>7. \A name, i, p : MappingAt(name, i, p)' = MappingAt(name, i, p)
  BY <1>2, <1>4 DEF MappingAt
<1>8. ASSUME NEW p, NEW i
      PROVE  Planned(p, i)' = Planned(p, i)
  <2>1. init_forward(plan[p[1]].imac)' = init_forward(plan[p[1]].imac)
    <3>1. PICK n : n = plan[p[1]].imac
      OBVIOUS
    <3>2. init_forward(n)' = init_forward(n)
      BY <1>1, ForwardUnchanged
    <3> QED
      BY <3>1, <3>2
  <2> QED
    BY <1>2, <1>7, <2>1 DEF Planned
<1>9. (\A S : PortOf(S)' = PortOf(S)) /\ (\A S, i : ValueOf(S, i)' = ValueOf(S, i))
  BY <1>2 DEF PortOf, ValueOf
<1> QED
  BY <1>2, <1>3, <1>4, <1>5, <1>6, <1>8, <1>9

LEMMA SameRead ==
  ASSUME LocalInv, SameTables(chip'), UNCHANGED <<basic, plan, port_id, hcp_table>>,
         Read' = Read, LocalDone', InPlan
  PROVE  LocalInv'
<1>1. /\ Places' = Places /\ PortNamed' = PortNamed
      /\ \A p : PortAt(p)' = PortAt(p) /\ Destination(p)' = Destination(p)
      /\ \A p, i : Planned(p, i)' = Planned(p, i)
      /\ \A S : PortOf(S)' = PortOf(S)
      /\ \A S, i : ValueOf(S, i)' = ValueOf(S, i)
      /\ \A name, i : Settles(name, i)' = Settles(name, i)
  BY PlacesUnchanged
<1>2. PortFollows'
  BY <1>1 DEF LocalInv, PortFollows
<1>3. MappingFollows'
  BY <1>1 DEF LocalInv, MappingFollows, HcpName, HcpTable, MAP, REMAP
<1>4. ASSUME NEW p \in Read
      PROVE  PortAt(p)' \in Ports /\ InForce(p)'
  <2>1. p \in Places /\ PortAt(p) \in Ports /\ InForce(p)
    BY DEF LocalInv, LocalWritten, Read
  <2>2. plan[p[1]].imac \in Chips
    BY <2>1, PlacesAre
  <2>3. chip'[plan[p[1]].imac].table = chip[plan[p[1]].imac].table
    BY <2>2 DEF SameTables
  <2>4. InForce(p)'
    BY <1>1, <2>1, <2>3 DEF InForce
  <2> QED
    BY <1>1, <2>1, <2>4
<1>5. LocalWritten'
  BY <1>4 DEF LocalWritten
<1> QED
  BY <1>2, <1>3, <1>5 DEF LocalInv

LEMMA LocalInit ==
  ASSUME Init, InPlan
  PROVE  LocalInv
<1>1. done = {} /\ plan = left /\ port_id = 0
      /\ hcp_table = [t \in HcpTable |-> [i \in Index |-> [addr |-> None, val |-> 0]]]
  BY DEF Init
<1>2. Position = 0
  BY <1>1, PositionIs DEF Position
<1>3. \A k \in DOMAIN plan : k >= 1
  BY PositionIs
<1>4. Read = {}
  <2>1. \A p \in Places : p[1] >= 1 /\ p[1] \in Int
    BY <1>3, PlacesAre DEF IsPlace
  <2> QED
    BY <1>2, <2>1 DEF Read
<1>5. PortFollows
  BY <1>1, <1>4 DEF PortFollows, PortOf
<1>6. MappingFollows
  BY <1>1, <1>4 DEF MappingFollows, ValueOf
<1> QED
  BY <1>1, <1>4, <1>5, <1>6 DEF LocalInv, LocalDone, LocalWritten

LEMMA OpenInForce ==
  ASSUME LocalInv, TypeInv, InPlan, OpenSwitch
  PROVE  LocalInv'
<1>1. SameTables(chip')
  BY OpenStep
<1>2. UNCHANGED <<basic, plan, port_id, hcp_table>> /\ done' = done /\ imac = None
  BY DEF OpenSwitch, plans
<1>3. /\ Position' = Position + 1 /\ imac' = plan[Position + 1].imac
      /\ tables' = plan[Position + 1].tables /\ imac' # None /\ Position + 1 \in DOMAIN plan
  BY SwitchOpened, OfflinePlanAssumption
<1>4. ASSUME NEW p \in Places
      PROVE  \/ p[1] < Position'
             \/ p[1] = Position' /\ (imac' = None \/ p[2] + Len(tables') <= Len(plan[p[1]].tables))
             <=> p[1] < Position \/ p[1] = Position
  <2>1. p[1] \in DOMAIN plan /\ p[2] \in DOMAIN plan[p[1]].tables
    BY PlacesAre
  <2>2. p[1] \in Int /\ Position \in Int /\ Len(plan[p[1]].tables) \in Nat
        /\ p[2] \in 1 .. Len(plan[p[1]].tables)
    BY <2>1, PositionIs
  <2>3. p[1] = Position + 1 => tables' = plan[p[1]].tables
    BY <1>3
  <2>4. p[1] = Position + 1 => ~ (p[2] + Len(tables') <= Len(plan[p[1]].tables))
    BY <2>2, <2>3
  <2> QED
    BY <1>3, <2>2, <2>4
<1>5. Read' = Read
  <2>1. Places' = Places /\ plan' = plan
    BY <1>2, PlacesUnchanged
  <2> QED
    BY <1>2, <1>4, <2>1 DEF Read
<1>6. LocalDone'
  <2>1. ASSUME NEW k \in DOMAIN plan, plan[k].imac \in done
        PROVE  k < Position'
    <3>1. k <= Position /\ k \in Int /\ Position \in Int
      BY <2>1, PositionIs DEF LocalInv, LocalDone
    <3> QED
      BY <1>3, <3>1
  <2> QED
    BY <1>2, <2>1 DEF LocalDone
<1> QED
  BY <1>1, <1>2, <1>5, <1>6, SameRead

LEMMA CloseInForce ==
  ASSUME LocalInv, TypeInv, InPlan, CloseSwitch
  PROVE  LocalInv'
<1>1. SameTables(chip')
  BY CloseStep
<1>2. /\ UNCHANGED <<basic, plan, left, tables, port_id, hcp_table>> /\ done' = done \cup {imac}
      /\ imac # None /\ imac' = None /\ tables = <<>>
  BY DEF CloseSwitch
<1>3. Position' = Position /\ imac = plan[Position].imac /\ Position >= 1
  BY <1>2 DEF Position, InPlan
<1>4. Position \in DOMAIN plan
  <2>1. Position <= Len(plan) /\ Position \in Int
    <3>1. Len(left) \in Nat
      BY DEF InPlan, Suffix
    <3> QED
      BY <3>1, PositionIs DEF Position
  <2> QED
    BY <1>3, <2>1, PositionIs
<1>5. ASSUME NEW p \in Places
      PROVE  p[2] + Len(tables) <= Len(plan[p[1]].tables)
  <2>1. p[1] \in DOMAIN plan /\ p[2] \in DOMAIN plan[p[1]].tables
    BY PlacesAre
  <2>2. Len(plan[p[1]].tables) \in Nat /\ p[2] \in 1 .. Len(plan[p[1]].tables)
    BY <2>1, PositionIs
  <2>3. Len(tables) = 0
    BY <1>2
  <2> QED
    BY <2>2, <2>3
<1>6. Read' = Read
  <2>1. Places' = Places
    BY <1>2, PlacesUnchanged
  <2> QED
    BY <1>2, <1>3, <1>5, <2>1 DEF Read
<1>7. LocalDone'
  <2>1. ASSUME NEW k \in DOMAIN plan, plan[k].imac \in done'
        PROVE  k < Position \/ k = Position
    <3>1. CASE plan[k].imac \in done
      BY <3>1 DEF LocalInv, LocalDone
    <3>2. CASE plan[k].imac = imac
      BY <1>3, <1>4, <3>2, PlanNamesOnce
    <3> QED
      BY <1>2, <2>1, <3>1, <3>2
  <2> QED
    BY <1>2, <1>3, <2>1 DEF LocalDone
<1> QED
  BY <1>1, <1>2, <1>6, <1>7, SameRead

LEMMA QuietInForce ==
  ASSUME LocalInv, InPlan, SameTables(chip'), UNCHANGED <<basic, local, plan, done>>
  PROVE  LocalInv'
<1>1. UNCHANGED <<left, imac, tables, port_id, hcp_table, plan, done>>
  BY DEF local
<1>2. Position' = Position
  BY <1>1 DEF Position
<1>3. Read' = Read
  <2>1. Places' = Places
    BY <1>1, PlacesUnchanged
  <2> QED
    BY <1>1, <1>2, <2>1 DEF Read
<1>4. LocalDone'
  BY <1>1, <1>2 DEF LocalInv, LocalDone
<1> QED
  BY <1>1, <1>3, <1>4, SameRead

(* The place of the table that is read next: the latest of those read then. *)
IsNext(p) ==
  /\ p \in Places /\ Read' = Read \cup {p}
  /\ \A q \in Places : NotAfter(q, p) <=> q \in Read'
  /\ TableAt(p) = Head(tables) /\ plan[p[1]].imac = imac

LEMMA LastPlace ==
  ASSUME NEW x \in Int, NEW l \in Int, NEW r \in Int
  PROVE  /\ x + r <= l <=> x < l - r + 1
         /\ x + (r - 1) <= l <=> x <= l - r + 1
OBVIOUS

LEMMA NextPlace ==
  ASSUME TypeInv, InPlan, NEW name, NextTable(name), UNCHANGED <<basic, left, imac, plan, done>>
  PROVE  \E p \in Places : IsNext(p)
<1> DEFINE all == plan[Position].tables
           j0 == Len(all) - Len(tables) + 1
           p0 == <<Position, j0>>
<1>1. /\ Position \in DOMAIN plan /\ imac = plan[Position].imac /\ imac \in Chips
      /\ j0 \in DOMAIN all /\ Head(tables) = all[j0]
      /\ Len(tables) \in Nat /\ Len(all) \in Nat /\ DOMAIN all = 1 .. Len(all)
      /\ Len(tables') = Len(tables) - 1
  BY TableRead
<1>2. Position' = Position /\ imac # None /\ imac' # None
  BY <1>1, OfflinePlanAssumption DEF Position
<1>3. p0 \in Places /\ p0[1] = Position /\ p0[2] = j0
  BY <1>1, PlacesAre
<1>4. TableAt(p0) = Head(tables) /\ plan[p0[1]].imac = imac
  BY <1>1, <1>3 DEF TableAt
<1>5. Places' = Places
  BY PlacesUnchanged
<1>6. ASSUME NEW q \in Places
      PROVE  /\ q \in Read <=> q[1] < Position \/ (q[1] = Position /\ q[2] < j0)
             /\ q \in Read' <=> q[1] < Position \/ (q[1] = Position /\ q[2] <= j0)
             /\ NotAfter(q, p0) <=> q[1] < Position \/ (q[1] = Position /\ q[2] <= j0)
             /\ q = p0 <=> q[1] = Position /\ q[2] = j0
  <2>1. IsPlace(q)
    BY PlacesAre
  <2>2. q[1] = Position => plan[q[1]].tables = all
    OBVIOUS
  <2>3. q \in Read <=> q[1] < Position \/ (q[1] = Position /\ q[2] + Len(tables) <= Len(all))
    BY <1>2, <2>2 DEF Read
  <2>4. q \in Read' <=> q[1] < Position \/ (q[1] = Position /\ q[2] + Len(tables') <= Len(all))
    BY <1>2, <1>5, <2>2 DEF Read
  <2>5. q[2] \in Int /\ Position \in Int /\ j0 \in Int
    BY <1>1, <2>1, PositionIs DEF IsPlace
  <2>6. (q[2] + Len(tables) <= Len(all) <=> q[2] < j0)
        /\ (q[2] + Len(tables') <= Len(all) <=> q[2] <= j0)
    <3>1. PICK x \in Int, l \in Int, r \in Int : x = q[2] /\ l = Len(all) /\ r = Len(tables)
      BY <1>1, <2>5
    <3>2. (x + r <= l <=> x < l - r + 1) /\ (x + (r - 1) <= l <=> x <= l - r + 1)
      BY LastPlace
    <3>3. Len(tables') = r - 1
      BY <1>1, <3>1
    <3> QED
      BY <3>1, <3>2, <3>3
  <2>7. NotAfter(q, p0) <=> q[1] < Position \/ (q[1] = Position /\ q[2] <= j0)
    BY <1>3 DEF NotAfter
  <2>8. q = p0 <=> q[1] = Position /\ q[2] = j0
    BY <2>1, <1>3 DEF IsPlace
  <2> HIDE DEF all, j0, p0
  <2> QED
    BY <2>3, <2>4, <2>6, <2>7, <2>8
<1>7. j0 \in Int
  BY <1>1
<1>8. Read \subseteq Places /\ Read' \subseteq Places
  BY <1>5 DEF Read
<1> HIDE DEF all, j0, p0
<1>9. ASSUME NEW q \in Places
      PROVE  (q \in Read' <=> q \in Read \cup {p0}) /\ (NotAfter(q, p0) <=> q \in Read')
  <2>1. q[2] \in Int
    BY PlacesAre DEF IsPlace
  <2> QED
    BY <1>6, <1>7, <2>1
<1>10. Read' = Read \cup {p0}
  BY <1>3, <1>8, <1>9
<1> QED
  BY <1>3, <1>4, <1>9, <1>10 DEF IsNext

(* Of some places, those up to the next one, and the latest of these. *)
LEMMA UptoNext ==
  ASSUME InPlan, NEW p, IsNext(p), NEW S, S \subseteq Places
  PROVE  /\ Upto(S, p) = S \cap Read'
         /\ p \in S => S \cap Read' # {} /\ Latest(S \cap Read') = p
         /\ p \notin S => S \cap Read' = S \cap Read
<1>1. /\ p \in Places /\ Read' = Read \cup {p}
      /\ \A q \in Places : NotAfter(q, p) <=> q \in Read'
  BY DEF IsNext
<1>2. Upto(S, p) = S \cap Read'
  BY <1>1 DEF Upto
<1>3. ASSUME p \in S
      PROVE  S \cap Read' # {} /\ Latest(S \cap Read') = p
  <2> DEFINE T == S \cap Read'
  <2>1. p \in T /\ \A q \in T : NotAfter(q, p)
    BY <1>1, <1>3
  <2>2. \A q \in T : IsPlace(q)
    BY PlacesAre
  <2> HIDE DEF T
  <2>3. T # {} /\ Latest(T) = p
    BY <2>1, <2>2, LatestIs
  <2> QED
    BY <2>3 DEF T
<1>4. p \notin S => S \cap Read' = S \cap Read
  BY <1>1
<1> QED
  BY <1>2, <1>3, <1>4

LEMMA NextPortIs ==
  ASSUME InPlan, PortFollows, NEW p, IsNext(p)
  PROVE  PortAt(p) = NextPort(TableAt(p), port_id) /\ PortOf(PortNamed \cap Read') = PortAt(p)
<1>1. PortNamed \subseteq Places /\ p \in Places
  BY DEF PortNamed, IsNext
<1>2. /\ Upto(PortNamed, p) = PortNamed \cap Read'
      /\ p \in PortNamed => PortNamed \cap Read' # {} /\ Latest(PortNamed \cap Read') = p
      /\ p \notin PortNamed => PortNamed \cap Read' = PortNamed \cap Read
  BY <1>1, UptoNext
<1>3. PortAt(p) = PortOf(PortNamed \cap Read')
  BY <1>2 DEF PortAt, PortOf
<1>4. p \in PortNamed <=> IsGate(TableAt(p)) /\ TableAt(p).port_id # None
  BY <1>1 DEF PortNamed, IsGate
<1>5. p \in PortNamed => PortOf(PortNamed \cap Read') = TableAt(p).port_id
  BY <1>2 DEF PortOf
<1>6. p \notin PortNamed => PortOf(PortNamed \cap Read') = port_id
  BY <1>2 DEF PortFollows
<1> QED
  BY <1>3, <1>4, <1>5, <1>6 DEF NextPort

LEMMA NextValueIs ==
  ASSUME InPlan, MappingFollows, NEW p, IsNext(p), NEW t \in HcpTable, NEW i \in Index
  PROVE  /\ MappingAt(HcpName(t), i, p) = NextValue(TableAt(p), hcp_table, t, i)
         /\ ValueOf(Settles(HcpName(t), i) \cap Read', i) = MappingAt(HcpName(t), i, p)
<1> DEFINE S == Settles(HcpName(t), i)
           s == TableAt(p)
           old == hcp_table[t][i].val
<1>1. S \subseteq Places /\ p \in Places
  BY DEF Settles, IsNext
<1>2. /\ Upto(S, p) = S \cap Read'
      /\ p \in S => S \cap Read' # {} /\ Latest(S \cap Read') = p
      /\ p \notin S => S \cap Read' = S \cap Read
  <2> HIDE DEF S
  <2> QED
    BY <1>1, UptoNext
<1>3. MappingAt(HcpName(t), i, p) = ValueOf(S \cap Read', i)
  BY <1>2 DEF MappingAt, ValueOf
<1>4. p \in S <=> s.name = HcpName(t) /\ (i = 0 \/ At(s.entries, i) # {})
  BY <1>1 DEF Settles
<1>5. p \in S => ValueOf(S \cap Read', i) = LastOf(s.entries, i, 0)
  BY <1>2 DEF ValueOf
<1>6. p \notin S => ValueOf(S \cap Read', i) = old
  BY <1>2 DEF MappingFollows
<1>7. CASE p \in S
  <2>1. s.name = HcpName(t) /\ (i = 0 \/ At(s.entries, i) # {})
    BY <1>4, <1>7
  <2>2. NextValue(s, hcp_table, t, i) = LastOf(s.entries, i, IF i = 0 THEN 0 ELSE old)
    BY <2>1 DEF NextValue
  <2>3. LastOf(s.entries, i, IF i = 0 THEN 0 ELSE old) = LastOf(s.entries, i, 0)
    BY <2>1 DEF LastOf
  <2> QED
    BY <1>3, <1>5, <1>7, <2>2, <2>3
<1>8. CASE p \notin S
  <2>1. s.name # HcpName(t) \/ (i # 0 /\ At(s.entries, i) = {})
    BY <1>4, <1>8
  <2>2. NextValue(s, hcp_table, t, i) = old
    BY <2>1 DEF NextValue, LastOf
  <2> QED
    BY <1>3, <1>6, <1>8, <2>2
<1> QED
  BY <1>3, <1>7, <1>8

LEMMA OwnPort ==
  ASSUME InPlan, NEW p \in Places, IsGate(TableAt(p)), TableAt(p).port_id # None
  PROVE  PortAt(p) = TableAt(p).port_id
<1>1. p \in PortNamed /\ IsPlace(p)
  BY PlacesAre DEF PortNamed, IsGate
<1> DEFINE T == Upto(PortNamed, p)
<1>2. p \in T
  BY <1>1 DEF Upto, NotAfter, IsPlace
<1>3. \A q \in T : IsPlace(q) /\ NotAfter(q, p)
  BY PlacesAre DEF Upto, PortNamed
<1> HIDE DEF T
<1>4. Latest(T) = p /\ T # {}
  BY <1>2, <1>3, LatestIs
<1> QED
  BY <1>4 DEF PortAt, T

LEMMA DestinationIs ==
  ASSUME NEW p, PlanTableOK(TableAt(p))
  PROVE  Destination(p) = Place(TableAt(p), PortAt(p))
BY DEF Destination, Place, PlanTableOK

LEMMA PlannedIs ==
  ASSUME NEW p, PlanTableOK(TableAt(p)), NEW i, NEW hcp,
         \A t \in HcpTable : hcp[t][i].val = MappingAt(HcpName(t), i, p)
  PROVE  Planned(p, i) = Value(plan[p[1]].imac, TableAt(p), hcp, i)
<1>1. hcp[MAP][i].val = MappingAt("TX_FL-tag_mapping_table", i, p)
  BY DEF HcpTable, HcpName
<1>2. hcp[REMAP][i].val = MappingAt("RX_FL-tag_remapping_table", i, p)
  BY DEF HcpTable, HcpName, MAP, REMAP
<1> DEFINE s == TableAt(p)
           n == plan[p[1]].imac
<1>3. CASE s.name = "forwarding_table"
  BY <1>3 DEF Planned, Value
<1>4. CASE s.name = "gate_control_list_table"
  BY <1>4 DEF Planned, Value
<1>5. CASE s.name \in {"pkt_injection_table", "pkt_submission_table"}
  BY <1>5 DEF Planned, Value, SlotTime
<1>6. CASE s.name = "TX_FL-tag_mapping_table"
  BY <1>1, <1>6 DEF Planned, Value
<1>7. CASE s.name = "RX_FL-tag_remapping_table"
  BY <1>2, <1>7 DEF Planned, Value
<1> QED
  BY <1>3, <1>4, <1>5, <1>6, <1>7 DEF PlanTableOK

LEMMA TableInForce ==
  ASSUME LocalInv, TypeInv, InPlan, TableStep, NEW name, NextTable(name)
  PROVE  LocalInv'
<1>1. UNCHANGED <<basic, left, imac, plan, done>> /\ TypeInv'
  BY DEF TableStep
<1>2. PICK p \in Places : IsNext(p)
  BY <1>1, NextPlace
<1>3. /\ Places' = Places /\ PortNamed' = PortNamed
      /\ \A q : PortAt(q)' = PortAt(q) /\ Destination(q)' = Destination(q)
      /\ \A q, i : Planned(q, i)' = Planned(q, i)
      /\ \A S : PortOf(S)' = PortOf(S)
      /\ \A S, i : ValueOf(S, i)' = ValueOf(S, i)
      /\ \A nm, i : Settles(nm, i)' = Settles(nm, i)
  BY <1>1, PlacesUnchanged
<1>a. PICK s : \E n \in Chips, k \in Table :
        n = imac /\ s = Head(tables) /\ PlanTableOK(s) /\ Wrote(n, s, k)
  BY DEF TableStep
<1>4. PICK n \in Chips, k \in Table :
        n = imac /\ s = Head(tables) /\ PlanTableOK(s) /\ Wrote(n, s, k)
  BY <1>a
<1>5. s = TableAt(p) /\ n = plan[p[1]].imac /\ Read' = Read \cup {p}
  BY <1>2, <1>4 DEF IsNext
<1> DEFINE d == Place(s, port_id')
<1>6. /\ OnlyTable(n, d, k) /\ \A i \in Sent(d) : k[i] = Value(n, s, hcp_table', i)
      /\ port_id' = NextPort(s, port_id)
      /\ \A u \in HcpTable, i \in Index : hcp_table'[u][i].val = NextValue(s, hcp_table, u, i)
  BY <1>4 DEF Wrote
<1>7. port_id' = PortAt(p) /\ PortOf(PortNamed \cap Read') = PortAt(p)
  BY <1>2, <1>5, <1>6, NextPortIs DEF LocalInv
<1>8. \A t \in HcpTable, i \in Index :
        /\ hcp_table'[t][i].val = MappingAt(HcpName(t), i, p)
        /\ hcp_table'[t][i].val = ValueOf(Settles(HcpName(t), i) \cap Read', i)
  BY <1>2, <1>5, <1>6, NextValueIs DEF LocalInv
<1>9. PortFollows'
  BY <1>3, <1>7 DEF PortFollows
<1>10. MappingFollows'
  BY <1>3, <1>8 DEF MappingFollows, HcpName, HcpTable, MAP, REMAP
<1>11. LocalDone'
  BY <1>1 DEF LocalInv, LocalDone, Position
<1>12. Destination(p) = d /\ PortAt(p) \in Ports
  <2>1. port_id' \in Ports
    BY <1>1 DEF TypeInv, TypeOK
  <2> QED
    BY <1>4, <1>5, <1>7, <2>1, DestinationIs
<1> HIDE DEF d
<1>13. InForce(p)'
  <2>1. ASSUME NEW i \in Sent(d)
        PROVE  chip'[n].table[d][i] = Planned(p, i)
    <3>1. i \in Index
      BY SentIs
    <3>2. Planned(p, i) = Value(n, s, hcp_table', i)
      BY <1>4, <1>5, <1>8, <3>1, PlannedIs
    <3> QED
      BY <1>6, <3>2 DEF OnlyTable, OneTableDiffers
  <2> QED
    BY <1>1, <1>3, <1>5, <1>12, <2>1 DEF InForce
<1>14. ASSUME NEW q \in Read, q # p
       PROVE  PortAt(q) \in Ports /\ InForce(q)'
  <2>1. q \in Places /\ PortAt(q) \in Ports /\ InForce(q)
    BY DEF LocalInv, LocalWritten, Read
  <2> DEFINE m == plan[q[1]].imac
             u == TableAt(q)
             e == Destination(q)
  <2>2. /\ m \in Chips /\ PlanTableOK(u) /\ q[1] \in DOMAIN plan
        /\ q[2] \in DOMAIN plan[q[1]].tables /\ IsPlace(q)
    BY <2>1, PlacesAre
  <2>3. p[1] \in DOMAIN plan /\ p[2] \in DOMAIN plan[p[1]].tables /\ IsPlace(p)
    BY PlacesAre
  <2>4. e = Place(u, PortAt(q)) /\ e \in TableSet
    BY <2>1, <2>2, DestinationIs, PlaceIs
  <2>5. m # n \/ e # d
    <3>1. CASE q[1] # p[1]
      BY <1>5, <2>2, <2>3, <3>1, PlanNamesOnce
    <3>2. CASE q[1] = p[1]
      <4>1. q[2] # p[2]
        BY <1>14, <2>2, <2>3, <3>2 DEF IsPlace
      <4>2. NamesAnother(plan[p[1]].tables[p[2]], plan[q[1]].tables[q[2]])
        BY <2>2, <2>3, <3>2, <4>1, PlanNamesOnce
      <4>3. NamesAnother(s, u)
        BY <1>5, <4>2 DEF TableAt
      <4>4. IsGate(s) /\ s.port_id # None => PortAt(p) = s.port_id
        BY <1>5, OwnPort
      <4>5. IsGate(u) /\ u.port_id # None => PortAt(q) = u.port_id
        BY <2>1, OwnPort
      <4>6. Place(s, PortAt(p)) # Place(u, PortAt(q))
        <5> HIDE DEF u
        <5> QED
          BY <1>4, <2>2, <4>3, <4>4, <4>5, DifferentPlaces
      <4> QED
        BY <1>7, <2>4, <4>6 DEF d
    <3> QED
      BY <3>1, <3>2
  <2>6. chip'[m].table[e] = chip[m].table[e]
    <3> HIDE DEF m, e
    <3> QED
      BY <1>6, <2>2, <2>4, <2>5 DEF OnlyTable, OneTableDiffers
  <2>7. InForce(q)'
    BY <1>1, <1>3, <2>1, <2>6 DEF InForce
  <2> QED
    BY <2>1, <2>7
<1>15. LocalWritten'
  <2>1. ASSUME NEW q \in Read'
        PROVE  PortAt(q)' \in Ports /\ InForce(q)'
    BY <1>3, <1>5, <1>12, <1>13, <1>14
  <2> QED
    BY <2>1 DEF LocalWritten
<1> QED
  BY <1>9, <1>10, <1>11, <1>15 DEF LocalInv

LEMMA LocalStep ==
  ASSUME Typed, LocalInv, [Next]_vars
  PROVE  LocalInv'
<1>1. TypeInv /\ InPlan /\ Modes
  BY DEF Typed
<1>2. CASE LocalCfg
  <2>1. EndPlan => UNCHANGED <<basic, local, plan, done>>
    BY DEF EndPlan, plans
  <2> QED
    BY <1>1, <1>2, <2>1, LocalKinds, TableInForce, OpenInForce, CloseInForce, QuietInForce
<1>3. CASE Confirmed \/ UNCHANGED vars
  <2>1. UNCHANGED <<basic, chip, local, plan, done>>
    BY <1>3 DEF Confirmed, vars, plans
  <2> QED
    BY <1>1, <2>1, SameChips, QuietInForce
<1> DEFINE RemotePackets == \E n \in Chips, p \in Packets, f \in {0, 1, 3} : RemotePacket(n, p, f)
<1>4. CASE FirstPacket \/ RemotePackets \/ WriteRemote \/ FinishRemote
  <2> HIDE DEF RemotePackets
  <2>0. FirstPacket \/ RemotePackets => Listening
    <3>1. FirstPacket => Listening
      BY DEF FirstPacket
    <3>2. RemotePackets => Listening
      BY DEF RemotePackets, RemotePacket
    <3> QED
      BY <3>1, <3>2
  <2>1. UNCHANGED local /\ plan' = plan
    <3>1. FirstPacket => UNCHANGED local /\ plan' = plan
      BY DEF FirstPacket, plans
    <3>2. WriteRemote => UNCHANGED local /\ plan' = plan
      BY DEF WriteRemote, plans
    <3>3. FinishRemote => UNCHANGED local /\ plan' = plan
      BY DEF FinishRemote
    <3>4. RemotePackets => UNCHANGED local /\ plan' = plan
      BY DEF RemotePackets, RemotePacket
    <3> QED
      BY <1>4, <3>1, <3>2, <3>3, <3>4
  <2>2. G_STATE = "REMOTE_PLAN_CFG_S"
    <3>1. WriteRemote => todo # <<>>
      BY DEF WriteRemote
    <3>2. FinishRemote => tail # None
      BY DEF FinishRemote
    <3> QED
      BY <1>1, <1>4, <2>0, <3>1, <3>2 DEF Listening, Modes
  <2>3. plan = <<>>
    BY <1>1, <2>2 DEF Modes
  <2>4. Read = {} /\ Read' = {}
    BY <2>1, <2>3 DEF Read, Places
  <2>5. PortFollows'
    BY <2>1, <2>4 DEF LocalInv, PortFollows, PortOf, local
  <2>6. MappingFollows'
    BY <2>1, <2>4 DEF LocalInv, MappingFollows, ValueOf, local
  <2> QED
    BY <2>1, <2>3, <2>4, <2>5, <2>6 DEF LocalInv, LocalDone, LocalWritten
<1> QED
  BY <1>2, <1>3, <1>4 DEF Next, Controller

(* When parse_offline_plan_node has left a switch, its chip holds, for every
   table of its plan, at every index that is sent, what the plan says: the
   last value the table gives the index, or that of an empty table.  All
   tables are filled in the same variables, cleared to different degrees; what
   that lets through is part of the statement, namely that a gate table that
   names no port goes to the port of the last one that did, and that an entry
   of a mapping table other than the first that is not named is what an
   earlier table of the name made it.  Nothing that is read later changes what
   was written. *)
THEOREM PlanInForce == Spec => []LocalPlanInForce
<1>1. Init /\ Typed => LocalInv
  BY LocalInit DEF Typed
<1>2. Typed /\ LocalInv /\ [Next]_vars => LocalInv'
  BY LocalStep
<1>3. ASSUME Typed, LocalInv
      PROVE  LocalPlanInForce
  <2>1. InPlan
    BY <1>3 DEF Typed
  <2>2. ASSUME NEW p \in Places, plan[p[1]].imac \in done
        PROVE  InForce(p)
    <3>1. p[1] \in DOMAIN plan
      BY <2>1, PlacesAre
    <3>2. p \in Read
      BY <1>3, <2>2, <3>1 DEF LocalInv, LocalDone, Read
    <3> QED
      BY <1>3, <3>2 DEF LocalInv, LocalWritten
  <2> QED
    BY <2>2 DEF LocalPlanInForce
<1> QED
  BY <1>1, <1>2, <1>3, AlwaysTyped, PTL DEF Spec

-----------------------------------------------------------------------------
(* Entries of several packets, one after the other. *)

Joined(a, n, b, m, c) ==
  /\ DOMAIN a = 1 .. n /\ DOMAIN b = 1 .. m /\ DOMAIN c = 1 .. n + m
  /\ \A k \in 1 .. n : c[k] = a[k]
  /\ \A k \in 1 .. m : c[k + n] = b[k]

LEMMA JoinedAt ==
  ASSUME NEW a, NEW n \in Nat, NEW b, NEW m \in Nat, NEW c, Joined(a, n, b, m, c), NEW i
  PROVE  /\ \A k \in At(a, i) : k \in At(c, i)
         /\ \A k \in At(b, i) : k + n \in At(c, i)
         /\ \A k \in At(c, i) : k \in At(a, i) \/ (k > n /\ k - n \in At(b, i))
<1>1. \A k \in 1 .. n : k \in 1 .. n + m
  OBVIOUS
<1>2. \A k \in 1 .. m : k + n \in 1 .. n + m
  OBVIOUS
<1>3. \A k \in At(a, i) : k \in At(c, i)
  BY <1>1 DEF At, Joined
<1>4. \A k \in At(b, i) : k + n \in At(c, i)
  BY <1>2 DEF At, Joined
<1>5. ASSUME NEW k \in At(c, i)
      PROVE  k \in At(a, i) \/ (k > n /\ k - n \in At(b, i))
  <2>1. k \in 1 .. n + m /\ c[k][1] = i
    BY DEF At, Joined
  <2>2. CASE k <= n
    <3>1. k \in 1 .. n
      BY <2>1, <2>2
    <3> QED
      BY <2>1, <3>1 DEF At, Joined
  <2>3. CASE k > n
    <3>1. k - n \in 1 .. m /\ (k - n) + n = k
      BY <2>1, <2>3
    <3>2. c[k] = b[k - n]
      BY <3>1 DEF Joined
    <3> QED
      BY <2>1, <2>3, <3>1, <3>2 DEF At, Joined
  <2> QED
    BY <2>1, <2>2, <2>3
<1> QED
  BY <1>3, <1>4, <1>5

LEMMA JoinedNone ==
  ASSUME NEW a, NEW n \in Nat, NEW b, NEW m \in Nat, NEW c, Joined(a, n, b, m, c), NEW i,
         At(c, i) = {}
  PROVE  At(a, i) = {} /\ At(b, i) = {}
<1>1. /\ \A k \in At(a, i) : k \in At(c, i)
      /\ \A k \in At(b, i) : k + n \in At(c, i)
      /\ \A k \in At(c, i) : k \in At(a, i) \/ (k > n /\ k - n \in At(b, i))
  BY Zenon, JoinedAt
<1> QED
  BY <1>1

LEMMA JoinedLast ==
  ASSUME NEW a, NEW n \in Nat, NEW b, NEW m \in Nat, NEW c, Joined(a, n, b, m, c), NEW i
  PROVE  /\ At(c, i) = {} <=> At(a, i) = {} /\ At(b, i) = {}
         /\ At(b, i) # {} => \A o : LastOf(c, i, o) = LastOf(b, i, o)
         /\ At(b, i) = {} => \A o : LastOf(c, i, o) = LastOf(a, i, o)
<1>1. /\ \A k \in At(a, i) : k \in At(c, i)
      /\ \A k \in At(b, i) : k + n \in At(c, i)
      /\ \A k \in At(c, i) : k \in At(a, i) \/ (k > n /\ k - n \in At(b, i))
  BY Zenon, JoinedAt
<1>2. At(c, i) = {} <=> At(a, i) = {} /\ At(b, i) = {}
  BY <1>1
<1>3. n + m \in Nat /\ DOMAIN a = 1 .. n /\ DOMAIN b = 1 .. m /\ DOMAIN c = 1 .. n + m
  BY DEF Joined
<1>4. ASSUME At(b, i) # {}, NEW o
      PROVE  LastOf(c, i, o) = LastOf(b, i, o)
  <2>1. PICK k \in 1 .. m : Decides(b, i, k)
    BY <1>3, <1>4, LastEntry
  <2>2. At(c, i) # {}
    BY <1>2, <1>4
  <2>3. PICK l \in 1 .. n + m : Decides(c, i, l)
    BY <1>3, <2>2, LastEntry
  <2> USE DEF Decides
  <2>4. k + n \in At(c, i) /\ k + n <= l
    BY <1>1, <2>1, <2>3 DEF IsLast
  <2>5. l - n \in At(b, i)
    <3>1. l \in At(a, i) => l <= n
      BY <1>3 DEF At
    <3> QED
      BY <1>1, <2>3, <2>4, <3>1 DEF IsLast
  <2>6. l - n <= k
    BY <2>1, <2>5 DEF IsLast
  <2>7. l = k + n
    BY <2>4, <2>6
  <2>8. c[l] = b[k]
    BY <2>7 DEF Joined
  <2> QED
    BY <2>1, <2>3, <2>8
<1>5. ASSUME At(b, i) = {}, NEW o
      PROVE  LastOf(c, i, o) = LastOf(a, i, o)
  <2>1. CASE At(a, i) = {}
    BY <1>2, <1>5, <2>1 DEF LastOf
  <2>2. CASE At(a, i) # {}
    <3>1. PICK k \in 1 .. n : Decides(a, i, k)
      BY <1>3, <2>2, LastEntry
    <3>2. At(c, i) # {}
      BY <1>2, <2>2
    <3>3. PICK l \in 1 .. n + m : Decides(c, i, l)
      BY <1>3, <3>2, LastEntry
    <3> USE DEF Decides
    <3>4. l \in At(a, i) /\ k \in At(c, i)
      BY <1>1, <1>5, <3>1, <3>3 DEF IsLast
    <3>5. l <= k /\ k <= l
      BY <3>1, <3>3, <3>4 DEF IsLast
    <3>6. l = k
      BY <3>5
    <3>7. c[l] = a[k]
      BY <3>6 DEF Joined
    <3> QED
      BY <3>1, <3>3, <3>7
  <2> QED
    BY <2>1, <2>2
<1> QED
  BY <1>2, <1>4, <1>5

LEMMA PlainJoined ==
  ASSUME NEW t \in ChipTable, NEW a \in TableEntries(t), NEW b \in TableEntries(t)
  PROVE  /\ Len(a) \in Nat /\ Len(b) \in Nat
         /\ Joined(PlainEntries(t, a), Len(a), PlainEntries(t, b), Len(b), PlainEntries(t, a \o b))
<1>1. \E S : TableEntries(t) = Seq(S)
  BY DEF TableEntries, Routes, Times, Mappings, GateBytes
<1>2. PICK S : TableEntries(t) = Seq(S)
  BY <1>1
<1>3. a \in Seq(S) /\ b \in Seq(S)
  BY <1>2
<1>4. /\ Len(a) \in Nat /\ Len(b) \in Nat /\ DOMAIN a = 1 .. Len(a) /\ DOMAIN b = 1 .. Len(b)
      /\ a \o b \in Seq(S) /\ Len(a \o b) = Len(a) + Len(b)
      /\ \A k \in 1 .. Len(a) + Len(b) : (a \o b)[k] = IF k <= Len(a) THEN a[k] ELSE b[k - Len(a)]
  BY <1>3, ConcatProperties, LenProperties
<1>5. DOMAIN (a \o b) = 1 .. Len(a) + Len(b)
  BY <1>4, LenProperties
<1>6. \A k \in 1 .. Len(a) : k \in 1 .. Len(a) + Len(b) /\ (a \o b)[k] = a[k]
  <2>1. \A k \in 1 .. Len(a) : k \in 1 .. Len(a) + Len(b) /\ k <= Len(a)
    BY <1>4
  <2> QED
    BY <1>4, <2>1
<1>7. \A k \in 1 .. Len(b) : k + Len(a) \in 1 .. Len(a) + Len(b) /\ (a \o b)[k + Len(a)] = b[k]
  <2>1. \A k \in 1 .. Len(b) : /\ k + Len(a) \in 1 .. Len(a) + Len(b) /\ ~ (k + Len(a) <= Len(a))
                               /\ (k + Len(a)) - Len(a) = k
    BY <1>4
  <2> QED
    BY <1>4, <2>1
<1>8. CASE t \in {TIS, TSS}
  <2>1. \A s : PlainEntries(t, s) = TimeEntries(s)
    BY <1>8 DEF PlainEntries
  <2>2. \A s : DOMAIN TimeEntries(s) = DOMAIN s
    BY DEF TimeEntries
  <2>3. \A s : \A k \in DOMAIN s : TimeEntries(s)[k] = <<s[k][1], Time(s[k][2], s[k][3])>>
    BY DEF TimeEntries
  <2> DEFINE c == a \o b
  <2>4. DOMAIN c = 1 .. Len(a) + Len(b)
    BY <1>5
  <2>5. \A k \in 1 .. Len(a) : k \in DOMAIN c /\ c[k] = a[k]
    BY <1>5, <1>6
  <2>6. \A k \in 1 .. Len(b) : k + Len(a) \in DOMAIN c /\ c[k + Len(a)] = b[k]
    BY <1>5, <1>7
  <2> HIDE DEF c
  <2>7. ASSUME NEW k \in 1 .. Len(a)
        PROVE  TimeEntries(c)[k] = TimeEntries(a)[k]
    <3>1. k \in DOMAIN a /\ k \in DOMAIN c /\ c[k] = a[k]
      BY <1>4, <2>5
    <3>2. TimeEntries(c)[k] = <<c[k][1], Time(c[k][2], c[k][3])>>
      BY <2>3, <3>1
    <3>3. TimeEntries(a)[k] = <<a[k][1], Time(a[k][2], a[k][3])>>
      BY <2>3, <3>1
    <3> QED
      BY <3>1, <3>2, <3>3
  <2>8. ASSUME NEW k \in 1 .. Len(b)
        PROVE  TimeEntries(c)[k + Len(a)] = TimeEntries(b)[k]
    <3> DEFINE l == k + Len(a)
    <3>1. k \in DOMAIN b /\ l \in DOMAIN c /\ c[l] = b[k]
      BY <1>4, <2>6
    <3> HIDE DEF l
    <3>2. TimeEntries(c)[l] = <<c[l][1], Time(c[l][2], c[l][3])>>
      BY <2>3, <3>1
    <3>3. TimeEntries(b)[k] = <<b[k][1], Time(b[k][2], b[k][3])>>
      BY <2>3, <3>1
    <3> QED
      BY <3>1, <3>2, <3>3 DEF l
  <2>9. Joined(TimeEntries(a), Len(a), TimeEntries(b), Len(b), TimeEntries(c))
    BY <1>4, <2>2, <2>4, <2>7, <2>8 DEF Joined
  <2> QED
    BY <1>4, <2>1, <2>9 DEF c
<1>9. CASE t \notin {TIS, TSS}
  <2>1. \A s : PlainEntries(t, s) = s
    BY <1>9 DEF PlainEntries
  <2> DEFINE c == a \o b
  <2>2. /\ DOMAIN a = 1 .. Len(a) /\ DOMAIN b = 1 .. Len(b) /\ DOMAIN c = 1 .. Len(a) + Len(b)
        /\ \A k \in 1 .. Len(a) : c[k] = a[k]
        /\ \A k \in 1 .. Len(b) : c[k + Len(a)] = b[k]
    BY <1>4, <1>5, <1>6, <1>7
  <2> HIDE DEF c
  <2>3. Joined(a, Len(a), b, Len(b), c)
    BY <2>2 DEF Joined
  <2> QED
    BY <1>4, <2>1, <2>3 DEF c
<1> QED
  BY <1>8, <1>9

-----------------------------------------------------------------------------
(* A remote plan.  Of the node that was begun, the tables being filled hold all
   that was given; they are written when it is complete, and a node that was
   completed keeps them. *)

Plain(n, t) == PlainEntries(t, given[n][t])
Holds(table, entries) ==
  \A i \in Index : At(entries, i) # {} => table[i] = LastOf(entries, i, 0)
HoldsSent(t, table, entries) ==
  \A i \in Sent(t) : At(entries, i) # {} => table[i] = LastOf(entries, i, 0)
Routed(table, routes, entries) ==
  \A i \in Index : At(routes, i) # {} /\ At(entries, i) = {} => table[i] = LastOf(routes, i, 0)

OneBegun ==
  /\ \A m, n \in Chips : Begun(m) /\ Begun(n) => m = n
  /\ tail # None => tail.imac \notin done /\ \A n \in Chips : Begun(n) => n = tail.imac
FirstSent == send_init_cfg_flag = 1 => given = NothingGiven
Shared ==
  \A n \in Chips : Begun(n) => \A t \in ChipTable : Holds(remote[t], Plain(n, t))
BaseLaid ==
  \A n \in Chips : Begun(n) /\ given[n][FLT] # <<>> =>
    Routed(remote[FLT], init_forward(n), given[n][FLT])
FlagSet ==
  /\ remote_first_cfg_flag = 1 => \A n \in Chips : n \notin done => given[n][FLT] = <<>>
  /\ remote_first_cfg_flag = 0 => \E n \in Chips : n \notin done /\ given[n][FLT] # <<>>
Written ==
  tail # None => \A t \in ChipTable :
    (\A k \in DOMAIN todo : todo[k] # t) => TakenOver(t, remote[t], chip[tail.imac].table[t])
Final ==
  \A n \in Chips : n \in done => \A t \in ChipTable : HoldsSent(t, chip[n].table[t], Plain(n, t))
FinalRoutes ==
  \A n \in Chips : n \in done /\ given[n][FLT] # <<>> =>
    Routed(chip[n].table[FLT], init_forward(n), given[n][FLT])

RemoteInv == /\ OneBegun /\ FirstSent /\ Shared /\ BaseLaid /\ FlagSet
             /\ Written /\ Final /\ FinalRoutes

LEMMA NoneGiven ==
  /\ \A t \in TableSet : NoEntries[t] = <<>>
  /\ \A t, i : At(PlainEntries(t, <<>>), i) = {} /\ At(<<>>, i) = {}
  /\ \A n \in Chips : NothingGiven[n] = NoEntries
<1>1. \A i : At(<<>>, i) = {}
  BY DEF At
<1>2. \A i : At(TimeEntries(<<>>), i) = {}
  BY DEF At, TimeEntries
<1>3. \A t, i : At(PlainEntries(t, <<>>), i) = {}
  BY <1>1, <1>2 DEF PlainEntries
<1> QED
  BY <1>1, <1>3 DEF NoEntries, NothingGiven, TableSet

LEMMA NoneBegun ==
  ASSUME given = NothingGiven
  PROVE  /\ \A n \in Chips : ~ Begun(n) /\ given[n] = NoEntries
         /\ \A n \in Chips, t \in TableSet : given[n][t] = <<>>
BY NoneGiven DEF Begun

LEMMA FlatIsChipTable == FLT \in ChipTable /\ \A t \in ChipTable : t \in TableSet
BY Names DEF TableSet

LEMMA RemoteInit ==
  ASSUME Init
  PROVE  RemoteInv
<1>1. given = NothingGiven /\ tail = None /\ remote_first_cfg_flag = 1 /\ done = {}
  BY DEF Init, NothingGiven
<1>2. /\ \A n \in Chips : ~ Begun(n)
      /\ \A n \in Chips : given[n][FLT] = <<>>
  BY <1>1, NoneBegun, FlatIsChipTable
<1>3. OneBegun /\ FirstSent /\ Shared /\ BaseLaid /\ FlagSet /\ Written /\ Final /\ FinalRoutes
  BY <1>1, <1>2 DEF OneBegun, FirstSent, Shared, BaseLaid, FlagSet, Written, Final, FinalRoutes
<1> QED
  BY <1>3 DEF RemoteInv

(* While no remote plan has come. *)
LEMMA NoRemotePlan ==
  ASSUME RemoteInv, given = NothingGiven, given' = given, tail' = None,
         remote_first_cfg_flag' = remote_first_cfg_flag
  PROVE  RemoteInv'
<1>1. remote_first_cfg_flag # 0 /\ remote_first_cfg_flag' # 0
  <2>1. \A n \in Chips : given[n][FLT] = <<>>
    BY NoneBegun, FlatIsChipTable
  <2> QED
    BY <2>1 DEF RemoteInv, FlagSet
<1>2. \A n \in Chips : given'[n] = NoEntries /\ given'[n][FLT] = <<>>
  BY NoneBegun, FlatIsChipTable
<1>3. \A n \in Chips : ~ Begun(n)'
  BY <1>2 DEF Begun
<1>4. OneBegun' /\ FirstSent' /\ Shared' /\ BaseLaid' /\ FlagSet' /\ Written' /\ FinalRoutes'
  BY <1>1, <1>2, <1>3 DEF OneBegun, FirstSent, Shared, BaseLaid, FlagSet, Written, FinalRoutes,
                         NothingGiven
<1>5. Final'
  <2>1. \A n \in Chips, t \in ChipTable : given'[n][t] = <<>>
    BY NoneBegun, FlatIsChipTable
  <2>2. \A n \in Chips, t \in ChipTable : \A i : At(PlainEntries(t, given'[n][t]), i) = {}
    BY <2>1, NoneGiven
  <2> QED
    BY <2>2 DEF Final, HoldsSent, Plain
<1> QED
  BY <1>4, <1>5 DEF RemoteInv

(* The confirmation of a table. *)
LEMMA QuietRemote ==
  ASSUME RemoteInv, UNCHANGED <<basic, chip, collected, writing, given, done>>
  PROVE  RemoteInv'
<1>1. /\ init_cfg' = init_cfg /\ chip' = chip /\ remote' = remote
      /\ send_init_cfg_flag' = send_init_cfg_flag /\ remote_first_cfg_flag' = remote_first_cfg_flag
      /\ tail' = tail /\ todo' = todo /\ given' = given /\ done' = done
  BY DEF basic, collected, writing
<1>2. \A n \in Chips : Begun(n)' <=> Begun(n)
  BY <1>1 DEF Begun
<1>3. \A n \in Chips : init_forward(n)' = init_forward(n)
  BY <1>1, ForwardUnchanged
<1>4. \A n \in Chips, t \in ChipTable : Plain(n, t)' = Plain(n, t)
  BY <1>1 DEF Plain
<1>5. OneBegun' /\ FirstSent' /\ FlagSet' /\ Written'
  BY <1>1, <1>2 DEF RemoteInv, OneBegun, FirstSent, FlagSet, Written, TakenOver
<1>6. Shared' /\ Final'
  BY <1>1, <1>2, <1>4 DEF RemoteInv, Shared, Final
<1>7. BaseLaid' /\ FinalRoutes'
  BY <1>1, <1>2, <1>3 DEF RemoteInv, BaseLaid, FinalRoutes
<1> QED
  BY <1>5, <1>6, <1>7 DEF RemoteInv

(* What a list of entries leaves in a table that had the ones before. *)
LEMMA HoldsMore ==
  ASSUME NEW t \in ChipTable, NEW a \in TableEntries(t), NEW b \in TableEntries(t),
         NEW base, NEW table, Holds(base, PlainEntries(t, a)),
         \A i \in Index : table[i] = LastOf(PlainEntries(t, b), i, base[i])
  PROVE  Holds(table, PlainEntries(t, a \o b))
<1> DEFINE pa == PlainEntries(t, a)
           pb == PlainEntries(t, b)
           pc == PlainEntries(t, a \o b)
           n == Len(a)
           m == Len(b)
<1>1. n \in Nat /\ m \in Nat /\ Joined(pa, n, pb, m, pc)
  BY PlainJoined
<1>2. \A i \in Index : table[i] = LastOf(pb, i, base[i])
  OBVIOUS
<1>3. \A i \in Index : At(pa, i) # {} => base[i] = LastOf(pa, i, 0)
  BY DEF Holds
<1> HIDE DEF pa, pb, pc, n, m
<1>4. ASSUME NEW i \in Index, At(pc, i) # {}
      PROVE  table[i] = LastOf(pc, i, 0)
  <2>1. /\ At(pc, i) = {} <=> At(pa, i) = {} /\ At(pb, i) = {}
        /\ At(pb, i) # {} => \A o : LastOf(pc, i, o) = LastOf(pb, i, o)
        /\ At(pb, i) = {} => \A o : LastOf(pc, i, o) = LastOf(pa, i, o)
    BY <1>1, JoinedLast
  <2>2. CASE At(pb, i) # {}
    <3>1. LastOf(pb, i, base[i]) = LastOf(pb, i, 0)
      BY <2>2 DEF LastOf
    <3> QED
      BY <1>2, <2>1, <2>2, <3>1
  <2>3. CASE At(pb, i) = {}
    BY <1>2, <1>3, <1>4, <2>1, <2>3, NoEntry
  <2> QED
    BY <2>2, <2>3
<1>5. Holds(table, pc)
  BY <1>4 DEF Holds
<1> QED
  BY <1>5 DEF pc

(* The entries of a forwarding table leave the other routes. *)
LEMMA RoutedMore ==
  ASSUME NEW a \in Routes, NEW b \in Routes, NEW routes, NEW base, NEW table,
         \A i \in Index : At(routes, i) # {} /\ At(a, i) = {} => base[i] = LastOf(routes, i, 0),
         \A i \in Index : table[i] = LastOf(b, i, base[i])
  PROVE  Routed(table, routes, a \o b)
<1>1. a \in TableEntries(FLT) /\ b \in TableEntries(FLT) /\ \A s : PlainEntries(FLT, s) = s
  BY Names DEF TableEntries, PlainEntries
<1> DEFINE c == a \o b
           n == Len(a)
           m == Len(b)
<1>2. n \in Nat /\ m \in Nat /\ Joined(a, n, b, m, c)
  BY <1>1, FlatIsChipTable, PlainJoined
<1> HIDE DEF c, n, m
<1>4. ASSUME NEW i \in Index, At(routes, i) # {}, At(c, i) = {}
      PROVE  table[i] = LastOf(routes, i, 0)
  <2>1. At(a, i) = {} /\ At(b, i) = {}
    BY <1>2, <1>4, JoinedNone
  <2> QED
    BY <1>4, <2>1, NoEntry
<1>5. Routed(table, routes, c)
  BY <1>4 DEF Routed
<1> QED
  BY <1>5 DEF c

(* The node a packet is for is the only one begun afterwards. *)
LEMMA PacketBegins ==
  ASSUME RemoteInv, TypeInv, InPlan, NEW n \in Chips, NEW p \in Packets, NEW f \in {0, 1, 3},
         RemotePacket(n, p, f)
  PROVE  /\ \A m \in Chips : Begun(m) => m = n
         /\ \A m \in Chips : Begun(m)' => m = n
         /\ OneBegun' /\ FirstSent'
<1>1. /\ \A m \in Chips \ {n} : ~ Begun(m)
      /\ done' = done \ {n} /\ tail = None /\ send_init_cfg_flag' = send_init_cfg_flag
      /\ send_init_cfg_flag = 0
  BY DEF RemotePacket, Listening
<1>2. \A m \in Chips \ {n} : given'[m] = given[m]
  BY GivenIs
<1>3. \A m \in Chips \ {n} : ~ Begun(m)'
  BY <1>1, <1>2 DEF Begun
<1>4. tail' = None \/ tail'.imac = n
  <2>1. CASE f \in {1, 3}
    BY <2>1 DEF RemotePacket
  <2>2. CASE f \notin {1, 3}
    BY <1>1, <2>2 DEF RemotePacket, writing
  <2> QED
    BY <2>1, <2>2
<1>5. OneBegun'
  BY <1>1, <1>3, <1>4 DEF OneBegun
<1>6. FirstSent'
  BY <1>1 DEF FirstSent
<1> QED
  BY <1>1, <1>3, <1>5, <1>6

LEMMA BeforeHolds ==
  ASSUME RemoteInv, NEW n \in Chips, NEW t \in ChipTable
  PROVE  /\ Holds(remote[t], PlainEntries(t, Before(n)[t]))
         /\ Holds(Base(n, t), PlainEntries(t, Before(n)[t]))
<1>1. t \in TableSet
  BY FlatIsChipTable
<1>2. CASE Before(n)[t] = <<>>
  BY <1>2, NoneGiven DEF Holds
<1>3. CASE Before(n)[t] # <<>>
  <2>1. n \notin done /\ Before(n) = given[n]
    BY <1>1, <1>3, NoneGiven DEF Before
  <2>2. Begun(n)
    BY <1>1, <1>3, <2>1, NoneGiven DEF Begun
  <2>3. Holds(remote[t], PlainEntries(t, Before(n)[t]))
    BY <2>1, <2>2 DEF RemoteInv, Shared, Plain
  <2>4. Base(n, t) = remote[t]
    <3>1. CASE t = FLT
      <4>1. remote_first_cfg_flag # 1
        BY <1>3, <2>1, <3>1 DEF RemoteInv, FlagSet
      <4> QED
        BY <3>1, <4>1 DEF Base, ForwardBase
    <3>2. CASE t # FLT
      BY <3>2 DEF Base
    <3> QED
      BY <3>1, <3>2
  <2> QED
    BY <2>3, <2>4
<1> QED
  BY <1>2, <1>3

LEMMA PacketShared ==
  ASSUME RemoteInv, TypeInv, InPlan, NEW n \in Chips, NEW p \in Packets, NEW f \in {0, 1, 3},
         RemotePacket(n, p, f)
  PROVE  Shared'
<1>1. /\ \A t \in TableSet : remote'[t] = IF t = p.type THEN Collect(n, p) ELSE remote[t]
  BY PacketTyped DEF PacketStep
<1>2. \A t \in TableSet :
        given'[n][t] = IF p.type = t THEN Before(n)[t] \o p.entries ELSE Before(n)[t]
  BY GivenIs
<1>3. \A m \in Chips : Begun(m)' => m = n
  BY PacketBegins
<1>4. ASSUME NEW t \in ChipTable
      PROVE  Holds(remote'[t], PlainEntries(t, given'[n][t]))
  <2>1. t \in TableSet
    BY FlatIsChipTable
  <2>2. CASE t # p.type
    BY <1>1, <1>2, <2>1, <2>2, BeforeHolds
  <2>3. CASE t = p.type
    <3>1. PICK a \in TableEntries(t) : a = Before(n)[t]
      BY <2>1, BeforeIs
    <3>2. PICK b \in TableEntries(t) : b = p.entries
      BY <2>1, <2>3, PacketIs
    <3>3. PICK base : base = Base(n, t)
      OBVIOUS
    <3>4. Holds(base, PlainEntries(t, a))
      BY <3>1, <3>3, BeforeHolds
    <3>5. PICK table : table = remote'[t]
      OBVIOUS
    <3>6. \A i \in Index : table[i] = LastOf(PlainEntries(t, b), i, base[i])
      <4>1. init_cfg \in Seq(InitNode) /\ \A u \in TableSet : remote[u] \in RemoteTable(u)
        BY DEF TypeInv, Contents
      <4>2. \A i \in Index :
              Collect(n, p)[i] = LastOf(PlainEntries(p.type, p.entries), i, Base(n, p.type)[i])
        BY <2>1, <2>3, <4>1, CollectIs
      <4>3. table = Collect(n, p)
        BY <1>1, <2>1, <2>3, <3>5
      <4> QED
        BY <2>3, <3>2, <3>3, <4>2, <4>3
    <3>7. Holds(table, PlainEntries(t, a \o b))
      BY <3>4, <3>6, HoldsMore
    <3>8. given'[n][t] = a \o b
      BY <1>2, <2>1, <2>3, <3>1, <3>2
    <3> QED
      BY <3>5, <3>7, <3>8
  <2> QED
    BY <2>2, <2>3
<1> QED
  BY <1>3, <1>4 DEF Shared, Plain

LEMMA PacketRouted ==
  ASSUME RemoteInv, TypeInv, InPlan, NEW n \in Chips, NEW p \in Packets, NEW f \in {0, 1, 3},
         RemotePacket(n, p, f)
  PROVE  BaseLaid'
<1>1. /\ \A t \in TableSet : remote'[t] = IF t = p.type THEN Collect(n, p) ELSE remote[t]
  BY PacketTyped DEF PacketStep
<1>2. \A t \in TableSet :
        given'[n][t] = IF p.type = t THEN Before(n)[t] \o p.entries ELSE Before(n)[t]
  BY GivenIs
<1>3. /\ \A m \in Chips : Begun(m)' => m = n
      /\ \A m \in Chips : Begun(m) => m = n
  BY PacketBegins
<1>4. init_forward(n)' = init_forward(n)
  <2>1. init_cfg' = init_cfg
    BY DEF RemotePacket, basic
  <2> QED
    BY <2>1, ForwardUnchanged
<1>5. FLT \in TableSet
  BY FlatIsChipTable
<1>6. init_cfg \in Seq(InitNode) /\ \A u \in TableSet : remote[u] \in RemoteTable(u)
  BY DEF TypeInv, Contents
<1>7. Before(n)[FLT] # <<>> => Begun(n) /\ Before(n) = given[n]
  BY <1>5, NoneGiven DEF Before, Begun
<1>8. Before(n)[FLT] # <<>> => Routed(remote[FLT], init_forward(n), Before(n)[FLT])
  BY <1>7 DEF RemoteInv, BaseLaid
<1>9. ASSUME given'[n][FLT] # <<>>
      PROVE  Routed(remote'[FLT], init_forward(n), given'[n][FLT])
  <2>1. CASE p.type # FLT
    BY <1>1, <1>2, <1>5, <1>8, <1>9, <2>1
  <2>2. CASE p.type = FLT
    <3>1. PICK a \in Routes : a = Before(n)[FLT]
      BY <1>5, BeforeIs DEF TableEntries
    <3>2. PICK b \in Routes : b = p.entries
      BY <1>5, <2>2, PacketIs DEF TableEntries
    <3>3. PICK base : base = ForwardBase(n)
      OBVIOUS
    <3>4. PICK routes : routes = init_forward(n)
      OBVIOUS
    <3>5. PICK table : table = remote'[FLT]
      OBVIOUS
    <3>6. remote[FLT] \in [Index -> AnyWord]
      BY <1>5, <1>6, Names DEF RemoteTable
    <3>7. /\ remote_first_cfg_flag # 1 => base = remote[FLT]
          /\ remote_first_cfg_flag = 1 =>
               \A i \in Index : base[i] = LastOf(routes, i, remote[FLT][i])
      BY <1>6, <3>3, <3>4, <3>6, ForwardBaseIs
    <3>8. \A i \in Index : At(routes, i) # {} /\ At(a, i) = {} => base[i] = LastOf(routes, i, 0)
      <4>1. CASE remote_first_cfg_flag = 1
        <5>1. \A i \in Index : At(routes, i) # {} =>
                LastOf(routes, i, remote[FLT][i]) = LastOf(routes, i, 0)
          BY DEF LastOf
        <5> QED
          BY <3>7, <4>1, <5>1
      <4>2. CASE remote_first_cfg_flag # 1
        <5>1. remote_first_cfg_flag = 0
          BY <4>2 DEF TypeInv, TypeOK
        <5>2. PICK m \in Chips : m \notin done /\ given[m][FLT] # <<>>
          BY <5>1 DEF RemoteInv, FlagSet
        <5>3. Begun(m)
          BY <1>5, <5>2, NoneGiven DEF Begun
        <5>4. m = n
          BY <1>3, <5>3
        <5>5. Before(n)[FLT] # <<>>
          BY <5>2, <5>4 DEF Before
        <5>6. Routed(remote[FLT], routes, a)
          BY <1>8, <3>1, <3>4, <5>5
        <5> QED
          BY <3>7, <4>2, <5>6 DEF Routed
      <4> QED
        BY <4>1, <4>2
    <3>9. \A i \in Index : table[i] = LastOf(b, i, base[i])
      <4>1. \A i \in Index :
              Collect(n, p)[i] = LastOf(PlainEntries(p.type, p.entries), i, Base(n, p.type)[i])
        BY <1>5, <1>6, <2>2, FlatIsChipTable, CollectIs
      <4>2. PlainEntries(FLT, b) = b /\ Base(n, FLT) = base
        BY <3>3, Names DEF PlainEntries, Base
      <4>3. table = Collect(n, p)
        BY <1>1, <1>5, <2>2, <3>5
      <4> QED
        BY <2>2, <3>2, <4>1, <4>2, <4>3
    <3>10. Routed(table, routes, a \o b)
      BY <3>8, <3>9, RoutedMore
    <3>11. given'[n][FLT] = a \o b
      BY <1>2, <1>5, <2>2, <3>1, <3>2
    <3> QED
      BY <3>4, <3>5, <3>10, <3>11
  <2> QED
    BY <2>1, <2>2
<1> QED
  BY <1>3, <1>4, <1>9 DEF BaseLaid

LEMMA PacketRest ==
  ASSUME RemoteInv, TypeInv, InPlan, NEW n \in Chips, NEW p \in Packets, NEW f \in {0, 1, 3},
         RemotePacket(n, p, f)
  PROVE  FlagSet' /\ Written' /\ Final' /\ FinalRoutes'
<1>1. /\ \A t \in TableSet :
           given'[n][t] = IF p.type = t THEN Before(n)[t] \o p.entries ELSE Before(n)[t]
      /\ \A m \in Chips \ {n} : given'[m] = given[m]
  BY GivenIs
<1>2. done' = done \ {n}
  BY DEF RemotePacket
<1>3. \A m \in Chips : Begun(m) => m = n
  BY PacketBegins
<1>4. FLT \in TableSet
  BY FlatIsChipTable
<1>5. remote_first_cfg_flag' = IF p.type = FLT THEN 0 ELSE remote_first_cfg_flag
  <2>1. CASE p.type = REG
    BY <1>4, <2>1, Names DEF RemotePacket
  <2>2. CASE p.type # REG
    BY <2>2 DEF RemotePacket
  <2> QED
    BY <2>1, <2>2
<1>6. FlagSet'
  <2>1. CASE p.type = FLT
    <3>1. p.entries # <<>> /\ p.entries \in Routes
      BY <1>4, <2>1, PacketIs DEF TableEntries
    <3>2. Before(n)[FLT] \in Routes
      BY <1>4, BeforeIs DEF TableEntries
    <3>3. PICK a \in Routes, b \in Routes : a = Before(n)[FLT] /\ b = p.entries /\ b # <<>>
      BY <3>1, <3>2
    <3>4. a \o b # <<>>
      <4>1. PICK S : Routes = Seq(S)
        BY DEF Routes
      <4>2. a \in Seq(S) /\ b \in Seq(S)
        BY <4>1
      <4>3. Len(a \o b) = Len(a) + Len(b) /\ Len(a) \in Nat /\ Len(b) \in Nat /\ Len(b) # 0
        BY <3>3, <4>2, ConcatProperties, LenProperties, EmptySeq
      <4>4. Len(a \o b) # 0
        BY <4>3
      <4> QED
        BY <4>4
    <3>5. given'[n][FLT] # <<>>
      BY <1>1, <1>4, <2>1, <3>3, <3>4
    <3> QED
      BY <1>2, <1>5, <2>1, <3>5 DEF FlagSet
  <2>2. CASE p.type # FLT
    <3>1. remote_first_cfg_flag' = remote_first_cfg_flag /\ given'[n][FLT] = Before(n)[FLT]
      BY <1>1, <1>4, <1>5, <2>2
    <3>2. ASSUME remote_first_cfg_flag = 1, NEW m \in Chips, m \notin done'
          PROVE  given'[m][FLT] = <<>>
      <4>1. CASE m # n
        BY <1>1, <1>2, <3>2, <4>1 DEF RemoteInv, FlagSet
      <4>2. CASE m = n
        BY <1>4, <3>1, <3>2, <4>2, NoneGiven DEF Before, RemoteInv, FlagSet
      <4> QED
        BY <4>1, <4>2
    <3>3. ASSUME remote_first_cfg_flag = 0
          PROVE  \E m \in Chips : m \notin done' /\ given'[m][FLT] # <<>>
      <4>1. PICK m \in Chips : m \notin done /\ given[m][FLT] # <<>>
        BY <3>3 DEF RemoteInv, FlagSet
      <4>2. m = n
        BY <1>3, <1>4, <4>1, NoneGiven DEF Begun
      <4>3. given'[n][FLT] # <<>> /\ n \notin done'
        BY <1>2, <3>1, <4>1, <4>2 DEF Before
      <4> QED
        BY <4>3
    <3> QED
      BY <3>1, <3>2, <3>3 DEF FlagSet
  <2> QED
    BY <2>1, <2>2
<1>7. Written'
  <2>1. CASE f \in {1, 3}
    <3>1. todo' = AllTables
      BY <2>1 DEF RemotePacket
    <3>2. \A t \in ChipTable : \E k \in DOMAIN todo' : todo'[k] = t
      BY <3>1, AllTablesIs
    <3> QED
      BY <3>2 DEF Written
  <2>2. CASE f \notin {1, 3}
    <3>1. tail' = None
      BY <2>2 DEF RemotePacket, Listening, writing
    <3> QED
      BY <3>1 DEF Written
  <2> QED
    BY <2>1, <2>2
<1>8. \A m \in Chips : chip'[m].table = chip[m].table
  BY PacketTyped DEF PacketStep
<1>9. \A m \in Chips : m \in done' => m \in done /\ given'[m] = given[m]
  BY <1>1, <1>2
<1>10. Final'
  BY <1>8, <1>9 DEF RemoteInv, Final, Plain
<1>11. FinalRoutes'
  <2>1. init_cfg' = init_cfg
    BY DEF RemotePacket, basic
  <2>2. \A m \in Chips : init_forward(m)' = init_forward(m)
    BY <2>1, ForwardUnchanged
  <2> QED
    BY <1>8, <1>9, <2>2 DEF RemoteInv, FinalRoutes
<1> QED
  BY <1>6, <1>7, <1>10, <1>11

LEMMA WriteKeeps ==
  ASSUME RemoteInv, TypeInv, InPlan, Modes, WriteRemote
  PROVE  RemoteInv'
<1>1. UNCHANGED <<basic, collected, tail, given, done>> /\ todo # <<>> /\ todo' = Tail(todo)
  BY DEF WriteRemote, plans
<1>2. /\ init_cfg' = init_cfg /\ remote' = remote
      /\ send_init_cfg_flag' = send_init_cfg_flag /\ remote_first_cfg_flag' = remote_first_cfg_flag
      /\ tail' = tail /\ given' = given /\ done' = done
  BY <1>1 DEF basic, collected
<1>3. PICK n \in Chips, t \in ChipTable, k \in Table :
        n = tail.imac /\ t = Head(todo) /\ OnlyTable(n, t, k) /\ TakenOver(t, remote[t], k)
  BY WriteTyped DEF WriteStep
<1>4. /\ chip'[n].table[t] = k
      /\ \A m \in Chips, u \in TableSet : m # n \/ u # t => chip'[m].table[u] = chip[m].table[u]
  BY <1>3 DEF OnlyTable, OneTableDiffers
<1>5. tail # None /\ n \notin done
  BY <1>1, <1>3 DEF Modes, RemoteInv, OneBegun
<1>6. \A m \in Chips : Begun(m)' <=> Begun(m)
  BY <1>2 DEF Begun
<1>7. \A m \in Chips : init_forward(m)' = init_forward(m)
  BY <1>2, ForwardUnchanged
<1>8. \A m \in Chips, u \in ChipTable : Plain(m, u)' = Plain(m, u)
  BY <1>2 DEF Plain
<1>9. OneBegun' /\ FirstSent' /\ FlagSet'
  BY <1>2, <1>6 DEF RemoteInv, OneBegun, FirstSent, FlagSet
<1>10. Shared'
  BY <1>2, <1>6, <1>8 DEF RemoteInv, Shared
<1>11. BaseLaid'
  BY <1>2, <1>6, <1>7 DEF RemoteInv, BaseLaid
<1>12. \A m \in Chips, u \in ChipTable : m \in done => chip'[m].table[u] = chip[m].table[u]
  BY <1>4, <1>5, FlatIsChipTable
<1>13. Final'
  BY <1>2, <1>8, <1>12 DEF RemoteInv, Final
<1>14. FinalRoutes'
  BY <1>2, <1>7, <1>12, FlatIsChipTable DEF RemoteInv, FinalRoutes
<1>15. Written'
  <2>1. ASSUME NEW u \in ChipTable, \A l \in DOMAIN todo' : todo'[l] # u
        PROVE  TakenOver(u, remote[u], chip'[n].table[u])
    <3>1. CASE u = t
      BY <1>3, <1>4, <3>1
    <3>2. CASE u # t
      <4>1. \A l \in DOMAIN todo : todo[l] # u
        <5> PICK S : todo \in Seq(S)
          BY DEF TypeInv, Contents
        <5>1. PICK s \in Seq(S) : s = todo
          OBVIOUS
        <5>2. s # <<>> /\ t = Head(s) /\ \A l \in DOMAIN Tail(s) : Tail(s)[l] # u
          BY <1>1, <1>3, <2>1, <5>1
        <5>3. \A j \in DOMAIN s : s[j] # u
          <6>1. ASSUME NEW j \in DOMAIN s
                PROVE  s[j] = Head(s) \/ \E l \in DOMAIN Tail(s) : s[j] = Tail(s)[l]
            <7>1. s[j] \in Elements(s)
              BY DEF Elements
            <7>2. Elements(s) = Elements(Tail(s)) \cup {Head(s)}
              BY <5>2, TailElements
            <7> QED
              BY <7>1, <7>2 DEF Elements
          <6> QED
            BY <3>2, <5>2, <6>1
        <5> QED
          BY <5>1, <5>3
      <4>2. TakenOver(u, remote[u], chip[n].table[u])
        BY <1>3, <1>5, <4>1 DEF RemoteInv, Written
      <4> QED
        BY <1>4, <3>2, <4>2, FlatIsChipTable
    <3> QED
      BY <3>1, <3>2
  <2> QED
    BY <1>2, <1>3, <2>1 DEF Written, TakenOver
<1> QED
  BY <1>9, <1>10, <1>11, <1>13, <1>14, <1>15 DEF RemoteInv

(* Values that fit into what a chip keeps. *)
LEMMA KeptHolds ==
  ASSUME NEW t \in ChipTable, NEW table \in [Index -> AnyWord], NEW entries \in TableEntries(t),
         Holds(table, PlainEntries(t, entries)), NEW k, TakenOver(t, table, k)
  PROVE  HoldsSent(t, k, PlainEntries(t, entries))
<1> DEFINE plain == PlainEntries(t, entries)
           n == Len(entries)
<1>1. n \in Nat /\ EntriesIn(plain, n, Below(Width(t)))
  BY PlainIn
<1>2. \A i \in Index : At(plain, i) # {} => table[i] = LastOf(plain, i, 0)
  BY DEF Holds
<1> HIDE DEF plain, n
<1>3. ASSUME NEW i \in Sent(t), At(plain, i) # {}
      PROVE  k[i] = LastOf(plain, i, 0)
  <2>1. i \in Index /\ table[i] = LastOf(plain, i, 0)
    BY <1>2, <1>3, SentIs
  <2>2. table[i] \in Below(Width(t)) /\ table[i] \in AnyWord
    BY <1>1, <1>3, <2>1, LastOfIn
  <2>3. table[i] % Width(t) = table[i]
    BY <2>2, ModuloWidth
  <2> QED
    BY <2>1, <2>3 DEF TakenOver
<1>4. HoldsSent(t, k, plain)
  BY <1>3 DEF HoldsSent
<1> QED
  BY <1>4 DEF plain

LEMMA KeptRouted ==
  ASSUME NEW table \in [Index -> AnyWord], NEW routes \in Routes, NEW entries,
         Routed(table, routes, entries), NEW k, TakenOver(FLT, table, k)
  PROVE  Routed(k, routes, entries)
<1> DEFINE n == Len(routes)
<1>1. n \in Nat /\ EntriesIn(routes, n, Below(512))
  BY PairsIn DEF Routes
<1> HIDE DEF n
<1>2. ASSUME NEW i \in Index, At(routes, i) # {}, At(entries, i) = {}
      PROVE  k[i] = LastOf(routes, i, 0)
  <2>1. table[i] = LastOf(routes, i, 0) /\ table[i] \in AnyWord
    BY <1>2 DEF Routed
  <2>2. table[i] \in Below(Width(FLT))
    BY <1>1, <1>2, <2>1, LastOfIn, WidthIs
  <2>3. table[i] % Width(FLT) = table[i]
    BY <2>1, <2>2, ModuloWidth, FlatIsChipTable
  <2> QED
    BY <2>1, <2>3, SentIs DEF TakenOver
<1> QED
  BY <1>2 DEF Routed

LEMMA FinishKeeps ==
  ASSUME RemoteInv, TypeInv, InPlan, FinishRemote
  PROVE  RemoteInv'
<1>1. /\ tail # None /\ todo = <<>> /\ tail' = None /\ remote_first_cfg_flag' = 1
      /\ done' = done \cup {tail.imac}
      /\ UNCHANGED <<basic, remote, send_init_cfg_flag, given>>
  BY DEF FinishRemote, NextFirst
<1>2. PICK n \in Chips : n = tail.imac
  BY <1>1 DEF TypeInv, TypeOK
<1>3. /\ init_cfg' = init_cfg /\ remote' = remote /\ send_init_cfg_flag' = send_init_cfg_flag
      /\ given' = given /\ done' = done \cup {n}
  BY <1>1, <1>2 DEF basic
<1>4. \A m \in Chips, t \in ChipTable : chip'[m].table[t] = chip[m].table[t]
  BY FinishTyped DEF FinishStep
<1>5. \A m \in Chips : Begun(m) => m = n
  BY <1>1, <1>2 DEF RemoteInv, OneBegun
<1>6. \A m \in Chips : ~ Begun(m)'
  BY <1>3, <1>5 DEF Begun
<1>7. n \notin done
  BY <1>1, <1>2 DEF RemoteInv, OneBegun
<1>8. \A m \in Chips : init_forward(m)' = init_forward(m)
  BY <1>3, ForwardUnchanged
<1>9. \A m \in Chips, u \in ChipTable : Plain(m, u)' = Plain(m, u)
  BY <1>3 DEF Plain
<1>10. OneBegun' /\ Shared' /\ BaseLaid' /\ Written'
  BY <1>1, <1>6 DEF OneBegun, Shared, BaseLaid, Written
<1>11. FirstSent'
  BY <1>3 DEF RemoteInv, FirstSent
<1>12. \A m \in Chips : m \notin done /\ m # n => given[m] = NoEntries
  BY <1>5 DEF Begun
<1>13. FlagSet'
  <2>1. \A m \in Chips : m \notin done' => given'[m][FLT] = <<>>
    BY <1>3, <1>12, FlatIsChipTable, NoneGiven
  <2> QED
    BY <1>1, <2>1 DEF FlagSet
<1>14. /\ \A t \in ChipTable : TakenOver(t, remote[t], chip[n].table[t])
       /\ \A t \in ChipTable : remote[t] \in [Index -> AnyWord]
       /\ \A t \in ChipTable : given[n][t] \in TableEntries(t)
  <2>1. \A t \in ChipTable : TakenOver(t, remote[t], chip[n].table[t])
    BY <1>1, <1>2 DEF RemoteInv, Written
  <2>2. \A t \in ChipTable : remote[t] \in [Index -> AnyWord]
    BY Names, FlatIsChipTable DEF TypeInv, Contents, RemoteTable
  <2>3. \A t \in ChipTable : given[n][t] \in TableEntries(t)
    BY FlatIsChipTable DEF TypeInv, Contents
  <2> QED
    BY <2>1, <2>2, <2>3
<1>15. Final'
  <2>1. ASSUME NEW t \in ChipTable
        PROVE  HoldsSent(t, chip'[n].table[t], Plain(n, t))
    <3>1. Before(n) = given[n]
      BY <1>7 DEF Before
    <3>2. Holds(remote[t], PlainEntries(t, given[n][t]))
      BY <3>1, BeforeHolds
    <3>3. PICK table \in [Index -> AnyWord] : table = remote[t]
      BY <1>14
    <3>4. PICK entries \in TableEntries(t) : entries = given[n][t]
      BY <1>14
    <3>5. TakenOver(t, table, chip[n].table[t])
      BY <1>14, <3>3
    <3>6. HoldsSent(t, chip[n].table[t], PlainEntries(t, entries))
      BY <3>2, <3>3, <3>4, <3>5, KeptHolds
    <3> QED
      BY <1>4, <3>4, <3>6 DEF Plain
  <2>2. ASSUME NEW m \in Chips, m \in done', NEW t \in ChipTable
        PROVE  HoldsSent(t, chip'[m].table[t], Plain(m, t))
    <3>1. CASE m = n
      BY <2>1, <3>1
    <3>2. CASE m # n
      BY <1>3, <1>4, <2>2, <3>2 DEF RemoteInv, Final
    <3> QED
      BY <3>1, <3>2
  <2> QED
    BY <1>9, <2>2 DEF Final
<1>16. FinalRoutes'
  <2>1. ASSUME given[n][FLT] # <<>>
        PROVE  Routed(chip'[n].table[FLT], init_forward(n), given[n][FLT])
    <3>1. Begun(n)
      BY <1>7, <2>1, FlatIsChipTable, NoneGiven DEF Begun
    <3>2. Routed(remote[FLT], init_forward(n), given[n][FLT])
      BY <2>1, <3>1 DEF RemoteInv, BaseLaid
    <3>3. PICK table \in [Index -> AnyWord] : table = remote[FLT]
      BY <1>14, FlatIsChipTable
    <3>4. PICK routes \in Routes : routes = init_forward(n)
      BY ForwardIsRoutes DEF TypeInv, Contents
    <3>5. TakenOver(FLT, table, chip[n].table[FLT])
      BY <1>14, <3>3, FlatIsChipTable
    <3>6. Routed(chip[n].table[FLT], routes, given[n][FLT])
      BY <3>2, <3>3, <3>4, <3>5, KeptRouted
    <3> QED
      BY <1>4, <3>4, <3>6, FlatIsChipTable
  <2>2. ASSUME NEW m \in Chips, m \in done', given[m][FLT] # <<>>
        PROVE  Routed(chip'[m].table[FLT], init_forward(m), given[m][FLT])
    <3>1. CASE m = n
      BY <2>1, <2>2, <3>1
    <3>2. CASE m # n
      BY <1>3, <1>4, <2>2, <3>2, FlatIsChipTable DEF RemoteInv, FinalRoutes
    <3> QED
      BY <3>1, <3>2
  <2> QED
    BY <1>3, <1>8, <2>2 DEF FinalRoutes
<1> QED
  BY <1>10, <1>11, <1>13, <1>15, <1>16 DEF RemoteInv

LEMMA RemoteStep ==
  ASSUME Typed, RemoteInv, [Next]_vars
  PROVE  RemoteInv'
<1>1. TypeInv /\ InPlan /\ Modes /\ Modes'
  BY ModesStep DEF Typed
<1>2. CASE LocalCfg
  <2>1. G_STATE = "LOCAL_PLAN_CFG_S" /\ UNCHANGED <<collected, writing, given>>
    BY <1>2, LocalMode
  <2>2. given = NothingGiven /\ given' = given /\ tail' = None
        /\ remote_first_cfg_flag' = remote_first_cfg_flag
    BY <1>1, <2>1 DEF Modes, collected, writing
  <2> QED
    BY <2>2, NoRemotePlan
<1>3. CASE Confirmed \/ UNCHANGED vars
  <2>1. UNCHANGED <<basic, chip, collected, writing, given, done>>
    BY <1>3 DEF Confirmed, vars, plans
  <2> QED
    BY <2>1, QuietRemote
<1>4. CASE FirstPacket
  <2>1. given = NothingGiven
    BY <1>4 DEF FirstPacket, RemoteInv, FirstSent
  <2>2. given' = given /\ tail' = None /\ remote_first_cfg_flag' = remote_first_cfg_flag
    BY <1>4 DEF FirstPacket, Listening, writing, plans
  <2> QED
    BY <2>1, <2>2, NoRemotePlan
<1>5. CASE \E n \in Chips, p \in Packets, f \in {0, 1, 3} : RemotePacket(n, p, f)
  <2>1. PICK n \in Chips, p \in Packets, f \in {0, 1, 3} : RemotePacket(n, p, f)
    BY <1>5
  <2>2. OneBegun' /\ FirstSent'
    BY <1>1, <2>1, PacketBegins
  <2>3. Shared'
    BY <1>1, <2>1, PacketShared
  <2>4. BaseLaid'
    BY <1>1, <2>1, PacketRouted
  <2>5. FlagSet' /\ Written' /\ Final' /\ FinalRoutes'
    BY <1>1, <2>1, PacketRest
  <2> QED
    BY <2>2, <2>3, <2>4, <2>5 DEF RemoteInv
<1>6. CASE WriteRemote
  BY <1>1, <1>6, WriteKeeps
<1>7. CASE FinishRemote
  BY <1>1, <1>7, FinishKeeps
<1> QED
  BY <1>2, <1>3, <1>4, <1>5, <1>6, <1>7 DEF Next, Controller

LEMMA AlwaysRemote == Spec => [](Typed /\ RemoteInv)
<1>1. Init => Typed /\ RemoteInv
  BY TypedInit, RemoteInit
<1>2. Typed /\ RemoteInv /\ [Next]_vars => (Typed /\ RemoteInv)'
  BY TypedStep, RemoteStep
<1> QED
  BY <1>1, <1>2, PTL DEF Spec

(* When the planner is told that a node is complete, its chip holds, of every
   chip table, the last value any packet gave an entry that is sent:
   parse_forward_info and the others collect all packets of the node in the
   globals, cfg_chip_table writes each table once, and no later node's packets
   reach this chip. *)
THEOREM RemoteInForce == Spec => []RemoteEntriesInForce
<1>1. ASSUME Typed, RemoteInv
      PROVE  RemoteEntriesInForce
  <2>1. done \subseteq Chips
    BY <1>1 DEF Typed, TypeInv, TypeOK
  <2>2. ASSUME NEW n \in done, NEW t \in ChipTable, NEW k \in DOMAIN Plain(n, t),
               Plain(n, t)[k][1] \in Sent(t)
        PROVE  chip[n].table[t][Plain(n, t)[k][1]] = LastOf(Plain(n, t), Plain(n, t)[k][1], 0)
    <3>1. HoldsSent(t, chip[n].table[t], Plain(n, t))
      BY <1>1, <2>1 DEF RemoteInv, Final
    <3>2. k \in At(Plain(n, t), Plain(n, t)[k][1])
      BY DEF At
    <3> QED
      BY <2>2, <3>1, <3>2 DEF HoldsSent
  <2> QED
    BY <2>2 DEF RemoteEntriesInForce, Plain, PlainEntries
<1> QED
  BY <1>1, AlwaysRemote, PTL

(* A node with forwarding entries in its plan keeps the routes of the initial
   configuration for the flows the plan does not name, from whatever nodes and
   packets the table was filled before: remote_first_cfg_flag makes the first
   forwarding packet of a node, and only this, lay them. *)
THEOREM RoutesKept == Spec => []BasicRoutesKept
<1>1. ASSUME Typed, RemoteInv
      PROVE  BasicRoutesKept
  <2>1. done \subseteq Chips
    BY <1>1 DEF Typed, TypeInv, TypeOK
  <2> QED
    BY <1>1, <2>1 DEF BasicRoutesKept, RemoteInv, FinalRoutes, Routed
<1> QED
  BY <1>1, AlwaysRemote, PTL

=============================================================================
