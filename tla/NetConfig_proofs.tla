--------------------------- MODULE NetConfig_proofs ---------------------------
(***************************************************************************)
(* Proofs about NetConfig, for any number of nodes, entries and blocks.    *)
(***************************************************************************)
EXTENDS NetConfig, Lemmas, TLAPS

(* The inductive invariant of BasicInPlace.  A beacon is a snapshot, and a
   chip's tables only grow. *)
Snapshots ==
  \A i \in DOMAIN up :
    /\ up[i].chip.tables \subseteq chip[up[i].imac].tables
    /\ up[i].chip.regs => chip[up[i].imac].regs

(* Which nodes may show an entry while the basic configuration is written:
   the earlier ones show their single registers, the later ones are silent. *)
InitPhase == G_STATE \in {"INIT_S", "BASIC_CFG_S"}
Shows(w) == w.reg = "REPORT_TYPE" /\ w.val # CHIP_REG_REPORT
Earlier ==
  InitPhase => \A n \in Nodes : n < node_idx =>
    /\ chip[n].report_type = CHIP_REG_REPORT
    /\ \A i \in DOMAIN up : up[i].imac = n => up[i].chip.report_type = CHIP_REG_REPORT
    /\ \A i \in DOMAIN down[n] : ~Shows(down[n][i])
Later ==
  InitPhase => \A n \in Nodes : n > node_idx =>
    /\ chip[n].report_type = CHIP_REG_REPORT /\ ~chip[n].addressed
    /\ \A i \in DOMAIN up : up[i].imac # n
    /\ down[n] = <<>>

(* The node that is being configured, before its last entry is confirmed: once
   it shows the entry awaited, nothing is on its way to it any more. *)
Entering ==
  InitPhase /\ waiting \in Basic =>
    /\ 1 .. waiting - 1 \subseteq chip[node_idx].tables
    /\ chip[node_idx].report_type <= waiting
    /\ chip[node_idx].report_type = waiting => down[node_idx] = <<>>
    /\ \A i \in DOMAIN down[node_idx] : Shows(down[node_idx][i]) =>
         down[node_idx][i].val = waiting /\ i = Len(down[node_idx])
    /\ \A i \in DOMAIN up : up[i].imac = node_idx =>
         /\ up[i].chip.report_type <= waiting
         /\ up[i].chip.report_type = waiting =>
              /\ chip[node_idx].report_type = waiting
              /\ \A j \in DOMAIN up : j > i /\ up[j].imac = node_idx =>
                   up[j].chip.report_type = waiting

(* And after it: once it shows its single registers it goes on to. *)
Entered ==
  InitPhase /\ waiting \notin Basic =>
    /\ Basic \subseteq chip[node_idx].tables
    /\ \A i \in DOMAIN down[node_idx] : ~Shows(down[node_idx][i])
    /\ \A i \in DOMAIN up :
         up[i].imac = node_idx /\ up[i].chip.report_type = CHIP_REG_REPORT =>
           /\ chip[node_idx].report_type = CHIP_REG_REPORT
           /\ \A j \in DOMAIN up : j > i /\ up[j].imac = node_idx =>
                up[j].chip.report_type = CHIP_REG_REPORT

IInv ==
  SystemTypeOK /\ Snapshots /\ Earlier /\ Later /\ Entering /\ Entered /\ BasicInPlace

(* The inductive invariant of QuietWhenDone: nothing on its way to a node that
   was silenced, or is being silenced, makes it report again. *)
Enables(w) == w = W("REPORT_EN", 1) \/ w.reg = "REGS"
Quiet(n) ==
  \/ chip[n].report_enable = 0 /\ \A i \in DOMAIN down[n] : ~Enables(down[n][i])
  \/ \E i \in DOMAIN down[n] :
       /\ down[n][i] = W("REPORT_EN", 0)
       /\ \A j \in DOMAIN down[n] : j > i => ~Enables(down[n][j])
StaysQuiet == /\ \A n \in Nodes : Between(n) => Quiet(n)
              /\ G_STATE = "INIT_S" => node_idx = 0
QuietInv == SystemTypeOK /\ StaysQuiet

-----------------------------------------------------------------------------

LEMMA Numbers ==
  /\ cur_node_num \in Nat \ {0} /\ Entries \in Nat /\ Blocks \in Nat \ {0}
  /\ 0 \in Nodes
  /\ \A k \in Basic : k \in Nat \ {0} /\ k <= Entries
  /\ \A k \in Local : k \in Nat /\ k > Entries
  /\ \A k \in ReportType : k \in Nat /\ k <= Entries + Blocks
  /\ CHIP_REG_REPORT \notin Basic /\ Loop \notin ReportType
BY NetConfigAssumption DEF Nodes, Basic, Local, ReportType, CHIP_REG_REPORT, Loop

LEMMA WritesTyped ==
  /\ Opening \in Seq(Write) /\ Closing \in Seq(Write) /\ PlanClosing \in Seq(Write)
  /\ NextBasic(0) \in ReportType
  /\ \A k \in ReportType : /\ NextBasic(k) \in ReportType
                           /\ BasicWrites(k) \in Seq(Write)
                           /\ PlanWrites(k) \in Seq(Write)
<1>1. /\ \A k \in 0 .. 3 : W("CFG_STATE", k) \in Write /\ W("CFG_FINISH", k) \in Write
      /\ \A k \in 0 .. 1 : W("REPORT_EN", k) \in Write
      /\ \A k \in ReportType : W("REPORT_TYPE", k) \in Write /\ W("TABLE", k) \in Write
      /\ W("REGS", 0) \in Write
  BY DEF W, Write
<1>2. CHIP_REG_REPORT \in ReportType
  BY DEF ReportType
<1>3. Opening \in Seq(Write) /\ Closing \in Seq(Write) /\ PlanClosing \in Seq(Write)
  BY <1>1, <1>2 DEF Opening, Closing, PlanClosing
<1>4. \A k \in Nat : NextBasic(k) \in ReportType
  BY Numbers DEF NextBasic, ReportType, Basic
<1>5. ASSUME NEW k \in ReportType
      PROVE  BasicWrites(k) \in Seq(Write) /\ PlanWrites(k) \in Seq(Write)
  <2>1. Piece(k) \in Seq(Write) /\ Registers \in Seq(Write) /\ PlanOpening \in Seq(Write)
    BY <1>1, <1>2 DEF Piece, Registers, PlanOpening
  <2>2. PlanOpening \o Piece(k) \in Seq(Write)
    BY <2>1, ConcatIndices
  <2> QED
    BY <2>1, <2>2 DEF BasicWrites, PlanWrites
<1> QED
  BY <1>3, <1>4, <1>5, Numbers

LEMMA Typed ==
  ASSUME SystemTypeOK
  PROVE  /\ node_idx \in Nodes /\ waiting \in ReportType \cup {Loop}
         /\ chip \in [Nodes -> Chip] /\ down \in [Nodes -> Seq(Write)]
         /\ up \in Seq([imac : Nodes, chip : Chip])
         /\ \A i \in DOMAIN up : /\ up[i].imac \in Nodes /\ up[i].chip \in Chip
                                 /\ up[i].chip.report_type \in ReportType
         /\ \A n \in Nodes : /\ chip[n].report_type \in ReportType
                             /\ chip[n].tables \subseteq ReportType
                             /\ chip[n].regs \in BOOLEAN
         /\ \A n \in Nodes : \A i \in DOMAIN down[n] : down[n][i] \in Write
<1>1. up \in Seq([imac : Nodes, chip : Chip]) /\ down \in [Nodes -> Seq(Write)] /\ chip \in [Nodes -> Chip]
  BY DEF SystemTypeOK
<1>2. \A i \in DOMAIN up : up[i] \in [imac : Nodes, chip : Chip]
  BY <1>1, ElementOfSeq, LenProperties
<1>3. ASSUME NEW n \in Nodes, NEW i \in DOMAIN down[n] PROVE down[n][i] \in Write
  <2>1. down[n] \in Seq(Write)
    BY <1>1
  <2> QED
    BY <2>1, ElementOfSeq, LenProperties
<1> QED
  BY <1>1, <1>2, <1>3 DEF SystemTypeOK, Chip

(* What a write does to what a chip shows. *)
LEMMA Applied ==
  ASSUME NEW c \in Chip, NEW w \in Write
  PROVE  /\ Apply(c, w) \in Chip
         /\ c.tables \subseteq Apply(c, w).tables
         /\ c.regs => Apply(c, w).regs
         /\ Shows(w) => Apply(c, w).report_type = w.val
         /\ ~Shows(w) => Apply(c, w).report_type \in {c.report_type, CHIP_REG_REPORT}
         /\ w = W("REPORT_EN", 0) => Apply(c, w).report_enable = 0
         /\ ~Enables(w) /\ c.report_enable = 0 => Apply(c, w).report_enable = 0
<1>1. /\ w.reg \in {"CFG_STATE", "REPORT_EN", "CFG_FINISH", "REPORT_TYPE", "TABLE", "REGS"}
      /\ w.reg \in {"CFG_STATE", "CFG_FINISH"} => w.val \in 0 .. 3
      /\ w.reg = "REPORT_EN" => w.val \in 0 .. 1
      /\ w.reg \in {"REPORT_TYPE", "TABLE"} => w.val \in ReportType
      /\ CHIP_REG_REPORT \in ReportType
      /\ w = [reg |-> w.reg, val |-> w.val]
  BY DEF Write, ReportType
<1>0. /\ w = W("REPORT_EN", 0) => w.reg = "REPORT_EN" /\ w.val = 0
      /\ w.reg = "REPORT_EN" /\ w.val = 1 => Enables(w)
      /\ w.reg = "REGS" => Enables(w)
      /\ Shows(w) <=> w.reg = "REPORT_TYPE" /\ w.val # CHIP_REG_REPORT
  <2>1. w.reg = "REPORT_EN" /\ w.val = 1 => w = W("REPORT_EN", 1)
    BY <1>1, Zenon DEF W
  <2> QED
    BY <2>1 DEF W, Enables, Shows
<1>2. CASE w.reg = "CFG_STATE"
  <2>1. Register(c, w) = [c EXCEPT !.cfg_state = w.val]
    BY <1>2 DEF Register
  <2>2. /\ Apply(c, w) \in Chip
        /\ Apply(c, w).tables = c.tables /\ Apply(c, w).regs = c.regs
        /\ Apply(c, w).report_type = c.report_type
        /\ Apply(c, w).report_enable = c.report_enable
    BY <1>1, <1>2, <2>1 DEF Apply, Chip
  <2> QED
    BY <1>0, <1>1, <1>2, <2>2
<1>3. CASE w.reg = "CFG_FINISH"
  <2>1. Register(c, w) = [c EXCEPT !.cfg_finish = w.val]
    BY <1>3 DEF Register
  <2>2. /\ Apply(c, w) \in Chip
        /\ Apply(c, w).tables = c.tables /\ Apply(c, w).regs = c.regs
        /\ Apply(c, w).report_type = c.report_type
        /\ Apply(c, w).report_enable = c.report_enable
    BY <1>1, <1>3, <2>1 DEF Apply, Chip
  <2> QED
    BY <1>0, <1>1, <1>3, <2>2
<1>4. CASE w.reg = "REPORT_EN"
  <2>1. Register(c, w) = [c EXCEPT !.report_enable = w.val]
    BY <1>4 DEF Register
  <2>2. /\ Apply(c, w) \in Chip
        /\ Apply(c, w).tables = c.tables /\ Apply(c, w).regs = c.regs
        /\ Apply(c, w).report_type = c.report_type
        /\ Apply(c, w).report_enable = w.val
    BY <1>1, <1>4, <2>1 DEF Apply, Chip
  <2> QED
    BY <1>0, <1>1, <1>4, <2>2
<1>5. CASE w.reg = "REPORT_TYPE"
  <2>1. Register(c, w) = [c EXCEPT !.report_type = w.val]
    BY <1>5 DEF Register
  <2>2. /\ Apply(c, w) \in Chip
        /\ Apply(c, w).tables = c.tables /\ Apply(c, w).regs = c.regs
        /\ Apply(c, w).report_type = w.val
        /\ Apply(c, w).report_enable = c.report_enable
    BY <1>1, <1>5, <2>1 DEF Apply, Chip
  <2> QED
    BY <1>0, <1>1, <1>5, <2>2
<1>6. CASE w.reg = "TABLE"
  <2>1. Register(c, w) = [c EXCEPT !.tables = @ \cup {w.val}]
    BY <1>6 DEF Register
  <2>2. /\ Apply(c, w) \in Chip
        /\ Apply(c, w).tables = c.tables \cup {w.val} /\ Apply(c, w).regs = c.regs
        /\ Apply(c, w).report_type = c.report_type
        /\ Apply(c, w).report_enable = c.report_enable
    <3>1. c.tables \cup {w.val} \in SUBSET ReportType
      BY <1>1, <1>6 DEF Chip
    <3> QED
      BY <1>6, <2>1, <3>1 DEF Apply, Chip
  <2> QED
    BY <1>0, <1>1, <1>6, <2>2
<1>7. CASE w.reg = "REGS"
  <2>1. Register(c, w) = [c EXCEPT !.regs = TRUE, !.cfg_finish = 2,
                                 !.report_enable = 1,
                                 !.report_type = CHIP_REG_REPORT]
    BY <1>7 DEF Register
  <2>2. /\ Apply(c, w) \in Chip
        /\ Apply(c, w).tables = c.tables /\ Apply(c, w).regs = TRUE
        /\ Apply(c, w).report_type = CHIP_REG_REPORT
        /\ Apply(c, w).report_enable = 1
    <3>1. Register(c, w) \in Chip
      <4>1. Register(c, w) = [addressed |-> c.addressed, cfg_state |-> c.cfg_state,
                              report_enable |-> 1, cfg_finish |-> 2, regs |-> TRUE,
                              report_type |-> CHIP_REG_REPORT, tables |-> c.tables]
        BY <2>1 DEF Chip
      <4>2. c.addressed \in BOOLEAN /\ c.cfg_state \in 0 .. 3 /\ c.tables \in SUBSET ReportType
        BY DEF Chip
      <4> QED
        BY <1>1, <4>1, <4>2 DEF Chip
    <3>2. /\ Register(c, w).tables = c.tables /\ Register(c, w).regs = TRUE
          /\ Register(c, w).report_type = CHIP_REG_REPORT
          /\ Register(c, w).report_enable = 1
      BY <2>1 DEF Chip
    <3> QED
      BY <3>1, <3>2 DEF Apply, Chip
  <2> QED
    BY <1>0, <1>1, <1>7, <2>2
<1> QED
  BY <1>1, <1>2, <1>3, <1>4, <1>5, <1>6, <1>7

-----------------------------------------------------------------------------
(* Reading a beacon, and a write that leaves the way to a chip. *)

LEMMA Popped ==
  ASSUME SystemTypeOK, up # <<>>, up' = Tail(up)
  PROVE  /\ up' \in Seq([imac : Nodes, chip : Chip])
         /\ Head(up) = up[1] /\ 1 \in DOMAIN up
         /\ \A i \in DOMAIN up' : i \in Nat /\ i + 1 \in DOMAIN up /\ up'[i] = up[i + 1]
         /\ \A i, j \in DOMAIN up' : j > i => j + 1 > i + 1
<1>1. up \in Seq([imac : Nodes, chip : Chip])
  BY Typed
<1>2. /\ Tail(up) \in Seq([imac : Nodes, chip : Chip])
      /\ Head(up) = up[1] /\ 1 \in DOMAIN up
      /\ \A i \in DOMAIN Tail(up) : i \in Nat /\ i + 1 \in DOMAIN up /\ Tail(up)[i] = up[i + 1]
  BY <1>1, TailIndices
<1> QED
  BY <1>2

LEMMA Extended ==
  ASSUME NEW d \in [Nodes -> Seq(Write)], NEW n \in Nodes, NEW s \in Seq(Write)
  PROVE  /\ [d EXCEPT ![n] = @ \o s] \in [Nodes -> Seq(Write)]
         /\ [d EXCEPT ![n] = @ \o s][n] = d[n] \o s
         /\ \A m \in Nodes \ {n} : [d EXCEPT ![n] = @ \o s][m] = d[m]
<1>1. d[n] \o s \in Seq(Write)
  BY ConcatIndices
<1> QED
  BY <1>1

LEMMA TwiceExtended ==
  ASSUME NEW d \in [Nodes -> Seq(Write)], NEW n \in Nodes, NEW m \in Nodes, n # m,
         NEW s \in Seq(Write), NEW t \in Seq(Write), NEW e,
         e = [d EXCEPT ![n] = @ \o s, ![m] = @ \o t]
  PROVE  /\ e \in [Nodes -> Seq(Write)]
         /\ e[n] = d[n] \o s /\ e[m] = d[m] \o t
         /\ \A r \in Nodes \ {n, m} : e[r] = d[r]
<1>1. d[n] \o s \in Seq(Write) /\ d[m] \o t \in Seq(Write)
  BY ConcatIndices
<1> QED
  BY <1>1

LEMMA Chipped ==
  ASSUME SystemTypeOK, NEW n \in Nodes, down[n] # <<>>,
         down' = [down EXCEPT ![n] = Tail(@)],
         chip' = chip \/ chip' = [chip EXCEPT ![n] = Apply(chip[n], Head(down[n]))]
  PROVE  /\ chip' \in [Nodes -> Chip] /\ down' \in [Nodes -> Seq(Write)]
         /\ \A m \in Nodes : /\ chip[m].tables \subseteq chip'[m].tables
                             /\ chip[m].regs => chip'[m].regs
         /\ \A m \in Nodes \ {n} : chip'[m] = chip[m] /\ down'[m] = down[m]
         /\ down[n] \in Seq(Write) /\ Len(down'[n]) = Len(down[n]) - 1
         /\ Head(down[n]) = down[n][1] /\ 1 \in DOMAIN down[n] /\ down[n][1] \in Write
         /\ \A i \in DOMAIN down'[n] : /\ i \in Nat /\ i + 1 \in DOMAIN down[n]
                                       /\ down'[n][i] = down[n][i + 1]
         /\ \A i \in DOMAIN down[n] : i = 1 \/ (i - 1 \in DOMAIN down'[n] /\ down'[n][i - 1] = down[n][i])
         /\ \/ chip'[n].report_type = chip[n].report_type
            \/ chip'[n].report_type = CHIP_REG_REPORT
            \/ Shows(down[n][1]) /\ chip'[n].report_type = down[n][1].val
<1>1. /\ down \in [Nodes -> Seq(Write)] /\ chip \in [Nodes -> Chip]
      /\ down[n] \in Seq(Write) /\ chip[n] \in Chip
  BY Typed
<1>2. /\ Tail(down[n]) \in Seq(Write) /\ Head(down[n]) \in Write
      /\ Head(down[n]) = down[n][1] /\ 1 \in DOMAIN down[n]
      /\ Len(Tail(down[n])) = Len(down[n]) - 1
      /\ \A i \in DOMAIN Tail(down[n]) : /\ i \in Nat /\ i + 1 \in DOMAIN down[n]
                                         /\ Tail(down[n])[i] = down[n][i + 1]
      /\ \A i \in DOMAIN down[n] :
           i = 1 \/ (i - 1 \in DOMAIN Tail(down[n]) /\ Tail(down[n])[i - 1] = down[n][i])
  BY <1>1, TailIndices
<1>3. /\ down' \in [Nodes -> Seq(Write)] /\ down'[n] = Tail(down[n])
      /\ \A m \in Nodes \ {n} : down'[m] = down[m]
  BY <1>1, <1>2
<1> DEFINE c == Apply(chip[n], Head(down[n]))
<1>4. /\ c \in Chip /\ chip[n].tables \subseteq c.tables /\ (chip[n].regs => c.regs)
      /\ Shows(down[n][1]) => c.report_type = down[n][1].val
      /\ ~Shows(down[n][1]) => c.report_type \in {chip[n].report_type, CHIP_REG_REPORT}
  BY <1>1, <1>2, Applied
<1>5. /\ chip' \in [Nodes -> Chip] /\ chip'[n] \in {chip[n], c}
      /\ \A m \in Nodes \ {n} : chip'[m] = chip[m]
  <2> HIDE DEF c
  <2>1. chip' = chip \/ chip' = [chip EXCEPT ![n] = c]
    BY DEF c
  <2> QED
    BY <1>1, <1>4, <2>1
<1> HIDE DEF c
<1>6. \A m \in Nodes : chip[m].tables \subseteq chip'[m].tables /\ (chip[m].regs => chip'[m].regs)
  BY <1>4, <1>5
<1>7. \/ chip'[n].report_type = chip[n].report_type
      \/ chip'[n].report_type = CHIP_REG_REPORT
      \/ Shows(down[n][1]) /\ chip'[n].report_type = down[n][1].val
  BY <1>4, <1>5
<1> QED
  BY <1>1, <1>2, <1>3, <1>5, <1>6, <1>7

LEMMA InPlaceStays ==
  ASSUME BasicInPlace, SystemTypeOK,
         \A n \in Nodes : chip[n].tables \subseteq chip'[n].tables /\ (chip[n].regs => chip'[n].regs),
         \A n \in Nodes : BasicDone(n)' => BasicDone(n)
  PROVE  BasicInPlace'
BY DEF BasicInPlace

LEMMA WriteGone ==
  ASSUME IInv, NEW n \in Nodes, down[n] # <<>>,
         down' = [down EXCEPT ![n] = Tail(@)],
         chip' = chip \/ chip' = [chip EXCEPT ![n] = Apply(chip[n], Head(down[n]))],
         UNCHANGED <<G_STATE, exited, node_idx, waiting, basic_cfg_report_num, up>>
  PROVE  IInv'
<1>1. SystemTypeOK /\ Snapshots /\ Earlier /\ Later /\ Entering /\ Entered /\ BasicInPlace
  BY DEF IInv
<1>2. /\ chip' \in [Nodes -> Chip] /\ down' \in [Nodes -> Seq(Write)]
      /\ \A m \in Nodes : /\ chip[m].tables \subseteq chip'[m].tables
                          /\ chip[m].regs => chip'[m].regs
      /\ \A m \in Nodes \ {n} : chip'[m] = chip[m] /\ down'[m] = down[m]
      /\ down[n] \in Seq(Write) /\ Len(down'[n]) = Len(down[n]) - 1
      /\ Head(down[n]) = down[n][1] /\ 1 \in DOMAIN down[n] /\ down[n][1] \in Write
      /\ \A i \in DOMAIN down'[n] : /\ i \in Nat /\ i + 1 \in DOMAIN down[n]
                                    /\ down'[n][i] = down[n][i + 1]
      /\ \/ chip'[n].report_type = chip[n].report_type
         \/ chip'[n].report_type = CHIP_REG_REPORT
         \/ Shows(down[n][1]) /\ chip'[n].report_type = down[n][1].val
  BY <1>1, Chipped
<1>3. SystemTypeOK'
  BY <1>1, <1>2 DEF SystemTypeOK
<1>4. Snapshots'
  BY <1>1, <1>2, Typed DEF Snapshots
<1>5. BasicInPlace'
  BY <1>1, <1>2, InPlaceStays DEF BasicDone
<1>6. ASSUME ~InitPhase PROVE IInv'
  BY <1>3, <1>4, <1>5, <1>6 DEF IInv, InitPhase, Earlier, Later, Entering, Entered
<1>7. ASSUME InitPhase PROVE IInv'
  <2>1. n <= node_idx
    BY <1>1, <1>7, Typed, Numbers DEF Later, Nodes
  <2>2. Later'
    BY <1>1, <1>2, <2>1, Typed DEF Later, Nodes, InitPhase
  <2>3. Earlier'
    <3> SUFFICES ASSUME NEW m \in Nodes, m < node_idx
                 PROVE  /\ chip'[m].report_type = CHIP_REG_REPORT
                        /\ \A i \in DOMAIN up : up[i].imac = m => up[i].chip.report_type = CHIP_REG_REPORT
                        /\ \A i \in DOMAIN down'[m] : ~Shows(down'[m][i])
      BY DEF Earlier
    <3>1. /\ chip[m].report_type = CHIP_REG_REPORT
          /\ \A i \in DOMAIN up : up[i].imac = m => up[i].chip.report_type = CHIP_REG_REPORT
          /\ \A i \in DOMAIN down[m] : ~Shows(down[m][i])
      BY <1>1, <1>7 DEF Earlier
    <3>2. CASE m = n
      BY <1>2, <3>1, <3>2
    <3>3. CASE m # n
      BY <1>2, <3>1, <3>3
    <3> QED
      BY <3>2, <3>3
  <2>4. Entered'
    <3> SUFFICES ASSUME waiting \notin Basic
                 PROVE  Entered'
      BY DEF Entered
    <3>1. /\ node_idx \in Nodes
          /\ Basic \subseteq chip[node_idx].tables
          /\ \A i \in DOMAIN down[node_idx] : ~Shows(down[node_idx][i])
          /\ \A i \in DOMAIN up :
               up[i].imac = node_idx /\ up[i].chip.report_type = CHIP_REG_REPORT =>
                 /\ chip[node_idx].report_type = CHIP_REG_REPORT
                 /\ \A j \in DOMAIN up : j > i /\ up[j].imac = node_idx =>
                      up[j].chip.report_type = CHIP_REG_REPORT
      BY <1>1, <1>7, Typed DEF Entered
    <3>2. Basic \subseteq chip'[node_idx].tables
      BY <1>2, <3>1
    <3>3. /\ \A i \in DOMAIN down'[node_idx] : ~Shows(down'[node_idx][i])
          /\ chip[node_idx].report_type = CHIP_REG_REPORT =>
               chip'[node_idx].report_type = CHIP_REG_REPORT
      BY <1>2, <3>1
    <3> QED
      BY <3>1, <3>2, <3>3 DEF Entered
  <2>5. Entering'
    <3> SUFFICES ASSUME waiting \in Basic
                 PROVE  Entering'
      BY DEF Entering
    <3> DEFINE k == waiting
               c == node_idx
    <3>1. /\ c \in Nodes
          /\ 1 .. k - 1 \subseteq chip[c].tables
          /\ chip[c].report_type <= k
          /\ chip[c].report_type = k => down[c] = <<>>
          /\ \A i \in DOMAIN down[c] : Shows(down[c][i]) => down[c][i].val = k /\ i = Len(down[c])
          /\ \A i \in DOMAIN up : up[i].imac = c =>
               /\ up[i].chip.report_type <= k
               /\ up[i].chip.report_type = k =>
                    /\ chip[c].report_type = k
                    /\ \A j \in DOMAIN up : j > i /\ up[j].imac = c => up[j].chip.report_type = k
      BY <1>1, <1>7, Typed DEF Entering
    <3>2. k \in Nat \ {0}
      BY Numbers
    <3>3. 1 .. k - 1 \subseteq chip'[c].tables
      BY <1>2, <3>1
    <3>4. CASE c # n
      BY <1>2, <3>1, <3>3, <3>4 DEF Entering
    <3>5. CASE c = n
      <4>1. chip[c].report_type # k
        BY <3>1, <3>5
      <4>2. CASE Shows(down[n][1]) /\ chip'[n].report_type = down[n][1].val
        <5>1. down[n][1].val = k /\ 1 = Len(down[n])
          BY <1>2, <3>1, <3>5, <4>2
        <5>2. down'[n] = <<>>
          <6>1. down'[n] \in Seq(Write) /\ Len(down'[n]) = 0
            BY <1>2, <5>1
          <6> QED
            BY <6>1, EmptySeq
        <5>3. DOMAIN down'[n] = {}
          BY <5>2
        <5> QED
          BY <3>1, <3>2, <3>3, <3>5, <4>1, <4>2, <5>1, <5>2, <5>3 DEF Entering
      <4>3. CASE chip'[n].report_type \in {chip[n].report_type, CHIP_REG_REPORT}
        <5>1. chip'[c].report_type <= k /\ chip'[c].report_type # k
          BY <3>1, <3>2, <3>5, <4>1, <4>3 DEF CHIP_REG_REPORT
        <5>2. \A i \in DOMAIN down'[c] : Shows(down'[c][i]) =>
                down'[c][i].val = k /\ i = Len(down'[c])
          <6> SUFFICES ASSUME NEW i \in DOMAIN down'[c], Shows(down'[c][i])
                       PROVE  down'[c][i].val = k /\ i = Len(down'[c])
            OBVIOUS
          <6>1. i \in Nat /\ i + 1 \in DOMAIN down[c] /\ down'[c][i] = down[c][i + 1]
            BY <1>2, <3>5
          <6>2. down[c][i + 1].val = k /\ i + 1 = Len(down[c])
            BY <3>1, <6>1
          <6>3. Len(down'[c]) = Len(down[c]) - 1
            BY <1>2, <3>5
          <6> QED
            BY <6>1, <6>2, <6>3
        <5> QED
          BY <3>1, <3>3, <4>1, <5>1, <5>2 DEF Entering
      <4> QED
        BY <1>2, <4>2, <4>3
    <3> QED
      BY <3>4, <3>5
  <2> QED
    BY <1>3, <1>4, <1>5, <2>2, <2>3, <2>4, <2>5 DEF IInv
<1> QED
  BY <1>6, <1>7

LEMMA BeaconStep ==
  ASSUME IInv, NEW n \in Nodes, Beacon(n)
  PROVE  IInv'
<1> DEFINE b == [imac |-> n, chip |-> chip[n]]
<1>1. SystemTypeOK /\ Snapshots /\ Earlier /\ Later /\ Entering /\ Entered /\ BasicInPlace
  BY DEF IInv
<1>2. /\ up \in Seq([imac : Nodes, chip : Chip]) /\ b \in [imac : Nodes, chip : Chip]
      /\ up' = Append(up, b) /\ chip[n].addressed
      /\ b.imac = n /\ b.chip = chip[n]
      /\ UNCHANGED <<G_STATE, exited, node_idx, waiting, basic_cfg_report_num, chip, down>>
  BY <1>1, Typed DEF Beacon
<1> HIDE DEF b
<1>3. /\ up' \in Seq([imac : Nodes, chip : Chip])
      /\ \A i \in DOMAIN up' : \/ i \in DOMAIN up /\ up'[i] = up[i]
                               \/ i = Len(up) + 1 /\ up'[i] = b
      /\ \A i \in DOMAIN up : i < Len(up) + 1 /\ i \in Nat
      /\ Len(up) \in Nat
  BY <1>2, AppendIndices, LenProperties
<1>4. SystemTypeOK'
  BY <1>1, <1>2, <1>3 DEF SystemTypeOK
<1>5. Snapshots'
  BY <1>1, <1>2, <1>3 DEF Snapshots
<1>6. BasicInPlace'
  BY <1>1, <1>2 DEF BasicInPlace, BasicDone
<1>7. Earlier'
  BY <1>1, <1>2, <1>3 DEF Earlier, InitPhase
<1>8. Later'
  BY <1>1, <1>2, <1>3 DEF Later, InitPhase
<1>9. Entering'
  <2> SUFFICES ASSUME InitPhase, waiting \in Basic PROVE Entering'
    BY <1>2 DEF Entering, InitPhase
  <2> DEFINE k == waiting
             c == node_idx
  <2>1. /\ c \in Nodes
        /\ 1 .. k - 1 \subseteq chip[c].tables
        /\ chip[c].report_type <= k
        /\ chip[c].report_type = k => down[c] = <<>>
        /\ \A i \in DOMAIN down[c] : Shows(down[c][i]) => down[c][i].val = k /\ i = Len(down[c])
        /\ \A i \in DOMAIN up : up[i].imac = c =>
             /\ up[i].chip.report_type <= k
             /\ up[i].chip.report_type = k =>
                  /\ chip[c].report_type = k
                  /\ \A j \in DOMAIN up : j > i /\ up[j].imac = c => up[j].chip.report_type = k
    BY <1>1, Typed DEF Entering
  <2>2. ASSUME NEW i \in DOMAIN up', up'[i].imac = c
        PROVE  /\ up'[i].chip.report_type <= k
               /\ up'[i].chip.report_type = k =>
                    /\ chip[c].report_type = k
                    /\ \A j \in DOMAIN up' : j > i /\ up'[j].imac = c => up'[j].chip.report_type = k
    <3>1. CASE i \in DOMAIN up /\ up'[i] = up[i]
      BY <1>2, <1>3, <2>1, <2>2, <3>1
    <3>2. CASE i = Len(up) + 1 /\ up'[i] = b
      <4>1. n = c /\ up'[i].chip = chip[c]
        BY <1>2, <2>2, <3>2
      <4>2. \A j \in DOMAIN up' : ~(j > i)
        BY <1>3, <3>2
      <4> QED
        BY <2>1, <4>1, <4>2
    <3> QED
      BY <1>3, <3>1, <3>2
  <2> QED
    BY <1>2, <2>1, <2>2 DEF Entering
<1>10. Entered'
  <2> SUFFICES ASSUME InitPhase, waiting \notin Basic PROVE Entered'
    BY <1>2 DEF Entered, InitPhase
  <2> DEFINE c == node_idx
  <2>1. /\ c \in Nodes
        /\ Basic \subseteq chip[c].tables
        /\ \A i \in DOMAIN down[c] : ~Shows(down[c][i])
        /\ \A i \in DOMAIN up : up[i].imac = c /\ up[i].chip.report_type = CHIP_REG_REPORT =>
             /\ chip[c].report_type = CHIP_REG_REPORT
             /\ \A j \in DOMAIN up : j > i /\ up[j].imac = c =>
                  up[j].chip.report_type = CHIP_REG_REPORT
    BY <1>1, Typed DEF Entered
  <2>2. ASSUME NEW i \in DOMAIN up', up'[i].imac = c, up'[i].chip.report_type = CHIP_REG_REPORT
        PROVE  /\ chip[c].report_type = CHIP_REG_REPORT
               /\ \A j \in DOMAIN up' : j > i /\ up'[j].imac = c =>
                    up'[j].chip.report_type = CHIP_REG_REPORT
    <3>1. CASE i \in DOMAIN up /\ up'[i] = up[i]
      BY <1>2, <1>3, <2>1, <2>2, <3>1
    <3>2. CASE i = Len(up) + 1 /\ up'[i] = b
      <4>1. n = c /\ up'[i].chip = chip[c]
        BY <1>2, <2>2, <3>2
      <4>2. \A j \in DOMAIN up' : ~(j > i)
        BY <1>3, <3>2
      <4> QED
        BY <2>2, <4>1, <4>2
    <3> QED
      BY <1>3, <3>1, <3>2
  <2> QED
    BY <1>2, <2>1, <2>2 DEF Entered
<1> QED
  BY <1>4, <1>5, <1>6, <1>7, <1>8, <1>9, <1>10 DEF IInv

(* A beacon is read and nothing else changes that the invariant is about. *)
LEMMA Read ==
  ASSUME IInv, up # <<>>, up' = Tail(up), SystemTypeOK',
         UNCHANGED <<G_STATE, node_idx, waiting, chip, down>>
  PROVE  IInv'
<1>1. SystemTypeOK /\ Snapshots /\ Earlier /\ Later /\ Entering /\ Entered /\ BasicInPlace
  BY DEF IInv
<1>2. /\ \A i \in DOMAIN up' : i \in Nat /\ i + 1 \in DOMAIN up /\ up'[i] = up[i + 1]
      /\ \A i, j \in DOMAIN up' : j > i => j + 1 > i + 1
  BY <1>1, Popped
<1>3. Snapshots'
  BY <1>1, <1>2 DEF Snapshots
<1>4. Earlier' /\ Later' /\ BasicInPlace'
  BY <1>1, <1>2 DEF Earlier, Later, InitPhase, BasicInPlace, BasicDone
<1>5. Entering'
  BY <1>1, <1>2 DEF Entering, InitPhase
<1>6. Entered'
  BY <1>1, <1>2 DEF Entered, InitPhase
<1> QED
  BY <1>3, <1>4, <1>5, <1>6 DEF IInv

LEMMA ReadTyped ==
  ASSUME SystemTypeOK, up # <<>>, up' = Tail(up)
  PROVE  up' \in Seq([imac : Nodes, chip : Chip])
BY Popped

LEMMA WaitOnStep ==
  ASSUME IInv, WaitOn
  PROVE  IInv'
<1>1. SystemTypeOK'
  BY ReadTyped DEF IInv, WaitOn, SystemTypeOK
<1> QED
  BY <1>1, Read DEF WaitOn

(* Only the node that is written to can confirm an entry. *)
LEMMA Sender ==
  ASSUME IInv, InitPhase, waiting \in Basic, up # <<>>, Confirms(Head(up), waiting)
  PROVE  /\ Head(up) = up[1] /\ 1 \in DOMAIN up
         /\ up[1].imac = node_idx /\ up[1].chip.report_type = waiting
         /\ waiting \in chip[node_idx].tables /\ down[node_idx] = <<>>
         /\ chip[node_idx].report_type = waiting
         /\ \A i \in DOMAIN up : i > 1 /\ up[i].imac = node_idx =>
              up[i].chip.report_type = waiting
<1>1. SystemTypeOK /\ Snapshots /\ Earlier /\ Later /\ Entering
  BY DEF IInv
<1>2. Head(up) = up[1] /\ 1 \in DOMAIN up
  <2>1. up \in Seq([imac : Nodes, chip : Chip])
    BY <1>1, Typed
  <2> QED
    BY <2>1, TailIndices
<1>3. waiting # CHIP_REG_REPORT
  BY Numbers
<1>4. up[1].chip.report_type = waiting /\ waiting \in up[1].chip.tables
  BY <1>2, <1>3 DEF Confirms
<1>5. up[1].imac = node_idx
  <2>1. up[1].imac \in Nodes /\ node_idx \in Nodes
    BY <1>1, <1>2, Typed
  <2>2. ~(up[1].imac < node_idx)
    BY <1>1, <1>2, <1>3, <1>4, <2>1 DEF Earlier
  <2>3. ~(up[1].imac > node_idx)
    BY <1>1, <1>2, <2>1 DEF Later
  <2> QED
    BY <2>1, <2>2, <2>3, Numbers DEF Nodes
<1>6. waiting \in chip[node_idx].tables
  BY <1>1, <1>2, <1>4, <1>5 DEF Snapshots
<1> QED
  BY <1>1, <1>2, <1>4, <1>5, <1>6 DEF Entering

LEMMA WhatWritesShow ==
  /\ \A k \in Basic : /\ BasicWrites(k) = Piece(k) /\ Len(Piece(k)) = 2 /\ DOMAIN Piece(k) = 1 .. 2
                      /\ \A i \in 1 .. 2 : Shows(Piece(k)[i]) => Piece(k)[i].val = k /\ i = 2
  /\ BasicWrites(CHIP_REG_REPORT) = Registers
  /\ \A i \in DOMAIN Registers : ~Shows(Registers[i])
  /\ \A i \in DOMAIN Opening : ~Shows(Opening[i])
  /\ \A i \in DOMAIN Closing : ~Shows(Closing[i])
<1>1. ASSUME NEW k \in Basic
      PROVE  /\ BasicWrites(k) = Piece(k) /\ Len(Piece(k)) = 2 /\ DOMAIN Piece(k) = 1 .. 2
             /\ \A i \in 1 .. 2 : Shows(Piece(k)[i]) => Piece(k)[i].val = k /\ i = 2
  <2>1. BasicWrites(k) = Piece(k)
    BY Numbers DEF BasicWrites
  <2>2. /\ Len(Piece(k)) = 2 /\ DOMAIN Piece(k) = 1 .. 2
        /\ Piece(k)[1].reg = "TABLE" /\ Piece(k)[2].val = k
    BY DEF Piece, W
  <2>3. \A i \in 1 .. 2 : i = 1 \/ i = 2
    OBVIOUS
  <2> QED
    BY <2>1, <2>2, <2>3 DEF Shows
<1>2. /\ DOMAIN Registers = 1 .. 3
      /\ Registers[1].reg = "REGS" /\ Registers[2].val = CHIP_REG_REPORT
      /\ Registers[3].reg = "REPORT_EN"
  BY DEF Registers, W
<1>3. /\ DOMAIN Opening = 1 .. 4
      /\ Opening[1].reg = "CFG_STATE" /\ Opening[2].reg = "REPORT_EN"
      /\ Opening[3].val = CHIP_REG_REPORT /\ Opening[4].reg = "CFG_FINISH"
  BY DEF Opening, W
<1>4. /\ DOMAIN Closing = 1 .. 2
      /\ Closing[1].reg = "REPORT_EN" /\ Closing[2].reg = "CFG_STATE"
  BY DEF Closing, W
<1>5. /\ \A i \in 1 .. 3 : i = 1 \/ i = 2 \/ i = 3
      /\ \A i \in 1 .. 4 : i = 1 \/ i = 2 \/ i = 3 \/ i = 4
      /\ \A i \in 1 .. 2 : i = 1 \/ i = 2
  OBVIOUS
<1>6. \A i \in DOMAIN Registers : ~Shows(Registers[i])
  BY <1>2, <1>5 DEF Shows
<1>7. \A i \in DOMAIN Opening : ~Shows(Opening[i])
  BY <1>3, <1>5 DEF Shows
<1>8. \A i \in DOMAIN Closing : ~Shows(Closing[i])
  BY <1>4, <1>5 DEF Shows
<1> QED
  BY <1>1, <1>6, <1>7, <1>8 DEF BasicWrites

LEMMA OpeningShows ==
  ASSUME NEW k \in Basic, Opening \in Seq(Write), BasicWrites(k) \in Seq(Write)
  PROVE  LET opening == Opening \o BasicWrites(k) IN
         \A i \in DOMAIN opening : Shows(opening[i]) => opening[i].val = k /\ i = Len(opening)
<1> DEFINE opening == Opening \o BasicWrites(k)
<1>1. /\ BasicWrites(k) = Piece(k) /\ Len(Piece(k)) = 2 /\ DOMAIN Piece(k) = 1 .. 2
      /\ \A i \in 1 .. 2 : Shows(Piece(k)[i]) => Piece(k)[i].val = k /\ i = 2
  BY WhatWritesShow
<1> SUFFICES ASSUME NEW i \in DOMAIN opening, Shows(opening[i])
             PROVE  opening[i].val = k /\ i = Len(opening)
  OBVIOUS
<1>2. /\ Len(opening) = Len(Opening) + Len(BasicWrites(k)) /\ Len(Opening) \in Nat
      /\ \/ i \in DOMAIN Opening /\ opening[i] = Opening[i]
         \/ /\ i > Len(Opening) /\ i - Len(Opening) \in DOMAIN BasicWrites(k)
            /\ opening[i] = BasicWrites(k)[i - Len(Opening)]
      /\ i \in Nat
  <2>1. opening \in Seq(Write)
    BY ConcatIndices
  <2>2. DOMAIN opening = 1 .. Len(opening) /\ Len(opening) \in Nat
    BY <2>1, LenProperties
  <2> QED
    BY <2>2, ConcatIndices
<1> HIDE DEF opening
<1>3. ~(i \in DOMAIN Opening /\ opening[i] = Opening[i])
  BY WhatWritesShow
<1>4. i - Len(Opening) = 2 /\ opening[i].val = k
  BY <1>1, <1>2, <1>3
<1>5. Len(opening) = Len(Opening) + 2 /\ Len(Opening) \in Nat /\ i \in Nat
  BY <1>1, <1>2
<1> QED
  BY <1>4, <1>5

LEMMA NothingShown ==
  ASSUME NEW s \in Seq(Write), NEW t \in Seq(Write),
         \A i \in DOMAIN s : ~Shows(s[i]), \A i \in DOMAIN t : ~Shows(t[i])
  PROVE  s \o t \in Seq(Write) /\ \A i \in DOMAIN (s \o t) : ~Shows((s \o t)[i])
BY ConcatIndices

LEMMA InitConfirmedStep ==
  ASSUME IInv, InitConfirmed
  PROVE  IInv'
<1> DEFINE k == waiting
           c == node_idx
<1>1. SystemTypeOK /\ Snapshots /\ Earlier /\ Later /\ Entering /\ Entered /\ BasicInPlace
  BY DEF IInv
<1>2. /\ InitPhase /\ k \in ReportType /\ up # <<>> /\ Confirms(Head(up), k) /\ up' = Tail(up)
      /\ G_STATE' \in {"INIT_S", "BASIC_CFG_S"} /\ InitPhase'
      /\ UNCHANGED <<exited, node_idx, basic_cfg_report_num, chip>>
  BY <1>1, Typed DEF InitConfirmed, InitPhase
<1>3. /\ up' \in Seq([imac : Nodes, chip : Chip])
      /\ \A i \in DOMAIN up' : i \in Nat /\ i + 1 \in DOMAIN up /\ up'[i] = up[i + 1]
      /\ \A i, j \in DOMAIN up' : j > i => j + 1 > i + 1
  BY <1>1, <1>2, Popped
<1>4. /\ c \in Nodes /\ down \in [Nodes -> Seq(Write)] /\ down[c] \in Seq(Write)
      /\ waiting' \in ReportType \cup {Loop}
      /\ NextBasic(k) \in ReportType /\ BasicWrites(NextBasic(k)) \in Seq(Write)
  BY <1>1, <1>2, Typed, WritesTyped DEF InitConfirmed
<1>5. /\ down' \in [Nodes -> Seq(Write)]
      /\ \A n \in Nodes \ {c} : down'[n] = down[n]
      /\ IF k = CHIP_REG_REPORT THEN down' = down /\ waiting' = Loop
         ELSE down'[c] = down[c] \o BasicWrites(NextBasic(k)) /\ waiting' = NextBasic(k)
  <2>1. CASE k = CHIP_REG_REPORT
    BY <1>4, <2>1 DEF InitConfirmed
  <2>2. CASE k # CHIP_REG_REPORT
    <3>1. down' = [down EXCEPT ![c] = @ \o BasicWrites(NextBasic(k))] /\ waiting' = NextBasic(k)
      BY <2>2 DEF InitConfirmed
    <3> QED
      BY <1>4, <2>2, <3>1, Extended
  <2> QED
    BY <2>1, <2>2
<1>6. SystemTypeOK'
  BY <1>1, <1>2, <1>3, <1>4, <1>5 DEF SystemTypeOK
<1>7. Snapshots'
  BY <1>1, <1>2, <1>3 DEF Snapshots
<1>8. Earlier' /\ Later'
  <2>1. c \in Nat /\ \A n \in Nodes : n \in Nat
    BY <1>4, Numbers DEF Nodes
  <2>2. \A n \in Nodes : n < c \/ n > c => down'[n] = down[n]
    BY <1>5, <2>1
  <2>3. Earlier'
    BY <1>1, <1>2, <1>3, <2>2 DEF Earlier
  <2>4. Later'
    BY <1>1, <1>2, <1>3, <2>2 DEF Later
  <2> QED
    BY <2>3, <2>4
<1>9. BasicInPlace'
  BY <1>1, <1>2 DEF BasicInPlace, BasicDone, InitPhase
(* an entry *)
<1>10. CASE k \in Basic
  <2>1. /\ up[1].imac = c /\ k \in chip[c].tables /\ down[c] = <<>> /\ chip[c].report_type = k
        /\ \A i \in DOMAIN up : i > 1 /\ up[i].imac = c => up[i].chip.report_type = k
    BY <1>2, <1>10, Sender
  <2>2. \A i \in DOMAIN up' : up'[i].imac = c => up'[i].chip.report_type = k
    <3> SUFFICES ASSUME NEW i \in DOMAIN up', up'[i].imac = c PROVE up'[i].chip.report_type = k
      OBVIOUS
    <3>1. 1 \in DOMAIN up' /\ i \in Nat /\ i >= 1
      <4>1. DOMAIN up' = 1 .. Len(up') /\ Len(up') \in Nat
        BY <1>3, LenProperties
      <4> QED
        BY <4>1
    <3>2. i + 1 \in DOMAIN up /\ up'[i] = up[i + 1] /\ i + 1 > 1
      BY <1>3, <3>1
    <3> QED
      BY <2>1, <3>2
  <2>3. k \in Nat \ {0} /\ k <= Entries /\ k # CHIP_REG_REPORT
    BY <1>10, Numbers
  <2>4. 1 .. k \subseteq chip[c].tables
    <3>1. 1 .. k - 1 \subseteq chip[c].tables
      BY <1>1, <1>2, <1>10 DEF Entering
    <3>2. 1 .. k = (1 .. k - 1) \cup {k}
      BY <2>3
    <3> QED
      BY <2>1, <3>1, <3>2
  <2>5. down'[c] = <<>> \o BasicWrites(NextBasic(k)) /\ waiting' = NextBasic(k)
    BY <1>5, <2>1, <2>3
  <2>6. down'[c] = BasicWrites(NextBasic(k))
    BY <1>4, <2>5, ConcatEmptySeq
  <2>7. CASE k < Entries
    <3>1. NextBasic(k) = k + 1 /\ k + 1 \in Basic
      BY <2>3, <2>7, Numbers DEF NextBasic, Basic
    <3>2. /\ down'[c] = Piece(k + 1) /\ Len(down'[c]) = 2 /\ DOMAIN down'[c] = 1 .. 2
          /\ \A i \in 1 .. 2 : Shows(down'[c][i]) => down'[c][i].val = k + 1 /\ i = 2
      BY <2>6, <3>1, WhatWritesShow
    <3>3. k <= k + 1 /\ k # k + 1 /\ (k + 1) - 1 = k
      BY <2>3
    <3>4. Entering'
      BY <1>2, <2>1, <2>2, <2>4, <2>5, <3>1, <3>2, <3>3 DEF Entering
    <3>5. Entered'
      BY <2>5, <3>1 DEF Entered
    <3> QED
      BY <1>6, <1>7, <1>8, <1>9, <3>4, <3>5 DEF IInv
  <2>8. CASE k = Entries
    <3>1. NextBasic(k) = CHIP_REG_REPORT /\ CHIP_REG_REPORT \notin Basic
      BY <2>3, <2>8, Numbers DEF NextBasic
    <3>2. \A i \in DOMAIN down'[c] : ~Shows(down'[c][i])
      BY <2>6, <3>1, WhatWritesShow
    <3>3. Basic \subseteq chip[c].tables
      BY <2>4, <2>8 DEF Basic
    <3>4. Entered'
      BY <1>2, <2>2, <2>3, <3>2, <3>3 DEF Entered
    <3>5. Entering'
      BY <2>5, <3>1 DEF Entering
    <3> QED
      BY <1>6, <1>7, <1>8, <1>9, <3>4, <3>5 DEF IInv
  <2> QED
    BY <2>3, <2>7, <2>8, Numbers
(* the single registers *)
<1>11. CASE k \notin Basic
  <2>1. waiting' \notin Basic
    <3>1. CASE k = CHIP_REG_REPORT
      BY <1>5, <3>1, Numbers DEF ReportType
    <3>2. CASE k # CHIP_REG_REPORT
      <4>1. k \in Local
        BY <1>2, <1>11, <3>2 DEF ReportType
      <4>2. ~(k < Entries)
        BY <4>1, Numbers
      <4> QED
        BY <1>5, <3>2, <4>2, Numbers DEF NextBasic
    <3> QED
      BY <3>1, <3>2
  <2>2. /\ Basic \subseteq chip[c].tables
        /\ \A i \in DOMAIN down[c] : ~Shows(down[c][i])
        /\ \A i \in DOMAIN up : up[i].imac = c /\ up[i].chip.report_type = CHIP_REG_REPORT =>
             /\ chip[c].report_type = CHIP_REG_REPORT
             /\ \A j \in DOMAIN up : j > i /\ up[j].imac = c =>
                  up[j].chip.report_type = CHIP_REG_REPORT
    BY <1>1, <1>2, <1>11 DEF Entered
  <2>3. \A i \in DOMAIN down'[c] : ~Shows(down'[c][i])
    <3>1. CASE k = CHIP_REG_REPORT
      BY <1>5, <2>2, <3>1
    <3>2. CASE k # CHIP_REG_REPORT
      <4>1. k \in Local
        BY <1>2, <1>11, <3>2 DEF ReportType
      <4>2. NextBasic(k) = CHIP_REG_REPORT
        BY <4>1, Numbers DEF NextBasic
      <4>3. BasicWrites(NextBasic(k)) = Registers /\ \A i \in DOMAIN Registers : ~Shows(Registers[i])
        BY <4>2, WhatWritesShow
      <4> QED
        BY <1>4, <1>5, <2>2, <3>2, <4>3, NothingShown
    <3> QED
      BY <3>1, <3>2
  <2>4. Entered'
    BY <1>2, <1>3, <2>2, <2>3 DEF Entered
  <2>5. Entering'
    BY <2>1 DEF Entering
  <2> QED
    BY <1>6, <1>7, <1>8, <1>9, <2>4, <2>5 DEF IInv
<1> QED
  BY <1>10, <1>11

(* No block passes for the registers basic_cfg looks at. *)
LEMMA BlocksAreNoRegisters ==
  ASSUME NEW c \in Chip, RegistersReported(AsRegisters(c))
  PROVE  c.report_type = CHIP_REG_REPORT /\ (c.regs \/ SlotLenPreset)
<1>1. CASE c.report_type = CHIP_REG_REPORT
  BY <1>1 DEF RegistersReported, AsRegisters
<1>2. CASE c.report_type # CHIP_REG_REPORT
  <2>1. AsRegisters(c).cfg_finish = 1
    BY <1>2 DEF AsRegisters, Chip
  <2> QED
    BY <2>1 DEF RegistersReported
<1> QED
  BY <1>1, <1>2

(* What basic_cfg concludes from the beacon it accepts. *)
LEMMA Accepted ==
  ASSUME IInv, InitPhase, waiting = Loop, up # <<>>, Reported(Head(up))
  PROVE  /\ Basic \subseteq chip[node_idx].tables
         /\ SlotLenPreset \/ chip[node_idx].regs
         /\ chip[node_idx].report_type = CHIP_REG_REPORT
         /\ \A i \in DOMAIN down[node_idx] : ~Shows(down[node_idx][i])
         /\ \A i \in DOMAIN up : i > 1 /\ up[i].imac = node_idx =>
              up[i].chip.report_type = CHIP_REG_REPORT
<1>1. SystemTypeOK /\ Snapshots /\ Entered
  BY DEF IInv
<1>2. Head(up) = up[1] /\ 1 \in DOMAIN up
  <2>1. up \in Seq([imac : Nodes, chip : Chip])
    BY <1>1, Typed
  <2> QED
    BY <2>1, TailIndices
<1>3. /\ up[1].imac = node_idx /\ up[1].chip.report_type = CHIP_REG_REPORT
      /\ up[1].chip.regs \/ SlotLenPreset
  <2>1. up[1].imac = node_idx /\ RegistersReported(AsRegisters(up[1].chip))
    BY <1>2 DEF Reported
  <2>2. up[1].chip \in Chip
    BY <1>1, <1>2, Typed
  <2> QED
    BY <2>1, <2>2, BlocksAreNoRegisters
<1>4. waiting \notin Basic
  BY Numbers DEF ReportType
<1> QED
  BY <1>1, <1>2, <1>3, <1>4 DEF Snapshots, Entered

(* basic_cfg goes on to the next node. *)
LEMMA NextNode ==
  ASSUME IInv, G_STATE = "BASIC_CFG_S", waiting = Loop, up # <<>>, up' = Tail(up),
         Reported(Head(up)), ~LastNode,
         basic_cfg_report_num' = 0, node_idx' = node_idx + 1, waiting' = NextBasic(0),
         down' = [down EXCEPT ![node_idx] = @ \o Closing,
                              ![node_idx + 1] = @ \o Opening \o BasicWrites(NextBasic(0))],
         UNCHANGED <<G_STATE, exited, chip>>
  PROVE  IInv'
<1> DEFINE c == node_idx
           d == node_idx + 1
           k == NextBasic(0)
           opening == Opening \o BasicWrites(k)
<1>1. /\ SystemTypeOK /\ Snapshots /\ Earlier /\ Later /\ Entering /\ Entered /\ BasicInPlace
      /\ InitPhase /\ InitPhase'
  BY DEF IInv, InitPhase
<1>2. /\ c \in Nodes /\ d \in Nodes /\ c # d /\ c \in Nat /\ \A n \in Nodes : n \in Nat
      /\ \A n \in Nodes : n < d => n < c \/ n = c
      /\ \A n \in Nodes : n > d => n > c /\ n # c /\ n # d
      /\ \A n \in Nodes : n < c => n # c /\ n # d
      /\ d > c
  <2>1. /\ c \in 0 .. cur_node_num - 1 /\ cur_node_num \in Nat /\ ~(c >= cur_node_num - 1)
    BY <1>1, Typed, Numbers DEF Nodes, LastNode
  <2>2. Nodes = 0 .. cur_node_num - 1
    BY DEF Nodes
  <2>3. d \in 0 .. cur_node_num - 1 /\ c # d /\ d > c /\ c \in Nat
    BY <2>1
  <2> QED
    BY <2>1, <2>2, <2>3
<1>3. /\ Basic \subseteq chip[c].tables /\ (SlotLenPreset \/ chip[c].regs)
      /\ chip[c].report_type = CHIP_REG_REPORT
      /\ \A i \in DOMAIN down[c] : ~Shows(down[c][i])
      /\ \A i \in DOMAIN up : i > 1 /\ up[i].imac = c => up[i].chip.report_type = CHIP_REG_REPORT
  BY <1>1, Accepted
<1>4. /\ up' \in Seq([imac : Nodes, chip : Chip])
      /\ \A i \in DOMAIN up' : i \in Nat /\ i + 1 \in DOMAIN up /\ up'[i] = up[i + 1]
      /\ \A i \in DOMAIN up' : i + 1 > 1
  <2>1. /\ up' \in Seq([imac : Nodes, chip : Chip])
        /\ \A i \in DOMAIN up' : i \in Nat /\ i + 1 \in DOMAIN up /\ up'[i] = up[i + 1]
    BY <1>1, Popped
  <2>2. DOMAIN up' = 1 .. Len(up') /\ Len(up') \in Nat
    BY <2>1, LenProperties
  <2> QED
    BY <2>1, <2>2
<1>5. /\ down \in [Nodes -> Seq(Write)] /\ Closing \in Seq(Write) /\ Opening \in Seq(Write)
      /\ k \in ReportType /\ BasicWrites(k) \in Seq(Write) /\ opening \in Seq(Write)
  <2>1. /\ down \in [Nodes -> Seq(Write)] /\ Closing \in Seq(Write) /\ Opening \in Seq(Write)
        /\ k \in ReportType /\ BasicWrites(k) \in Seq(Write)
    BY <1>1, Typed, WritesTyped
  <2> QED
    BY <2>1, ConcatIndices
<1>6. /\ chip[d].report_type = CHIP_REG_REPORT /\ down[d] = <<>>
      /\ \A i \in DOMAIN up : up[i].imac # d
  BY <1>1, <1>2 DEF Later
<1>7. /\ down' \in [Nodes -> Seq(Write)]
      /\ down'[c] = down[c] \o Closing /\ down'[d] = opening
      /\ \A n \in Nodes : n # c /\ n # d => down'[n] = down[n]
  <2>1. /\ down' \in [Nodes -> Seq(Write)]
        /\ down'[c] = down[c] \o Closing /\ down'[d] = (down[d] \o Opening) \o BasicWrites(k)
        /\ \A n \in Nodes \ {c, d} : down'[n] = down[n]
    <3> HIDE DEF c, d, k, opening
    <3>1. down' = [down EXCEPT ![c] = @ \o Closing, ![d] = @ \o Opening \o BasicWrites(k)]
      BY DEF c, d, k
    <3> QED
      <4>1. /\ c \in Nodes /\ d \in Nodes /\ c # d /\ down \in [Nodes -> Seq(Write)]
            /\ Closing \in Seq(Write) /\ Opening \in Seq(Write) /\ BasicWrites(k) \in Seq(Write)
        BY <1>2, <1>5
      <4>2. down[c] \o Closing \in Seq(Write) /\ down[d] \o Opening \in Seq(Write)
        BY <4>1, ConcatIndices
      <4>3. (down[d] \o Opening) \o BasicWrites(k) \in Seq(Write)
        BY <4>1, <4>2, ConcatIndices
      <4> QED
        BY <3>1, <4>1, <4>2, <4>3
  <2>2. down[d] \o Opening = Opening
    BY <1>5, <1>6, ConcatEmptySeq
  <2>3. down'[d] = opening
    BY <2>1, <2>2
  <2> QED
    BY <2>1, <2>3
<1> HIDE DEF opening
<1>8. SystemTypeOK'
  <2>1. node_idx' \in Nodes /\ basic_cfg_report_num' \in Nat /\ waiting' \in ReportType
    BY <1>2, <1>5
  <2> QED
    BY <1>1, <1>4, <1>7, <2>1 DEF SystemTypeOK
<1>9. Snapshots'
  BY <1>1, <1>4 DEF Snapshots
<1>10. Earlier'
  <2>1. \A i \in DOMAIN down'[c] : ~Shows(down'[c][i])
    <3>1. /\ down[c] \in Seq(Write) /\ Closing \in Seq(Write)
          /\ \A i \in DOMAIN down[c] : ~Shows(down[c][i])
          /\ \A i \in DOMAIN Closing : ~Shows(Closing[i])
      BY <1>2, <1>3, <1>5, WhatWritesShow
    <3> HIDE DEF c
    <3>2. \A i \in DOMAIN (down[c] \o Closing) : ~Shows((down[c] \o Closing)[i])
      BY <3>1, NothingShown, Zenon
    <3> QED
      BY <1>7, <3>2
  <2>2. \A i \in DOMAIN up' : up'[i].imac = c => up'[i].chip.report_type = CHIP_REG_REPORT
    BY <1>3, <1>4
  <2>3. \A n \in Nodes : n < c =>
          /\ chip[n].report_type = CHIP_REG_REPORT
          /\ \A i \in DOMAIN up' : up'[i].imac = n => up'[i].chip.report_type = CHIP_REG_REPORT
          /\ \A i \in DOMAIN down'[n] : ~Shows(down'[n][i])
    <3> SUFFICES ASSUME NEW n \in Nodes, n < c
                 PROVE  /\ chip[n].report_type = CHIP_REG_REPORT
                        /\ \A i \in DOMAIN up' : up'[i].imac = n =>
                             up'[i].chip.report_type = CHIP_REG_REPORT
                        /\ \A i \in DOMAIN down'[n] : ~Shows(down'[n][i])
      OBVIOUS
    <3>1. /\ chip[n].report_type = CHIP_REG_REPORT
          /\ \A i \in DOMAIN up : up[i].imac = n => up[i].chip.report_type = CHIP_REG_REPORT
          /\ \A i \in DOMAIN down[n] : ~Shows(down[n][i])
      BY <1>1 DEF Earlier
    <3>2. down'[n] = down[n]
      BY <1>2, <1>7
    <3> QED
      BY <1>4, <3>1, <3>2
  <2> QED
    BY <1>2, <1>3, <2>1, <2>2, <2>3 DEF Earlier
<1>11. Later'
  BY <1>1, <1>2, <1>4, <1>7 DEF Later
<1>12. \A i \in DOMAIN up' : up'[i].imac # d
  BY <1>4, <1>6
<1>13. Entering'
  <2> SUFFICES ASSUME k \in Basic PROVE Entering'
    BY DEF Entering
  <2>1. k = 1 /\ k \in Nat
    BY Numbers DEF NextBasic, CHIP_REG_REPORT
  <2>3. \A i \in DOMAIN opening : Shows(opening[i]) => opening[i].val = k /\ i = Len(opening)
    BY <1>5, OpeningShows DEF opening
  <2>4. 1 .. k - 1 = {} /\ chip[d].report_type <= k /\ chip[d].report_type # k
    BY <1>6, <2>1 DEF CHIP_REG_REPORT
  <2> QED
    BY <1>7, <1>12, <2>3, <2>4 DEF Entering
<1>14. Entered'
  <2> SUFFICES ASSUME k \notin Basic PROVE Entered'
    BY DEF Entered
  <2>1. k = CHIP_REG_REPORT /\ Basic = {}
    BY Numbers DEF NextBasic, Basic
  <2>2. \A i \in DOMAIN opening : ~Shows(opening[i])
    BY <1>5, <2>1, WhatWritesShow, NothingShown DEF opening
  <2> QED
    BY <1>7, <1>12, <2>1, <2>2 DEF Entered
<1>15. BasicInPlace'
  <2> SUFFICES ASSUME NEW n \in Nodes, BasicDone(n)'
               PROVE  Basic \subseteq chip[n].tables /\ (SlotLenPreset \/ chip[n].regs)
    BY DEF BasicInPlace
  <2>1. n < d
    BY DEF BasicDone
  <2> QED
    BY <1>1, <1>2, <1>3, <2>1 DEF BasicInPlace, BasicDone
<1> QED
  BY <1>8, <1>9, <1>10, <1>11, <1>13, <1>14, <1>15 DEF IInv

-----------------------------------------------------------------------------
(* The other steps of the controller, and the theorems. *)

LEMMA ReadSnapshots ==
  ASSUME SystemTypeOK, Snapshots, up' = up \/ (up # <<>> /\ up' = Tail(up)), chip' = chip
  PROVE  Snapshots' /\ up' \in Seq([imac : Nodes, chip : Chip])
<1>1. CASE up' = up
  BY <1>1, Typed DEF Snapshots
<1>2. CASE up # <<>> /\ up' = Tail(up)
  <2>1. /\ up' \in Seq([imac : Nodes, chip : Chip])
        /\ \A i \in DOMAIN up' : i + 1 \in DOMAIN up /\ up'[i] = up[i + 1]
    BY <1>2, Popped
  <2> QED
    BY <2>1 DEF Snapshots
<1> QED
  BY <1>1, <1>2

LEMMA Afterwards ==
  ASSUME SystemTypeOK, Snapshots, up' = up \/ (up # <<>> /\ up' = Tail(up)), chip' = chip,
         SystemTypeOK', BasicInPlace', ~InitPhase'
  PROVE  IInv'
BY ReadSnapshots DEF IInv, Earlier, Later, Entering, Entered

LEMMA BasicCfgStep ==
  ASSUME IInv, basic_cfg
  PROVE  IInv'
<1>1. SystemTypeOK /\ Snapshots /\ BasicInPlace /\ InitPhase
  BY DEF IInv, basic_cfg, InitPhase
<1>2. /\ G_STATE = "BASIC_CFG_S" /\ waiting = Loop /\ up # <<>> /\ up' = Tail(up) /\ chip' = chip
      /\ up' \in Seq([imac : Nodes, chip : Chip])
  BY <1>1, Popped DEF basic_cfg
<1>3. CASE basic_cfg_report_num + 1 > ReportLimit
  <2>1. /\ exited' = TRUE /\ basic_cfg_report_num' = basic_cfg_report_num + 1
        /\ UNCHANGED <<G_STATE, node_idx, waiting, down>>
    BY <1>3 DEF basic_cfg
  <2>2. SystemTypeOK'
    BY <1>1, <1>2, <2>1 DEF SystemTypeOK
  <2> QED
    BY <1>2, <2>1, <2>2, Read
<1>4. CASE ~(basic_cfg_report_num + 1 > ReportLimit) /\ ~Reported(Head(up))
  <2>1. /\ basic_cfg_report_num' = basic_cfg_report_num + 1
        /\ UNCHANGED <<G_STATE, exited, node_idx, waiting, down>>
    BY <1>4 DEF basic_cfg
  <2>2. SystemTypeOK'
    BY <1>1, <1>2, <2>1 DEF SystemTypeOK
  <2> QED
    BY <1>2, <2>1, <2>2, Read
<1>5. CASE ~(basic_cfg_report_num + 1 > ReportLimit) /\ Reported(Head(up)) /\ LastNode
  <2>1. /\ G_STATE' = "LOCAL_PLAN_CFG_S"
        /\ down' = [down EXCEPT ![node_idx] = @ \o Closing]
        /\ basic_cfg_report_num' = basic_cfg_report_num + 1
        /\ UNCHANGED <<exited, node_idx, waiting>>
    BY <1>5 DEF basic_cfg
  <2>2. down' \in [Nodes -> Seq(Write)]
    BY <1>1, <2>1, Typed, WritesTyped, Extended
  <2>3. SystemTypeOK'
    BY <1>1, <1>2, <2>1, <2>2 DEF SystemTypeOK
  <2>4. BasicInPlace'
    <3> SUFFICES ASSUME NEW n \in Nodes
                 PROVE  Basic \subseteq chip[n].tables /\ (SlotLenPreset \/ chip[n].regs)
      BY <1>2 DEF BasicInPlace
    <3>1. n < node_idx \/ n = node_idx
      <4>1. /\ n \in 0 .. cur_node_num - 1 /\ node_idx \in 0 .. cur_node_num - 1
            /\ cur_node_num \in Nat /\ node_idx >= cur_node_num - 1
        BY <1>1, <1>5, Typed, Numbers DEF Nodes, LastNode
      <4> QED
        BY <4>1
    <3>2. CASE n < node_idx
      BY <1>1, <3>2 DEF BasicInPlace, BasicDone
    <3>3. CASE n = node_idx
      BY <1>1, <1>2, <1>5, <3>3, Accepted
    <3> QED
      BY <3>1, <3>2, <3>3
  <2> QED
    BY <1>1, <1>2, <2>1, <2>3, <2>4, Afterwards DEF InitPhase
<1>6. CASE ~(basic_cfg_report_num + 1 > ReportLimit) /\ Reported(Head(up)) /\ ~LastNode
  <2>1. /\ basic_cfg_report_num' = 0
        /\ node_idx' = node_idx + 1
        /\ waiting' = NextBasic(0)
        /\ down' = [down EXCEPT ![node_idx] = @ \o Closing,
                                ![node_idx + 1] = @ \o Opening \o BasicWrites(NextBasic(0))]
        /\ UNCHANGED <<G_STATE, exited>>
    BY <1>6 DEF basic_cfg
  <2> QED
    BY <1>2, <1>6, <2>1, NextNode
<1> QED
  BY <1>3, <1>4, <1>5, <1>6

LEMMA LocalCfgStep ==
  ASSUME IInv, local_cfg
  PROVE  IInv'
<1>1. /\ SystemTypeOK /\ Snapshots /\ BasicInPlace
      /\ G_STATE = "LOCAL_PLAN_CFG_S" /\ waiting = Loop
      /\ up' = up \/ (up # <<>> /\ up' = Tail(up))
      /\ node_idx' = 0 /\ waiting' = Entries + 1
      /\ down' = [down EXCEPT ![0] = @ \o PlanWrites(Entries + 1)]
      /\ UNCHANGED <<G_STATE, exited, basic_cfg_report_num, chip>>
  BY DEF IInv, local_cfg
<1>2. Entries + 1 \in ReportType
  BY Numbers DEF ReportType, Local
<1>3. down' \in [Nodes -> Seq(Write)]
  BY <1>1, <1>2, Numbers, Typed, WritesTyped, Extended
<1>4. SystemTypeOK'
  BY <1>1, <1>2, <1>3, Numbers, ReadSnapshots DEF SystemTypeOK
<1>5. BasicInPlace'
  BY <1>1 DEF BasicInPlace, BasicDone
<1> QED
  BY <1>1, <1>4, <1>5, Afterwards DEF InitPhase

LEMMA PlanConfirmedStep ==
  ASSUME IInv, PlanConfirmed
  PROVE  IInv'
<1>1. /\ SystemTypeOK /\ Snapshots /\ BasicInPlace
      /\ G_STATE = "LOCAL_PLAN_CFG_S" /\ waiting # Loop
      /\ up # <<>> /\ up' = Tail(up)
      /\ UNCHANGED <<exited, basic_cfg_report_num, chip>>
  BY DEF IInv, PlanConfirmed
<1>2. /\ node_idx \in Nodes /\ waiting \in ReportType /\ down \in [Nodes -> Seq(Write)]
      /\ up' \in Seq([imac : Nodes, chip : Chip])
  BY <1>1, Typed, Popped
<1>3. /\ G_STATE' \in {"LOCAL_PLAN_CFG_S", "SYNC_INIT_S"}
      /\ node_idx' \in Nodes /\ waiting' \in ReportType \cup {Loop}
      /\ down' \in [Nodes -> Seq(Write)]
  <2>1. CASE waiting < Entries + Blocks
    <3>1. /\ waiting' = waiting + 1
          /\ down' = [down EXCEPT ![node_idx] = @ \o PlanWrites(waiting + 1)]
          /\ UNCHANGED <<G_STATE, node_idx>>
      BY <2>1 DEF PlanConfirmed
    <3>2. waiting + 1 \in ReportType
      BY <1>2, <2>1, Numbers DEF ReportType, Local, Basic
    <3> QED
      BY <1>1, <1>2, <3>1, <3>2, WritesTyped, Extended
  <2>2. CASE ~(waiting < Entries + Blocks) /\ node_idx < cur_node_num - 1
    <3>1. /\ node_idx' = node_idx + 1
          /\ waiting' = Entries + 1
          /\ down' = [down EXCEPT ![node_idx] = @ \o PlanClosing,
                                  ![node_idx + 1] = @ \o PlanWrites(Entries + 1)]
          /\ UNCHANGED G_STATE
      BY <2>2 DEF PlanConfirmed
    <3>2. Entries + 1 \in ReportType
      BY Numbers DEF ReportType, Local
    <3>3. node_idx + 1 \in Nodes /\ node_idx # node_idx + 1
      BY <1>2, <2>2, Numbers DEF Nodes
    <3>4. PlanClosing \in Seq(Write) /\ PlanWrites(Entries + 1) \in Seq(Write)
      BY <3>2, WritesTyped
    <3> QED
      BY <1>1, <1>2, <3>1, <3>2, <3>3, <3>4, TwiceExtended
  <2>3. CASE ~(waiting < Entries + Blocks) /\ ~(node_idx < cur_node_num - 1)
    <3>1. /\ G_STATE' = "SYNC_INIT_S"
          /\ waiting' = Loop
          /\ down' = [down EXCEPT ![node_idx] = @ \o PlanClosing]
          /\ UNCHANGED node_idx
      BY <2>3 DEF PlanConfirmed
    <3> QED
      BY <1>2, <3>1, WritesTyped, Extended
  <2> QED
    BY <2>1, <2>2, <2>3
<1>4. SystemTypeOK'
  BY <1>1, <1>2, <1>3 DEF SystemTypeOK
<1>5. BasicInPlace'
  BY <1>1 DEF BasicInPlace, BasicDone
<1> QED
  BY <1>1, <1>3, <1>4, <1>5, Afterwards DEF InitPhase

LEMMA InitIInv == Init => IInv
<1> SUFFICES ASSUME Init PROVE IInv
  OBVIOUS
<1> DEFINE k == NextBasic(0)
           opening == Opening \o BasicWrites(k)
<1>1. /\ Opening \in Seq(Write) /\ k \in ReportType /\ BasicWrites(k) \in Seq(Write)
      /\ opening \in Seq(Write)
  <2>1. Opening \in Seq(Write) /\ k \in ReportType /\ BasicWrites(k) \in Seq(Write)
    BY WritesTyped
  <2> QED
    BY <2>1, ConcatIndices
<1>2. Reset \in Chip /\ Reset.report_type = CHIP_REG_REPORT /\ ~Reset.addressed
  BY DEF Reset, Chip, ReportType
<1>3. /\ chip \in [Nodes -> Chip] /\ \A n \in Nodes : chip[n] = Reset
      /\ down \in [Nodes -> Seq(Write)] /\ down[0] = opening
      /\ \A n \in Nodes : n > 0 => down[n] = <<>>
  <2> HIDE DEF opening
  <2>1. chip = [n \in Nodes |-> Reset] /\ down = [n \in Nodes |-> IF n = 0 THEN opening ELSE <<>>]
    BY DEF Init, opening
  <2>2. <<>> \in Seq(Write)
    BY EmptySeq
  <2> QED
    BY <1>1, <1>2, <2>1, <2>2, Numbers
<1>4. /\ G_STATE = "INIT_S" /\ exited = FALSE /\ node_idx = 0 /\ waiting = k
      /\ basic_cfg_report_num = 0 /\ up = <<>>
  BY DEF Init
<1>5. SystemTypeOK
  <2>1. <<>> \in Seq([imac : Nodes, chip : Chip])
    BY EmptySeq
  <2> QED
    BY <1>1, <1>3, <1>4, <2>1, Numbers DEF SystemTypeOK
<1>6. DOMAIN up = {}
  BY <1>4
<1>7. Snapshots
  BY <1>6 DEF Snapshots
<1>8. Earlier
  BY <1>4 DEF Earlier, Nodes
<1>9. Later
  BY <1>2, <1>3, <1>4, <1>6 DEF Later
<1> HIDE DEF opening
<1>10. Entering
  <2> SUFFICES ASSUME k \in Basic PROVE Entering
    BY <1>4 DEF Entering
  <2>1. k = 1 /\ k \in Nat
    BY Numbers DEF NextBasic, CHIP_REG_REPORT
  <2>2. \A i \in DOMAIN opening : Shows(opening[i]) => opening[i].val = k /\ i = Len(opening)
    BY <1>1, OpeningShows DEF opening
  <2>3. 1 .. k - 1 = {} /\ Reset.report_type <= k /\ Reset.report_type # k
    BY <1>2, <2>1 DEF CHIP_REG_REPORT
  <2> QED
    BY <1>3, <1>4, <1>6, <2>2, <2>3, Numbers DEF Entering
<1>11. Entered
  <2> SUFFICES ASSUME k \notin Basic PROVE Entered
    BY <1>4 DEF Entered
  <2>1. k = CHIP_REG_REPORT /\ Basic = {}
    BY Numbers DEF NextBasic, Basic
  <2>2. \A i \in DOMAIN opening : ~Shows(opening[i])
    BY <1>1, <2>1, WhatWritesShow, NothingShown DEF opening
  <2> QED
    BY <1>3, <1>4, <1>6, <2>1, <2>2 DEF Entered
<1>12. BasicInPlace
  BY <1>4 DEF BasicInPlace, BasicDone, Nodes
<1> QED
  BY <1>5, <1>7, <1>8, <1>9, <1>10, <1>11, <1>12 DEF IInv

LEMMA NextIInv == IInv /\ [Next]_vars => IInv'
<1> SUFFICES ASSUME IInv, [Next]_vars PROVE IInv'
  OBVIOUS
<1>1. CASE Controller
  BY <1>1, WaitOnStep, InitConfirmedStep, BasicCfgStep, LocalCfgStep, PlanConfirmedStep DEF Controller
<1>2. ASSUME NEW n \in Nodes, ChipStep(n) PROVE IInv'
  <2>1. /\ down[n] # <<>> /\ down' = [down EXCEPT ![n] = Tail(@)]
        /\ chip' = [chip EXCEPT ![n] = Apply(chip[n], Head(down[n]))]
        /\ UNCHANGED <<G_STATE, exited, node_idx, waiting, basic_cfg_report_num, up>>
    BY <1>2 DEF ChipStep
  <2> QED
    BY <2>1, WriteGone
<1>3. ASSUME NEW n \in Nodes, Beacon(n) PROVE IInv'
  BY <1>3, BeaconStep
<1>4. ASSUME NEW n \in Nodes, LoseWrite(n) PROVE IInv'
  <2>1. /\ down[n] # <<>> /\ down' = [down EXCEPT ![n] = Tail(@)] /\ chip' = chip
        /\ UNCHANGED <<G_STATE, exited, node_idx, waiting, basic_cfg_report_num, up>>
    BY <1>4 DEF LoseWrite
  <2> QED
    BY <2>1, WriteGone
<1>5. CASE UNCHANGED vars
  BY <1>5 DEF vars, system, IInv, SystemTypeOK, Snapshots, Earlier, Later, Entering, Entered, InitPhase,
              BasicInPlace, BasicDone
<1> QED
  BY <1>1, <1>2, <1>3, <1>4, <1>5 DEF Next

LEMMA Invariant == Spec => []IInv
BY InitIInv, NextIInv, PTL DEF Spec

(* The controller, the chips' registers and everything on its way between
   them stay within their ranges. *)
THEOREM TypeCorrect == Spec => []TypeOK
<1>1. Init => lost \in BOOLEAN
  BY DEF Init
<1>2. lost \in BOOLEAN /\ [Next]_vars => (lost \in BOOLEAN)'
  BY DEF Next, LoseWrite, vars
<1>3. IInv /\ lost \in BOOLEAN => TypeOK
  BY DEF IInv, TypeOK
<1> QED
  BY <1>1, <1>2, <1>3, Invariant, PTL DEF Spec

(* Whatever writes are lost and however old the beacons are that are read,
   a node that init_cfg_fun and basic_cfg are done with has every forwarding
   entry of the basic configuration (init_cfg_fun, basic_cfg). *)
THEOREM EntriesArrive == Spec => []BasicInPlace
<1>1. IInv => BasicInPlace
  BY DEF IInv
<1> QED
  BY <1>1, Invariant, PTL

-----------------------------------------------------------------------------
(* QuietWhenDone, if no write is lost. *)

LEMMA SameQuiet ==
  ASSUME NEW n \in Nodes, Quiet(n), chip'[n] = chip[n], down'[n] = down[n]
  PROVE  Quiet(n)'
BY DEF Quiet

LEMMA ClosedQuiet ==
  ASSUME NEW n \in Nodes, NEW s \in Seq(Write), NEW t \in {Closing, PlanClosing},
         down'[n] = s \o t
  PROVE  Quiet(n)'
<1>1. /\ t \in Seq(Write) /\ DOMAIN t = 1 .. 2 /\ Len(t) = 2
      /\ t[1] = W("REPORT_EN", 0) /\ ~Enables(t[2])
  <2>1. t \in Seq(Write)
    BY WritesTyped
  <2>2. /\ DOMAIN Closing = 1 .. 2 /\ Len(Closing) = 2
        /\ Closing[1] = W("REPORT_EN", 0) /\ Closing[2] = W("CFG_STATE", 2)
    BY DEF Closing
  <2>3. /\ DOMAIN PlanClosing = 1 .. 2 /\ Len(PlanClosing) = 2
        /\ PlanClosing[1] = W("REPORT_EN", 0) /\ PlanClosing[2] = W("CFG_STATE", 3)
    BY DEF PlanClosing
  <2>4. ~Enables(W("CFG_STATE", 2)) /\ ~Enables(W("CFG_STATE", 3))
    BY DEF Enables, W
  <2> QED
    BY <2>1, <2>2, <2>3, <2>4
<1>2. /\ Len(s) \in Nat /\ DOMAIN s = 1 .. Len(s)
      /\ 1 + Len(s) \in DOMAIN (s \o t) /\ (s \o t)[1 + Len(s)] = W("REPORT_EN", 0)
      /\ \A j \in DOMAIN (s \o t) :
           \/ j \in DOMAIN s
           \/ j > Len(s) /\ j - Len(s) \in DOMAIN t /\ (s \o t)[j] = t[j - Len(s)]
      /\ \A j \in DOMAIN (s \o t) : j \in Nat
  <2>1. /\ Len(s) \in Nat /\ DOMAIN s = 1 .. Len(s) /\ s \o t \in Seq(Write)
        /\ \A j \in DOMAIN (s \o t) :
             \/ j \in DOMAIN s
             \/ j > Len(s) /\ j - Len(s) \in DOMAIN t /\ (s \o t)[j] = t[j - Len(s)]
        /\ \A i \in DOMAIN t : i + Len(s) \in DOMAIN (s \o t) /\ (s \o t)[i + Len(s)] = t[i]
    <3>1. s \in Seq(Write) /\ t \in Seq(Write)
      BY <1>1
    <3> HIDE DEF Write
    <3> QED
      BY <3>1, ConcatIndices
  <2>2. \A j \in DOMAIN (s \o t) : j \in Nat
    BY <2>1, LenProperties
  <2>3. 1 \in DOMAIN t
    BY <1>1
  <2> QED
    BY <1>1, <2>1, <2>2, <2>3
<1>3. ASSUME NEW j \in DOMAIN (s \o t), j > 1 + Len(s) PROVE ~Enables((s \o t)[j])
  <2>1. j - Len(s) = 2 /\ (s \o t)[j] = t[j - Len(s)]
    BY <1>1, <1>2, <1>3
  <2> QED
    BY <1>1, <2>1
<1> QED
  BY <1>2, <1>3 DEF Quiet

LEMMA ChipStepQuiet ==
  ASSUME QuietInv, NEW n \in Nodes, ChipStep(n), SystemTypeOK'
  PROVE  QuietInv'
<1>1. /\ SystemTypeOK /\ down[n] # <<>> /\ down' = [down EXCEPT ![n] = Tail(@)]
      /\ chip' = [chip EXCEPT ![n] = Apply(chip[n], Head(down[n]))]
      /\ UNCHANGED <<G_STATE, exited, node_idx, waiting, basic_cfg_report_num, up>>
  BY DEF QuietInv, ChipStep
<1>2. /\ \A m \in Nodes \ {n} : chip'[m] = chip[m] /\ down'[m] = down[m]
      /\ Head(down[n]) = down[n][1] /\ 1 \in DOMAIN down[n] /\ down[n][1] \in Write
      /\ \A i \in DOMAIN down'[n] : /\ i \in Nat /\ i + 1 \in DOMAIN down[n]
                                    /\ down'[n][i] = down[n][i + 1]
      /\ \A i \in DOMAIN down[n] : i = 1 \/ (i - 1 \in DOMAIN down'[n] /\ down'[n][i - 1] = down[n][i])
      /\ down[n] \in Seq(Write)
  BY <1>1, Chipped
<1>3. chip \in [Nodes -> Chip] /\ chip[n] \in Chip
  BY <1>1, Typed
<1>4. /\ chip'[n] = Apply(chip[n], down[n][1])
      /\ down[n][1] = W("REPORT_EN", 0) => chip'[n].report_enable = 0
      /\ ~Enables(down[n][1]) /\ chip[n].report_enable = 0 => chip'[n].report_enable = 0
  <2>1. chip'[n] = Apply(chip[n], down[n][1])
    BY <1>1, <1>2, <1>3
  <2> QED
    BY <1>2, <1>3, <2>1, Applied
<1>5. ASSUME Quiet(n) PROVE Quiet(n)'
  <2>1. CASE chip[n].report_enable = 0 /\ \A i \in DOMAIN down[n] : ~Enables(down[n][i])
    BY <1>2, <1>4, <2>1 DEF Quiet
  <2>2. ASSUME NEW i \in DOMAIN down[n], down[n][i] = W("REPORT_EN", 0),
               \A j \in DOMAIN down[n] : j > i => ~Enables(down[n][j])
        PROVE  Quiet(n)'
    <3>1. DOMAIN down[n] = 1 .. Len(down[n]) /\ Len(down[n]) \in Nat
      BY <1>2, LenProperties
    <3>2. CASE i = 1
      <4>1. ASSUME NEW j \in DOMAIN down'[n] PROVE ~Enables(down'[n][j])
        <5>1. j \in Nat /\ j + 1 \in DOMAIN down[n] /\ down'[n][j] = down[n][j + 1]
          BY <1>2
        <5>2. j # 0
          <6>1. down'[n] \in Seq(Write)
            BY Typed DEF SystemTypeOK
          <6>2. DOMAIN down'[n] = 1 .. Len(down'[n])
            BY <6>1, LenProperties
          <6> QED
            BY <6>2
        <5> QED
          BY <2>2, <3>2, <5>1, <5>2
      <4> QED
        BY <1>4, <2>2, <3>2, <4>1 DEF Quiet
    <3>3. CASE i # 1
      <4>1. i - 1 \in DOMAIN down'[n] /\ down'[n][i - 1] = W("REPORT_EN", 0) /\ i \in Nat
        BY <1>2, <2>2, <3>1, <3>3
      <4>2. ASSUME NEW j \in DOMAIN down'[n], j > i - 1 PROVE ~Enables(down'[n][j])
        <5>1. j \in Nat /\ j + 1 \in DOMAIN down[n] /\ down'[n][j] = down[n][j + 1]
          BY <1>2
        <5>2. j + 1 > i
          BY <4>1, <4>2, <5>1
        <5> QED
          BY <2>2, <5>1, <5>2
      <4> QED
        BY <4>1, <4>2 DEF Quiet
    <3> QED
      BY <3>2, <3>3
  <2> QED
    BY <1>5, <2>1, <2>2 DEF Quiet
<1>6. ASSUME NEW m \in Nodes, Between(m)' PROVE Quiet(m)'
  <2>1. Quiet(m)
    BY <1>1, <1>6 DEF QuietInv, StaysQuiet, Between, PlanDone
  <2>2. CASE m = n
    BY <1>5, <2>1, <2>2
  <2>3. CASE m # n
    BY <1>2, <2>1, <2>3, SameQuiet
  <2> QED
    BY <2>2, <2>3
<1> QED
  BY <1>1, <1>6 DEF QuietInv, StaysQuiet

LEMMA ControllerQuiet ==
  ASSUME QuietInv, SystemTypeOK', chip' = chip,
         \A n \in Nodes : Between(n)' => Quiet(n)' \/ (Between(n) /\ down'[n] = down[n]),
         G_STATE' = "INIT_S" => node_idx' = 0
  PROVE  QuietInv'
<1>1. ASSUME NEW n \in Nodes, Between(n)' PROVE Quiet(n)'
  <2>1. CASE Between(n) /\ down'[n] = down[n]
    <3>1. Quiet(n)
      BY <2>1 DEF QuietInv, StaysQuiet
    <3> QED
      BY <2>1, <3>1, SameQuiet
  <2> QED
    BY <1>1, <2>1
<1> QED
  BY <1>1 DEF QuietInv, StaysQuiet

LEMMA InitConfirmedQuiet ==
  ASSUME QuietInv, InitConfirmed, SystemTypeOK'
  PROVE  QuietInv'
<1>1. /\ SystemTypeOK /\ node_idx \in Nodes /\ node_idx \in Nat /\ down \in [Nodes -> Seq(Write)]
      /\ G_STATE = "INIT_S" => node_idx = 0
      /\ G_STATE' = G_STATE \/ G_STATE' = "BASIC_CFG_S"
      /\ G_STATE \in {"INIT_S", "BASIC_CFG_S"}
      /\ chip' = chip /\ node_idx' = node_idx
      /\ \A n \in Nodes : n \in Nat
  BY Typed DEF QuietInv, StaysQuiet, InitConfirmed, Nodes
<1>2. \A n \in Nodes \ {node_idx} : down'[n] = down[n]
  BY <1>1 DEF InitConfirmed
<1>3. \A n \in Nodes : Between(n)' => n # node_idx /\ Between(n)
  BY <1>1 DEF Between, PlanDone
<1>4. /\ \A n \in Nodes : Between(n)' => Quiet(n)' \/ (Between(n) /\ down'[n] = down[n])
      /\ G_STATE' = "INIT_S" => node_idx' = 0
  BY <1>1, <1>2, <1>3
<1> QED
  BY <1>1, <1>4, ControllerQuiet

LEMMA BasicCfgQuiet ==
  ASSUME QuietInv, basic_cfg, SystemTypeOK'
  PROVE  QuietInv'
<1>0. SystemTypeOK /\ G_STATE = "BASIC_CFG_S" /\ waiting = Loop /\ chip' = chip
  BY DEF QuietInv, basic_cfg
<1>1. /\ SystemTypeOK /\ node_idx \in Nodes /\ node_idx \in Nat /\ down \in [Nodes -> Seq(Write)]
      /\ \A n \in Nodes : n \in Nat /\ down[n] \in Seq(Write)
      /\ G_STATE = "BASIC_CFG_S" /\ waiting = Loop /\ chip' = chip
  <2>1. node_idx \in Nodes /\ down \in [Nodes -> Seq(Write)]
    BY <1>0, Typed
  <2>2. \A n \in Nodes : n \in Nat
    BY Numbers DEF Nodes
  <2> QED
    BY <1>0, <2>1, <2>2
<1>2. CASE basic_cfg_report_num + 1 > ReportLimit \/ ~Reported(Head(up))
  <2>1. UNCHANGED <<G_STATE, node_idx, waiting, down>>
    BY <1>2 DEF basic_cfg
  <2> QED
    BY <1>1, <2>1 DEF QuietInv, StaysQuiet, Between, PlanDone, Quiet
<1>3. CASE ~(basic_cfg_report_num + 1 > ReportLimit) /\ Reported(Head(up)) /\ LastNode
  <2>1. /\ G_STATE' = "LOCAL_PLAN_CFG_S" /\ UNCHANGED <<node_idx, waiting>>
        /\ down' = [down EXCEPT ![node_idx] = @ \o Closing]
    BY <1>3 DEF basic_cfg
  <2>2. down'[node_idx] = down[node_idx] \o Closing /\ \A n \in Nodes \ {node_idx} : down'[n] = down[n]
    BY <1>1, <2>1
  <2>3. \A n \in Nodes : n = node_idx => Quiet(n)'
    BY <1>1, <2>2, ClosedQuiet
  <2>4. \A n \in Nodes : n # node_idx => Between(n)
    BY <1>1, <1>3, Numbers DEF Between, LastNode, Nodes
  <2>5. /\ \A n \in Nodes : Between(n)' => Quiet(n)' \/ (Between(n) /\ down'[n] = down[n])
        /\ G_STATE' = "INIT_S" => node_idx' = 0
    <3>1. ASSUME NEW n \in Nodes PROVE Quiet(n)' \/ (Between(n) /\ down'[n] = down[n])
      <4>1. CASE n = node_idx
        BY <2>3, <4>1
      <4>2. CASE n # node_idx
        BY <2>2, <2>4, <4>2
      <4> QED
        BY <4>1, <4>2
    <3> QED
      BY <2>1, <3>1
  <2> QED
    BY <1>1, <2>5, ControllerQuiet
<1>4. CASE ~(basic_cfg_report_num + 1 > ReportLimit) /\ Reported(Head(up)) /\ ~LastNode
  <2>1. /\ G_STATE' = G_STATE /\ node_idx' = node_idx + 1
        /\ down' = [down EXCEPT ![node_idx] = @ \o Closing,
                                ![node_idx + 1] = @ \o Opening \o BasicWrites(NextBasic(0))]
    BY <1>4 DEF basic_cfg
  <2>2. /\ down'[node_idx] = down[node_idx] \o Closing
        /\ \A n \in Nodes \ {node_idx, node_idx + 1} : down'[n] = down[n]
    <3>1. node_idx + 1 \in Nodes /\ node_idx # node_idx + 1
      BY <1>1, <1>4, Numbers DEF LastNode, Nodes
    <3>2. /\ down[node_idx] \o Closing \in Seq(Write)
          /\ (down[node_idx + 1] \o Opening) \o BasicWrites(NextBasic(0)) \in Seq(Write)
      <4>1. /\ Closing \in Seq(Write) /\ Opening \in Seq(Write)
            /\ BasicWrites(NextBasic(0)) \in Seq(Write)
            /\ down[node_idx] \in Seq(Write) /\ down[node_idx + 1] \in Seq(Write)
        BY <1>1, <3>1, WritesTyped
      <4>2. down[node_idx + 1] \o Opening \in Seq(Write)
        BY <4>1, ConcatIndices
      <4> QED
        BY <4>1, <4>2, ConcatIndices
    <3> DEFINE s == (down[node_idx + 1] \o Opening) \o BasicWrites(NextBasic(0))
               r == down[node_idx] \o Closing
    <3>3. down' = [down EXCEPT ![node_idx] = r, ![node_idx + 1] = s]
      BY <1>1, <2>1, <3>1
    <3>4. r \in Seq(Write) /\ s \in Seq(Write)
      BY <3>2
    <3> HIDE DEF r, s
    <3>5. down'[node_idx] = r /\ \A n \in Nodes \ {node_idx, node_idx + 1} : down'[n] = down[n]
      BY <1>1, <3>1, <3>3, <3>4
    <3> QED
      BY <3>5 DEF r
  <2>3. \A n \in Nodes : n = node_idx => Quiet(n)'
    BY <1>1, <2>2, ClosedQuiet
  <2>4. \A n \in Nodes : Between(n)' =>
          n = node_idx \/ (n \notin {node_idx, node_idx + 1} /\ Between(n))
    BY <1>1, <2>1 DEF Between, PlanDone
  <2>5. /\ \A n \in Nodes : Between(n)' => Quiet(n)' \/ (Between(n) /\ down'[n] = down[n])
        /\ G_STATE' = "INIT_S" => node_idx' = 0
    <3>1. ASSUME NEW n \in Nodes, Between(n)' PROVE Quiet(n)' \/ (Between(n) /\ down'[n] = down[n])
      <4>1. CASE n = node_idx
        BY <2>3, <4>1
      <4>2. CASE n # node_idx
        BY <2>2, <2>4, <3>1, <4>2
      <4> QED
        BY <4>1, <4>2
    <3> QED
      BY <1>1, <2>1, <3>1
  <2> QED
    BY <1>1, <2>5, ControllerQuiet
<1> QED
  BY <1>2, <1>3, <1>4

LEMMA LocalCfgQuiet ==
  ASSUME QuietInv, local_cfg, SystemTypeOK'
  PROVE  QuietInv'
<1>1. /\ SystemTypeOK /\ down \in [Nodes -> Seq(Write)] /\ \A n \in Nodes : n \in Nat
      /\ G_STATE = "LOCAL_PLAN_CFG_S" /\ waiting = Loop
      /\ node_idx' = 0 /\ waiting' = Entries + 1 /\ waiting' # Loop
      /\ down' = [down EXCEPT ![0] = @ \o PlanWrites(Entries + 1)]
      /\ G_STATE' = G_STATE /\ chip' = chip
  BY Typed, Numbers DEF QuietInv, local_cfg, Nodes, Loop
<1>2. \A n \in Nodes \ {0} : down'[n] = down[n]
  BY <1>1
<1>3. \A n \in Nodes : Between(n)' => n # 0 /\ Between(n)
  BY <1>1 DEF Between, PlanDone
<1>4. /\ \A n \in Nodes : Between(n)' => Quiet(n)' \/ (Between(n) /\ down'[n] = down[n])
      /\ G_STATE' = "INIT_S" => node_idx' = 0
  BY <1>1, <1>2, <1>3
<1> QED
  BY <1>1, <1>4, ControllerQuiet

LEMMA PlanConfirmedQuiet ==
  ASSUME QuietInv, PlanConfirmed, SystemTypeOK'
  PROVE  QuietInv'
<1>1. /\ SystemTypeOK /\ node_idx \in Nodes /\ node_idx \in Nat /\ down \in [Nodes -> Seq(Write)]
      /\ \A n \in Nodes : n \in Nat /\ down[n] \in Seq(Write)
      /\ G_STATE = "LOCAL_PLAN_CFG_S" /\ waiting # Loop /\ chip' = chip
      /\ waiting \in Nat
  BY Typed, Numbers DEF QuietInv, PlanConfirmed, Nodes
<1>2. CASE waiting < Entries + Blocks
  <2>1. /\ waiting' = waiting + 1 /\ waiting' # Loop /\ G_STATE' = G_STATE /\ node_idx' = node_idx
        /\ down' = [down EXCEPT ![node_idx] = @ \o PlanWrites(waiting + 1)]
    BY <1>1, <1>2 DEF PlanConfirmed, Loop
  <2>2. \A n \in Nodes \ {node_idx} : down'[n] = down[n]
    BY <1>1, <2>1
  <2>3. \A n \in Nodes : Between(n)' => n # node_idx /\ Between(n)
    BY <1>1, <2>1 DEF Between, PlanDone
  <2>4. /\ \A n \in Nodes : Between(n)' => Quiet(n)' \/ (Between(n) /\ down'[n] = down[n])
        /\ G_STATE' = "INIT_S" => node_idx' = 0
    BY <1>1, <2>1, <2>2, <2>3
  <2> QED
    BY <1>1, <2>4, ControllerQuiet
<1>3. CASE ~(waiting < Entries + Blocks) /\ node_idx < cur_node_num - 1
  <2>1. /\ node_idx' = node_idx + 1 /\ waiting' = Entries + 1 /\ waiting' # Loop
        /\ down' = [down EXCEPT ![node_idx] = @ \o PlanClosing,
                                ![node_idx + 1] = @ \o PlanWrites(Entries + 1)]
        /\ G_STATE' = G_STATE
    <3>1. /\ node_idx' = node_idx + 1 /\ waiting' = Entries + 1
          /\ down' = [down EXCEPT ![node_idx] = @ \o PlanClosing,
                                  ![node_idx + 1] = @ \o PlanWrites(Entries + 1)]
          /\ G_STATE' = G_STATE
      BY <1>3 DEF PlanConfirmed
    <3>2. Entries + 1 # Loop
      BY Numbers DEF Loop
    <3> QED
      BY <3>1, <3>2
  <2>2. /\ down'[node_idx] = down[node_idx] \o PlanClosing
        /\ \A n \in Nodes \ {node_idx, node_idx + 1} : down'[n] = down[n]
    <3>1. node_idx + 1 \in Nodes /\ node_idx # node_idx + 1 /\ Entries + 1 \in ReportType
      BY <1>1, <1>3, Numbers, NetConfigAssumption DEF Nodes, ReportType, Local
    <3>2. PlanClosing \in Seq(Write) /\ PlanWrites(Entries + 1) \in Seq(Write)
      BY <3>1, WritesTyped
    <3> QED
      BY <1>1, <2>1, <3>1, <3>2, TwiceExtended
  <2>3. \A n \in Nodes : n = node_idx => Quiet(n)'
    BY <1>1, <2>2, ClosedQuiet
  <2>4. \A n \in Nodes : Between(n)' =>
          n = node_idx \/ (n \notin {node_idx, node_idx + 1} /\ Between(n))
    BY <1>1, <2>1 DEF Between, PlanDone
  <2>5. /\ \A n \in Nodes : Between(n)' => Quiet(n)' \/ (Between(n) /\ down'[n] = down[n])
        /\ G_STATE' = "INIT_S" => node_idx' = 0
    <3>1. ASSUME NEW n \in Nodes, Between(n)' PROVE Quiet(n)' \/ (Between(n) /\ down'[n] = down[n])
      <4>1. CASE n = node_idx
        BY <2>3, <4>1
      <4>2. CASE n # node_idx
        BY <2>2, <2>4, <3>1, <4>2
      <4> QED
        BY <4>1, <4>2
    <3> QED
      BY <1>1, <2>1, <3>1
  <2> QED
    BY <1>1, <2>5, ControllerQuiet
<1>4. CASE ~(waiting < Entries + Blocks) /\ ~(node_idx < cur_node_num - 1)
  <2>1. /\ G_STATE' = "SYNC_INIT_S" /\ node_idx' = node_idx
        /\ down' = [down EXCEPT ![node_idx] = @ \o PlanClosing]
    BY <1>4 DEF PlanConfirmed
  <2>2. /\ down'[node_idx] = down[node_idx] \o PlanClosing
        /\ \A n \in Nodes \ {node_idx} : down'[n] = down[n]
    BY <1>1, <2>1
  <2>3. \A n \in Nodes : n = node_idx => Quiet(n)'
    BY <1>1, <2>2, ClosedQuiet
  <2>4. \A n \in Nodes : n # node_idx => Between(n)
    BY <1>1, <1>4, Numbers DEF Between, PlanDone, Nodes
  <2>5. /\ \A n \in Nodes : Between(n)' => Quiet(n)' \/ (Between(n) /\ down'[n] = down[n])
        /\ G_STATE' = "INIT_S" => node_idx' = 0
    <3>1. ASSUME NEW n \in Nodes PROVE Quiet(n)' \/ (Between(n) /\ down'[n] = down[n])
      <4>1. CASE n = node_idx
        BY <2>3, <4>1
      <4>2. CASE n # node_idx
        BY <2>2, <2>4, <4>2
      <4> QED
        BY <4>1, <4>2
    <3> QED
      BY <2>1, <3>1
  <2> QED
    BY <1>1, <2>5, ControllerQuiet
<1> QED
  BY <1>2, <1>3, <1>4

LEMMA NextQuiet ==
  ASSUME QuietInv, SystemTypeOK', [Next]_vars, ~lost'
  PROVE  QuietInv'
<1>1. CASE WaitOn
  BY <1>1 DEF WaitOn, QuietInv, StaysQuiet, Between, PlanDone, Quiet
<1>2. CASE InitConfirmed \/ basic_cfg \/ local_cfg \/ PlanConfirmed
  BY <1>2, InitConfirmedQuiet, BasicCfgQuiet, LocalCfgQuiet, PlanConfirmedQuiet
<1>3. ASSUME NEW n \in Nodes, ChipStep(n) PROVE QuietInv'
  BY <1>3, ChipStepQuiet
<1>4. ASSUME NEW n \in Nodes, Beacon(n) PROVE QuietInv'
  BY <1>4 DEF Beacon, QuietInv, StaysQuiet, Between, PlanDone, Quiet
<1>5. ASSUME NEW n \in Nodes PROVE ~LoseWrite(n)
  BY DEF LoseWrite
<1>6. CASE UNCHANGED vars
  BY <1>6 DEF vars, system, QuietInv, StaysQuiet, Between, PlanDone, Quiet
<1> QED
  BY <1>1, <1>2, <1>3, <1>4, <1>5, <1>6 DEF Next, Controller

(* As long as no write was lost, a node that is configured is silent or the
   write that silences it is on its way, so that at most the node being
   configured can answer for good (basic_cfg, parse_offline_plan_node). *)
THEOREM DoneIsQuiet == Spec => []QuietWhenDone
<1> DEFINE I == ~lost => StaysQuiet
<1>1. Init => I
  BY DEF Init, StaysQuiet, Between, PlanDone
<1>2. TypeOK /\ I /\ TypeOK' /\ [Next]_vars => I'
  <2>1. ASSUME [Next]_vars, ~lost' PROVE ~lost
    BY <2>1 DEF Next, LoseWrite, vars
  <2> QED
    BY <2>1, NextQuiet DEF QuietInv, TypeOK
<1>3. I => QuietWhenDone
  BY DEF StaysQuiet, Quiet, QuietWhenDone
<1> HIDE DEF I
<1> QED
  BY <1>1, <1>2, <1>3, TypeCorrect, PTL DEF Spec

=============================================================================
