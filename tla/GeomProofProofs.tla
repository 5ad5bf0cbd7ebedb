--------------------------- MODULE GeomProofProofs ---------------------------
(***************************************************************************)
(* Theorems about the trace and its commitment and about GeomProof, on     *)
(* those about trees and batches in TraceCommitmentProofs.                 *)
(*                                                                         *)
(* The first part is about the accumulator: which rows and vectors are     *)
(* chunks of a commitment and what their openings verify with. The second  *)
(* follows the run: IInv says where each row is (committed, in its file,   *)
(* in the cache, in an opening) in every phase, AInv that an accepted      *)
(* proof is whole but for what the verifier cannot see, and HInv that what *)
(* an undisturbed run has read is enough for its proof to pass. The        *)
(* openings of the committed rows at other places, and the sums that the   *)
(* accumulator keeps (SInv), come last.                                    *)
(***************************************************************************)
EXTENDS GeomProof, TraceCommitmentProofs

(* ------------------------- columns and rows --------------------------- *)

Fields == 0..Modulus - 1

\* Rows by column, and the values of a row in the order of the columns.
FieldRows == [Columns -> Fields]
Rows == [1..row_width -> Fields]

LEMMA ModulusType == Modulus \in Nat /\ Modulus > 1 /\ 0 \in Fields /\ 1 \in Fields
BY CommitmentAssumption DEF Fields

LEMMA InField ==
  ASSUME NEW x \in Int
  PROVE  x % Modulus \in Fields
BY ModulusType DEF Fields

LEMMA FieldType ==
  ASSUME NEW x \in Fields
  PROVE  x \in Nat /\ x % Modulus = x
BY ModulusType DEF Fields

\* The base columns, and a sketch and a power for each challenge.
BaseNames == {"PC", "OP", "GAS", "ACC", "X1", "X2", "CNT", "M11", "M12", "M22"}

LEMMA FunctionIsSeq ==
  ASSUME NEW n \in Nat, NEW S, NEW f \in [1..n -> S]
  PROVE  f \in Seq(S) /\ Len(f) = n
<1>1. f \in Seq(S)
  BY SeqDef
<1>2. Len(f) = n
  BY <1>1, LenProperties
<1> QED BY <1>1, <1>2

LEMMA ColumnNamesType ==
  /\ row_width \in Nat \ {0}
  /\ DOMAIN column_names = 1..row_width
  /\ Columns = BaseNames \X {0} \cup {"sketches", "powers"} \X DOMAIN Challenges
<1> DEFINE base == [i \in DOMAIN BaseColumns |-> <<BaseColumns[i], 0>>]
           sketches == [j \in DOMAIN Challenges |-> <<"sketches", j>>]
           powers == [j \in DOMAIN Challenges |-> <<"powers", j>>]
           m == Len(Challenges)
           S == {base[i] : i \in 1..10} \cup {sketches[i] : i \in 1..m} \cup {powers[i] : i \in 1..m}
<1>1. m \in Nat /\ DOMAIN Challenges = 1..m
  BY CommitmentAssumption
<1>2. DOMAIN BaseColumns = 1..10 /\ {BaseColumns[i] : i \in 1..10} = BaseNames
  BY DEF BaseColumns, BaseNames
<1>3. {base[i] : i \in 1..10} = BaseNames \X {0}
  BY <1>2
<1>4. {sketches[i] : i \in 1..m} = {"sketches"} \X DOMAIN Challenges
  BY <1>1
<1>5. {powers[i] : i \in 1..m} = {"powers"} \X DOMAIN Challenges
  BY <1>1
<1>6. /\ base = [i \in 1..10 |-> base[i]]
      /\ sketches = [i \in 1..m |-> sketches[i]] /\ powers = [i \in 1..m |-> powers[i]]
  BY <1>1, <1>2
<1>7. column_names = (base \o sketches) \o powers
  BY DEF column_names
<1> HIDE DEF base, sketches, powers
<1>8. base \in [1..10 -> S] /\ sketches \in [1..m -> S] /\ powers \in [1..m -> S]
  BY <1>6
<1> HIDE DEF S
<1>9. /\ base \in Seq(S) /\ Len(base) = 10 /\ Range(base) = BaseNames \X {0}
      /\ sketches \in Seq(S) /\ Len(sketches) = m
      /\ Range(sketches) = {"sketches"} \X DOMAIN Challenges
      /\ powers \in Seq(S) /\ Len(powers) = m
      /\ Range(powers) = {"powers"} \X DOMAIN Challenges
  <2>1. base \in Seq(S) /\ Len(base) = 10
    <3> 10 \in Nat
      OBVIOUS
    <3> QED BY <1>8, FunctionIsSeq
  <2>2. sketches \in Seq(S) /\ Len(sketches) = m /\ powers \in Seq(S) /\ Len(powers) = m
    BY <1>1, <1>8, FunctionIsSeq
  <2>3. /\ Range(base) = {base[i] : i \in 1..10}
        /\ Range(sketches) = {sketches[i] : i \in 1..m} /\ Range(powers) = {powers[i] : i \in 1..m}
    BY <1>8 DEF Range
  <2> QED BY <1>3, <1>4, <1>5, <2>1, <2>2, <2>3
<1>10. /\ base \o sketches \in Seq(S) /\ Len(base \o sketches) = 10 + m
       /\ Range(base \o sketches) = Range(base) \cup Range(sketches)
  <2>1. base \o sketches \in Seq(S) /\ Len(base \o sketches) = Len(base) + Len(sketches)
    BY <1>9, ConcatProperties
  <2>2. Range(base \o sketches) = Range(base) \cup Range(sketches)
    BY <1>9, RangeConcatenation
  <2> QED BY <1>9, <2>1, <2>2
<1>11. /\ column_names \in Seq(S) /\ Len(column_names) = 10 + m + m
       /\ Range(column_names) = Range(base) \cup Range(sketches) \cup Range(powers)
  <2>1. /\ column_names \in Seq(S)
        /\ Len(column_names) = Len(base \o sketches) + Len(powers)
    BY <1>7, <1>9, <1>10, ConcatProperties
  <2>2. Range(column_names) = Range(base \o sketches) \cup Range(powers)
    <3> DEFINE first == base \o sketches
    <3>1. first \in Seq(S) /\ powers \in Seq(S) /\ column_names = first \o powers
      BY <1>7, <1>9, <1>10
    <3> HIDE DEF first
    <3>2. Range(first \o powers) = Range(first) \cup Range(powers)
      BY <3>1, RangeConcatenation
    <3> QED BY <3>1, <3>2 DEF first
  <2> QED BY <1>1, <1>9, <1>10, <2>1, <2>2
<1>12. row_width \in Nat \ {0} /\ DOMAIN column_names = 1..row_width
  BY <1>1, <1>11, LenProperties DEF row_width
<1>13. Columns = BaseNames \X {0} \cup ({"sketches"} \X DOMAIN Challenges)
                    \cup ({"powers"} \X DOMAIN Challenges)
  BY <1>9, <1>11 DEF Columns
<1> QED BY <1>12, <1>13

LEMMA BaseColumn ==
  ASSUME NEW row \in FieldRows
  PROVE  /\ \A n \in BaseNames : <<n, 0>> \in Columns /\ row[<<n, 0>>] \in Fields
         /\ \A c \in Columns : row[c] \in Fields
<1>1. \A n \in BaseNames : <<n, 0>> \in Columns
  BY ColumnNamesType
<1> QED BY <1>1 DEF FieldRows

LEMMA PackedType ==
  ASSUME NEW pc \in Nat, NEW opcode \in Nat, NEW gas \in Nat, NEW reg \in Nat
  PROVE  pack_vm_value(pc, opcode, gas, reg) \in Nat
<1> DEFINE Packed(high, value, size) == high * size + (value % size)
<1>1. PcSize \in Nat \ {0} /\ OpSize \in Nat \ {0} /\ GasSize \in Nat \ {0} /\ AccSize \in Nat \ {0}
  BY TraceAssumption
<1>2. pc % PcSize \in Nat
  BY <1>1
<1>3. \A high \in Nat, value \in Nat, size \in Nat \ {0} : Packed(high, value, size) \in Nat
  OBVIOUS
<1> HIDE DEF Packed
<1>4. Packed(Packed(Packed(pc % PcSize, opcode, OpSize), gas, GasSize), reg, AccSize) \in Nat
  BY <1>1, <1>2, <1>3
<1>5. \A x \in Nat : x % Modulus \in Nat
  BY ModulusType
<1> QED BY <1>4, <1>5 DEF pack_vm_value, Packed

LEMMA MinusType ==
  ASSUME NEW x \in Nat, NEW y \in Nat
  PROVE  Minus(x, y) \in Fields
<1>1. x % Modulus \in Fields /\ y % Modulus \in Fields
  BY InField
<1> QED BY <1>1, ModulusType, InField DEF Minus, Fields

\* A step of the machine yields a row of field elements.
LEMMA RecordedType ==
  ASSUME NEW at \in FieldRows, NEW opcode \in 0..3
  PROVE  Recorded(at, opcode) \in FieldRows
<1> DEFINE A(n) == at[<<n, 0>>]
           packed == pack_vm_value(A("PC"), opcode, A("GAS"), A("ACC"))
           Value(c) ==
            CASE c[1] = "PC" -> A("PC") + 1
              [] c[1] = "OP" -> opcode
              [] c[1] = "GAS" -> Minus(A("GAS"), 1 + (opcode % 3))
              [] c[1] = "ACC" -> Alu(opcode, A("ACC"), A("GAS"))
              [] c[1] \in {"X1", "X2"} -> at[c]
              [] c[1] = "CNT" -> A("CNT") + 1
              [] c[1] = "M11" -> A("M11") + A("X1") * A("X1")
              [] c[1] = "M12" -> A("M12") + A("X1") * A("X2")
              [] c[1] = "M22" -> A("M22") + A("X2") * A("X2")
              [] c[1] = "sketches" -> at[c] + packed * at[<<"powers", c[2]>>]
              [] c[1] = "powers" -> at[c] * Challenges[c[2]]
<1>1. \A n \in BaseNames : A(n) \in Nat /\ A(n) \in Fields
  BY BaseColumn, FieldType
<1>2. /\ A("PC") \in Nat /\ A("GAS") \in Nat /\ A("GAS") \in Fields
      /\ A("ACC") \in Nat /\ A("ACC") \in Fields
      /\ A("X1") \in Nat /\ A("X2") \in Nat /\ A("CNT") \in Nat
      /\ A("M11") \in Nat /\ A("M12") \in Nat /\ A("M22") \in Nat
  BY <1>1 DEF BaseNames
<1> HIDE DEF A
<1>3. packed \in Nat
  <2> opcode \in Nat
    OBVIOUS
  <2> QED BY <1>2, PackedType
<1>4. Minus(A("GAS"), 1 + (opcode % 3)) \in Nat
  <2>1. 1 + (opcode % 3) \in Nat
    OBVIOUS
  <2> QED BY <1>2, <2>1, MinusType, FieldType
<1>5. Alu(opcode, A("ACC"), A("GAS")) \in Nat
  <2>1. ExclusiveOr(A("ACC"), A("GAS")) \in Nat
    BY <1>2, TraceAssumption DEF Fields
  <2>2. \A x \in Nat : x % Modulus \in Nat
    BY ModulusType
  <2> QED BY <1>2, <2>1, <2>2 DEF Alu
<1> HIDE DEF packed
<1>6. ASSUME NEW c \in Columns PROVE Value(c) \in Nat
  <2>1. at[c] \in Nat
    BY BaseColumn, FieldType
  <2>2. CASE c \in BaseNames \X {0}
    <3>1. c[1] \in BaseNames
      BY <2>2
    <3> QED BY <1>2, <1>4, <1>5, <2>1, <3>1 DEF BaseNames
  <2>3. CASE c \in {"sketches"} \X DOMAIN Challenges
    <3>1. c[1] = "sketches" /\ <<"powers", c[2]>> \in Columns
      BY <2>3, ColumnNamesType
    <3>2. at[<<"powers", c[2]>>] \in Nat
      BY <3>1, BaseColumn, FieldType
    <3> QED BY <1>3, <2>1, <3>1, <3>2
  <2>4. CASE c \in {"powers"} \X DOMAIN Challenges
    <3>1. c[1] = "powers" /\ Challenges[c[2]] \in Nat
      BY <2>4, CommitmentAssumption
    <3> QED BY <2>1, <3>1
  <2> QED BY <2>2, <2>3, <2>4, ColumnNamesType
<1>7. Recorded(at, opcode) = [c \in Columns |-> Value(c) % Modulus]
  BY DEF Recorded, A, packed
<1> HIDE DEF Value
<1>8. \A c \in Columns : Value(c) % Modulus \in Fields
  BY <1>6, InField
<1> QED BY <1>7, <1>8 DEF FieldRows

\* The recursion of simulate_trace, row by row.
LEMMA SimulateUnfold ==
  ASSUME NEW steps \in Nat, NEW start
  PROVE  LET trace == simulate_trace(steps, start)
             Op(t) == Program[((t - 1) % Len(Program)) + 1]
         IN  /\ DOMAIN trace = 1..steps
             /\ \A t \in 1..steps :
                   trace[t] = Recorded(IF t = 1 THEN InitialRow(start) ELSE Moved(trace[t - 1]), Op(t))
<1> DEFINE Op(t) == Program[((t - 1) % Len(Program)) + 1]
           Up(g, d) == [t \in 1..d |->
                            Recorded(IF t = 1 THEN InitialRow(start) ELSE Moved(g[t - 1]), Op(t))]
           Built == {d \in Nat : \E g : g = Up(g, d)}
<1> HIDE DEF Op
<1>1. 0 \in Built
  <2> DEFINE h == Up(<<>>, 0)
  <2>1. h = Up(h, 0)
    OBVIOUS
  <2> HIDE DEF h
  <2> QED BY <2>1
<1>2. ASSUME NEW d \in Nat, d \in Built
      PROVE  d + 1 \in Built
  <2>1. PICK g : g = Up(g, d)
    BY <1>2
  <2> DEFINE h == Up(g, d + 1)
  <2>2. \A t \in 1..d : h[t] = g[t]
    BY <2>1
  <2>3. h = Up(h, d + 1)
    <3>1. \A t \in 1..d + 1 : t # 1 => t - 1 \in 1..d
      OBVIOUS
    <3> QED BY <2>2, <3>1
  <2> HIDE DEF h
  <2> QED BY <2>3
<1>3. \A d \in Nat : d \in Built
  <2> HIDE DEF Built
  <2> QED BY <1>1, <1>2, SetInduction
<1> DEFINE row == CHOOSE g : g = Up(g, steps)
<1>4. row = Up(row, steps)
  <2>1. \E g : g = Up(g, steps)
    BY <1>3
  <2> QED BY <2>1
<1>5. simulate_trace(steps, start) = [t \in 1..steps |-> row[t]]
  BY DEF simulate_trace, Op
<1> HIDE DEF row
<1>6. simulate_trace(steps, start) = row
  BY <1>4, <1>5
<1> QED BY <1>4, <1>6 DEF Op

LEMMA InitialRowType ==
  ASSUME NEW start, \A n \in DOMAIN start : start[n] \in Fields
  PROVE  InitialRow(start) \in FieldRows
BY ModulusType DEF InitialRow, FieldRows

LEMMA MovedType ==
  ASSUME NEW row \in FieldRows
  PROVE  Moved(row) \in FieldRows
<1> DEFINE x1 == row[<<"X1", 0>>]
           x2 == row[<<"X2", 0>>]
           y1 == (Matrix[1][1] * x1 + Matrix[1][2] * x2) % Modulus
           y2 == (Matrix[2][1] * x1 + Matrix[2][2] * x2) % Modulus
<1>1. x1 \in Nat /\ x2 \in Nat
  BY BaseColumn, FieldType DEF BaseNames
<1>2. Matrix[1][1] = 2 /\ Matrix[1][2] = 1 /\ Matrix[2][1] = 1 /\ Matrix[2][2] = 1
  BY DEF Matrix
<1>3. y1 \in Fields /\ y2 \in Fields
  <2> HIDE DEF x1, x2
  <2> QED BY <1>1, <1>2, InField
<1>4. Moved(row) = [row EXCEPT ![<<"X1", 0>>] = y1, ![<<"X2", 0>>] = y2]
  BY DEF Moved
<1> HIDE DEF y1, y2
<1> QED BY <1>3, <1>4 DEF FieldRows

\* The rows of a trace hold field elements.
LEMMA TraceType ==
  ASSUME NEW steps \in Nat, NEW start, \A n \in DOMAIN start : start[n] \in Fields
  PROVE  /\ DOMAIN simulate_trace(steps, start) = 1..steps
         /\ Len(simulate_trace(steps, start)) = steps
         /\ \A t \in 1..steps : simulate_trace(steps, start)[t] \in FieldRows
<1> DEFINE trace == simulate_trace(steps, start)
           Op(t) == Program[((t - 1) % Len(Program)) + 1]
           Typed == {t \in Nat : t \in 1..steps => trace[t] \in FieldRows}
<1>1. /\ DOMAIN trace = 1..steps
      /\ \A t \in 1..steps :
            trace[t] = Recorded(IF t = 1 THEN InitialRow(start) ELSE Moved(trace[t - 1]), Op(t))
  BY SimulateUnfold
<1>2. \A t \in 1..steps : Op(t) \in 0..3
  <2>1. Len(Program) \in Nat \ {0} /\ \A k \in 1..Len(Program) : Program[k] \in 0..3
    BY TraceAssumption, EmptySeq
  <2>2. \A t \in 1..steps : ((t - 1) % Len(Program)) + 1 \in 1..Len(Program)
    BY <2>1
  <2> QED BY <2>1, <2>2
<1> HIDE DEF trace, Op
<1>3. 0 \in Typed
  OBVIOUS
<1>4. ASSUME NEW t \in Nat, t \in Typed
      PROVE  t + 1 \in Typed
  <2> SUFFICES ASSUME t + 1 \in 1..steps PROVE trace[t + 1] \in FieldRows
    OBVIOUS
  <2>1. CASE t = 0
    <3>1. trace[1] = Recorded(InitialRow(start), Op(1)) /\ Op(1) \in 0..3
      BY <1>1, <1>2, <2>1
    <3> QED BY <2>1, <3>1, InitialRowType, RecordedType
  <2>2. CASE t # 0
    <3>1. t \in 1..steps /\ t + 1 # 1 /\ (t + 1) - 1 = t
      BY <2>2
    <3>2. trace[t + 1] = Recorded(Moved(trace[t]), Op(t + 1)) /\ Op(t + 1) \in 0..3
      BY <1>1, <1>2, <3>1
    <3>3. trace[t] \in FieldRows
      BY <1>4, <3>1
    <3> QED BY <3>2, <3>3, MovedType, RecordedType
  <2> QED BY <2>1, <2>2
<1>5. \A t \in Nat : t \in Typed
  <2> HIDE DEF Typed
  <2> QED BY <1>3, <1>4, SetInduction
<1>6. Len(trace) = steps
  BY <1>1
<1> QED BY <1>1, <1>5, <1>6 DEF trace

\* The recursion of Doubled.
LEMMA DoubledUnfold ==
  ASSUME NEW n \in Nat
  PROVE  Doubled(n)[0] = 1 /\ \A k \in 1..n : Doubled(n)[k] = 2 * Doubled(n)[k - 1]
<1> DEFINE Up(g, d) == [k \in 0..d |-> IF k = 0 THEN 1 ELSE 2 * g[k - 1]]
           Built == {d \in Nat : \E g : g = Up(g, d)}
<1>1. 0 \in Built
  <2> DEFINE h == Up([k \in 0..0 |-> 0], 0)
  <2>1. h = Up(h, 0)
    OBVIOUS
  <2> HIDE DEF h
  <2> QED BY <2>1
<1>2. ASSUME NEW d \in Nat, d \in Built
      PROVE  d + 1 \in Built
  <2>1. PICK g : g = Up(g, d)
    BY <1>2
  <2> DEFINE h == Up(g, d + 1)
  <2>2. \A k \in 0..d : h[k] = g[k]
    BY <2>1
  <2>3. h = Up(h, d + 1)
    <3>1. \A k \in 0..d + 1 : k # 0 => k - 1 \in 0..d
      OBVIOUS
    <3> QED BY <2>2, <3>1
  <2> HIDE DEF h, Up
  <2> QED BY <2>3
<1>3. \A d \in Nat : d \in Built
  <2> HIDE DEF Built
  <2> QED BY <1>1, <1>2, SetInduction
<1>4. PICK g : g = Up(g, n)
  BY <1>3
<1>5. Doubled(n) = Up(Doubled(n), n)
  BY <1>4 DEF Doubled
<1> QED BY <1>5

\* Doubling reaches n: the domain of a trace is at least as long.
LEMMA DomainSizeType ==
  ASSUME NEW n \in Nat \ {0}
  PROVE  /\ Doublings(n) \in 0..n
         /\ next_power_of_two(n) \in Nat \ {0} /\ n <= next_power_of_two(n)
<1> DEFINE D == Doubled(n)
           Grows == {k \in Nat : k <= n => D[k] \in Nat /\ k < D[k]}
           Enough == {k \in 0..n : n <= D[k]}
<1>1. D[0] = 1 /\ \A k \in 1..n : D[k] = 2 * D[k - 1]
  BY DoubledUnfold
<1> HIDE DEF D
<1>2. 0 \in Grows
  BY <1>1
<1>3. ASSUME NEW k \in Nat, k \in Grows
      PROVE  k + 1 \in Grows
  <2> SUFFICES ASSUME k + 1 <= n PROVE D[k + 1] \in Nat /\ k + 1 < D[k + 1]
    OBVIOUS
  <2>1. D[k] \in Nat /\ k < D[k]
    BY <1>3
  <2>2. D[k + 1] = 2 * D[k]
    <3> k + 1 \in 1..n /\ (k + 1) - 1 = k
      OBVIOUS
    <3> QED BY <1>1
  <2> QED BY <2>1, <2>2
<1>4. \A k \in Nat : k \in Grows
  <2> HIDE DEF Grows
  <2> QED BY <1>2, <1>3, SetInduction
<1>5. \A k \in 0..n : D[k] \in Nat /\ k < D[k]
  BY <1>4
<1>6. n \in Enough
  BY <1>5
<1>7. PICK k \in Enough : \A m \in Enough : k <= m
  <2>1. Enough \subseteq Nat
    OBVIOUS
  <2> HIDE DEF Enough
  <2> QED BY <1>6, <2>1, LeastNatural
<1>8. \A m \in 0..k - 1 : D[m] < n
  <2> TAKE m \in 0..k - 1
  <2>1. m \in 0..n /\ m < k /\ D[m] \in Nat
    BY <1>5
  <2>2. m \notin Enough
    BY <1>7, <2>1
  <2> QED BY <2>1, <2>2
<1>9. Doublings(n) \in 0..n /\ n <= D[Doublings(n)]
  <2>1. \E j \in 0..n : n <= D[j] /\ \A m \in 0..j - 1 : D[m] < n
    BY <1>7, <1>8
  <2> QED BY <2>1 DEF Doublings, D
<1> QED BY <1>5, <1>9 DEF next_power_of_two, D

LEMMA RowMatrixType ==
  ASSUME NEW trace, NEW steps \in Nat, NEW d \in Nat, Len(trace) = steps,
         \A t \in 1..steps : trace[t] \in FieldRows,
         \A c \in Columns, i \in 0..d - 1 : column_mask_at_index(c, i) \in Fields
  PROVE  RowMatrix(trace, d) \in [1..d -> Rows]
<1> DEFINE Cell(i, c) == (IF i <= Len(trace) THEN trace[i][c] ELSE 0) + column_mask_at_index(c, i - 1)
           Values(i) == [k \in DOMAIN column_names |-> Cell(i, column_names[k]) % Modulus]
<1>1. ASSUME NEW i \in 1..d, NEW c \in Columns PROVE Cell(i, c) \in Nat
  <2>1. column_mask_at_index(c, i - 1) \in Nat
    <3> i - 1 \in 0..d - 1
      OBVIOUS
    <3> QED BY FieldType
  <2>2. CASE i <= steps
    <3>1. i \in 1..steps
      BY <2>2
    <3>2. trace[i][c] \in Nat
      BY <3>1, BaseColumn, FieldType
    <3> QED BY <2>1, <2>2, <3>2
  <2>3. CASE ~ (i <= steps)
    BY <2>1, <2>3
  <2> QED BY <2>2, <2>3
<1> HIDE DEF Cell
<1>2. \A k \in DOMAIN column_names : column_names[k] \in Columns
  BY DEF Columns, Range
<1>3. ASSUME NEW i \in 1..d PROVE Values(i) \in Rows
  <2>1. \A k \in 1..row_width : Cell(i, column_names[k]) % Modulus \in Fields
    BY <1>1, <1>2, ColumnNamesType, InField
  <2> QED BY <2>1, ColumnNamesType DEF Rows
<1>4. RowMatrix(trace, d) = [i \in 1..d |-> Values(i)]
  BY DEF RowMatrix, Cell
<1> HIDE DEF Values
<1> QED BY <1>3, <1>4

\* What is fixed for a run: its domain and its rows.
LEMMA PreparedType ==
  ASSUME NEW j \in Jobs
  PROVE  /\ Prepared[j].fri_cfg.domain_size \in Nat \ {0}
         /\ Prepared[j].fri_cfg.num_queries = j.queries /\ j.queries \in Nat \ {0}
         /\ Prepared[j].rows \in [1..Prepared[j].fri_cfg.domain_size -> Rows]
<1> DEFINE d == next_power_of_two(j.steps)
           trace == simulate_trace(j.steps, j.start)
<1>1. /\ j.steps \in Nat \ {0} /\ j.queries \in Nat \ {0}
      /\ \A n \in DOMAIN j.start : j.start[n] \in Fields
      /\ \A c \in Columns, i \in 0..d - 1 : column_mask_at_index(c, i) \in Fields
  BY ProofAssumption DEF Fields
<1>2. d \in Nat \ {0}
  BY <1>1, DomainSizeType
<1>3. Len(trace) = j.steps /\ \A t \in 1..j.steps : trace[t] \in FieldRows
  BY <1>1, TraceType
<1>4. /\ Prepared[j].fri_cfg.domain_size = d /\ Prepared[j].fri_cfg.num_queries = j.queries
      /\ Prepared[j].rows = RowMatrix(trace, d)
  BY DEF Prepared, _prepare_trace_state, _build_fri_cfg
<1> HIDE DEF d, trace
<1>5. RowMatrix(trace, d) \in [1..d -> Rows]
  BY <1>1, <1>2, <1>3, RowMatrixType
<1> QED BY <1>1, <1>2, <1>4, <1>5

(* --------------------- vectors and their chunks ----------------------- *)

\* A vector of n field elements.
Vectors(n) == [1..n -> Fields]

\* The values of chunk c (counted from 1) of n values.
ChunkSize(c, cl, n) == Least(c * cl, n) - (c - 1) * cl

LEMMA ChunkCount ==
  ASSUME NEW n \in Nat \ {0}, NEW cl \in Nat \ {0}
  PROVE  /\ CeilDiv(n, cl) \in Nat \ {0}
         /\ n <= CeilDiv(n, cl) * cl
         /\ \A c \in 1..CeilDiv(n, cl) :
               /\ (c - 1) * cl \in Nat /\ c * cl = (c - 1) * cl + cl /\ (c - 1) * cl < n
               /\ c < CeilDiv(n, cl) => c * cl < n
         /\ \A i \in 0..n - 1 : i \div cl \in 0..CeilDiv(n, cl) - 1
<1> DEFINE q == CeilDiv(n, cl)
           r == (n + cl - 1) % cl
<1>1. q \in Nat /\ r \in 0..cl - 1 /\ n + cl - 1 = q * cl + r /\ q * cl \in Nat
  <2>1. n + cl - 1 \in Nat
    OBVIOUS
  <2>2. \A x \in Nat : /\ x \div cl \in Nat /\ x % cl \in 0..cl - 1
                        /\ x = (x \div cl) * cl + (x % cl) /\ (x \div cl) * cl \in Nat
    BY Quotient
  <2> QED BY <2>1, <2>2 DEF CeilDiv
<1> HIDE DEF q, r
<1>2. q # 0 /\ n <= q * cl /\ q * cl < n + cl
  <2>1. q = 0 => q * cl = 0
    OBVIOUS
  <2> QED BY <1>1, <2>1
<1>3. ASSUME NEW c \in 1..q
      PROVE  /\ (c - 1) * cl \in Nat /\ c * cl = (c - 1) * cl + cl /\ (c - 1) * cl < n
             /\ c < q => c * cl < n
  <2>1. c \in Nat \ {0} /\ c - 1 \in Nat /\ q - c \in Nat
    BY <1>1
  <2>2. (c - 1) * cl \in Nat /\ (q - c) * cl \in Nat
    BY <2>1
  <2>3. c * cl = (c - 1) * cl + cl /\ q * cl = c * cl + (q - c) * cl
    BY <1>1, <2>1
  <2>4. c < q => (q - c) * cl >= cl
    BY <1>1, <2>1
  <2> QED BY <1>1, <1>2, <2>2, <2>3, <2>4
<1>4. ASSUME NEW i \in 0..n - 1 PROVE i \div cl \in 0..q - 1
  <2>1. /\ i \in Nat /\ i \div cl \in Nat /\ (i \div cl) * cl <= i
    <3> i \in Nat
      OBVIOUS
    <3> QED BY Quotient
  <2>2. SUFFICES ASSUME i \div cl >= q PROVE FALSE
    BY <1>1, <2>1
  <2>3. (i \div cl) * cl = q * cl + (i \div cl - q) * cl /\ (i \div cl - q) * cl \in Nat
    BY <1>1, <2>1, <2>2
  <2> QED BY <1>1, <1>2, <2>1, <2>3
<1> QED BY <1>1, <1>2, <1>3, <1>4 DEF q

\* The chunks lie end to end: all but the last are full.
LEMMA ChunkShape ==
  ASSUME NEW n \in Nat \ {0}, NEW cl \in Nat \ {0}, NEW values \in Vectors(n)
  PROVE  /\ Len(ChunksOf(values, cl)) = CeilDiv(n, cl)
         /\ \A c \in 1..CeilDiv(n, cl) :
               /\ ChunkSize(c, cl, n) \in 1..cl
               /\ (c - 1) * cl + ChunkSize(c, cl, n) = Least(c * cl, n)
               /\ ChunksOf(values, cl)[c] \in Vectors(ChunkSize(c, cl, n))
               /\ \A k \in 1..ChunkSize(c, cl, n) :
                     ChunksOf(values, cl)[c][k] = values[(c - 1) * cl + k]
<1> DEFINE q == CeilDiv(n, cl)
           Chunk(c) == SubSeq(values, (c - 1) * cl + 1, Least(c * cl, n))
           chunks == ChunksOf(values, cl)
<1>1. values \in Seq(Fields) /\ Len(values) = n
  BY FunctionIsSeq DEF Vectors
<1>2. chunks = [c \in 1..q |-> Chunk(c)]
  BY <1>1 DEF ChunksOf
<1>3. /\ q \in Nat \ {0}
      /\ \A c \in 1..q : (c - 1) * cl \in Nat /\ c * cl = (c - 1) * cl + cl /\ (c - 1) * cl < n
  BY ChunkCount
<1> HIDE DEF q, Chunk, chunks
<1>4. Len(chunks) = q
  BY <1>2, <1>3
<1>5. ASSUME NEW c \in 1..q
      PROVE  /\ ChunkSize(c, cl, n) \in 1..cl
             /\ (c - 1) * cl + ChunkSize(c, cl, n) = Least(c * cl, n)
             /\ Chunk(c) \in Vectors(ChunkSize(c, cl, n))
             /\ \A k \in 1..ChunkSize(c, cl, n) : Chunk(c)[k] = values[(c - 1) * cl + k]
  <2> DEFINE s == (c - 1) * cl
             e == Least(c * cl, n)
             m == ChunkSize(c, cl, n)
  <2>1. s \in Nat /\ c * cl = s + cl /\ s < n
    BY <1>3
  <2>2. m = e - s
    BY DEF ChunkSize
  <2> HIDE DEF s, m
  <2>3. e \in Nat /\ e <= n /\ e <= s + cl /\ s < e
    BY <2>1 DEF Least
  <2> HIDE DEF e
  <2>4. m \in 1..cl /\ s + m = e
    BY <2>1, <2>2, <2>3
  <2>5. Chunk(c) = SubSeq(values, s + 1, e)
    BY DEF Chunk, s, e
  <2>6. \A i \in (s + 1)..e : values[i] \in Fields
    <3>1. \A i \in (s + 1)..e : i \in 1..n
      BY <2>1, <2>3
    <3> QED BY <3>1 DEF Vectors
  <2>7. /\ SubSeq(values, s + 1, e) \in Seq(Fields)
        /\ Len(SubSeq(values, s + 1, e)) = m
        /\ \A k \in 1..m : SubSeq(values, s + 1, e)[k] = values[s + 1 + k - 1]
    <3>1. s + 1 \in Int /\ e \in Int /\ s + 1 <= e /\ e - (s + 1) + 1 = m
      BY <2>1, <2>2, <2>3
    <3> QED BY <2>6, <3>1, SubSeqProperties
  <2>8. Chunk(c) \in Vectors(m)
    BY <2>5, <2>7, LenProperties DEF Vectors
  <2>9. \A k \in 1..m : Chunk(c)[k] = values[s + k]
    <3>1. \A k \in 1..m : s + 1 + k - 1 = s + k
      BY <2>1
    <3> QED BY <2>5, <2>7, <3>1
  <2> QED BY <2>4, <2>8, <2>9 DEF s, m, e
<1>6. \A c \in 1..q : chunks[c] = Chunk(c)
  BY <1>2
<1> QED BY <1>4, <1>5, <1>6 DEF q, chunks

\* A place of the vector is a place of its chunk.
InChunk(chunks, cl, values, i) == chunks[i \div cl + 1][(i % cl) + 1] = values[i + 1]

LEMMA ChunkPlace ==
  ASSUME NEW n \in Nat \ {0}, NEW cl \in Nat \ {0}, NEW values \in Vectors(n), NEW i \in 0..n - 1
  PROVE  /\ i \div cl + 1 \in 1..CeilDiv(n, cl)
         /\ i % cl \in 0..ChunkSize(i \div cl + 1, cl, n) - 1
         /\ InChunk(ChunksOf(values, cl), cl, values, i)
<1> DEFINE h == i \div cl
           r == i % cl
           q == CeilDiv(n, cl)
<1>1. i \in Nat /\ h \in Nat /\ r \in 0..cl - 1 /\ i = h * cl + r
  <2> i \in Nat
    OBVIOUS
  <2> QED BY Quotient
<1>2. q \in Nat \ {0} /\ h \in 0..q - 1
  BY ChunkCount
<1> HIDE DEF h, r
<1>3. PICK c \in 1..q : c = h + 1 /\ c - 1 = h
  BY <1>1, <1>2
<1>4. c * cl = h * cl + cl /\ h * cl \in Nat
  <2>1. (c - 1) * cl \in Nat /\ c * cl = (c - 1) * cl + cl
    BY ChunkCount
  <2> QED BY <1>3, <2>1
<1> DEFINE m == ChunkSize(c, cl, n)
<1>5. /\ m \in 1..cl /\ h * cl + m = Least(c * cl, n)
      /\ \A k \in 1..m : ChunksOf(values, cl)[c][k] = values[h * cl + k]
  <2>1. /\ m \in 1..cl /\ (c - 1) * cl + m = Least(c * cl, n)
        /\ \A k \in 1..m : ChunksOf(values, cl)[c][k] = values[(c - 1) * cl + k]
    BY ChunkShape
  <2> HIDE DEF m
  <2> QED BY <1>3, <2>1
<1> HIDE DEF m, q
<1>6. i < Least(c * cl, n)
  <2>1. i < c * cl /\ i < n
    BY <1>1, <1>4
  <2> QED BY <2>1 DEF Least
<1>7. r \in 0..m - 1 /\ r + 1 \in 1..m /\ h * cl + (r + 1) = i + 1
  BY <1>1, <1>4, <1>5, <1>6
<1>8. ChunksOf(values, cl)[c][r + 1] = values[i + 1]
  BY <1>5, <1>7
<1> QED BY <1>3, <1>7, <1>8 DEF h, r, m, q, InChunk

\* The recursion of Accumulate.
LEMMA AccumulateUnfold ==
  ASSUME NEW values, NEW cl, NEW n \in Nat, Len(ChunksOf(values, cl)) = n
  PROVE  \E acc_after : /\ acc_after[0] = NewAccumulator(cl)
                        /\ \A c \in 1..n : acc_after[c] = add_chunk(acc_after[c - 1], ChunksOf(values, cl)[c])
                        /\ Accumulate(values, cl) = acc_after[n]
<1> DEFINE chunks == ChunksOf(values, cl)
           Up(g, d) == [c \in 0..d |-> IF c = 0 THEN NewAccumulator(cl)
                                       ELSE add_chunk(g[c - 1], chunks[c])]
           Built == {d \in Nat : \E g : g = Up(g, d)}
           at == CHOOSE g : g = Up(g, n)
<1>1. Accumulate(values, cl) = at[n]
  BY DEF Accumulate
<1>2. 0 \in Built
  <2> DEFINE h == Up([k \in 0..0 |-> 0], 0)
  <2>1. h = Up(h, 0)
    OBVIOUS
  <2> HIDE DEF h, Up
  <2> QED BY <2>1
<1>3. ASSUME NEW d \in Nat, d \in Built
      PROVE  d + 1 \in Built
  <2>1. PICK g : g = Up(g, d)
    BY <1>3
  <2> DEFINE h == Up(g, d + 1)
  <2>2. \A k \in 0..d : h[k] = g[k]
    BY <2>1
  <2>3. h = Up(h, d + 1)
    <3>1. \A k \in 0..d + 1 : k # 0 => k - 1 \in 0..d
      OBVIOUS
    <3> QED BY <2>2, <3>1
  <2> HIDE DEF h, Up
  <2> QED BY <2>3
<1>4. \A d \in Nat : d \in Built
  <2> HIDE DEF Built
  <2> QED BY <1>2, <1>3, SetInduction
<1>5. PICK g : g = Up(g, n)
  BY <1>4
<1>6. at = Up(at, n)
  BY <1>5
<1> HIDE DEF at
<1>7. /\ at[0] = NewAccumulator(cl)
      /\ \A c \in 1..n : at[c] = add_chunk(at[c - 1], chunks[c])
  BY <1>6
<1> QED BY <1>1, <1>7

(* --------------------- chunks and their openings ---------------------- *)

\* The leaves under a chunk's root tell rows apart.
LEMMA LeavesOfRow ==
  ASSUME NEW v \in Rows, NEW offset
  PROVE  /\ Len(v) = row_width
         /\ Level(LeavesOf(v, offset), row_width)
         /\ \A i \in 0..row_width - 1 : LeavesOf(v, offset)[i] = [leaf |-> <<offset, i, v[i + 1]>>]
<1>1. row_width \in Nat
  BY ColumnNamesType
<1>2. Len(v) = row_width
  BY <1>1, FunctionIsSeq DEF Rows
<1>3. LeavesOf(v, offset) = [i \in 0..row_width - 1 |-> chunk_leaf_hash(offset, i, v[i + 1])]
  BY <1>2 DEF LeavesOf
<1>4. Level(LeavesOf(v, offset), row_width)
  BY <1>3 DEF Level
<1>5. ASSUME NEW i \in 0..row_width - 1
      PROVE  LeavesOf(v, offset)[i] = [leaf |-> <<offset, i, v[i + 1]>>]
  <2>1. v[i + 1] \in Fields
    <3> i + 1 \in 1..row_width
      BY <1>1
    <3> QED BY DEF Rows
  <2>2. v[i + 1] % Modulus = v[i + 1]
    BY <2>1, FieldType
  <2> QED BY <1>3, <2>2 DEF chunk_leaf_hash
<1> QED BY <1>2, <1>4, <1>5

\* Rows with the same chunk root at the same offset are the same.
LEMMA ChunkRootBinds ==
  ASSUME NEW u \in Rows, NEW v \in Rows, NEW offset,
         merkle_from_values(u, offset) = merkle_from_values(v, offset)
  PROVE  u = v
<1> DEFINE one == LeavesOf(u, offset)
           two == LeavesOf(v, offset)
<1>1. row_width \in Nat \ {0}
  BY ColumnNamesType
<1>2. /\ Level(one, row_width) /\ Level(two, row_width)
      /\ \A i \in 0..row_width - 1 : /\ one[i] = [leaf |-> <<offset, i, u[i + 1]>>]
                                      /\ two[i] = [leaf |-> <<offset, i, v[i + 1]>>]
  BY LeavesOfRow
<1>3. root_from_levels(build_levels(one)) = root_from_levels(build_levels(two))
  BY DEF merkle_from_values
<1> HIDE DEF one, two
<1>4. one = two
  BY <1>1, <1>2, <1>3, TreeBinds
<1>5. ASSUME NEW k \in 1..row_width PROVE u[k] = v[k]
  <2>1. k - 1 \in 0..row_width - 1 /\ (k - 1) + 1 = k
    BY <1>1
  <2>2. [leaf |-> <<offset, k - 1, u[k]>>].leaf = [leaf |-> <<offset, k - 1, v[k]>>].leaf
    BY <1>2, <1>4, <2>1
  <2>3. <<offset, k - 1, u[k]>>[3] = <<offset, k - 1, v[k]>>[3]
    BY <2>2
  <2> QED BY <2>3
<1>6. u \in [1..row_width -> Fields] /\ v \in [1..row_width -> Fields]
  BY DEF Rows
<1> DEFINE places == 1..row_width
<1>7. \A k \in places : u[k] = v[k]
  BY <1>5
<1> HIDE DEF places
<1>8. u \in [places -> Fields] /\ v \in [places -> Fields]
  BY <1>6 DEF places
<1> QED BY <1>7, <1>8

\* A sequence of n elements of whatever kind.
Numbered(s, n) == s = [c \in 1..n |-> s[c]]

LEMMA NumberedAppend ==
  ASSUME NEW n \in Nat, NEW s, Numbered(s, n), NEW x
  PROVE  /\ Len(s) = n /\ Numbered(Append(s, x), n + 1)
         /\ Append(s, x)[n + 1] = x
         /\ \A c \in 1..n : Append(s, x)[c] = s[c]
<1> DEFINE S == {s[c] : c \in 1..n} \cup {x}
<1>1. s \in [1..n -> S]
  BY DEF Numbered
<1>2. x \in S
  OBVIOUS
<1> HIDE DEF S
<1>3. s \in Seq(S) /\ Len(s) = n
  BY <1>1, FunctionIsSeq
<1>4. /\ Append(s, x) \in Seq(S) /\ Len(Append(s, x)) = n + 1
      /\ \A c \in 1..n : Append(s, x)[c] = s[c]
      /\ Append(s, x)[n + 1] = x
  BY <1>2, <1>3, AppendProperties
<1>5. Append(s, x) \in [1..n + 1 -> S]
  BY <1>4, LenProperties
<1> QED BY <1>3, <1>4, <1>5 DEF Numbered

\* An accumulator that holds n chunks.
Holding(a, n) ==
    /\ a = [length |-> a.length, chunk_len |-> a.chunk_len, chunks |-> a.chunks,
            root |-> a.root, sketches |-> a.sketches, powers |-> a.powers]
    /\ Numbered(a.chunks, n)

LEMMA NewHolding ==
  ASSUME NEW cl
  PROVE  /\ Holding(NewAccumulator(cl), 0)
         /\ NewAccumulator(cl).chunk_len = cl /\ NewAccumulator(cl).length = 0
<1> DEFINE a == NewAccumulator(cl)
<1>1. /\ a.length = 0 /\ a.chunk_len = cl /\ a.chunks = <<>>
      /\ a = [length |-> a.length, chunk_len |-> a.chunk_len, chunks |-> a.chunks,
              root |-> a.root, sketches |-> a.sketches, powers |-> a.powers]
  BY DEF NewAccumulator
<1> HIDE DEF a
<1> QED BY <1>1 DEF Holding, Numbered, a

\* Values that are fed add a chunk with their root.
LEMMA AddChunk ==
  ASSUME NEW n \in Nat, NEW a, Holding(a, n), NEW m \in Nat, NEW v \in Vectors(m)
  PROVE  /\ Holding(add_chunk(a, v), n + 1)
         /\ add_chunk(a, v).length = a.length + m
         /\ add_chunk(a, v).chunk_len = a.chunk_len
         /\ add_chunk(a, v).chunks[n + 1].root = merkle_from_values(v, a.length)
         /\ \A c \in 1..n : add_chunk(a, v).chunks[c] = a.chunks[c]
<1> DEFINE b == add_chunk(a, v)
           reduced == [i \in DOMAIN v |-> v[i] % Modulus]
<1>1. reduced = v /\ Len(v) = m
  <2>1. v \in [1..m -> Fields]
    BY DEF Vectors
  <2>2. \A i \in 1..m : v[i] % Modulus = v[i]
    BY <2>1, FieldType
  <2> QED BY <2>1, <2>2, FunctionIsSeq
<1> DEFINE chunk == [offset |-> a.length, length |-> Len(reduced),
                     root |-> merkle_from_values(reduced, a.length),
                     sketch_vec |-> [j \in DOMAIN _streaming_update(a, reduced) |->
                                        _streaming_update(a, reduced)[j].sum]]
<1>2. \E r, s, p :
          b = [a EXCEPT !.length = @ + Len(reduced), !.root = r, !.sketches = s, !.powers = p,
                        !.chunks = Append(@, chunk)]
  BY Zenon DEF add_chunk
<1> HIDE DEF b, chunk, reduced
<1>3. /\ b = [length |-> b.length, chunk_len |-> b.chunk_len, chunks |-> b.chunks,
              root |-> b.root, sketches |-> b.sketches, powers |-> b.powers]
      /\ b.length = a.length + Len(reduced) /\ b.chunk_len = a.chunk_len
      /\ b.chunks = Append(a.chunks, chunk)
  <2>1. PICK r, s, p :
          b = [a EXCEPT !.length = @ + Len(reduced), !.root = r, !.sketches = s, !.powers = p,
                        !.chunks = Append(@, chunk)]
    BY <1>2
  <2>2. b = [length |-> a.length + Len(reduced), chunk_len |-> a.chunk_len,
             chunks |-> Append(a.chunks, chunk), root |-> r, sketches |-> s, powers |-> p]
    BY <2>1 DEF Holding
  <2> QED BY <2>2
<1>4. chunk.root = merkle_from_values(v, a.length)
  BY <1>1 DEF chunk
<1>5. /\ Numbered(b.chunks, n + 1) /\ b.chunks[n + 1] = chunk
      /\ \A c \in 1..n : b.chunks[c] = a.chunks[c]
  BY <1>3, NumberedAppend DEF Holding
<1> QED BY <1>1, <1>3, <1>4, <1>5 DEF Holding, b

\* The accumulator after n rows.
Accumulated(a, n) ==
    /\ Holding(a, n)
    /\ a.length = row_width * n /\ a.chunk_len = row_width
    /\ \A c \in 1..n : a.chunks[c].root = merkle_from_values(Row(c - 1), (c - 1) * row_width)

LEMMA AccumulatedLen ==
  ASSUME NEW n \in Nat, NEW a, Accumulated(a, n)
  PROVE  Len(a.chunks) = n
BY NumberedAppend DEF Accumulated, Holding

LEMMA NewAccumulated == Accumulated(NewAccumulator(row_width), 0)
<1>1. row_width * 0 = 0
  BY ColumnNamesType
<1> QED BY <1>1, NewHolding DEF Accumulated

\* A row that is fed adds the chunk with its root.
LEMMA AddRow ==
  ASSUME NEW n \in Nat, Accumulated(acc, n), Row(n) \in Rows
  PROVE  Accumulated(add_chunk(acc, Row(n)), n + 1)
<1> DEFINE b == add_chunk(acc, Row(n))
<1>1. row_width \in Nat /\ Row(n) \in Vectors(row_width)
  BY ColumnNamesType DEF Rows, Vectors
<1>2. acc.length = row_width * n /\ acc.length = n * row_width /\ Holding(acc, n)
  BY <1>1 DEF Accumulated
<1>3. /\ Holding(b, n + 1) /\ b.length = acc.length + row_width /\ b.chunk_len = acc.chunk_len
      /\ b.chunks[n + 1].root = merkle_from_values(Row(n), acc.length)
      /\ \A c \in 1..n : b.chunks[c] = acc.chunks[c]
  BY <1>1, <1>2, AddChunk
<1> HIDE DEF b
<1>4. b.length = row_width * (n + 1) /\ b.chunk_len = row_width
  BY <1>1, <1>2, <1>3 DEF Accumulated
<1>5. ASSUME NEW c \in 1..n + 1
      PROVE  b.chunks[c].root = merkle_from_values(Row(c - 1), (c - 1) * row_width)
  <2>1. CASE c = n + 1
    BY <1>2, <1>3, <2>1
  <2>2. CASE c # n + 1
    BY <1>3, <2>2 DEF Accumulated
  <2> QED BY <2>1, <2>2
<1> QED BY <1>3, <1>4, <1>5 DEF Accumulated, b

\* The leaves of the tree over the chunks are the roots of the rows.
LEMMA ChunkRootsOfRows ==
  ASSUME NEW n \in Nat \ {0}, NEW a, Accumulated(a, n)
  PROVE  LET roots == [i \in 0..Len(a.chunks) - 1 |-> a.chunks[i + 1].root]
         IN  /\ roots = [i \in 0..n - 1 |-> a.chunks[i + 1].root]
             /\ Level(roots, n)
             /\ \A i \in 0..n - 1 : roots[i] = merkle_from_values(Row(i), i * row_width)
<1> DEFINE roots == [i \in 0..n - 1 |-> a.chunks[i + 1].root]
<1>1. Len(a.chunks) = n
  BY AccumulatedLen
<1>2. Level(roots, n)
  BY DEF Level
<1>3. ASSUME NEW i \in 0..n - 1
      PROVE  roots[i] = merkle_from_values(Row(i), i * row_width)
  <2>1. i + 1 \in 1..n /\ (i + 1) - 1 = i
    OBVIOUS
  <2>2. \A c \in 1..n : a.chunks[c].root = merkle_from_values(Row(c - 1), (c - 1) * row_width)
    BY DEF Accumulated
  <2>3. a.chunks[i + 1].root = merkle_from_values(Row((i + 1) - 1), ((i + 1) - 1) * row_width)
    BY <2>1, <2>2
  <2>4. a.chunks[i + 1].root = merkle_from_values(Row(i), i * row_width)
    BY <2>1, <2>3
  <2> QED BY <2>4
<1> QED BY <1>1, <1>2, <1>3

\* Against the commitment, the honest path of a chunk verifies with the root
\* of the committed row and with no other.
LEMMA ChunkPathBinds ==
  ASSUME NEW n \in Nat \ {0}, NEW a, Accumulated(a, n), NEW i \in 0..n - 1, NEW leaf
  PROVE  verify_kary(stc_build_pc_commitment(a).root, leaf, i,
                     prove_kary(ChunkLevels(a), i, CHUNK_TREE_ARITY), CHUNK_TREE_ARITY, n)
            <=> leaf = merkle_from_values(Row(i), i * row_width)
<1> DEFINE roots == [k \in 0..Len(a.chunks) - 1 |-> a.chunks[k + 1].root]
<1>1. Level(roots, n) /\ roots[i] = merkle_from_values(Row(i), i * row_width)
  BY ChunkRootsOfRows
<1>2. /\ ChunkLevels(a) = build_kary_levels(roots, CHUNK_TREE_ARITY)
      /\ stc_build_pc_commitment(a).root = root_from_levels(ChunkLevels(a))
  BY DEF ChunkLevels, stc_build_pc_commitment
<1>3. CHUNK_TREE_ARITY \in Nat \ {0, 1}
  BY CommitmentAssumption
<1> HIDE DEF roots
<1> QED BY <1>1, <1>2, <1>3, KaryTreeBinds

\* An opening with the honest path and the offset of its place verifies only
\* with the values of the committed row.
LEMMA OpenedChunkBinds ==
  ASSUME NEW n \in Nat \ {0}, NEW a, Accumulated(a, n), NEW i \in 0..n - 1, Row(i) \in Rows,
         NEW proof, proof.values \in Rows, proof.chunk_index = i,
         proof.chunk_offset = i * row_width,
         proof.chunk_root_path = prove_kary(ChunkLevels(a), i, CHUNK_TREE_ARITY),
         stc_verify_chunk(stc_build_pc_commitment(a), proof)
  PROVE  proof.values = Row(i)
<1> DEFINE C == stc_build_pc_commitment(a)
<1>1. C.num_chunks = n
  BY AccumulatedLen DEF stc_build_pc_commitment
<1>2. /\ merkle_from_values(proof.values, proof.chunk_offset) = proof.chunk_root
      /\ verify_kary(C.root, proof.chunk_root, proof.chunk_index, proof.chunk_root_path,
                     CHUNK_TREE_ARITY, C.num_chunks)
  BY Zenon DEF stc_verify_chunk
<1>3. verify_kary(C.root, proof.chunk_root, i, prove_kary(ChunkLevels(a), i, CHUNK_TREE_ARITY),
                  CHUNK_TREE_ARITY, n)
  BY <1>1, <1>2
<1>4. proof.chunk_root = merkle_from_values(Row(i), i * row_width)
  BY <1>3, ChunkPathBinds
<1> QED BY <1>2, <1>4, ChunkRootBinds

\* The prover's own openings: a chunk opens at its place exactly when the
\* archive still has the row that was committed.
THEOREM ChunkOpensCommitted ==
  ASSUME NEW n \in Nat \ {0}, NEW a, Accumulated(a, n), NEW i \in 0..n - 1, Row(i) \in Rows,
         NEW values \in Rows
  PROVE  stc_verify_chunk(stc_build_pc_commitment(a), stc_open_chunk(a, i, values))
            <=> values = Row(i)
<1> DEFINE C == stc_build_pc_commitment(a)
           proof == stc_open_chunk(a, i, values)
<1>1. row_width \in Nat \ {0}
  BY ColumnNamesType
<1>2. /\ C.num_chunks = n /\ C.length = row_width * n /\ C.chunk_len = row_width
  BY AccumulatedLen DEF stc_build_pc_commitment, Accumulated
<1>3. /\ proof.values = values /\ proof.chunk_index = i /\ proof.chunk_offset = i * row_width
      /\ proof.chunk_root = merkle_from_values(values, i * row_width)
      /\ proof.chunk_root_path = prove_kary(ChunkLevels(a), i, CHUNK_TREE_ARITY)
  BY DEF stc_open_chunk, Accumulated
<1> HIDE DEF proof
<1>4. ASSUME stc_verify_chunk(C, proof) PROVE values = Row(i)
  BY <1>3, <1>4, OpenedChunkBinds
<1>5. ASSUME values = Row(i) PROVE stc_verify_chunk(C, proof)
  <2>1. i * row_width \in 0..row_width * n - 1
    <3>1. i * row_width \in Nat
      BY <1>1
    <3>2. row_width * n - i * row_width = row_width * (n - i)
      BY <1>1
    <3>3. n - i \in Nat \ {0}
      OBVIOUS
    <3>4. row_width * (n - i) > 0
      BY <1>1, <3>3
    <3> QED BY <1>1, <3>1, <3>2, <3>4
  <2>2. values # <<>>
    BY <1>1, LeavesOfRow
  <2>3. verify_kary(C.root, proof.chunk_root, i, proof.chunk_root_path, CHUNK_TREE_ARITY, n)
    BY <1>3, <1>5, ChunkPathBinds
  <2> HIDE DEF C
  <2> QED BY <1>2, <1>3, <2>1, <2>2, <2>3 DEF stc_verify_chunk
<1> QED BY <1>4, <1>5 DEF proof

\* What the opening of a value holds.
LEMMA ValueParts ==
  ASSUME NEW n \in Nat \ {0}, NEW a, Accumulated(a, n), NEW i \in 0..n - 1, NEW values,
         NEW k \in 0..row_width - 1
  PROVE  LET index == i * row_width + k
             C == stc_build_pc_commitment(a)
         IN  /\ C.num_chunks = n /\ index \in 0..C.length - 1
             /\ stc_open_index(a, index, values) =
                  [index |-> index, value |-> values[k + 1], chunk_index |-> i,
                   chunk_offset |-> i * row_width, leaf_pos |-> k,
                   leaf_path |-> prove(build_levels(LeavesOf(values, i * row_width)), k),
                   chunk_root |-> merkle_from_values(values, i * row_width),
                   chunk_root_path |-> prove_kary(ChunkLevels(a), i, CHUNK_TREE_ARITY)]
<1> DEFINE C == stc_build_pc_commitment(a)
           index == i * row_width + k
           offset == i * row_width
<1>1. row_width \in Nat \ {0} /\ k \in Nat /\ i \in Nat /\ offset \in Nat
  BY ColumnNamesType
<1>2. C.num_chunks = n /\ C.length = row_width * n /\ a.chunk_len = row_width
  BY AccumulatedLen DEF stc_build_pc_commitment, Accumulated
<1>3. index \div row_width = i /\ index - offset = k
  <2> HIDE DEF index, offset
  <2>1. index = i * row_width + k /\ offset = i * row_width /\ index \in Nat
    BY <1>1 DEF index, offset
  <2>2. index \div row_width = i
    BY <1>1, <2>1, QuotientUnique
  <2> QED BY <1>1, <2>1, <2>2
<1>4. index \in 0..row_width * n - 1
  <2>1. row_width * n - offset = row_width * (n - i)
    BY <1>1
  <2>2. n - i \in Nat \ {0}
    OBVIOUS
  <2>3. row_width * (n - i) >= row_width
    BY <1>1, <2>2
  <2> QED BY <1>1, <2>1, <2>3
<1> HIDE DEF C, index, offset
<1>5. stc_open_index(a, index, values) =
        [index |-> index, value |-> values[k + 1], chunk_index |-> i, chunk_offset |-> offset,
         leaf_pos |-> k, leaf_path |-> prove(build_levels(LeavesOf(values, offset)), k),
         chunk_root |-> root_from_levels(build_levels(LeavesOf(values, offset))),
         chunk_root_path |-> prove_kary(ChunkLevels(a), i, CHUNK_TREE_ARITY)]
  <2>1. i * a.chunk_len = offset /\ index \div a.chunk_len = i
    BY <1>2, <1>3 DEF offset
  <2> QED BY <1>3, <2>1 DEF stc_open_index
<1> QED BY <1>2, <1>4, <1>5 DEF C, index, offset, merkle_from_values

\* A single value opens at its place exactly when the chunk that it is read
\* from is the committed row and the value is the one in that row.
THEOREM ValueOpensCommitted ==
  ASSUME NEW n \in Nat \ {0}, NEW a, Accumulated(a, n), NEW i \in 0..n - 1, Row(i) \in Rows,
         NEW values \in Rows, NEW k \in 0..row_width - 1, NEW v \in Fields
  PROVE  stc_verify_index(stc_build_pc_commitment(a),
                          [stc_open_index(a, i * row_width + k, values) EXCEPT !.value = v])
            <=> values = Row(i) /\ v = Row(i)[k + 1]
<1> DEFINE C == stc_build_pc_commitment(a)
           index == i * row_width + k
           offset == i * row_width
           leaves == LeavesOf(values, offset)
           levels == build_levels(leaves)
           proof == [stc_open_index(a, index, values) EXCEPT !.value = v]
           root == root_from_levels(levels)
           leaf == chunk_leaf_hash(offset, k, v)
           path == prove(levels, k)
           chunk_path == prove_kary(ChunkLevels(a), i, CHUNK_TREE_ARITY)
<1>1. row_width \in Nat \ {0} /\ k \in Nat /\ i \in Nat /\ offset \in Nat
  BY ColumnNamesType
<1>2. /\ C.num_chunks = n /\ index \in 0..C.length - 1
      /\ stc_open_index(a, index, values) =
           [index |-> index, value |-> values[k + 1], chunk_index |-> i, chunk_offset |-> offset,
            leaf_pos |-> k, leaf_path |-> path, chunk_root |-> root, chunk_root_path |-> chunk_path]
  BY ValueParts DEF merkle_from_values
<1> HIDE DEF C, index, offset
<1> HIDE DEF leaves, levels, root, leaf, path, chunk_path
<1>3. proof = [index |-> index, value |-> v, chunk_index |-> i, chunk_offset |-> offset,
               leaf_pos |-> k, leaf_path |-> path, chunk_root |-> root,
               chunk_root_path |-> chunk_path]
  BY <1>2
<1> HIDE DEF proof
<1>4. stc_verify_index(C, proof)
        <=> /\ verify(root, leaf, k, path)
            /\ verify_kary(C.root, root, i, chunk_path, CHUNK_TREE_ARITY, n)
  BY <1>2, <1>3 DEF stc_verify_index, leaf
<1>5. verify(root, leaf, k, path) <=> v = values[k + 1]
  <2>1. /\ Level(leaves, row_width) /\ leaves[k] = [leaf |-> <<offset, k, values[k + 1]>>]
    BY LeavesOfRow DEF leaves
  <2>2. verify(root, leaf, k, path) <=> leaf = leaves[k]
    BY <1>1, <2>1, PathBinds DEF root, levels, path
  <2>3. leaf = [leaf |-> <<offset, k, v>>]
    BY FieldType DEF leaf, chunk_leaf_hash
  <2> DEFINE w == values[k + 1]
  <2> HIDE DEF w
  <2>4. [leaf |-> <<offset, k, v>>] = [leaf |-> <<offset, k, w>>] <=> v = w
    <3>1. [leaf |-> <<offset, k, v>>] = [leaf |-> <<offset, k, w>>]
            => <<offset, k, v>> = <<offset, k, w>>
      OBVIOUS
    <3>2. <<offset, k, v>> = <<offset, k, w>> => v = w
      OBVIOUS
    <3> QED BY <3>1, <3>2
  <2> QED BY <2>1, <2>2, <2>3, <2>4 DEF w
<1>6. verify_kary(C.root, root, i, chunk_path, CHUNK_TREE_ARITY, n) <=> values = Row(i)
  <2>1. root = merkle_from_values(values, i * row_width)
    BY DEF root, levels, leaves, offset, merkle_from_values
  <2>2. verify_kary(C.root, root, i, chunk_path, CHUNK_TREE_ARITY, n)
          <=> root = merkle_from_values(Row(i), i * row_width)
    BY ChunkPathBinds DEF C, chunk_path
  <2> QED BY <2>1, <2>2, ChunkRootBinds
<1> QED BY <1>4, <1>5, <1>6 DEF C, proof, index

(* ---------------- vectors committed in several chunks ----------------- *)

\* A vector that is accumulated: all its chunks, with their roots.
LEMMA AccumulateShape ==
  ASSUME NEW n \in Nat \ {0}, NEW cl \in Nat \ {0}, NEW values \in Vectors(n)
  PROVE  /\ Holding(Accumulate(values, cl), CeilDiv(n, cl))
         /\ Accumulate(values, cl).chunk_len = cl /\ Accumulate(values, cl).length = n
         /\ \A c \in 1..CeilDiv(n, cl) :
               Accumulate(values, cl).chunks[c].root
                  = merkle_from_values(ChunksOf(values, cl)[c], (c - 1) * cl)
<1> DEFINE q == CeilDiv(n, cl)
           chunks == ChunksOf(values, cl)
<1>1. /\ q \in Nat \ {0} /\ n <= q * cl
      /\ \A c \in 1..q : /\ (c - 1) * cl \in Nat /\ c * cl = (c - 1) * cl + cl /\ (c - 1) * cl < n
                         /\ c < q => c * cl < n
  BY ChunkCount
<1>2. /\ Len(chunks) = q
      /\ \A c \in 1..q : /\ ChunkSize(c, cl, n) \in 1..cl
                         /\ (c - 1) * cl + ChunkSize(c, cl, n) = Least(c * cl, n)
                         /\ chunks[c] \in Vectors(ChunkSize(c, cl, n))
  BY ChunkShape
<1> HIDE DEF q, chunks
<1>3. PICK at : /\ at[0] = NewAccumulator(cl)
                /\ \A c \in 1..q : at[c] = add_chunk(at[c - 1], chunks[c])
                /\ Accumulate(values, cl) = at[q]
  BY <1>1, <1>2, AccumulateUnfold DEF chunks
<1> DEFINE Fed(c) == /\ Holding(at[c], c) /\ at[c].chunk_len = cl /\ at[c].length = Least(c * cl, n)
                     /\ \A k \in 1..c : at[c].chunks[k].root = merkle_from_values(chunks[k], (k - 1) * cl)
           All == {c \in Nat : c <= q => Fed(c)}
<1>4. 0 \in All
  <2>1. Least(0 * cl, n) = 0
    BY DEF Least
  <2> QED BY <1>3, <2>1, NewHolding
<1>5. ASSUME NEW c \in Nat, c \in All
      PROVE  c + 1 \in All
  <2> SUFFICES ASSUME c + 1 <= q PROVE Fed(c + 1)
    OBVIOUS
  <2>1. Fed(c)
    BY <1>1, <1>5
  <2>2. PICK d \in 1..q : d = c + 1 /\ d - 1 = c
    BY <1>1
  <2>3. c * cl \in Nat /\ c * cl < n
    <3>1. (d - 1) * cl \in Nat /\ (d - 1) * cl < n
      BY <1>1
    <3> QED BY <2>2, <3>1
  <2>4. at[c].length = c * cl
    BY <2>1, <2>3 DEF Least
  <2> DEFINE m == ChunkSize(d, cl, n)
  <2>5. m \in Nat /\ chunks[d] \in Vectors(m) /\ c * cl + m = Least(d * cl, n)
    <3>1. m \in 1..cl /\ (d - 1) * cl + m = Least(d * cl, n) /\ chunks[d] \in Vectors(m)
      BY <1>2
    <3> HIDE DEF m
    <3> QED BY <2>2, <3>1
  <2>6. at[d] = add_chunk(at[c], chunks[d])
    BY <1>3, <2>2
  <2> HIDE DEF m
  <2>7. /\ Holding(at[d], d) /\ at[d].length = at[c].length + m /\ at[d].chunk_len = cl
        /\ at[d].chunks[d].root = merkle_from_values(chunks[d], at[c].length)
        /\ \A k \in 1..c : at[d].chunks[k] = at[c].chunks[k]
    BY <2>1, <2>2, <2>5, <2>6, AddChunk
  <2>8. ASSUME NEW k \in 1..d
        PROVE  at[d].chunks[k].root = merkle_from_values(chunks[k], (k - 1) * cl)
    <3>1. CASE k = d
      BY <2>2, <2>4, <2>7, <3>1
    <3>2. CASE k # d
      <4>1. k \in 1..c
        BY <2>2, <3>2
      <4> QED BY <2>1, <2>7, <4>1
    <3> QED BY <3>1, <3>2
  <2>9. at[d].length = Least(d * cl, n)
    BY <2>4, <2>5, <2>7
  <2> QED BY <2>2, <2>7, <2>8, <2>9
<1>6. Fed(q)
  <2>1. \A c \in Nat : c \in All
    <3> HIDE DEF All
    <3> QED BY <1>4, <1>5, SetInduction
  <2>2. q \in All /\ q \in Nat
    BY <1>1, <2>1
  <2> HIDE DEF Fed
  <2> QED BY <2>2
<1>7. Least(q * cl, n) = n
  <2>1. q * cl \in Nat
    BY <1>1
  <2> QED BY <1>1, <2>1 DEF Least
<1> QED BY <1>3, <1>6, <1>7 DEF q, chunks

(* ---------------------------- the layers ------------------------------ *)

\* A run's layers: each is half as long as the one before it.
LEMMA LayerSizes ==
  ASSUME NEW cfg, NEW d \in Nat \ {0}, cfg.domain_size = d,
         NEW rounds \in Nat, cfg.num_rounds = rounds, CanFold(cfg)
  PROVE  /\ Halved(d, rounds)[0] = d
         /\ \A r \in 0..rounds : Halved(d, rounds)[r] \in Nat \ {0}
         /\ \A r \in 1..rounds : Halved(d, rounds)[r - 1] = 2 * Halved(d, rounds)[r]
<1> DEFINE s == Halved(d, rounds)
           Positive == {r \in Nat : r <= rounds => s[r] \in Nat \ {0}}
<1>1. s[0] = d /\ \A r \in 1..rounds : s[r] = s[r - 1] \div 2
  BY AncestorsUnfold DEF Halved
<1>2. \A r \in 1..rounds : s[r - 1] % 2 = 0
  BY DEF CanFold
<1> HIDE DEF s
<1>3. 0 \in Positive
  BY <1>1
<1>4. ASSUME NEW r \in Nat, r \in Positive
      PROVE  r + 1 \in Positive
  <2> SUFFICES ASSUME r + 1 <= rounds PROVE s[r + 1] \in Nat \ {0}
    OBVIOUS
  <2>1. r + 1 \in 1..rounds /\ (r + 1) - 1 = r /\ s[r] \in Nat \ {0}
    BY <1>4
  <2>2. s[r + 1] = s[r] \div 2 /\ s[r] % 2 = 0
    BY <1>1, <1>2, <2>1
  <2> QED BY <2>1, <2>2
<1>5. \A r \in 0..rounds : s[r] \in Nat \ {0}
  <2>1. \A r \in Nat : r \in Positive
    <3> HIDE DEF Positive
    <3> QED BY <1>3, <1>4, SetInduction
  <2> QED BY <2>1
<1>6. ASSUME NEW r \in 1..rounds PROVE s[r - 1] = 2 * s[r]
  <2>1. s[r - 1] \in Nat
    BY <1>5
  <2>2. s[r] = s[r - 1] \div 2 /\ s[r - 1] % 2 = 0
    BY <1>1, <1>2
  <2> QED BY <2>1, <2>2
<1> QED BY <1>1, <1>5, <1>6 DEF s

\* The place of a query in each layer.
LEMMA QueryPlaces ==
  ASSUME NEW cfg, NEW d \in Nat \ {0}, cfg.domain_size = d,
         NEW rounds \in Nat, cfg.num_rounds = rounds, CanFold(cfg), NEW q \in 0..d - 1
  PROVE  /\ Halved(q, rounds)[0] = q
         /\ \A r \in 0..rounds : Halved(q, rounds)[r] \in 0..Halved(d, rounds)[r] - 1
         /\ \A r \in 1..rounds : Halved(q, rounds)[r] = Halved(q, rounds)[r - 1] \div 2
<1> DEFINE s == Halved(d, rounds)
           p == Halved(q, rounds)
           Inside == {r \in Nat : r <= rounds => p[r] \in 0..s[r] - 1}
<1>1. /\ s[0] = d
      /\ \A r \in 0..rounds : s[r] \in Nat \ {0}
      /\ \A r \in 1..rounds : s[r - 1] = 2 * s[r]
  BY LayerSizes
<1>2. p[0] = q /\ \A r \in 1..rounds : p[r] = p[r - 1] \div 2
  BY AncestorsUnfold DEF Halved
<1> HIDE DEF s, p
<1>3. 0 \in Inside
  BY <1>1, <1>2
<1>4. ASSUME NEW r \in Nat, r \in Inside
      PROVE  r + 1 \in Inside
  <2> SUFFICES ASSUME r + 1 <= rounds PROVE p[r + 1] \in 0..s[r + 1] - 1
    OBVIOUS
  <2>1. r \in 0..rounds /\ r + 1 \in 0..rounds /\ r + 1 \in 1..rounds /\ (r + 1) - 1 = r
    OBVIOUS
  <2>2. p[r] \in 0..s[r] - 1
    BY <1>4, <2>1
  <2>3. s[r] = 2 * s[r + 1] /\ p[r + 1] = p[r] \div 2
    BY <1>1, <1>2, <2>1
  <2>4. s[r] \in Nat \ {0} /\ s[r + 1] \in Nat \ {0}
    BY <1>1, <2>1
  <2> QED BY <2>2, <2>3, <2>4
<1>5. \A r \in Nat : r \in Inside
  <2> HIDE DEF Inside
  <2> QED BY <1>3, <1>4, SetInduction
<1>6. \A r \in 0..rounds : p[r] \in 0..s[r] - 1
  BY <1>5
<1> QED BY <1>2, <1>6 DEF s, p

\* Positions that are opened lie in their layer.
LEMMA NeededInside ==
  ASSUME NEW cfg, NEW d \in Nat \ {0}, cfg.domain_size = d,
         NEW rounds \in Nat, cfg.num_rounds = rounds, CanFold(cfg),
         NEW queries, queries \subseteq 0..d - 1, NEW layer \in 1..rounds + 1
  PROVE  Needed(cfg, layer, queries) \subseteq 0..Halved(d, rounds)[layer - 1] - 1
<1> DEFINE s == Halved(d, rounds)
           p(q) == Halved(q, rounds)
<1>1. /\ \A r \in 0..rounds : s[r] \in Nat \ {0}
      /\ \A r \in 1..rounds : s[r - 1] = 2 * s[r]
  BY LayerSizes
<1>2. ASSUME NEW q \in queries, NEW r \in 0..rounds PROVE p(q)[r] \in 0..s[r] - 1
  <2>1. q \in 0..d - 1
    OBVIOUS
  <2> QED BY <2>1, QueryPlaces
<1>3. Needed(cfg, layer, queries) =
        IF layer = rounds + 1 THEN {p(q)[layer - 1] : q \in queries}
        ELSE UNION {{2 * p(q)[layer], 2 * p(q)[layer] + 1} : q \in queries}
  BY DEF Needed
<1> HIDE DEF s, p
<1>4. CASE layer = rounds + 1
  <2>1. layer - 1 \in 0..rounds
    OBVIOUS
  <2>2. \A q \in queries : p(q)[layer - 1] \in 0..s[layer - 1] - 1
    BY <1>2, <2>1
  <2>3. Needed(cfg, layer, queries) = {p(q)[layer - 1] : q \in queries}
    BY <1>3, <1>4
  <2>4. Needed(cfg, layer, queries) \subseteq 0..s[layer - 1] - 1
    BY <2>2, <2>3, Zenon
  <2> QED BY <2>4 DEF s
<1>5. CASE layer # rounds + 1
  <2>1. layer \in 1..rounds /\ layer \in 0..rounds
    BY <1>5
  <2>2. s[layer - 1] = 2 * s[layer] /\ s[layer] \in Nat \ {0}
    BY <1>1, <2>1
  <2>3. ASSUME NEW q \in queries
        PROVE  {2 * p(q)[layer], 2 * p(q)[layer] + 1} \subseteq 0..s[layer - 1] - 1
    <3>1. p(q)[layer] \in 0..s[layer] - 1
      BY <1>2, <2>1
    <3> QED BY <2>2, <3>1
  <2>4. Needed(cfg, layer, queries) =
          UNION {{2 * p(q)[layer], 2 * p(q)[layer] + 1} : q \in queries}
    BY <1>3, <1>5
  <2>5. Needed(cfg, layer, queries) \subseteq 0..s[layer - 1] - 1
    BY <2>3, <2>4, Zenon
  <2> QED BY <2>5 DEF s
<1> QED BY <1>4, <1>5

\* A vector's values open as a batch with no other value at one of the indices.
THEOREM OpenedBatchBinds ==
  ASSUME NEW n \in Nat \ {0}, NEW cl \in Nat \ {0}, NEW values \in Vectors(n),
         NEW I, I \subseteq 0..n - 1, NEW i \in I, NEW C,
         verify_batch(C, open_batch(Accumulate(values, cl), I, ChunksOf(values, cl))),
         NEW w, w % Modulus # values[i + 1]
  PROVE  ~ verify_batch(C, [open_batch(Accumulate(values, cl), I, ChunksOf(values, cl))
                              EXCEPT !.entries[i].value = w])
<1> DEFINE a == Accumulate(values, cl)
           chunks == ChunksOf(values, cl)
           c == i \div cl
           m == ChunkSize(c + 1, cl, n)
<1>1. a.chunk_len = cl
  BY AccumulateShape
<1>2. i \in 0..n - 1 /\ I \subseteq Nat
  OBVIOUS
<1>3. c + 1 \in 1..CeilDiv(n, cl) /\ c \in Nat /\ chunks[c + 1][(i % cl) + 1] = values[i + 1]
  <2>1. i \div cl + 1 \in 1..CeilDiv(n, cl)
    BY <1>2, ChunkPlace
  <2>2. InChunk(ChunksOf(values, cl), cl, values, i)
    BY <1>2, ChunkPlace
  <2>3. i \div cl \in Nat
    BY <1>2, Quotient
  <2> QED BY <2>1, <2>2, <2>3 DEF InChunk
<1>4. m \in Nat \ {0} /\ chunks[c + 1] \in Vectors(m)
  <2>1. \A h \in 1..CeilDiv(n, cl) :
           ChunkSize(h, cl, n) \in 1..cl /\ chunks[h] \in Vectors(ChunkSize(h, cl, n))
    BY ChunkShape
  <2> HIDE DEF chunks
  <2> QED BY <1>3, <2>1
<1>5. ASSUME NEW j \in I, j \div cl = c PROVE j % cl \in 0..m - 1
  <2>1. j \in 0..n - 1
    OBVIOUS
  <2> QED BY <1>5, <2>1, ChunkPlace
<1> HIDE DEF a, chunks, m
<1>6. Level(LeavesOf(chunks[c + 1], c * cl), m)
  <2>1. Len(chunks[c + 1]) = m
    BY <1>4, FunctionIsSeq DEF Vectors
  <2> QED BY <2>1 DEF LeavesOf, Level
<1>7. values[i + 1] % Modulus = values[i + 1]
  <2>1. i + 1 \in 1..n
    BY <1>2
  <2> QED BY <2>1, FieldType DEF Vectors
<1>8. w % Modulus # chunks[c + 1][(i % cl) + 1] % Modulus
  BY <1>3, <1>7
<1>9. verify_batch(C, open_batch(a, I, chunks))
  BY DEF a, chunks
<1> HIDE DEF c
<1>10. /\ Level(LeavesOf(chunks[i \div cl + 1], (i \div cl) * cl), m)
       /\ \A j \in I : j \div cl = i \div cl => j % cl \in 0..m - 1
       /\ w % Modulus # chunks[i \div cl + 1][(i % cl) + 1] % Modulus
  BY <1>5, <1>6, <1>8 DEF c
<1>11. ~ verify_batch(C, [open_batch(a, I, chunks) EXCEPT !.entries[i].value = w])
  BY <1>1, <1>2, <1>4, <1>9, <1>10, BatchBinds
<1> QED BY <1>11 DEF a, chunks

\* The layers of a run, fold by fold.
LEMMA CodewordsUnfold ==
  ASSUME NEW cfg, NEW rounds \in Nat, cfg.num_rounds = rounds, NEW base
  PROVE  /\ DOMAIN Codewords(cfg, base) = 1..rounds + 1
         /\ Codewords(cfg, base)[1] = [i \in DOMAIN base |-> base[i] % Modulus]
         /\ \A r \in 1..rounds :
               Codewords(cfg, base)[r + 1] = fold_codeword(Codewords(cfg, base)[r], Beta(r - 1))
<1> DEFINE First == [i \in DOMAIN base |-> base[i] % Modulus]
           Up(g, d) == [r \in 0..d |-> IF r = 0 THEN First ELSE fold_codeword(g[r - 1], Beta(r - 1))]
           Built == {d \in Nat : \E g : g = Up(g, d)}
           at == CHOOSE g : g = Up(g, rounds)
<1>1. Codewords(cfg, base) = [r \in 1..rounds + 1 |-> at[r - 1]]
  BY DEF Codewords
<1> HIDE DEF First
<1>2. 0 \in Built
  <2> DEFINE h == Up(<<>>, 0)
  <2>1. h = Up(h, 0)
    OBVIOUS
  <2> HIDE DEF h, Up
  <2> QED BY <2>1
<1>3. ASSUME NEW d \in Nat, d \in Built
      PROVE  d + 1 \in Built
  <2>1. PICK g : g = Up(g, d)
    BY <1>3
  <2> DEFINE h == Up(g, d + 1)
  <2>2. \A r \in 0..d : h[r] = g[r]
    BY <2>1
  <2>3. h = Up(h, d + 1)
    <3>1. \A r \in 0..d + 1 : r # 0 => r - 1 \in 0..d
      OBVIOUS
    <3> QED BY <2>2, <3>1
  <2> HIDE DEF h, Up
  <2> QED BY <2>3
<1>4. \A d \in Nat : d \in Built
  <2> HIDE DEF Built
  <2> QED BY <1>2, <1>3, SetInduction
<1>5. at = Up(at, rounds)
  <2>1. \E g : g = Up(g, rounds)
    BY <1>4
  <2> HIDE DEF Up
  <2> QED BY <2>1
<1> HIDE DEF at
<1>6. at[0] = First /\ \A r \in 1..rounds : at[r] = fold_codeword(at[r - 1], Beta(r - 1))
  BY <1>5
<1> DEFINE words == Codewords(cfg, base)
<1>7. DOMAIN words = 1..rounds + 1 /\ \A r \in 1..rounds + 1 : words[r] = at[r - 1]
  BY <1>1
<1> HIDE DEF words
<1>8. ASSUME NEW r \in 1..rounds PROVE words[r + 1] = fold_codeword(words[r], Beta(r - 1))
  <2>1. words[r + 1] = at[r] /\ words[r] = at[r - 1]
    <3> r + 1 \in 1..rounds + 1 /\ r \in 1..rounds + 1 /\ (r + 1) - 1 = r
      OBVIOUS
    <3> QED BY <1>7
  <2> QED BY <1>6, <2>1
<1>9. words[1] = First
  <2> 1 \in 1..rounds + 1 /\ 1 - 1 = 0
    OBVIOUS
  <2> QED BY <1>6, <1>7
<1> QED BY <1>7, <1>8, <1>9 DEF words, First

\* A fold halves a vector.
LEMMA FoldType ==
  ASSUME NEW m \in Nat, NEW values \in Vectors(2 * m), NEW b \in Fields
  PROVE  fold_codeword(values, b) \in Vectors(m)
<1>1. Len(values) = 2 * m /\ values \in [1..2 * m -> Fields]
  BY FunctionIsSeq DEF Vectors
<1>2. (2 * m) \div 2 = m
  OBVIOUS
<1>3. ASSUME NEW i \in 1..m PROVE (values[2 * i - 1] + b * values[2 * i]) % Modulus \in Fields
  <2>1. 2 * i - 1 \in 1..2 * m /\ 2 * i \in 1..2 * m
    OBVIOUS
  <2>2. values[2 * i - 1] \in Int /\ values[2 * i] \in Int /\ b \in Int
    BY <1>1, <2>1, FieldType
  <2> QED BY <2>2, InField
<1> QED BY <1>1, <1>2, <1>3 DEF fold_codeword, Vectors

\* The layers hold field elements, each half as many as the one before.
LEMMA CodewordsType ==
  ASSUME NEW cfg, NEW d \in Nat \ {0}, cfg.domain_size = d, NEW rounds \in 0..RoundLimit,
         cfg.num_rounds = rounds, CanFold(cfg), NEW base \in Vectors(d)
  PROVE  /\ DOMAIN Codewords(cfg, base) = 1..rounds + 1
         /\ Codewords(cfg, base)[1] = base
         /\ \A r \in 1..rounds + 1 :
               Codewords(cfg, base)[r] \in Vectors(Halved(d, rounds)[r - 1])
<1> DEFINE words == Codewords(cfg, base)
           s == Halved(d, rounds)
           Typed == {r \in Nat : r <= rounds => words[r + 1] \in Vectors(s[r])}
<1>1. rounds \in Nat /\ RoundLimit \in Nat
  BY ProofAssumption
<1>2. /\ DOMAIN words = 1..rounds + 1
      /\ words[1] = [i \in DOMAIN base |-> base[i] % Modulus]
      /\ \A r \in 1..rounds : words[r + 1] = fold_codeword(words[r], Beta(r - 1))
  BY <1>1, CodewordsUnfold
<1>3. /\ s[0] = d /\ \A r \in 0..rounds : s[r] \in Nat \ {0}
      /\ \A r \in 1..rounds : s[r - 1] = 2 * s[r]
  BY <1>1, LayerSizes
<1>4. \A r \in 0..RoundLimit : Beta(r) \in Fields
  BY ProofAssumption DEF Fields
<1> HIDE DEF words, s
<1>5. words[1] = base
  <2>1. base \in [1..d -> Fields]
    BY DEF Vectors
  <2>2. \A i \in 1..d : base[i] % Modulus = base[i]
    BY <2>1, FieldType
  <2> QED BY <1>2, <2>1, <2>2
<1>6. 0 \in Typed
  <2> 0 + 1 = 1
    OBVIOUS
  <2> QED BY <1>3, <1>5
<1>7. ASSUME NEW r \in Nat, r \in Typed
      PROVE  r + 1 \in Typed
  <2> SUFFICES ASSUME r + 1 <= rounds PROVE words[(r + 1) + 1] \in Vectors(s[r + 1])
    OBVIOUS
  <2>1. PICK k \in 1..rounds : k = r + 1 /\ k - 1 = r
    BY <1>1
  <2>2. words[k] \in Vectors(s[r])
    BY <1>1, <1>7, <2>1
  <2>3. s[r] = 2 * s[k] /\ s[k] \in Nat
    <3> k \in 0..rounds
      BY <1>1
    <3> QED BY <1>3, <2>1
  <2>4. Beta(r) \in Fields
    <3> r \in 0..RoundLimit
      BY <1>1
    <3> QED BY <1>4
  <2>5. words[k + 1] = fold_codeword(words[k], Beta(r))
    BY <1>2, <2>1
  <2>6. words[k + 1] \in Vectors(s[k])
    BY <2>2, <2>3, <2>4, <2>5, FoldType
  <2> QED BY <2>1, <2>6
<1>8. \A r \in Nat : r \in Typed
  <2> HIDE DEF Typed
  <2> QED BY <1>6, <1>7, SetInduction
<1>9. ASSUME NEW r \in 1..rounds + 1 PROVE words[r] \in Vectors(s[r - 1])
  <2>1. PICK k \in Nat : k <= rounds /\ k + 1 = r /\ r - 1 = k
    <3>1. r - 1 \in Nat /\ r - 1 <= rounds /\ (r - 1) + 1 = r
      BY <1>1
    <3> QED BY <3>1
  <2> QED BY <1>8, <2>1
<1> QED BY <1>2, <1>5, <1>9 DEF words, s

(* -------------------------- the composition --------------------------- *)

Residuals == [StepConstraints -> Fields]

LEMMA AlphaType ==
  \A n \in StepConstraints \cup Finals \X {1} : alpha(n) \in Nat /\ alpha(n) \in Fields \ {0}
BY ProofAssumption DEF Fields

LEMMA ProductNatural ==
  ASSUME NEW x \in Nat, NEW y \in Nat
  PROVE  x * y \in Nat
OBVIOUS

\* The weighted residuals of a step: those of the machine's constraints, and
\* the sums over the challenges.
WeightOf(residual, n) == alpha(n) * residual[n]

MachineSteps(residual) ==
    WeightOf(residual, <<"pc", 0>>) + WeightOf(residual, <<"gas", 0>>)
        + WeightOf(residual, <<"cnt", 0>>) + WeightOf(residual, <<"m11", 0>>)
        + WeightOf(residual, <<"m12", 0>>) + WeightOf(residual, <<"m22", 0>>)

SketchSteps(residual, over) ==
    /\ over[0] = 0
    /\ \A j \in 1..Len(Challenges) :
          over[j] = over[j - 1] + WeightOf(residual, <<"s", j>>) + WeightOf(residual, <<"pow", j>>)

LEMMA WeightedStepsUnfold ==
  ASSUME NEW residual
  PROVE  \E over : /\ SketchSteps(residual, over)
                   /\ WeightedSteps(residual) = MachineSteps(residual) + over[Len(Challenges)]
<1> DEFINE W(n) == alpha(n) * residual[n]
           m == Len(Challenges)
           Add(x, j) == x + W(<<"s", j>>) + W(<<"pow", j>>)
           Up(g, d) == [j \in 0..d |-> IF j = 0 THEN 0 ELSE Add(g[j - 1], j)]
           Built == {d \in Nat : \E g : g = Up(g, d)}
           over == CHOOSE g : g = Up(g, m)
           plain == W(<<"pc", 0>>) + W(<<"gas", 0>>) + W(<<"cnt", 0>>) + W(<<"m11", 0>>)
                        + W(<<"m12", 0>>) + W(<<"m22", 0>>)
<1>1. m \in Nat /\ DOMAIN Challenges = 1..m
  BY CommitmentAssumption
<1>2. WeightedSteps(residual) = plain + over[m]
  BY Zenon DEF WeightedSteps
<1>3. plain = MachineSteps(residual)
  BY DEF MachineSteps, WeightOf
<1> HIDE DEF plain
<1>4. \A x, j : Add(x, j) = x + WeightOf(residual, <<"s", j>>) + WeightOf(residual, <<"pow", j>>)
  BY DEF WeightOf
<1> HIDE DEF W, Add
<1>6. 0 \in Built
  <2> DEFINE h == Up(<<>>, 0)
  <2>1. h = Up(h, 0)
    OBVIOUS
  <2> HIDE DEF h, Up
  <2> QED BY <2>1
<1>7. ASSUME NEW d \in Nat, d \in Built
      PROVE  d + 1 \in Built
  <2>1. PICK g : g = Up(g, d)
    BY <1>7
  <2> DEFINE h == Up(g, d + 1)
  <2>2. \A j \in 0..d : h[j] = g[j]
    BY <2>1
  <2>3. h = Up(h, d + 1)
    <3>1. \A j \in 0..d + 1 : j # 0 => j - 1 \in 0..d
      OBVIOUS
    <3> QED BY <2>2, <3>1
  <2> HIDE DEF h, Up
  <2> QED BY <2>3
<1>8. \A d \in Nat : d \in Built
  <2> HIDE DEF Built
  <2> QED BY <1>6, <1>7, SetInduction
<1>9. over = Up(over, m)
  <2>1. \E g : g = Up(g, m)
    BY <1>1, <1>8
  <2> HIDE DEF Up
  <2> QED BY <2>1
<1> HIDE DEF over
<1>10. over[0] = 0 /\ \A j \in 1..m : over[j] = Add(over[j - 1], j)
  BY <1>1, <1>9
<1>11. SketchSteps(residual, over)
  BY <1>4, <1>10 DEF SketchSteps
<1> QED BY <1>2, <1>3, <1>11

LEMMA WeightedStepsType ==
  ASSUME NEW residual \in Residuals
  PROVE  WeightedSteps(residual) \in Nat
<1> DEFINE W(n) == WeightOf(residual, n)
           m == Len(Challenges)
<1>1. m \in Nat /\ DOMAIN Challenges = 1..m
  BY CommitmentAssumption
<1>2. \A n \in StepConstraints : W(n) \in Nat
  <2> SUFFICES ASSUME NEW n \in StepConstraints PROVE W(n) \in Nat
    OBVIOUS
  <2>1. alpha(n) \in Nat
    BY AlphaType
  <2>2. residual[n] \in Nat
    BY FieldType DEF Residuals
  <2> QED BY <2>1, <2>2, ProductNatural DEF WeightOf
<1>3. MachineSteps(residual) \in Nat
  <2>1. \A n \in {"pc", "gas", "cnt", "m11", "m12", "m22"} : <<n, 0>> \in StepConstraints
    BY DEF StepConstraints
  <2> QED BY <1>2, <2>1 DEF MachineSteps
<1>4. \A j \in 1..m : W(<<"s", j>>) \in Nat /\ W(<<"pow", j>>) \in Nat
  <2>1. \A j \in 1..m : <<"s", j>> \in StepConstraints /\ <<"pow", j>> \in StepConstraints
    BY <1>1 DEF StepConstraints
  <2> QED BY <1>2, <2>1
<1>5. PICK over : /\ SketchSteps(residual, over)
                  /\ WeightedSteps(residual) = MachineSteps(residual) + over[m]
  BY WeightedStepsUnfold
<1> DEFINE Typed == {j \in Nat : j <= m => over[j] \in Nat}
<1>6. 0 \in Typed
  BY <1>5 DEF SketchSteps
<1>7. ASSUME NEW j \in Nat, j \in Typed
      PROVE  j + 1 \in Typed
  <2> SUFFICES ASSUME j + 1 <= m PROVE over[j + 1] \in Nat
    OBVIOUS
  <2>1. over[j] \in Nat
    BY <1>1, <1>7
  <2>2. PICK k \in 1..m : k = j + 1 /\ k - 1 = j
    BY <1>1
  <2>3. over[k] = over[j] + W(<<"s", k>>) + W(<<"pow", k>>)
    BY <1>5, <2>2 DEF SketchSteps
  <2> QED BY <1>4, <2>1, <2>2, <2>3
<1>8. over[m] \in Nat
  <2>1. \A j \in Nat : j \in Typed
    <3> HIDE DEF Typed
    <3> QED BY <1>6, <1>7, SetInduction
  <2> QED BY <1>1, <2>1
<1> QED BY <1>3, <1>5, <1>8

\* The results' part of the composition is the declared CNT's, weighted, and
\* a rest that does not depend on it.
Results == [Finals -> Fields]

OtherResults(row, finals) ==
    alpha(<<"M11", 1>>) * Minus(row[<<"M11", 0>>], finals["M11"])
        + alpha(<<"M12", 1>>) * Minus(row[<<"M12", 0>>], finals["M12"])
        + alpha(<<"M22", 1>>) * Minus(row[<<"M22", 0>>], finals["M22"])

CountResult(row, finals) == alpha(<<"CNT", 1>>) * Minus(row[<<"CNT", 0>>], finals["CNT"])

LEMMA ResultsType ==
  ASSUME NEW row \in FieldRows, NEW finals \in Results
  PROVE  /\ WeightedResults(row, finals) = OtherResults(row, finals) + CountResult(row, finals)
         /\ OtherResults(row, finals) \in Nat /\ CountResult(row, finals) \in Nat
         /\ WeightedResults(row, finals) \in Nat
<1> DEFINE W(n) == alpha(<<n, 1>>) * Minus(row[<<n, 0>>], finals[n])
<1>1. ASSUME NEW n \in Finals PROVE W(n) \in Nat
  <2>1. alpha(<<n, 1>>) \in Nat
    BY AlphaType
  <2>2. row[<<n, 0>>] \in Nat /\ finals[n] \in Nat
    <3>1. n \in BaseNames
      BY DEF Finals, BaseNames
    <3> QED BY <3>1, BaseColumn, FieldType DEF Results
  <2>3. Minus(row[<<n, 0>>], finals[n]) \in Nat
    BY <2>2, MinusType, FieldType
  <2> QED BY <2>1, <2>3, ProductNatural
<1>2. /\ WeightedResults(row, finals) = W("M11") + W("M12") + W("M22") + W("CNT")
      /\ OtherResults(row, finals) = W("M11") + W("M12") + W("M22")
      /\ CountResult(row, finals) = W("CNT")
  BY DEF WeightedResults, OtherResults, CountResult
<1>3. W("M11") \in Nat /\ W("M12") \in Nat /\ W("M22") \in Nat /\ W("CNT") \in Nat
  BY <1>1 DEF Finals
<1> HIDE DEF W
<1> QED BY <1>2, <1>3

\* The constraints between two rows yield field elements.
LEMMA EvalType ==
  ASSUME NEW row \in FieldRows, NEW next \in FieldRows
  PROVE  eval_constraints_from_row(row, next) \in Residuals
<1> DEFINE R(n) == row[<<n, 0>>]
           N(n) == next[<<n, 0>>]
           packed == pack_vm_value(R("PC"), R("OP"), R("GAS"), R("ACC"))
           Sketch(j) == row[<<"sketches", j>>]
           Power(j) == row[<<"powers", j>>]
           Value(n) ==
            CASE n[1] = "pc"  -> Minus(N("PC"), R("PC") + 1)
              [] n[1] = "gas" -> Minus(N("GAS"), Minus(R("GAS"), 1 + (R("OP") % 3)))
              [] n[1] = "cnt" -> Minus(N("CNT"), R("CNT") + 1)
              [] n[1] = "m11" -> Minus(N("M11"), R("M11") + R("X1") * R("X1"))
              [] n[1] = "m12" -> Minus(N("M12"), R("M12") + R("X1") * R("X2"))
              [] n[1] = "m22" -> Minus(N("M22"), R("M22") + R("X2") * R("X2"))
              [] n[1] = "s"   -> Minus(next[<<"sketches", n[2]>>], Sketch(n[2]) + packed * Power(n[2]))
              [] n[1] = "pow" -> Minus(next[<<"powers", n[2]>>], Power(n[2]) * Challenges[n[2]])
<1>1. /\ R("PC") \in Nat /\ R("OP") \in Nat /\ R("GAS") \in Nat /\ R("ACC") \in Nat
      /\ R("X1") \in Nat /\ R("X2") \in Nat /\ R("CNT") \in Nat
      /\ R("M11") \in Nat /\ R("M12") \in Nat /\ R("M22") \in Nat
      /\ N("PC") \in Nat /\ N("GAS") \in Nat /\ N("CNT") \in Nat
      /\ N("M11") \in Nat /\ N("M12") \in Nat /\ N("M22") \in Nat
  <2>1. \A n \in BaseNames : R(n) \in Nat /\ N(n) \in Nat
    BY BaseColumn, FieldType
  <2> HIDE DEF R, N
  <2> QED BY <2>1 DEF BaseNames
<1>2. packed \in Nat
  BY <1>1, PackedType
<1>3. \A j \in DOMAIN Challenges :
         /\ next[<<"sketches", j>>] \in Nat /\ next[<<"powers", j>>] \in Nat
         /\ Sketch(j) \in Nat /\ Power(j) \in Nat /\ Challenges[j] \in Nat
  <2> TAKE j \in DOMAIN Challenges
  <2>1. <<"sketches", j>> \in Columns /\ <<"powers", j>> \in Columns
    BY ColumnNamesType
  <2>2. Challenges[j] \in Nat
    BY CommitmentAssumption
  <2> QED BY <2>1, <2>2, BaseColumn, FieldType
<1> HIDE DEF R, N, packed, Sketch, Power
<1>4. Minus(R("GAS"), 1 + (R("OP") % 3)) \in Nat
  <2>1. 1 + (R("OP") % 3) \in Nat
    BY <1>1
  <2> QED BY <1>1, <2>1, MinusType, FieldType
<1>5. /\ R("PC") + 1 \in Nat /\ R("CNT") + 1 \in Nat
      /\ R("M11") + R("X1") * R("X1") \in Nat /\ R("M12") + R("X1") * R("X2") \in Nat
      /\ R("M22") + R("X2") * R("X2") \in Nat
  BY <1>1, ProductNatural
<1>6. \A j \in DOMAIN Challenges :
         Sketch(j) + packed * Power(j) \in Nat /\ Power(j) * Challenges[j] \in Nat
  <2> TAKE j \in DOMAIN Challenges
  <2>1. Sketch(j) \in Nat /\ Power(j) \in Nat /\ Challenges[j] \in Nat
    BY <1>3
  <2>2. packed * Power(j) \in Nat /\ Power(j) * Challenges[j] \in Nat
    BY <1>2, <2>1, ProductNatural
  <2> QED BY <2>1, <2>2
<1>7. ASSUME NEW n \in StepConstraints PROVE Value(n) \in Fields
  <2>1. CASE n \in {"pc", "gas", "cnt", "m11", "m12", "m22"} \X {0}
    <3>1. n[1] \in {"pc", "gas", "cnt", "m11", "m12", "m22"}
      BY <2>1
    <3>2. CASE n[1] = "pc"
      <4>1. Value(n) = Minus(N("PC"), R("PC") + 1)
        BY <3>2
      <4> QED BY <1>1, <1>5, <4>1, MinusType
    <3>3. CASE n[1] = "gas"
      <4>1. Value(n) = Minus(N("GAS"), Minus(R("GAS"), 1 + (R("OP") % 3)))
        BY <3>3
      <4> QED BY <1>1, <1>4, <4>1, MinusType
    <3>4. CASE n[1] = "cnt"
      <4>1. Value(n) = Minus(N("CNT"), R("CNT") + 1)
        BY <3>4
      <4> QED BY <1>1, <1>5, <4>1, MinusType
    <3>5. CASE n[1] = "m11"
      <4>1. Value(n) = Minus(N("M11"), R("M11") + R("X1") * R("X1"))
        BY <3>5
      <4> QED BY <1>1, <1>5, <4>1, MinusType
    <3>6. CASE n[1] = "m12"
      <4>1. Value(n) = Minus(N("M12"), R("M12") + R("X1") * R("X2"))
        BY <3>6
      <4> QED BY <1>1, <1>5, <4>1, MinusType
    <3>7. CASE n[1] = "m22"
      <4>1. Value(n) = Minus(N("M22"), R("M22") + R("X2") * R("X2"))
        BY <3>7
      <4> QED BY <1>1, <1>5, <4>1, MinusType
    <3> HIDE DEF Value
    <3> QED BY <3>1, <3>2, <3>3, <3>4, <3>5, <3>6, <3>7
  <2>2. CASE n \in {"s", "pow"} \X DOMAIN Challenges
    <3>1. n[1] \in {"s", "pow"} /\ n[2] \in DOMAIN Challenges
      BY <2>2
    <3>2. CASE n[1] = "s"
      <4>1. Value(n) = Minus(next[<<"sketches", n[2]>>], Sketch(n[2]) + packed * Power(n[2]))
        BY <3>2
      <4> QED BY <1>3, <1>6, <3>1, <4>1, MinusType
    <3>3. CASE n[1] = "pow"
      <4>1. Value(n) = Minus(next[<<"powers", n[2]>>], Power(n[2]) * Challenges[n[2]])
        BY <3>3
      <4> QED BY <1>3, <1>6, <3>1, <4>1, MinusType
    <3> HIDE DEF Value
    <3> QED BY <3>1, <3>2, <3>3
  <2> QED BY <2>1, <2>2 DEF StepConstraints
<1>8. eval_constraints_from_row(row, next) = [n \in StepConstraints |-> Value(n)]
  BY DEF eval_constraints_from_row, R, N, packed, Sketch, Power
<1> HIDE DEF Value
<1> QED BY <1>7, <1>8 DEF Residuals

LEMMA ZeroResidualType == zero_residual \in Residuals
BY ModulusType DEF zero_residual, Residuals

LEMMA CompositionValueType ==
  ASSUME NEW row \in FieldRows, NEW residual \in Residuals, NEW finals \in Results, NEW idx, NEW steps
  PROVE  composition_value_from_row(row, residual, idx, steps, finals) \in Fields
<1>1. WeightedSteps(residual) \in Int /\ WeightedResults(row, finals) \in Int
  BY WeightedStepsType, ResultsType
<1>2. \A x \in Int, y \in Int, b \in BOOLEAN : (x + (IF b THEN y ELSE 0)) % Modulus \in Fields
  BY InField
<1> QED BY <1>1, <1>2 DEF composition_value_from_row

\* The results of a trace, and its composition.
LEMMA TraceComposition ==
  ASSUME NEW trace, NEW steps \in Nat \ {0}, Len(trace) = steps, NEW d \in Nat, 
         \A t \in 1..steps : trace[t] \in FieldRows
  PROVE  /\ FinalsOf(trace) \in Results
         /\ build_composition_vector(trace, d, FinalsOf(trace)) \in Vectors(d)
<1> DEFINE finals == FinalsOf(trace)
           Composed(t, residual) ==
             composition_value_from_row(trace[t], residual, t - 1, Len(trace), finals)
           Value(t) ==
             IF t < Len(trace) THEN Composed(t, eval_constraints_from_row(trace[t], trace[t + 1]))
             ELSE IF t = Len(trace) THEN Composed(t, zero_residual)
             ELSE 0
<1>1. finals \in Results
  <2>1. Last(trace) \in FieldRows
    <3>1. Last(trace) = trace[steps] /\ steps \in 1..steps
      BY DEF Last
    <3> QED BY <3>1
  <2>2. \A n \in Finals : Last(trace)[<<n, 0>>] \in Fields
    <3>1. Finals \subseteq BaseNames
      BY DEF Finals, BaseNames
    <3> QED BY <2>1, <3>1, BaseColumn
  <2> QED BY <2>2 DEF FinalsOf, Results
<1> HIDE DEF finals
<1>2. ASSUME NEW t \in 1..d PROVE Value(t) \in Fields
  <2>1. CASE t < steps
    <3>1. trace[t] \in FieldRows /\ trace[t + 1] \in FieldRows
      <4> t \in 1..steps /\ t + 1 \in 1..steps
        BY <2>1
      <4> QED OBVIOUS
    <3>2. Value(t) = Composed(t, eval_constraints_from_row(trace[t], trace[t + 1]))
      BY <2>1
    <3>3. eval_constraints_from_row(trace[t], trace[t + 1]) \in Residuals
      BY <3>1, EvalType
    <3> QED BY <1>1, <3>1, <3>2, <3>3, CompositionValueType
  <2>2. CASE t = steps
    <3>1. trace[t] \in FieldRows
      <4> t \in 1..steps
        BY <2>2
      <4> QED OBVIOUS
    <3>2. Value(t) = Composed(t, zero_residual)
      BY <2>2
    <3> QED BY <1>1, <3>1, <3>2, ZeroResidualType, CompositionValueType
  <2>3. CASE t > steps
    <3>1. Value(t) = 0
      BY <2>3
    <3> QED BY <3>1, ModulusType
  <2> QED BY <2>1, <2>2, <2>3
<1>3. build_composition_vector(trace, d, finals) = [t \in 1..d |-> Value(t)]
  BY DEF build_composition_vector
<1> HIDE DEF Value
<1> QED BY <1>1, <1>2, <1>3 DEF Vectors, finals

\* What is committed of a job's composition.
LEMMA PreparedComposition ==
  ASSUME NEW j \in Jobs
  PROVE  /\ Prepared[j].composition \in Vectors(Prepared[j].fri_cfg.domain_size)
         /\ Prepared[j].finals \in Results
         /\ Prepared[j].fri_cfg.num_rounds \in 0..RoundLimit
<1> DEFINE d == next_power_of_two(j.steps)
           trace == simulate_trace(j.steps, j.start)
           composed == build_composition_vector(trace, d, FinalsOf(trace))
<1>1. /\ j.steps \in Nat \ {0}
      /\ \A n \in DOMAIN j.start : j.start[n] \in Fields
      /\ \A i \in 0..d - 1 : mask_at_index(i) \in Fields
      /\ RoundLimit \in Nat
  BY ProofAssumption DEF Fields
<1>2. d \in Nat \ {0} /\ Doublings(j.steps) \in Nat
  <2>1. Doublings(j.steps) \in 0..j.steps /\ d \in Nat \ {0}
    BY <1>1, DomainSizeType
  <2> QED BY <1>1, <2>1
<1>3. Len(trace) = j.steps /\ \A t \in 1..j.steps : trace[t] \in FieldRows
  BY <1>1, TraceType
<1>4. FinalsOf(trace) \in Results /\ composed \in Vectors(d)
  <2> HIDE DEF trace, d
  <2> QED BY <1>1, <1>2, <1>3, TraceComposition
<1>5. /\ Prepared[j].fri_cfg.domain_size = d /\ Prepared[j].finals = FinalsOf(trace)
      /\ Prepared[j].composition = [t \in DOMAIN composed |-> (composed[t] + mask_at_index(t - 1)) % Modulus]
      /\ Prepared[j].fri_cfg.num_rounds = Least(RoundLimit, IF d = 1 THEN 1 ELSE Doublings(j.steps))
  BY DEF Prepared, _prepare_trace_state, _build_fri_cfg
<1> HIDE DEF d, trace, composed
<1>6. ASSUME NEW t \in 1..d PROVE (composed[t] + mask_at_index(t - 1)) % Modulus \in Fields
  <2>1. t - 1 \in 0..d - 1
    BY <1>2
  <2>2. mask_at_index(t - 1) \in Int /\ composed[t] \in Int
    BY <1>1, <1>4, <2>1, FieldType DEF Vectors
  <2> QED BY <2>2, InField
<1>7. Least(RoundLimit, IF d = 1 THEN 1 ELSE Doublings(j.steps)) \in 0..RoundLimit
  BY <1>1, <1>2 DEF Least
<1> QED BY <1>4, <1>5, <1>6, <1>7 DEF Vectors

(* ---------------------- the inductive invariant ----------------------- *)

\* The chunks of the rows fed so far; all of them once the prover goes on.
CommitOK ==
    \E n \in 0..Cfg.domain_size : Accumulated(acc, n) /\ (phase = "commit" <=> n < Cfg.domain_size)

\* Files and what was read from them are rows, of this run or of another.
FilesOK ==
    /\ archive \in [Domain -> Rows \cup {Missing}]
    /\ cache \in [Domain -> Rows \cup {None}]

SamplingOK ==
    /\ drawn \subseteq Domain /\ Cardinality(drawn) <= Cfg.num_queries
    /\ phase = "commit" => drawn = {}
    /\ phase = "sample" => Cardinality(drawn) < Cfg.num_queries
    /\ phase \notin {"commit", "sample"} => drawn # {}

Held == {i \in Domain : cache[i] # None}

\* An opening shows what was read, with the honest path of its place.
OpeningAt(i) == [row_values |-> cache[i], proof |-> stc_open_chunk(acc, i, cache[i])]

Opened(i) ==
    /\ {i} \cup Successor(i) \subseteq Held
    /\ openings[i] = [row_values |-> cache[i], proof |-> stc_open_chunk(acc, i, cache[i]),
                      next |-> IF Successor(i) = {} THEN <<>> ELSE <<OpeningAt(i + 1)>>]

OpeningsOK ==
    /\ openings = [i \in DOMAIN openings |-> openings[i]]
    /\ DOMAIN openings \subseteq drawn
    /\ phase \in {"commit", "sample", "fold"} => DOMAIN openings = {}
    /\ phase = "open" => drawn \ DOMAIN openings # {}
    /\ \A i \in DOMAIN openings : Opened(i)

IInv ==
    /\ job \in Jobs /\ phase \in Phases /\ foreign \in 0..MaxForeign
    /\ CommitOK
    /\ FilesOK
    /\ SamplingOK
    /\ OpeningsOK
    /\ OpensCommitted
    /\ audit # None => phase = "audited"
    /\ AuditExact

\* The domain, its rows and the queries of a run.
LEMMA RunType ==
  ASSUME job \in Jobs
  PROVE  /\ Cfg.domain_size \in Nat \ {0} /\ Cfg.num_queries = job.queries
         /\ Cfg.num_queries \in Nat \ {0}
         /\ \A i \in Domain : Row(i) \in Rows
<1>1. /\ Cfg.domain_size \in Nat \ {0} /\ Cfg.num_queries = job.queries
      /\ job.queries \in Nat \ {0}
      /\ Prepared[job].rows \in [1..Cfg.domain_size -> Rows]
  BY PreparedType DEF Cfg
<1>2. ASSUME NEW i \in Domain PROVE Row(i) \in Rows
  <2>1. i + 1 \in 1..Cfg.domain_size
    BY <1>1 DEF Domain
  <2> QED BY <1>1, <2>1 DEF Row
<1> QED BY <1>1, <1>2

\* Files that are not there and values that were not read are no rows.
LEMMA NoRows == Missing \notin Rows /\ None \notin Rows
<1>1. Rows \subseteq Seq(Nat)
  <2> SUFFICES ASSUME NEW v \in Rows PROVE v \in Seq(Nat)
    OBVIOUS
  <2>1. v \in [1..row_width -> Nat]
    BY FieldType DEF Rows
  <2>2. row_width \in Nat
    BY ColumnNamesType
  <2> HIDE DEF Rows
  <2> QED BY <2>1, <2>2, FunctionIsSeq
<1> QED BY <1>1, ProofAssumption

\* The positions drawn are finitely many.
LEMMA DrawnFinite ==
  ASSUME job \in Jobs, NEW S, S \subseteq Domain
  PROVE  IsFiniteSet(S) /\ Cardinality(S) \in Nat /\ (S = {} <=> Cardinality(S) = 0)
<1>1. IsFiniteSet(Domain)
  BY RunType, FS_Interval DEF Domain
<1>2. IsFiniteSet(S)
  BY <1>1, FS_Subset
<1> QED BY <1>2, FS_CardinalityType, FS_EmptySet

LEMMA AccumulatedFrame ==
  ASSUME NEW a, NEW n, acc' = a, job' = job, Accumulated(a, n)
  PROVE  Accumulated(acc, n)'
BY DEF Accumulated, Holding, Row

LEMMA InitIInv == Init => IInv
<1> SUFFICES ASSUME Init PROVE IInv
  OBVIOUS
<1> USE DEF Init
<1>1. job \in Jobs /\ phase \in Phases /\ foreign \in 0..MaxForeign
  BY ProofAssumption DEF Phases
<1>2. CommitOK
  BY RunType, NewAccumulated DEF CommitOK
<1>3. FilesOK
  BY DEF FilesOK
<1>4. SamplingOK
  BY RunType, FS_EmptySet DEF SamplingOK
<1>5. OpeningsOK
  <2>1. DOMAIN openings = {} /\ openings = [i \in {} |-> openings[i]]
    OBVIOUS
  <2> QED BY <2>1 DEF OpeningsOK
<1>6. OpensCommitted /\ (audit # None => phase = "audited") /\ AuditExact
  BY DEF OpensCommitted, AuditExact
<1> QED BY <1>1, <1>2, <1>3, <1>4, <1>5, <1>6 DEF IInv

(* ------------------------ steps of the prover ------------------------- *)

\* While the accumulator is left alone, the rows it holds stay.
LEMMA CommitFrame ==
  ASSUME CommitOK, acc' = acc, job' = job, phase' = "commit" <=> phase = "commit"
  PROVE  CommitOK'
<1>1. PICK n \in 0..Cfg.domain_size :
        Accumulated(acc, n) /\ (phase = "commit" <=> n < Cfg.domain_size)
  BY DEF CommitOK
<1>2. Accumulated(acc, n)'
  BY <1>1, AccumulatedFrame
<1>3. Cfg' = Cfg
  BY DEF Cfg
<1> QED BY <1>1, <1>2, <1>3 DEF CommitOK

\* An opening stays as long as what was read for it is kept.
LEMMA OpenedFrame ==
  ASSUME job \in Jobs, acc' = acc, job' = job, NEW i \in DOMAIN openings, i \in Domain, Opened(i),
         openings'[i] = openings[i], \A k \in Held : cache'[k] = cache[k]
  PROVE  Opened(i)'
<1>1. Cfg' = Cfg /\ Domain' = Domain /\ Successor(i)' = Successor(i)
  BY DEF Cfg, Domain, Successor
<1>2. Held \subseteq Held'
  BY <1>1 DEF Held
<1>3. {i} \cup Successor(i) \subseteq Held
  BY DEF Opened
<1>4. cache'[i] = cache[i]
  BY <1>3
<1>5. Successor(i) # {} => cache'[i + 1] = cache[i + 1]
  BY <1>3 DEF Successor
<1>6. openings[i] = [row_values |-> cache[i], proof |-> stc_open_chunk(acc, i, cache[i]),
                     next |-> IF Successor(i) = {} THEN <<>> ELSE <<OpeningAt(i + 1)>>]
  BY DEF Opened
<1>7. openings'[i] = [row_values |-> cache'[i], proof |-> stc_open_chunk(acc', i, cache'[i]),
                      next |-> IF Successor(i)' = {} THEN <<>> ELSE <<OpeningAt(i + 1)'>>]
  <2>1. CASE Successor(i) = {}
    BY <1>1, <1>4, <1>6, <2>1
  <2>2. CASE Successor(i) # {}
    <3>1. OpeningAt(i + 1)' = OpeningAt(i + 1)
      BY <1>5, <2>2 DEF OpeningAt
    <3> QED BY <1>1, <1>4, <1>6, <2>2, <3>1
  <2> QED BY <2>1, <2>2
<1> QED BY <1>1, <1>2, <1>3, <1>7 DEF Opened

LEMMA OpeningsFrame ==
  ASSUME IInv, UNCHANGED <<job, acc, cache, drawn, openings>>,
         phase' \notin {"commit", "sample", "fold"}, phase' # "open" \/ phase = "open"
  PROVE  OpeningsOK'
<1>1. job \in Jobs /\ OpeningsOK /\ drawn \subseteq Domain
  BY DEF IInv, SamplingOK
<1>2. \A i \in DOMAIN openings : Opened(i)'
  BY <1>1, OpenedFrame DEF OpeningsOK
<1> QED BY <1>1, <1>2 DEF OpeningsOK

LEMMA CommitRowStep == IInv /\ CommitRow => IInv'
<1> SUFFICES ASSUME IInv, CommitRow PROVE IInv'
  OBVIOUS
<1>1. /\ phase = "commit" /\ job \in Jobs /\ foreign \in 0..MaxForeign /\ audit = None
      /\ FilesOK /\ SamplingOK /\ OpeningsOK /\ CommitOK
  BY DEF IInv, CommitRow
<1>2. /\ Cfg.domain_size \in Nat \ {0} /\ Cfg' = Cfg /\ Domain' = Domain
      /\ \A i \in Domain : Row(i) \in Rows
  BY RunType, <1>1 DEF CommitRow, Cfg, Domain
<1>3. PICK n \in 0..Cfg.domain_size : Accumulated(acc, n) /\ n < Cfg.domain_size
  BY <1>1 DEF CommitOK
<1>4. n \in Nat /\ Len(acc.chunks) = n /\ n \in Domain
  BY <1>2, <1>3, AccumulatedLen DEF Domain
<1>5. /\ acc' = add_chunk(acc, Row(n)) /\ archive' = [archive EXCEPT ![n] = Row(n)]
      /\ phase' = IF n + 1 = Cfg.domain_size THEN "sample" ELSE "commit"
      /\ UNCHANGED <<job, cache, drawn, fri, openings, received, audit, foreign>>
  BY <1>4 DEF CommitRow
<1>6. CommitOK'
  <2>1. Accumulated(add_chunk(acc, Row(n)), n + 1)
    BY <1>2, <1>3, <1>4, AddRow
  <2>2. Accumulated(acc, n + 1)'
    BY <1>5, <2>1, AccumulatedFrame
  <2>3. n + 1 \in 0..Cfg.domain_size /\ (phase' = "commit" <=> n + 1 < Cfg.domain_size)
    BY <1>2, <1>3, <1>5
  <2> QED BY <1>2, <2>2, <2>3 DEF CommitOK
<1>7. FilesOK'
  BY <1>1, <1>2, <1>4, <1>5 DEF FilesOK
<1>8. SamplingOK'
  <2>1. Cardinality({}) = 0 /\ drawn = {} /\ drawn' = {} /\ Cfg.num_queries \in Nat \ {0}
    BY <1>1, <1>5, RunType, FS_EmptySet DEF SamplingOK
  <2> QED BY <1>2, <1>5, <2>1 DEF SamplingOK
<1>9. OpeningsOK'
  BY <1>1, <1>5 DEF OpeningsOK
<1>10. phase' \in {"commit", "sample"} /\ audit' = None
  BY <1>1, <1>5
<1> QED BY <1>1, <1>5, <1>6, <1>7, <1>8, <1>9, <1>10 DEF IInv, OpensCommitted, AuditExact, Phases

LEMMA DrawQueryStep == IInv /\ DrawQuery => IInv'
<1> SUFFICES ASSUME IInv, DrawQuery PROVE IInv'
  OBVIOUS
<1>1. /\ phase = "sample" /\ job \in Jobs /\ foreign \in 0..MaxForeign /\ audit = None
      /\ FilesOK /\ SamplingOK /\ OpeningsOK /\ CommitOK
      /\ UNCHANGED <<job, acc, archive, cache, fri, openings, received, audit, foreign>>
  BY DEF IInv, DrawQuery
<1>2. Cfg' = Cfg /\ Domain' = Domain
  BY <1>1 DEF Cfg, Domain
<1>3. PICK i \in Domain :
        /\ drawn' = drawn \cup {i}
        /\ phase' = IF Cardinality(drawn') = Cfg.num_queries THEN "fold" ELSE "sample"
  BY DEF DrawQuery
<1>4. CommitOK'
  BY <1>1, <1>3, CommitFrame
<1>5. FilesOK'
  BY <1>1, <1>2 DEF FilesOK
<1>6. SamplingOK'
  <2>1. drawn \subseteq Domain /\ Cardinality(drawn) < Cfg.num_queries
    BY <1>1 DEF SamplingOK
  <2>2. IsFiniteSet(drawn) /\ Cardinality(drawn) \in Nat /\ Cfg.num_queries \in Nat
    BY <1>1, <2>1, DrawnFinite, RunType
  <2>3. Cardinality(drawn') \in Nat /\ Cardinality(drawn') <= Cardinality(drawn) + 1
    BY <1>3, <2>2, FS_AddElement
  <2>4. /\ drawn' \subseteq Domain' /\ Cardinality(drawn') <= Cfg'.num_queries
        /\ phase' = "sample" => Cardinality(drawn') < Cfg'.num_queries
    BY <1>2, <1>3, <2>1, <2>2, <2>3
  <2> QED BY <1>3, <2>4 DEF SamplingOK
<1>7. OpeningsOK'
  BY <1>1, <1>3 DEF OpeningsOK
<1> QED BY <1>1, <1>3, <1>4, <1>5, <1>6, <1>7 DEF IInv, OpensCommitted, AuditExact, Phases

LEMMA ProveCompositionStep == IInv /\ ProveComposition => IInv'
<1> SUFFICES ASSUME IInv, ProveComposition PROVE IInv'
  OBVIOUS
<1>1. /\ phase = "fold" /\ job \in Jobs /\ foreign \in 0..MaxForeign /\ audit = None
      /\ FilesOK /\ SamplingOK /\ OpeningsOK /\ CommitOK
      /\ UNCHANGED <<job, acc, archive, cache, drawn, openings, received, audit, foreign>>
  BY DEF IInv, ProveComposition
<1>2. Cfg' = Cfg /\ Domain' = Domain
  BY <1>1 DEF Cfg, Domain
<1>3. phase' \in {"open", "failed"}
  BY DEF ProveComposition
<1>4. CommitOK'
  BY <1>1, <1>3, CommitFrame
<1>5. FilesOK'
  BY <1>1, <1>2 DEF FilesOK
<1>6. SamplingOK'
  BY <1>1, <1>2, <1>3 DEF SamplingOK
<1>7. OpeningsOK'
  BY <1>1, <1>3 DEF OpeningsOK, SamplingOK
<1> QED BY <1>1, <1>3, <1>4, <1>5, <1>6, <1>7 DEF IInv, OpensCommitted, AuditExact, Phases

LEMMA OpenRowStep == IInv /\ OpenRow => IInv'
<1> SUFFICES ASSUME IInv, OpenRow PROVE IInv'
  OBVIOUS
<1> DEFINE Left == drawn \ DOMAIN openings
           Read(q) == {q} \cup Successor(q)
           Opening(i) == stc_open_chunk(acc, i, Loaded(i))
           least == CHOOSE i \in Left : \A k \in Left : i <= k
           Goes(q) ==
              \/ phase' = "failed" /\ UNCHANGED <<cache, openings>>
              \/ /\ \A i \in Read(q) : Loaded(i) # Missing
                 /\ cache' = [i \in Domain |-> IF i \in Read(q) THEN Loaded(i) ELSE cache[i]]
                 /\ openings' = [i \in DOMAIN openings \cup {q} |->
                       IF i # q THEN openings[i]
                       ELSE [row_values |-> Loaded(q), proof |-> Opening(q),
                             next |-> IF Successor(q) = {} THEN <<>>
                                      ELSE <<[row_values |-> Loaded(q + 1),
                                              proof |-> Opening(q + 1)]>>]]
                 /\ phase' = IF Left = {q} THEN "check" ELSE "open"
<1>1. /\ phase = "open" /\ job \in Jobs /\ foreign \in 0..MaxForeign /\ audit = None
      /\ FilesOK /\ SamplingOK /\ OpeningsOK /\ CommitOK
      /\ UNCHANGED <<job, acc, archive, drawn, fri, received, audit, foreign>>
  BY DEF IInv, OpenRow
<1>2. Cfg' = Cfg /\ Domain' = Domain
  BY <1>1 DEF Cfg, Domain
<1>3. least \in Left
  <2>1. Left # {} /\ Left \subseteq Nat
    BY <1>1, RunType DEF OpeningsOK, SamplingOK, Domain
  <2> HIDE DEF Left
  <2>2. \E i \in Left : \A k \in Left : i <= k
    BY <2>1, LeastNatural
  <2> QED BY <2>2
<1>4. PICK q \in Left : Goes(q)
  <2>1. Goes(least)
    BY Zenon DEF OpenRow
  <2> HIDE DEF Goes, least, Left
  <2> QED BY <1>3, <2>1
<1>5. phase' \in {"failed", "check", "open"}
  BY <1>4
<1>6. CommitOK'
  BY <1>1, <1>5, CommitFrame
<1>7. SamplingOK'
  BY <1>1, <1>2, <1>5 DEF SamplingOK
<1>8. FilesOK' /\ OpeningsOK'
  <2>1. CASE phase' = "failed" /\ UNCHANGED <<cache, openings>>
    <3>1. FilesOK'
      BY <1>1, <1>2, <2>1 DEF FilesOK
    <3>2. OpeningsOK'
      BY <1>1, <2>1, OpeningsFrame
    <3> QED BY <3>1, <3>2
  <2>2. CASE phase' # "failed" \/ ~ UNCHANGED <<cache, openings>>
    <3>1. /\ \A i \in Read(q) : Loaded(i) # Missing
          /\ cache' = [i \in Domain |-> IF i \in Read(q) THEN Loaded(i) ELSE cache[i]]
          /\ phase' = IF Left = {q} THEN "check" ELSE "open"
          /\ DOMAIN openings' = DOMAIN openings \cup {q}
          /\ openings' = [i \in DOMAIN openings' |-> openings'[i]]
          /\ \A i \in DOMAIN openings : i # q => openings'[i] = openings[i]
          /\ openings'[q] = [row_values |-> Loaded(q), proof |-> Opening(q),
                  next |-> IF Successor(q) = {} THEN <<>>
                           ELSE <<[row_values |-> Loaded(q + 1), proof |-> Opening(q + 1)]>>]
      BY <1>4, <2>2
    <3>2. drawn \subseteq Domain /\ q \in Domain /\ Read(q) \subseteq Domain
      BY <1>1, <1>3 DEF SamplingOK, Successor
    <3>3. \A i \in Read(q) : Loaded(i) \in Rows
      BY <1>1, <3>1, <3>2 DEF Loaded, FilesOK
    <3>4. FilesOK'
      BY <1>1, <1>2, <3>1, <3>3 DEF FilesOK
    <3>5. \A k \in Held : cache'[k] = cache[k]
      BY <3>1 DEF Held, Loaded
    <3>6. ASSUME NEW i \in DOMAIN openings PROVE Opened(i)'
      BY <1>1, <1>3, <3>1, <3>2, <3>5, OpenedFrame DEF OpeningsOK
    <3>7. Opened(q)'
      <4>1. \A i \in Read(q) : cache'[i] = Loaded(i)
        BY <3>1, <3>2
      <4>2. Read(q) \subseteq Held'
        BY <1>2, <3>2, <3>3, <4>1, NoRows DEF Held
      <4>3. Successor(q)' = Successor(q)
        BY <1>2 DEF Successor
      <4>4. Successor(q) # {} => q + 1 \in Read(q)
        BY DEF Successor
      <4>5. /\ Opening(q) = stc_open_chunk(acc', q, cache'[q])
            /\ Successor(q) # {} => /\ Loaded(q + 1) = cache'[q + 1]
                                    /\ Opening(q + 1) = stc_open_chunk(acc', q + 1, cache'[q + 1])
        BY <1>1, <4>1, <4>4
      <4>6. Successor(q) # {} => OpeningAt(q + 1)' = [row_values |-> Loaded(q + 1),
                                                     proof |-> Opening(q + 1)]
        BY <4>5 DEF OpeningAt
      <4> HIDE DEF Opening
      <4>7. openings'[q] = [row_values |-> cache'[q], proof |-> stc_open_chunk(acc', q, cache'[q]),
                            next |-> IF Successor(q)' = {} THEN <<>> ELSE <<OpeningAt(q + 1)'>>]
        BY <3>1, <4>1, <4>3, <4>5, <4>6
      <4> QED BY <4>2, <4>3, <4>7 DEF Opened
    <3>8. /\ DOMAIN openings' \subseteq drawn'
          /\ phase' = "open" => drawn' \ DOMAIN openings' # {}
      BY <1>1, <1>3, <3>1 DEF OpeningsOK
    <3>9. ASSUME NEW i \in DOMAIN openings' PROVE Opened(i)'
      <4>1. CASE i = q
        BY <3>7, <4>1
      <4>2. CASE i # q
        BY <3>1, <3>6, <4>2
      <4> QED BY <4>1, <4>2
    <3>10. OpeningsOK'
      BY <1>5, <3>1, <3>8, <3>9 DEF OpeningsOK
    <3> QED BY <3>4, <3>10
  <2> QED BY <2>1, <2>2
<1> QED BY <1>1, <1>5, <1>6, <1>7, <1>8 DEF IInv, OpensCommitted, AuditExact, Phases

(* ------------------- what an accepted proof shows --------------------- *)

\* The openings of the prover, checked against its commitment, show the rows
\* that were committed.
LEMMA OpenedCommitted ==
  ASSUME IInv, phase # "commit", NEW i \in DOMAIN openings,
         stc_verify_chunk(stc_build_pc_commitment(acc), openings[i].proof),
         openings[i].next # <<>> =>
            stc_verify_chunk(stc_build_pc_commitment(acc), openings[i].next[1].proof)
  PROVE  /\ openings[i].row_values = Row(i)
         /\ openings[i].next # <<>> => openings[i].next[1].row_values = Row(i + 1)
<1> DEFINE n == Cfg.domain_size
           C == stc_build_pc_commitment(acc)
<1>1. job \in Jobs /\ CommitOK /\ FilesOK /\ SamplingOK /\ OpeningsOK
  BY DEF IInv
<1>2. n \in Nat \ {0} /\ Domain = 0..n - 1 /\ \A k \in Domain : Row(k) \in Rows
  BY <1>1, RunType DEF Domain
<1>3. Accumulated(acc, n)
  BY <1>1, <1>2 DEF CommitOK
<1>4. i \in Domain /\ Opened(i)
  BY <1>1 DEF OpeningsOK, SamplingOK
<1> HIDE DEF n, C
<1>5. \A k \in Held : cache[k] \in Rows
  BY <1>1 DEF Held, FilesOK
<1>6. ASSUME NEW k \in Held, stc_verify_chunk(C, stc_open_chunk(acc, k, cache[k]))
      PROVE  cache[k] = Row(k)
  <2>1. k \in 0..n - 1 /\ cache[k] \in Rows /\ Row(k) \in Rows
    BY <1>2, <1>5 DEF Held
  <2> QED BY <1>2, <1>3, <1>6, <2>1, ChunkOpensCommitted DEF C
<1>7. /\ i \in Held
      /\ openings[i].row_values = cache[i]
      /\ openings[i].proof = stc_open_chunk(acc, i, cache[i])
  BY <1>4 DEF Opened
<1>8. openings[i].next # <<>> =>
         /\ i + 1 \in Held
         /\ openings[i].next[1].row_values = cache[i + 1]
         /\ openings[i].next[1].proof = stc_open_chunk(acc, i + 1, cache[i + 1])
  <2>1. openings[i].next = IF Successor(i) = {} THEN <<>> ELSE <<OpeningAt(i + 1)>>
    BY <1>4 DEF Opened
  <2>2. Successor(i) # {} => i + 1 \in Held
    BY <1>4 DEF Opened, Successor
  <2> QED BY <2>1, <2>2 DEF OpeningAt
<1> QED BY <1>6, <1>7, <1>8 DEF C

LEMMA ReadsFrame ==
  ASSUME job' = job, openings' = openings, ReadsCommitted
  PROVE  ReadsCommitted'
BY DEF ReadsCommitted, Row

LEMMA ProofFrame ==
  ASSUME UNCHANGED <<job, acc, drawn, openings, fri>>
  PROVE  Proof' = Proof /\ Statement' = Statement
BY DEF Proof, Statement, Cfg

\* The conditions a row opening meets.
LEMMA RowOpensChunks ==
  ASSUME NEW p, NEW i, NEW opening, RowOpens(p, i, opening)
  PROVE  /\ verify_leaf(p.row_commitment, i, opening.row_values, opening.proof)
         /\ stc_verify_chunk(p.row_commitment, opening.proof)
         /\ opening.next # <<>> =>
               /\ verify_leaf(p.row_commitment, i + 1, opening.next[1].row_values,
                              opening.next[1].proof)
               /\ stc_verify_chunk(p.row_commitment, opening.next[1].proof)
BY DEF RowOpens, verify_leaf

LEMMA CheckOwnProofStep == IInv /\ CheckOwnProof => IInv'
<1> SUFFICES ASSUME IInv, CheckOwnProof PROVE IInv'
  OBVIOUS
<1>1. /\ phase = "check" /\ job \in Jobs /\ foreign \in 0..MaxForeign /\ audit = None
      /\ FilesOK /\ SamplingOK /\ OpeningsOK /\ CommitOK
      /\ UNCHANGED <<job, acc, archive, cache, drawn, fri, openings, received, audit, foreign>>
      /\ phase' = IF verify_proof_only(Proof, job.binding) THEN "published" ELSE "failed"
  BY DEF IInv, CheckOwnProof
<1>2. Cfg' = Cfg /\ Domain' = Domain
  BY <1>1 DEF Cfg, Domain
<1>3. phase' \in {"published", "failed"}
  BY <1>1
<1>4. CommitOK'
  BY <1>1, <1>3, CommitFrame
<1>5. FilesOK'
  BY <1>1, <1>2 DEF FilesOK
<1>6. SamplingOK'
  BY <1>1, <1>2, <1>3 DEF SamplingOK
<1>7. OpeningsOK'
  BY <1>1, <1>3, OpeningsFrame
<1>8. ASSUME phase' = "published" PROVE ReadsCommitted
  <2>1. verify_proof_only(Proof, job.binding)
    BY <1>1, <1>8
  <2>2. /\ Proof.row_openings = openings /\ Proof.query_indices = drawn
        /\ Proof.row_commitment = stc_build_pc_commitment(acc)
    BY DEF Proof
  <2>3. \A i \in DOMAIN openings : RowOpens(Proof, i, openings[i])
    BY <2>1, <2>2 DEF verify_proof_only
  <2> SUFFICES ASSUME NEW i \in DOMAIN openings
               PROVE  /\ openings[i].row_values = Row(i)
                      /\ openings[i].next # <<>> => openings[i].next[1].row_values = Row(i + 1)
    BY DEF ReadsCommitted
  <2>4. RowOpens(Proof, i, openings[i])
    BY <2>3
  <2> QED BY <1>1, <2>2, <2>4, RowOpensChunks, OpenedCommitted
<1>9. OpensCommitted'
  BY <1>1, <1>3, <1>8, ReadsFrame DEF OpensCommitted
<1> QED BY <1>1, <1>3, <1>4, <1>5, <1>6, <1>7, <1>9 DEF IInv, AuditExact, Phases

(* ------------------------- what is delivered -------------------------- *)

\* Another value of a row is noticed: it is not the value it replaces.
LEMMA BentRow ==
  ASSUME NEW v \in Rows
  PROVE  /\ [v EXCEPT ![1] = Other(@)] \in Rows
         /\ [v EXCEPT ![1] = Other(@)][1] # v[1]
         /\ 1 \in DOMAIN v /\ [v EXCEPT ![1] = Other(@)] # v
         /\ DOMAIN [v EXCEPT ![1] = Other(@)] = DOMAIN v
<1>1. row_width \in Nat \ {0}
  BY ColumnNamesType
<1>2. 1 \in 1..row_width
  BY <1>1
<1>3. v \in [1..row_width -> Fields] /\ DOMAIN v = 1..row_width
  BY DEF Rows
<1>4. v[1] \in Fields
  BY <1>2, <1>3
<1>5. Other(v[1]) \in Fields /\ Other(v[1]) # v[1]
  BY <1>4, ModulusType DEF Other, Fields
<1> DEFINE w == [v EXCEPT ![1] = Other(@)]
<1>6. w \in [1..row_width -> Fields] /\ w[1] = Other(v[1]) /\ DOMAIN w = DOMAIN v
  BY <1>2, <1>3, <1>5
<1> QED BY <1>2, <1>3, <1>5, <1>6 DEF Rows

\* The openings of the prover, as far as the verifier's checks reach.
LEMMA OpeningShape ==
  ASSUME IInv, ReadsCommitted, NEW i \in DOMAIN openings
  PROVE  /\ i \in Domain /\ Row(i) \in Rows
         /\ openings[i] = [row_values |-> Row(i), proof |-> stc_open_chunk(acc, i, Row(i)),
                           next |-> openings[i].next]
         /\ openings[i].next # <<>> =>
               /\ i + 1 \in Domain /\ Row(i + 1) \in Rows
               /\ openings[i].next = <<[row_values |-> Row(i + 1),
                                        proof |-> stc_open_chunk(acc, i + 1, Row(i + 1))]>>
<1>1. job \in Jobs /\ SamplingOK /\ OpeningsOK
  BY DEF IInv
<1>2. i \in Domain /\ Opened(i)
  BY <1>1 DEF OpeningsOK, SamplingOK
<1>3. \A k \in Domain : Row(k) \in Rows
  BY <1>1, RunType
<1>4. /\ openings[i].row_values = Row(i)
      /\ openings[i].next # <<>> => openings[i].next[1].row_values = Row(i + 1)
  BY DEF ReadsCommitted
<1>5. openings[i] = [row_values |-> cache[i], proof |-> stc_open_chunk(acc, i, cache[i]),
                     next |-> IF Successor(i) = {} THEN <<>> ELSE <<OpeningAt(i + 1)>>]
  BY <1>2 DEF Opened
<1>6. cache[i] = Row(i)
  BY <1>4, <1>5
<1>7. openings[i] = [row_values |-> Row(i), proof |-> stc_open_chunk(acc, i, Row(i)),
                     next |-> openings[i].next]
  <2>1. openings[i].next = IF Successor(i) = {} THEN <<>> ELSE <<OpeningAt(i + 1)>>
    BY <1>5
  <2> QED BY <1>5, <1>6, <2>1
<1>8. ASSUME openings[i].next # <<>>
      PROVE  /\ i + 1 \in Domain
             /\ openings[i].next = <<[row_values |-> Row(i + 1),
                                      proof |-> stc_open_chunk(acc, i + 1, Row(i + 1))]>>
  <2>1. openings[i].next = IF Successor(i) = {} THEN <<>> ELSE <<OpeningAt(i + 1)>>
    BY <1>5
  <2>2. Successor(i) # {} /\ openings[i].next = <<OpeningAt(i + 1)>>
    BY <1>8, <2>1
  <2>3. OpeningAt(i + 1) = [row_values |-> cache[i + 1],
                            proof |-> stc_open_chunk(acc, i + 1, cache[i + 1])]
    BY DEF OpeningAt
  <2>4. openings[i].next[1] = OpeningAt(i + 1)
    BY <2>2
  <2>5. cache[i + 1] = Row(i + 1)
    BY <1>4, <1>8, <2>3, <2>4
  <2> QED BY <2>2, <2>3, <2>5 DEF Successor
<1> QED BY <1>2, <1>3, <1>7, <1>8

\* The ways in which an opening can be damaged.
Bent(values) == [values EXCEPT ![1] = Other(@)]
WithRow(o) == [o EXCEPT !.row_values = Bent(@)]
WithOpenedRow(o) == [o EXCEPT !.row_values = Bent(@), !.proof.values = Bent(@)]
WithNextRow(o) == [o EXCEPT !.next[1] = WithOpenedRow(@)]

SameBut(d, p) ==
    /\ d.alpha_digest = p.alpha_digest /\ d.mask_digest = p.mask_digest
    /\ d.row_commitment = p.row_commitment /\ d.query_indices = p.query_indices

\* A damaged proof has one opening changed, or all of them as they were.
Reopened(d, p, q, o) ==
    d.statement = p.statement /\ d.row_openings = [p.row_openings EXCEPT ![q] = o]

LEMMA DeliveredParts ==
  ASSUME NEW p, NEW damage, p.query_indices # {},
         damage[1] \in {"none", "row", "opened row", "next row", "result", "layer"},
         p = [statement |-> p.statement, alpha_digest |-> p.alpha_digest,
              mask_digest |-> p.mask_digest, row_commitment |-> p.row_commitment,
              fri_params |-> p.fri_params, base_commitment |-> p.base_commitment,
              query_indices |-> p.query_indices, row_openings |-> p.row_openings,
              fri_proof |-> p.fri_proof]
  PROVE  /\ SameBut(Delivered(p, damage), p)
         /\ \/ Delivered(p, damage).row_openings = p.row_openings
            \/ \E q \in p.query_indices :
                  \/ Reopened(Delivered(p, damage), p, q, WithRow(p.row_openings[q]))
                  \/ Reopened(Delivered(p, damage), p, q, WithOpenedRow(p.row_openings[q]))
                  \/ /\ damage[1] = "next row"
                     /\ Reopened(Delivered(p, damage), p, q, WithNextRow(p.row_openings[q]))
<1> DEFINE d == Delivered(p, damage)
           q == CHOOSE i \in p.query_indices : TRUE
<1>1. q \in p.query_indices
  OBVIOUS
<1>2. ASSUME NEW o, d = [p EXCEPT !.row_openings[q] = o]
      PROVE  SameBut(d, p) /\ Reopened(d, p, q, o)
  <2> HIDE DEF q
  <2> QED BY <1>2 DEF SameBut, Reopened
<1>3. CASE damage[1] = "none"
  BY <1>3 DEF Delivered, SameBut
<1>4. CASE damage[1] = "row"
  <2>1. d = [p EXCEPT !.row_openings[q] = WithRow(p.row_openings[q])]
    BY <1>4 DEF Delivered, WithRow, Bent
  <2> HIDE DEF q
  <2> QED BY <1>1, <1>2, <2>1
<1>5. CASE damage[1] = "opened row"
  <2>1. d = [p EXCEPT !.row_openings[q] = WithOpenedRow(p.row_openings[q])]
    BY <1>5 DEF Delivered, WithOpenedRow, Bent
  <2> HIDE DEF q
  <2> QED BY <1>1, <1>2, <2>1
<1>6. CASE damage[1] = "next row"
  <2>1. d = [p EXCEPT !.row_openings[q] = WithNextRow(p.row_openings[q])]
    BY <1>6 DEF Delivered, WithNextRow, WithOpenedRow, Bent
  <2> HIDE DEF q
  <2> QED BY <1>1, <1>2, <1>6, <2>1
<1>7. ASSUME NEW x, d = [p EXCEPT !.statement = x] \/ d = [p EXCEPT !.fri_proof = x]
      PROVE  SameBut(d, p) /\ d.row_openings = p.row_openings
  BY <1>7 DEF SameBut
<1>8. CASE damage[1] = "result"
  <2>1. d = [p EXCEPT !.statement.finals["CNT"] = Other(@)]
    BY <1>8 DEF Delivered
  <2>2. \E x : d = [p EXCEPT !.statement = x]
    BY <2>1
  <2> QED BY <1>7, <2>2
<1>9. CASE damage[1] = "layer"
  <2> DEFINE layer == damage[2]
             i == CHOOSE i \in DOMAIN p.fri_proof.batches[layer].entries : TRUE
  <2>1. d = [p EXCEPT !.fri_proof.batches[layer].entries[i].value = Other(@)]
    BY <1>9 DEF Delivered
  <2> HIDE DEF i, layer
  <2>2. \E x : d = [p EXCEPT !.fri_proof = x]
    BY <2>1
  <2> QED BY <1>7, <2>2
<1> QED BY <1>3, <1>4, <1>5, <1>6, <1>8, <1>9

\* No damage to an opening passes the verifier's checks: a row changed
\* alone differs from the values opened with it, and changed with them it
\* is not the row committed.
LEMMA DamageRefused ==
  ASSUME IInv, ReadsCommitted, phase # "commit", NEW d, NEW q \in DOMAIN openings,
         d.row_commitment = stc_build_pc_commitment(acc), RowOpens(d, q, d.row_openings[q])
  PROVE  /\ d.row_openings[q] # WithRow(openings[q])
         /\ d.row_openings[q] # WithOpenedRow(openings[q])
         /\ openings[q].next # <<>> => d.row_openings[q] # WithNextRow(openings[q])
<1> DEFINE n == Cfg.domain_size
           C == stc_build_pc_commitment(acc)
           o == openings[q]
           e == d.row_openings[q]
           read == stc_open_chunk(acc, q, Row(q))
           after == stc_open_chunk(acc, q + 1, Row(q + 1))
<1>1. job \in Jobs /\ CommitOK /\ OpeningsOK
  BY DEF IInv
<1>2. n \in Nat \ {0} /\ Domain = 0..n - 1
  BY <1>1, RunType DEF Domain
<1>3. Accumulated(acc, n)
  BY <1>1, <1>2 DEF CommitOK
<1>4. /\ q \in Domain /\ Row(q) \in Rows
      /\ o = [row_values |-> Row(q), proof |-> read, next |-> o.next]
      /\ o.next # <<>> => /\ q + 1 \in Domain /\ Row(q + 1) \in Rows
                          /\ o.next = <<[row_values |-> Row(q + 1), proof |-> after]>>
  BY OpeningShape
<1>5. \A i : stc_open_chunk(acc, i, Row(i)) =
               [chunk_index |-> i, chunk_offset |-> i * row_width, values |-> Row(i),
                chunk_root |-> merkle_from_values(Row(i), i * row_width),
                chunk_root_path |-> prove_kary(ChunkLevels(acc), i, CHUNK_TREE_ARITY)]
  BY <1>3 DEF stc_open_chunk, Accumulated
<1>6. /\ verify_leaf(C, q, e.row_values, e.proof) /\ stc_verify_chunk(C, e.proof)
      /\ e.next # <<>> => stc_verify_chunk(C, e.next[1].proof)
  BY RowOpensChunks
<1>7. /\ Bent(Row(q)) \in Rows /\ Bent(Row(q))[1] # Row(q)[1] /\ Bent(Row(q)) # Row(q)
      /\ 1 \in DOMAIN Bent(Row(q))
  BY <1>4, BentRow DEF Bent
\* The values of a chunk that opens are the committed ones.
<1>8. ASSUME NEW i \in Domain, Row(i) \in Rows, NEW proof, stc_verify_chunk(C, proof)
      PROVE  proof # [stc_open_chunk(acc, i, Row(i)) EXCEPT !.values = Bent(@)]
  <2> SUFFICES ASSUME proof = [stc_open_chunk(acc, i, Row(i)) EXCEPT !.values = Bent(@)]
               PROVE  FALSE
    OBVIOUS
  <2>1. /\ proof.values = Bent(Row(i)) /\ proof.chunk_index = i
        /\ proof.chunk_offset = i * row_width
        /\ proof.chunk_root_path = prove_kary(ChunkLevels(acc), i, CHUNK_TREE_ARITY)
    BY <1>5
  <2>2. Bent(Row(i)) \in Rows /\ Bent(Row(i)) # Row(i)
    BY <1>8, BentRow DEF Bent
  <2>3. i \in 0..n - 1
    BY <1>2
  <2> HIDE DEF n, C
  <2> QED BY <1>2, <1>3, <1>8, <2>1, <2>2, <2>3, OpenedChunkBinds DEF C
<1> HIDE DEF o, read, after, C
<1>9. e # WithRow(o)
  <2> SUFFICES ASSUME e = WithRow(o) PROVE FALSE
    OBVIOUS
  <2>1. e.row_values = Bent(Row(q)) /\ e.proof = read
    BY <1>4 DEF WithRow
  <2>2. e.proof.values[1] = e.row_values[1]
    BY <1>6, <1>7, <2>1 DEF verify_leaf
  <2>3. read.values = Row(q)
    BY <1>5 DEF read
  <2> QED BY <1>7, <2>1, <2>2, <2>3
<1>10. e # WithOpenedRow(o)
  <2> SUFFICES ASSUME e = WithOpenedRow(o) PROVE FALSE
    OBVIOUS
  <2>1. e.proof = [read EXCEPT !.values = Bent(@)]
    BY <1>4 DEF WithOpenedRow
  <2> QED BY <1>4, <1>6, <1>8, <2>1 DEF read
<1>11. ASSUME o.next # <<>> PROVE e # WithNextRow(o)
  <2> SUFFICES ASSUME e = WithNextRow(o) PROVE FALSE
    OBVIOUS
  <2> DEFINE follows == [row_values |-> Row(q + 1), proof |-> after]
  <2>1. o.next = <<follows>> /\ q + 1 \in Domain /\ Row(q + 1) \in Rows
    BY <1>4, <1>11
  <2>2. e.next = [o.next EXCEPT ![1] = WithOpenedRow(@)]
    BY <1>4 DEF WithNextRow
  <2>3. /\ e.next # <<>>
        /\ e.next[1] = WithOpenedRow(follows)
    <3> HIDE DEF follows
    <3> QED BY <2>1, <2>2
  <2>4. e.next[1].proof = [after EXCEPT !.values = Bent(@)]
    BY <2>3 DEF WithOpenedRow
  <2> QED BY <1>6, <1>8, <2>1, <2>3, <2>4 DEF after
<1> QED BY <1>9, <1>10, <1>11 DEF o

\* A proof that is accepted has the openings that were written, and was
\* checked with the binding it was made with.
AcceptedAs(p, given) ==
    /\ p.row_openings = openings
    /\ BindingOf(given, p.statement) = BindingOf(job.binding, Statement)
    /\ given = None => p.statement = Statement

LEMMA AcceptedOpens ==
  ASSUME IInv, phase = "published", NEW damage \in Deliveries, NEW given \in Bindings,
         verify_proof_only(Delivered(Proof, damage), given)
  PROVE  AcceptedAs(Delivered(Proof, damage), given)
<1> DEFINE d == Delivered(Proof, damage)
           C == stc_build_pc_commitment(acc)
<1>1. ReadsCommitted /\ drawn # {} /\ job \in Jobs
  BY DEF IInv, OpensCommitted, SamplingOK
<1>2. /\ Proof.row_openings = openings /\ Proof.query_indices = drawn
      /\ Proof.row_commitment = C /\ Proof.statement = Statement
      /\ Proof.mask_digest = mask_digest_of(alpha_digest(job.steps), C.root,
                                            BindingOf(job.binding, Statement))
      /\ Proof = [statement |-> Proof.statement, alpha_digest |-> Proof.alpha_digest,
                  mask_digest |-> Proof.mask_digest, row_commitment |-> Proof.row_commitment,
                  fri_params |-> Proof.fri_params, base_commitment |-> Proof.base_commitment,
                  query_indices |-> Proof.query_indices, row_openings |-> Proof.row_openings,
                  fri_proof |-> Proof.fri_proof]
  BY DEF Proof
<1>3. /\ damage[1] \in {"none", "row", "opened row", "next row", "result", "layer"}
      /\ damage[1] = "next row" => \A i \in drawn : openings[i].next # <<>>
  <2> DEFINE Follows == \A i \in drawn : openings[i].next # <<>>
             Layers == 1..Cfg.num_rounds + 1
  <2>1. \/ damage \in {"none", "row", "opened row", "result"} \X {0}
        \/ Follows /\ damage = <<"next row", 0>>
        \/ damage \in {"layer"} \X Layers
    BY DEF Deliveries
  <2> HIDE DEF Follows, Layers
  <2>2. CASE damage \in {"none", "row", "opened row", "result"} \X {0}
    BY <2>2
  <2>3. CASE Follows /\ damage = <<"next row", 0>>
    BY <2>3 DEF Follows
  <2>4. CASE damage \in {"layer"} \X Layers
    BY <2>4
  <2> QED BY <2>1, <2>2, <2>3, <2>4
<1>4. /\ SameBut(d, Proof)
      /\ \/ d.row_openings = openings
         \/ \E q \in drawn :
               \/ Reopened(d, Proof, q, WithRow(openings[q]))
               \/ Reopened(d, Proof, q, WithOpenedRow(openings[q]))
               \/ damage[1] = "next row" /\ Reopened(d, Proof, q, WithNextRow(openings[q]))
  BY <1>1, <1>2, <1>3, DeliveredParts
<1>5. /\ DOMAIN d.row_openings = d.query_indices
      /\ d.mask_digest = mask_digest_of(d.alpha_digest, d.row_commitment.root,
                                        BindingOf(given, d.statement))
      /\ \A i \in d.query_indices : RowOpens(d, i, d.row_openings[i])
  BY DEF verify_proof_only
<1>6. d.row_openings = openings
  <2> SUFFICES ASSUME d.row_openings # openings PROVE FALSE
    OBVIOUS
  <2>1. PICK q \in drawn :
          \/ Reopened(d, Proof, q, WithRow(openings[q]))
          \/ Reopened(d, Proof, q, WithOpenedRow(openings[q]))
          \/ damage[1] = "next row" /\ Reopened(d, Proof, q, WithNextRow(openings[q]))
    BY <1>4
  <2>2. \E o : d.row_openings = [openings EXCEPT ![q] = o]
    BY <1>2, <2>1 DEF Reopened
  <2>3. d.query_indices = drawn /\ d.row_commitment = C
    BY <1>2, <1>4 DEF SameBut
  <2>4. DOMAIN openings = drawn
    BY <1>5, <2>2, <2>3
  <2>5. RowOpens(d, q, d.row_openings[q])
    BY <1>5, <2>3
  <2>6. \/ d.row_openings[q] = WithRow(openings[q])
        \/ d.row_openings[q] = WithOpenedRow(openings[q])
        \/ openings[q].next # <<>> /\ d.row_openings[q] = WithNextRow(openings[q])
    BY <1>2, <1>3, <2>1, <2>4 DEF Reopened
  <2> HIDE DEF d, C
  <2> QED BY <1>1, <2>3, <2>4, <2>5, <2>6, DamageRefused DEF C
<1>7. BindingOf(given, d.statement) = BindingOf(job.binding, Statement)
  <2> DEFINE one == BindingOf(given, d.statement)
             two == BindingOf(job.binding, Statement)
  <2>1. [mask |-> <<d.alpha_digest, d.row_commitment.root, one>>]
          = [mask |-> <<alpha_digest(job.steps), C.root, two>>]
    BY <1>2, <1>4, <1>5 DEF SameBut, mask_digest_of
  <2> HIDE DEF one, two, C, d
  <2>2. <<d.alpha_digest, d.row_commitment.root, one>> = <<alpha_digest(job.steps), C.root, two>>
    BY <2>1
  <2>3. one = two
    BY <2>2
  <2> QED BY <2>3 DEF one, two, d
<1>8. ASSUME given = None PROVE d.statement = Statement
  <2>1. [statement |-> d.statement] = BindingOf(job.binding, Statement)
    BY <1>7, <1>8 DEF BindingOf, serialize_statement
  <2>2. job.binding \in Bindings
    BY <1>1, ProofAssumption
  <2>3. CASE job.binding = None
    <3>1. [statement |-> d.statement] = [statement |-> Statement]
      BY <2>1, <2>3 DEF BindingOf, serialize_statement
    <3> HIDE DEF d
    <3> QED BY <3>1
  <2>4. CASE job.binding # None
    <3>1. \E v : [statement |-> d.statement] = [instance |-> v]
      BY <2>1, <2>2, <2>4 DEF BindingOf, Bindings
    <3> HIDE DEF d
    <3> QED BY <3>1
  <2> QED BY <2>3, <2>4
<1> QED BY <1>6, <1>7, <1>8 DEF AcceptedAs

LEMMA VerifyStep == IInv /\ Verify => IInv'
<1> SUFFICES ASSUME IInv, Verify PROVE IInv'
  OBVIOUS
<1>1. /\ phase = "published" /\ job \in Jobs /\ foreign \in 0..MaxForeign /\ audit = None
      /\ FilesOK /\ SamplingOK /\ OpeningsOK /\ CommitOK /\ ReadsCommitted
      /\ UNCHANGED <<job, acc, archive, cache, drawn, fri, openings, audit, foreign>>
  BY DEF IInv, Verify, OpensCommitted
<1>2. Cfg' = Cfg /\ Domain' = Domain
  BY <1>1 DEF Cfg, Domain
<1>3. PICK damage \in Deliveries, given \in Bindings :
        /\ received' = [damage |-> damage, given |-> given]
        /\ phase' = IF verify_proof_only(Delivered(Proof, damage), given)
                      THEN "accepted" ELSE "refused"
  BY DEF Verify
<1>4. phase' \in {"accepted", "refused"}
  BY <1>3
<1>5. CommitOK'
  BY <1>1, <1>4, CommitFrame
<1>6. FilesOK'
  BY <1>1, <1>2 DEF FilesOK
<1>7. SamplingOK'
  BY <1>1, <1>2, <1>4 DEF SamplingOK
<1>8. OpeningsOK'
  BY <1>1, <1>4, OpeningsFrame
<1>9. OpensCommitted'
  <2>1. ReadsCommitted'
    BY <1>1, ReadsFrame
  <2>2. ASSUME phase' = "accepted" PROVE AcceptedAs(Delivered(Proof, damage), given)
    BY <1>1, <1>3, <2>2, AcceptedOpens
  <2>3. Proof' = Proof /\ Statement' = Statement /\ received'.damage = damage /\ received'.given = given
    BY <1>1, <1>3, ProofFrame
  <2> QED BY <1>1, <1>4, <2>1, <2>2, <2>3 DEF OpensCommitted, AcceptedAs
<1> QED BY <1>1, <1>4, <1>5, <1>6, <1>7, <1>8, <1>9 DEF IInv, AuditExact, Phases

(* ----------------------------- the audit ------------------------------ *)

\* The sampled files pass exactly when they are the rows committed.
LEMMA AuditOutcomeExact ==
  ASSUME IInv, phase # "commit", NEW indices \in SUBSET Domain
  PROVE  AuditOutcome(indices, archive, ChunkRoots, stc_build_pc_commitment(acc).root) = "verified"
            <=> indices # {} /\ \A i \in indices : archive[i] = Row(i)
<1> DEFINE n == Cfg.domain_size
           root == stc_build_pc_commitment(acc).root
           levels == build_kary_levels(ChunkRoots, CHUNK_TREE_ARITY)
           Derived(i) == merkle_from_values(archive[i], i * row_width)
           Sound(i) == verify_kary(root, Derived(i), i, prove_kary(levels, i, CHUNK_TREE_ARITY),
                                   CHUNK_TREE_ARITY, Size(ChunkRoots))
<1>1. job \in Jobs /\ CommitOK /\ FilesOK
  BY DEF IInv
<1>2. n \in Nat \ {0} /\ Domain = 0..n - 1 /\ \A i \in Domain : Row(i) \in Rows
  BY <1>1, RunType DEF Domain
<1>3. Accumulated(acc, n)
  BY <1>1, <1>2 DEF CommitOK
<1> HIDE DEF n
<1>4. /\ Level(ChunkRoots, n) /\ Size(ChunkRoots) = n
      /\ \A i \in Domain : ChunkRoots[i] = merkle_from_values(Row(i), i * row_width)
      /\ levels = ChunkLevels(acc)
  <2> DEFINE roots == [i \in 0..Len(acc.chunks) - 1 |-> acc.chunks[i + 1].root]
  <2>1. /\ roots = [i \in 0..n - 1 |-> acc.chunks[i + 1].root] /\ Level(roots, n)
        /\ \A i \in 0..n - 1 : roots[i] = merkle_from_values(Row(i), i * row_width)
    BY <1>2, <1>3, ChunkRootsOfRows
  <2>2. ChunkRoots = roots
    BY <1>2, <2>1 DEF ChunkRoots
  <2>3. Size(roots) = n
    <3> HIDE DEF roots
    <3> QED BY <1>2, <2>1, LevelSize
  <2>4. ChunkLevels(acc) = build_kary_levels(roots, CHUNK_TREE_ARITY)
    BY DEF ChunkLevels
  <2> HIDE DEF roots
  <2> QED BY <1>2, <2>1, <2>2, <2>3, <2>4
<1>5. AuditOutcome(indices, archive, ChunkRoots, root) = "verified"
        <=> /\ indices # {}
            /\ \A i \in indices : archive[i] # Missing
            /\ \A i \in indices : Derived(i) = ChunkRoots[i]
            /\ \A i \in indices : Sound(i)
  <2>1. AuditOutcome(indices, archive, ChunkRoots, root) =
          IF indices = {} THEN "skipped"
          ELSE IF \E i \in indices : archive[i] = Missing THEN "FileNotFoundError"
          ELSE IF \E i \in indices : Derived(i) # ChunkRoots[i] THEN "E065"
          ELSE IF \E i \in indices : ~ Sound(i) THEN "E064"
          ELSE "verified"
    BY Zenon DEF AuditOutcome
  <2> HIDE DEF Derived, Sound, root
  <2> QED BY <2>1
<1>6. ASSUME NEW i \in indices
      PROVE  /\ archive[i] # Missing /\ Derived(i) = ChunkRoots[i] => archive[i] = Row(i)
             /\ archive[i] = Row(i) =>
                  /\ archive[i] # Missing /\ Derived(i) = ChunkRoots[i]
                  /\ Sound(i)
  <2>1. i \in Domain /\ i \in 0..n - 1 /\ Row(i) \in Rows /\ archive[i] \in Rows \cup {Missing}
    BY <1>1, <1>2 DEF FilesOK
  <2>2. ASSUME archive[i] # Missing, Derived(i) = ChunkRoots[i] PROVE archive[i] = Row(i)
    BY <1>4, <2>1, <2>2, ChunkRootBinds
  <2>3. ASSUME archive[i] = Row(i)
        PROVE  archive[i] # Missing /\ Derived(i) = ChunkRoots[i] /\ Sound(i)
    <3>1. archive[i] # Missing
      BY <2>1, <2>3, NoRows
    <3>2. Derived(i) = ChunkRoots[i]
      BY <1>4, <2>1, <2>3
    <3>3. Derived(i) = merkle_from_values(Row(i), i * row_width)
      BY <2>3
    <3> HIDE DEF Derived, levels
    <3>4. verify_kary(root, Derived(i), i, prove_kary(ChunkLevels(acc), i, CHUNK_TREE_ARITY),
                      CHUNK_TREE_ARITY, n)
      BY <1>2, <1>3, <2>1, <3>3, ChunkPathBinds
    <3> QED BY <1>4, <3>1, <3>2, <3>4
  <2> QED BY <2>2, <2>3
<1> HIDE DEF Derived, Sound, root, levels
<1>7. (/\ indices # {}
       /\ \A i \in indices : archive[i] # Missing
       /\ \A i \in indices : Derived(i) = ChunkRoots[i]
       /\ \A i \in indices : Sound(i))
        <=> indices # {} /\ \A i \in indices : archive[i] = Row(i)
  BY <1>6
<1> QED BY <1>5, <1>7 DEF root

LEMMA AuditStep == IInv /\ Audit => IInv'
<1> SUFFICES ASSUME IInv, Audit PROVE IInv'
  OBVIOUS
<1>1. /\ phase = "accepted" /\ phase' = "audited" /\ job \in Jobs /\ foreign \in 0..MaxForeign
      /\ FilesOK /\ SamplingOK /\ OpeningsOK /\ CommitOK /\ OpensCommitted
      /\ UNCHANGED <<job, acc, archive, cache, drawn, fri, openings, received, foreign>>
  BY DEF IInv, Audit
<1>2. Cfg' = Cfg /\ Domain' = Domain
  BY <1>1 DEF Cfg, Domain
<1>3. PICK indices \in SUBSET Domain :
        audit' = [indices |-> indices,
                  outcome |-> AuditOutcome(indices, archive, ChunkRoots,
                                           stc_build_pc_commitment(acc).root)]
  BY DEF Audit, kSubset
<1>4. CommitOK'
  BY <1>1, CommitFrame
<1>5. FilesOK'
  BY <1>1, <1>2 DEF FilesOK
<1>6. SamplingOK'
  BY <1>1, <1>2 DEF SamplingOK
<1>7. OpeningsOK'
  BY <1>1, OpeningsFrame
<1>8. OpensCommitted'
  <2>1. ReadsCommitted'
    BY <1>1, ReadsFrame DEF OpensCommitted
  <2>2. Proof' = Proof /\ Statement' = Statement
    BY <1>1, ProofFrame
  <2> QED BY <1>1, <2>1, <2>2 DEF OpensCommitted
<1>9. AuditExact'
  <2>1. audit'.outcome = "verified"
          <=> audit'.indices # {} /\ \A i \in audit'.indices : archive[i] = Row(i)
    BY <1>1, <1>3, AuditOutcomeExact
  <2>2. \A i : Row(i)' = Row(i)
    BY <1>1 DEF Row
  <2> QED BY <1>1, <2>1, <2>2 DEF AuditExact
<1> QED BY <1>1, <1>4, <1>5, <1>6, <1>7, <1>8, <1>9 DEF IInv, Phases

(* ---------------------------- another run ----------------------------- *)

\* A step that only writes or clears files leaves the run as it is.
LEMMA ForeignStep ==
  ASSUME IInv, archive' \in [Domain -> Rows \cup {Missing}], foreign' \in 0..MaxForeign,
         phase # "audited",
         UNCHANGED <<job, phase, acc, cache, drawn, fri, openings, received, audit>>
  PROVE  IInv'
<1>1. /\ job \in Jobs /\ phase \in Phases /\ audit = None
      /\ FilesOK /\ SamplingOK /\ OpeningsOK /\ CommitOK /\ OpensCommitted
  BY DEF IInv
<1>2. Cfg' = Cfg /\ Domain' = Domain
  BY DEF Cfg, Domain
<1>3. CommitOK'
  BY <1>1, CommitFrame
<1>4. FilesOK'
  BY <1>1, <1>2 DEF FilesOK
<1>5. SamplingOK'
  BY <1>1, <1>2 DEF SamplingOK
<1>6. OpeningsOK'
  <2>1. \A i \in DOMAIN openings : Opened(i)'
    BY <1>1, OpenedFrame DEF OpeningsOK, SamplingOK
  <2> QED BY <1>1, <2>1 DEF OpeningsOK
<1>7. OpensCommitted'
  <2>1. ReadsCommitted => ReadsCommitted'
    BY ReadsFrame
  <2>2. Proof' = Proof /\ Statement' = Statement
    BY ProofFrame
  <2> QED BY <1>1, <2>1, <2>2 DEF OpensCommitted
<1> QED BY <1>1, <1>3, <1>4, <1>5, <1>6, <1>7 DEF IInv, AuditExact

LEMMA OtherRunStep == IInv /\ (OtherRunWrites \/ OtherRunClears) => IInv'
<1> SUFFICES ASSUME IInv, OtherRunWrites \/ OtherRunClears PROVE IInv'
  OBVIOUS
<1>1. job \in Jobs /\ archive \in [Domain -> Rows \cup {Missing}] /\ foreign \in 0..MaxForeign
  BY DEF IInv, FilesOK
<1>2. \A i \in Domain : OtherRow(i) \in Rows
  <2> TAKE i \in Domain
  <2>1. Row(i) \in Rows
    BY <1>1, RunType
  <2>2. ASSUME NEW k \in 1..row_width PROVE Other(Row(i)[k]) \in Fields
    BY <2>1, FieldType, InField DEF Rows, Other
  <2> QED BY <2>2, ColumnNamesType DEF OtherRow, Rows
<1>3. /\ phase # "audited" /\ foreign' \in 0..MaxForeign
      /\ UNCHANGED <<job, phase, acc, cache, drawn, fri, openings, received, audit>>
  BY <1>1, ProofAssumption DEF OtherRunWrites, OtherRunClears, Ended
<1>4. archive' \in [Domain -> Rows \cup {Missing}]
  BY <1>1, <1>2 DEF OtherRunWrites, OtherRunClears
<1> QED BY <1>3, <1>4, ForeignStep

(* --------------------- damage to the composition ---------------------- *)

\* Numbers that leave the same remainder differ by a multiple.
LEMMA SameRemainder ==
  ASSUME NEW x \in Nat, NEW y \in Nat, x % Modulus = y % Modulus
  PROVE  \E k \in Int : x = y + k * Modulus
<1>1. /\ x \div Modulus \in Int /\ y \div Modulus \in Int
      /\ x = (x \div Modulus) * Modulus + (x % Modulus)
      /\ y = (y \div Modulus) * Modulus + (y % Modulus)
  BY ModulusType
<1> DEFINE k == (x \div Modulus) - (y \div Modulus)
<1>2. k \in Int /\ k * Modulus = (x \div Modulus) * Modulus - (y \div Modulus) * Modulus
  BY <1>1, ModulusType
<1>3. x = y + k * Modulus
  BY <1>1, <1>2, ModulusType
<1> QED BY <1>2, <1>3

\* A mask does not hide a difference.
LEMMA MaskKept ==
  ASSUME NEW x \in Fields, NEW y \in Fields, NEW m \in Fields,
         (x + m) % Modulus = (y + m) % Modulus
  PROVE  x = y
<1>1. x + m \in Nat /\ y + m \in Nat /\ x \in Nat /\ y \in Nat
  BY FieldType
<1>2. PICK k \in Int : x + m = (y + m) + k * Modulus
  BY <1>1, SameRemainder
<1>3. x - y = k * Modulus
  BY <1>1, <1>2, ModulusType, FieldType
<1>4. x - y < Modulus /\ y - x < Modulus
  BY ModulusType DEF Fields
<1>5. k = 0
  <2>1. CASE k >= 1
    <3>1. k * Modulus >= Modulus
      BY <2>1, ModulusType
    <3> QED BY <1>1, <1>3, <1>4, <3>1, ModulusType
  <2>2. CASE k <= -1
    <3>1. k * Modulus <= -Modulus
      BY <2>2, ModulusType
    <3> QED BY <1>1, <1>3, <1>4, <3>1, ModulusType
  <2> QED BY <2>1, <2>2
<1> QED BY <1>1, <1>3, <1>5, ModulusType

\* Another declared count is at another distance from the row's.
LEMMA OtherDistance ==
  ASSUME NEW x \in Fields, NEW f \in Fields
  PROVE  /\ Minus(x, f) \in Fields /\ Minus(x, Other(f)) \in Fields
         /\ \/ Minus(x, f) = Minus(x, Other(f)) + 1
            \/ Minus(x, f) = 0 /\ Minus(x, Other(f)) = Modulus - 1
<1>1. Minus(x, f) = (x + Modulus - f) % Modulus
  BY FieldType DEF Minus
<1>2. Other(f) \in Fields /\ (Other(f) = f + 1 \/ (f = Modulus - 1 /\ Other(f) = 0))
  <2>1. CASE f = Modulus - 1
    <3>1. f + 1 = Modulus /\ Modulus % Modulus = 0
      BY <2>1, ModulusType
    <3> QED BY <2>1, <3>1, ModulusType DEF Other
  <2>2. CASE f # Modulus - 1
    <3>1. f + 1 \in Fields
      BY <2>2, ModulusType DEF Fields
    <3> QED BY <3>1, FieldType DEF Other
  <2> QED BY <2>1, <2>2
<1>3. Minus(x, Other(f)) = (x + Modulus - Other(f)) % Modulus
  BY <1>2, FieldType DEF Minus
<1>4. Minus(x, f) = IF x >= f THEN x - f ELSE x + Modulus - f
  <2>1. CASE x >= f
    <3>1. x - f \in Fields /\ (x + Modulus - f) = (x - f) + Modulus
      BY <2>1, ModulusType DEF Fields
    <3>2. ((x - f) + Modulus) % Modulus = (x - f) % Modulus
      BY <3>1, ModulusType DEF Fields
    <3> QED BY <1>1, <2>1, <3>1, <3>2, FieldType
  <2>2. CASE ~ (x >= f)
    <3>1. x + Modulus - f \in Fields
      BY <2>2, ModulusType DEF Fields
    <3> QED BY <1>1, <2>2, <3>1, FieldType
  <2> QED BY <2>1, <2>2
<1> DEFINE g == Other(f)
<1> HIDE DEF g
<1>5. Minus(x, g) = IF x >= g THEN x - g ELSE x + Modulus - g
  <2>0. g \in Fields
    BY <1>2 DEF g
  <2>1. CASE x >= g
    <3>1. x - g \in Fields /\ (x + Modulus - g) = (x - g) + Modulus
      BY <2>0, <2>1, ModulusType DEF Fields
    <3>2. ((x - g) + Modulus) % Modulus = (x - g) % Modulus
      BY <3>1, ModulusType DEF Fields
    <3> QED BY <1>3, <2>1, <3>1, <3>2, FieldType DEF g
  <2>2. CASE ~ (x >= g)
    <3>1. x + Modulus - g \in Fields
      BY <2>0, <2>2, ModulusType DEF Fields
    <3> QED BY <1>3, <2>2, <3>1, FieldType DEF g
  <2> QED BY <2>1, <2>2
<1>6. x \in Nat /\ f \in Nat /\ g \in Nat /\ x < Modulus /\ f < Modulus /\ g < Modulus
  BY <1>2, ModulusType DEF Fields, g
<1>7. g = f + 1 \/ (f = Modulus - 1 /\ g = 0)
  BY <1>2 DEF g
<1>8. \/ Minus(x, f) = Minus(x, g) + 1
      \/ Minus(x, f) = 0 /\ Minus(x, g) = Modulus - 1
  BY <1>4, <1>5, <1>6, <1>7, ModulusType
<1>9. Minus(x, f) \in Fields /\ Minus(x, g) \in Fields
  BY <1>4, <1>5, <1>6, ModulusType DEF Fields
<1> QED BY <1>8, <1>9 DEF g

\* The weight of a constraint carries the difference over.
LEMMA WeightTells ==
  ASSUME NEW a \in Fields \ {0}, NEW rest \in Nat, NEW u \in Fields, NEW v \in Fields,
         u = v + 1 \/ (u = 0 /\ v = Modulus - 1)
  PROVE  (rest + a * u) % Modulus # (rest + a * v) % Modulus
<1>1. /\ a \in Nat /\ u \in Nat /\ v \in Nat /\ a * u \in Nat /\ a * v \in Nat
      /\ a < Modulus /\ a > 0
  <2>1. a \in Nat /\ u \in Nat /\ v \in Nat /\ a < Modulus /\ a > 0
    BY ModulusType DEF Fields
  <2> QED BY <2>1, ProductNatural
<1> SUFFICES ASSUME (rest + a * u) % Modulus = (rest + a * v) % Modulus PROVE FALSE
  OBVIOUS
<1>2. PICK k \in Int : rest + a * u = (rest + a * v) + k * Modulus
  BY <1>1, SameRemainder
<1>3. \E t \in Int : a = t * Modulus
  <2>1. CASE u = v + 1
    <3>1. a * u = a * v + a
      BY <1>1, <2>1
    <3> QED BY <1>1, <1>2, <3>1, ModulusType
  <2>2. CASE u = 0 /\ v = Modulus - 1
    <3>1. a * u = 0 /\ a * v = a * Modulus - a
      BY <1>1, <2>2, ModulusType
    <3>2. 0 = a * Modulus - a + k * Modulus
      BY <1>1, <1>2, <3>1, ModulusType
    <3>3. a + k \in Int /\ (a + k) * Modulus = a * Modulus + k * Modulus
      BY <1>1, ModulusType
    <3>4. a = (a + k) * Modulus
      BY <1>1, <3>2, <3>3, ModulusType
    <3> QED BY <3>3, <3>4
  <2> QED BY <2>1, <2>2
<1>4. PICK t \in Int : a = t * Modulus
  BY <1>3
<1>5. CASE t >= 1
  <2>1. t * Modulus >= Modulus
    BY <1>5, ModulusType
  <2> QED BY <1>1, <1>4, <2>1, ModulusType
<1>6. CASE t <= 0
  <2>1. t * Modulus <= 0
    BY <1>6, ModulusType
  <2> QED BY <1>1, <1>4, <2>1
<1> QED BY <1>5, <1>6

\* The row behind masked values.
LEMMA UnmaskedType ==
  ASSUME NEW values \in Rows, NEW i, \A c \in Columns : column_mask_at_index(c, i) \in Fields
  PROVE  Unmasked(values, i) \in FieldRows
<1> DEFINE k(c) == CHOOSE k \in DOMAIN column_names : column_names[k] = c
           Value(c) == Minus(values[k(c)], column_mask_at_index(c, i))
<1>1. ASSUME NEW c \in Columns PROVE Value(c) \in Fields
  <2>1. \E m \in DOMAIN column_names : column_names[m] = c
    BY DEF Columns, Range
  <2>2. k(c) \in 1..row_width
    BY <2>1, ColumnNamesType
  <2> HIDE DEF k
  <2>3. values[k(c)] \in Nat
    BY <2>2, FieldType DEF Rows
  <2>4. column_mask_at_index(c, i) \in Nat
    BY FieldType
  <2> QED BY <2>3, <2>4, MinusType
<1>2. Unmasked(values, i) = [c \in Columns |-> Value(c)]
  BY DEF Unmasked
<1> HIDE DEF Value
<1> QED BY <1>1, <1>2 DEF FieldRows

LEMMA MasksType ==
  ASSUME job \in Jobs, NEW i \in Domain
  PROVE  mask_at_index(i) \in Fields /\ \A c \in Columns : column_mask_at_index(c, i) \in Fields
<1>1. Domain = 0..next_power_of_two(job.steps) - 1
  BY DEF Domain, Cfg, Prepared, _prepare_trace_state, _build_fri_cfg
<1> QED BY <1>1, ProofAssumption DEF Fields

\* Two results in which the count differs compose differently.
LEMMA OtherCountComposes ==
  ASSUME NEW row \in FieldRows, NEW idx \in Nat, NEW steps, idx + 1 = steps,
         NEW finals \in Results, NEW residual \in Residuals
  PROVE  LET other == [finals EXCEPT !["CNT"] = Other(@)]
         IN  /\ other \in Results
             /\ composition_value_from_row(row, residual, idx, steps, finals)
                  # composition_value_from_row(row, residual, idx, steps, other)
<1> DEFINE other == [finals EXCEPT !["CNT"] = Other(@)]
           x == row[<<"CNT", 0>>]
           f == finals["CNT"]
           a == alpha(<<"CNT", 1>>)
           rest == WeightedSteps(residual) + OtherResults(row, finals)
           u == Minus(x, f)
           v == Minus(x, Other(f))
<1>1. "CNT" \in Finals /\ f \in Fields
  BY DEF Finals, Results
<1>2. x \in Fields
  BY BaseColumn DEF BaseNames
<1>3. u \in Fields /\ v \in Fields /\ (u = v + 1 \/ (u = 0 /\ v = Modulus - 1))
  BY <1>1, <1>2, OtherDistance
<1>4. other \in Results /\ other["CNT"] = Other(f)
  <2>1. Other(f) \in Fields
    BY <1>1, FieldType, InField DEF Other
  <2> QED BY <1>1, <2>1 DEF Results
<1>5. \A n \in {"M11", "M12", "M22"} : other[n] = finals[n]
  BY DEF Results, Finals
<1>6. OtherResults(row, other) = OtherResults(row, finals)
  BY <1>5 DEF OtherResults
<1>7. CountResult(row, finals) = a * u /\ CountResult(row, other) = a * v
  BY <1>4 DEF CountResult
<1>8. a \in Fields \ {0}
  BY <1>1, AlphaType
<1>9. WeightedSteps(residual) \in Nat /\ OtherResults(row, finals) \in Nat
  BY WeightedStepsType, ResultsType
<1>10. /\ WeightedResults(row, finals) = OtherResults(row, finals) + a * u
       /\ WeightedResults(row, other) = OtherResults(row, finals) + a * v
  BY <1>4, <1>6, <1>7, ResultsType
<1>11. /\ composition_value_from_row(row, residual, idx, steps, finals)
             = (WeightedSteps(residual) + WeightedResults(row, finals)) % Modulus
       /\ composition_value_from_row(row, residual, idx, steps, other)
             = (WeightedSteps(residual) + WeightedResults(row, other)) % Modulus
  BY DEF composition_value_from_row
<1> HIDE DEF other, u, v, a
<1>12. a * u \in Nat /\ a * v \in Nat
  <2>1. a \in Nat /\ u \in Nat /\ v \in Nat
    BY <1>3, <1>8, FieldType
  <2> QED BY <2>1, ProductNatural
<1>13. /\ WeightedSteps(residual) + WeightedResults(row, finals) = rest + a * u
       /\ WeightedSteps(residual) + WeightedResults(row, other) = rest + a * v
  BY <1>9, <1>10, <1>12
<1>14. rest \in Nat
  BY <1>9
<1> HIDE DEF rest
<1>15. (rest + a * u) % Modulus # (rest + a * v) % Modulus
  BY <1>3, <1>8, <1>14, WeightTells
<1> QED BY <1>4, <1>11, <1>13, <1>15 DEF other

\* The value that a verifier expects at the last row of the trace depends on
\* the count that the statement declares.
LEMMA ExpectedAtEnd ==
  ASSUME job \in Jobs, NEW p, NEW i \in Domain, i + 1 = p.statement.steps, p.statement.steps \in Nat,
         p.row_openings[i].row_values \in Rows, p.statement.finals \in Results
  PROVE  LET row == Unmasked(p.row_openings[i].row_values, i)
             value == composition_value_from_row(row, zero_residual, i, p.statement.steps,
                                                 p.statement.finals)
         IN  /\ row \in FieldRows /\ value \in Fields /\ mask_at_index(i) \in Fields
             /\ Expected(p, i) = (value + mask_at_index(i)) % Modulus
<1> DEFINE row == Unmasked(p.row_openings[i].row_values, i)
           value == composition_value_from_row(row, zero_residual, i, p.statement.steps,
                                               p.statement.finals)
<1>1. mask_at_index(i) \in Fields /\ \A c \in Columns : column_mask_at_index(c, i) \in Fields
  BY MasksType
<1>2. row \in FieldRows
  BY <1>1, UnmaskedType
<1>3. value \in Fields
  BY <1>2, ZeroResidualType, CompositionValueType
<1>4. i \in Nat /\ i >= p.statement.steps - 1
  BY RunType DEF Domain
<1>5. Expected(p, i) = (value + mask_at_index(i)) % Modulus
  BY <1>4 DEF Expected
<1> QED BY <1>1, <1>2, <1>3, <1>5

\* The composition of this run, committed and opened.
Composition == Prepared[job].composition
Layers == Codewords(Cfg, Composition)
OpenedComposition == pc_open(Cfg, Composition, drawn, ChunkLen)

LEMMA CompositionType ==
  ASSUME job \in Jobs
  PROVE  /\ Composition \in Vectors(Cfg.domain_size)
         /\ Prepared[job].finals \in Results
         /\ Cfg.domain_size \in Nat \ {0} /\ Cfg.num_rounds \in 0..RoundLimit
         /\ Cfg.num_rounds \in Nat /\ ChunkLen \in Nat \ {0}
BY PreparedComposition, RunType, ProofAssumption DEF Composition, Cfg

\* Each layer is a vector; its batch opens positions of the layer.
LEMMA OpenedLayer ==
  ASSUME job \in Jobs, drawn \subseteq Domain, CanFold(Cfg), NEW r \in 1..Cfg.num_rounds + 1
  PROVE  /\ DOMAIN OpenedComposition.layers = 1..Cfg.num_rounds + 1
         /\ DOMAIN OpenedComposition.batches = 1..Cfg.num_rounds + 1
         /\ DOMAIN OpenedComposition = {"layers", "batches"}
         /\ OpenedComposition.batches[r]
               = open_batch(Accumulate(Layers[r], ChunkLen), Needed(Cfg, r, drawn),
                            ChunksOf(Layers[r], ChunkLen))
         /\ OpenedComposition.layers[r] = stc_build_pc_commitment(Accumulate(Layers[r], ChunkLen))
         /\ Halved(Cfg.domain_size, Cfg.num_rounds)[r - 1] \in Nat \ {0}
         /\ Layers[r] \in Vectors(Halved(Cfg.domain_size, Cfg.num_rounds)[r - 1])
         /\ Needed(Cfg, r, drawn) \subseteq 0..Halved(Cfg.domain_size, Cfg.num_rounds)[r - 1] - 1
<1> DEFINE d == Cfg.domain_size
           rounds == Cfg.num_rounds
           cfg == Cfg
<1>1. /\ Composition \in Vectors(d) /\ d \in Nat \ {0} /\ rounds \in 0..RoundLimit /\ rounds \in Nat
  BY CompositionType
<1>2. drawn \subseteq 0..d - 1
  BY DEF Domain
<1>3. CanFold(cfg) /\ cfg.domain_size = d /\ cfg.num_rounds = rounds /\ r \in 1..rounds + 1
  OBVIOUS
<1>4. /\ DOMAIN OpenedComposition = {"layers", "batches"}
      /\ DOMAIN OpenedComposition.batches = DOMAIN Layers
      /\ OpenedComposition.layers
            = [k \in DOMAIN Layers |-> stc_build_pc_commitment(Accumulate(Layers[k], ChunkLen))]
      /\ OpenedComposition.batches[r]
            = [k \in DOMAIN Layers |-> open_batch(Accumulate(Layers[k], ChunkLen),
                                                  Needed(Cfg, k, drawn),
                                                  ChunksOf(Layers[k], ChunkLen))][r]
  <2>1. DOMAIN Layers = DOMAIN Layers
    OBVIOUS
  <2>2. r \in DOMAIN Layers
    <3> HIDE DEF d, rounds, cfg
    <3> QED BY <1>1, <1>3, CodewordsUnfold DEF Layers, cfg
  <2>3. OpenedComposition =
          [layers |-> [k \in DOMAIN Layers |->
                         stc_build_pc_commitment([j \in DOMAIN Layers |-> Accumulate(Layers[j], ChunkLen)][k])],
           batches |-> [k \in DOMAIN Layers |->
                          open_batch([j \in DOMAIN Layers |-> Accumulate(Layers[j], ChunkLen)][k],
                                     Needed(Cfg, k, drawn), ChunksOf(Layers[k], ChunkLen))]]
    BY DEF OpenedComposition, pc_open, Layers
  <2> QED BY <2>2, <2>3
<1> HIDE DEF d, rounds, cfg
<1>5. /\ DOMAIN Codewords(cfg, Composition) = 1..rounds + 1
      /\ \A k \in 1..rounds + 1 : Codewords(cfg, Composition)[k] \in Vectors(Halved(d, rounds)[k - 1])
  BY <1>1, <1>3, CodewordsType
<1>6. DOMAIN Layers = 1..rounds + 1 /\ Layers[r] \in Vectors(Halved(d, rounds)[r - 1])
  BY <1>3, <1>5 DEF Layers, cfg
<1>7. Needed(cfg, r, drawn) \subseteq 0..Halved(d, rounds)[r - 1] - 1
  BY <1>1, <1>2, <1>3, NeededInside
<1>8. Halved(d, rounds)[r - 1] \in Nat \ {0}
  <2>1. \A k \in 0..rounds : Halved(d, rounds)[k] \in Nat \ {0}
    BY <1>1, <1>3, LayerSizes
  <2>2. r - 1 \in 0..rounds
    BY <1>1, <1>3
  <2> QED BY <2>1, <2>2
<1>9. /\ DOMAIN OpenedComposition.layers = 1..rounds + 1
      /\ DOMAIN OpenedComposition.batches = 1..rounds + 1
      /\ DOMAIN OpenedComposition = {"layers", "batches"}
      /\ OpenedComposition.layers[r] = stc_build_pc_commitment(Accumulate(Layers[r], ChunkLen))
      /\ OpenedComposition.batches[r]
            = open_batch(Accumulate(Layers[r], ChunkLen), Needed(Cfg, r, drawn),
                         ChunksOf(Layers[r], ChunkLen))
  BY <1>3, <1>4, <1>6
<1> QED BY <1>6, <1>7, <1>8, <1>9 DEF d, rounds, cfg

\* The conditions that an accepted proof of the composition meets.
LEMMA PcVerifyParts ==
  ASSUME NEW cfg, NEW base, NEW proof, NEW Q, NEW expected,
         pc_verify(cfg, base, proof, Q, expected)
  PROVE  /\ \A r \in DOMAIN proof.layers : verify_batch(proof.layers[r], proof.batches[r])
         /\ \A q \in Q : proof.batches[1].entries[q].value % Modulus = expected[q] % Modulus
BY Zenon DEF pc_verify

LEMMA ProofParts ==
  ASSUME NEW p, NEW h, verify_proof_only(p, h)
  PROVE  /\ p.query_indices = drawn
         /\ \A r \in DOMAIN p.fri_proof.layers :
               verify_batch(p.fri_proof.layers[r], p.fri_proof.batches[r])
         /\ \A q \in drawn : p.fri_proof.batches[1].entries[q].value % Modulus
                                = Expected(p, q) % Modulus
<1>1. /\ p.query_indices = drawn
      /\ pc_verify(p.fri_params, p.base_commitment, p.fri_proof, p.query_indices,
                   [i \in p.query_indices |-> Expected(p, i)])
  BY DEF verify_proof_only
<1>2. /\ \A r \in DOMAIN p.fri_proof.layers :
            verify_batch(p.fri_proof.layers[r], p.fri_proof.batches[r])
      /\ \A q \in drawn : p.fri_proof.batches[1].entries[q].value % Modulus
                             = [i \in drawn |-> Expected(p, i)][q] % Modulus
  BY <1>1, PcVerifyParts
<1> QED BY <1>1, <1>2

\* The ways in which the statement and the composition's proof are damaged.
CountBent(p) == [p EXCEPT !.statement.finals["CNT"] = Other(@)]
LayerBent(p, r) ==
    LET i == CHOOSE i \in DOMAIN p.fri_proof.batches[r].entries : TRUE
    IN  [p EXCEPT !.fri_proof.batches[r].entries[i].value = Other(@)]

\* A layer of a published proof does not verify with a value changed.
LEMMA LayerDamageRefused ==
  ASSUME job \in Jobs, drawn \subseteq Domain, CanFold(Cfg), NEW p, NEW h, NEW g,
         "fri_proof" \in DOMAIN p, p.fri_proof = OpenedComposition, verify_proof_only(p, h),
         NEW r \in 1..Cfg.num_rounds + 1, NEW d, d = LayerBent(p, r)
  PROVE  ~ verify_proof_only(d, g)
<1> DEFINE C == stc_build_pc_commitment(Accumulate(Layers[r], ChunkLen))
           I == Needed(Cfg, r, drawn)
           n == Halved(Cfg.domain_size, Cfg.num_rounds)[r - 1]
           values == Layers[r]
           a == Accumulate(values, ChunkLen)
           chunks == ChunksOf(values, ChunkLen)
           b == open_batch(a, I, chunks)
           i == CHOOSE i \in DOMAIN b.entries : TRUE
           w == Other(b.entries[i].value)
           e == [b EXCEPT !.entries[i].value = w]
<1>1. /\ DOMAIN p.fri_proof.layers = 1..Cfg.num_rounds + 1
      /\ DOMAIN p.fri_proof.batches = 1..Cfg.num_rounds + 1
      /\ DOMAIN p.fri_proof = {"layers", "batches"}
      /\ p.fri_proof.batches[r] = b /\ p.fri_proof.layers[r] = C
      /\ n \in Nat \ {0} /\ values \in Vectors(n) /\ I \subseteq 0..n - 1
  BY OpenedLayer
<1>2. verify_batch(C, b)
  BY <1>1, ProofParts
<1>3. d = [p EXCEPT !.fri_proof.batches[r].entries[i].value = Other(@)]
  BY <1>1 DEF LayerBent
<1>4. DOMAIN b.entries = I /\ \A j \in I : b.entries[j].value
                                             = chunks[j \div a.chunk_len + 1][(j % a.chunk_len) + 1]
  BY DEF open_batch
<1>5. I # {}
  BY <1>2, <1>4 DEF verify_batch
<1>6. i \in I
  BY <1>4, <1>5
<1> HIDE DEF n, I, C, values, i, b, a, chunks
<1>7. i \in 0..n - 1 /\ a.chunk_len = ChunkLen /\ ChunkLen \in Nat \ {0}
  BY <1>1, <1>6, CompositionType, AccumulateShape DEF a
<1>8. b.entries[i].value = values[i + 1]
  <2>1. b.entries[i].value = chunks[i \div ChunkLen + 1][(i % ChunkLen) + 1]
    BY <1>4, <1>6, <1>7
  <2>2. chunks[i \div ChunkLen + 1][(i % ChunkLen) + 1] = values[i + 1]
    <3>1. n \in Nat \ {0} /\ ChunkLen \in Nat \ {0} /\ values \in Vectors(n) /\ i \in 0..n - 1
      BY <1>1, <1>7
    <3>2. InChunk(ChunksOf(values, ChunkLen), ChunkLen, values, i)
      BY <3>1, ChunkPlace
    <3> QED BY <3>2 DEF chunks, InChunk
  <2> QED BY <2>1, <2>2
<1>9. values[i + 1] \in Fields
  <2>1. i + 1 \in 1..n
    BY <1>1, <1>7
  <2> QED BY <1>1, <2>1 DEF Vectors
<1>10. w % Modulus # values[i + 1]
  BY <1>8, <1>9, ModulusType DEF Other, Fields
<1> HIDE DEF w
<1>11. ~ verify_batch(C, e)
  BY <1>1, <1>2, <1>6, <1>7, <1>10, OpenedBatchBinds DEF b, a, chunks
<1>12. /\ DOMAIN d.fri_proof.layers = 1..Cfg.num_rounds + 1
       /\ d.fri_proof.layers[r] = C /\ d.fri_proof.batches[r] = e
  <2> DEFINE one == p.fri_proof.batches[r]
             bent == [one EXCEPT !.entries[i].value = Other(@)]
             all == [p.fri_proof.batches EXCEPT ![r] = bent]
             x == [p.fri_proof EXCEPT !.batches = all]
  <2>1. d = [p EXCEPT !.fri_proof = x]
    BY <1>3
  <2>2. d.fri_proof = x
    <3> HIDE DEF x
    <3> QED BY <2>1
  <2>3. x.layers = p.fri_proof.layers /\ x.batches = all
    <3> HIDE DEF all
    <3> QED BY <1>1
  <2>4. all[r] = bent
    <3> HIDE DEF bent
    <3> QED BY <1>1
  <2>5. bent = e
    BY <1>1 DEF w
  <2> QED BY <1>1, <2>2, <2>3, <2>4, <2>5
<1> SUFFICES ASSUME verify_proof_only(d, g) PROVE FALSE
  OBVIOUS
<1>13. verify_batch(d.fri_proof.layers[r], d.fri_proof.batches[r])
  BY <1>12, ProofParts
<1> QED BY <1>11, <1>12, <1>13

\* A proof that declares another count is refused when the last row of the
\* trace is queried.
LEMMA ResultDamageRefused ==
  ASSUME job \in Jobs, drawn \subseteq Domain, ReadsCommitted, job.steps - 1 \in drawn,
         NEW h, verify_proof_only(Proof, h), NEW g, NEW d, d = CountBent(Proof)
  PROVE  ~ verify_proof_only(d, g)
<1> SUFFICES ASSUME verify_proof_only(d, g) PROVE FALSE
  OBVIOUS
<1> DEFINE i == job.steps - 1
           finals == Prepared[job].finals
           other == [finals EXCEPT !["CNT"] = Other(@)]
           row == Unmasked(Row(i), i)
           mask == mask_at_index(i)
           Value(f) == composition_value_from_row(row, zero_residual, i, job.steps, f)
<1>1. /\ job.steps \in Nat /\ i + 1 = job.steps /\ i \in Domain /\ Row(i) \in Rows
      /\ finals \in Results
  <2>1. job.steps \in Nat
    BY ProofAssumption
  <2> QED BY <2>1, RunType, CompositionType
<1>2. /\ Proof.statement = [steps |-> job.steps, finals |-> finals]
      /\ Proof.row_openings = openings /\ Proof.fri_proof = fri /\ Proof.query_indices = drawn
  BY DEF Proof, Statement
<1>3. /\ d.statement.steps = job.steps /\ d.statement.finals = other
      /\ d.row_openings = openings /\ d.fri_proof = fri
  <2> DEFINE x == [Proof.statement EXCEPT !.finals["CNT"] = Other(@)]
  <2>1. d = [Proof EXCEPT !.statement = x]
    BY DEF CountBent
  <2>2. x.steps = job.steps /\ x.finals = other
    <3> HIDE DEF finals
    <3> QED BY <1>2
  <2>3. "statement" \in DOMAIN Proof
    BY DEF Proof
  <2> HIDE DEF x
  <2>4. d.statement = x /\ d.row_openings = Proof.row_openings /\ d.fri_proof = Proof.fri_proof
    BY <2>1, <2>3
  <2> QED BY <1>2, <2>2, <2>4
<1>4. i \in DOMAIN openings /\ openings[i].row_values = Row(i)
  <2>1. DOMAIN Proof.row_openings = Proof.query_indices
    BY DEF verify_proof_only
  <2> QED BY <1>2, <2>1 DEF ReadsCommitted
<1>5. row \in FieldRows
  BY <1>1, MasksType, UnmaskedType
<1> HIDE DEF row, finals, mask, i
<1>6. other \in Results /\ Value(finals) # Value(other)
  BY <1>1, <1>5, ZeroResidualType, RunType, OtherCountComposes DEF Domain
<1>7. /\ Value(finals) \in Fields /\ mask \in Fields
      /\ Expected(Proof, i) = (Value(finals) + mask) % Modulus
  BY <1>1, <1>2, <1>4, ExpectedAtEnd DEF row, mask
<1>8. /\ Value(other) \in Fields
      /\ Expected(d, i) = (Value(other) + mask) % Modulus
  BY <1>1, <1>3, <1>4, <1>6, ExpectedAtEnd DEF row, mask
<1>9. Expected(Proof, i) % Modulus = Expected(d, i) % Modulus
  <2>1. i \in drawn
    BY DEF i
  <2>2. /\ fri.batches[1].entries[i].value % Modulus = Expected(Proof, i) % Modulus
        /\ fri.batches[1].entries[i].value % Modulus = Expected(d, i) % Modulus
    BY <1>2, <1>3, <2>1, ProofParts
  <2> QED BY <2>2
<1> HIDE DEF Value
<1>10. (Value(finals) + mask) % Modulus = (Value(other) + mask) % Modulus
  <2>1. Expected(Proof, i) \in Fields /\ Expected(d, i) \in Fields
    <3>1. Value(finals) + mask \in Int /\ Value(other) + mask \in Int
      BY <1>7, <1>8, FieldType
    <3> QED BY <1>7, <1>8, <3>1, InField
  <2> QED BY <1>7, <1>8, <1>9, <2>1, FieldType
<1> QED BY <1>6, <1>7, <1>8, <1>10, MaskKept

\* What the deliveries do to the composition's proof and to the statement.
LEMMA DeliveredResults ==
  ASSUME NEW p, {"fri_proof", "statement"} \subseteq DOMAIN p, NEW damage \in Deliveries, NEW d,
         d = Delivered(p, damage)
  PROVE  \/ d.fri_proof = p.fri_proof /\ d.statement = p.statement
         \/ d = CountBent(p)
         \/ \E r \in 1..Cfg.num_rounds + 1 : d = LayerBent(p, r)
<1>1. \/ damage \in {"none", "row", "opened row", "result"} \X {0}
      \/ damage = <<"next row", 0>>
      \/ damage \in {"layer"} \X (1..Cfg.num_rounds + 1)
  BY Zenon DEF Deliveries
<1>2. CASE damage[1] = "result"
  BY <1>2 DEF Delivered, CountBent
<1>3. CASE damage[1] = "layer" /\ damage[2] \in 1..Cfg.num_rounds + 1
  <2>1. d = LayerBent(p, damage[2])
    BY <1>3 DEF Delivered, LayerBent
  <2> QED BY <1>3, <2>1
<1>4. CASE damage[1] \in {"none", "row", "opened row", "next row"}
  <2>1. d = p \/ \E q, o : d = [p EXCEPT !.row_openings[q] = o]
    <3>1. CASE damage[1] = "none"
      BY <3>1 DEF Delivered
    <3>2. CASE damage[1] = "row"
      BY <3>2 DEF Delivered
    <3>3. CASE damage[1] = "opened row"
      BY <3>3 DEF Delivered
    <3>4. CASE damage[1] = "next row"
      BY <3>4 DEF Delivered
    <3> QED BY <1>4, <3>1, <3>2, <3>3, <3>4
  <2>2. d.fri_proof = p.fri_proof /\ d.statement = p.statement
    <3>1. d = p \/ \E x : d = [p EXCEPT !.row_openings = x]
      BY <2>1
    <3> QED BY <3>1
  <2> QED BY <2>2
<1>5. CASE damage \in {"none", "row", "opened row", "result"} \X {0}
  <2>1. damage[1] \in {"none", "row", "opened row", "result"}
    BY <1>5
  <2> QED BY <1>2, <1>4, <2>1
<1>6. CASE damage = <<"next row", 0>>
  <2>1. damage[1] = "next row"
    BY <1>6
  <2> QED BY <1>4, <2>1
<1>7. CASE damage \in {"layer"} \X (1..Cfg.num_rounds + 1)
  <2>1. damage[1] = "layer" /\ damage[2] \in 1..Cfg.num_rounds + 1
    BY <1>7
  <2> QED BY <1>3, <2>1
<1> QED BY <1>1, <1>5, <1>6, <1>7

\* The folded composition that is proved, and the proof that the prover has
\* checked.
ProofOK ==
    /\ phase \in {"open", "check", "published", "accepted", "refused", "audited"}
          => CanFold(Cfg) /\ fri = OpenedComposition
    /\ phase \in {"published", "accepted", "refused", "audited"}
          => verify_proof_only(Proof, job.binding)

\* An accepted proof has the composition's proof that was made.
AcceptedWhole(p) ==
    /\ p.fri_proof = fri
    /\ job.steps - 1 \in drawn => p.statement = Statement

LEMMA AcceptedIsWhole ==
  ASSUME IInv, ProofOK, phase = "published", NEW damage \in Deliveries, NEW given,
         verify_proof_only(Delivered(Proof, damage), given)
  PROVE  AcceptedWhole(Delivered(Proof, damage))
<1> DEFINE d == Delivered(Proof, damage)
<1>1. job \in Jobs /\ drawn \subseteq Domain /\ ReadsCommitted
  BY DEF IInv, SamplingOK, OpensCommitted
<1>2. CanFold(Cfg) /\ fri = OpenedComposition /\ verify_proof_only(Proof, job.binding)
  BY DEF ProofOK
<1>3. /\ Proof.fri_proof = fri /\ Proof.statement = Statement
      /\ {"fri_proof", "statement"} \subseteq DOMAIN Proof
  BY DEF Proof
<1>4. verify_proof_only(d, given)
  OBVIOUS
<1>5. \/ d.fri_proof = Proof.fri_proof /\ d.statement = Proof.statement
      \/ d = CountBent(Proof)
      \/ \E r \in 1..Cfg.num_rounds + 1 : d = LayerBent(Proof, r)
  BY <1>3, DeliveredResults
<1> HIDE DEF d
<1>6. CASE d.fri_proof = Proof.fri_proof /\ d.statement = Proof.statement
  BY <1>3, <1>6 DEF AcceptedWhole, d
<1>7. CASE d = CountBent(Proof)
  <2>1. d.fri_proof = fri
    <3>1. \E x : d = [Proof EXCEPT !.statement = x]
      BY <1>7 DEF CountBent
    <3> QED BY <1>3, <3>1
  <2>2. job.steps - 1 \notin drawn
    BY <1>1, <1>2, <1>4, <1>7, ResultDamageRefused
  <2> QED BY <2>1, <2>2 DEF AcceptedWhole, d
<1>8. CASE \E r \in 1..Cfg.num_rounds + 1 : d = LayerBent(Proof, r)
  <2>1. PICK r \in 1..Cfg.num_rounds + 1 : d = LayerBent(Proof, r)
    BY <1>8
  <2>2. Proof.fri_proof = OpenedComposition /\ "fri_proof" \in DOMAIN Proof
    BY <1>2, <1>3
  <2>3. ~ verify_proof_only(d, given)
    BY <1>1, <1>2, <2>1, <2>2, LayerDamageRefused
  <2> QED BY <1>4, <2>3
<1> QED BY <1>5, <1>6, <1>7, <1>8

AInv == ProofOK /\ AcceptedCommitted

LEMMA OpenedCompositionFrame ==
  ASSUME UNCHANGED <<job, drawn>>
  PROVE  OpenedComposition' = OpenedComposition /\ CanFold(Cfg)' = CanFold(Cfg)
BY DEF OpenedComposition, Composition, Cfg

LEMMA VerifyFrame ==
  ASSUME UNCHANGED <<job, acc, drawn, openings, fri>>
  PROVE  verify_proof_only(Proof, job.binding)' <=> verify_proof_only(Proof, job.binding)
BY ProofFrame DEF verify_proof_only

\* The invariant stays while the proof is left alone and no proof arrives.
LEMMA AcceptedFrame ==
  ASSUME AInv, UNCHANGED <<job, acc, drawn, openings, fri, received>>,
         phase' = phase \/ (phase = "open" /\ phase' = "check") \/ phase' = "failed"
            \/ (phase = "accepted" /\ phase' = "audited")
  PROVE  AInv'
<1>1. /\ ProofOK /\ AcceptedCommitted
  BY DEF AInv
<1>2. /\ OpenedComposition' = OpenedComposition /\ (CanFold(Cfg)' <=> CanFold(Cfg))
      /\ verify_proof_only(Proof, job.binding)' <=> verify_proof_only(Proof, job.binding)
      /\ Proof' = Proof /\ Statement' = Statement
  BY OpenedCompositionFrame, VerifyFrame, ProofFrame
<1>3. ProofOK'
  BY <1>1, <1>2 DEF ProofOK
<1>4. AcceptedCommitted'
  BY <1>1, <1>2 DEF AcceptedCommitted
<1> QED BY <1>3, <1>4 DEF AInv

LEMMA AcceptedStep == IInv /\ AInv /\ Next => AInv'
<1> SUFFICES ASSUME IInv, AInv, Next PROVE AInv'
  OBVIOUS
<1>1. ProofOK /\ AcceptedCommitted
  BY DEF AInv
<1>2. CASE CommitRow
  BY <1>2 DEF CommitRow, AInv, ProofOK, AcceptedCommitted
<1>3. CASE DrawQuery
  BY <1>3 DEF DrawQuery, AInv, ProofOK, AcceptedCommitted
<1>4. CASE ProveComposition
  <2>1. CASE CanFold(Cfg)
    <3>1. fri' = OpenedComposition /\ phase' = "open" /\ UNCHANGED <<job, drawn>>
      BY <1>4, <2>1 DEF ProveComposition, OpenedComposition, Composition
    <3> QED BY <2>1, <3>1, OpenedCompositionFrame DEF AInv, ProofOK, AcceptedCommitted
  <2>2. CASE ~ CanFold(Cfg)
    <3>1. phase' = "failed"
      BY <1>4, <2>2 DEF ProveComposition
    <3> QED BY <3>1 DEF AInv, ProofOK, AcceptedCommitted
  <2> QED BY <2>1, <2>2
<1>5. CASE OpenRow
  <2>1. phase = "open" /\ phase' \in {"open", "check", "failed"}
    BY <1>5 DEF OpenRow
  <2>2. UNCHANGED <<job, drawn, fri>>
    BY <1>5 DEF OpenRow
  <2> QED BY <1>1, <2>1, <2>2, OpenedCompositionFrame DEF AInv, ProofOK, AcceptedCommitted
<1>6. CASE CheckOwnProof
  <2>1. /\ phase = "check" /\ UNCHANGED <<job, acc, drawn, openings, fri>>
        /\ phase' = IF verify_proof_only(Proof, job.binding) THEN "published" ELSE "failed"
    BY <1>6 DEF CheckOwnProof
  <2> QED BY <1>1, <2>1, OpenedCompositionFrame, VerifyFrame DEF AInv, ProofOK, AcceptedCommitted
<1>7. CASE Verify
  <2>1. phase = "published" /\ UNCHANGED <<job, acc, drawn, openings, fri>>
    BY <1>7 DEF Verify
  <2>2. PICK damage \in Deliveries, given \in Bindings :
          /\ received' = [damage |-> damage, given |-> given]
          /\ phase' = IF verify_proof_only(Delivered(Proof, damage), given)
                        THEN "accepted" ELSE "refused"
    BY <1>7 DEF Verify
  <2>3. ProofOK'
    BY <1>1, <2>1, <2>2, OpenedCompositionFrame, VerifyFrame DEF ProofOK
  <2>4. phase' = "accepted" => AcceptedWhole(Delivered(Proof, damage))
    BY <1>1, <2>1, <2>2, AcceptedIsWhole
  <2>5. AcceptedCommitted'
    <3>1. Proof' = Proof /\ Statement' = Statement /\ received'.damage = damage
      BY <2>1, <2>2, ProofFrame
    <3> QED BY <2>1, <2>2, <2>4, <3>1 DEF AcceptedCommitted, AcceptedWhole
  <2> QED BY <2>3, <2>5 DEF AInv
<1>8. CASE Audit
  BY <1>8, AcceptedFrame DEF Audit
<1>9. CASE OtherRunWrites \/ OtherRunClears
  BY <1>9, AcceptedFrame DEF OtherRunWrites, OtherRunClears
<1> QED BY <1>2, <1>3, <1>4, <1>5, <1>6, <1>7, <1>8, <1>9 DEF Next, Prover

(* ------------------------ batches of a vector ------------------------- *)

\* What the verifier asks of a batch, chunk by chunk.
ChunkPasses(batch, c) ==
    /\ {batch.entries[i].leaf_pos : i \in Entries(batch, c)}
         = batch.chunk_leaf_proofs[c].leaf_positions
    /\ verify_multiproof(batch.chunk_roots[c], LeafHashes(batch, c),
                         batch.chunk_leaf_proofs[c].proof)

LEMMA BatchPasses ==
  ASSUME NEW C, NEW batch, DOMAIN batch.entries # {},
         DOMAIN batch.entries \subseteq 0..C.length - 1,
         \A i \in DOMAIN batch.entries : batch.entries[i].chunk_index < C.num_chunks,
         {batch.entries[i].chunk_index : i \in DOMAIN batch.entries} = DOMAIN batch.chunk_roots,
         \A c \in DOMAIN batch.chunk_roots : ChunkPasses(batch, c),
         verify_multiproof(C.root, batch.chunk_roots, batch.chunk_proof)
  PROVE  verify_batch(C, batch)
<1>1. \A c \in DOMAIN batch.chunk_roots :
        LET ValueOf(pos) ==
                batch.entries[CHOOSE i \in Entries(batch, c) : batch.entries[i].leaf_pos = pos].value
            p == batch.chunk_leaf_proofs[c]
        IN  /\ {batch.entries[i].leaf_pos : i \in Entries(batch, c)} = p.leaf_positions
            /\ verify_multiproof(batch.chunk_roots[c],
                  [pos \in p.leaf_positions |-> chunk_leaf_hash(p.chunk_offset, pos, ValueOf(pos))],
                  p.proof)
  BY DEF ChunkPasses, LeafHashes, ValueAt
<1> QED BY <1>1 DEF verify_batch, Entries

BatchAsks(C, batch) ==
    /\ DOMAIN batch.entries # {}
    /\ DOMAIN batch.entries \subseteq 0..C.length - 1
    /\ \A i \in DOMAIN batch.entries : batch.entries[i].chunk_index < C.num_chunks
    /\ {batch.entries[i].chunk_index : i \in DOMAIN batch.entries} = DOMAIN batch.chunk_roots
    /\ \A c \in DOMAIN batch.chunk_roots : ChunkPasses(batch, c)
    /\ verify_multiproof(C.root, batch.chunk_roots, batch.chunk_proof)

LEMMA BatchAsksAll ==
  ASSUME NEW C, NEW batch, verify_batch(C, batch)
  PROVE  BatchAsks(C, batch)
<1>1. \A c \in DOMAIN batch.chunk_roots : ChunkPasses(batch, c)
  BY DEF verify_batch, ChunkPasses, LeafHashes, ValueAt, Entries
<1> QED BY <1>1 DEF verify_batch, BatchAsks

\* The parts of a batch that the opener builds.
LeavesIn(chunks, cl, c) == LeavesOf(chunks[c + 1], c * cl)
Within(I, cl, c) == {i % cl : i \in {j \in I : j \div cl = c}}
HeldBy(I, cl) == {i \div cl : i \in I}
EntryOf(chunks, cl, i) ==
    [value |-> chunks[i \div cl + 1][(i % cl) + 1], chunk_index |-> i \div cl,
     chunk_offset |-> (i \div cl) * cl, leaf_pos |-> i % cl]
ProofIn(chunks, cl, I, c) ==
    [chunk_offset |-> c * cl, leaf_positions |-> Within(I, cl, c),
     proof |-> multiproof(build_levels(LeavesIn(chunks, cl, c)), Within(I, cl, c), 2)]

LEMMA EntryFields ==
  ASSUME NEW chunks, NEW cl, NEW i
  PROVE  /\ EntryOf(chunks, cl, i).chunk_index = i \div cl
         /\ EntryOf(chunks, cl, i).leaf_pos = i % cl
         /\ EntryOf(chunks, cl, i).value = chunks[i \div cl + 1][(i % cl) + 1]
BY DEF EntryOf

LEMMA ProofFields ==
  ASSUME NEW chunks, NEW cl, NEW I, NEW c
  PROVE  /\ ProofIn(chunks, cl, I, c).chunk_offset = c * cl
         /\ ProofIn(chunks, cl, I, c).leaf_positions = Within(I, cl, c)
         /\ ProofIn(chunks, cl, I, c).proof
              = multiproof(build_levels(LeavesIn(chunks, cl, c)), Within(I, cl, c), 2)
BY DEF ProofIn

\* A batch with an entry for each index, and indices within a chunk of m values.
EntriesOf(b, chunks, cl, I) ==
    DOMAIN b.entries = I /\ \A i \in I : b.entries[i] = EntryOf(chunks, cl, i)
Fits(I, cl, c, m) == \A j \in I : j \div cl = c => j % cl \in 0..m - 1

LEMMA BatchParts ==
  ASSUME NEW a, NEW cl, a.chunk_len = cl, NEW I, NEW chunks, NEW b, b = open_batch(a, I, chunks)
  PROVE  /\ EntriesOf(b, chunks, cl, I)
         /\ b.chunk_roots = [c \in HeldBy(I, cl) |->
                                root_from_levels(build_levels(LeavesIn(chunks, cl, c)))]
         /\ \A c \in HeldBy(I, cl) : b.chunk_leaf_proofs[c] = ProofIn(chunks, cl, I, c)
         /\ b.chunk_proof = multiproof(ChunkLevels(a), HeldBy(I, cl), CHUNK_TREE_ARITY)
<1>1. b.entries = [i \in I |-> EntryOf(chunks, cl, i)]
  BY DEF open_batch, EntryOf
<1>2. b.chunk_roots = [c \in HeldBy(I, cl) |->
                          root_from_levels(build_levels(LeavesIn(chunks, cl, c)))]
  BY DEF open_batch, HeldBy, LeavesIn
<1>3. b.chunk_leaf_proofs = [c \in HeldBy(I, cl) |-> ProofIn(chunks, cl, I, c)]
  BY DEF open_batch, HeldBy, LeavesIn, ProofIn, Within
<1>4. b.chunk_proof = multiproof(ChunkLevels(a), HeldBy(I, cl), CHUNK_TREE_ARITY)
  BY DEF open_batch, HeldBy
<1> QED BY <1>1, <1>2, <1>3, <1>4 DEF EntriesOf

\* The leaves that the verifier puts together from the entries are those of
\* the chunk.
AsInChunk(b, chunks, cl, I, c) ==
    /\ LeafHashes(b, c) = Part(LeavesIn(chunks, cl, c), Within(I, cl, c))
    /\ {b.entries[i].leaf_pos : i \in Entries(b, c)} = Within(I, cl, c)

LEMMA BatchHashes ==
  ASSUME NEW I, I \subseteq Nat, NEW cl \in Nat \ {0}, NEW chunks, NEW b, NEW c \in Nat,
         EntriesOf(b, chunks, cl, I),
         b.chunk_leaf_proofs[c] = ProofIn(chunks, cl, I, c),
         Fits(I, cl, c, Len(chunks[c + 1]))
  PROVE  AsInChunk(b, chunks, cl, I, c)
<1> DEFINE S == Within(I, cl, c)
           Mine == {j \in I : j \div cl = c}
<1>1. \A i \in I : /\ b.entries[i].chunk_index = i \div cl /\ b.entries[i].leaf_pos = i % cl
                   /\ b.entries[i].value = chunks[i \div cl + 1][(i % cl) + 1]
  BY EntryFields DEF EntriesOf
<1>2. Entries(b, c) = Mine
  BY <1>1 DEF Entries, EntriesOf
<1>3. S = {i % cl : i \in Mine}
  BY DEF Within
<1>4. {b.entries[i].leaf_pos : i \in Entries(b, c)} = S
  <2> HIDE DEF S
  <2>1. \A i \in Mine : b.entries[i].leaf_pos = i % cl
    BY <1>1
  <2> HIDE DEF Mine
  <2>2. {b.entries[i].leaf_pos : i \in Mine} = {i % cl : i \in Mine}
    BY <2>1
  <2> QED BY <1>2, <1>3, <2>2
<1>5. ASSUME NEW pos \in S PROVE ValueAt(b, c, pos) = chunks[c + 1][pos + 1]
  <2>1. PICK i \in Mine : i % cl = pos
    BY <1>3
  <2> DEFINE k == CHOOSE j \in Mine : b.entries[j].leaf_pos = pos
  <2>2. k \in Mine /\ b.entries[k].leaf_pos = pos
    BY <1>1, <2>1
  <2>3. ValueAt(b, c, pos) = b.entries[k].value
    BY <1>2 DEF ValueAt
  <2> HIDE DEF k
  <2>4. k \in I /\ k \div cl = c /\ k % cl = pos
    BY <1>1, <2>2
  <2> QED BY <1>1, <2>3, <2>4
<1>6. ASSUME NEW pos \in S
      PROVE  LeavesIn(chunks, cl, c)[pos] = chunk_leaf_hash(c * cl, pos, chunks[c + 1][pos + 1])
  <2>1. pos \in 0..Len(chunks[c + 1]) - 1
    BY <1>3 DEF Fits
  <2> QED BY <2>1 DEF LeavesIn, LeavesOf
<1>7. LeafHashes(b, c) = [pos \in S |-> chunk_leaf_hash(c * cl, pos, ValueAt(b, c, pos))]
  BY ProofFields DEF LeafHashes
<1> HIDE DEF S
<1>8. LeafHashes(b, c) = [pos \in S |-> LeavesIn(chunks, cl, c)[pos]]
  BY <1>5, <1>6, <1>7
<1> QED BY <1>4, <1>8 DEF Part, S, AsInChunk

\* The chunks of a vector are the leaves of the tree over their roots.
LEMMA VectorChunkRoots ==
  ASSUME NEW n \in Nat \ {0}, NEW cl \in Nat \ {0}, NEW values \in Vectors(n)
  PROVE  LET a == Accumulate(values, cl)
             roots == [c \in 0..Len(a.chunks) - 1 |-> a.chunks[c + 1].root]
         IN  /\ Len(a.chunks) = CeilDiv(n, cl)
             /\ Level(roots, CeilDiv(n, cl))
             /\ \A c \in 0..CeilDiv(n, cl) - 1 :
                   roots[c] = root_from_levels(build_levels(LeavesIn(ChunksOf(values, cl), cl, c)))
<1> DEFINE a == Accumulate(values, cl)
           chunks == ChunksOf(values, cl)
           N == CeilDiv(n, cl)
           roots == [c \in 0..Len(a.chunks) - 1 |-> a.chunks[c + 1].root]
<1>1. Holding(a, N)
  BY AccumulateShape
<1>2. \A c \in 1..N : a.chunks[c].root = merkle_from_values(chunks[c], (c - 1) * cl)
  BY AccumulateShape
<1>3. N \in Nat \ {0}
  BY ChunkCount
<1> HIDE DEF a, chunks, N
<1>4. Len(a.chunks) = N
  BY <1>1, <1>3 DEF Holding, Numbered
<1>5. roots = [c \in 0..N - 1 |-> a.chunks[c + 1].root]
  BY <1>4
<1>6. Level(roots, N)
  BY <1>5 DEF Level
<1>7. ASSUME NEW c \in 0..N - 1
      PROVE  roots[c] = root_from_levels(build_levels(LeavesIn(chunks, cl, c)))
  <2>1. c + 1 \in 1..N /\ (c + 1) - 1 = c
    BY <1>3
  <2>2. roots[c] = a.chunks[c + 1].root
    BY <1>5
  <2>3. a.chunks[c + 1].root = merkle_from_values(chunks[c + 1], c * cl)
    BY <1>2, <2>1
  <2> QED BY <2>2, <2>3 DEF merkle_from_values, LeavesIn
<1> HIDE DEF roots
<1>8. /\ Len(a.chunks) = N /\ Level(roots, N)
      /\ \A c \in 0..N - 1 : roots[c] = root_from_levels(build_levels(LeavesIn(chunks, cl, c)))
  BY <1>4, <1>6, <1>7
<1> QED BY <1>8 DEF roots, a, chunks, N

\* Values of a vector open together, unless one of their chunks is alone in a
\* group of the tree over the chunks.
THEOREM BatchOpens ==
  ASSUME NEW n \in Nat \ {0}, NEW cl \in Nat \ {0}, NEW values \in Vectors(n),
         NEW I, I # {}, I \subseteq 0..n - 1,
         \A i \in I : ~ Alone(i \div cl, CeilDiv(n, cl))
  PROVE  verify_batch(stc_build_pc_commitment(Accumulate(values, cl)),
                      open_batch(Accumulate(values, cl), I, ChunksOf(values, cl)))
<1> DEFINE a == Accumulate(values, cl)
           chunks == ChunksOf(values, cl)
           N == CeilDiv(n, cl)
           C == stc_build_pc_commitment(a)
           b == open_batch(a, I, chunks)
           S == HeldBy(I, cl)
           roots == [c \in 0..Len(a.chunks) - 1 |-> a.chunks[c + 1].root]
           Leaves(c) == LeavesIn(chunks, cl, c)
<1>1. a.chunk_len = cl /\ a.length = n
  BY AccumulateShape
<1>2. Len(a.chunks) = N /\ Level(roots, N)
  BY VectorChunkRoots
<1>3. \A c \in 0..N - 1 : roots[c] = root_from_levels(build_levels(LeavesIn(chunks, cl, c)))
  BY VectorChunkRoots
<1>4. N \in Nat \ {0} /\ \A i \in 0..n - 1 : i \div cl \in 0..N - 1
  BY ChunkCount
<1>5. \A h \in 1..N : /\ ChunkSize(h, cl, n) \in 1..cl
                      /\ chunks[h] \in Vectors(ChunkSize(h, cl, n))
  BY ChunkShape
<1>6. \A i \in 0..n - 1 : i % cl \in 0..ChunkSize(i \div cl + 1, cl, n) - 1
  BY ChunkPlace
<1>7. C.length = n /\ C.num_chunks = N /\ C.root = root_from_levels(ChunkLevels(a))
  BY <1>1, <1>2 DEF stc_build_pc_commitment
<1>8. /\ EntriesOf(b, chunks, cl, I)
      /\ b.chunk_roots = [c \in S |-> root_from_levels(build_levels(LeavesIn(chunks, cl, c)))]
      /\ \A c \in S : b.chunk_leaf_proofs[c] = ProofIn(chunks, cl, I, c)
      /\ b.chunk_proof = multiproof(ChunkLevels(a), S, CHUNK_TREE_ARITY)
  <2> HIDE DEF a, chunks
  <2> QED BY <1>1, BatchParts
<1>9. ChunkLevels(a) = build_kary_levels(roots, CHUNK_TREE_ARITY)
  BY DEF ChunkLevels
<1>10. \A i \in I : ~ Alone(i \div cl, N)
  OBVIOUS
<1> HIDE DEF a, chunks, N, C, b, roots
<1>11. S # {} /\ S \subseteq 0..N - 1 /\ \A c \in S : ~ Alone(c, N)
  <2>1. \A i \in I : i \div cl \in 0..N - 1
    BY <1>4
  <2> QED BY <1>10, <2>1 DEF HeldBy
<1> HIDE DEF S
<1>12. verify_multiproof(C.root, b.chunk_roots, b.chunk_proof)
  <2>1. b.chunk_roots = Part(roots, S)
    BY <1>3, <1>8, <1>11 DEF Part
  <2>2. verify_multiproof(root_from_levels(build_kary_levels(roots, CHUNK_TREE_ARITY)),
                          Part(roots, S),
                          multiproof(build_kary_levels(roots, CHUNK_TREE_ARITY), S,
                                     CHUNK_TREE_ARITY))
    BY <1>2, <1>4, <1>11, KaryMultiproofVerifies
  <2> QED BY <1>7, <1>8, <1>9, <2>1, <2>2
<1>0. DOMAIN b.entries = I /\ \A i \in I : b.entries[i].chunk_index = i \div cl
  BY <1>8, EntryFields DEF EntriesOf
<1>13. {b.entries[i].chunk_index : i \in DOMAIN b.entries} = DOMAIN b.chunk_roots
  <2>1. {b.entries[i].chunk_index : i \in I} = {i \div cl : i \in I}
    BY <1>0
  <2> QED BY <1>0, <1>8, <2>1 DEF S, HeldBy
<1>14. ASSUME NEW c \in S PROVE ChunkPasses(b, c)
  <2> DEFINE m == ChunkSize(c + 1, cl, n)
             W == Within(I, cl, c)
  <2>1. c \in Nat /\ c + 1 \in 1..N /\ m \in Nat \ {0} /\ chunks[c + 1] \in Vectors(m)
    <3>1. c \in 0..N - 1
      BY <1>11
    <3>2. c \in Nat /\ c + 1 \in 1..N
      BY <1>4, <3>1
    <3>3. m \in 1..cl /\ chunks[c + 1] \in Vectors(m)
      BY <1>5, <3>2
    <3> HIDE DEF m
    <3> QED BY <3>2, <3>3
  <2>2. \A j \in I : j \div cl = c => j % cl \in 0..m - 1
    <3> TAKE j \in I
    <3>1. j \in 0..n - 1
      OBVIOUS
    <3>2. j % cl \in 0..ChunkSize(j \div cl + 1, cl, n) - 1
      BY <1>6, <3>1
    <3> QED BY <3>2
  <2> HIDE DEF m
  <2>3. Len(chunks[c + 1]) = m
    BY <2>1, FunctionIsSeq DEF Vectors
  <2>4. Level(Leaves(c), m)
    BY <2>1, <2>3 DEF LeavesIn, LeavesOf, Level
  <2>5. /\ LeafHashes(b, c) = Part(Leaves(c), W)
        /\ {b.entries[i].leaf_pos : i \in Entries(b, c)} = W
    <3>1. I \subseteq Nat
      OBVIOUS
    <3>2. Fits(I, cl, c, Len(chunks[c + 1]))
      BY <2>2, <2>3 DEF Fits
    <3>3. b.chunk_leaf_proofs[c] = ProofIn(chunks, cl, I, c)
      BY <1>8
    <3>4. AsInChunk(b, chunks, cl, I, c)
      BY <1>8, <2>1, <3>1, <3>2, <3>3, BatchHashes
    <3> QED BY <3>4 DEF AsInChunk
  <2>6. W # {} /\ W \subseteq 0..m - 1
    <3>1. PICK i \in I : i \div cl = c
      BY DEF S, HeldBy
    <3> QED BY <2>2, <3>1 DEF Within
  <2> HIDE DEF W
  <2>7. verify_multiproof(root_from_levels(build_levels(Leaves(c))), Part(Leaves(c), W),
                          multiproof(build_levels(Leaves(c)), W, 2))
    <3> HIDE DEF Leaves
    <3> QED BY <2>1, <2>4, <2>6, PairMultiproofVerifies
  <2>8. /\ b.chunk_leaf_proofs[c].leaf_positions = W
        /\ b.chunk_leaf_proofs[c].proof = multiproof(build_levels(Leaves(c)), W, 2)
        /\ b.chunk_roots[c] = root_from_levels(build_levels(Leaves(c)))
    <3>1. b.chunk_leaf_proofs[c] = ProofIn(chunks, cl, I, c)
      BY <1>8
    <3>2. /\ ProofIn(chunks, cl, I, c).leaf_positions = Within(I, cl, c)
          /\ ProofIn(chunks, cl, I, c).proof
               = multiproof(build_levels(LeavesIn(chunks, cl, c)), Within(I, cl, c), 2)
      BY ProofFields
    <3>3. b.chunk_roots[c] = root_from_levels(build_levels(LeavesIn(chunks, cl, c)))
      BY <1>8
    <3> QED BY <3>1, <3>2, <3>3 DEF W
  <2> QED BY <2>5, <2>7, <2>8 DEF ChunkPasses
<1>15. verify_batch(C, b)
  <2>1. /\ DOMAIN b.entries # {} /\ DOMAIN b.entries \subseteq 0..C.length - 1
        /\ DOMAIN b.chunk_roots = S
    BY <1>0, <1>7, <1>8
  <2>2. \A i \in DOMAIN b.entries : b.entries[i].chunk_index < C.num_chunks
    <3> TAKE i \in DOMAIN b.entries
    <3>1. i \in I /\ b.entries[i].chunk_index = i \div cl
      BY <1>0
    <3>2. i \div cl \in 0..N - 1
      BY <1>4, <3>1
    <3> QED BY <1>4, <1>7, <3>1, <3>2
  <2> QED BY <1>12, <1>13, <1>14, <2>1, <2>2, BatchPasses
<1> QED BY <1>15 DEF C, b, a, chunks

(* --------------------- the composition is opened ---------------------- *)

\* What the verifier asks of a query.
LayerValue(proof, layer, i) == proof.batches[layer].entries[i].value % Modulus
LayerOpens(proof, layer, i) == i \in DOMAIN proof.batches[layer].entries
QueryPasses(cfg, proof, q, expected) ==
    /\ \A r \in 1..cfg.num_rounds :
          /\ LayerOpens(proof, r, 2 * Halved(q, cfg.num_rounds)[r])
          /\ LayerOpens(proof, r, 2 * Halved(q, cfg.num_rounds)[r] + 1)
    /\ LayerValue(proof, 1, q) = expected % Modulus
    /\ LayerOpens(proof, cfg.num_rounds + 1, Halved(q, cfg.num_rounds)[cfg.num_rounds])
    /\ LayerValue(proof, cfg.num_rounds + 1, Halved(q, cfg.num_rounds)[cfg.num_rounds])
         = (LayerValue(proof, cfg.num_rounds, 2 * Halved(q, cfg.num_rounds)[cfg.num_rounds])
              + Beta(cfg.num_rounds - 1)
                  * LayerValue(proof, cfg.num_rounds,
                               2 * Halved(q, cfg.num_rounds)[cfg.num_rounds] + 1)) % Modulus

LEMMA PcPasses ==
  ASSUME NEW cfg, NEW base, NEW proof, NEW Q, NEW expected,
         Len(proof.layers) = cfg.num_rounds + 1, proof.layers[1].root = base.root,
         Len(proof.batches) = Len(proof.layers),
         \A r \in DOMAIN proof.layers : verify_batch(proof.layers[r], proof.batches[r]),
         \A q \in Q : QueryPasses(cfg, proof, q, expected[q])
  PROVE  pc_verify(cfg, base, proof, Q, expected)
BY Zenon DEF pc_verify, QueryPasses, LayerValue, LayerOpens

\* A value of a layer as it is opened.
LEMMA OpenedValue ==
  ASSUME job \in Jobs, drawn \subseteq Domain, CanFold(Cfg), NEW r \in 1..Cfg.num_rounds + 1
  PROVE  /\ \A i : LayerOpens(OpenedComposition, r, i) <=> i \in Needed(Cfg, r, drawn)
         /\ \A i \in Needed(Cfg, r, drawn) :
               LayerValue(OpenedComposition, r, i) = Layers[r][i + 1]
<1> DEFINE n == Halved(Cfg.domain_size, Cfg.num_rounds)[r - 1]
           values == Layers[r]
           I == Needed(Cfg, r, drawn)
           a == Accumulate(values, ChunkLen)
           chunks == ChunksOf(values, ChunkLen)
           b == OpenedComposition.batches[r]
           cl == ChunkLen
<1>1. /\ n \in Nat \ {0} /\ values \in Vectors(n) /\ I \subseteq 0..n - 1
      /\ b = open_batch(a, I, chunks)
  BY OpenedLayer
<1>2. cl \in Nat \ {0}
  BY CompositionType
<1> HIDE DEF n, values, I, b, cl
<1>3. a.chunk_len = cl
  BY <1>1, <1>2, AccumulateShape DEF cl
<1> HIDE DEF a
<1>4. EntriesOf(b, chunks, cl, I)
  BY <1>1, <1>3, BatchParts
<1>5. ASSUME NEW i \in I PROVE b.entries[i].value % Modulus = values[i + 1]
  <2>1. i \in 0..n - 1 /\ i + 1 \in 1..n
    BY <1>1
  <2>2. chunks[i \div cl + 1][(i % cl) + 1] = values[i + 1]
    <3>1. InChunk(ChunksOf(values, ChunkLen), ChunkLen, values, i)
      BY <1>1, <1>2, <2>1, ChunkPlace DEF cl
    <3> QED BY <3>1 DEF InChunk, chunks, cl
  <2>3. b.entries[i].value = chunks[i \div cl + 1][(i % cl) + 1]
    BY <1>4, EntryFields DEF EntriesOf
  <2>4. values[i + 1] % Modulus = values[i + 1]
    BY <1>1, <2>1, FieldType DEF Vectors
  <2> QED BY <2>2, <2>3, <2>4
<1>6. DOMAIN b.entries = I
  BY <1>4 DEF EntriesOf
<1> QED BY <1>5, <1>6 DEF LayerOpens, LayerValue, I, b, values

\* As many layers and batches as rounds and one more.
LEMMA LayersCounted ==
  ASSUME job \in Jobs, drawn \subseteq Domain, CanFold(Cfg)
  PROVE  /\ Len(OpenedComposition.layers) = Cfg.num_rounds + 1
         /\ Len(OpenedComposition.batches) = Cfg.num_rounds + 1
<1> DEFINE rounds == Cfg.num_rounds
           One(k) == stc_build_pc_commitment([j \in DOMAIN Layers |-> Accumulate(Layers[j], ChunkLen)][k])
           Other_(k) == open_batch([j \in DOMAIN Layers |-> Accumulate(Layers[j], ChunkLen)][k],
                                   Needed(Cfg, k, drawn), ChunksOf(Layers[k], ChunkLen))
<1>1. rounds \in Nat
  BY CompositionType
<1>2. DOMAIN Layers = 1..rounds + 1
  BY <1>1, CodewordsUnfold DEF Layers
<1>3. /\ OpenedComposition.layers = [k \in DOMAIN Layers |-> One(k)]
      /\ OpenedComposition.batches = [k \in DOMAIN Layers |-> Other_(k)]
  <2>1. OpenedComposition = [layers |-> [k \in DOMAIN Layers |-> One(k)],
                             batches |-> [k \in DOMAIN Layers |-> Other_(k)]]
    BY DEF OpenedComposition, pc_open, Layers
  <2> HIDE DEF One, Other_
  <2> QED BY <2>1
<1> HIDE DEF One, Other_, rounds
<1>4. /\ OpenedComposition.layers = [k \in 1..rounds + 1 |-> One(k)]
      /\ OpenedComposition.batches = [k \in 1..rounds + 1 |-> Other_(k)]
  BY <1>2, <1>3
<1> QED BY <1>1, <1>4 DEF rounds

\* A trace of more than one step is folded at least once.
LEMMA RoundsPositive ==
  ASSUME job \in Jobs
  PROVE  Cfg.num_rounds # 0
<1> DEFINE steps == job.steps
           D == Doubled(steps)
<1>1. /\ Cfg.domain_size = next_power_of_two(steps)
      /\ Cfg.num_rounds = Least(RoundLimit, IF Cfg.domain_size = 1 THEN 1 ELSE Doublings(steps))
  BY DEF Cfg, Prepared, _prepare_trace_state, _build_fri_cfg
<1>2. steps \in Nat \ {0} /\ RoundLimit \in Nat \ {0}
  BY ProofAssumption
<1> HIDE DEF steps
<1>3. Doublings(steps) \in 0..steps /\ D[0] = 1
  BY <1>2, DomainSizeType, DoubledUnfold
<1>4. CASE Cfg.domain_size = 1
  BY <1>1, <1>2, <1>4 DEF Least
<1>5. CASE Cfg.domain_size # 1
  <2>1. Doublings(steps) # 0
    BY <1>1, <1>3, <1>5 DEF next_power_of_two
  <2> HIDE DEF D
  <2> QED BY <1>1, <1>2, <1>3, <1>5, <2>1 DEF Least
<1> QED BY <1>4, <1>5

\* A value after a fold, from the two that are folded.
LEMMA FoldedValue ==
  ASSUME NEW m \in Nat, NEW values \in Vectors(2 * m), NEW b, NEW i \in 0..m - 1
  PROVE  fold_codeword(values, b)[i + 1]
           = (values[2 * i + 1] + b * values[2 * i + 1 + 1]) % Modulus
<1>1. Len(values) = 2 * m
  BY FunctionIsSeq DEF Vectors
<1>2. (2 * m) \div 2 = m /\ i + 1 \in 1..m
  OBVIOUS
<1>3. 2 * (i + 1) - 1 = 2 * i + 1 /\ 2 * (i + 1) = 2 * i + 1 + 1
  OBVIOUS
<1>4. fold_codeword(values, b)[i + 1]
        = (values[2 * (i + 1) - 1] + b * values[2 * (i + 1)]) % Modulus
  BY <1>1, <1>2 DEF fold_codeword
<1> QED BY <1>3, <1>4

\* Each layer is the one before it, folded.
LEMMA CodewordFolds ==
  ASSUME NEW cfg, NEW rounds \in Nat, cfg.num_rounds = rounds, NEW base, NEW r \in 1..rounds
  PROVE  Codewords(cfg, base)[r + 1] = fold_codeword(Codewords(cfg, base)[r], Beta(r - 1))
<1> DEFINE words == Codewords(cfg, base)
<1>1. /\ DOMAIN words = 1..rounds + 1
      /\ words[1] = [i \in DOMAIN base |-> base[i] % Modulus]
      /\ \A k \in 1..rounds : words[k + 1] = fold_codeword(words[k], Beta(k - 1))
  BY CodewordsUnfold
<1> HIDE DEF words
<1>2. words[r + 1] = fold_codeword(words[r], Beta(r - 1))
  BY <1>1
<1> QED BY <1>2 DEF words

LEMMA LayersFold ==
  ASSUME job \in Jobs, NEW r \in 1..Cfg.num_rounds
  PROVE  Layers[r + 1] = fold_codeword(Layers[r], Beta(r - 1))
<1>1. Cfg.num_rounds \in Nat
  BY CompositionType
<1> QED BY <1>1, CodewordFolds DEF Layers

\* The positions opened in the last layer.
LEMMA NeededLast ==
  ASSUME NEW cfg, NEW rounds \in Nat, cfg.num_rounds = rounds, NEW Q
  PROVE  Needed(cfg, rounds + 1, Q) = {Halved(x, rounds)[rounds] : x \in Q}
<1>1. Needed(cfg, rounds + 1, Q) = {Halved(x, rounds)[rounds + 1 - 1] : x \in Q}
  BY DEF Needed
<1>2. rounds + 1 - 1 = rounds
  OBVIOUS
<1> QED BY <1>1, <1>2

\* The positions opened for a query.
LEMMA NeededFor ==
  ASSUME job \in Jobs, drawn \subseteq Domain, CanFold(Cfg), NEW q \in drawn
  PROVE  /\ \A r \in 1..Cfg.num_rounds :
               /\ 2 * Halved(q, Cfg.num_rounds)[r] \in Needed(Cfg, r, drawn)
               /\ 2 * Halved(q, Cfg.num_rounds)[r] + 1 \in Needed(Cfg, r, drawn)
         /\ Halved(q, Cfg.num_rounds)[Cfg.num_rounds] \in Needed(Cfg, Cfg.num_rounds + 1, drawn)
         /\ q \in Needed(Cfg, 1, drawn)
<1> DEFINE rounds == Cfg.num_rounds
           h == Halved(q, rounds)
<1>1. rounds \in Nat /\ Cfg.domain_size \in Nat \ {0} /\ rounds # 0 /\ CanFold(Cfg)
  BY CompositionType, RoundsPositive
<1>2. q \in 0..Cfg.domain_size - 1 /\ q \in Nat
  BY DEF Domain
<1>3. h[0] = q /\ \A r \in 1..rounds : h[r] = h[r - 1] \div 2
  BY <1>1, <1>2, QueryPlaces
<1>4. ASSUME NEW r \in 1..rounds
      PROVE  2 * h[r] \in Needed(Cfg, r, drawn) /\ 2 * h[r] + 1 \in Needed(Cfg, r, drawn)
  <2>1. r # rounds + 1
    BY <1>1
  <2>2. Needed(Cfg, r, drawn)
          = UNION {{2 * Halved(x, rounds)[r], 2 * Halved(x, rounds)[r] + 1} : x \in drawn}
    BY <2>1 DEF Needed
  <2> HIDE DEF rounds
  <2> QED BY <2>2
<1>5. h[rounds] \in Needed(Cfg, rounds + 1, drawn)
  <2>3. Needed(Cfg, rounds + 1, drawn) = {Halved(x, rounds)[rounds] : x \in drawn}
    BY <1>1, NeededLast
  <2> HIDE DEF rounds
  <2> QED BY <2>3
<1>6. q \in Needed(Cfg, 1, drawn)
  <2>1. 1 \in 1..rounds /\ h[1] = q \div 2
    <3> HIDE DEF rounds, h
    <3>1. 1 \in 1..rounds /\ 1 - 1 = 0
      BY <1>1
    <3> QED BY <1>3, <3>1
  <2>2. q = 2 * (q \div 2) \/ q = 2 * (q \div 2) + 1
    BY <1>2
  <2> HIDE DEF h, rounds
  <2> QED BY <1>4, <2>1, <2>2
<1> QED BY <1>4, <1>5, <1>6

\* The proof of the composition passes for each query, when the verifier
\* expects the value that was composed there.
LEMMA QueryVerifies ==
  ASSUME job \in Jobs, drawn \subseteq Domain, CanFold(Cfg), NEW q \in drawn, NEW expected,
         expected % Modulus = Composition[q + 1]
  PROVE  QueryPasses(Cfg, OpenedComposition, q, expected)
<1> DEFINE rounds == Cfg.num_rounds
           d == Cfg.domain_size
           h == Halved(q, rounds)
           end == h[rounds]
           m == Halved(d, rounds)[rounds]
           p == OpenedComposition
<1>1. rounds \in Nat \ {0} /\ rounds \in 0..RoundLimit /\ d \in Nat \ {0}
      /\ Composition \in Vectors(d) /\ CanFold(Cfg) /\ Cfg.domain_size = d
  BY CompositionType, RoundsPositive
<1>2. q \in 0..d - 1
  BY DEF Domain
<1>3. h[0] = q /\ \A r \in 0..rounds : h[r] \in 0..Halved(d, rounds)[r] - 1
  BY <1>1, <1>2, QueryPlaces
<1>4. /\ \A r \in 1..rounds : 2 * h[r] \in Needed(Cfg, r, drawn) /\ 2 * h[r] + 1 \in Needed(Cfg, r, drawn)
      /\ end \in Needed(Cfg, rounds + 1, drawn) /\ q \in Needed(Cfg, 1, drawn)
  BY NeededFor
<1>5. /\ \A r \in 1..rounds : Layers[r + 1] = fold_codeword(Layers[r], Beta(r - 1))
      /\ Layers[1] = Composition
      /\ \A r \in 1..rounds + 1 : Layers[r] \in Vectors(Halved(d, rounds)[r - 1])
  <2>1. \A r \in 1..rounds : Layers[r + 1] = fold_codeword(Layers[r], Beta(r - 1))
    BY LayersFold
  <2>2. Layers[1] = Composition
    BY <1>1, CodewordsType DEF Layers
  <2>3. \A r \in 1..rounds + 1 : Layers[r] \in Vectors(Halved(d, rounds)[r - 1])
    BY <1>1, CodewordsType DEF Layers
  <2> QED BY <2>1, <2>2, <2>3
<1>6. m \in Nat \ {0} /\ Halved(d, rounds)[rounds - 1] = 2 * m
  <2>1. /\ \A r \in 0..rounds : Halved(d, rounds)[r] \in Nat \ {0}
        /\ \A r \in 1..rounds : Halved(d, rounds)[r - 1] = 2 * Halved(d, rounds)[r]
    BY <1>1, LayerSizes
  <2>2. rounds \in 0..rounds /\ rounds \in 1..rounds
    BY <1>1
  <2> QED BY <2>1, <2>2
<1>7. ASSUME NEW r \in 1..rounds + 1, NEW i \in Needed(Cfg, r, drawn)
      PROVE  LayerOpens(p, r, i) /\ LayerValue(p, r, i) = Layers[r][i + 1]
  <2>1. /\ \A k : LayerOpens(p, r, k) <=> k \in Needed(Cfg, r, drawn)
        /\ \A k \in Needed(Cfg, r, drawn) : LayerValue(p, r, k) = Layers[r][k + 1]
    BY OpenedValue
  <2> QED BY <2>1
<1> HIDE DEF p, d, rounds, h, m, end
<1>8. 1 \in 1..rounds + 1 /\ rounds + 1 \in 1..rounds + 1 /\ rounds \in 1..rounds + 1 /\ rounds \in 1..rounds
      /\ rounds \in 0..rounds /\ \A r \in 1..rounds : r \in 1..rounds + 1
  BY <1>1
<1>9. \A r \in 1..rounds : LayerOpens(p, r, 2 * h[r]) /\ LayerOpens(p, r, 2 * h[r] + 1)
  BY <1>4, <1>7, <1>8
<1>10. LayerOpens(p, rounds + 1, end)
  BY <1>4, <1>7, <1>8
<1>11. LayerValue(p, 1, q) = expected % Modulus
  BY <1>4, <1>5, <1>7, <1>8
<1>12. LayerValue(p, rounds + 1, end)
         = (LayerValue(p, rounds, 2 * end) + Beta(rounds - 1) * LayerValue(p, rounds, 2 * end + 1))
              % Modulus
  <2>1. end \in 0..m - 1
    BY <1>3, <1>8 DEF end, m
  <2>2. Layers[rounds] \in Vectors(2 * m)
    BY <1>5, <1>6, <1>8
  <2>3. Layers[rounds + 1][end + 1]
          = (Layers[rounds][2 * end + 1] + Beta(rounds - 1) * Layers[rounds][2 * end + 1 + 1]) % Modulus
    <3>1. Layers[rounds + 1] = fold_codeword(Layers[rounds], Beta(rounds - 1))
      BY <1>5, <1>8
    <3>2. fold_codeword(Layers[rounds], Beta(rounds - 1))[end + 1]
            = (Layers[rounds][2 * end + 1] + Beta(rounds - 1) * Layers[rounds][2 * end + 1 + 1]) % Modulus
      BY <1>6, <2>1, <2>2, FoldedValue
    <3> QED BY <3>1, <3>2
  <2>4. /\ LayerValue(p, rounds + 1, end) = Layers[rounds + 1][end + 1]
        /\ LayerValue(p, rounds, 2 * end) = Layers[rounds][2 * end + 1]
        /\ LayerValue(p, rounds, 2 * end + 1) = Layers[rounds][2 * end + 1 + 1]
    BY <1>4, <1>7, <1>8 DEF end
  <2> QED BY <2>3, <2>4
<1> QED BY <1>9, <1>10, <1>11, <1>12 DEF QueryPasses, p, rounds, h, end

\* The chunks that the rounds open.
LEMMA NotAlone ==
  ASSUME NEW cfg, NEW Q, NEW length,
         ~ \E r \in 1..cfg.num_rounds + 1 :
              AloneIn(Needed(cfg, r, Q), length[r - 1]),
         NEW r \in 1..cfg.num_rounds + 1, NEW i \in Needed(cfg, r, Q)
  PROVE  ~ Alone(i \div ChunkLen, CeilDiv(length[r - 1], ChunkLen))
BY DEF AloneIn

\* Every layer of the composition opens where the queries pass through.
LEMMA LayerVerifies ==
  ASSUME job \in Jobs, drawn \subseteq Domain, drawn # {}, CanFold(Cfg), ~ OpensAlone,
         NEW r \in 1..Cfg.num_rounds + 1
  PROVE  verify_batch(OpenedComposition.layers[r], OpenedComposition.batches[r])
<1> DEFINE rounds == Cfg.num_rounds
           length == Halved(Cfg.domain_size, rounds)
           I == Needed(Cfg, r, drawn)
           n == length[r - 1]
           cl == ChunkLen
           values == Layers[r]
<1>1. /\ OpenedComposition.batches[r] = open_batch(Accumulate(values, cl), I, ChunksOf(values, cl))
      /\ OpenedComposition.layers[r] = stc_build_pc_commitment(Accumulate(values, cl))
      /\ n \in Nat \ {0} /\ values \in Vectors(n) /\ I \subseteq 0..n - 1
  BY OpenedLayer
<1>2. cl \in Nat \ {0} /\ rounds \in Nat
  BY CompositionType
<1>3. I # {}
  <2>1. PICK q \in drawn : TRUE
    OBVIOUS
  <2>2. /\ \A t \in 1..rounds : 2 * Halved(q, rounds)[t] \in Needed(Cfg, t, drawn)
        /\ Halved(q, rounds)[rounds] \in Needed(Cfg, rounds + 1, drawn)
    BY NeededFor
  <2>3. r \in 1..rounds \/ r = rounds + 1
    <3>1. r \in 1..rounds + 1
      OBVIOUS
    <3> HIDE DEF rounds
    <3> QED BY <1>2, <3>1
  <2> HIDE DEF rounds
  <2> QED BY <2>2, <2>3
<1>4. \A i \in I : ~ Alone(i \div cl, CeilDiv(n, cl))
  <2>1. ~ \E t \in 1..rounds + 1 : AloneIn(Needed(Cfg, t, drawn), length[t - 1])
    BY DEF OpensAlone
  <2>2. SUFFICES ASSUME NEW i \in I PROVE ~ Alone(i \div cl, CeilDiv(n, cl))
    OBVIOUS
  <2> HIDE DEF length
  <2> QED BY <2>1, NotAlone
<1> HIDE DEF I, n, cl, values
<1> QED BY <1>1, <1>2, <1>3, <1>4, BatchOpens

\* The proof of the composition verifies, when at each query the verifier
\* expects the value that was composed there.
LEMMA CompositionVerifies ==
  ASSUME job \in Jobs, drawn \subseteq Domain, drawn # {}, CanFold(Cfg), ~ OpensAlone,
         NEW expected, \A q \in drawn : expected[q] % Modulus = Composition[q + 1]
  PROVE  pc_verify(Cfg, pc_commit(Composition, ChunkLen), OpenedComposition, drawn, expected)
<1> DEFINE p == OpenedComposition
           rounds == Cfg.num_rounds
           base == pc_commit(Composition, ChunkLen)
           cfg == Cfg
<1>1. rounds \in Nat /\ Composition \in Vectors(Cfg.domain_size) /\ 1 \in 1..rounds + 1
  BY CompositionType
<1>2. Len(p.layers) = rounds + 1 /\ Len(p.batches) = rounds + 1
  BY LayersCounted
<1>3. 1 \in 1..Cfg.num_rounds + 1
  BY <1>1
<1>4. DOMAIN p.layers = 1..rounds + 1 /\ p.layers[1] = stc_build_pc_commitment(Accumulate(Layers[1], ChunkLen))
  BY <1>3, OpenedLayer
<1>5. base = stc_build_pc_commitment(Accumulate(Composition, ChunkLen))
  <2>1. [i \in DOMAIN Composition |-> Composition[i] % Modulus] = Composition
    BY <1>1, FieldType DEF Vectors
  <2> QED BY <2>1 DEF pc_commit
<1>6. Layers[1] = Composition
  <2>1. /\ cfg.domain_size \in Nat \ {0} /\ cfg.num_rounds \in 0..RoundLimit
        /\ Composition \in Vectors(cfg.domain_size) /\ CanFold(cfg)
    BY CompositionType
  <2> HIDE DEF cfg
  <2>2. Codewords(cfg, Composition)[1] = Composition
    BY <2>1, CodewordsType
  <2> QED BY <2>2 DEF Layers, cfg
<1>7. \A r \in DOMAIN p.layers : verify_batch(p.layers[r], p.batches[r])
  BY <1>4, LayerVerifies
<1>8. \A q \in drawn : QueryPasses(Cfg, p, q, expected[q])
  BY QueryVerifies
<1>9. p.layers[1].root = base.root
  BY <1>4, <1>5, <1>6
<1> HIDE DEF p, base
<1>10. Len(p.layers) = Cfg.num_rounds + 1 /\ Len(p.batches) = Len(p.layers)
  BY <1>2
<1>11. pc_verify(Cfg, base, p, drawn, expected)
  BY <1>7, <1>8, <1>9, <1>10, PcPasses
<1> QED BY <1>11 DEF p, base

(* --------------------- what the verifier expects ---------------------- *)

\* No residual, no weight.
LEMMA NoResidual == WeightedSteps(zero_residual) = 0
<1> DEFINE m == Len(Challenges)
<1>1. m \in Nat /\ DOMAIN Challenges = 1..m
  BY CommitmentAssumption
<1>2. \A n \in StepConstraints : WeightOf(zero_residual, n) = 0
  <2> SUFFICES ASSUME NEW n \in StepConstraints PROVE WeightOf(zero_residual, n) = 0
    OBVIOUS
  <2>1. alpha(n) \in Nat /\ zero_residual[n] = 0
    BY AlphaType DEF zero_residual
  <2> QED BY <2>1 DEF WeightOf
<1>3. MachineSteps(zero_residual) = 0
  <2>1. \A n \in {"pc", "gas", "cnt", "m11", "m12", "m22"} : <<n, 0>> \in StepConstraints
    BY DEF StepConstraints
  <2> QED BY <1>2, <2>1 DEF MachineSteps
<1>4. \A j \in 1..m : /\ WeightOf(zero_residual, <<"s", j>>) = 0
                      /\ WeightOf(zero_residual, <<"pow", j>>) = 0
  <2>1. \A j \in 1..m : <<"s", j>> \in StepConstraints /\ <<"pow", j>> \in StepConstraints
    BY <1>1 DEF StepConstraints
  <2> QED BY <1>2, <2>1
<1>5. PICK over : /\ SketchSteps(zero_residual, over)
                  /\ WeightedSteps(zero_residual) = MachineSteps(zero_residual) + over[m]
  BY WeightedStepsUnfold
<1> DEFINE Zero == {j \in Nat : j <= m => over[j] = 0}
<1>6. 0 \in Zero
  BY <1>5 DEF SketchSteps
<1>7. ASSUME NEW j \in Nat, j \in Zero
      PROVE  j + 1 \in Zero
  <2> SUFFICES ASSUME j + 1 <= m PROVE over[j + 1] = 0
    OBVIOUS
  <2>1. over[j] = 0
    BY <1>1, <1>7
  <2>2. PICK k \in 1..m : k = j + 1 /\ k - 1 = j
    BY <1>1
  <2>3. over[k] = over[k - 1] + WeightOf(zero_residual, <<"s", k>>)
                              + WeightOf(zero_residual, <<"pow", k>>)
    BY <1>5 DEF SketchSteps
  <2> QED BY <1>4, <2>1, <2>2, <2>3
<1>8. over[m] = 0
  <2>1. \A j \in Nat : j \in Zero
    <3> HIDE DEF Zero
    <3> QED BY <1>6, <1>7, SetInduction
  <2> QED BY <1>1, <2>1
<1> QED BY <1>3, <1>5, <1>8

\* What a mask hides comes back.
LEMMA MaskLifted ==
  ASSUME NEW x \in Fields, NEW mask \in Fields
  PROVE  Minus((x + mask) % Modulus, mask) = x
<1>1. x \in Nat /\ mask \in Nat /\ x < Modulus /\ mask < Modulus /\ Modulus \in Nat
  BY ModulusType DEF Fields
<1> DEFINE y == (x + mask) % Modulus
<1>2. y \in Fields
  BY <1>1, InField
<1>3. Minus(y, mask) = (y + Modulus - mask) % Modulus
  BY <1>2, FieldType DEF Minus
<1>4. CASE x + mask < Modulus
  <2>1. y = x + mask
    <3>1. x + mask \in Fields
      BY <1>1, <1>4 DEF Fields
    <3> QED BY <3>1, FieldType
  <2> HIDE DEF y
  <2>2. y + Modulus - mask = x + Modulus
    BY <1>1, <2>1
  <2>3. (x + Modulus) % Modulus = x % Modulus
    BY <1>1, ModulusType
  <2> QED BY <1>3, <2>2, <2>3, FieldType DEF y
<1>5. CASE x + mask >= Modulus
  <2>1. y = x + mask - Modulus
    <3>1. x + mask - Modulus \in Fields /\ x + mask = (x + mask - Modulus) + Modulus
      BY <1>1, <1>5 DEF Fields
    <3>2. ((x + mask - Modulus) + Modulus) % Modulus = (x + mask - Modulus) % Modulus
      BY <1>1, <3>1, ModulusType DEF Fields
    <3> QED BY <3>1, <3>2, FieldType
  <2> HIDE DEF y
  <2>2. y + Modulus - mask = x
    BY <1>1, <2>1
  <2> QED BY <1>3, <2>2, FieldType DEF y
<1> QED BY <1>1, <1>4, <1>5

\* The row that was masked and committed at an index.
TrueRow(trace, i) == IF i + 1 <= Len(trace) THEN trace[i + 1] ELSE ZeroRow

LEMMA UnmaskedRow ==
  ASSUME NEW trace, NEW d \in Nat, NEW i \in 0..d - 1, TrueRow(trace, i) \in FieldRows,
         \A c \in Columns : column_mask_at_index(c, i) \in Fields
  PROVE  Unmasked(RowMatrix(trace, d)[i + 1], i) = TrueRow(trace, i)
<1> DEFINE row == TrueRow(trace, i)
           values == RowMatrix(trace, d)[i + 1]
           k(c) == CHOOSE k \in DOMAIN column_names : column_names[k] = c
           Value(c) == Minus(values[k(c)], column_mask_at_index(c, i))
<1>1. i + 1 \in 1..d /\ (i + 1) - 1 = i
  OBVIOUS
<1>2. values = [n \in DOMAIN column_names |->
                  (row[column_names[n]] + column_mask_at_index(column_names[n], i)) % Modulus]
  <2>1. values = [n \in DOMAIN column_names |->
                    ((IF i + 1 <= Len(trace) THEN trace[i + 1][column_names[n]] ELSE 0)
                        + column_mask_at_index(column_names[n], i)) % Modulus]
    BY <1>1 DEF RowMatrix
  <2>2. \A n \in DOMAIN column_names :
           (IF i + 1 <= Len(trace) THEN trace[i + 1][column_names[n]] ELSE 0) = row[column_names[n]]
    <3>1. \A n \in DOMAIN column_names : column_names[n] \in Columns
      BY DEF Columns, Range
    <3> QED BY <3>1 DEF TrueRow, ZeroRow
  <2> HIDE DEF values, row
  <2> QED BY <2>1, <2>2
<1> HIDE DEF values
<1>3. ASSUME NEW c \in Columns PROVE Value(c) = row[c]
  <2>1. \E m \in DOMAIN column_names : column_names[m] = c
    BY DEF Columns, Range
  <2>2. k(c) \in DOMAIN column_names /\ column_names[k(c)] = c
    BY <2>1
  <2> HIDE DEF k, row
  <2>3. values[k(c)] = (row[c] + column_mask_at_index(c, i)) % Modulus
    BY <1>2, <2>2
  <2>4. row[c] \in Fields /\ column_mask_at_index(c, i) \in Fields
    BY DEF FieldRows, row
  <2> QED BY <2>3, <2>4, MaskLifted
<1>4. Unmasked(values, i) = [c \in Columns |-> Value(c)]
  BY DEF Unmasked
<1>5. row = [c \in Columns |-> row[c]]
  BY DEF FieldRows
<1> HIDE DEF Value, row
<1>6. Unmasked(values, i) = row
  BY <1>3, <1>4, <1>5
<1> QED BY <1>6 DEF values, row

\* The trace of this run.
RunTrace == simulate_trace(job.steps, job.start)

Composed(t) == build_composition_vector(RunTrace, Cfg.domain_size, FinalsOf(RunTrace))[t]

LEMMA RunPrepared ==
  ASSUME job \in Jobs
  PROVE  /\ job.steps \in Nat \ {0} /\ job.steps <= Cfg.domain_size
         /\ Len(RunTrace) = job.steps /\ \A t \in 1..job.steps : RunTrace[t] \in FieldRows
         /\ Statement.steps = job.steps /\ Statement.finals = FinalsOf(RunTrace)
         /\ FinalsOf(RunTrace) \in Results
         /\ Prepared[job].rows = RowMatrix(RunTrace, Cfg.domain_size)
         /\ \A t \in 1..Cfg.domain_size :
               /\ Composition[t] = (Composed(t) + mask_at_index(t - 1)) % Modulus
               /\ Composed(t) \in Fields
<1> DEFINE d == next_power_of_two(job.steps)
           trace == RunTrace
           composed == build_composition_vector(trace, d, FinalsOf(trace))
<1>1. /\ job.steps \in Nat \ {0}
      /\ \A n \in DOMAIN job.start : job.start[n] \in Fields
  BY ProofAssumption DEF Fields
<1>2. d \in Nat \ {0} /\ job.steps <= d
  BY <1>1, DomainSizeType
<1>3. Len(trace) = job.steps /\ \A t \in 1..job.steps : trace[t] \in FieldRows
  BY <1>1, TraceType DEF RunTrace
<1>4. /\ Cfg.domain_size = d /\ Prepared[job].finals = FinalsOf(trace)
      /\ Prepared[job].rows = RowMatrix(trace, d)
      /\ Composition = [t \in DOMAIN composed |-> (composed[t] + mask_at_index(t - 1)) % Modulus]
  BY DEF Prepared, _prepare_trace_state, _build_fri_cfg, Cfg, Composition, RunTrace
<1>5. FinalsOf(trace) \in Results /\ composed \in Vectors(d)
  <2> HIDE DEF trace, d
  <2> QED BY <1>1, <1>2, <1>3, TraceComposition
<1>6. Statement.steps = job.steps /\ Statement.finals = Prepared[job].finals
  BY DEF Statement
<1>7. \A t \in 1..d : Composed(t) = composed[t]
  BY <1>4 DEF Composed
<1> HIDE DEF composed, d
<1>8. \A t \in 1..d : composed[t] \in Fields /\ t \in DOMAIN composed
  BY <1>5 DEF Vectors
<1> QED BY <1>1, <1>2, <1>3, <1>4, <1>5, <1>6, <1>7, <1>8

\* What was composed at a position: the step to the next row, at the trace's
\* last row the results, and nothing behind it.
LEMMA ComposedAt ==
  ASSUME job \in Jobs, NEW i \in Domain
  PROVE  LET Value(row, residual) ==
               composition_value_from_row(row, residual, i, job.steps, Statement.finals)
         IN  /\ i < job.steps - 1 =>
                   Composed(i + 1) = Value(RunTrace[i + 1],
                                           eval_constraints_from_row(RunTrace[i + 1], RunTrace[i + 1 + 1]))
             /\ i = job.steps - 1 => Composed(i + 1) = Value(RunTrace[i + 1], zero_residual)
             /\ i > job.steps - 1 => Composed(i + 1) = 0
<1> DEFINE trace == RunTrace
           finals == FinalsOf(trace)
           steps == job.steps
           d == Cfg.domain_size
           Composed_(t, residual) ==
             composition_value_from_row(trace[t], residual, t - 1, Len(trace), finals)
           Value(t) ==
             IF t < Len(trace) THEN Composed_(t, eval_constraints_from_row(trace[t], trace[t + 1]))
             ELSE IF t = Len(trace) THEN Composed_(t, zero_residual)
             ELSE 0
<1>1. steps \in Nat \ {0} /\ Len(trace) = steps /\ Statement.finals = finals
  BY RunPrepared
<1>2. d \in Nat \ {0} /\ i \in 0..d - 1
  BY RunType DEF Domain
<1>3. i + 1 \in 1..d /\ (i + 1) - 1 = i /\ i \in Nat
  BY <1>2
<1>4. build_composition_vector(trace, d, finals) = [t \in 1..d |-> Value(t)]
  BY DEF build_composition_vector
<1>5. Composed(i + 1) = Value(i + 1)
  <2> HIDE DEF Value
  <2> QED BY <1>3, <1>4 DEF Composed
<1> HIDE DEF trace, finals, d, steps
<1>6. CASE i < steps - 1
  <2>1. i + 1 < steps
    BY <1>1, <1>3, <1>6
  <2> QED BY <1>1, <1>3, <1>5, <2>1 DEF trace, finals, steps
<1>7. CASE i = steps - 1
  <2>1. i + 1 = steps
    BY <1>1, <1>3, <1>7
  <2> QED BY <1>1, <1>3, <1>5, <1>7, <2>1 DEF trace, finals, steps
<1>8. CASE i > steps - 1
  <2>1. ~ (i + 1 < steps) /\ i + 1 # steps
    BY <1>1, <1>3, <1>8
  <2> QED BY <1>1, <1>3, <1>5, <1>8, <2>1 DEF trace, finals, steps
<1> QED BY <1>6, <1>7, <1>8 DEF steps

\* An opening that shows the committed row and, but at the end of the domain,
\* the one after it.
ReadBack(p, i) ==
    /\ p.row_openings[i].row_values = Row(i)
    /\ i + 1 \in Domain => /\ p.row_openings[i].next # <<>>
                           /\ p.row_openings[i].next[1].row_values = Row(i + 1)

\* The row that is behind a committed one.
LEMMA RowBehind ==
  ASSUME job \in Jobs, NEW i \in Domain
  PROVE  Unmasked(Row(i), i) = TrueRow(RunTrace, i) /\ TrueRow(RunTrace, i) \in FieldRows
<1> DEFINE d == Cfg.domain_size
           trace == RunTrace
<1>1. d \in Nat \ {0} /\ i \in 0..d - 1
  BY RunType DEF Domain
<1>2. /\ Len(trace) = job.steps /\ \A t \in 1..job.steps : trace[t] \in FieldRows
      /\ Prepared[job].rows = RowMatrix(trace, d) /\ job.steps \in Nat
  BY RunPrepared
<1>3. \A c \in Columns : column_mask_at_index(c, i) \in Fields
  BY MasksType
<1> HIDE DEF d, trace
<1>4. TrueRow(trace, i) \in FieldRows
  <2>1. CASE i + 1 <= Len(trace)
    <3>1. i + 1 \in 1..job.steps
      BY <1>1, <1>2, <2>1
    <3> QED BY <1>2, <2>1, <3>1 DEF TrueRow
  <2>2. CASE ~ (i + 1 <= Len(trace))
    <3>1. ZeroRow \in FieldRows
      BY ModulusType DEF ZeroRow, FieldRows
    <3> QED BY <2>2, <3>1 DEF TrueRow
  <2> QED BY <2>1, <2>2
<1>5. Unmasked(RowMatrix(trace, d)[i + 1], i) = TrueRow(trace, i)
  BY <1>1, <1>3, <1>4, UnmaskedRow
<1>6. Row(i) = RowMatrix(trace, d)[i + 1]
  BY <1>2 DEF Row
<1> QED BY <1>4, <1>5, <1>6 DEF trace

\* The verifier expects at a committed row the value that was composed there.
LEMMA ExpectedComposed ==
  ASSUME job \in Jobs, NEW i \in Domain, NEW p, p.statement = Statement, ReadBack(p, i)
  PROVE  Expected(p, i) % Modulus = Composition[i + 1]
<1> DEFINE steps == job.steps
           finals == Statement.finals
           row == TrueRow(RunTrace, i)
           next == IF p.row_openings[i].next = <<>> THEN ZeroRow
                   ELSE Unmasked(p.row_openings[i].next[1].row_values, i + 1)
           residual == IF i >= steps - 1 THEN zero_residual ELSE eval_constraints_from_row(row, next)
           value == composition_value_from_row(row, residual, i, steps, finals)
<1>1. /\ steps \in Nat \ {0} /\ steps <= Cfg.domain_size /\ Len(RunTrace) = steps
      /\ Statement.steps = steps /\ finals \in Results
  BY RunPrepared
<1>2. i \in 0..Cfg.domain_size - 1 /\ Cfg.domain_size \in Nat \ {0} /\ i \in Nat
  BY RunType DEF Domain
<1>3. Unmasked(p.row_openings[i].row_values, i) = row
  BY RowBehind DEF ReadBack
<1>4. Expected(p, i) = (value + mask_at_index(i)) % Modulus
  BY <1>1, <1>3 DEF Expected
<1>5. value % Modulus = Composed(i + 1) % Modulus /\ value = Composed(i + 1)
  <2>1. CASE i < steps - 1
    <3>1. i + 1 \in Domain /\ i + 1 <= steps /\ i + 1 + 1 <= steps
      BY <1>1, <1>2, <2>1 DEF Domain
    <3>2. next = TrueRow(RunTrace, i + 1)
      BY <3>1, RowBehind DEF ReadBack
    <3>3. next = RunTrace[i + 1 + 1] /\ row = RunTrace[i + 1]
      BY <1>1, <3>1, <3>2 DEF TrueRow
    <3>4. residual = eval_constraints_from_row(RunTrace[i + 1], RunTrace[i + 1 + 1])
      <4>1. ~ (i >= steps - 1)
        BY <1>1, <1>2, <2>1
      <4> HIDE DEF next, row, steps
      <4> QED BY <3>3, <4>1
    <3>5. Composed(i + 1) = composition_value_from_row(RunTrace[i + 1],
                              eval_constraints_from_row(RunTrace[i + 1], RunTrace[i + 1 + 1]),
                              i, steps, finals)
      BY <2>1, ComposedAt
    <3> HIDE DEF residual, row
    <3> QED BY <3>3, <3>4, <3>5
  <2>2. CASE i = steps - 1
    <3>1. i + 1 <= steps
      BY <1>1, <1>2, <2>2
    <3>2. row = RunTrace[i + 1]
      BY <1>1, <3>1 DEF TrueRow
    <3>3. residual = zero_residual
      <4>1. i >= steps - 1
        BY <1>1, <1>2, <2>2
      <4> HIDE DEF next, row, steps
      <4> QED BY <4>1
    <3>4. Composed(i + 1)
            = composition_value_from_row(RunTrace[i + 1], zero_residual, i, steps, finals)
      BY <2>2, ComposedAt
    <3> HIDE DEF residual, row
    <3> QED BY <3>2, <3>3, <3>4
  <2>3. CASE i > steps - 1
    <3>1. i >= steps - 1 /\ i + 1 # steps
      BY <1>1, <1>2, <2>3
    <3>2. residual = zero_residual
      <4> HIDE DEF next, row, steps
      <4> QED BY <3>1
    <3>3. value = (WeightedSteps(zero_residual) + 0) % Modulus
      <4> HIDE DEF residual, row, finals
      <4> QED BY <3>1, <3>2 DEF composition_value_from_row
    <3>4. value = 0
      BY <3>3, NoResidual, ModulusType
    <3>5. Composed(i + 1) = 0
      BY <2>3, ComposedAt
    <3> QED BY <3>4, <3>5
  <2> QED BY <1>1, <1>2, <2>1, <2>2, <2>3
<1>6. /\ Composition[i + 1] = (Composed(i + 1) + mask_at_index(i)) % Modulus
      /\ Composition[i + 1] \in Fields
  <2>1. i + 1 \in 1..Cfg.domain_size /\ (i + 1) - 1 = i
    BY <1>2
  <2>2. \A t \in 1..Cfg.domain_size :
           Composition[t] = (Composed(t) + mask_at_index(t - 1)) % Modulus
    BY RunPrepared
  <2>3. Composition \in Vectors(Cfg.domain_size)
    BY CompositionType
  <2> QED BY <2>1, <2>2, <2>3 DEF Vectors
<1> HIDE DEF value
<1> QED BY <1>4, <1>5, <1>6, FieldType

(* ------------------------ an undisturbed run -------------------------- *)

\* A committed row opens at its place.
LEMMA CommittedLeaf ==
  ASSUME IInv, phase # "commit", NEW i \in Domain
  PROVE  /\ verify_leaf(stc_build_pc_commitment(acc), i, Row(i), stc_open_chunk(acc, i, Row(i)))
         /\ Len(Row(i)) = row_width
<1> DEFINE d == Cfg.domain_size
           proof == stc_open_chunk(acc, i, Row(i))
<1>1. job \in Jobs /\ CommitOK
  BY DEF IInv
<1>2. d \in Nat \ {0} /\ Row(i) \in Rows /\ i \in 0..d - 1
  BY <1>1, RunType DEF Domain
<1>3. Accumulated(acc, d)
  <2>1. PICK n \in 0..d : Accumulated(acc, n) /\ (phase = "commit" <=> n < d)
    BY <1>1 DEF CommitOK
  <2>2. n = d
    BY <1>2, <2>1
  <2> QED BY <2>1, <2>2
<1>4. stc_verify_chunk(stc_build_pc_commitment(acc), proof)
  <2> HIDE DEF d
  <2> QED BY <1>2, <1>3, ChunkOpensCommitted
<1>5. proof.values = Row(i) /\ proof.chunk_index = i
  BY DEF stc_open_chunk
<1>6. Len(Row(i)) = row_width
  BY <1>2, ColumnNamesType, FunctionIsSeq DEF Rows
<1> HIDE DEF proof
<1>7. verify_leaf(stc_build_pc_commitment(acc), i, Row(i), proof)
  <2>1. Len(Row(i)) <= Len(proof.values)
    BY <1>5, <1>6, ColumnNamesType
  <2> QED BY <1>4, <1>5, <2>1 DEF verify_leaf
<1> QED BY <1>6, <1>7 DEF proof

\* The prover's openings of committed rows pass.
LEMMA RowsOpen ==
  ASSUME IInv, phase # "commit", ReadsCommitted, NEW i \in DOMAIN openings, NEW p,
         p.row_commitment = stc_build_pc_commitment(acc), p.fri_params = Cfg
  PROVE  RowOpens(p, i, openings[i])
<1> DEFINE C == stc_build_pc_commitment(acc)
           o == openings[i]
<1>1. /\ i \in Domain
      /\ o.row_values = Row(i) /\ o.proof = stc_open_chunk(acc, i, Row(i))
      /\ o.next # <<>> =>
            /\ i + 1 \in Domain
            /\ o.next[1].row_values = Row(i + 1)
            /\ o.next[1].proof = stc_open_chunk(acc, i + 1, Row(i + 1))
  <2>1. /\ i \in Domain
        /\ o = [row_values |-> Row(i), proof |-> stc_open_chunk(acc, i, Row(i)), next |-> o.next]
        /\ o.next # <<>> =>
              /\ i + 1 \in Domain
              /\ o.next = <<[row_values |-> Row(i + 1),
                             proof |-> stc_open_chunk(acc, i + 1, Row(i + 1))]>>
    BY OpeningShape
  <2> HIDE DEF o
  <2>2. o.row_values = Row(i) /\ o.proof = stc_open_chunk(acc, i, Row(i))
    BY <2>1
  <2>3. ASSUME o.next # <<>>
        PROVE  /\ o.next[1].row_values = Row(i + 1)
               /\ o.next[1].proof = stc_open_chunk(acc, i + 1, Row(i + 1))
    BY <2>1, <2>3
  <2> QED BY <2>1, <2>2, <2>3
<1>2. \A k \in Domain : verify_leaf(C, k, Row(k), stc_open_chunk(acc, k, Row(k))) /\ Len(Row(k)) = row_width
  BY CommittedLeaf
<1>3. i + 1 \in Domain => i + 1 < Cfg.domain_size
  <2>1. Cfg.domain_size \in Nat
    BY RunType DEF IInv
  <2> QED BY <2>1 DEF Domain
<1> HIDE DEF C, o
<1> QED BY <1>1, <1>2, <1>3 DEF RowOpens, C, o

\* The check that the prover makes of its own proof passes.
LEMMA CheckPasses ==
  ASSUME IInv, phase # "commit", ReadsCommitted, DOMAIN openings = drawn, drawn # {},
         CanFold(Cfg), ~ OpensAlone, fri = OpenedComposition
  PROVE  verify_proof_only(Proof, job.binding)
<1> DEFINE p == Proof
           expected == [i \in drawn |-> Expected(p, i)]
<1>1. job \in Jobs /\ drawn \subseteq Domain /\ OpeningsOK
  BY DEF IInv, SamplingOK
<1>2. /\ p.statement = Statement /\ p.alpha_digest = alpha_digest(job.steps)
      /\ p.row_commitment = stc_build_pc_commitment(acc)
      /\ p.mask_digest = mask_digest_of(alpha_digest(job.steps), stc_build_pc_commitment(acc).root,
                                        BindingOf(job.binding, Statement))
      /\ p.fri_params = Cfg /\ p.base_commitment = pc_commit(Composition, ChunkLen)
      /\ p.query_indices = drawn /\ p.row_openings = openings /\ p.fri_proof = OpenedComposition
  BY DEF Proof, Composition
<1> HIDE DEF p
<1>3. \A i \in drawn : RowOpens(p, i, p.row_openings[i])
  BY <1>2, RowsOpen
<1>4. ASSUME NEW i \in drawn PROVE ReadBack(p, i)
  <2>1. Opened(i) /\ openings[i].row_values = Row(i)
    BY <1>1 DEF OpeningsOK, ReadsCommitted
  <2>2. ASSUME i + 1 \in Domain
        PROVE  openings[i].next # <<>>
    <3>1. Successor(i) # {}
      BY <2>2 DEF Successor
    <3>2. openings[i].next = <<OpeningAt(i + 1)>>
      BY <2>1, <3>1 DEF Opened
    <3>3. Len(<<OpeningAt(i + 1)>>) = 1
      OBVIOUS
    <3> QED BY <3>2, <3>3
  <2> QED BY <1>2, <2>1, <2>2 DEF ReadBack, ReadsCommitted
<1>5. \A i \in drawn : expected[i] % Modulus = Composition[i + 1]
  BY <1>1, <1>2, <1>4, ExpectedComposed
<1> HIDE DEF expected
<1>6. pc_verify(Cfg, pc_commit(Composition, ChunkLen), OpenedComposition, drawn, expected)
  BY <1>1, <1>5, CompositionVerifies
<1>7. Statement.steps = job.steps
  BY DEF Statement
<1>8. pc_verify(p.fri_params, p.base_commitment, p.fri_proof, p.query_indices,
                [i \in p.query_indices |-> Expected(p, i)])
  BY <1>2, <1>6 DEF expected
<1>9. verify_proof_only(p, job.binding)
  BY <1>2, <1>3, <1>7, <1>8 DEF verify_proof_only
<1> QED BY <1>9 DEF p

\* Where a run that nobody disturbs can stop: every committed row has its
\* file, and the check begins when all drawn positions are open.
HInv ==
    /\ phase = "check" => DOMAIN openings = drawn
    /\ foreign = 0 =>
          \A i \in Domain : archive[i] = Missing => phase = "commit" /\ i >= Len(acc.chunks)
    /\ HonestVerifies

\* What stopped the prover.
Stopped ==
    \/ ~ CanFold(Cfg)
    \/ OpensAlone
    \/ ~ ReadsCommitted
    \/ foreign > 0 /\ DOMAIN openings # drawn

\* Why a proof is refused.
Reason ==
    \/ received.damage # <<"none", 0>>
    \/ BindingOf(received.given, Statement) # BindingOf(job.binding, Statement)

LEMMA HonestCases ==
  /\ HonestVerifies <=> (phase = "failed" => Stopped) /\ (phase = "refused" => Reason)
  /\ HonestVerifies' <=> (phase' = "failed" => Stopped') /\ (phase' = "refused" => Reason')
BY DEF HonestVerifies, Stopped, Reason

LEMMA StoppedFrame ==
  ASSUME UNCHANGED <<job, drawn, openings, foreign>>
  PROVE  Stopped' <=> Stopped
<1>1. Cfg' = Cfg /\ (ReadsCommitted' <=> ReadsCommitted)
  BY DEF Cfg, ReadsCommitted, Row
<1>2. OpensAlone' <=> OpensAlone
  BY <1>1 DEF OpensAlone
<1> QED BY <1>1, <1>2 DEF Stopped

\* A binding matters only by the masks it is bound to.
LEMMA SameBinding ==
  ASSUME NEW p, NEW g, NEW h, BindingOf(g, p.statement) = BindingOf(h, p.statement),
         verify_proof_only(p, g)
  PROVE  verify_proof_only(p, h)
BY DEF verify_proof_only

LEMMA HonestCommit ==
  ASSUME IInv, HInv, CommitRow
  PROVE  HInv'
<1> DEFINE d == Cfg.domain_size
<1>1. /\ phase = "commit" /\ job \in Jobs /\ CommitOK /\ FilesOK
  BY DEF IInv, CommitRow
<1>2. d \in Nat \ {0} /\ Domain' = Domain /\ \A i \in Domain : Row(i) \in Rows
  BY RunType, <1>1 DEF CommitRow, Cfg, Domain
<1>3. PICK n \in 0..d : Accumulated(acc, n) /\ n < d
  BY <1>1 DEF CommitOK
<1>4. n \in Nat /\ Len(acc.chunks) = n /\ n \in Domain
  BY <1>2, <1>3, AccumulatedLen DEF Domain
<1>5. /\ acc' = add_chunk(acc, Row(n)) /\ archive' = [archive EXCEPT ![n] = Row(n)]
      /\ phase' = IF n + 1 = d THEN "sample" ELSE "commit"
      /\ foreign' = foreign
  BY <1>4 DEF CommitRow
<1>6. Len(acc'.chunks) = n + 1
  BY <1>2, <1>3, <1>4, <1>5, AddRow, AccumulatedLen
<1>7. ASSUME foreign = 0, NEW i \in Domain, archive'[i] = Missing
      PROVE  phase' = "commit" /\ i >= Len(acc'.chunks)
  <2>1. i # n
    BY <1>1, <1>2, <1>4, <1>5, <1>7, NoRows DEF FilesOK
  <2>2. archive[i] = Missing
    BY <1>1, <1>5, <1>7, <2>1 DEF FilesOK
  <2>3. i >= n
    BY <1>4, <1>7, <2>2 DEF HInv
  <2>4. i \in 0..d - 1
    BY DEF Domain
  <2>5. i >= n + 1 /\ n + 1 # d
    BY <1>2, <1>4, <2>1, <2>3, <2>4
  <2> QED BY <1>5, <1>6, <2>5
<1>8. phase' \in {"commit", "sample"}
  BY <1>5
<1> QED BY <1>2, <1>5, <1>7, <1>8 DEF HInv, HonestVerifies

LEMMA HonestOpen ==
  ASSUME IInv, HInv, OpenRow
  PROVE  HInv'
<1> DEFINE Left == drawn \ DOMAIN openings
           Read(q) == {q} \cup Successor(q)
           least == CHOOSE i \in Left : \A k \in Left : i <= k
           Goes(q) ==
              \/ /\ \E i \in Read(q) : Loaded(i) = Missing
                 /\ phase' = "failed" /\ openings' = openings
              \/ /\ DOMAIN openings' = DOMAIN openings \cup {q}
                 /\ phase' = IF Left = {q} THEN "check" ELSE "open"
<1>1. /\ phase = "open" /\ job \in Jobs /\ FilesOK /\ SamplingOK /\ OpeningsOK
      /\ UNCHANGED <<job, acc, archive, drawn, foreign>>
  BY DEF IInv, OpenRow
<1>2. least \in Left
  <2>1. Left # {} /\ Left \subseteq Nat
    BY <1>1, RunType DEF OpeningsOK, SamplingOK, Domain
  <2> HIDE DEF Left
  <2>2. \E i \in Left : \A k \in Left : i <= k
    BY <2>1, LeastNatural
  <2> QED BY <2>2
<1>3. PICK q \in Left : Goes(q)
  <2>1. Goes(least)
    BY Zenon DEF OpenRow
  <2> HIDE DEF Goes, least, Left
  <2> QED BY <1>2, <2>1
<1>4. Domain' = Domain
  BY <1>1 DEF Domain, Cfg
<1>5. foreign' = 0 =>
         \A i \in Domain' : archive'[i] = Missing => phase' = "commit" /\ i >= Len(acc'.chunks)
  BY <1>1, <1>4 DEF HInv
<1>6. CASE phase' = "failed" /\ openings' = openings /\ \E i \in Read(q) : Loaded(i) = Missing
  <2>1. PICK i \in Read(q) : Loaded(i) = Missing
    BY <1>6
  <2>2. i \in Domain
    BY <1>1 DEF SamplingOK, Successor
  <2>3. archive[i] = Missing
    BY <1>1, <2>1, <2>2, NoRows DEF Loaded, FilesOK
  <2>4. foreign # 0
    BY <1>1, <2>2, <2>3 DEF HInv
  <2>5. foreign > 0
    BY <2>4, ProofAssumption DEF IInv
  <2>6. Stopped
    BY <1>1, <2>5 DEF Stopped, OpeningsOK
  <2>7. Stopped'
    BY <1>1, <1>6, <2>6, StoppedFrame
  <2>8. HonestVerifies'
    BY <1>6, <2>7, HonestCases
  <2> QED BY <1>5, <1>6, <2>8 DEF HInv
<1>7. CASE DOMAIN openings' = DOMAIN openings \cup {q} /\ phase' = IF Left = {q} THEN "check" ELSE "open"
  <2>1. phase' = "check" => DOMAIN openings' = drawn'
    BY <1>1, <1>7 DEF OpeningsOK
  <2>2. phase' \in {"check", "open"}
    BY <1>7
  <2> QED BY <1>5, <2>1, <2>2 DEF HInv, HonestVerifies
<1> QED BY <1>3, <1>6, <1>7

LEMMA HonestCheck ==
  ASSUME IInv, AInv, HInv, CheckOwnProof
  PROVE  HInv'
<1>1. /\ phase = "check" /\ UNCHANGED <<job, acc, archive, drawn, fri, openings, foreign>>
      /\ phase' = IF verify_proof_only(Proof, job.binding) THEN "published" ELSE "failed"
  BY DEF CheckOwnProof
<1>2. /\ CanFold(Cfg) /\ fri = OpenedComposition /\ drawn # {} /\ DOMAIN openings = drawn
  BY <1>1 DEF AInv, ProofOK, IInv, SamplingOK, HInv
<1>3. ~ verify_proof_only(Proof, job.binding) => Stopped
  BY <1>1, <1>2, CheckPasses DEF Stopped
<1>4. phase' = "failed" => Stopped'
  BY <1>1, <1>3, StoppedFrame
<1>5. phase' \in {"published", "failed"}
  BY <1>1
<1>6. HonestVerifies'
  BY <1>4, <1>5, HonestCases
<1>7. Domain' = Domain
  BY <1>1 DEF Domain, Cfg
<1> QED BY <1>1, <1>5, <1>6, <1>7 DEF HInv

LEMMA HonestVerify ==
  ASSUME IInv, AInv, HInv, Verify
  PROVE  HInv'
<1>1. /\ phase = "published"
      /\ UNCHANGED <<job, acc, archive, cache, drawn, fri, openings, audit, foreign>>
  BY DEF Verify
<1>2. PICK damage \in Deliveries, given \in Bindings :
        /\ received' = [damage |-> damage, given |-> given]
        /\ phase' = IF verify_proof_only(Delivered(Proof, damage), given)
                      THEN "accepted" ELSE "refused"
  BY DEF Verify
<1>3. verify_proof_only(Proof, job.binding) /\ Proof.statement = Statement
  BY <1>1 DEF AInv, ProofOK, Proof
<1>4. ASSUME phase' = "refused", damage = <<"none", 0>>
      PROVE  BindingOf(given, Statement) # BindingOf(job.binding, Statement)
  <2>1. Delivered(Proof, damage) = Proof
    BY <1>4 DEF Delivered
  <2>2. ~ verify_proof_only(Proof, given)
    BY <1>2, <1>4, <2>1
  <2> QED BY <1>3, <2>2, SameBinding
<1>5. received'.damage = damage /\ received'.given = given
  BY <1>2
<1>6. phase' \in {"accepted", "refused"}
  BY <1>2
<1>7. Statement' = Statement /\ Domain' = Domain
  BY <1>1, ProofFrame DEF Domain, Cfg
<1>8. HonestVerifies'
  BY <1>1, <1>4, <1>5, <1>6, <1>7, HonestCases DEF Reason
<1> QED BY <1>1, <1>6, <1>7, <1>8 DEF HInv

LEMMA HonestStep == IInv /\ AInv /\ HInv /\ Next => HInv'
<1> SUFFICES ASSUME IInv, AInv, HInv, Next PROVE HInv'
  OBVIOUS
<1>1. CASE CommitRow
  BY <1>1, HonestCommit
<1>2. CASE DrawQuery
  <2>1. /\ phase = "sample" /\ phase' \in {"fold", "sample"}
        /\ UNCHANGED <<job, acc, archive, openings, foreign>>
    BY <1>2 DEF DrawQuery
  <2>2. Domain' = Domain
    BY <2>1 DEF Domain, Cfg
  <2> QED BY <2>1, <2>2 DEF HInv, HonestVerifies
<1>3. CASE ProveComposition
  <2>1. /\ phase = "fold" /\ phase' \in {"open", "failed"}
        /\ phase' = "failed" => ~ CanFold(Cfg)
        /\ UNCHANGED <<job, acc, archive, drawn, openings, foreign>>
    BY <1>3 DEF ProveComposition
  <2>2. Domain' = Domain
    BY <2>1 DEF Domain, Cfg
  <2>3. phase' = "failed" => Stopped'
    BY <2>1, StoppedFrame DEF Stopped
  <2>4. HonestVerifies'
    BY <2>1, <2>3, HonestCases
  <2> QED BY <2>1, <2>2, <2>4 DEF HInv
<1>4. CASE OpenRow
  BY <1>4, HonestOpen
<1>5. CASE CheckOwnProof
  BY <1>5, HonestCheck
<1>6. CASE Verify
  BY <1>6, HonestVerify
<1>7. CASE Audit
  <2>1. /\ phase = "accepted" /\ phase' = "audited"
        /\ UNCHANGED <<job, acc, archive, drawn, openings, foreign>>
    BY <1>7 DEF Audit
  <2>2. Domain' = Domain
    BY <2>1 DEF Domain, Cfg
  <2> QED BY <2>1, <2>2 DEF HInv, HonestVerifies
<1>8. CASE OtherRunWrites \/ OtherRunClears
  <2>1. /\ phase \notin {"failed", "refused"} /\ phase' = phase /\ foreign' = foreign + 1
        /\ UNCHANGED <<drawn, openings>>
    BY <1>8 DEF OtherRunWrites, OtherRunClears, Ended
  <2>2. foreign' # 0
    BY <2>1, ProofAssumption DEF IInv
  <2> QED BY <2>1, <2>2 DEF HInv, HonestVerifies
<1> QED BY <1>1, <1>2, <1>3, <1>4, <1>5, <1>6, <1>7, <1>8 DEF Next, Prover

LEMMA HonestStutter ==
  ASSUME HInv, UNCHANGED vars
  PROVE  HInv'
<1>1. UNCHANGED <<job, phase, acc, archive, drawn, openings, received, foreign>>
  BY DEF vars
<1>2. Domain' = Domain /\ Statement' = Statement /\ (Stopped' <=> Stopped)
  BY <1>1, StoppedFrame DEF Domain, Cfg, Statement
<1>3. HonestVerifies'
  BY <1>1, <1>2, HonestCases DEF HInv, Reason
<1> QED BY <1>1, <1>2, <1>3 DEF HInv

LEMMA RowWidth == row_width \in Nat /\ row_width >= 2
<1>1. row_width \in Nat \ {0} /\ DOMAIN column_names = 1..row_width
  BY ColumnNamesType
<1>2. <<"PC", 0>> \in Columns /\ <<"GAS", 0>> \in Columns
  BY ColumnNamesType DEF BaseNames
<1>3. ASSUME row_width = 1 PROVE FALSE
  <2>1. Columns = {column_names[k] : k \in 1..1}
    BY <1>1, <1>3 DEF Columns, Range
  <2>2. <<"PC", 0>> = <<"GAS", 0>>
    BY <1>2, <2>1
  <2>3. "PC" = "GAS"
    BY <2>2
  <2> QED BY <2>3
<1> QED BY <1>1, <1>3

\* Rows at different places have different chunk roots: the offset is hashed
\* with every value.
LEMMA OffsetBinds ==
  ASSUME NEW u \in Rows, NEW v \in Rows, NEW i \in Nat, NEW k \in Nat,
         merkle_from_values(u, i * row_width) = merkle_from_values(v, k * row_width)
  PROVE  i = k
<1> DEFINE x == i * row_width
           y == k * row_width
<1>1. row_width \in Nat \ {0}
  BY ColumnNamesType
<1>2. x \in Nat /\ y \in Nat
  BY <1>1
<1> HIDE DEF x, y
<1>3. /\ Level(LeavesOf(u, x), row_width) /\ Level(LeavesOf(v, y), row_width)
      /\ LeavesOf(u, x)[0] = [leaf |-> <<x, 0, u[1]>>]
      /\ LeavesOf(v, y)[0] = [leaf |-> <<y, 0, v[1]>>]
  <2>1. 0 \in 0..row_width - 1 /\ 0 + 1 = 1
    BY <1>1
  <2> QED BY <2>1, LeavesOfRow
<1>4. LeavesOf(u, x) = LeavesOf(v, y)
  <2>1. root_from_levels(build_levels(LeavesOf(u, x))) = root_from_levels(build_levels(LeavesOf(v, y)))
    BY DEF merkle_from_values, x, y
  <2> QED BY <1>1, <1>3, <2>1, TreeBinds
<1>5. <<x, 0, u[1]>> = <<y, 0, v[1]>>
  <2>1. LeavesOf(u, x)[0].leaf = LeavesOf(v, y)[0].leaf
    BY <1>4
  <2> QED BY <1>3, <2>1
<1>6. x = y
  BY <1>5
<1>7. x \div row_width = i /\ y \div row_width = k
  <2>1. 0 \in 0..row_width - 1 /\ x = i * row_width + 0 /\ y = k * row_width + 0
    BY <1>1, <1>2 DEF x, y
  <2> QED BY <1>1, <1>2, <2>1, QuotientUnique
<1> QED BY <1>6, <1>7

\* The honest path of one chunk does not verify for its root at the place of
\* another.
LEMMA PlaceBinds ==
  ASSUME NEW n \in Nat \ {0}, NEW a, Accumulated(a, n), NEW i \in 0..n - 1, NEW k,
         \A j \in 0..n - 1 : Row(j) \in Rows,
         verify_kary(stc_build_pc_commitment(a).root, merkle_from_values(Row(i), i * row_width), k,
                     prove_kary(ChunkLevels(a), i, CHUNK_TREE_ARITY), CHUNK_TREE_ARITY, n)
  PROVE  i = k
<1> DEFINE roots == [j \in 0..Len(a.chunks) - 1 |-> a.chunks[j + 1].root]
           path == prove_kary(ChunkLevels(a), i, CHUNK_TREE_ARITY)
           leaf == merkle_from_values(Row(i), i * row_width)
<1>1. Level(roots, n) /\ \A j \in 0..n - 1 : roots[j] = merkle_from_values(Row(j), j * row_width)
  BY ChunkRootsOfRows
<1>2. /\ ChunkLevels(a) = build_kary_levels(roots, CHUNK_TREE_ARITY)
      /\ stc_build_pc_commitment(a).root = root_from_levels(ChunkLevels(a))
  BY DEF ChunkLevels, stc_build_pc_commitment
<1>3. CHUNK_TREE_ARITY \in Nat \ {0, 1}
  BY CommitmentAssumption
<1> HIDE DEF roots
<1>4. Len(path) = Top(KaryLevelsOver(roots, CHUNK_TREE_ARITY))
  BY <1>1, <1>2, <1>3, HonestPath
<1>5. verify_kary(root_from_levels(build_kary_levels(roots, CHUNK_TREE_ARITY)), leaf, k, path,
                  CHUNK_TREE_ARITY, n)
  BY <1>2
<1> HIDE DEF path, leaf
<1>6. k \in 0..n - 1 /\ leaf = roots[k]
  BY <1>1, <1>3, <1>4, <1>5, KaryPathSound
<1>7. merkle_from_values(Row(i), i * row_width) = merkle_from_values(Row(k), k * row_width)
  BY <1>1, <1>6 DEF leaf
<1> QED BY <1>6, <1>7, OffsetBinds

\* What a chunk's opening holds, with the index of another chunk.
LEMMA MovedChunk ==
  ASSUME NEW n \in Nat \ {0}, NEW a, Accumulated(a, n), NEW i \in 0..n - 1, NEW k,
         \A j \in 0..n - 1 : Row(j) \in Rows
  PROVE  stc_verify_chunk(stc_build_pc_commitment(a),
                          [stc_open_chunk(a, i, Row(i)) EXCEPT !.chunk_index = k]) <=> i = k
<1> DEFINE C == stc_build_pc_commitment(a)
           honest == stc_open_chunk(a, i, Row(i))
           proof == [honest EXCEPT !.chunk_index = k]
<1>1. C.num_chunks = n
  BY AccumulatedLen DEF stc_build_pc_commitment
<1>2. proof = [chunk_index |-> k, chunk_offset |-> i * row_width, values |-> Row(i),
               chunk_root |-> merkle_from_values(Row(i), i * row_width),
               chunk_root_path |-> prove_kary(ChunkLevels(a), i, CHUNK_TREE_ARITY)]
  BY DEF stc_open_chunk, Accumulated
<1>3. ASSUME stc_verify_chunk(C, proof) PROVE i = k
  <2>1. /\ proof.chunk_root = merkle_from_values(Row(i), i * row_width) /\ proof.chunk_index = k
        /\ proof.chunk_root_path = prove_kary(ChunkLevels(a), i, CHUNK_TREE_ARITY)
    BY <1>2
  <2> HIDE DEF proof
  <2>2. verify_kary(C.root, proof.chunk_root, proof.chunk_index, proof.chunk_root_path,
                    CHUNK_TREE_ARITY, C.num_chunks)
    BY <1>3, Zenon DEF stc_verify_chunk
  <2>3. verify_kary(C.root, merkle_from_values(Row(i), i * row_width), k,
                    prove_kary(ChunkLevels(a), i, CHUNK_TREE_ARITY), CHUNK_TREE_ARITY, n)
    BY <1>1, <2>1, <2>2
  <2> QED BY <2>3, PlaceBinds
<1>4. ASSUME i = k PROVE stc_verify_chunk(C, proof)
  <2>1. honest.chunk_index = i /\ honest = [honest EXCEPT !.chunk_index = i]
    BY DEF stc_open_chunk
  <2>2. proof = honest
    BY <1>4, <2>1
  <2> QED BY <2>2, ChunkOpensCommitted
<1> QED BY <1>3, <1>4

\* The opening of a value of a chunk, with the index of another chunk.
LEMMA MovedValue ==
  ASSUME NEW n \in Nat \ {0}, NEW a, Accumulated(a, n), NEW q \in 0..n - 1, NEW i,
         \A j \in 0..n - 1 : Row(j) \in Rows, NEW k \in 0..row_width - 1
  PROVE  stc_verify_index(stc_build_pc_commitment(a),
                          [stc_open_index(a, q * row_width + k, Row(q)) EXCEPT !.chunk_index = i])
            <=> i = q
<1> DEFINE C == stc_build_pc_commitment(a)
           honest == stc_open_index(a, q * row_width + k, Row(q))
           proof == [honest EXCEPT !.chunk_index = i]
           v == Row(q)[k + 1]
<1>1. /\ C.num_chunks = n
      /\ honest = [index |-> q * row_width + k, value |-> v, chunk_index |-> q,
                   chunk_offset |-> q * row_width, leaf_pos |-> k,
                   leaf_path |-> prove(build_levels(LeavesOf(Row(q), q * row_width)), k),
                   chunk_root |-> merkle_from_values(Row(q), q * row_width),
                   chunk_root_path |-> prove_kary(ChunkLevels(a), q, CHUNK_TREE_ARITY)]
  BY ValueParts
<1> HIDE DEF honest
<1>2. ASSUME stc_verify_index(C, proof) PROVE i = q
  <2>1. /\ proof.chunk_root = merkle_from_values(Row(q), q * row_width) /\ proof.chunk_index = i
        /\ proof.chunk_root_path = prove_kary(ChunkLevels(a), q, CHUNK_TREE_ARITY)
    BY <1>1
  <2> HIDE DEF proof
  <2>2. verify_kary(C.root, proof.chunk_root, proof.chunk_index, proof.chunk_root_path,
                    CHUNK_TREE_ARITY, C.num_chunks)
    BY <1>2, Zenon DEF stc_verify_index
  <2>3. verify_kary(C.root, merkle_from_values(Row(q), q * row_width), i,
                    prove_kary(ChunkLevels(a), q, CHUNK_TREE_ARITY), CHUNK_TREE_ARITY, n)
    BY <1>1, <2>1, <2>2
  <2> QED BY <2>3, PlaceBinds
<1>3. ASSUME i = q PROVE stc_verify_index(C, proof)
  <2>1. proof = [honest EXCEPT !.value = v]
    BY <1>1, <1>3
  <2>2. Row(q) \in Rows /\ v \in Fields
    <3> k + 1 \in 1..row_width
      BY ColumnNamesType
    <3> QED BY DEF Rows
  <2> HIDE DEF v
  <2>3. stc_verify_index(C, [honest EXCEPT !.value = v]) <=> Row(q) = Row(q) /\ v = Row(q)[k + 1]
    BY <2>2, ValueOpensCommitted DEF honest
  <2> QED BY <2>1, <2>3 DEF v
<1> QED BY <1>2, <1>3 DEF honest

\* No two positions of a level lie beside the same one.
LEMMA BesideInjective ==
  ASSUME NEW n \in Nat, NEW i \in 0..n - 1, NEW j \in 0..n - 1, Beside(i, n) = Beside(j, n)
  PROVE  i = j
BY DEF Beside, Least

\* The leaves of a row are all different: the position is hashed with the value.
LEMMA LeavesDiffer ==
  ASSUME NEW v \in Rows, NEW offset, NEW x \in 0..row_width - 1, NEW y \in 0..row_width - 1,
         LeavesOf(v, offset)[x] = LeavesOf(v, offset)[y]
  PROVE  x = y
<1>1. [leaf |-> <<offset, x, v[x + 1]>>] = [leaf |-> <<offset, y, v[y + 1]>>]
  BY LeavesOfRow
<1>2. <<offset, x, v[x + 1]>> = <<offset, y, v[y + 1]>>
  <2>1. [leaf |-> <<offset, x, v[x + 1]>>].leaf = [leaf |-> <<offset, y, v[y + 1]>>].leaf
    BY <1>1
  <2> QED BY <2>1
<1> QED BY <1>2

\* The opening of a value, with another position in the chunk.
LEMMA ShiftedValue ==
  ASSUME NEW n \in Nat \ {0}, NEW a, Accumulated(a, n), NEW q \in 0..n - 1, Row(q) \in Rows,
         NEW k \in 0..row_width - 1, NEW m \in 0..row_width - 1
  PROVE  stc_verify_index(stc_build_pc_commitment(a),
                          [stc_open_index(a, q * row_width + k, Row(q)) EXCEPT !.leaf_pos = m])
            <=> k = m
<1> DEFINE C == stc_build_pc_commitment(a)
           honest == stc_open_index(a, q * row_width + k, Row(q))
           proof == [honest EXCEPT !.leaf_pos = m]
           v == Row(q)[k + 1]
           leaves == LeavesOf(Row(q), q * row_width)
           levels == build_levels(leaves)
           path == prove(levels, k)
           leaf == chunk_leaf_hash(q * row_width, m, v)
<1>1. honest = [index |-> q * row_width + k, value |-> v, chunk_index |-> q,
                chunk_offset |-> q * row_width, leaf_pos |-> k, leaf_path |-> path,
                chunk_root |-> merkle_from_values(Row(q), q * row_width),
                chunk_root_path |-> prove_kary(ChunkLevels(a), q, CHUNK_TREE_ARITY)]
  BY ValueParts
<1>2. Row(q) \in Rows /\ v \in Fields
  <2> k + 1 \in 1..row_width
    BY ColumnNamesType
  <2> QED BY DEF Rows
<1>3. row_width \in Nat \ {0, 1} /\ k \in Nat /\ Level(leaves, row_width)
  BY RowWidth, LeavesOfRow
<1>4. Len(path) = Top(LevelsOver(leaves)) /\ path[1] = leaves[Beside(k, row_width)]
  <2> DEFINE level == LevelsOver(leaves)
             T == Top(level)
  <2>1. /\ level[0] = leaves /\ T \in Nat /\ Size(level[T]) = 1
    <3> HIDE DEF leaves
    <3>1. level[0] = leaves /\ T \in 0..row_width /\ Size(level[T]) = 1
      BY <1>3, LevelsShape
    <3> QED BY <1>3, <3>1
  <2>2. Size(leaves) = row_width
    BY <1>3, LevelSize
  <2>3. T # 0
    BY <1>3, <2>1, <2>2
  <2>4. levels = [h \in 1..T + 1 |-> level[h - 1]]
    BY DEF build_levels
  <2> HIDE DEF level, T, levels
  <2>5. Len(levels) = T + 1 /\ Len(levels) - 1 = T /\ levels[1] = leaves
    BY <2>1, <2>3, <2>4
  <2>6. Ancestors(k, 2, T)[0] = k
    BY <2>1, AncestorsUnfold
  <2>7. path = [h \in 1..T |-> levels[h][Beside(Ancestors(k, 2, T)[h - 1], Size(levels[h]))]]
    BY <2>5 DEF prove
  <2> HIDE DEF path
  <2>8. path[1] = levels[1][Beside(Ancestors(k, 2, T)[1 - 1], Size(levels[1]))] /\ Len(path) = T
    BY <2>1, <2>3, <2>7
  <2> QED BY <2>2, <2>5, <2>6, <2>8 DEF T, level
<1> HIDE DEF honest, leaves, levels, path
<1>5. ASSUME stc_verify_index(C, proof) PROVE k = m
  <2>1. /\ proof.chunk_root = merkle_from_values(Row(q), q * row_width) /\ proof.leaf_pos = m
        /\ proof.leaf_path = path /\ proof.chunk_offset = q * row_width /\ proof.value = v
    BY <1>1
  <2> HIDE DEF proof, v
  <2>2. verify(proof.chunk_root, chunk_leaf_hash(proof.chunk_offset, proof.leaf_pos, proof.value),
               proof.leaf_pos, proof.leaf_path)
    BY <1>5, Zenon DEF stc_verify_index
  <2>3. verify(merkle_from_values(Row(q), q * row_width), leaf, m, path)
    BY <2>1, <2>2 DEF leaf
  <2>4. verify(root_from_levels(build_levels(leaves)), leaf, m, path)
    BY <2>3 DEF merkle_from_values, leaves
  <2> HIDE DEF leaf
  <2>5. path[1] = leaves[Beside(m, row_width)]
    BY <1>3, <1>4, <2>4, PathSound
  <2>6. leaves[Beside(k, row_width)] = leaves[Beside(m, row_width)]
    BY <1>4, <2>5
  <2>7. \A x \in 0..row_width - 1 : Beside(x, row_width) \in 0..row_width - 1
    BY <1>3 DEF Beside, Least
  <2>8. Beside(k, row_width) = Beside(m, row_width)
    BY <2>6, <2>7, LeavesDiffer DEF leaves
  <2> QED BY <1>3, <2>8, BesideInjective
<1>6. ASSUME k = m PROVE stc_verify_index(C, proof)
  <2>1. proof = [honest EXCEPT !.value = v]
    BY <1>1, <1>6
  <2> HIDE DEF v
  <2>3. stc_verify_index(C, [honest EXCEPT !.value = v]) <=> Row(q) = Row(q) /\ v = Row(q)[k + 1]
    BY <1>2, ValueOpensCommitted DEF honest
  <2> QED BY <2>1, <2>3 DEF v
<1> QED BY <1>5, <1>6 DEF honest

\* The opening of a value, with another value.
LEMMA ChangedValue ==
  ASSUME NEW n \in Nat \ {0}, NEW a, Accumulated(a, n), NEW q \in 0..n - 1, Row(q) \in Rows,
         NEW k \in 0..row_width - 1
  PROVE  ~ stc_verify_index(stc_build_pc_commitment(a),
              [stc_open_index(a, q * row_width + k, Row(q)) EXCEPT !.value = Other(@)])
<1> DEFINE C == stc_build_pc_commitment(a)
           honest == stc_open_index(a, q * row_width + k, Row(q))
           v == Row(q)[k + 1]
           w == Other(v)
<1>1. honest.value = v
  <2>1. honest = [index |-> q * row_width + k, value |-> v, chunk_index |-> q,
                  chunk_offset |-> q * row_width, leaf_pos |-> k,
                  leaf_path |-> prove(build_levels(LeavesOf(Row(q), q * row_width)), k),
                  chunk_root |-> merkle_from_values(Row(q), q * row_width),
                  chunk_root_path |-> prove_kary(ChunkLevels(a), q, CHUNK_TREE_ARITY)]
    BY ValueParts
  <2> HIDE DEF honest, v
  <2> QED BY <2>1
<1>2. v \in Fields
  <2> k + 1 \in 1..row_width
    BY ColumnNamesType
  <2> QED BY DEF Rows
<1> HIDE DEF honest, v
<1>3. w \in Fields /\ w # v
  BY <1>2, ModulusType DEF Other, Fields, w
<1>4. [honest EXCEPT !.value = Other(@)] = [honest EXCEPT !.value = w]
  BY <1>1
<1> HIDE DEF w
<1>5. stc_verify_index(C, [honest EXCEPT !.value = w]) <=> Row(q) = Row(q) /\ w = v
  BY <1>3, ValueOpensCommitted DEF honest, v
<1> QED BY <1>3, <1>4, <1>5 DEF honest

\* The opening of a value, under another label.
LEMMA RelabelledValue ==
  ASSUME NEW n \in Nat \ {0}, NEW a, Accumulated(a, n), NEW q \in 0..n - 1, Row(q) \in Rows,
         NEW k \in 0..row_width - 1, NEW label \in Nat, a.length \in Nat
  PROVE  stc_verify_index(stc_build_pc_commitment(a),
                          [stc_open_index(a, q * row_width + k, Row(q)) EXCEPT !.index = label])
            <=> label < a.length
<1> DEFINE C == stc_build_pc_commitment(a)
           honest == stc_open_index(a, q * row_width + k, Row(q))
           proof == [honest EXCEPT !.index = label]
           v == Row(q)[k + 1]
<1>1. honest = [index |-> q * row_width + k, value |-> v, chunk_index |-> q,
                chunk_offset |-> q * row_width, leaf_pos |-> k,
                leaf_path |-> prove(build_levels(LeavesOf(Row(q), q * row_width)), k),
                chunk_root |-> merkle_from_values(Row(q), q * row_width),
                chunk_root_path |-> prove_kary(ChunkLevels(a), q, CHUNK_TREE_ARITY)]
  BY ValueParts
<1>2. C.length = a.length
  BY DEF stc_build_pc_commitment
<1>3. v \in Fields
  <2> k + 1 \in 1..row_width
    BY ColumnNamesType
  <2> QED BY DEF Rows
<1> HIDE DEF honest, v, C
<1>4. stc_verify_index(C, honest)
  <2>1. honest = [honest EXCEPT !.value = v]
    BY <1>1
  <2>2. stc_verify_index(C, [honest EXCEPT !.value = v]) <=> Row(q) = Row(q) /\ v = Row(q)[k + 1]
    BY <1>3, ValueOpensCommitted DEF honest, C
  <2> QED BY <2>1, <2>2 DEF v
<1>5. /\ proof.index = label /\ proof.value = honest.value
      /\ proof.chunk_index = honest.chunk_index /\ proof.chunk_offset = honest.chunk_offset
      /\ proof.leaf_pos = honest.leaf_pos /\ proof.leaf_path = honest.leaf_path
      /\ proof.chunk_root = honest.chunk_root /\ proof.chunk_root_path = honest.chunk_root_path
  BY <1>1
<1> HIDE DEF proof
<1>6. stc_verify_index(C, proof) <=> label \in 0..C.length - 1
  BY <1>4, <1>5, Zenon DEF stc_verify_index
<1>7. label \in 0..C.length - 1 <=> label < a.length
  BY <1>2
<1> QED BY <1>6, <1>7 DEF proof, honest, C

(* ----------------------- the openings of a run ------------------------ *)

\* The last chunk of a vector, like every chunk, has a root that has a depth.
LEMMA DepthOfChunk ==
  ASSUME NEW n \in Nat \ {0}, NEW cl \in Nat \ {0}, NEW values \in Vectors(n),
         NEW c \in 0..CeilDiv(n, cl) - 1
  PROVE  \E d \in Nat :
            HasDepth(root_from_levels(build_levels(LeavesIn(ChunksOf(values, cl), cl, c))), d)
<1> DEFINE chunks == ChunksOf(values, cl)
           m == ChunkSize(c + 1, cl, n)
           leaves == LeavesIn(chunks, cl, c)
<1>1. CeilDiv(n, cl) \in Nat \ {0} /\ c + 1 \in 1..CeilDiv(n, cl)
  BY ChunkCount
<1>2. m \in 1..cl /\ chunks[c + 1] \in Vectors(m)
  BY <1>1, ChunkShape
<1> HIDE DEF chunks, m
<1>3. m \in Nat \ {0} /\ Len(chunks[c + 1]) = m
  BY <1>2, FunctionIsSeq DEF Vectors
<1>4. /\ Level(leaves, m)
      /\ leaves[m - 1] = [leaf |-> <<c * cl, m - 1, chunks[c + 1][(m - 1) + 1] % Modulus>>]
  BY <1>3 DEF LeavesIn, LeavesOf, Level, chunk_leaf_hash
<1> HIDE DEF leaves
<1>5. \E d \in Nat : HasDepth(root_from_levels(build_levels(leaves)), d)
  BY <1>3, <1>4, DepthOfTree
<1> QED BY <1>5 DEF leaves, chunks

\* No batch with the chunk roots and the chunk proof of the opener verifies
\* when one of the chunks is alone in a group.
LEMMA LoneBatchRefused ==
  ASSUME NEW n \in Nat \ {0}, NEW cl \in Nat \ {0}, NEW values \in Vectors(n),
         NEW I, I \subseteq 0..n - 1, NEW i \in I, Alone(i \div cl, CeilDiv(n, cl)),
         NEW batch,
         batch.chunk_roots
            = open_batch(Accumulate(values, cl), I, ChunksOf(values, cl)).chunk_roots,
         batch.chunk_proof
            = open_batch(Accumulate(values, cl), I, ChunksOf(values, cl)).chunk_proof
  PROVE  ~ verify_batch(stc_build_pc_commitment(Accumulate(values, cl)), batch)
<1> DEFINE a == Accumulate(values, cl)
           chunks == ChunksOf(values, cl)
           N == CeilDiv(n, cl)
           C == stc_build_pc_commitment(a)
           S == HeldBy(I, cl)
           roots == [c \in 0..Len(a.chunks) - 1 |-> a.chunks[c + 1].root]
<1>1. Level(roots, N)
      /\ \A c \in 0..N - 1 : roots[c] = root_from_levels(build_levels(LeavesIn(chunks, cl, c)))
  BY VectorChunkRoots
<1>2. a.chunk_len = cl
  BY AccumulateShape
<1>3. N \in Nat \ {0} /\ \A j \in 0..n - 1 : j \div cl \in 0..N - 1
  BY ChunkCount
<1>4. N - 1 \in 0..N - 1
  BY <1>3
<1>5. \E d \in Nat : HasDepth(roots[N - 1], d)
  <2>1. \E d \in Nat : HasDepth(root_from_levels(build_levels(LeavesIn(chunks, cl, N - 1))), d)
    BY <1>4, DepthOfChunk
  <2> HIDE DEF roots, chunks, N
  <2> QED BY <1>1, <1>4, <2>1
<1>6. C.root = root_from_levels(ChunkLevels(a)) /\ ChunkLevels(a) = build_kary_levels(roots, CHUNK_TREE_ARITY)
  BY DEF stc_build_pc_commitment, ChunkLevels
<1>7. /\ batch.chunk_roots = [c \in S |-> root_from_levels(build_levels(LeavesIn(chunks, cl, c)))]
      /\ batch.chunk_proof = multiproof(ChunkLevels(a), S, CHUNK_TREE_ARITY)
  <2> HIDE DEF a, chunks
  <2> QED BY <1>2, BatchParts DEF a, chunks
<1>8. S \subseteq 0..N - 1 /\ i \div cl \in S
  <2>1. \A j \in I : j \div cl \in 0..N - 1
    BY <1>3
  <2> QED BY <2>1 DEF HeldBy
<1>9. Alone(i \div cl, N)
  OBVIOUS
<1> HIDE DEF a, chunks, N, roots, S, C
<1>10. batch.chunk_roots = Part(roots, S)
  BY <1>1, <1>7, <1>8 DEF Part
<1>11. ~ verify_multiproof(root_from_levels(build_kary_levels(roots, CHUNK_TREE_ARITY)),
                           Part(roots, S),
                           multiproof(build_kary_levels(roots, CHUNK_TREE_ARITY), S,
                                      CHUNK_TREE_ARITY))
  BY <1>1, <1>3, <1>5, <1>8, <1>9, AloneRefused
<1>12. ~ verify_multiproof(C.root, batch.chunk_roots, batch.chunk_proof)
  BY <1>6, <1>7, <1>10, <1>11
<1>13. ~ verify_batch(C, batch)
  BY <1>12 DEF verify_batch
<1> QED BY <1>13 DEF C, a

\* The values at I open together exactly if no chunk of theirs is alone in a
\* group.
THEOREM BatchOpensExactly ==
  ASSUME NEW n \in Nat \ {0}, NEW cl \in Nat \ {0}, NEW values \in Vectors(n),
         NEW I, I # {}, I \subseteq 0..n - 1
  PROVE  verify_batch(stc_build_pc_commitment(Accumulate(values, cl)),
                      open_batch(Accumulate(values, cl), I, ChunksOf(values, cl)))
            <=> ~ \E i \in I : Alone(i \div cl, CeilDiv(n, cl))
<1>1. ASSUME NEW i \in I, Alone(i \div cl, CeilDiv(n, cl))
      PROVE  ~ verify_batch(stc_build_pc_commitment(Accumulate(values, cl)),
                            open_batch(Accumulate(values, cl), I, ChunksOf(values, cl)))
  BY <1>1, LoneBatchRefused
<1> QED BY <1>1, BatchOpens

\* With another value at one of them they never open.
LEMMA ChangedBatchRefused ==
  ASSUME NEW n \in Nat \ {0}, NEW cl \in Nat \ {0}, NEW values \in Vectors(n),
         NEW I, I \subseteq 0..n - 1, NEW i \in I, NEW w, w % Modulus # values[i + 1]
  PROVE  ~ verify_batch(stc_build_pc_commitment(Accumulate(values, cl)),
                        [open_batch(Accumulate(values, cl), I, ChunksOf(values, cl))
                           EXCEPT !.entries[i].value = w])
<1> DEFINE C == stc_build_pc_commitment(Accumulate(values, cl))
           b == open_batch(Accumulate(values, cl), I, ChunksOf(values, cl))
           changed == [b EXCEPT !.entries[i].value = w]
<1>1. I # {}
  OBVIOUS
<1>2. CASE \E j \in I : Alone(j \div cl, CeilDiv(n, cl))
  <2>1. PICK j \in I : Alone(j \div cl, CeilDiv(n, cl))
    BY <1>2
  <2>2. changed.chunk_roots = b.chunk_roots /\ changed.chunk_proof = b.chunk_proof
    BY DEF open_batch
  <2> HIDE DEF changed
  <2>3. ~ verify_batch(C, changed)
    BY <2>1, <2>2, LoneBatchRefused
  <2> QED BY <2>3 DEF changed
<1>3. CASE ~ \E j \in I : Alone(j \div cl, CeilDiv(n, cl))
  <2>1. verify_batch(C, b)
    BY <1>1, <1>3, BatchOpensExactly
  <2> QED BY <2>1, OpenedBatchBinds
<1> QED BY <1>2, <1>3

\* And they never open when one of them is left out.
LEMMA DroppedEntryRefused ==
  ASSUME NEW a, NEW cl \in Nat \ {0}, a.chunk_len = cl, NEW I, I \subseteq Nat, NEW i \in I,
         NEW chunks, NEW C
  PROVE  ~ verify_batch(C, [open_batch(a, I, chunks) EXCEPT !.entries = Restrict(@, I \ {i})])
<1> DEFINE b == open_batch(a, I, chunks)
           left == [b EXCEPT !.entries = Restrict(@, I \ {i})]
           c == i \div cl
<1> SUFFICES ASSUME verify_batch(C, left) PROVE FALSE
  OBVIOUS
<1>1. /\ EntriesOf(b, chunks, cl, I)
      /\ b.chunk_roots = [d \in HeldBy(I, cl) |->
                             root_from_levels(build_levels(LeavesIn(chunks, cl, d)))]
      /\ \A d \in HeldBy(I, cl) : b.chunk_leaf_proofs[d] = ProofIn(chunks, cl, I, d)
  BY BatchParts
<1>2. /\ left.entries = Restrict(b.entries, I \ {i}) /\ left.chunk_roots = b.chunk_roots
      /\ left.chunk_leaf_proofs = b.chunk_leaf_proofs
  BY DEF open_batch
<1> HIDE DEF b, left
<1>3. /\ DOMAIN left.entries = I \ {i}
      /\ \A j \in I \ {i} : /\ left.entries[j].chunk_index = j \div cl
                            /\ left.entries[j].leaf_pos = j % cl
  <2>1. \A j \in I \ {i} : left.entries[j] = EntryOf(chunks, cl, j)
    BY <1>1, <1>2 DEF EntriesOf, Restrict
  <2> QED BY <1>2, <2>1, EntryFields DEF Restrict
<1>4. c \in DOMAIN left.chunk_roots /\ left.chunk_leaf_proofs[c].leaf_positions = Within(I, cl, c)
  <2>1. c \in HeldBy(I, cl)
    BY DEF HeldBy
  <2> QED BY <1>1, <1>2, <2>1, ProofFields
<1>5. {left.entries[j].leaf_pos : j \in Entries(left, c)} = Within(I, cl, c)
  <2>1. \A d \in DOMAIN left.chunk_roots :
           {left.entries[j].leaf_pos : j \in Entries(left, d)}
              = left.chunk_leaf_proofs[d].leaf_positions
    BY DEF verify_batch, Entries
  <2> QED BY <1>4, <2>1
<1>6. i % cl \in Within(I, cl, c)
  BY DEF Within
<1>7. PICK j \in Entries(left, c) : left.entries[j].leaf_pos = i % cl
  BY <1>5, <1>6
<1>8. j \in I \ {i} /\ j \div cl = i \div cl /\ j % cl = i % cl
  BY <1>3, <1>7 DEF Entries
<1>9. j = (j \div cl) * cl + (j % cl) /\ i = (i \div cl) * cl + (i % cl)
  <2> i \in Nat /\ j \in Nat
    BY <1>8
  <2> QED BY Quotient
<1> QED BY <1>8, <1>9

\* Under another label they open just as well, if it is one of the vector's.
LEMMA RelabelledBatch ==
  ASSUME NEW a, NEW cl \in Nat \ {0}, a.chunk_len = cl, NEW I, I \subseteq Nat, NEW chunks,
         NEW i \in I, NEW label \in Nat \ I, NEW C, C.length \in Nat, I \subseteq 0..C.length - 1
  PROVE  verify_batch(C, Relabelled(open_batch(a, I, chunks), i, label))
            <=> verify_batch(C, open_batch(a, I, chunks)) /\ label < C.length
<1> DEFINE b == open_batch(a, I, chunks)
           r == Relabelled(b, i, label)
           J == (I \ {i}) \cup {label}
           From(x) == IF x = label THEN i ELSE x
<1>1. EntriesOf(b, chunks, cl, I)
  BY BatchParts
<1>2. /\ r.chunk_roots = b.chunk_roots /\ r.chunk_leaf_proofs = b.chunk_leaf_proofs
      /\ r.chunk_proof = b.chunk_proof
      /\ r.entries = [x \in (DOMAIN b.entries \ {i}) \cup {label} |->
                         IF x = label THEN b.entries[i] ELSE b.entries[x]]
  BY DEF open_batch, Relabelled
<1> HIDE DEF b, r
<1>3. /\ DOMAIN b.entries = I /\ DOMAIN r.entries = J
      /\ \A x \in J : From(x) \in I /\ r.entries[x] = b.entries[From(x)]
      /\ \A y \in I : \E x \in J : From(x) = y
  <2>1. DOMAIN b.entries = I
    BY <1>1 DEF EntriesOf
  <2>2. DOMAIN r.entries = J /\ \A x \in J : r.entries[x] = b.entries[From(x)]
    BY <1>2, <2>1
  <2>3. \A x \in J : From(x) \in I
    OBVIOUS
  <2>4. ASSUME NEW y \in I PROVE \E x \in J : From(x) = y
    <3>1. CASE y = i
      <4>1. label \in J /\ From(label) = y
        BY <3>1
      <4> QED BY <4>1
    <3>2. CASE y # i
      <4>1. y \in J /\ From(y) = y
        BY <3>2
      <4> QED BY <4>1
    <3> QED BY <3>1, <3>2
  <2> QED BY <2>1, <2>2, <2>3, <2>4
<1>4. \A y \in I : /\ b.entries[y].chunk_index = y \div cl /\ b.entries[y].leaf_pos = y % cl
                   /\ b.entries[y].value = chunks[y \div cl + 1][(y % cl) + 1]
  BY <1>1, EntryFields DEF EntriesOf
<1> HIDE DEF J, From
<1>5. ASSUME NEW c
      PROVE  {r.entries[x].leaf_pos : x \in Entries(r, c)} = {b.entries[y].leaf_pos : y \in Entries(b, c)}
  <2>1. ASSUME NEW x \in Entries(r, c)
        PROVE  From(x) \in Entries(b, c) /\ r.entries[x].leaf_pos = b.entries[From(x)].leaf_pos
    BY <1>3 DEF Entries
  <2>2. ASSUME NEW y \in Entries(b, c)
        PROVE  \E x \in Entries(r, c) : r.entries[x].leaf_pos = b.entries[y].leaf_pos
    <3>1. PICK x \in J : From(x) = y
      BY <1>3 DEF Entries
    <3>2. r.entries[x] = b.entries[y] /\ x \in DOMAIN r.entries
      BY <1>3, <3>1
    <3> QED BY <3>2 DEF Entries
  <2> QED BY <2>1, <2>2
<1>6. ASSUME NEW c, NEW pos \in {b.entries[y].leaf_pos : y \in Entries(b, c)}
      PROVE  ValueAt(r, c, pos) = ValueAt(b, c, pos)
  <2> DEFINE x == CHOOSE x \in Entries(r, c) : r.entries[x].leaf_pos = pos
             y == CHOOSE y \in Entries(b, c) : b.entries[y].leaf_pos = pos
  <2>0. \E z \in Entries(r, c) : r.entries[z].leaf_pos = pos
    <3>1. pos \in {r.entries[z].leaf_pos : z \in Entries(r, c)}
      <4> HIDE DEF x, y
      <4> QED BY <1>5
    <3> HIDE DEF x, y
    <3> QED BY <3>1
  <2>1. x \in Entries(r, c) /\ r.entries[x].leaf_pos = pos
    BY <2>0
  <2>2. y \in Entries(b, c) /\ b.entries[y].leaf_pos = pos
    OBVIOUS
  <2>3. ValueAt(r, c, pos) = r.entries[x].value /\ ValueAt(b, c, pos) = b.entries[y].value
    BY DEF ValueAt
  <2> HIDE DEF x, y
  <2>4. /\ From(x) \in I /\ r.entries[x] = b.entries[From(x)] /\ y \in I
        /\ b.entries[From(x)].chunk_index = c /\ b.entries[From(x)].leaf_pos = pos
        /\ b.entries[y].chunk_index = c /\ b.entries[y].leaf_pos = pos
    BY <1>3, <2>1, <2>2 DEF Entries
  <2>5. From(x) \div cl = y \div cl /\ From(x) % cl = y % cl
    BY <1>4, <2>4
  <2> QED BY <1>4, <2>3, <2>4, <2>5
<1>7. {r.entries[x].chunk_index : x \in DOMAIN r.entries}
         = {b.entries[y].chunk_index : y \in DOMAIN b.entries}
  <2>1. ASSUME NEW y \in I PROVE \E x \in J : r.entries[x] = b.entries[y]
    BY <1>3
  <2> QED BY <1>3, <2>1
<1>8. ASSUME NEW c \in DOMAIN b.chunk_roots
      PROVE  ChunkPasses(r, c) <=> ChunkPasses(b, c)
  <2> DEFINE P == b.chunk_leaf_proofs[c].leaf_positions
  <2>1. CASE {b.entries[y].leaf_pos : y \in Entries(b, c)} = P
    <3>1. \A pos \in P : ValueAt(r, c, pos) = ValueAt(b, c, pos)
      BY <1>6, <2>1
    <3>2. LeafHashes(r, c) = LeafHashes(b, c)
      BY <1>2, <3>1 DEF LeafHashes
    <3> QED BY <1>2, <1>5, <3>2 DEF ChunkPasses
  <2>2. CASE {b.entries[y].leaf_pos : y \in Entries(b, c)} # P
    BY <1>2, <1>5, <2>2 DEF ChunkPasses
  <2> QED BY <2>1, <2>2
<1>9. ASSUME verify_batch(C, b), label < C.length PROVE verify_batch(C, r)
  <2>1. BatchAsks(C, b)
    BY <1>9, BatchAsksAll
  <2>2. J # {} /\ J \subseteq 0..C.length - 1
    BY <1>9 DEF J
  <2>3. \A x \in J : r.entries[x].chunk_index < C.num_chunks
    BY <1>3, <2>1 DEF BatchAsks
  <2>4. BatchAsks(C, r)
    BY <1>2, <1>3, <1>7, <1>8, <2>1, <2>2, <2>3 DEF BatchAsks
  <2> QED BY <2>4, BatchPasses DEF BatchAsks
<1>10. ASSUME verify_batch(C, r) PROVE verify_batch(C, b) /\ label < C.length
  <2>1. BatchAsks(C, r)
    BY <1>10, BatchAsksAll
  <2>2. label < C.length
    <3>1. label \in J
      BY DEF J
    <3> QED BY <1>3, <2>1, <3>1 DEF BatchAsks
  <2>3. \A y \in I : b.entries[y].chunk_index < C.num_chunks
    BY <1>3, <2>1 DEF BatchAsks
  <2>4. BatchAsks(C, b)
    BY <1>2, <1>3, <1>7, <1>8, <2>1, <2>3 DEF BatchAsks
  <2> QED BY <2>2, <2>4, BatchPasses DEF BatchAsks
<1> QED BY <1>9, <1>10 DEF b, r

\* Another number is another field element.
LEMMA OtherDiffers ==
  ASSUME NEW v \in Fields
  PROVE  Other(v) % Modulus # v
<1> DEFINE w == (v + 1) % Modulus
<1>1. /\ Modulus \in Nat /\ Modulus > 1 /\ v \in 0..Modulus - 1
  BY ModulusType DEF Fields
<1>2. /\ v + 1 < Modulus => w = v + 1
      /\ v + 1 = Modulus => w = 0
  BY <1>1
<1>3. w \in 0..Modulus - 1 /\ w # v
  BY <1>1, <1>2
<1>4. w % Modulus = w
  BY <1>1, <1>3
<1> QED BY <1>3, <1>4 DEF Other

\* One or two positions are positions, and at least one.
LEMMA FewPositions ==
  ASSUME NEW S, NEW I \in kSubset(1, S) \cup kSubset(2, S)
  PROVE  I \subseteq S /\ I # {}
<1>1. I \subseteq S /\ Cardinality(I) \in {1, 2}
  BY DEF kSubset
<1>2. I # {}
  BY <1>1, FS_EmptySet
<1> QED BY <1>1, <1>2

LEMMA OpeningsHold ==
  ASSUME IInv
  PROVE  OpeningsBind
<1> DEFINE C == stc_build_pc_commitment(acc)
           words == Prepared[job].composition
           composed == Accumulate(words, ChunkLen)
           chunks == ChunksOf(words, ChunkLen)
           At(q, k) == stc_open_index(acc, q * row_width + k, Row(q))
           Several(I) == open_batch(composed, I, chunks)
           D == stc_build_pc_commitment(composed)
           n == Cfg.domain_size
<1> SUFFICES ASSUME phase = "sample"
    PROVE  /\ \A i, k \in Domain :
                  /\ stc_verify_chunk(C, stc_open_chunk(acc, i, Row(k))) <=> Row(i) = Row(k)
                  /\ stc_verify_chunk(C, [stc_open_chunk(acc, i, Row(i)) EXCEPT !.chunk_index = k])
                        <=> i = k
           /\ \A i, q \in Domain, k \in {0, row_width - 1} :
                  stc_verify_index(C, [At(q, k) EXCEPT !.chunk_index = i]) <=> i = q
           /\ \A q \in Domain, k, m \in {0, 1, row_width - 1} :
                  stc_verify_index(C, [At(q, k) EXCEPT !.leaf_pos = m]) <=> k = m
           /\ \A q \in Domain, k \in {0, row_width - 1} :
                  ~ stc_verify_index(C, [At(q, k) EXCEPT !.value = Other(@)])
           /\ \A q \in Domain, k \in {0, row_width - 1}, label \in {0, acc.length - 1, acc.length} :
                  stc_verify_index(C, [At(q, k) EXCEPT !.index = label]) <=> label < acc.length
           /\ \A I \in kSubset(1, Domain) \cup kSubset(2, Domain) : \A batch \in {Several(I)} :
                  /\ verify_batch(D, batch) <=> ~ AloneIn(I, Cfg.domain_size)
                  /\ \A i \in I :
                        /\ ~ verify_batch(D, [batch EXCEPT !.entries[i].value = Other(@)])
                        /\ ~ verify_batch(D, [batch EXCEPT !.entries = Restrict(@, I \ {i})])
                        /\ \A label \in 0..Cfg.domain_size \ I :
                              verify_batch(D, Relabelled(batch, i, label))
                                 <=> verify_batch(D, batch) /\ label < Cfg.domain_size
  BY DEF OpeningsBind
<1>1. /\ n \in Nat \ {0} /\ Domain = 0..n - 1
      /\ \A i \in Domain : Row(i) \in Rows
  BY RunType DEF IInv, Domain
<1>2. Accumulated(acc, n)
  BY <1>1 DEF IInv, CommitOK
<1>3. words \in Vectors(n) /\ ChunkLen \in Nat \ {0}
  BY PreparedComposition, ProofAssumption DEF IInv, Cfg
<1>4. {0, 1, row_width - 1} \subseteq 0..row_width - 1
  BY RowWidth
<1> HIDE DEF n
<1>5. ASSUME NEW i \in Domain, NEW k \in Domain
      PROVE  /\ stc_verify_chunk(C, stc_open_chunk(acc, i, Row(k))) <=> Row(i) = Row(k)
             /\ stc_verify_chunk(C, [stc_open_chunk(acc, i, Row(i)) EXCEPT !.chunk_index = k])
                   <=> i = k
  <2>1. i \in 0..n - 1 /\ Row(i) \in Rows /\ Row(k) \in Rows /\ \A j \in 0..n - 1 : Row(j) \in Rows
    BY <1>1
  <2>2. stc_verify_chunk(C, stc_open_chunk(acc, i, Row(k))) <=> Row(k) = Row(i)
    BY <1>1, <1>2, <2>1, ChunkOpensCommitted
  <2>3. stc_verify_chunk(C, [stc_open_chunk(acc, i, Row(i)) EXCEPT !.chunk_index = k]) <=> i = k
    BY <1>1, <1>2, <2>1, MovedChunk
  <2> QED BY <2>2, <2>3
<1>6. ASSUME NEW i \in Domain, NEW q \in Domain, NEW k \in {0, row_width - 1}
      PROVE  stc_verify_index(C, [At(q, k) EXCEPT !.chunk_index = i]) <=> i = q
  <2>1. q \in 0..n - 1 /\ k \in 0..row_width - 1 /\ \A j \in 0..n - 1 : Row(j) \in Rows
    BY <1>1, <1>4
  <2> QED BY <1>1, <1>2, <2>1, MovedValue
<1>7. ASSUME NEW q \in Domain, NEW k \in {0, 1, row_width - 1}, NEW m \in {0, 1, row_width - 1}
      PROVE  stc_verify_index(C, [At(q, k) EXCEPT !.leaf_pos = m]) <=> k = m
  <2>1. q \in 0..n - 1 /\ Row(q) \in Rows /\ k \in 0..row_width - 1 /\ m \in 0..row_width - 1
    BY <1>1, <1>4
  <2> QED BY <1>1, <1>2, <2>1, ShiftedValue
<1>8. ASSUME NEW q \in Domain, NEW k \in {0, row_width - 1}
      PROVE  ~ stc_verify_index(C, [At(q, k) EXCEPT !.value = Other(@)])
  <2>1. q \in 0..n - 1 /\ Row(q) \in Rows /\ k \in 0..row_width - 1
    BY <1>1, <1>4
  <2> QED BY <1>1, <1>2, <2>1, ChangedValue
<1>9. ASSUME NEW I \in kSubset(1, Domain) \cup kSubset(2, Domain)
      PROVE  /\ verify_batch(D, Several(I)) <=> ~ AloneIn(I, Cfg.domain_size)
             /\ \A i \in I :
                   /\ ~ verify_batch(D, [Several(I) EXCEPT !.entries[i].value = Other(@)])
                   /\ ~ verify_batch(D, [Several(I) EXCEPT !.entries = Restrict(@, I \ {i})])
                   /\ \A label \in 0..Cfg.domain_size \ I :
                         verify_batch(D, Relabelled(Several(I), i, label))
                            <=> verify_batch(D, Several(I)) /\ label < Cfg.domain_size
  <2>1. I \subseteq Domain /\ I # {}
    BY FewPositions
  <2>2. I \subseteq 0..n - 1 /\ I \subseteq Nat
    BY <1>1, <2>1
  <2>3. verify_batch(D, Several(I)) <=> ~ AloneIn(I, n)
    BY <1>1, <1>3, <2>1, <2>2, BatchOpensExactly DEF AloneIn
  <2>4. composed.chunk_len = ChunkLen
    <3> HIDE DEF words
    <3> QED BY <1>1, <1>3, AccumulateShape
  <2>5. ASSUME NEW i \in I
        PROVE  /\ ~ verify_batch(D, [Several(I) EXCEPT !.entries[i].value = Other(@)])
               /\ ~ verify_batch(D, [Several(I) EXCEPT !.entries = Restrict(@, I \ {i})])
    <3> DEFINE v == Several(I).entries[i].value
               w == Other(v)
    <3>1. v = words[i + 1] /\ words[i + 1] \in Fields
      <4>1. EntriesOf(Several(I), chunks, ChunkLen, I)
        BY <2>4, BatchParts
      <4>2. Several(I).entries[i] = EntryOf(chunks, ChunkLen, i)
        BY <4>1 DEF EntriesOf
      <4>3. InChunk(chunks, ChunkLen, words, i)
        BY <1>1, <1>3, <2>2, ChunkPlace
      <4>4. words[i + 1] \in Fields
        BY <1>1, <1>3, <2>2 DEF Vectors
      <4> QED BY <4>2, <4>3, <4>4, EntryFields DEF InChunk
    <3>2. w % Modulus # words[i + 1]
      BY <3>1, OtherDiffers
    <3> HIDE DEF w
    <3>3. ~ verify_batch(D, [Several(I) EXCEPT !.entries[i].value = w])
      BY <1>1, <1>3, <2>2, <3>2, ChangedBatchRefused
    <3>4. ~ verify_batch(D, [Several(I) EXCEPT !.entries = Restrict(@, I \ {i})])
      BY <1>3, <2>2, <2>4, DroppedEntryRefused
    <3> QED BY <3>3, <3>4 DEF w
  <2>6. ASSUME NEW i \in I, NEW label \in 0..n \ I
        PROVE  verify_batch(D, Relabelled(Several(I), i, label))
                  <=> verify_batch(D, Several(I)) /\ label < n
    <3>1. D.length = n
      <4>1. composed.length = n
        <5> HIDE DEF words
        <5> QED BY <1>1, <1>3, AccumulateShape
      <4> QED BY <4>1 DEF stc_build_pc_commitment
    <3>2. label \in Nat \ I /\ n \in Nat
      BY <1>1
    <3> HIDE DEF D, composed, chunks
    <3> QED BY <1>3, <2>2, <2>4, <3>1, <3>2, RelabelledBatch
  <2> QED BY <2>3, <2>5, <2>6 DEF n
<1>11. ASSUME NEW q \in Domain, NEW k \in {0, row_width - 1},
              NEW label \in {0, acc.length - 1, acc.length}
       PROVE  stc_verify_index(C, [At(q, k) EXCEPT !.index = label]) <=> label < acc.length
  <2>1. q \in 0..n - 1 /\ Row(q) \in Rows /\ k \in 0..row_width - 1
    BY <1>1, <1>4
  <2>2. acc.length \in Nat \ {0}
    <3>1. C.length = acc.length
      BY DEF stc_build_pc_commitment
    <3>2. q * row_width + k \in 0..C.length - 1
      BY <1>1, <1>2, <2>1, ValueParts
    <3>3. acc.length = n * row_width \/ acc.length = row_width * n
      BY <1>2 DEF Accumulated
    <3> QED BY <1>1, <3>1, <3>2, <3>3, ColumnNamesType
  <2>3. label \in Nat
    BY <2>2
  <2> QED BY <1>1, <1>2, <2>1, <2>2, <2>3, RelabelledValue
<1> HIDE DEF C, D, At, Several, chunks, composed, words
<1>10. \A I \in kSubset(1, Domain) \cup kSubset(2, Domain) : \A batch \in {Several(I)} :
         /\ verify_batch(D, batch) <=> ~ AloneIn(I, Cfg.domain_size)
         /\ \A i \in I :
               /\ ~ verify_batch(D, [batch EXCEPT !.entries[i].value = Other(@)])
               /\ ~ verify_batch(D, [batch EXCEPT !.entries = Restrict(@, I \ {i})])
               /\ \A label \in 0..Cfg.domain_size \ I :
                     verify_batch(D, Relabelled(batch, i, label))
                        <=> verify_batch(D, batch) /\ label < Cfg.domain_size
  <2> SUFFICES ASSUME NEW I \in kSubset(1, Domain) \cup kSubset(2, Domain)
      PROVE  /\ verify_batch(D, Several(I)) <=> ~ AloneIn(I, Cfg.domain_size)
             /\ \A i \in I :
                   /\ ~ verify_batch(D, [Several(I) EXCEPT !.entries[i].value = Other(@)])
                   /\ ~ verify_batch(D, [Several(I) EXCEPT !.entries = Restrict(@, I \ {i})])
                   /\ \A label \in 0..Cfg.domain_size \ I :
                         verify_batch(D, Relabelled(Several(I), i, label))
                            <=> verify_batch(D, Several(I)) /\ label < Cfg.domain_size
    OBVIOUS
  <2> QED BY <1>9
<1> QED BY <1>5, <1>6, <1>7, <1>8, <1>10, <1>11

(* ---------------------- arithmetic of the field ----------------------- *)

LEMMA ModulusParts ==
  ASSUME NEW x \in Nat
  PROVE  /\ Modulus \in Nat \ {0} /\ x \div Modulus \in Nat
         /\ x % Modulus \in Nat /\ x % Modulus \in 0..Modulus - 1
         /\ x = (x \div Modulus) * Modulus + (x % Modulus)
<1>1. Modulus \in Nat \ {0}
  BY ModulusType
<1>2. x % Modulus \in 0..Modulus - 1
  BY <1>1, Quotient
<1>3. x % Modulus \in Nat
  BY <1>1, <1>2
<1>4. x \div Modulus \in Nat /\ x = (x \div Modulus) * Modulus + (x % Modulus)
  BY <1>1, Quotient
<1> QED BY <1>1, <1>2, <1>3, <1>4

\* Reducing a number before it is added or multiplied changes nothing.
LEMMA MultiplesVanish ==
  ASSUME NEW q \in Nat, NEW x \in Nat
  PROVE  (q * Modulus + x) % Modulus = x % Modulus
<1> DEFINE p == x \div Modulus
           r == x % Modulus
<1>1. Modulus \in Nat \ {0} /\ p \in Nat /\ r \in 0..Modulus - 1 /\ x = p * Modulus + r
  BY ModulusParts
<1> HIDE DEF p, r
<1>2. q * Modulus + x = (q + p) * Modulus + r /\ q + p \in Nat /\ q * Modulus + x \in Nat
  BY <1>1
<1>3. (q * Modulus + x) % Modulus = r
  BY <1>1, <1>2, QuotientUnique
<1> QED BY <1>3 DEF r

LEMMA SumReduced ==
  ASSUME NEW x \in Nat, NEW y \in Nat
  PROVE  ((x % Modulus) + y) % Modulus = (x + y) % Modulus
<1> DEFINE p == x \div Modulus
           r == x % Modulus
<1>1. Modulus \in Nat \ {0} /\ p \in Nat /\ r \in Nat /\ x = p * Modulus + r
  BY ModulusParts
<1> HIDE DEF p, r
<1> DEFINE z == r + y
<1>2. x + y = p * Modulus + z /\ z \in Nat
  BY <1>1
<1> HIDE DEF z
<1>3. (p * Modulus + z) % Modulus = z % Modulus
  BY <1>1, <1>2, MultiplesVanish
<1>4. (x + y) % Modulus = z % Modulus
  BY <1>2, <1>3
<1> QED BY <1>4 DEF r, z

LEMMA ProductReduced ==
  ASSUME NEW x \in Nat, NEW y \in Nat
  PROVE  ((x % Modulus) * y) % Modulus = (x * y) % Modulus
<1> DEFINE p == x \div Modulus
           r == x % Modulus
<1>1. Modulus \in Nat \ {0} /\ p \in Nat /\ r \in Nat /\ x = p * Modulus + r
  BY ModulusParts
<1> HIDE DEF p, r
<1> DEFINE q == p * y
           z == r * y
<1>2. x * y = q * Modulus + z /\ q \in Nat /\ z \in Nat
  BY <1>1
<1> HIDE DEF q, z
<1>3. (q * Modulus + z) % Modulus = z % Modulus
  BY <1>2, MultiplesVanish
<1>4. (x * y) % Modulus = z % Modulus
  BY <1>2, <1>3
<1> QED BY <1>4 DEF r, z

\* Squaring what was multiplied by r once more is multiplying the square by r twice.
LEMMA SquareReduced ==
  ASSUME NEW h \in Nat, NEW r \in Nat
  PROVE  (((h * r) % Modulus) * ((h * r) % Modulus)) % Modulus
            = (((((h * h) % Modulus) * r) % Modulus) * r) % Modulus
<1> DEFINE m == (h * r) % Modulus
<1>1. h * r \in Nat /\ h * h \in Nat /\ (h * h) * r \in Nat /\ Modulus \in Nat \ {0}
  BY ModulusType
<1>2. m \in Nat
  BY <1>1
<1>3. (m * m) % Modulus = ((h * r) * m) % Modulus
  BY <1>1, <1>2, ProductReduced
<1>4. (m * (h * r)) % Modulus = ((h * r) * (h * r)) % Modulus
  BY <1>1, <1>2, ProductReduced
<1> HIDE DEF m
<1>5. (h * r) * m = m * (h * r)
  BY <1>1, <1>2
<1>6. (h * r) * (h * r) = ((h * h) * r) * r
  OBVIOUS
<1> DEFINE s == (h * h) * r
           t == ((h * h) % Modulus) * r
<1>7. (t % Modulus) = s % Modulus
  BY <1>1, ProductReduced
<1>8. ((s % Modulus) * r) % Modulus = (s * r) % Modulus
  BY <1>1, ProductReduced
<1> QED BY <1>3, <1>4, <1>5, <1>6, <1>7, <1>8 DEF m

\* One turn of squaring.
Squared(r, half, k) == (((half * half) % Modulus) * (IF k % 2 = 0 THEN 1 ELSE r)) % Modulus

PowerSteps(power, r, n) ==
    /\ power[0] = 1
    /\ \A k \in 1..n : power[k] = Squared(r, power[k \div 2], k)

LEMMA PowUnfold ==
  ASSUME NEW r, NEW n \in Nat
  PROVE  \E power : PowerSteps(power, r, n) /\ PowMod(r, n) = power[n]
<1> DEFINE Up(g, d) == [k \in 0..d |-> IF k = 0 THEN 1 ELSE Squared(r, g[k \div 2], k)]
           Built == {d \in Nat : \E g : g = Up(g, d)}
           at == CHOOSE g : g = Up(g, n)
<1>1. PowMod(r, n) = at[n]
  BY DEF PowMod, Squared
<1>2. 0 \in Built
  <2> DEFINE h == Up([k \in 0..0 |-> 0], 0)
  <2>1. h = Up(h, 0)
    OBVIOUS
  <2> HIDE DEF h, Up
  <2> QED BY <2>1
<1>3. ASSUME NEW d \in Nat, d \in Built
      PROVE  d + 1 \in Built
  <2>1. PICK g : g = Up(g, d)
    BY <1>3
  <2> DEFINE h == Up(g, d + 1)
  <2>2. \A k \in 0..d : h[k] = g[k]
    BY <2>1
  <2>3. h = Up(h, d + 1)
    <3>1. \A k \in 0..d + 1 : k # 0 => k \div 2 \in 0..d
      OBVIOUS
    <3> QED BY <2>2, <3>1
  <2> HIDE DEF h, Up
  <2> QED BY <2>3
<1>4. \A d \in Nat : d \in Built
  <2> HIDE DEF Built
  <2> QED BY <1>2, <1>3, SetInduction
<1>5. PICK g : g = Up(g, n)
  BY <1>4
<1>6. at = Up(at, n)
  BY <1>5
<1> HIDE DEF at
<1>7. PowerSteps(at, r, n)
  BY <1>6 DEF PowerSteps
<1> QED BY <1>1, <1>7

\* Powers are numbers below the modulus, and each is the one before times r.
LEMMA PowerStepsLinear ==
  ASSUME NEW r \in Nat, NEW n \in Nat, NEW power, PowerSteps(power, r, n)
  PROVE  /\ \A k \in 0..n : power[k] \in 0..Modulus - 1
         /\ \A k \in 0..n - 1 : power[k + 1] = (power[k] * r) % Modulus
<1> DEFINE Number == {k \in Nat : \A j \in 0..k : j <= n => power[j] \in 0..Modulus - 1}
           Linear == {k \in Nat : \A j \in 0..k : j < n => power[j + 1] = (power[j] * r) % Modulus}
<1>1. Modulus \in Nat \ {0, 1}
  BY ModulusType
<1>2. power[0] = 1 /\ \A k \in 1..n : power[k] = Squared(r, power[k \div 2], k)
  BY DEF PowerSteps
<1>3. ASSUME NEW h \in Nat, NEW k \in Nat PROVE Squared(r, h, k) \in 0..Modulus - 1
  <2>1. h * h \in Nat
    BY <1>3
  <2>2. (h * h) % Modulus \in Nat
    BY <2>1, ModulusParts
  <2> DEFINE f == IF k % 2 = 0 THEN 1 ELSE r
             g == (h * h) % Modulus
  <2> HIDE DEF g
  <2>3. g * f \in Nat
    BY <2>2 DEF g
  <2> HIDE DEF f
  <2>4. (g * f) % Modulus \in 0..Modulus - 1
    BY <2>3, ModulusParts
  <2> QED BY <2>4 DEF Squared, g, f
<1>4. \A k \in Nat : k \in Number
  <2>1. 0 \in Number
    BY <1>1, <1>2
  <2>2. ASSUME NEW k \in Nat, k \in Number PROVE k + 1 \in Number
    <3> SUFFICES ASSUME k + 1 <= n PROVE power[k + 1] \in 0..Modulus - 1
      BY <2>2
    <3>1. k + 1 \in 1..n /\ (k + 1) \div 2 \in 0..k /\ (k + 1) \div 2 <= n
      OBVIOUS
    <3>2. power[(k + 1) \div 2] \in 0..Modulus - 1
      BY <2>2, <3>1
    <3>3. power[(k + 1) \div 2] \in Nat
      BY <1>1, <3>2
    <3>4. power[k + 1] = Squared(r, power[(k + 1) \div 2], k + 1)
      BY <1>2, <3>1
    <3>5. Squared(r, power[(k + 1) \div 2], k + 1) \in 0..Modulus - 1
      <4> k + 1 \in Nat
        OBVIOUS
      <4> DEFINE h == power[(k + 1) \div 2]
      <4> HIDE DEF h
      <4>1. h \in Nat
        BY <3>3 DEF h
      <4>2. Squared(r, h, k + 1) \in 0..Modulus - 1
        BY <1>3, <4>1
      <4> QED BY <4>2 DEF h
    <3> QED BY <3>4, <3>5
  <2> HIDE DEF Number
  <2> QED BY <2>1, <2>2, SetInduction
<1>5. \A k \in 0..n : power[k] \in 0..Modulus - 1
  <2> TAKE k \in 0..n
  <2>1. k \in Number /\ k \in 0..k /\ k <= n
    BY <1>4
  <2> QED BY <2>1
<1>6. \A k \in 0..n : power[k] \in Nat
  BY <1>1, <1>5
<1>7. \A h \in Nat : /\ h * h \in Nat
                     /\ (((h * h) % Modulus) * 1) % Modulus = (h * h) % Modulus
  <2> TAKE h \in Nat
  <2> DEFINE s == h * h
  <2>1. s \in Nat
    OBVIOUS
  <2> HIDE DEF s
  <2>2. s % Modulus \in 0..Modulus - 1
    BY <2>1, ModulusParts
  <2> DEFINE t == s % Modulus
  <2> HIDE DEF t
  <2>3. t \in 0..Modulus - 1
    BY <2>2 DEF t
  <2>4. (t * 1) % Modulus = t
    BY <1>1, <2>3
  <2> QED BY <2>1, <2>4 DEF s, t
<1>8. ASSUME NEW k \in 0..n - 1, \A j \in 0..k - 1 : power[j + 1] = (power[j] * r) % Modulus
      PROVE  power[k + 1] = (power[k] * r) % Modulus
  <2> DEFINE m == k \div 2
             h == power[m]
  <2>1. k \in Nat /\ m \in 0..k /\ m \in 0..n /\ k + 1 \in 1..n
    OBVIOUS
  <2>2. h \in Nat
    BY <1>6, <2>1
  <2>3. CASE k = 0
    <3>1. (0 + 1) \div 2 = 0 /\ (0 + 1) % 2 = 1 /\ 1 \in 1..n
      BY <2>3
    <3>2. power[1] = Squared(r, 1, 1)
      BY <1>2, <3>1
    <3>3. Squared(r, 1, 1) = (1 * r) % Modulus
      <4>1. (1 * 1) % Modulus = 1 /\ 1 % 2 = 1
        BY <1>1
      <4> QED BY <4>1 DEF Squared
    <3> QED BY <1>2, <2>3, <3>2, <3>3
  <2>4. CASE k # 0 /\ k % 2 = 0
    <3>1. (k + 1) \div 2 = m /\ (k + 1) % 2 = 1 /\ k \in 1..n
      BY <2>1, <2>4
    <3>2. power[k] = (h * h) % Modulus
      BY <1>2, <1>7, <2>2, <2>4, <3>1 DEF Squared
    <3>3. power[k + 1] = (((h * h) % Modulus) * r) % Modulus
      BY <1>2, <2>1, <3>1 DEF Squared
    <3> QED BY <3>2, <3>3
  <2>5. CASE k % 2 # 0
    <3>1. (k + 1) \div 2 = m + 1 /\ (k + 1) % 2 = 0 /\ k \in 1..n /\ m \in 0..k - 1
      BY <2>1, <2>5
    <3> DEFINE g == power[m + 1]
    <3>2. g = (h * r) % Modulus
      BY <1>8, <3>1
    <3>3. g \in Nat
      BY <1>6, <3>1
    <3>4. power[k] = (((h * h) % Modulus) * r) % Modulus
      BY <1>2, <2>5, <3>1 DEF Squared
    <3>5. power[k + 1] = (g * g) % Modulus
      BY <1>2, <1>7, <2>1, <3>1, <3>3 DEF Squared
    <3> HIDE DEF h, g, m
    <3>6. (g * g) % Modulus = (((((h * h) % Modulus) * r) % Modulus) * r) % Modulus
      BY <2>2, <3>2, SquareReduced
    <3> QED BY <3>4, <3>5, <3>6
  <2> QED BY <2>1, <2>3, <2>4, <2>5
<1>9. \A k \in Nat : k \in Linear
  <2>1. 0 \in Linear
    <3>1. ASSUME 0 < n PROVE power[0 + 1] = (power[0] * r) % Modulus
      <4>1. 0 \in 0..n - 1 /\ \A j \in 0..0 - 1 : power[j + 1] = (power[j] * r) % Modulus
        BY <3>1
      <4> QED BY <1>8, <4>1
    <3> QED BY <3>1
  <2>2. ASSUME NEW k \in Nat, k \in Linear PROVE k + 1 \in Linear
    <3> SUFFICES ASSUME k + 1 < n PROVE power[(k + 1) + 1] = (power[k + 1] * r) % Modulus
      BY <2>2
    <3>1. k + 1 \in 0..n - 1 /\ \A j \in 0..(k + 1) - 1 : j \in 0..k /\ j < n
      OBVIOUS
    <3>2. \A j \in 0..(k + 1) - 1 : power[j + 1] = (power[j] * r) % Modulus
      BY <2>2, <3>1
    <3> QED BY <1>8, <3>1, <3>2
  <2> HIDE DEF Linear
  <2> QED BY <2>1, <2>2, SetInduction
<1>10. \A k \in 0..n - 1 : power[k + 1] = (power[k] * r) % Modulus
  <2> TAKE k \in 0..n - 1
  <2>1. k \in Linear /\ k \in 0..k /\ k < n
    BY <1>9
  <2> QED BY <2>1
<1> QED BY <1>5, <1>10

\* The power that squaring finds is the power of r, whichever it is.
LEMMA PowNext ==
  ASSUME NEW r \in Nat, NEW n \in Nat
  PROVE  /\ PowMod(r, 0) = 1 /\ PowMod(r, n) \in 0..Modulus - 1 /\ PowMod(r, n) \in Nat
         /\ PowMod(r, n + 1) = (PowMod(r, n) * r) % Modulus
<1>1. PICK power : PowerSteps(power, r, n) /\ PowMod(r, n) = power[n]
  BY PowUnfold
<1>2. PICK longer : PowerSteps(longer, r, n + 1) /\ PowMod(r, n + 1) = longer[n + 1]
  BY PowUnfold
<1>3. PICK none : PowerSteps(none, r, 0) /\ PowMod(r, 0) = none[0]
  BY PowUnfold
<1>4. /\ \A k \in 0..n : power[k] \in 0..Modulus - 1
      /\ \A k \in 0..n - 1 : power[k + 1] = (power[k] * r) % Modulus
      /\ \A k \in 0..n : longer[k + 1] = (longer[k] * r) % Modulus
      /\ power[0] = 1 /\ longer[0] = 1 /\ none[0] = 1
  <2>1. /\ \A k \in 0..n : power[k] \in 0..Modulus - 1
        /\ \A k \in 0..n - 1 : power[k + 1] = (power[k] * r) % Modulus
    BY <1>1, PowerStepsLinear
  <2>2. \A k \in 0..(n + 1) - 1 : longer[k + 1] = (longer[k] * r) % Modulus
    BY <1>2, PowerStepsLinear
  <2>3. (n + 1) - 1 = n
    OBVIOUS
  <2> QED BY <1>1, <1>2, <1>3, <2>1, <2>2, <2>3 DEF PowerSteps
<1> DEFINE Same == {k \in Nat : k <= n => longer[k] = power[k]}
<1>5. \A k \in Nat : k \in Same
  <2>1. 0 \in Same
    BY <1>4
  <2>2. ASSUME NEW k \in Nat, k \in Same PROVE k + 1 \in Same
    <3> SUFFICES ASSUME k + 1 <= n PROVE longer[k + 1] = power[k + 1]
      OBVIOUS
    <3>1. k \in 0..n /\ k \in 0..n - 1 /\ k <= n
      OBVIOUS
    <3> QED BY <1>4, <2>2, <3>1
  <2> HIDE DEF Same
  <2> QED BY <2>1, <2>2, SetInduction
<1>6. longer[n] = power[n] /\ n \in 0..n
  BY <1>5
<1>7. PowMod(r, n) \in Nat
  BY <1>1, <1>4, <1>6, ModulusType
<1> QED BY <1>1, <1>2, <1>3, <1>4, <1>6, <1>7

LEMMA SumsRegrouped ==
  ASSUME NEW x \in Nat, NEW y \in Nat, NEW z \in Nat
  PROVE  (((x + y) % Modulus) + z) % Modulus = (x + ((y + z) % Modulus)) % Modulus
<1> DEFINE p == x + y
           q == y + z
<1>1. p \in Nat /\ q \in Nat /\ p + z = q + x
  OBVIOUS
<1> HIDE DEF p, q
<1>2. ((p % Modulus) + z) % Modulus = (p + z) % Modulus
  BY <1>1, SumReduced
<1>3. ((q % Modulus) + x) % Modulus = (q + x) % Modulus
  BY <1>1, SumReduced
<1>4. (q % Modulus) + x = x + (q % Modulus)
  <2>1. q % Modulus \in Nat
    BY <1>1, ModulusParts
  <2> QED BY <2>1
<1>5. ((p % Modulus) + z) % Modulus = (x + (q % Modulus)) % Modulus
  BY <1>1, <1>2, <1>3, <1>4
<1> QED BY <1>5 DEF p, q

\* The sums of the first values, one after the other.
TotalSteps(total, s, n) ==
    /\ total[0] = 0
    /\ \A k \in 1..n : total[k] = (total[k - 1] + s[k]) % Modulus

LEMMA SumUnfold ==
  ASSUME NEW n \in Nat, NEW s \in [1..n -> Nat]
  PROVE  \E total : TotalSteps(total, s, n) /\ SumOf(s) = total[n]
<1> DEFINE Up(g, d) == [k \in 0..d |-> IF k = 0 THEN 0 ELSE (g[k - 1] + s[k]) % Modulus]
           Built == {d \in Nat : \E g : g = Up(g, d)}
           at == CHOOSE g : g = Up(g, n)
<1>1. SumOf(s) = at[n]
  <2>1. Len(s) = n
    BY FunctionIsSeq
  <2> QED BY <2>1 DEF SumOf
<1>2. 0 \in Built
  <2> DEFINE h == Up([k \in 0..0 |-> 0], 0)
  <2>1. h = Up(h, 0)
    OBVIOUS
  <2> HIDE DEF h, Up
  <2> QED BY <2>1
<1>3. ASSUME NEW d \in Nat, d \in Built
      PROVE  d + 1 \in Built
  <2>1. PICK g : g = Up(g, d)
    BY <1>3
  <2> DEFINE h == Up(g, d + 1)
  <2>2. \A k \in 0..d : h[k] = g[k]
    BY <2>1
  <2>3. h = Up(h, d + 1)
    <3>1. \A k \in 0..d + 1 : k # 0 => k - 1 \in 0..d
      OBVIOUS
    <3> QED BY <2>2, <3>1
  <2> HIDE DEF h, Up
  <2> QED BY <2>3
<1>4. \A d \in Nat : d \in Built
  <2> HIDE DEF Built
  <2> QED BY <1>2, <1>3, SetInduction
<1>5. PICK g : g = Up(g, n)
  BY <1>4
<1>6. at = Up(at, n)
  BY <1>5
<1> HIDE DEF at
<1>7. TotalSteps(at, s, n)
  BY <1>6 DEF TotalSteps
<1> QED BY <1>1, <1>7

LEMMA TotalType ==
  ASSUME NEW n \in Nat, NEW s \in [1..n -> Nat], NEW total, TotalSteps(total, s, n)
  PROVE  \A k \in 0..n : total[k] \in Nat /\ total[k] \in 0..Modulus - 1
<1> DEFINE Typed == {k \in Nat : k <= n => total[k] \in 0..Modulus - 1}
<1>1. Modulus \in Nat \ {0}
  BY ModulusType
<1>2. 0 \in Typed
  BY <1>1 DEF TotalSteps
<1>3. ASSUME NEW k \in Nat, k \in Typed PROVE k + 1 \in Typed
  <2> SUFFICES ASSUME k + 1 <= n PROVE total[k + 1] \in 0..Modulus - 1
    OBVIOUS
  <2>1. k + 1 \in 1..n /\ (k + 1) - 1 = k /\ total[k] \in Nat
    BY <1>1, <1>3
  <2>2. total[k + 1] = (total[k] + s[k + 1]) % Modulus /\ s[k + 1] \in Nat
    BY <2>1 DEF TotalSteps
  <2> DEFINE x == total[k] + s[k + 1]
  <2>3. x \in Nat
    BY <2>1, <2>2
  <2> HIDE DEF x
  <2>4. x % Modulus \in 0..Modulus - 1
    BY <2>3, ModulusParts
  <2> QED BY <2>2, <2>4 DEF x
<1>4. \A k \in Nat : k \in Typed
  <2> HIDE DEF Typed
  <2> QED BY <1>2, <1>3, SetInduction
<1>5. ASSUME NEW k \in 0..n PROVE total[k] \in Nat /\ total[k] \in 0..Modulus - 1
  <2>1. k \in Typed /\ k <= n
    BY <1>4
  <2>2. total[k] \in 0..Modulus - 1
    BY <2>1
  <2> QED BY <1>1, <2>2
<1> QED BY <1>5

\* A sum of numbers is a number of the field, and that of none is zero.
LEMMA SumType ==
  ASSUME NEW n \in Nat, NEW s \in [1..n -> Nat]
  PROVE  SumOf(s) \in Nat /\ SumOf(s) \in 0..Modulus - 1 /\ (n = 0 => SumOf(s) = 0)
<1>1. PICK total : TotalSteps(total, s, n) /\ SumOf(s) = total[n]
  BY SumUnfold
<1>2. total[n] \in Nat /\ total[n] \in 0..Modulus - 1
  <2>1. \A k \in 0..n : total[k] \in Nat /\ total[k] \in 0..Modulus - 1
    BY <1>1, TotalType
  <2> QED BY <2>1
<1> QED BY <1>1, <1>2 DEF TotalSteps

\* The sum of a sequence that continues another.
LEMMA SumJoin ==
  ASSUME NEW n \in Nat, NEW m \in Nat, NEW s \in [1..n -> Nat], NEW t \in [1..m -> Nat],
         NEW u \in [1..n + m -> Nat],
         \A k \in 1..n : u[k] = s[k], \A k \in 1..m : u[n + k] = t[k]
  PROVE  SumOf(u) = (SumOf(s) + SumOf(t)) % Modulus
<1>1. PICK first : TotalSteps(first, s, n) /\ SumOf(s) = first[n]
  BY SumUnfold
<1>2. PICK second : TotalSteps(second, t, m) /\ SumOf(t) = second[m]
  BY SumUnfold
<1>3. n + m \in Nat
  OBVIOUS
<1>4. PICK whole : TotalSteps(whole, u, n + m) /\ SumOf(u) = whole[n + m]
  BY <1>3, SumUnfold
<1>5. Modulus \in Nat \ {0}
  BY ModulusType
<1> DEFINE Same == {k \in Nat : k <= n => whole[k] = first[k]}
           Joined == {k \in Nat : k <= m => whole[n + k] = (first[n] + second[k]) % Modulus}
<1>6. \A k \in Nat : k \in Same
  <2>1. 0 \in Same
    BY <1>1, <1>4 DEF TotalSteps
  <2>2. ASSUME NEW k \in Nat, k \in Same PROVE k + 1 \in Same
    <3> SUFFICES ASSUME k + 1 <= n PROVE whole[k + 1] = first[k + 1]
      OBVIOUS
    <3>1. k + 1 \in 1..n /\ k + 1 \in 1..n + m /\ (k + 1) - 1 = k
      OBVIOUS
    <3> QED BY <1>1, <1>4, <2>2, <3>1 DEF TotalSteps
  <2> HIDE DEF Same
  <2> QED BY <2>1, <2>2, SetInduction
<1>7. whole[n] = first[n] /\ first[n] \in Nat /\ first[n] \in 0..Modulus - 1
  <2>1. n \in Same /\ n \in 0..n
    BY <1>6
  <2>2. \A k \in 0..n : first[k] \in Nat /\ first[k] \in 0..Modulus - 1
    BY <1>1, TotalType
  <2> QED BY <2>1, <2>2
<1>8. \A k \in Nat : k \in Joined
  <2>1. 0 \in Joined
    <3> DEFINE x == first[n]
    <3> HIDE DEF x
    <3>1. x \in 0..Modulus - 1
      BY <1>7 DEF x
    <3>2. (x + 0) % Modulus = x /\ n + 0 = n
      BY <1>5, <3>1
    <3> QED BY <1>2, <1>7, <3>2 DEF TotalSteps, x
  <2>2. ASSUME NEW k \in Nat, k \in Joined PROVE k + 1 \in Joined
    <3> SUFFICES ASSUME k + 1 <= m
        PROVE  whole[n + (k + 1)] = (first[n] + second[k + 1]) % Modulus
      OBVIOUS
    <3>1. k + 1 \in 1..m /\ n + (k + 1) \in 1..n + m /\ (k + 1) - 1 = k
          /\ (n + (k + 1)) - 1 = n + k /\ k \in 0..m
      OBVIOUS
    <3> DEFINE x == first[n]
               y == second[k]
               z == t[k + 1]
    <3>2. x \in Nat /\ y \in Nat /\ z \in Nat
      <4>1. \A i \in 0..m : second[i] \in Nat
        BY <1>2, TotalType
      <4> QED BY <1>7, <3>1, <4>1
    <3>3. whole[n + k] = (x + y) % Modulus
      BY <2>2
    <3>4. whole[n + (k + 1)] = (whole[n + k] + z) % Modulus
      BY <1>4, <3>1 DEF TotalSteps
    <3>5. second[k + 1] = (y + z) % Modulus
      BY <1>2, <3>1 DEF TotalSteps
    <3> HIDE DEF x, y, z, Joined, Same
    <3>6. (((x + y) % Modulus) + z) % Modulus = (x + ((y + z) % Modulus)) % Modulus
      BY <3>2, SumsRegrouped
    <3> QED BY <3>3, <3>4, <3>5, <3>6 DEF x
  <2> HIDE DEF Joined
  <2> QED BY <2>1, <2>2, SetInduction
<1>9. m \in Joined
  BY <1>8
<1> QED BY <1>1, <1>2, <1>4, <1>9

\* One value more.
LEMMA SumNext ==
  ASSUME NEW n \in Nat, NEW s \in [1..n -> Nat], NEW u \in [1..n + 1 -> Nat],
         \A k \in 1..n : u[k] = s[k]
  PROVE  SumOf(u) = (SumOf(s) + u[n + 1]) % Modulus
<1>1. PICK total : TotalSteps(total, s, n) /\ SumOf(s) = total[n]
  BY SumUnfold
<1>2. n + 1 \in Nat
  OBVIOUS
<1>3. PICK longer : TotalSteps(longer, u, n + 1) /\ SumOf(u) = longer[n + 1]
  BY <1>2, SumUnfold
<1> DEFINE Same == {k \in Nat : k <= n => longer[k] = total[k]}
<1>4. \A k \in Nat : k \in Same
  <2>1. 0 \in Same
    BY <1>1, <1>3 DEF TotalSteps
  <2>2. ASSUME NEW k \in Nat, k \in Same PROVE k + 1 \in Same
    <3> SUFFICES ASSUME k + 1 <= n PROVE longer[k + 1] = total[k + 1]
      OBVIOUS
    <3>1. k + 1 \in 1..n /\ k + 1 \in 1..n + 1 /\ (k + 1) - 1 = k
      OBVIOUS
    <3> QED BY <1>1, <1>3, <2>2, <3>1 DEF TotalSteps
  <2> HIDE DEF Same
  <2> QED BY <2>1, <2>2, SetInduction
<1>5. longer[n] = total[n] /\ n + 1 \in 1..n + 1 /\ (n + 1) - 1 = n
  BY <1>4
<1> QED BY <1>1, <1>3, <1>5 DEF TotalSteps

(* ----------------------------- sketches ------------------------------- *)

\* The values as coefficients, each times its power of r.
Terms(values, r, offset) ==
    [i \in DOMAIN values |-> (values[i] * PowMod(r, offset + i - 1)) % Modulus]

LEMMA TermsType ==
  ASSUME NEW n \in Nat, NEW v \in [1..n -> Nat], NEW r \in Nat, NEW o \in Nat
  PROVE  /\ Terms(v, r, o) \in [1..n -> Nat]
         /\ \A i \in 1..n : Terms(v, r, o)[i] = (v[i] * PowMod(r, o + i - 1)) % Modulus
<1>1. ASSUME NEW i \in 1..n PROVE (v[i] * PowMod(r, o + i - 1)) % Modulus \in Nat
  <2> DEFINE p == PowMod(r, o + i - 1)
             x == v[i] * p
  <2>1. o + i - 1 \in Nat
    OBVIOUS
  <2>2. p \in Nat
    BY <2>1, PowNext
  <2> HIDE DEF p
  <2>3. x \in Nat
    BY <2>2
  <2> HIDE DEF x
  <2>4. x % Modulus \in Nat
    BY <2>3, ModulusParts
  <2> QED BY <2>4 DEF x, p
<1>2. DOMAIN v = 1..n
  OBVIOUS
<1> QED BY <1>1, <1>2 DEF Terms

LEMMA TermsFromFirst ==
  ASSUME NEW n \in Nat, NEW v \in [1..n -> Nat], NEW r \in Nat
  PROVE  /\ Terms(v, r, 0) \in [1..n -> Nat]
         /\ \A i \in 1..n : Terms(v, r, 0)[i] = (v[i] * PowMod(r, 0 + i - 1)) % Modulus
<1> DEFINE o == 0
<1>1. o \in Nat
  OBVIOUS
<1> HIDE DEF o
<1>2. /\ Terms(v, r, o) \in [1..n -> Nat]
      /\ \A i \in 1..n : Terms(v, r, o)[i] = (v[i] * PowMod(r, o + i - 1)) % Modulus
  BY <1>1, TermsType
<1> QED BY <1>2 DEF o

StreamSteps(sums, v, r, power, n) ==
    /\ sums[0] = [sum |-> 0, pow |-> power]
    /\ \A k \in 1..n : sums[k] = [sum |-> (sums[k - 1].sum + sums[k - 1].pow * v[k]) % Modulus,
                                  pow |-> (sums[k - 1].pow * r) % Modulus]

LEMMA StreamUnfold ==
  ASSUME NEW n \in Nat, NEW v \in [1..n -> Nat], NEW r, NEW power
  PROVE  \E sums : StreamSteps(sums, v, r, power, n) /\ Streamed(v, r, power) = sums[n]
<1> DEFINE Stepped(at, x) == [sum |-> (at.sum + at.pow * x) % Modulus, pow |-> (at.pow * r) % Modulus]
           Up(g, d) == [k \in 0..d |-> IF k = 0 THEN [sum |-> 0, pow |-> power]
                                       ELSE Stepped(g[k - 1], v[k])]
           Built == {d \in Nat : \E g : g = Up(g, d)}
           at == CHOOSE g : g = Up(g, n)
<1>1. Streamed(v, r, power) = at[n]
  <2>1. Len(v) = n
    BY FunctionIsSeq
  <2> QED BY <2>1 DEF Streamed
<1> HIDE DEF Stepped
<1>2. 0 \in Built
  <2> DEFINE h == Up([k \in 0..0 |-> 0], 0)
  <2>1. h = Up(h, 0)
    OBVIOUS
  <2> HIDE DEF h, Up
  <2> QED BY <2>1
<1>3. ASSUME NEW d \in Nat, d \in Built
      PROVE  d + 1 \in Built
  <2>1. PICK g : g = Up(g, d)
    BY <1>3
  <2> DEFINE h == Up(g, d + 1)
  <2>2. \A k \in 0..d : h[k] = g[k]
    BY <2>1
  <2>3. h = Up(h, d + 1)
    <3>1. \A k \in 0..d + 1 : k # 0 => k - 1 \in 0..d
      OBVIOUS
    <3> QED BY <2>2, <3>1
  <2> HIDE DEF h, Up
  <2> QED BY <2>3
<1>4. \A d \in Nat : d \in Built
  <2> HIDE DEF Built
  <2> QED BY <1>2, <1>3, SetInduction
<1>5. PICK g : g = Up(g, n)
  BY <1>4
<1>6. at = Up(at, n)
  BY <1>5
<1> HIDE DEF at
<1>7. at = [k \in 0..n |-> IF k = 0 THEN [sum |-> 0, pow |-> power]
                             ELSE Stepped(at[k - 1], v[k])]
  BY <1>6
<1>8. 0 \in 0..n /\ \A k \in 1..n : k \in 0..n /\ k # 0
  OBVIOUS
<1>9. at[0] = [sum |-> 0, pow |-> power] /\ \A k \in 1..n : at[k] = Stepped(at[k - 1], v[k])
  BY <1>7, <1>8
<1>10. StreamSteps(at, v, r, power, n)
  BY <1>9 DEF StreamSteps, Stepped
<1> QED BY <1>1, <1>10

\* The loop over a chunk keeps the running power, and adds up the terms of the
\* polynomial from there on.
LEMMA StreamedChunk ==
  ASSUME NEW n \in Nat, NEW v \in [1..n -> Nat], NEW r \in Nat, NEW o \in Nat
  PROVE  Streamed(v, r, PowMod(r, o)) = [sum |-> SumOf(Terms(v, r, o)), pow |-> PowMod(r, o + n)]
<1> DEFINE terms == Terms(v, r, o)
<1>1. PICK sums : /\ StreamSteps(sums, v, r, PowMod(r, o), n)
                  /\ Streamed(v, r, PowMod(r, o)) = sums[n]
  BY StreamUnfold
<1>2. /\ terms \in [1..n -> Nat]
      /\ \A i \in 1..n : terms[i] = (v[i] * PowMod(r, o + i - 1)) % Modulus
  BY TermsType
<1> HIDE DEF terms
<1>3. PICK total : TotalSteps(total, terms, n) /\ SumOf(terms) = total[n]
  BY <1>2, SumUnfold
<1>4. \A k \in 0..n : total[k] \in Nat
  BY <1>2, <1>3, TotalType
<1> DEFINE Kept == {k \in Nat : k <= n => sums[k] = [sum |-> total[k], pow |-> PowMod(r, o + k)]}
<1>5. 0 \in Kept
  <2>1. o + 0 = o
    OBVIOUS
  <2> QED BY <1>1, <1>3, <2>1 DEF StreamSteps, TotalSteps
<1>6. ASSUME NEW k \in Nat, k \in Kept PROVE k + 1 \in Kept
  <2> SUFFICES ASSUME k + 1 <= n
      PROVE  sums[k + 1] = [sum |-> total[k + 1], pow |-> PowMod(r, o + (k + 1))]
    OBVIOUS
  <2>1. k + 1 \in 1..n /\ (k + 1) - 1 = k /\ k \in 0..n /\ o + (k + 1) - 1 = o + k
        /\ o + k \in Nat /\ o + (k + 1) = (o + k) + 1
    OBVIOUS
  <2> DEFINE p == PowMod(r, o + k)
             x == total[k]
             w == v[k + 1]
  <2>2. sums[k] = [sum |-> x, pow |-> p]
    BY <1>6, <2>1
  <2>3. sums[k + 1] = [sum |-> (x + p * w) % Modulus, pow |-> (p * r) % Modulus]
    <3>1. sums[k + 1] = [sum |-> (sums[k].sum + sums[k].pow * w) % Modulus,
                         pow |-> (sums[k].pow * r) % Modulus]
      BY <1>1, <2>1 DEF StreamSteps
    <3>2. sums[k].sum = x /\ sums[k].pow = p
      BY <2>2
    <3> HIDE DEF p, x, w
    <3> QED BY <3>1, <3>2
  <2>4. PowMod(r, o + (k + 1)) = (p * r) % Modulus /\ p \in Nat
    BY <2>1, PowNext
  <2>5. total[k + 1] = (x + ((w * p) % Modulus)) % Modulus
    BY <1>2, <1>3, <2>1 DEF TotalSteps
  <2>6. x \in Nat /\ w \in Nat
    BY <1>4, <2>1
  <2> HIDE DEF p, x, w
  <2>7. (x + p * w) % Modulus = (x + ((w * p) % Modulus)) % Modulus
    <3> DEFINE y == w * p
    <3>1. y \in Nat /\ x + p * w = y + x
      BY <2>4, <2>6
    <3> HIDE DEF y
    <3>2. (y % Modulus) + x = x + (y % Modulus)
      <4>1. y % Modulus \in Nat
        BY <3>1, ModulusParts
      <4> QED BY <2>6, <4>1
    <3>3. ((y % Modulus) + x) % Modulus = (y + x) % Modulus
      BY <2>6, <3>1, SumReduced
    <3> QED BY <3>1, <3>2, <3>3 DEF y
  <2> QED BY <2>3, <2>4, <2>5, <2>7
<1>7. \A k \in Nat : k \in Kept
  <2> HIDE DEF Kept
  <2> QED BY <1>5, <1>6, SetInduction
<1>8. n \in Kept
  BY <1>7
<1> QED BY <1>1, <1>3, <1>8 DEF terms

LEMMA ChallengeType ==
  ASSUME NEW j \in DOMAIN Challenges
  PROVE  Challenges[j] \in Nat
<1>1. Challenges \in Seq(1..Modulus - 1)
  BY CommitmentAssumption
<1>2. Challenges[j] \in 1..Modulus - 1
  BY <1>1, ElementOfSeq, LenProperties
<1> QED BY <1>2, ModulusType

LEMMA VectorNumbers ==
  ASSUME NEW m \in Nat, NEW v \in Vectors(m)
  PROVE  v \in [1..m -> Nat]
<1>1. \A i \in 1..m : v[i] \in Nat
  BY FieldType DEF Vectors
<1> QED BY <1>1 DEF Vectors

\* The n values of u and after them the m values of v.
Joins(w, u, v, n, m) ==
    /\ u \in [1..n -> Nat] /\ v \in [1..m -> Nat] /\ w \in [1..n + m -> Nat]
    /\ \A i \in 1..n : w[i] = u[i]
    /\ \A i \in 1..m : w[n + i] = v[i]

\* The sums of two vectors one after the other.
LEMMA TermsJoin ==
  ASSUME NEW n \in Nat, NEW m \in Nat, NEW u, NEW v, NEW w, Joins(w, u, v, n, m), NEW r \in Nat
  PROVE  SumOf(Terms(w, r, 0)) = (SumOf(Terms(u, r, 0)) + SumOf(Terms(v, r, n))) % Modulus
<1>1. /\ u \in [1..n -> Nat] /\ v \in [1..m -> Nat] /\ w \in [1..n + m -> Nat]
      /\ \A i \in 1..n : w[i] = u[i]
      /\ \A i \in 1..m : w[n + i] = v[i]
  BY DEF Joins
<1> DEFINE first == Terms(u, r, 0)
           second == Terms(v, r, n)
           both == Terms(w, r, 0)
<1>2. n + m \in Nat
  OBVIOUS
<1>3. /\ first \in [1..n -> Nat]
      /\ \A i \in 1..n : first[i] = (u[i] * PowMod(r, 0 + i - 1)) % Modulus
  BY <1>1, TermsFromFirst
<1>4. /\ second \in [1..m -> Nat]
      /\ \A i \in 1..m : second[i] = (v[i] * PowMod(r, n + i - 1)) % Modulus
  BY <1>1, TermsType
<1>5. /\ both \in [1..n + m -> Nat]
      /\ \A i \in 1..n + m : both[i] = (w[i] * PowMod(r, 0 + i - 1)) % Modulus
  <2> DEFINE l == n + m
  <2>1. l \in Nat /\ w \in [1..l -> Nat]
    BY <1>1, <1>2
  <2> HIDE DEF l, first, second, both
  <2>2. /\ Terms(w, r, 0) \in [1..l -> Nat]
        /\ \A i \in 1..l : Terms(w, r, 0)[i] = (w[i] * PowMod(r, 0 + i - 1)) % Modulus
    BY <2>1, TermsFromFirst
  <2> QED BY <2>2 DEF l, both
<1> HIDE DEF first, second, both
<1>6. ASSUME NEW i \in 1..n PROVE both[i] = first[i]
  <2>1. i \in 1..n + m
    OBVIOUS
  <2> QED BY <1>1, <1>3, <1>5, <2>1
<1>7. ASSUME NEW i \in 1..m PROVE both[n + i] = second[i]
  <2>1. n + i \in 1..n + m /\ 0 + (n + i) - 1 = n + i - 1
    OBVIOUS
  <2>2. both[n + i] = (w[n + i] * PowMod(r, 0 + (n + i) - 1)) % Modulus
    BY <1>5, <2>1
  <2> QED BY <1>1, <1>4, <2>1, <2>2
<1>8. SumOf(both) = (SumOf(first) + SumOf(second)) % Modulus
  <2>1. first \in [1..n -> Nat] /\ second \in [1..m -> Nat] /\ both \in [1..n + m -> Nat]
    BY <1>3, <1>4, <1>5
  <2>2. (\A k \in 1..n : both[k] = first[k]) /\ \A k \in 1..m : both[n + k] = second[k]
    BY <1>6, <1>7
  <2> QED BY <2>1, <2>2, SumJoin
<1> QED BY <1>8 DEF first, second, both

\* What a chunk adds to the accumulator's sums, to its chain and to its chunks.
LEMMA AddChunkSums ==
  ASSUME NEW n \in Nat, NEW a, Holding(a, n), NEW m \in Nat, NEW v \in Vectors(m)
  PROVE  /\ add_chunk(a, v).root =
               hash_root_update(a.root, a.length, merkle_from_values(v, a.length))
         /\ add_chunk(a, v).sketches =
               [j \in DOMAIN a.sketches |->
                  (a.sketches[j] + _streaming_update(a, v)[j].sum) % Modulus]
         /\ add_chunk(a, v).powers = [j \in DOMAIN a.powers |-> _streaming_update(a, v)[j].pow]
         /\ add_chunk(a, v).chunks[n + 1] =
               [offset |-> a.length, length |-> m, root |-> merkle_from_values(v, a.length),
                sketch_vec |-> [j \in DOMAIN _streaming_update(a, v) |-> _streaming_update(a, v)[j].sum]]
         /\ \A c \in 1..n : add_chunk(a, v).chunks[c] = a.chunks[c]
<1> DEFINE b == add_chunk(a, v)
           reduced == [i \in DOMAIN v |-> v[i] % Modulus]
<1>1. reduced = v /\ Len(v) = m
  <2>1. v \in [1..m -> Fields]
    BY DEF Vectors
  <2>2. \A i \in 1..m : v[i] % Modulus = v[i]
    BY <2>1, FieldType
  <2> QED BY <2>1, <2>2, FunctionIsSeq
<1> DEFINE sums == _streaming_update(a, reduced)
           root == merkle_from_values(reduced, a.length)
           chunk == [offset |-> a.length, length |-> Len(reduced), root |-> root,
                     sketch_vec |-> [j \in DOMAIN sums |-> sums[j].sum]]
<1>2. b = [a EXCEPT !.length = @ + Len(reduced),
                    !.root = hash_root_update(@, a.length, root),
                    !.sketches = [j \in DOMAIN @ |-> (@[j] + sums[j].sum) % Modulus],
                    !.powers = [j \in DOMAIN @ |-> sums[j].pow],
                    !.chunks = Append(@, chunk)]
  BY Zenon DEF add_chunk
<1>3. sums = _streaming_update(a, v)
  BY <1>1
<1> HIDE DEF b, chunk, reduced, sums, root
<1>4. /\ b.root = hash_root_update(a.root, a.length, root)
      /\ b.sketches = [j \in DOMAIN a.sketches |-> (a.sketches[j] + sums[j].sum) % Modulus]
      /\ b.powers = [j \in DOMAIN a.powers |-> sums[j].pow]
      /\ b.chunks = Append(a.chunks, chunk)
  <2> DEFINE R == hash_root_update(a.root, a.length, root)
             S == [j \in DOMAIN a.sketches |-> (a.sketches[j] + sums[j].sum) % Modulus]
             P == [j \in DOMAIN a.powers |-> sums[j].pow]
  <2>1. b = [a EXCEPT !.length = @ + Len(reduced), !.root = R, !.sketches = S, !.powers = P,
                      !.chunks = Append(@, chunk)]
    BY <1>2
  <2> HIDE DEF R, S, P
  <2>2. b = [length |-> a.length + Len(reduced), chunk_len |-> a.chunk_len,
             chunks |-> Append(a.chunks, chunk), root |-> R, sketches |-> S, powers |-> P]
    BY <2>1 DEF Holding
  <2>3. b.root = R /\ b.sketches = S /\ b.powers = P /\ b.chunks = Append(a.chunks, chunk)
    BY <2>2
  <2> QED BY <2>3 DEF R, S, P
<1>5. chunk = [offset |-> a.length, length |-> m, root |-> merkle_from_values(v, a.length),
               sketch_vec |-> [j \in DOMAIN _streaming_update(a, v) |->
                                  _streaming_update(a, v)[j].sum]]
  BY <1>1 DEF chunk, root, sums
<1>6. b.chunks[n + 1] = chunk /\ \A c \in 1..n : b.chunks[c] = a.chunks[c]
  <2> DEFINE s == a.chunks
  <2>1. Numbered(s, n) /\ b.chunks = Append(s, chunk)
    BY <1>4 DEF Holding
  <2> HIDE DEF s
  <2>2. Append(s, chunk)[n + 1] = chunk /\ \A c \in 1..n : Append(s, chunk)[c] = s[c]
    BY <2>1, NumberedAppend
  <2> QED BY <2>1, <2>2 DEF s
<1>7. root = merkle_from_values(v, a.length)
  BY <1>1 DEF root
<1> QED BY <1>3, <1>4, <1>5, <1>6, <1>7 DEF b

LEMMA RowPlaces ==
  ASSUME NEW k \in Nat
  PROVE  /\ row_width \in Nat \ {0} /\ row_width * k \in Nat
         /\ row_width * 0 = 0 /\ row_width * (k + 1) = row_width * k + row_width
<1>1. row_width \in Nat \ {0}
  BY ColumnNamesType
<1> DEFINE w == row_width
<1> HIDE DEF w
<1>2. w \in Nat \ {0}
  BY <1>1 DEF w
<1>3. w * k \in Nat /\ w * 0 = 0 /\ w * (k + 1) = w * k + w
  BY <1>2
<1> QED BY <1>2, <1>3 DEF w

LEMMA SketchSums ==
  ASSUME NEW m \in Nat, NEW v \in Vectors(m), NEW o \in Nat
  PROVE  /\ chunk_sketch(v, o, Challenges) =
               [j \in DOMAIN Challenges |-> SumOf(Terms(v, Challenges[j], o))]
         /\ \A j \in DOMAIN Challenges : chunk_sketch(v, o, Challenges)[j] \in Nat
<1>1. chunk_sketch(v, o, Challenges) =
        [j \in DOMAIN Challenges |-> SumOf(Terms(v, Challenges[j], o))]
  BY DEF chunk_sketch, Terms
<1>2. ASSUME NEW j \in DOMAIN Challenges PROVE SumOf(Terms(v, Challenges[j], o)) \in Nat
  <2>1. Challenges[j] \in Nat /\ v \in [1..m -> Nat]
    BY ChallengeType, VectorNumbers
  <2>2. Terms(v, Challenges[j], o) \in [1..m -> Nat]
    BY <2>1, TermsType
  <2> QED BY <2>2, SumType
<1> QED BY <1>1, <1>2

\* The chunk of row k, and the chain over the chunks of n rows.
RowChunk(k) ==
    [offset |-> row_width * k, length |-> row_width,
     root |-> merkle_from_values(Row(k), row_width * k),
     sketch_vec |-> chunk_sketch(Row(k), row_width * k, Challenges)]

Chained(root, n) ==
    /\ root[0] = ROOT_SEED
    /\ \A k \in 1..n :
          root[k] = hash_root_update(root[k - 1], RowChunk(k - 1).offset, RowChunk(k - 1).root)

Sketched(a, n) ==
    /\ Holding(a, n) /\ a.length = row_width * n
    /\ \A c \in 1..n : a.chunks[c] = RowChunk(c - 1)
    /\ a.sketches = global_sketch(a.chunks)
    /\ a.powers = [j \in DOMAIN Challenges |-> PowMod(Challenges[j], row_width * n)]
    /\ \E root : Chained(root, n) /\ a.root = root[n]

LEMMA NewSketched == Sketched(NewAccumulator(row_width), 0)
<1> DEFINE a == NewAccumulator(row_width)
<1>1. Holding(a, 0) /\ a.length = 0
  BY NewHolding
<1>2. /\ a.chunks = <<>> /\ a.root = ROOT_SEED
      /\ a.sketches = [j \in DOMAIN Challenges |-> 0] /\ a.powers = [j \in DOMAIN Challenges |-> 1]
  BY DEF NewAccumulator
<1> HIDE DEF a
<1>3. row_width * 0 = 0
  BY RowPlaces
<1>4. global_sketch(<<>>) = [j \in DOMAIN Challenges |-> 0]
  <2>1. ASSUME NEW j \in DOMAIN Challenges
        PROVE  SumOf([i \in DOMAIN <<>> |-> <<>>[i].sketch_vec[j]]) = 0
    <3> DEFINE s == [i \in DOMAIN <<>> |-> <<>>[i].sketch_vec[j]]
    <3>1. s \in [1..0 -> Nat]
      OBVIOUS
    <3> HIDE DEF s
    <3>2. SumOf(s) = 0
      <4> 0 \in Nat
        OBVIOUS
      <4> QED BY <3>1, SumType
    <3> QED BY <3>2 DEF s
  <2> QED BY <2>1 DEF global_sketch
<1>5. \A j \in DOMAIN Challenges : PowMod(Challenges[j], 0) = 1
  BY ChallengeType, PowNext
<1>6. \E root : Chained(root, 0) /\ a.root = root[0]
  <2> DEFINE root == [k \in {0} |-> ROOT_SEED]
  <2>1. root[0] = ROOT_SEED /\ Chained(root, 0)
    BY DEF Chained
  <2> QED BY <1>2, <2>1
<1>7. a.powers = [j \in DOMAIN Challenges |-> PowMod(Challenges[j], row_width * 0)]
  BY <1>2, <1>3, <1>5
<1>8. a.sketches = global_sketch(a.chunks)
  BY <1>2, <1>4
<1> QED BY <1>1, <1>3, <1>6, <1>7, <1>8 DEF Sketched, a

\* The totals over n + 1 chunks are those over n and the sketch of the next.
LEMMA GlobalNext ==
  ASSUME NEW n \in Nat, NEW s, Numbered(s, n), NEW t, Numbered(t, n + 1),
         \A c \in 1..n : t[c] = s[c],
         \A c \in 1..n + 1, j \in DOMAIN Challenges : t[c].sketch_vec[j] \in Nat
  PROVE  /\ DOMAIN global_sketch(s) = DOMAIN Challenges
         /\ global_sketch(t) = [j \in DOMAIN Challenges |->
                                  (global_sketch(s)[j] + t[n + 1].sketch_vec[j]) % Modulus]
<1>1. DOMAIN s = 1..n /\ DOMAIN t = 1..n + 1
  BY DEF Numbered
<1>2. ASSUME NEW j \in DOMAIN Challenges
      PROVE  global_sketch(t)[j] = (global_sketch(s)[j] + t[n + 1].sketch_vec[j]) % Modulus
  <2> DEFINE old == [i \in 1..n |-> s[i].sketch_vec[j]]
             new == [i \in 1..n + 1 |-> t[i].sketch_vec[j]]
  <2>1. global_sketch(s)[j] = SumOf(old) /\ global_sketch(t)[j] = SumOf(new)
    BY <1>1 DEF global_sketch
  <2>2. \A i \in 1..n : i \in 1..n + 1
    OBVIOUS
  <2>3. \A i \in 1..n : new[i] = old[i]
    BY <2>2
  <2>4. new \in [1..n + 1 -> Nat]
    OBVIOUS
  <2>5. old \in [1..n -> Nat]
    BY <2>2
  <2>6. new[n + 1] = t[n + 1].sketch_vec[j]
    OBVIOUS
  <2> HIDE DEF old, new
  <2>7. SumOf(new) = (SumOf(old) + new[n + 1]) % Modulus
    BY <2>3, <2>4, <2>5, SumNext
  <2> QED BY <2>1, <2>6, <2>7
<1>3. /\ DOMAIN global_sketch(s) = DOMAIN Challenges
      /\ global_sketch(t) = [j \in DOMAIN Challenges |-> global_sketch(t)[j]]
  BY DEF global_sketch
<1> QED BY <1>2, <1>3

\* The next row keeps the sums those of the rows.
LEMMA SketchedNext ==
  ASSUME NEW n \in Nat, NEW a, Sketched(a, n), \A k \in 0..n : Row(k) \in Rows
  PROVE  Sketched(add_chunk(a, Row(n)), n + 1)
<1> DEFINE b == add_chunk(a, Row(n))
           o == row_width * n
           Sums == _streaming_update(a, Row(n))
<1>1. /\ row_width \in Nat /\ o \in Nat /\ row_width * (n + 1) = o + row_width
      /\ n \in 0..n /\ (n + 1) - 1 = n
  BY RowPlaces
<1>2. \A k \in 0..n : Row(k) \in Vectors(row_width)
  BY DEF Rows, Vectors
<1>3. /\ Holding(a, n) /\ a.length = o
      /\ \A c \in 1..n : a.chunks[c] = RowChunk(c - 1)
      /\ a.sketches = global_sketch(a.chunks)
      /\ a.powers = [j \in DOMAIN Challenges |-> PowMod(Challenges[j], o)]
      /\ \E root : Chained(root, n) /\ a.root = root[n]
  BY DEF Sketched
<1> HIDE DEF o
<1>4. /\ Holding(b, n + 1) /\ b.length = o + row_width
  BY <1>1, <1>2, <1>3, AddChunk
<1>5. /\ b.root = hash_root_update(a.root, o, merkle_from_values(Row(n), o))
      /\ b.sketches = [j \in DOMAIN a.sketches |-> (a.sketches[j] + Sums[j].sum) % Modulus]
      /\ b.powers = [j \in DOMAIN a.powers |-> Sums[j].pow]
      /\ b.chunks[n + 1] = [offset |-> o, length |-> row_width,
                            root |-> merkle_from_values(Row(n), o),
                            sketch_vec |-> [j \in DOMAIN Sums |-> Sums[j].sum]]
      /\ \A c \in 1..n : b.chunks[c] = a.chunks[c]
  BY <1>1, <1>2, <1>3, AddChunkSums
<1>6. ASSUME NEW j \in DOMAIN Challenges
      PROVE  /\ Sums[j].sum = SumOf(Terms(Row(n), Challenges[j], o))
             /\ Sums[j].pow = PowMod(Challenges[j], o + row_width)
  <2>1. Challenges[j] \in Nat /\ Row(n) \in [1..row_width -> Nat]
    BY <1>1, <1>2, ChallengeType, VectorNumbers
  <2>2. Sums[j] = Streamed(Row(n), Challenges[j], PowMod(Challenges[j], o))
    BY <1>3 DEF _streaming_update
  <2> HIDE DEF Sums
  <2>3. Streamed(Row(n), Challenges[j], PowMod(Challenges[j], o))
          = [sum |-> SumOf(Terms(Row(n), Challenges[j], o)),
             pow |-> PowMod(Challenges[j], o + row_width)]
    BY <1>1, <2>1, StreamedChunk
  <2>4. Sums[j] = [sum |-> SumOf(Terms(Row(n), Challenges[j], o)),
                   pow |-> PowMod(Challenges[j], o + row_width)]
    BY <2>2, <2>3
  <2> QED BY <2>4
<1>7. DOMAIN Sums = DOMAIN Challenges
  BY DEF _streaming_update
<1> HIDE DEF b, Sums
<1>8. b.chunks[n + 1] = RowChunk(n)
  <2>1. chunk_sketch(Row(n), o, Challenges) = [j \in DOMAIN Sums |-> Sums[j].sum]
    <3>1. chunk_sketch(Row(n), o, Challenges) =
            [j \in DOMAIN Challenges |-> SumOf(Terms(Row(n), Challenges[j], o))]
      BY <1>1, <1>2, SketchSums
    <3>2. \A j \in DOMAIN Challenges : Sums[j].sum = SumOf(Terms(Row(n), Challenges[j], o))
      BY <1>6
    <3> QED BY <1>7, <3>1, <3>2
  <2> QED BY <1>5, <2>1 DEF RowChunk, o
<1>9. \A c \in 1..n + 1 : b.chunks[c] = RowChunk(c - 1)
  <2> TAKE c \in 1..n + 1
  <2>1. CASE c = n + 1
    BY <1>1, <1>8, <2>1
  <2>2. CASE c # n + 1
    BY <1>3, <1>5, <2>2
  <2> QED BY <2>1, <2>2
<1>10. b.powers = [j \in DOMAIN Challenges |-> PowMod(Challenges[j], o + row_width)]
  <2>1. DOMAIN a.powers = DOMAIN Challenges
    BY <1>3
  <2>2. \A j \in DOMAIN Challenges : Sums[j].pow = PowMod(Challenges[j], o + row_width)
    BY <1>6
  <2> QED BY <1>5, <2>1, <2>2
<1>11. b.sketches = global_sketch(b.chunks)
  <2>1. Numbered(a.chunks, n) /\ Numbered(b.chunks, n + 1)
    BY <1>3, <1>4 DEF Holding
  <2>2. ASSUME NEW c \in 1..n + 1, NEW j \in DOMAIN Challenges
        PROVE  b.chunks[c].sketch_vec[j] \in Nat
    <3>1. c - 1 \in 0..n /\ c - 1 \in Nat
      OBVIOUS
    <3>2. Row(c - 1) \in Vectors(row_width) /\ row_width * (c - 1) \in Nat
      BY <1>2, <3>1, RowPlaces
    <3>3. chunk_sketch(Row(c - 1), row_width * (c - 1), Challenges)[j] \in Nat
      BY <1>1, <3>2, SketchSums
    <3>4. RowChunk(c - 1).sketch_vec = chunk_sketch(Row(c - 1), row_width * (c - 1), Challenges)
      BY DEF RowChunk
    <3>5. b.chunks[c] = RowChunk(c - 1)
      BY <1>9
    <3> QED BY <3>3, <3>4, <3>5
  <2>3. /\ DOMAIN global_sketch(a.chunks) = DOMAIN Challenges
        /\ global_sketch(b.chunks) =
             [j \in DOMAIN Challenges |->
                (global_sketch(a.chunks)[j] + b.chunks[n + 1].sketch_vec[j]) % Modulus]
    <3> DEFINE s == a.chunks
               t == b.chunks
    <3>1. /\ Numbered(s, n) /\ Numbered(t, n + 1) /\ \A c \in 1..n : t[c] = s[c]
          /\ \A c \in 1..n + 1, j \in DOMAIN Challenges : t[c].sketch_vec[j] \in Nat
      BY <1>5, <2>1, <2>2
    <3> HIDE DEF s, t
    <3>2. /\ DOMAIN global_sketch(s) = DOMAIN Challenges
          /\ global_sketch(t) = [j \in DOMAIN Challenges |->
                                   (global_sketch(s)[j] + t[n + 1].sketch_vec[j]) % Modulus]
      BY <3>1, GlobalNext
    <3> QED BY <3>2 DEF s, t
  <2>4. \A j \in DOMAIN Challenges : b.chunks[n + 1].sketch_vec[j] = Sums[j].sum
    BY <1>5, <1>7
  <2> QED BY <1>3, <1>5, <2>3, <2>4
<1>12. \E root : Chained(root, n + 1) /\ b.root = root[n + 1]
  <2>1. PICK root : Chained(root, n) /\ a.root = root[n]
    BY <1>3
  <2> DEFINE longer == [k \in 0..n + 1 |-> IF k = n + 1 THEN b.root ELSE root[k]]
  <2>2. longer[n + 1] = b.root /\ \A k \in 0..n : longer[k] = root[k]
    OBVIOUS
  <2> HIDE DEF longer
  <2>3. longer[0] = ROOT_SEED
    BY <2>1, <2>2 DEF Chained
  <2>4. b.root = hash_root_update(longer[n], RowChunk(n).offset, RowChunk(n).root)
    <3>1. longer[n] = a.root
      BY <2>1, <2>2
    <3> QED BY <1>5, <3>1 DEF RowChunk, o
  <2>5. ASSUME NEW k \in 1..n + 1
        PROVE  longer[k] = hash_root_update(longer[k - 1], RowChunk(k - 1).offset, RowChunk(k - 1).root)
    <3>1. CASE k = n + 1
      BY <1>1, <2>2, <2>4, <3>1
    <3>2. CASE k # n + 1
      <4>1. k \in 1..n /\ k \in 0..n /\ k - 1 \in 0..n
        BY <3>2
      <4> QED BY <2>1, <2>2, <4>1 DEF Chained
    <3> QED BY <3>1, <3>2
  <2>6. Chained(longer, n + 1)
    BY <2>3, <2>5 DEF Chained
  <2> QED BY <2>2, <2>6
<1>13. b.length = row_width * (n + 1)
       /\ b.powers = [j \in DOMAIN Challenges |-> PowMod(Challenges[j], row_width * (n + 1))]
  BY <1>1, <1>4, <1>10
<1> QED BY <1>4, <1>9, <1>11, <1>12, <1>13 DEF Sketched, b

RowSteps(rows, n) ==
    /\ rows[0] = <<>>
    /\ \A k \in 1..n : rows[k] = rows[k - 1] \o Row(k - 1)

\* The rows committed, one after the other.
LEMMA CommittedUnfold ==
  ASSUME NEW n \in Nat, Len(acc.chunks) = n
  PROVE  \E rows : RowSteps(rows, n) /\ Committed = rows[n]
<1> DEFINE Up(g, d) == [k \in 0..d |-> IF k = 0 THEN <<>> ELSE g[k - 1] \o Row(k - 1)]
           Built == {d \in Nat : \E g : g = Up(g, d)}
           at == CHOOSE g : g = Up(g, n)
<1>1. Committed = at[n]
  BY DEF Committed
<1>2. 0 \in Built
  <2> DEFINE h == Up([k \in 0..0 |-> 0], 0)
  <2>1. h = Up(h, 0)
    OBVIOUS
  <2> HIDE DEF h, Up
  <2> QED BY <2>1
<1>3. ASSUME NEW d \in Nat, d \in Built PROVE d + 1 \in Built
  <2>1. PICK g : g = Up(g, d)
    BY <1>3
  <2> DEFINE h == Up(g, d + 1)
  <2>2. \A k \in 0..d : h[k] = g[k]
    BY <2>1
  <2>3. h = Up(h, d + 1)
    <3>1. \A k \in 0..d + 1 : k # 0 => k - 1 \in 0..d
      OBVIOUS
    <3> QED BY <2>2, <3>1
  <2> HIDE DEF h, Up
  <2> QED BY <2>3
<1>4. \A d \in Nat : d \in Built
  <2> HIDE DEF Built
  <2> QED BY <1>2, <1>3, SetInduction
<1>5. PICK g : g = Up(g, n)
  BY <1>4
<1>6. at = Up(at, n)
  BY <1>5
<1> HIDE DEF at
<1>7. RowSteps(at, n)
  BY <1>6 DEF RowSteps
<1> QED BY <1>1, <1>7

\* The totals of the chunks are the sums over all the rows.
LEMMA CommittedSums ==
  ASSUME NEW n \in Nat, Sketched(acc, n), \A k \in Nat : k < n => Row(k) \in Rows
  PROVE  acc.sketches = chunk_sketch(Committed, 0, Challenges)
<1>1. /\ Numbered(acc.chunks, n) /\ Len(acc.chunks) = n /\ DOMAIN acc.chunks = 1..n
      /\ \A c \in 1..n : acc.chunks[c] = RowChunk(c - 1)
      /\ acc.sketches = global_sketch(acc.chunks)
  <2>1. Numbered(acc.chunks, n)
    BY DEF Sketched, Holding
  <2>2. Len(acc.chunks) = n
    BY <2>1, NumberedAppend
  <2> QED BY <2>1, <2>2 DEF Sketched, Numbered
<1>2. PICK rows : RowSteps(rows, n) /\ Committed = rows[n]
  BY <1>1, CommittedUnfold
<1> DEFINE PartSums(j, k) == [c \in 1..k |-> RowChunk(c - 1).sketch_vec[j]]
           Joined == {k \in Nat : k <= n =>
                        /\ rows[k] \in [1..row_width * k -> Nat]
                        /\ \A j \in DOMAIN Challenges :
                              SumOf(Terms(rows[k], Challenges[j], 0)) = SumOf(PartSums(j, k))}
<1>3. ASSUME NEW c \in 1..n, NEW j \in DOMAIN Challenges
      PROVE  /\ RowChunk(c - 1).sketch_vec[j] = SumOf(Terms(Row(c - 1), Challenges[j], row_width * (c - 1)))
             /\ RowChunk(c - 1).sketch_vec[j] \in Nat
  <2>1. c - 1 \in Nat /\ c - 1 < n
    OBVIOUS
  <2>2. Row(c - 1) \in Vectors(row_width) /\ row_width * (c - 1) \in Nat /\ row_width \in Nat
    BY <2>1, RowPlaces DEF Rows, Vectors
  <2>3. RowChunk(c - 1).sketch_vec = chunk_sketch(Row(c - 1), row_width * (c - 1), Challenges)
    BY DEF RowChunk
  <2>4. /\ chunk_sketch(Row(c - 1), row_width * (c - 1), Challenges) =
             [i \in DOMAIN Challenges |-> SumOf(Terms(Row(c - 1), Challenges[i], row_width * (c - 1)))]
        /\ \A i \in DOMAIN Challenges :
              chunk_sketch(Row(c - 1), row_width * (c - 1), Challenges)[i] \in Nat
    BY <2>2, SketchSums
  <2> QED BY <2>3, <2>4
<1>4. 0 \in Joined
  <2>1. rows[0] = <<>> /\ row_width * 0 = 0
    BY <1>2, RowPlaces DEF RowSteps
  <2>2. rows[0] \in [1..0 -> Nat]
    BY <2>1
  <2>3. ASSUME NEW j \in DOMAIN Challenges
        PROVE  SumOf(Terms(rows[0], Challenges[j], 0)) = SumOf(PartSums(j, 0))
    <3>1. 0 \in Nat
      OBVIOUS
    <3>2. Challenges[j] \in Nat
      BY ChallengeType
    <3>3. Terms(rows[0], Challenges[j], 0) \in [1..0 -> Nat]
      BY <2>2, <3>1, <3>2, TermsType
    <3>4. PartSums(j, 0) \in [1..0 -> Nat]
      OBVIOUS
    <3> HIDE DEF PartSums
    <3>5. SumOf(Terms(rows[0], Challenges[j], 0)) = 0
      BY <3>1, <3>3, SumType
    <3>6. SumOf(PartSums(j, 0)) = 0
      BY <3>1, <3>4, SumType
    <3> QED BY <3>5, <3>6
  <2> HIDE DEF PartSums
  <2> QED BY <2>1, <2>2, <2>3
<1>5. ASSUME NEW k \in Nat, k \in Joined PROVE k + 1 \in Joined
  <2> DEFINE o == row_width * k
             v == Row(k)
             u == rows[k]
  <2> SUFFICES ASSUME k + 1 <= n
      PROVE  /\ rows[k + 1] \in [1..row_width * (k + 1) -> Nat]
             /\ \A j \in DOMAIN Challenges :
                   SumOf(Terms(rows[k + 1], Challenges[j], 0)) = SumOf(PartSums(j, k + 1))
    BY <1>5
  <2>1. k + 1 \in 1..n /\ k <= n /\ k < n /\ (k + 1) - 1 = k
    OBVIOUS
  <2> DEFINE x == rows[k + 1]
  <2>2. x = u \o v
    BY <1>2, <2>1 DEF RowSteps
  <2>3. /\ u \in [1..o -> Nat]
        /\ \A j \in DOMAIN Challenges : SumOf(Terms(u, Challenges[j], 0)) = SumOf(PartSums(j, k))
    BY <1>5, <2>1
  <2>4. o \in Nat /\ row_width \in Nat /\ row_width * (k + 1) = o + row_width
    BY RowPlaces
  <2>5. v \in [1..row_width -> Nat]
    <3>1. v \in Vectors(row_width)
      BY <2>1 DEF Rows, Vectors
    <3> HIDE DEF v
    <3> QED BY <2>4, <3>1, VectorNumbers
  <2> HIDE DEF o, u, v, x
  <2>6. /\ x \in [1..o + row_width -> Nat]
        /\ \A i \in 1..o : x[i] = u[i]
        /\ \A i \in 1..row_width : x[o + i] = v[i]
    <3> DEFINE w == row_width
    <3>1. w \in Nat /\ v \in [1..w -> Nat]
      BY <2>4, <2>5
    <3> HIDE DEF w
    <3>2. u \in Seq(Nat) /\ Len(u) = o /\ v \in Seq(Nat) /\ Len(v) = w
      BY <2>3, <2>4, <3>1, FunctionIsSeq
    <3>3. /\ x \in Seq(Nat) /\ Len(x) = o + w
          /\ \A i \in 1..o + w : x[i] = IF i <= o THEN u[i] ELSE v[i - o]
      BY <2>2, <3>2, ConcatProperties
    <3>4. \A i \in 1..o : i \in 1..o + w /\ i <= o
      BY <2>4, <3>1
    <3>5. \A i \in 1..w : o + i \in 1..o + w /\ ~ (o + i <= o) /\ (o + i) - o = i
      BY <2>4, <3>1
    <3>6. x \in [1..o + w -> Nat]
      BY <3>3, LenProperties
    <3> QED BY <3>3, <3>4, <3>5, <3>6 DEF w
  <2>7. ASSUME NEW j \in DOMAIN Challenges
        PROVE  SumOf(Terms(x, Challenges[j], 0)) =
                  (SumOf(PartSums(j, k)) + SumOf(Terms(v, Challenges[j], o))) % Modulus
    <3> DEFINE r == Challenges[j]
               w == row_width
    <3>1. r \in Nat /\ w \in Nat /\ o \in Nat
      BY <2>4, ChallengeType
    <3>2. Joins(x, u, v, o, w)
      BY <2>3, <2>5, <2>6 DEF Joins
    <3>3. SumOf(Terms(u, r, 0)) = SumOf(PartSums(j, k))
      BY <2>3
    <3> HIDE DEF r, w, PartSums
    <3>4. SumOf(Terms(x, r, 0)) = (SumOf(Terms(u, r, 0)) + SumOf(Terms(v, r, o))) % Modulus
      BY <3>1, <3>2, TermsJoin
    <3>5. SumOf(Terms(x, r, 0)) = (SumOf(PartSums(j, k)) + SumOf(Terms(v, r, o))) % Modulus
      BY <3>3, <3>4
    <3> QED BY <3>5 DEF r
  <2>8. ASSUME NEW j \in DOMAIN Challenges
        PROVE  SumOf(PartSums(j, k + 1)) = (SumOf(PartSums(j, k)) + SumOf(Terms(v, Challenges[j], o))) % Modulus
    <3> DEFINE old == PartSums(j, k)
               new == PartSums(j, k + 1)
    <3>1. \A c \in 1..k + 1 : c \in 1..n
      BY <2>1
    <3>2. \A c \in 1..k : c \in 1..k + 1
      OBVIOUS
    <3>3. new \in [1..k + 1 -> Nat]
      BY <1>3, <3>1
    <3>4. old \in [1..k -> Nat] /\ \A c \in 1..k : new[c] = old[c]
      BY <1>3, <3>1, <3>2
    <3>5. new[k + 1] = RowChunk(k).sketch_vec[j]
      BY <2>1
    <3>6. RowChunk(k).sketch_vec[j] = SumOf(Terms(v, Challenges[j], o))
      <4>1. RowChunk((k + 1) - 1).sketch_vec[j]
              = SumOf(Terms(Row((k + 1) - 1), Challenges[j], row_width * ((k + 1) - 1)))
        BY <1>3, <2>1
      <4> QED BY <2>1, <4>1 DEF v, o
    <3> HIDE DEF old, new
    <3>7. SumOf(new) = (SumOf(old) + new[k + 1]) % Modulus
      BY <3>3, <3>4, SumNext
    <3>8. SumOf(new) = (SumOf(old) + SumOf(Terms(v, Challenges[j], o))) % Modulus
      BY <3>5, <3>6, <3>7
    <3> QED BY <3>8 DEF old, new
  <2> HIDE DEF PartSums
  <2> QED BY <2>4, <2>6, <2>7, <2>8 DEF x
<1>6. n \in Joined
  <2> HIDE DEF Joined
  <2>1. \A k \in Nat : k \in Joined
    BY <1>4, <1>5, SetInduction
  <2> QED BY <2>1
<1>7. \A j \in DOMAIN Challenges : SumOf(Terms(Committed, Challenges[j], 0)) = SumOf(PartSums(j, n))
  <2> HIDE DEF PartSums
  <2> QED BY <1>2, <1>6
<1>8. ASSUME NEW j \in DOMAIN Challenges
      PROVE  global_sketch(acc.chunks)[j] = SumOf(PartSums(j, n))
  <2> DEFINE vec == [i \in DOMAIN acc.chunks |-> acc.chunks[i].sketch_vec[j]]
  <2>1. vec = PartSums(j, n)
    BY <1>1
  <2>2. global_sketch(acc.chunks)[j] = SumOf(vec)
    BY DEF global_sketch
  <2> HIDE DEF vec, PartSums
  <2> QED BY <2>1, <2>2
<1>9. chunk_sketch(Committed, 0, Challenges) =
        [j \in DOMAIN Challenges |-> SumOf(Terms(Committed, Challenges[j], 0))]
  BY DEF chunk_sketch, Terms
<1>10. global_sketch(acc.chunks) = [j \in DOMAIN Challenges |-> global_sketch(acc.chunks)[j]]
  BY DEF global_sketch
<1> HIDE DEF PartSums
<1> QED BY <1>1, <1>7, <1>8, <1>9, <1>10

(* ---------------------- export of the sketches ------------------------ *)

EndSteps(end, chunks, n) ==
    /\ end[0] = 0
    /\ \A k \in 1..n : end[k] = end[k - 1] + chunks[k].length

RootSteps(root, chunks, n) ==
    /\ root[0] = ROOT_SEED
    /\ \A k \in 1..n : root[k] = hash_root_update(root[k - 1], chunks[k].offset, chunks[k].root)

\* What the check of an exported accumulator compares.
FastChecks(e, end, root, n) ==
    /\ \A k \in 1..n : e.chunks[k].offset = end[k - 1] /\ e.chunks[k].length > 0
    /\ e.length = end[n]
    /\ e.root = root[n]
    /\ e.sketches = global_sketch(e.chunks)

\* The places and the chain that the check computes.
LEMMA EndUnfold ==
  ASSUME NEW n \in Nat, NEW chunks
  PROVE  \E g : g = [k \in 0..n |-> IF k = 0 THEN 0 ELSE g[k - 1] + chunks[k].length]
<1> DEFINE Up(g, d) == [k \in 0..d |-> IF k = 0 THEN 0 ELSE g[k - 1] + chunks[k].length]
           Built == {d \in Nat : \E g : g = Up(g, d)}
<1>1. 0 \in Built
  <2> DEFINE h == Up([k \in 0..0 |-> 0], 0)
  <2>1. h = Up(h, 0)
    OBVIOUS
  <2> HIDE DEF h, Up
  <2> QED BY <2>1
<1>2. ASSUME NEW d \in Nat, d \in Built PROVE d + 1 \in Built
  <2>1. PICK g : g = Up(g, d)
    BY <1>2
  <2> DEFINE h == Up(g, d + 1)
  <2>2. \A k \in 0..d : h[k] = g[k]
    BY <2>1
  <2>3. h = Up(h, d + 1)
    <3>1. \A k \in 0..d + 1 : k # 0 => k - 1 \in 0..d
      OBVIOUS
    <3> QED BY <2>2, <3>1
  <2> HIDE DEF h, Up
  <2> QED BY <2>3
<1>3. \A d \in Nat : d \in Built
  <2> HIDE DEF Built
  <2> QED BY <1>1, <1>2, SetInduction
<1> QED BY <1>3

LEMMA RootUnfold ==
  ASSUME NEW n \in Nat, NEW chunks
  PROVE  \E g : g = [k \in 0..n |-> IF k = 0 THEN ROOT_SEED
                                    ELSE hash_root_update(g[k - 1], chunks[k].offset, chunks[k].root)]
<1> DEFINE Up(g, d) == [k \in 0..d |-> IF k = 0 THEN ROOT_SEED
                                       ELSE hash_root_update(g[k - 1], chunks[k].offset, chunks[k].root)]
           Built == {d \in Nat : \E g : g = Up(g, d)}
<1>1. 0 \in Built
  <2> DEFINE h == Up([k \in 0..0 |-> 0], 0)
  <2>1. h = Up(h, 0)
    OBVIOUS
  <2> HIDE DEF h, Up
  <2> QED BY <2>1
<1>2. ASSUME NEW d \in Nat, d \in Built PROVE d + 1 \in Built
  <2>1. PICK g : g = Up(g, d)
    BY <1>2
  <2> DEFINE h == Up(g, d + 1)
  <2>2. \A k \in 0..d : h[k] = g[k]
    BY <2>1
  <2>3. h = Up(h, d + 1)
    <3>1. \A k \in 0..d + 1 : k # 0 => k - 1 \in 0..d
      OBVIOUS
    <3> QED BY <2>2, <3>1
  <2> HIDE DEF h, Up
  <2> QED BY <2>3
<1>3. \A d \in Nat : d \in Built
  <2> HIDE DEF Built
  <2> QED BY <1>1, <1>2, SetInduction
<1> QED BY <1>3

LEMMA VerifyFastUnfold ==
  ASSUME NEW n \in Nat, NEW e, Numbered(e.chunks, n), e.length # 0
  PROVE  \E end, root : /\ EndSteps(end, e.chunks, n) /\ RootSteps(root, e.chunks, n)
                        /\ verify_fast(e) <=> FastChecks(e, end, root, n)
<1> DEFINE chunks == e.chunks
           End(g) == [k \in 0..n |-> IF k = 0 THEN 0 ELSE g[k - 1] + chunks[k].length]
           Root(g) == [k \in 0..n |-> IF k = 0 THEN ROOT_SEED
                                      ELSE hash_root_update(g[k - 1], chunks[k].offset, chunks[k].root)]
           end == CHOOSE g : g = End(g)
           root == CHOOSE g : g = Root(g)
<1>1. Len(chunks) = n /\ DOMAIN chunks = 1..n
  BY NumberedAppend DEF Numbered
<1>2. end = End(end) /\ root = Root(root)
  <2>1. \E g : g = End(g)
    BY EndUnfold
  <2>2. \E g : g = Root(g)
    BY RootUnfold
  <2> QED BY <2>1, <2>2
<1>3. verify_fast(e) <=> FastChecks(e, end, root, n)
  BY <1>1 DEF verify_fast, FastChecks
<1> HIDE DEF end, root
<1>4. EndSteps(end, chunks, n)
  BY <1>2 DEF EndSteps
<1>5. RootSteps(root, chunks, n)
  <2> HIDE DEF chunks
  <2> QED BY <1>2 DEF RootSteps
<1> QED BY <1>3, <1>4, <1>5

\* Chunks of the width of a row end at its multiples.
LEMMA RowEnds ==
  ASSUME NEW n \in Nat, NEW chunks, NEW end, EndSteps(end, chunks, n),
         \A k \in 1..n : chunks[k].length = row_width
  PROVE  \A k \in 0..n : end[k] = row_width * k
<1> DEFINE Even == {k \in Nat : k <= n => end[k] = row_width * k}
<1>1. 0 \in Even
  BY RowPlaces DEF EndSteps
<1>2. ASSUME NEW k \in Nat, k \in Even PROVE k + 1 \in Even
  <2> SUFFICES ASSUME k + 1 <= n PROVE end[k + 1] = row_width * (k + 1)
    OBVIOUS
  <2>1. k + 1 \in 1..n /\ (k + 1) - 1 = k /\ k <= n
    OBVIOUS
  <2>2. end[k + 1] = end[k] + row_width
    BY <2>1 DEF EndSteps
  <2>3. row_width * (k + 1) = row_width * k + row_width
    BY RowPlaces
  <2> QED BY <1>2, <2>1, <2>2, <2>3
<1>3. \A k \in Nat : k \in Even
  <2> HIDE DEF Even
  <2> QED BY <1>1, <1>2, SetInduction
<1> QED BY <1>3

\* The check of chunks of the width of a row fails with other places or with
\* another length.
LEMMA FastNeedsPlaces ==
  ASSUME NEW n \in Nat, NEW e, Numbered(e.chunks, n), e.length # 0,
         \A k \in 1..n : e.chunks[k].length = row_width, verify_fast(e)
  PROVE  /\ e.length = row_width * n
         /\ \A k \in 1..n : e.chunks[k].offset = row_width * (k - 1)
<1>1. PICK end, root : /\ EndSteps(end, e.chunks, n)
                       /\ verify_fast(e) <=> FastChecks(e, end, root, n)
  BY VerifyFastUnfold
<1>2. \A k \in 0..n : end[k] = row_width * k
  BY <1>1, RowEnds
<1>3. /\ e.length = end[n]
      /\ \A k \in 1..n : e.chunks[k].offset = end[k - 1]
  BY <1>1 DEF FastChecks
<1>4. \A k \in 1..n : k - 1 \in 0..n
  OBVIOUS
<1>5. n \in 0..n
  OBVIOUS
<1> QED BY <1>2, <1>3, <1>4, <1>5

LEMMA RowChunkParts ==
  ASSUME NEW k
  PROVE  /\ RowChunk(k).length = row_width /\ RowChunk(k).offset = row_width * k
         /\ RowChunk(k).sketch_vec = chunk_sketch(Row(k), row_width * k, Challenges)
BY DEF RowChunk

\* The accumulator passes its own check.
LEMMA FastHolds ==
  ASSUME NEW n \in Nat, NEW a, Sketched(a, n)
  PROVE  verify_fast(a)
<1>1. /\ Numbered(a.chunks, n) /\ a.length = row_width * n
      /\ \A c \in 1..n : a.chunks[c] = RowChunk(c - 1)
      /\ a.sketches = global_sketch(a.chunks)
  BY DEF Sketched, Holding
<1>2. PICK chain : Chained(chain, n) /\ a.root = chain[n]
  BY DEF Sketched
<1>3. row_width \in Nat \ {0} /\ row_width * 0 = 0
  BY RowPlaces
<1>4. \A c \in 1..n : /\ a.chunks[c].length = row_width
                      /\ a.chunks[c].offset = row_width * (c - 1)
  BY <1>1, RowChunkParts
<1>5. CASE n = 0
  <2>1. a.length = 0 /\ a.chunks = <<>>
    BY <1>1, <1>3, <1>5 DEF Numbered
  <2> QED BY <2>1 DEF verify_fast
<1>6. CASE n # 0
  <2>1. a.length # 0
    <3> DEFINE w == row_width
    <3>1. w \in Nat \ {0} /\ a.length = w * n
      BY <1>1, <1>3
    <3> HIDE DEF w
    <3> QED BY <1>6, <3>1
  <2>2. PICK end, root : /\ EndSteps(end, a.chunks, n) /\ RootSteps(root, a.chunks, n)
                         /\ verify_fast(a) <=> FastChecks(a, end, root, n)
    BY <1>1, <2>1, VerifyFastUnfold
  <2>3. \A k \in 0..n : end[k] = row_width * k
    BY <1>4, <2>2, RowEnds
  <2> DEFINE Same == {k \in Nat : k <= n => root[k] = chain[k]}
  <2>4. 0 \in Same
    BY <1>2, <2>2 DEF RootSteps, Chained
  <2>5. ASSUME NEW k \in Nat, k \in Same PROVE k + 1 \in Same
    <3> SUFFICES ASSUME k + 1 <= n PROVE root[k + 1] = chain[k + 1]
      OBVIOUS
    <3>1. k + 1 \in 1..n /\ (k + 1) - 1 = k /\ k <= n
      OBVIOUS
    <3>2. root[k + 1] = hash_root_update(root[k], a.chunks[k + 1].offset, a.chunks[k + 1].root)
      BY <2>2, <3>1 DEF RootSteps
    <3>3. chain[k + 1] = hash_root_update(chain[k], RowChunk(k).offset, RowChunk(k).root)
      BY <1>2, <3>1 DEF Chained
    <3>4. a.chunks[k + 1] = RowChunk(k) /\ root[k] = chain[k]
      BY <1>1, <2>5, <3>1
    <3> QED BY <3>2, <3>3, <3>4
  <2>6. root[n] = chain[n]
    <3> HIDE DEF Same
    <3>1. n \in Same
      BY <2>4, <2>5, SetInduction
    <3> QED BY <3>1 DEF Same
  <2>7. \A k \in 1..n : a.chunks[k].offset = end[k - 1] /\ a.chunks[k].length > 0
    <3>1. \A k \in 1..n : k - 1 \in 0..n
      OBVIOUS
    <3> QED BY <1>3, <1>4, <2>3, <3>1
  <2>8. a.length = end[n] /\ a.root = root[n]
    <3>1. n \in 0..n
      OBVIOUS
    <3> QED BY <1>1, <1>2, <2>3, <2>6, <3>1
  <2> QED BY <1>1, <2>2, <2>7, <2>8 DEF FastChecks
<1> QED BY <1>5, <1>6

\* Without one of its chunks the accumulator fails its check.
LEMMA FastMissesChunk ==
  ASSUME NEW n \in Nat, NEW a, Sketched(a, n), NEW i \in 1..n
  PROVE  ~ verify_fast([a EXCEPT !.chunks = RemoveAt(@, i)])
<1> DEFINE s == a.chunks
           left == SubSeq(s, 1, i - 1)
           right == SubSeq(s, i + 1, n)
           t == RemoveAt(s, i)
           e == [a EXCEPT !.chunks = t]
           S == {s[c] : c \in 1..n}
<1>1. /\ Holding(a, n) /\ Numbered(s, n) /\ a.length = row_width * n
      /\ \A c \in 1..n : s[c] = RowChunk(c - 1)
  BY DEF Sketched, Holding
<1>2. row_width \in Nat \ {0} /\ n - 1 \in Nat
  BY RowPlaces
<1>3. e.length = a.length /\ e.chunks = t
  <2> HIDE DEF t
  <2>1. e = [length |-> a.length, chunk_len |-> a.chunk_len, chunks |-> t,
             root |-> a.root, sketches |-> a.sketches, powers |-> a.powers]
    BY <1>1 DEF Holding
  <2> QED BY <2>1
<1>4. t = left \o right
  <2>1. Len(s) = n
    BY <1>1, NumberedAppend
  <2> QED BY <2>1 DEF RemoveAt
<1>5. left \in Seq(S) /\ Len(left) = i - 1
  <2>1. \A c \in 1..i - 1 : s[c] \in S
    OBVIOUS
  <2>2. 1 \in Int /\ i - 1 \in Int
    OBVIOUS
  <2> HIDE DEF S, s
  <2>3. left \in Seq(S) /\ Len(left) = IF 1 <= i - 1 THEN (i - 1) - 1 + 1 ELSE 0
    BY <2>1, <2>2, SubSeqProperties
  <2> QED BY <2>3
<1>6. right \in Seq(S) /\ Len(right) = n - i
  <2>1. \A c \in i + 1..n : s[c] \in S
    OBVIOUS
  <2>2. i + 1 \in Int /\ n \in Int
    OBVIOUS
  <2> HIDE DEF S, s
  <2>3. right \in Seq(S) /\ Len(right) = IF i + 1 <= n THEN n - (i + 1) + 1 ELSE 0
    BY <2>1, <2>2, SubSeqProperties
  <2> QED BY <2>3
<1>7. \A x \in S : x.length = row_width
  BY <1>1, RowChunkParts
<1> HIDE DEF S, left, right, t, e
<1>8. t \in Seq(S) /\ Len(t) = n - 1
  <2>1. t \in Seq(S) /\ Len(t) = Len(left) + Len(right)
    BY <1>4, <1>5, <1>6, ConcatProperties
  <2> QED BY <1>5, <1>6, <2>1
<1>9. t \in [1..n - 1 -> S]
  BY <1>8, LenProperties
<1>10. Numbered(t, n - 1) /\ \A k \in 1..n - 1 : t[k].length = row_width
  BY <1>7, <1>9 DEF Numbered
<1> DEFINE w == row_width
<1>11. w * n # 0 /\ w * n # w * (n - 1)
  <2>1. w \in Nat \ {0}
    BY <1>2
  <2> HIDE DEF w
  <2> QED BY <1>2, <2>1
<1>12. ASSUME verify_fast(e) PROVE FALSE
  <2>1. Numbered(e.chunks, n - 1) /\ \A k \in 1..n - 1 : e.chunks[k].length = row_width
    BY <1>3, <1>10
  <2>2. e.length # 0 /\ e.length # row_width * (n - 1)
    BY <1>1, <1>3, <1>11
  <2> DEFINE m == n - 1
  <2>3. m \in Nat /\ Numbered(e.chunks, m) /\ \A k \in 1..m : e.chunks[k].length = row_width
    BY <1>2, <2>1
  <2>4. e.length # row_width * m
    BY <2>2
  <2> HIDE DEF m
  <2>5. e.length = row_width * m
    BY <1>12, <2>2, <2>3, FastNeedsPlaces
  <2> QED BY <2>4, <2>5
<1> QED BY <1>12 DEF e, t

\* Two of its chunks exchanged, it fails its check too.
LEMMA FastMissesExchange ==
  ASSUME NEW n \in Nat, NEW a, Sketched(a, n), NEW i \in 1..n, NEW k \in 1..n, i # k
  PROVE  ~ verify_fast([a EXCEPT !.chunks[i] = a.chunks[k], !.chunks[k] = a.chunks[i]])
<1> DEFINE s == a.chunks
           t == [s EXCEPT ![i] = s[k], ![k] = s[i]]
           e == [a EXCEPT !.chunks[i] = s[k], !.chunks[k] = s[i]]
<1>1. /\ Holding(a, n) /\ Numbered(s, n) /\ a.length = row_width * n
      /\ \A c \in 1..n : s[c] = RowChunk(c - 1)
  BY DEF Sketched, Holding
<1>2. row_width \in Nat \ {0}
  BY RowPlaces
<1>3. e.length = a.length /\ e.chunks = t
  <2>1. e = [a EXCEPT !.chunks = t]
    BY <1>1 DEF Holding
  <2> HIDE DEF t, e
  <2>2. e = [length |-> a.length, chunk_len |-> a.chunk_len, chunks |-> t,
             root |-> a.root, sketches |-> a.sketches, powers |-> a.powers]
    BY <1>1, <2>1 DEF Holding
  <2> QED BY <2>2
<1>4. Numbered(t, n) /\ t[i] = s[k] /\ \A c \in 1..n : t[c] \in {s[d] : d \in 1..n}
  BY <1>1 DEF Numbered
<1> HIDE DEF t, e
<1>5. \A c \in 1..n : t[c].length = row_width
  BY <1>1, <1>4, RowChunkParts
<1> DEFINE w == row_width
<1>6. w * n # 0 /\ w * (k - 1) # w * (i - 1)
  <2>1. w \in Nat \ {0}
    BY <1>2
  <2> HIDE DEF w
  <2>2. w * n # 0
    BY <2>1
  <2>3. w * (k - 1) - w * (i - 1) = w * (k - i)
    BY <2>1
  <2>4. w * (k - i) # 0
    BY <2>1
  <2>5. w * (k - 1) \in Int /\ w * (i - 1) \in Int
    BY <2>1
  <2> QED BY <2>2, <2>3, <2>4, <2>5
<1>7. ASSUME verify_fast(e) PROVE FALSE
  <2>1. /\ Numbered(e.chunks, n) /\ \A c \in 1..n : e.chunks[c].length = row_width
        /\ e.length # 0
    BY <1>1, <1>3, <1>4, <1>5, <1>6
  <2>2. \A c \in 1..n : e.chunks[c].offset = row_width * (c - 1)
    BY <1>7, <2>1, FastNeedsPlaces
  <2>3. t[i].offset = row_width * (i - 1)
    BY <1>3, <2>2
  <2>4. t[i].offset = row_width * (k - 1)
    BY <1>1, <1>4, RowChunkParts
  <2> QED BY <1>6, <2>3, <2>4
<1> QED BY <1>7 DEF e

\* The accumulator holds the sums of the rows fed so far.
SInv == \E n \in 0..Cfg.domain_size : Sketched(acc, n)

LEMMA SketchesHold ==
  ASSUME IInv, SInv
  PROVE  SketchStreams
<1>1. PICK n \in 0..Cfg.domain_size : Sketched(acc, n)
  BY DEF SInv
<1>2. Cfg.domain_size \in Nat /\ n \in Nat /\ \A k \in Nat : k < n => Row(k) \in Rows
  <2>1. Cfg.domain_size \in Nat /\ \A k \in Domain : Row(k) \in Rows
    BY RunType DEF IInv
  <2> QED BY <2>1 DEF Domain
<1>3. /\ Numbered(acc.chunks, n) /\ acc.length = row_width * n
      /\ \A c \in 1..n : acc.chunks[c] = RowChunk(c - 1)
      /\ acc.powers = [j \in DOMAIN Challenges |-> PowMod(Challenges[j], row_width * n)]
  BY <1>1 DEF Sketched, Holding
<1>4. DOMAIN acc.chunks = 1..n
  BY <1>3 DEF Numbered
<1>5. acc.sketches = chunk_sketch(Committed, 0, Challenges)
  BY <1>1, <1>2, CommittedSums
<1>6. acc.powers = [j \in DOMAIN Challenges |-> PowMod(Challenges[j], acc.length)]
  BY <1>3
<1>7. ASSUME NEW i \in 1..n
      PROVE  acc.chunks[i].sketch_vec = chunk_sketch(Row(i - 1), acc.chunks[i].offset, Challenges)
  BY <1>3, RowChunkParts
<1>8. verify_fast(acc)
  BY <1>1, <1>2, FastHolds
<1>9. ASSUME NEW i \in 1..n
      PROVE  ~ verify_fast([acc EXCEPT !.chunks = RemoveAt(@, i)])
  BY <1>1, <1>2, FastMissesChunk
<1>10. ASSUME NEW i \in 1..n, NEW k \in (1..n) \ {i}
       PROVE  ~ verify_fast([acc EXCEPT !.chunks[i] = acc.chunks[k], !.chunks[k] = acc.chunks[i]])
  BY <1>1, <1>2, FastMissesExchange
<1> QED BY <1>4, <1>5, <1>6, <1>7, <1>8, <1>9, <1>10 DEF SketchStreams

LEMMA SketchedFrame ==
  ASSUME NEW a, NEW n, acc' = a, job' = job, Sketched(a, n)
  PROVE  Sketched(acc, n)'
BY DEF Sketched, Chained, RowChunk, Row, Holding

LEMMA InitSInv == Init => SInv
<1> SUFFICES ASSUME Init PROVE SInv
  OBVIOUS
<1>1. job \in Jobs /\ acc = NewAccumulator(row_width)
  BY DEF Init
<1>2. 0 \in 0..Cfg.domain_size
  BY <1>1, RunType
<1> QED BY <1>1, <1>2, NewSketched DEF SInv

LEMMA SketchStep == IInv /\ SInv /\ [Next]_vars => SInv'
<1> SUFFICES ASSUME IInv, SInv, [Next]_vars PROVE SInv'
  OBVIOUS
<1>1. PICK n \in 0..Cfg.domain_size : Sketched(acc, n)
  BY DEF SInv
<1>2. Cfg.domain_size \in Nat \ {0} /\ n \in Nat /\ \A k \in Domain : Row(k) \in Rows
  BY RunType DEF IInv
<1>3. CASE CommitRow
  <2>1. Len(acc.chunks) = n
    BY <1>1, <1>2, NumberedAppend DEF Sketched, Holding
  <2>2. phase = "commit" /\ acc' = add_chunk(acc, Row(n)) /\ job' = job
    BY <1>3, <2>1 DEF CommitRow
  <2>3. n < Cfg.domain_size
    <3>1. PICK m \in 0..Cfg.domain_size : Accumulated(acc, m) /\ m < Cfg.domain_size
      BY <2>2 DEF IInv, CommitOK
    <3>2. Len(acc.chunks) = m
      BY <1>2, <3>1, AccumulatedLen
    <3> QED BY <2>1, <3>1, <3>2
  <2>4. \A k \in 0..n : Row(k) \in Rows
    BY <1>2, <2>3 DEF Domain
  <2>5. Sketched(add_chunk(acc, Row(n)), n + 1)
    BY <1>1, <1>2, <2>4, SketchedNext
  <2>6. Sketched(acc, n + 1)'
    BY <2>2, <2>5, SketchedFrame
  <2>7. Cfg' = Cfg /\ n + 1 \in 0..Cfg.domain_size
    BY <1>2, <2>2, <2>3 DEF Cfg
  <2> QED BY <2>6, <2>7 DEF SInv
<1>4. CASE ~ CommitRow
  <2>1. acc' = acc /\ job' = job
    BY <1>4 DEF Next, Prover, DrawQuery, ProveComposition, OpenRow, CheckOwnProof, Verify, Audit,
                OtherRunWrites, OtherRunClears, vars
  <2>2. Sketched(acc, n)' /\ Cfg' = Cfg
    BY <1>1, <2>1, SketchedFrame DEF Cfg
  <2> QED BY <2>2 DEF SInv
<1> QED BY <1>3, <1>4

(* ----------------------------- theorems ------------------------------- *)

LEMMA StutterStep == IInv /\ UNCHANGED vars => IInv'
<1> SUFFICES ASSUME IInv, UNCHANGED vars PROVE IInv'
  OBVIOUS
<1>1. UNCHANGED <<job, phase, acc, archive, cache, drawn, fri, openings, received, audit, foreign>>
  BY DEF vars
<1>2. CASE phase # "audited"
  BY <1>1, <1>2, ForeignStep DEF IInv, FilesOK
<1>3. CASE phase = "audited"
  <2>1. /\ job \in Jobs /\ phase \in Phases /\ foreign \in 0..MaxForeign
        /\ FilesOK /\ SamplingOK /\ OpeningsOK /\ CommitOK /\ OpensCommitted /\ AuditExact
    BY DEF IInv
  <2>2. Cfg' = Cfg /\ Domain' = Domain /\ Proof' = Proof /\ Statement' = Statement
    BY <1>1, ProofFrame DEF Cfg, Domain
  <2>3. CommitOK'
    BY <1>1, <2>1, CommitFrame
  <2>4. FilesOK' /\ SamplingOK'
    BY <1>1, <2>1, <2>2 DEF FilesOK, SamplingOK
  <2>5. OpeningsOK'
    BY <1>1, <1>3, OpeningsFrame
  <2>6. OpensCommitted'
    BY <1>1, <2>1, <2>2, ReadsFrame DEF OpensCommitted
  <2>7. AuditExact'
    BY <1>1, <2>1 DEF AuditExact, Row
  <2> QED BY <1>1, <1>3, <2>1, <2>3, <2>4, <2>5, <2>6, <2>7 DEF IInv
<1> QED BY <1>2, <1>3

\* Rows, files, cache and openings belong together in every phase, whatever the
\* other run does to the archive: the invariant that the other theorems use.
THEOREM Inductive == Spec => []IInv
<1>1. IInv /\ [Next]_vars => IInv'
  BY CommitRowStep, DrawQueryStep, ProveCompositionStep, OpenRowStep, CheckOwnProofStep,
     VerifyStep, AuditStep, OtherRunStep, StutterStep DEF Next, Prover
<1> QED BY <1>1, InitIInv, PTL DEF Spec

\* The variables stay in their domains, and openings are read in order.
THEOREM TypeCorrect == Spec => []TypeOK
<1>1. IInv => TypeOK
  <2> SUFFICES ASSUME IInv PROVE TypeOK
    OBVIOUS
  <2>1. /\ job \in Jobs /\ phase \in Phases /\ foreign \in 0..MaxForeign
        /\ SamplingOK /\ OpeningsOK /\ CommitOK
    BY DEF IInv
  <2>2. PICK n \in 0..Cfg.domain_size : Accumulated(acc, n)
    BY <2>1 DEF CommitOK
  <2>3. n \in Nat
    BY <2>1, RunType
  <2>4. Len(acc.chunks) \in 0..Cfg.domain_size /\ acc.length = row_width * Len(acc.chunks)
    BY <2>2, <2>3, AccumulatedLen DEF Accumulated
  <2>5. \A i \in DOMAIN openings : cache[i] # None
    BY <2>1 DEF OpeningsOK, Opened, Held
  <2> QED BY <2>1, <2>4, <2>5 DEF TypeOK, SamplingOK, OpeningsOK
<1> QED BY <1>1, Inductive, PTL

\* A published or accepted proof opens the committed rows, and it was checked
\* with the binding it was made with.
THEOREM ProofOpensCommitted == Spec => []OpensCommitted
<1>1. IInv => OpensCommitted
  BY DEF IInv
<1> QED BY <1>1, Inductive, PTL

\* The audit passes exactly when the sampled files are the committed rows.
THEOREM AuditIsExact == Spec => []AuditExact
<1>1. IInv => AuditExact
  BY DEF IInv
<1> QED BY <1>1, Inductive, PTL

\* An accepted proof opens the composition of the committed trace in every
\* layer, and when the last row of the trace is queried it declares the
\* results of that row.
THEOREM AcceptedIsCommitted == Spec => []AcceptedCommitted
<1>1. Init => AInv
  BY DEF Init, AInv, ProofOK, AcceptedCommitted
<1>2. IInv /\ AInv /\ [Next]_vars => AInv'
  <2>1. IInv /\ AInv /\ UNCHANGED vars => AInv'
    BY AcceptedFrame DEF vars
  <2> QED BY <2>1, AcceptedStep
<1>3. AInv => AcceptedCommitted
  BY DEF AInv
<1> QED BY <1>1, <1>2, <1>3, Inductive, PTL DEF Spec

\* A chunk opens at its own index with its own values and not otherwise; a value
\* or a set of values opens in its own chunk, place and with its own value and
\* not otherwise, but under any label that is below the vector's length.
THEOREM OpeningsAreBinding == Spec => []OpeningsBind
<1> QED BY OpeningsHold, Inductive, PTL

\* The sums that the accumulator keeps are those of the rows fed so far, and
\* exported it passes its check, but not with a chunk left out or two exchanged.
THEOREM SketchesStream == Spec => []SketchStreams
<1> QED BY InitSInv, SketchStep, SketchesHold, Inductive, PTL DEF Spec

\* A run that nobody disturbs produces a proof that its own check and every
\* later one with the same binding accepts.
THEOREM HonestProofVerifies == Spec => []HonestVerifies
<1>1. Init => AInv /\ HInv
  <2> SUFFICES ASSUME Init PROVE AInv /\ HInv
    OBVIOUS
  <2>1. AInv
    BY DEF Init, AInv, ProofOK, AcceptedCommitted
  <2>2. Accumulated(acc, 0) /\ Len(acc.chunks) = 0
    BY NewAccumulated, AccumulatedLen DEF Init
  <2>3. phase = "commit" /\ job \in Jobs
    BY DEF Init
  <2>4. \A i \in Domain : i >= 0
    BY DEF Domain
  <2> QED BY <2>1, <2>2, <2>3, <2>4 DEF HInv, HonestVerifies
<1>2. IInv /\ AInv /\ HInv /\ [Next]_vars => AInv' /\ HInv'
  <2>1. IInv /\ AInv /\ UNCHANGED vars => AInv'
    BY AcceptedFrame DEF vars
  <2> QED BY <2>1, AcceptedStep, HonestStep, HonestStutter
<1>3. HInv => HonestVerifies
  BY DEF HInv
<1> QED BY <1>1, <1>2, <1>3, Inductive, PTL DEF Spec
=============================================================================
