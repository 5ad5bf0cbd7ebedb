----------------------------- MODULE GeomTrace -----------------------------
(***************************************************************************)
(* The geometric program's trace and its constraints (bef_zk/air): the     *)
(* simulation of a small machine with two-dimensional linear dynamics, the *)
(* masked table of columns padded to the domain, and the composition of    *)
(* the constraints' residuals that is proved.                              *)
(*                                                                         *)
(* A row is a function from column names to field elements. Everything the *)
(* code takes from a hash (column masks, row masks, the weights of the     *)
(* constraints) is HashToField of a name and an index: fixed, but nothing  *)
(* else is known of it. The widths in which the machine's registers are    *)
(* packed are scaled down with the field.                                  *)
(***************************************************************************)
EXTENDS TraceCommitment

CONSTANTS
    Program,            \* GEOM_PROGRAM
    PcSize, OpSize, GasSize, AccSize,  \* 2^16, 2^8, 2^12 and 2^25 in the code
    ExclusiveOr(_, _),  \* the bitwise exclusive or of two registers
    HashToField(_, _)   \* _hash_to_field and _derive_alphas

ASSUME TraceAssumption ==
    /\ Program \in Seq(0..3) /\ Program # <<>>
    /\ {PcSize, OpSize, GasSize, AccSize} \subseteq Nat \ {0}
    /\ \A x, y \in 0..Modulus - 1 : ExclusiveOr(x, y) \in Nat

Matrix == <<<<2, 1>>, <<1, 1>>>>

BaseColumns == <<"PC", "OP", "GAS", "ACC", "X1", "X2", "CNT", "M11", "M12", "M22">>

\* A sketch and a power per challenge follow the base columns.
column_names ==
    [i \in DOMAIN BaseColumns |-> <<BaseColumns[i], 0>>]
        \o [j \in DOMAIN Challenges |-> <<"sketches", j>>]
        \o [j \in DOMAIN Challenges |-> <<"powers", j>>]

Columns == Range(column_names)

pack_vm_value(pc, opcode, gas, acc) ==
    LET Packed(high, value, size) == high * size + (value % size)
    IN  Packed(Packed(Packed(pc % PcSize, opcode, OpSize), gas, GasSize), acc, AccSize) % Modulus

\* x - y in the field
Minus(x, y) == ((x % Modulus) + Modulus - (y % Modulus)) % Modulus

(* ------------------------------ simulation ----------------------------- *)

\* GeomInitialState: start gives the fields that are not zero.
InitialRow(start) ==
    [c \in Columns |->
        CASE c[1] \in DOMAIN start -> start[c[1]]
          [] c[1] = "powers" -> 1
          [] OTHER -> 0]

Alu(opcode, acc, gas) ==
    CASE opcode = 1 -> (acc + gas) % Modulus
      [] opcode = 2 -> (acc * gas) % Modulus
      [] opcode = 3 -> ExclusiveOr(acc, gas) % Modulus
      [] OTHER -> acc

\* One step of the machine. at holds the registers before it; the row that
\* is recorded shows them after it, but for the point (X1, X2), which it
\* shows before it is moved.
Recorded(at, opcode) ==
    LET A(n) == at[<<n, 0>>]
        packed == pack_vm_value(A("PC"), opcode, A("GAS"), A("ACC"))
        Value(c) ==
            CASE c[1] = "PC" -> A("PC") + 1
              [] c[1] = "OP" -> opcode
              [] c[1] = "GAS" -> Minus(A("GAS"), 1 + (opcode % 3))
              [] c[1] = "ACC" -> Alu(opcode, A("ACC"), A("GAS"))
              [] c[1] \in {"X1", "X2"} -> at[c]
              [] c[1] = "CNT" -> A("CNT") + 1
              [] c[1] = "M11" -> A("M11") + A("X1") * A("X1")
              [] c[1] = "M12" -> A("M12") + A("X1") * A("X2")
              [] c[1] = "M22" -> A("M22") + A("X2") * A("X2")
              [] c[1] = "sketches" -> at[c] + packed * at[<<"powers", c[2]>>]
              [] c[1] = "powers" -> at[c] * Challenges[c[2]]
    IN  [c \in Columns |-> Value(c) % Modulus]

Moved(row) ==
    LET x1 == row[<<"X1", 0>>]
        x2 == row[<<"X2", 0>>]
    IN  [row EXCEPT ![<<"X1", 0>>] = (Matrix[1][1] * x1 + Matrix[1][2] * x2) % Modulus,
                    ![<<"X2", 0>>] = (Matrix[2][1] * x1 + Matrix[2][2] * x2) % Modulus]

simulate_trace(steps, start) ==
    LET row[t \in 1..steps] ==
            Recorded(IF t = 1 THEN InitialRow(start) ELSE Moved(row[t - 1]),
                     Program[((t - 1) % Len(Program)) + 1])
    IN  [t \in 1..steps |-> row[t]]

(* ------------------------- table, masks and rows ----------------------- *)

\* 1, doubled again and again, and how often until n is reached.
Doubled(n) ==
    LET out[k \in 0..n] == IF k = 0 THEN 1 ELSE 2 * out[k - 1]
    IN  out
Doublings(n) ==
    CHOOSE k \in 0..n : n <= Doubled(n)[k] /\ \A m \in 0..k - 1 : Doubled(n)[m] < n
next_power_of_two(n) == Doubled(n)[Doublings(n)]

column_mask_at_index(c, idx) == HashToField(<<"colmask", c>>, idx)

\* trace_to_eval_table and build_row_matrix: the rows padded with zeros to
\* the domain, masked, with their values in the order of the columns.
RowMatrix(trace, domain_size) ==
    [i \in 1..domain_size |->
        [k \in DOMAIN column_names |->
            LET c == column_names[k]
            IN  ((IF i <= Len(trace) THEN trace[i][c] ELSE 0)
                    + column_mask_at_index(c, i - 1)) % Modulus]]

\* The row behind the masked values at an index, which starts at 0.
Unmasked(values, idx) ==
    [c \in Columns |-> LET k == CHOOSE k \in DOMAIN column_names : column_names[k] = c
                       IN  Minus(values[k], column_mask_at_index(c, idx))]

ZeroRow == [c \in Columns |-> 0]

(* ------------------------------ constraints ---------------------------- *)

Finals == {"M11", "M12", "M22", "CNT"}

\* ConstraintResidual: the names of the constraints between two rows.
StepConstraints == {"pc", "gas", "cnt", "m11", "m12", "m22"} \X {0}
                    \cup {"s", "pow"} \X DOMAIN Challenges

\* A row's step is judged by that row's own opcode, point and registers.
eval_constraints_from_row(row, next) ==
    LET R(n) == row[<<n, 0>>]
        N(n) == next[<<n, 0>>]
        packed == pack_vm_value(R("PC"), R("OP"), R("GAS"), R("ACC"))
        Sketch(j) == row[<<"sketches", j>>]
        Power(j) == row[<<"powers", j>>]
    IN  [n \in StepConstraints |->
            CASE n[1] = "pc"  -> Minus(N("PC"), R("PC") + 1)
              [] n[1] = "gas" -> Minus(N("GAS"), Minus(R("GAS"), 1 + (R("OP") % 3)))
              [] n[1] = "cnt" -> Minus(N("CNT"), R("CNT") + 1)
              [] n[1] = "m11" -> Minus(N("M11"), R("M11") + R("X1") * R("X1"))
              [] n[1] = "m12" -> Minus(N("M12"), R("M12") + R("X1") * R("X2"))
              [] n[1] = "m22" -> Minus(N("M22"), R("M22") + R("X2") * R("X2"))
              [] n[1] = "s"   -> Minus(next[<<"sketches", n[2]>>], Sketch(n[2]) + packed * Power(n[2]))
              [] n[1] = "pow" -> Minus(next[<<"powers", n[2]>>], Power(n[2]) * Challenges[n[2]])]

zero_residual == [n \in StepConstraints |-> 0]

\* derive_alphas: the weight of a constraint.
alpha(n) == HashToField(<<"alpha", n>>, 0)

WeightedSteps(residual) ==
    LET W(n) == alpha(n) * residual[n]
        over[j \in 0..Len(Challenges)] ==
            IF j = 0 THEN 0 ELSE over[j - 1] + W(<<"s", j>>) + W(<<"pow", j>>)
    IN  W(<<"pc", 0>>) + W(<<"gas", 0>>) + W(<<"cnt", 0>>) + W(<<"m11", 0>>) + W(<<"m12", 0>>)
            + W(<<"m22", 0>>) + over[Len(Challenges)]

WeightedResults(row, sigma_expected) ==
    LET W(n) == alpha(<<n, 1>>) * Minus(row[<<n, 0>>], sigma_expected[n])
    IN  W("M11") + W("M12") + W("M22") + W("CNT")

\* Mutant of composition_value_from_row: the row before the last is judged.
CompositionValueOneEarly(row, residual, idx, trace_len, sigma_expected) ==
    (WeightedSteps(residual)
        + (IF idx + 2 = trace_len THEN WeightedResults(row, sigma_expected) ELSE 0)) % Modulus

\* The weighted residuals, and in the trace's last row the distance of the
\* declared results from it.
composition_value_from_row(row, residual, idx, trace_len, sigma_expected) ==
    (WeightedSteps(residual)
        + (IF idx + 1 = trace_len THEN WeightedResults(row, sigma_expected) ELSE 0)) % Modulus

\* GeomStatement's results, from the last row.
FinalsOf(trace) == [n \in Finals |-> Last(trace)[<<n, 0>>]]

\* The prover composes the steps between the rows of the trace, then the
\* results in its last row; the padding stays zero.
build_composition_vector(trace, domain_size, sigma_expected) ==
    LET Composed(t, residual) ==
            composition_value_from_row(trace[t], residual, t - 1, Len(trace), sigma_expected)
    IN  [t \in 1..domain_size |->
            IF t < Len(trace) THEN Composed(t, eval_constraints_from_row(trace[t], trace[t + 1]))
            ELSE IF t = Len(trace) THEN Composed(t, zero_residual)
            ELSE 0]

mask_at_index(idx) == HashToField(<<"row_mask", <<"", 0>>>>, idx)
=============================================================================
