----------------------------- MODULE FriProof -----------------------------
(***************************************************************************)
(* The polynomial commitment of the proof system (bef_zk/pc, bef_zk/fri):  *)
(* a vector whose length is a power of two is committed, folded in halves  *)
(* round by round with a challenge per round, each fold committed too, and *)
(* opened at the positions that the queries pass through.                  *)
(*                                                                         *)
(* Layer 1 is the committed vector, layer r + 1 the vector after r folds.  *)
(***************************************************************************)
EXTENDS TraceCommitment

CONSTANT
    Beta(_)     \* _derive_beta: the challenge of a round, taken from its layer's root

\* Adjacent values are combined, so position i goes to i \div 2.
fold_codeword(values, alpha) ==
    [i \in 1..Len(values) \div 2 |-> (values[2 * i - 1] + alpha * values[2 * i]) % Modulus]

\* Lengths and positions are halved from each layer to the next.
Halved(n, rounds) == Ancestors(n, 2, rounds)

\* A vector of odd length cannot be folded: with a domain of one value the
\* prover raises, because it folds at least once.
CanFold(cfg) ==
    \A r \in 1..cfg.num_rounds : Halved(cfg.domain_size, cfg.num_rounds)[r - 1] % 2 = 0

Codewords(cfg, base_evals) ==
    LET current[r \in 0..cfg.num_rounds] ==
            IF r = 0 THEN [i \in DOMAIN base_evals |-> base_evals[i] % Modulus]
            ELSE fold_codeword(current[r - 1], Beta(r - 1))
    IN  [r \in 1..cfg.num_rounds + 1 |-> current[r - 1]]

\* pc_commit: the vector's accumulator and its commitment.
pc_commit(values, chunk_len) ==
    LET acc == Accumulate([i \in DOMAIN values |-> values[i] % Modulus], chunk_len)
    IN  stc_build_pc_commitment(acc)

\* The positions opened in a layer: both halves of the pair that a query
\* falls into, and in the last layer the position it ends at.
Needed(cfg, layer, query_indices) ==
    LET parent(q) == Halved(q, cfg.num_rounds)
    IN  IF layer = cfg.num_rounds + 1
          THEN {parent(q)[layer - 1] : q \in query_indices}
          ELSE UNION {{2 * parent(q)[layer], 2 * parent(q)[layer] + 1} : q \in query_indices}

\* pc_open, fri_prove and _build_layers_python. The layers' chunks are kept
\* in a temporary archive of the prover's own.
pc_open(cfg, base_evals, query_indices, chunk_len) ==
    LET words == Codewords(cfg, base_evals)
        accs == [r \in DOMAIN words |-> Accumulate(words[r], chunk_len)]
    IN  [layers |-> [r \in DOMAIN words |-> stc_build_pc_commitment(accs[r])],
         batches |-> [r \in DOMAIN words |->
                        open_batch(accs[r], Needed(cfg, r, query_indices),
                                   ChunksOf(words[r], chunk_len))]]

\* pc_verify and fri_verify. The queried value itself is compared in the
\* first layer; along a query the folded values of the rounds are computed,
\* and that of the last round is compared with the last layer.
pc_verify(cfg, base_commitment, proof, query_indices, expected_values) ==
    LET Value(layer, i) == proof.batches[layer].entries[i].value % Modulus
        Opened(layer, i) == i \in DOMAIN proof.batches[layer].entries
        Even(q, r) == 2 * Halved(q, cfg.num_rounds)[r]
        QueryOK(q) ==
            /\ \A r \in 1..cfg.num_rounds :
                  Opened(r, Even(q, r)) /\ Opened(r, Even(q, r) + 1)
            /\ Value(1, q) = expected_values[q] % Modulus
            /\ LET r == cfg.num_rounds
                   end == Halved(q, r)[r]
               IN  /\ Opened(r + 1, end)
                   /\ Value(r + 1, end) =
                        (Value(r, Even(q, r)) + Beta(r - 1) * Value(r, Even(q, r) + 1)) % Modulus
    IN  /\ Len(proof.layers) = cfg.num_rounds + 1
        /\ proof.layers[1].root = base_commitment.root
        /\ Len(proof.batches) = Len(proof.layers)
        /\ \A r \in DOMAIN proof.layers : verify_batch(proof.layers[r], proof.batches[r])
        /\ \A q \in query_indices : QueryOK(q)
=============================================================================
