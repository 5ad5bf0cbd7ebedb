-------------------------- MODULE TraceCommitment --------------------------
(***************************************************************************)
(* The streaming trace commitment (bef_zk/stc/aok_cpu, pc_backend and vc): *)
(* values arrive in chunks; an accumulator keeps a Merkle root per chunk,  *)
(* a hash chain over them and, for each challenge, a sketch (the values as *)
(* coefficients of a polynomial, evaluated at the challenge). The tree     *)
(* over the chunk roots is the commitment; chunks, single values and       *)
(* several values at once are opened against its root.                     *)
(*                                                                         *)
(* Chunks are sequences, positions in them start at 0 as in the code. The  *)
(* field is that of the integers modulo a small prime.                     *)
(***************************************************************************)
EXTENDS MerkleTree

CONSTANTS
    Modulus,           \* the size of the field, 2^61 - 1 in the code
    CHUNK_TREE_ARITY,  \* STC_CHUNK_TREE_ARITY, 16 unless set
    Challenges         \* derive_challenges: nonzero field elements, one per sketch

ASSUME CommitmentAssumption ==
    /\ Modulus \in Nat \ {0, 1}
    /\ CHUNK_TREE_ARITY \in Nat \ {0, 1}
    /\ Challenges \in Seq(1..Modulus - 1)

SumOf(s) ==
    LET n == Len(s)
        total[k \in 0..n] == IF k = 0 THEN 0 ELSE (total[k - 1] + s[k]) % Modulus
    IN  total[n]

\* pow(r, n, MODULUS), by squaring.
PowMod(r, n) ==
    LET power[k \in 0..n] ==
            IF k = 0 THEN 1
            ELSE LET half == power[k \div 2]
                 IN  (((half * half) % Modulus) * (IF k % 2 = 0 THEN 1 ELSE r)) % Modulus
    IN  power[n]

(* ------------------------------ accumulator ---------------------------- *)

ROOT_SEED == [chain |-> <<>>]

hash_root_update(root, offset, chunk_root) == [chain |-> <<root, offset, chunk_root>>]

chunk_leaf_hash(offset, local_idx, value) == [leaf |-> <<offset, local_idx, value % Modulus>>]

LeavesOf(values, offset) ==
    [i \in 0..Len(values) - 1 |-> chunk_leaf_hash(offset, i, values[i + 1])]

merkle_from_values(values, offset) ==
    root_from_levels(build_levels(LeavesOf(values, offset)))

\* The sketch of a chunk from its place in the trace.
chunk_sketch(values, offset, challenges) ==
    [j \in DOMAIN challenges |->
        SumOf([i \in DOMAIN values |->
            (values[i] * PowMod(challenges[j], offset + i - 1)) % Modulus])]

NewAccumulator(chunk_len) ==
    [length |-> 0, chunk_len |-> chunk_len, chunks |-> <<>>, root |-> ROOT_SEED,
     sketches |-> [j \in DOMAIN Challenges |-> 0],
     powers |-> [j \in DOMAIN Challenges |-> 1]]

\* The loop over the values of a chunk, from a power of the challenge r on.
Streamed(reduced, r, power) ==
    LET n == Len(reduced)
        Turn(at, v) == [sum |-> (at.sum + at.pow * v) % Modulus, pow |-> (at.pow * r) % Modulus]
        sums[k \in 0..n] ==
            IF k = 0 THEN [sum |-> 0, pow |-> power] ELSE Turn(sums[k - 1], reduced[k])
    IN  sums[n]

\* Mutant of _streaming_update: every chunk starts at the first power.
StreamingUpdateRestarted(acc, reduced) ==
    [j \in DOMAIN Challenges |-> Streamed(reduced, Challenges[j], 1)]

\* The sums of one chunk, from the running power of each challenge on.
_streaming_update(acc, reduced) ==
    [j \in DOMAIN Challenges |-> Streamed(reduced, Challenges[j], acc.powers[j])]

add_chunk(acc, values) ==
    LET reduced == [i \in DOMAIN values |-> values[i] % Modulus]
        Sums == _streaming_update(acc, reduced)
        chunk_root == merkle_from_values(reduced, acc.length)
    IN  [acc EXCEPT
            !.length = @ + Len(reduced),
            !.root = hash_root_update(@, acc.length, chunk_root),
            !.sketches = [j \in DOMAIN @ |-> (@[j] + Sums[j].sum) % Modulus],
            !.powers = [j \in DOMAIN @ |-> Sums[j].pow],
            !.chunks = Append(@, [offset |-> acc.length, length |-> Len(reduced),
                                  root |-> chunk_root,
                                  sketch_vec |-> [j \in DOMAIN Sums |-> Sums[j].sum]])]

(* ------------------------------ commitment ----------------------------- *)

ChunkLevels(acc) ==
    build_kary_levels([i \in 0..Len(acc.chunks) - 1 |-> acc.chunks[i + 1].root],
                      CHUNK_TREE_ARITY)

stc_build_pc_commitment(acc) ==
    [length |-> acc.length, chunk_len |-> acc.chunk_len, num_chunks |-> Len(acc.chunks),
     root |-> root_from_levels(ChunkLevels(acc)), chain_root |-> acc.root,
     sketches |-> acc.sketches, powers |-> acc.powers]

\* The chunks a vector is fed in.
ChunksOf(values, chunk_len) ==
    [c \in 1..CeilDiv(Len(values), chunk_len) |->
        SubSeq(values, (c - 1) * chunk_len + 1, Least(c * chunk_len, Len(values)))]

Accumulate(values, chunk_len) ==
    LET chunks == ChunksOf(values, chunk_len)
        acc[c \in 0..Len(chunks)] ==
            IF c = 0 THEN NewAccumulator(chunk_len) ELSE add_chunk(acc[c - 1], chunks[c])
    IN  acc[Len(chunks)]

\* The check of an exported accumulator on its own, without values or trees:
\* the chunks lie end to end in their order, the hash chain is over their
\* roots and the totals are the sums of their sketches.
global_sketch(chunks) ==
    [j \in DOMAIN Challenges |-> SumOf([i \in DOMAIN chunks |-> chunks[i].sketch_vec[j]])]

verify_fast(exported) ==
    LET chunks == exported.chunks
        end[i \in 0..Len(chunks)] == IF i = 0 THEN 0 ELSE end[i - 1] + chunks[i].length
        root[i \in 0..Len(chunks)] ==
            IF i = 0 THEN ROOT_SEED
            ELSE hash_root_update(root[i - 1], chunks[i].offset, chunks[i].root)
    IN  IF exported.length = 0 THEN chunks = <<>>
        ELSE /\ \A i \in DOMAIN chunks : chunks[i].offset = end[i - 1] /\ chunks[i].length > 0
             /\ exported.length = end[Len(chunks)]
             /\ exported.root = root[Len(chunks)]
             /\ exported.sketches = global_sketch(chunks)

(* ------------------------------- openings ------------------------------ *)
(* The opener has the accumulator's levels and the values of the chunk     *)
(* that its archive holds now; it hashes those, not the ones committed.    *)

stc_open_chunk(acc, chunk_index, values) ==
    LET offset == chunk_index * acc.chunk_len
    IN  [chunk_index |-> chunk_index, chunk_offset |-> offset, values |-> values,
         chunk_root |-> merkle_from_values(values, offset),
         chunk_root_path |-> prove_kary(ChunkLevels(acc), chunk_index, CHUNK_TREE_ARITY)]

\* The offset of the last chunk is not compared: the chunk's root covers it.
stc_verify_chunk(commitment, proof) ==
    /\ proof.chunk_index \in 0..commitment.num_chunks - 1
    /\ proof.chunk_offset \in 0..commitment.length - 1
    /\ proof.chunk_index < commitment.num_chunks - 1
          => proof.chunk_offset = proof.chunk_index * commitment.chunk_len
    /\ proof.values # <<>>
    /\ merkle_from_values(proof.values, proof.chunk_offset) = proof.chunk_root
    /\ verify_kary(commitment.root, proof.chunk_root, proof.chunk_index,
                   proof.chunk_root_path, CHUNK_TREE_ARITY, commitment.num_chunks)

stc_open_index(acc, index, values) ==
    LET chunk_index == index \div acc.chunk_len
        offset == chunk_index * acc.chunk_len
        levels == build_levels(LeavesOf(values, offset))
    IN  [index |-> index, value |-> values[index - offset + 1], chunk_index |-> chunk_index,
         chunk_offset |-> offset, leaf_pos |-> index - offset,
         leaf_path |-> prove(levels, index - offset),
         chunk_root |-> root_from_levels(levels),
         chunk_root_path |-> prove_kary(ChunkLevels(acc), chunk_index, CHUNK_TREE_ARITY)]

\* Mutant of stc_verify_index: the chunk's place among the chunks is not checked.
StcVerifyIndexInChunk(commitment, proof) ==
    /\ proof.index \in 0..commitment.length - 1
    /\ verify(proof.chunk_root, chunk_leaf_hash(proof.chunk_offset, proof.leaf_pos, proof.value),
              proof.leaf_pos, proof.leaf_path)

stc_verify_index(commitment, proof) ==
    /\ proof.index \in 0..commitment.length - 1
    /\ verify(proof.chunk_root, chunk_leaf_hash(proof.chunk_offset, proof.leaf_pos, proof.value),
              proof.leaf_pos, proof.leaf_path)
    /\ verify_kary(commitment.root, proof.chunk_root, proof.chunk_index,
                   proof.chunk_root_path, CHUNK_TREE_ARITY, commitment.num_chunks)

\* One proof for a set of indices: the values with their places, a multiproof
\* in each chunk that holds some of them, and one over the roots of these
\* chunks. chunks is the sequence of the chunks' values.
open_batch(acc, indices, chunks) ==
    LET Held == {i \div acc.chunk_len : i \in indices}
        Within(c) == {i % acc.chunk_len : i \in {j \in indices : j \div acc.chunk_len = c}}
        Levels(c) == build_levels(LeavesOf(chunks[c + 1], c * acc.chunk_len))
    IN  [entries |->
            [i \in indices |->
                LET c == i \div acc.chunk_len
                    pos == i % acc.chunk_len
                IN  [value |-> chunks[c + 1][pos + 1], chunk_index |-> c,
                     chunk_offset |-> c * acc.chunk_len, leaf_pos |-> pos]],
         chunk_roots |-> [c \in Held |-> root_from_levels(Levels(c))],
         chunk_leaf_proofs |->
            [c \in Held |-> [chunk_offset |-> c * acc.chunk_len, leaf_positions |-> Within(c),
                             proof |-> multiproof(Levels(c), Within(c), 2)]],
         chunk_proof |-> multiproof(ChunkLevels(acc), Held, CHUNK_TREE_ARITY)]

verify_batch(commitment, batch) ==
    LET Entries(c) == {i \in DOMAIN batch.entries : batch.entries[i].chunk_index = c}
        ValueAt(c, pos) ==
            batch.entries[CHOOSE i \in Entries(c) : batch.entries[i].leaf_pos = pos].value
        ChunkOpens(c) ==
            LET p == batch.chunk_leaf_proofs[c]
            IN  /\ {batch.entries[i].leaf_pos : i \in Entries(c)} = p.leaf_positions
                /\ verify_multiproof(
                      batch.chunk_roots[c],
                      [pos \in p.leaf_positions |->
                          chunk_leaf_hash(p.chunk_offset, pos, ValueAt(c, pos))],
                      p.proof)
    IN  /\ DOMAIN batch.entries # {}
        /\ DOMAIN batch.entries \subseteq 0..commitment.length - 1
        /\ \A i \in DOMAIN batch.entries : batch.entries[i].chunk_index < commitment.num_chunks
        /\ {batch.entries[i].chunk_index : i \in DOMAIN batch.entries} = DOMAIN batch.chunk_roots
        /\ \A c \in DOMAIN batch.chunk_roots : ChunkOpens(c)
        /\ verify_multiproof(commitment.root, batch.chunk_roots, batch.chunk_proof)

\* A position is alone when, on its way to the root of n chunks, it is the
\* only one of its group. Opening several positions at once does not allow
\* for such a node, opening one does.
Widths(n) ==
    LET width[k \in 0..n] == IF k = 0 THEN n ELSE CeilDiv(width[k - 1], CHUNK_TREE_ARITY)
    IN  width

Alone(c, n) ==
    \E k \in 0..n :
        LET width == Widths(n)[k]
            i == Ancestors(c, CHUNK_TREE_ARITY, n)[k]
        IN  width > 1 /\ i = width - 1 /\ i % CHUNK_TREE_ARITY = 0
=============================================================================
