----------------------------- MODULE GeomProof -----------------------------
(***************************************************************************)
(* A geometric trace from its rows to an audited proof: the rows are       *)
(* committed one chunk each and written to an archive directory, the       *)
(* masked composition is committed, query positions are drawn, the rows    *)
(* there are read back from the archive and opened with the folded         *)
(* composition, and the prover checks its own proof. A verifier later      *)
(* checks the proof it receives and audits a sample of the archive.        *)
(*                                                                         *)
(* The archive is a directory that another run may be given too: that run  *)
(* clears it and writes files of the same names. The positions come from a *)
(* hash of the transcript; here they are drawn, so every outcome of the    *)
(* hash is examined.                                                       *)
(***************************************************************************)
EXTENDS FriProof, GeomTrace

CONSTANTS
    Jobs,        \* [steps, start, queries, samples, binding]: the runs' arguments
    RoundLimit,  \* the most folding rounds, 6 in the code
    ChunkLen,    \* chunk_len of the composition's commitment, the row width in the code
    MaxForeign,  \* bound on the other run's writes
    Missing,     \* a file that is not there
    None         \* Python's None

\* The binding that a prover or a verifier is given: the hash of an instance,
\* or none. No hash is the same as a serialized statement.
Bindings == {[instance |-> "this"], [instance |-> "another"], None}

ASSUME ProofAssumption ==
    /\ \A j \in Jobs :
          /\ j.steps \in Nat \ {0} /\ j.queries \in Nat \ {0} /\ j.samples \in Nat
          /\ \A n \in DOMAIN j.start : j.start[n] \in 0..Modulus - 1
          /\ j.binding \in Bindings
          /\ \A i \in 0..next_power_of_two(j.steps) - 1 :
                /\ mask_at_index(i) \in 0..Modulus - 1
                /\ \A c \in Columns : column_mask_at_index(c, i) \in 0..Modulus - 1
    /\ \A n \in StepConstraints \cup Finals \X {1} : alpha(n) \in 1..Modulus - 1
    /\ \A r \in 0..RoundLimit : Beta(r) \in 0..Modulus - 1
    /\ {RoundLimit, ChunkLen} \subseteq Nat \ {0} /\ MaxForeign \in Nat
    /\ None \notin Seq(Nat) /\ Missing \notin Seq(Nat) /\ Missing # None

VARIABLES
    job,       \* the arguments of this run
    phase,     \* what the run does next
    acc,       \* the accumulator of the rows
    archive,   \* the files of the row archive, by chunk
    cache,     \* ChunkRecord.values: what the prover read, by chunk
    drawn,     \* the query positions drawn so far
    fri,       \* the proof of the composition
    openings,  \* the row openings, by position
    received,  \* how the proof reached the verifier, and the binding it has
    audit,     \* the chunks audited and the outcome
    foreign    \* the writes of the other run so far

vars == <<job, phase, acc, archive, cache, drawn, fri, openings, received, audit, foreign>>

(* ------------------------------ the prover ----------------------------- *)

_build_fri_cfg(j) ==
    LET domain_size == next_power_of_two(j.steps)
        max_rounds == IF domain_size = 1 THEN 1 ELSE Doublings(j.steps)
    IN  [domain_size |-> domain_size, num_rounds |-> Least(RoundLimit, max_rounds),
         num_queries |-> j.queries]

\* What is fixed once the trace is known: its results, the rows to commit
\* and the masked composition.
_prepare_trace_state(j) ==
    LET cfg == _build_fri_cfg(j)
        trace == simulate_trace(j.steps, j.start)
        composition == build_composition_vector(trace, cfg.domain_size, FinalsOf(trace))
    IN  [fri_cfg |-> cfg, finals |-> FinalsOf(trace), rows |-> RowMatrix(trace, cfg.domain_size),
         composition |-> [t \in DOMAIN composition |->
                            (composition[t] + mask_at_index(t - 1)) % Modulus]]

Prepared == [j \in Jobs |-> _prepare_trace_state(j)]

Cfg == Prepared[job].fri_cfg
Domain == 0..Cfg.domain_size - 1
Row(i) == Prepared[job].rows[i + 1]
row_width == Len(column_names)

alpha_digest(steps) == [alpha |-> steps]

serialize_statement(statement) == [statement |-> statement]

mask_digest_of(digest, row_root, binding) == [mask |-> <<digest, row_root, binding>>]

Statement == [steps |-> job.steps, finals |-> Prepared[job].finals]

\* What the masks are bound to: the capsule's instance hash, or the statement
\* itself when the prover is given none.
BindingOf(given, statement) == IF given = None THEN serialize_statement(statement) ELSE given

Proof ==
    [statement |-> Statement,
     alpha_digest |-> alpha_digest(job.steps),
     mask_digest |-> mask_digest_of(alpha_digest(job.steps), stc_build_pc_commitment(acc).root,
                                    BindingOf(job.binding, Statement)),
     row_commitment |-> stc_build_pc_commitment(acc),
     fri_params |-> Cfg,
     base_commitment |-> pc_commit(Prepared[job].composition, ChunkLen),
     query_indices |-> drawn,
     row_openings |-> openings,
     fri_proof |-> fri]

Init ==
    /\ job \in Jobs
    /\ phase = "commit"
    /\ acc = NewAccumulator(row_width)
    /\ archive = [i \in Domain |-> Missing]
    /\ cache = [i \in Domain |-> None]
    /\ drawn = {}
    /\ fri = None
    /\ openings = <<>>
    /\ received = None
    /\ audit = None
    /\ foreign = 0

\* STCVectorCommitment.commit feeds the next row: its file is written and the
\* record keeps no values.
CommitRow ==
    LET i == Len(acc.chunks)
    IN  /\ phase = "commit"
        /\ acc' = add_chunk(acc, Row(i))
        /\ archive' = [archive EXCEPT ![i] = Row(i)]
        /\ phase' = IF i + 1 = Cfg.domain_size THEN "sample" ELSE "commit"
        /\ UNCHANGED <<job, cache, drawn, fri, openings, received, audit, foreign>>

\* Mutant of DrawQuery: the loop runs while there are at most as many.
DrawQueryOneMore ==
    /\ phase = "sample"
    /\ \E i \in Domain :
          /\ drawn' = drawn \cup {i}
          /\ phase' = IF Cardinality(drawn') > Cfg.num_queries THEN "fold" ELSE "sample"
    /\ UNCHANGED <<job, acc, archive, cache, fri, openings, received, audit, foreign>>

\* One turn of the loop in _sample_query_indices; a position drawn before
\* changes nothing.
DrawQuery ==
    /\ phase = "sample"
    /\ \E i \in Domain :
          /\ drawn' = drawn \cup {i}
          /\ phase' = IF Cardinality(drawn') = Cfg.num_queries THEN "fold" ELSE "sample"
    /\ UNCHANGED <<job, acc, archive, cache, fri, openings, received, audit, foreign>>

\* pc_open; a composition of one value cannot be folded and raises.
ProveComposition ==
    /\ phase = "fold"
    /\ IF CanFold(Cfg)
         THEN /\ fri' = pc_open(Cfg, Prepared[job].composition, drawn, ChunkLen)
              /\ phase' = "open"
         ELSE phase' = "failed" /\ UNCHANGED fri
    /\ UNCHANGED <<job, acc, archive, cache, drawn, openings, received, audit, foreign>>

\* _load_chunk: the file is read once, at the first opening that needs it.
Loaded(i) == IF cache[i] = None THEN archive[i] ELSE cache[i]

Successor(i) == {i + 1} \cap Domain

\* One turn of the loop in _open_rows: the row at the next position and the
\* row after it, if there is one.
OpenRow ==
    LET Left == drawn \ DOMAIN openings
        q == CHOOSE i \in Left : \A k \in Left : i <= k
        Read == {q} \cup Successor(q)
        Opening(i) == stc_open_chunk(acc, i, Loaded(i))
    IN  /\ phase = "open"
        /\ IF \E i \in Read : Loaded(i) = Missing
             THEN phase' = "failed" /\ UNCHANGED <<cache, openings>>
             ELSE /\ cache' = [i \in Domain |-> IF i \in Read THEN Loaded(i) ELSE cache[i]]
                  /\ openings' = [i \in DOMAIN openings \cup {q} |->
                        IF i # q THEN openings[i]
                        ELSE [row_values |-> Loaded(q), proof |-> Opening(q),
                              next |-> IF Successor(q) = {} THEN <<>>
                                       ELSE <<[row_values |-> Loaded(q + 1),
                                               proof |-> Opening(q + 1)]>>]]
                  /\ phase' = IF Left = {q} THEN "check" ELSE "open"
        /\ UNCHANGED <<job, acc, archive, drawn, fri, received, audit, foreign>>

(* ------------------------------ the verifier --------------------------- *)

\* Mutant of verify_leaf: the row is not compared with the opened values.
VerifyLeafOpened(row_commitment, idx, row_values, proof) ==
    /\ proof.chunk_index = idx
    /\ stc_verify_chunk(row_commitment, proof)

\* STCRowBackend.verify_leaf
verify_leaf(row_commitment, idx, row_values, proof) ==
    /\ proof.chunk_index = idx
    /\ stc_verify_chunk(row_commitment, proof)
    /\ Len(row_values) <= Len(proof.values)
    /\ \A k \in DOMAIN row_values : proof.values[k] = row_values[k]

\* A row opening and the one after it; next holds that one, or nothing.
RowOpens(p, i, opening) ==
    /\ Len(opening.row_values) = row_width
    /\ verify_leaf(p.row_commitment, i, opening.row_values, opening.proof)
    /\ opening.next # <<>> =>
          /\ i + 1 < p.fri_params.domain_size
          /\ Len(opening.next[1].row_values) = row_width
          /\ verify_leaf(p.row_commitment, i + 1, opening.next[1].row_values,
                         opening.next[1].proof)

\* Mutant of Expected: the step after the trace's last row is judged too.
ExpectedPastEnd(p, i) ==
    LET opening == p.row_openings[i]
        row == Unmasked(opening.row_values, i)
        next == IF opening.next = <<>> THEN ZeroRow
                ELSE Unmasked(opening.next[1].row_values, i + 1)
        residual == IF i > p.statement.steps - 1 THEN zero_residual
                    ELSE eval_constraints_from_row(row, next)
    IN  (composition_value_from_row(row, residual, i, p.statement.steps, p.statement.finals)
            + mask_at_index(i)) % Modulus

\* The value of the masked composition at an opened position. The last row of
\* the trace and the padding have no step.
Expected(p, i) ==
    LET opening == p.row_openings[i]
        row == Unmasked(opening.row_values, i)
        next == IF opening.next = <<>> THEN ZeroRow
                ELSE Unmasked(opening.next[1].row_values, i + 1)
        residual == IF i >= p.statement.steps - 1 THEN zero_residual
                    ELSE eval_constraints_from_row(row, next)
    IN  (composition_value_from_row(row, residual, i, p.statement.steps, p.statement.finals)
            + mask_at_index(i)) % Modulus

\* Drawing again from the same transcript yields the same positions.
verify_proof_only(p, statement_hash) ==
    /\ p.alpha_digest = alpha_digest(p.statement.steps)
    /\ DOMAIN p.row_openings = p.query_indices
    /\ p.mask_digest = mask_digest_of(p.alpha_digest, p.row_commitment.root,
                                      BindingOf(statement_hash, p.statement))
    /\ \A i \in p.query_indices : RowOpens(p, i, p.row_openings[i])
    /\ p.query_indices = drawn
    /\ pc_verify(p.fri_params, p.base_commitment, p.fri_proof, p.query_indices,
                 [i \in p.query_indices |-> Expected(p, i)])

\* The pipeline checks the proof it wrote with its own binding, and raises.
CheckOwnProof ==
    /\ phase = "check"
    /\ phase' = IF verify_proof_only(Proof, job.binding) THEN "published" ELSE "failed"
    /\ UNCHANGED <<job, acc, archive, cache, drawn, fri, openings, received, audit, foreign>>

(* A proof that is read back may differ from the one written: a value of a *)
(* row opening, with or without the opening's own copy, a value in a layer *)
(* of the composition's proof, or a declared result.                       *)
Other(v) == (v + 1) % Modulus

Delivered(p, damage) ==
    LET q == CHOOSE i \in p.query_indices : TRUE
        opening == p.row_openings[q]
        Opening(o) == [p EXCEPT !.row_openings[q] = o]
        Bent(values) == [values EXCEPT ![1] = Other(@)]
        BothBent(o) == [o EXCEPT !.row_values = Bent(@), !.proof.values = Bent(@)]
        Kind == damage[1]
        layer == damage[2]
    IN  CASE Kind = "none" -> p
          [] Kind = "row"  -> Opening([opening EXCEPT !.row_values = Bent(@)])
          [] Kind = "opened row" -> Opening(BothBent(opening))
          [] Kind = "next row" -> Opening([opening EXCEPT !.next[1] = BothBent(@)])
          [] Kind = "result" -> [p EXCEPT !.statement.finals["CNT"] = Other(@)]
          [] Kind = "layer" ->
                LET i == CHOOSE i \in DOMAIN p.fri_proof.batches[layer].entries : TRUE
                IN  [p EXCEPT !.fri_proof.batches[layer].entries[i].value = Other(@)]

Deliveries ==
    {"none", "row", "opened row", "result"} \X {0}
        \cup (IF \A i \in drawn : openings[i].next # <<>> THEN {<<"next row", 0>>} ELSE {})
        \cup {"layer"} \X (1..Cfg.num_rounds + 1)

Verify ==
    /\ phase = "published"
    /\ \E damage \in Deliveries, given \in Bindings :
          /\ received' = [damage |-> damage, given |-> given]
          /\ phase' = IF verify_proof_only(Delivered(Proof, damage), given)
                        THEN "accepted" ELSE "refused"
    /\ UNCHANGED <<job, acc, archive, cache, drawn, fri, openings, audit, foreign>>

\* Mutant of AuditOutcome: the chunk's offset is left out of its leaves.
AuditOutcomeNoOffset(indices, files, chunk_roots, row_root) ==
    LET total == Size(chunk_roots)
        levels == build_kary_levels(chunk_roots, CHUNK_TREE_ARITY)
        Derived(i) == merkle_from_values(files[i], 0)
    IN  IF indices = {} THEN "skipped"
        ELSE IF \E i \in indices : files[i] = Missing THEN "FileNotFoundError"
        ELSE IF \E i \in indices : Derived(i) # chunk_roots[i] THEN "E065"
        ELSE IF \E i \in indices :
                  ~ verify_kary(row_root, Derived(i), i, prove_kary(levels, i, CHUNK_TREE_ARITY),
                                CHUNK_TREE_ARITY, total) THEN "E064"
        ELSE "verified"

\* _select_audit_indices and _run_da_audit with a LocalFileSystemProvider,
\* which has the chunk roots and builds their tree again. A missing file
\* raises: it is not one of the errors that the client retries.
AuditOutcome(indices, files, chunk_roots, row_root) ==
    LET total == Size(chunk_roots)
        levels == build_kary_levels(chunk_roots, CHUNK_TREE_ARITY)
        Derived(i) == merkle_from_values(files[i], i * row_width)
    IN  IF indices = {} THEN "skipped"
        ELSE IF \E i \in indices : files[i] = Missing THEN "FileNotFoundError"
        ELSE IF \E i \in indices : Derived(i) # chunk_roots[i] THEN "E065"
        ELSE IF \E i \in indices :
                  ~ verify_kary(row_root, Derived(i), i, prove_kary(levels, i, CHUNK_TREE_ARITY),
                                CHUNK_TREE_ARITY, total) THEN "E064"
        ELSE "verified"

ChunkRoots == [i \in Domain |-> acc.chunks[i + 1].root]

Audit ==
    /\ phase = "accepted"
    /\ \E indices \in kSubset(Least(job.samples, Cfg.domain_size), Domain) :
          audit' = [indices |-> indices,
                    outcome |-> AuditOutcome(indices, archive, ChunkRoots,
                                             stc_build_pc_commitment(acc).root)]
    /\ phase' = "audited"
    /\ UNCHANGED <<job, acc, archive, cache, drawn, fri, openings, received, foreign>>

(* ------------------------------ another run ---------------------------- *)

\* A row of another run in the same directory has other masks. What it writes
\* after this run and its audit have ended is left out.
Ended == {"failed", "refused", "audited"}

OtherRow(i) == [k \in DOMAIN column_names |-> Other(Row(i)[k])]

OtherRunWrites ==
    /\ foreign < MaxForeign /\ phase \notin Ended
    /\ \E i \in Domain : archive' = [archive EXCEPT ![i] = OtherRow(i)]
    /\ foreign' = foreign + 1
    /\ UNCHANGED <<job, phase, acc, cache, drawn, fri, openings, received, audit>>

\* The pipeline removes the directory it was given and makes it anew.
OtherRunClears ==
    /\ foreign < MaxForeign /\ phase \notin Ended
    /\ archive' = [i \in Domain |-> Missing]
    /\ foreign' = foreign + 1
    /\ UNCHANGED <<job, phase, acc, cache, drawn, fri, openings, received, audit>>

(* ---------------------------- specification ---------------------------- *)

Prover == CommitRow \/ DrawQuery \/ ProveComposition \/ OpenRow \/ CheckOwnProof

Next == Prover \/ Verify \/ Audit \/ OtherRunWrites \/ OtherRunClears

Spec == Init /\ [][Next]_vars

(* ------------------------------ properties ----------------------------- *)

Phases == {"commit", "sample", "fold", "open", "check", "published", "failed",
           "accepted", "refused", "audited"}

\* The state's variables stay in their domains; openings are read in order
\* and only after their position was drawn, and never without their chunk.
TypeOK ==
    /\ job \in Jobs
    /\ phase \in Phases
    /\ Len(acc.chunks) \in 0..Cfg.domain_size
    /\ acc.length = row_width * Len(acc.chunks)
    /\ drawn \subseteq Domain
    /\ Cardinality(drawn) <= Cfg.num_queries
    /\ DOMAIN openings \subseteq drawn
    /\ \A i \in DOMAIN openings : cache[i] # None
    /\ foreign \in 0..MaxForeign

\* The rows committed so far, as one vector.
Committed ==
    LET rows[n \in 0..Len(acc.chunks)] == IF n = 0 THEN <<>> ELSE rows[n - 1] \o Row(n - 1)
    IN  rows[Len(acc.chunks)]

\* The sums that the accumulator keeps while rows stream in (the totals, the
\* sums of each chunk and the running powers) are those of the polynomial
\* whose coefficients are all the values so far. Exported at any moment they
\* pass their own check, but not with a chunk left out or two exchanged.
SketchStreams ==
    /\ acc.sketches = chunk_sketch(Committed, 0, Challenges)
    /\ acc.powers = [j \in DOMAIN Challenges |-> PowMod(Challenges[j], acc.length)]
    /\ \A i \in DOMAIN acc.chunks :
          acc.chunks[i].sketch_vec = chunk_sketch(Row(i - 1), acc.chunks[i].offset, Challenges)
    /\ verify_fast(acc)
    /\ \A i \in DOMAIN acc.chunks :
          /\ ~ verify_fast([acc EXCEPT !.chunks = RemoveAt(@, i)])
          /\ \A k \in DOMAIN acc.chunks \ {i} :
                ~ verify_fast([acc EXCEPT !.chunks[i] = acc.chunks[k], !.chunks[k] = acc.chunks[i]])

\* One of the positions of a vector is in a chunk that is alone.
AloneIn(indices, length) ==
    \E i \in indices : Alone(i \div ChunkLen, CeilDiv(length, ChunkLen))

\* The entry of a batch for index i, under the label of index j instead.
Relabelled(batch, i, j) ==
    [batch EXCEPT !.entries =
        [x \in (DOMAIN @ \ {i}) \cup {j} |-> IF x = j THEN @[i] ELSE @[x]]]

\* What ties an opening to the committed rows. A chunk opens at its own index
\* with its own values and not otherwise. A single value opens in its own
\* chunk, at its own place there and with its own value; so do several values
\* of the composition together, all of them or none, unless one of their
\* chunks is alone in a group of the tree. The index that a value is labelled
\* with is not among these: any label below the length of the vector is as
\* good as the right one, and no other is accepted.
OpeningsBind ==
    phase = "sample" /\ drawn = {} /\ foreign = 0 =>
        LET C == stc_build_pc_commitment(acc)
            words == Prepared[job].composition
            composed == Accumulate(words, ChunkLen)
            chunks == ChunksOf(words, ChunkLen)
            At(q, k) == stc_open_index(acc, q * row_width + k, Row(q))
            Several(I) == open_batch(composed, I, chunks)
            D == stc_build_pc_commitment(composed)
        IN  /\ \A i, k \in Domain :
                  /\ stc_verify_chunk(C, stc_open_chunk(acc, i, Row(k))) <=> Row(i) = Row(k)
                  /\ stc_verify_chunk(C, [stc_open_chunk(acc, i, Row(i)) EXCEPT !.chunk_index = k])
                        <=> i = k
            /\ \A i, q \in Domain, k \in {0, row_width - 1} :
                  stc_verify_index(C, [At(q, k) EXCEPT !.chunk_index = i]) <=> i = q
            /\ \A q \in Domain, k, m \in {0, 1, row_width - 1} :
                  stc_verify_index(C, [At(q, k) EXCEPT !.leaf_pos = m]) <=> k = m
            /\ \A q \in Domain, k \in {0, row_width - 1} :
                  ~ stc_verify_index(C, [At(q, k) EXCEPT !.value = Other(@)])
            /\ \A q \in Domain, k \in {0, row_width - 1}, label \in {0, acc.length - 1, acc.length} :
                  stc_verify_index(C, [At(q, k) EXCEPT !.index = label]) <=> label < acc.length
            /\ \A I \in kSubset(1, Domain) \cup kSubset(2, Domain) : \A batch \in {Several(I)} :
                  /\ verify_batch(D, batch) <=> ~ AloneIn(I, Cfg.domain_size)
                  /\ \A i \in I :
                        /\ ~ verify_batch(D, [batch EXCEPT !.entries[i].value = Other(@)])
                        /\ ~ verify_batch(D, [batch EXCEPT !.entries = Restrict(@, I \ {i})])
                        /\ \A label \in 0..Cfg.domain_size \ I :
                              verify_batch(D, Relabelled(batch, i, label))
                                 <=> verify_batch(D, batch) /\ label < Cfg.domain_size

ReadsCommitted ==
    \A i \in DOMAIN openings :
        /\ openings[i].row_values = Row(i)
        /\ openings[i].next # <<>> => openings[i].next[1].row_values = Row(i + 1)

\* The rounds of this run open a chunk that is alone in its group.
OpensAlone ==
    \E r \in 1..Cfg.num_rounds + 1 :
        AloneIn(Needed(Cfg, r, drawn), Halved(Cfg.domain_size, Cfg.num_rounds)[r - 1])

\* A run that nobody disturbs produces a proof that its own check and every
\* later one with the same binding accepts: the constraints that the verifier
\* evaluates at an opened row, at the boundary of the trace and in the
\* padding are those the prover composed. It fails only on a trace of one
\* step, on a chunk alone in its group, or when it reads files of another run.
HonestVerifies ==
    /\ phase = "failed" => \/ ~ CanFold(Cfg)
                          \/ OpensAlone
                          \/ ~ ReadsCommitted
                          \/ (foreign > 0 /\ DOMAIN openings # drawn)
    /\ phase = "refused" => \/ received.damage # <<"none", 0>>
                           \/ BindingOf(received.given, Statement)
                                  # BindingOf(job.binding, Statement)

\* A published proof opens the committed rows, whatever was done to the
\* archive between the commitment and the openings. A proof that is accepted
\* opens them too and was checked with the binding it was made with; bound to
\* its own statement, it declares the results of the trace.
OpensCommitted ==
    /\ phase \in {"published", "accepted", "refused", "audited"} => ReadsCommitted
    /\ phase \in {"accepted", "audited"} =>
          LET p == Delivered(Proof, received.damage)
          IN  /\ p.row_openings = openings
              /\ BindingOf(received.given, p.statement) = BindingOf(job.binding, Statement)
              /\ received.given = None => p.statement = Statement

\* A proof that is accepted opens the composition of the committed trace in
\* every layer; when the trace's last row is queried, the composed value there
\* ties the declared results to it, whatever the proof is bound to.
AcceptedCommitted ==
    phase \in {"accepted", "audited"} =>
        LET p == Delivered(Proof, received.damage)
        IN  /\ p.fri_proof = fri
            /\ job.steps - 1 \in drawn => p.statement = Statement

\* The audit finds the sampled files good exactly when they are the rows that
\* the proof is about, even if the directory has changed since; with at least
\* as many samples as rows, that is the whole trace.
AuditExact ==
    audit # None =>
        (audit.outcome = "verified" <=>
            audit.indices # {} /\ \A i \in audit.indices : archive[i] = Row(i))
=============================================================================
