---------------------------- MODULE MCGeomProof ----------------------------
\* Arguments for GeomProof: traces of one to five steps, which are padded to
\* one, two, four and eight rows, from two initial states; as many queries as
\* rows, fewer, and more; the field of 127 elements.
EXTENDS GeomProof, Bitwise

MCProgram == <<1, 2, 3, 1, 2, 0>>

MCChallenges == <<3, 29>>

\* A stand-in for the hashes: it tells names and indices apart.
MCHashToField(name, idx) ==
    1 + ((7 * Len(name[1]) + 11 * Len(name[2][1]) + 31 * name[2][2] + 17 * idx + 5 * idx * idx)
            % (Modulus - 1))

MCExclusiveOr(x, y) == x ^^ y

MCBeta(r) == 2 + 3 * r

Default == [GAS |-> 100]
Moving == [GAS |-> 90, ACC |-> 5, X1 |-> 1, X2 |-> 2]

This == [instance |-> "this"]

Arguments(steps, start, queries, samples, binding) ==
    [steps |-> steps, start |-> start, queries |-> queries, samples |-> samples,
     binding |-> binding]

MCJobs ==
    {Arguments(1, Default, 1, 1, This),
     Arguments(2, Moving, 2, 1, None),
     Arguments(3, Default, 5, 1, This),
     Arguments(3, Moving, 2, 2, This),
     Arguments(4, Moving, 1, 4, None),
     Arguments(5, Moving, 1, 0, This)}
=============================================================================
