--------------------------- MODULE MCRunDirectory ---------------------------
\* Arguments for RunDirectory: two policies and two traces, every way to obtain
\* a challenge, with and without a signer.  Two of the arguments may overlap.
EXTENDS RunDirectory, TLC

CONSTANTS p1, p2, t1, t2

Arguments(p, t, s, profile, da) ==
    [policy |-> p, trace |-> t, signed |-> s, profile |-> profile, da |-> da]

MCInputs ==
    {Arguments(p1, t1, TRUE, "full", "relay"),
     Arguments(p2, t2, TRUE, "proof_only", "insecure"),
     Arguments(p1, t2, TRUE, "full", "file"),
     Arguments(p1, t1, FALSE, "full", "insecure"),
     Arguments(p2, t1, TRUE, "proof_only", "none")}

MCOverlapping ==
    {Arguments(p1, t1, TRUE, "full", "relay"),
     Arguments(p2, t2, TRUE, "proof_only", "none")}

MCSymmetry == Permutations(Attempts)
=============================================================================
