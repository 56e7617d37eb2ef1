------------------------------- MODULE MCHash -------------------------------
(* calc_hash over every digest of three bytes with two digits of four.      *)
EXTENDS Naturals, FiniteSets

LOCAL H == INSTANCE Hash WITH Half <- 4, Width <- 3, OverflowChecks <- TRUE

\* The text is the signed number of the digest, but for zero, whose text is
\* empty; no two digests have the same, and the hash overflows for the negative
\* ones whose last byte is zero: what HashProofs proves of every width, by
\* counting.
ASSUME HashOfEveryDigest ==
    /\ \A d \in H!Digests : H!IsSignedHex(H!CalcHash(d), d) <=> d # H!ZeroDigest
    /\ Cardinality({H!CalcHash(d) : d \in H!Digests}) = Cardinality(H!Digests)
    /\ \A d \in H!Digests : H!HashPanics(d) <=> H!Negative(d) /\ d[3] = 0
=============================================================================
