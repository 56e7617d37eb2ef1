-------------------------------- MODULE Hash --------------------------------
(***************************************************************************)
(* calc_hash: the text that names a login to Mojang, a SHA-1 digest read   *)
(* as a signed number and written in hexadecimal.  A digest has Width      *)
(* bytes (20 in the code) and a byte has two digits of Half values (16).   *)
(***************************************************************************)
EXTENDS Integers, Sequences, FiniteSets

CONSTANTS
    Half,            \* how many values a digit has
    Width,           \* how many bytes a digest has
    OverflowChecks   \* whether the build panics when a u8 overflows

ASSUME HashAssumption ==
    /\ Half \in Nat \ {0} /\ Half % 2 = 0
    /\ Width \in Nat \ {0}
    /\ OverflowChecks \in BOOLEAN

Byte == Half * Half
Digests == [1..Width -> 0..(Byte - 1)]

Negative(d) == d[1] >= Byte \div 2

\* Fault variant: a carry ends at the last byte.
TwoComplement_NoCarry(d) ==
    [bytes |-> [i \in 1..Width |-> ((Byte - 1 - d[i]) + (IF i = Width THEN 1 ELSE 0)) % Byte],
     overflow |-> d[Width] = 0]

\* From the last byte to the first: flipped, and one more while there is a
\* carry; that overflows where the flipped byte is full, and then carries on.
TwoComplement(d) ==
    LET flipped(i) == Byte - 1 - d[i]
        carry[i \in 1..Width] == i = Width \/ (carry[i + 1] /\ flipped(i + 1) = Byte - 1)
    IN  [bytes |-> [i \in 1..Width |-> (flipped(i) + (IF carry[i] THEN 1 ELSE 0)) % Byte],
         overflow |-> \E i \in 1..Width : carry[i] /\ flipped(i) = Byte - 1]

\* hex::encode: two digits for each byte.
Encode(d) ==
    [i \in 1..(2 * Width) |->
        IF i % 2 = 1 THEN d[(i + 1) \div 2] \div Half ELSE d[i \div 2] % Half]

RemoveZeros(s) ==
    LET zeros == {i \in 1..Len(s) : \A j \in 1..i : s[j] = 0}
    IN  SubSeq(s, Cardinality(zeros) + 1, Len(s))

\* Fault variant: the sign is not written.
CalcHash_Unsigned(d) ==
    [minus |-> FALSE,
     digits |-> RemoveZeros(Encode(IF Negative(d) THEN TwoComplement(d).bytes ELSE d))]

CalcHash(d) ==
    [minus |-> Negative(d),
     digits |-> RemoveZeros(Encode(IF Negative(d) THEN TwoComplement(d).bytes ELSE d))]

\* calc_hash ends in a panic.
HashPanics(d) == OverflowChecks /\ Negative(d) /\ TwoComplement(d).overflow

-----------------------------------------------------------------------------
(* The number a digest stands for, and the number a text stands for.       *)

\* The value of a sequence of digits to a base, the first one weighing most.
Number(s, base) ==
    LET upTo[i \in 0..Len(s)] == IF i = 0 THEN 0 ELSE upTo[i - 1] * base + s[i]
    IN  upTo[Len(s)]

\* In a negative number the first byte counts from minus Byte.
SignedNumber(d) ==
    Number(IF Negative(d) THEN [d EXCEPT ![1] = @ - Byte] ELSE d, Byte)

\* The digest whose text is empty, where Java writes 0.
ZeroDigest == [i \in 1..Width |-> 0]

\* Java's BigInteger.toString(16), which the Minecraft protocol uses: at least
\* one digit, and the first one is not 0 unless it is the only one.
IsSignedHex(t, d) ==
    /\ Number(t.digits, Half) = SignedNumber(d) * (IF t.minus THEN -1 ELSE 1)
    /\ t.digits = <<0>> \/ (t.digits # <<>> /\ t.digits[1] # 0)
=============================================================================
