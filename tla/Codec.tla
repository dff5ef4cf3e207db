-------------------------------- MODULE Codec --------------------------------
(***************************************************************************)
(* The forms one leaf goes through: address and weight, the packed number  *)
(* in the tree, bytes on disk, a token of the JSON that Export writes, and *)
(* what Import makes of it.  The size of the tree goes to disk with it, as *)
(* digits; the keys of leaves are written by the same function.  The       *)
(* number in the tree may as well be a hash: nothing here looks inside it. *)
(***************************************************************************)
EXTENDS Integers, Sequences

CONSTANTS
    Origin,         \* bound: the addresses, weights and sizes tried
    AddressLimit,   \* the first address too big for a leaf: 2^160 in the code
    WeightLimit,    \* the first weight too big for a leaf: 2^88 in the code
    FieldSize,      \* the order of the field of the circuit, and of the MiMC hashers
    ByteBase,       \* the values of a byte: 256 in the code
    HashWidth,      \* the bytes of a field element: 32 in the code
    Child,          \* bound: the numbers that are hashed beside a leaf
    IntLimit,       \* the first number too big for an int: 2^63 in the code
    FloatLimit,     \* a float64 is exact up to here: 2^53 in the code
    ExpLimit        \* the first number a float64 is printed with an exponent: 10^21

ASSUME CodecAssumption ==
    /\ Origin \subseteq [address : Nat, weight : Nat, size : 0..(IntLimit - 1)]
    /\ AddressLimit \in Nat \ {0} /\ WeightLimit \in Nat \ {0} /\ FieldSize \in Nat
    /\ AddressLimit * WeightLimit <= FieldSize
    /\ ByteBase \in Nat /\ ByteBase > 1
    /\ HashWidth \in Nat /\ Child \subseteq 0..(FieldSize - 1)
    /\ IntLimit \in Nat \ {0} /\ FloatLimit \in Nat \ {0} /\ ExpLimit \in Nat
    /\ FloatLimit <= ExpLimit

VARIABLES
    origin,    \* what the caller had
    at,        \* where the leaf is now
    leaf,      \* the leaf in its form there
    size,      \* the size of the tree in its form there
    mapped     \* history: has Import called mapFn for the leaf?

vars == <<origin, at, leaf, size, mapped>>

Digit == 0..9

CodecTypeOK ==
    /\ origin \in Origin
    /\ at \in {"caller", "tree", "disk", "json", "failed", "panicked"}
    /\ IF at = "disk"
       THEN leaf \in Seq(0..(ByteBase - 1)) /\ size \in Seq(Digit)
       ELSE leaf \in Nat /\ size \in 0..(IntLimit - 1)
    /\ mapped \in BOOLEAN

-----------------------------------------------------------------------------
(* Packing *)

FitsLeaf(address, weight) == address < AddressLimit /\ weight < WeightLimit

\* PackAddressWeight of what fits; it panics on anything else.
Pack(address, weight) == address * WeightLimit + weight

UnpackAddressWeight(packed) == <<packed \div WeightLimit, packed % WeightLimit>>

\* Mutant: the circuit does not constrain the weight.
BugNoWeightRange(address, weight, value) ==
    /\ address < AddressLimit
    /\ value = (address * WeightLimit + weight) % FieldSize

\* The circuit's PackLeaf: can value be the leaf of address and weight?
PackLeaf(address, weight, value) ==
    /\ address < AddressLimit /\ weight < WeightLimit
    /\ value = (address * WeightLimit + weight) % FieldSize

-----------------------------------------------------------------------------
(* Bytes and digits *)

\* The digits of a number in a base, the biggest first, none for 0.
Digits(number, base) ==
    LET f[n \in 0..number] ==
            IF n = 0 THEN <<>> ELSE Append(f[n \div base], n % base)
    IN  f[number]

\* An element of the field fits the bytes FillBytes fills; it panics otherwise.
ASSUME WidthAssumption == \A n \in 0..(FieldSize - 1) : Len(Digits(n, ByteBase)) <= HashWidth

\* The number that digits stand for.
Number(digits, base) ==
    LET f[i \in 0..Len(digits)] ==
            IF i = 0 THEN 0 ELSE f[i - 1] * base + digits[i]
    IN  f[Len(digits)]

\* A zero has a byte of its own.
BigIntEncoder(n) == IF n = 0 THEN <<0>> ELSE Digits(n, ByteBase)

\* Mutant: the bytes are read from the wrong end.
BugLittleEndian(data) ==
    Number([i \in 1..Len(data) |-> data[Len(data) + 1 - i]], ByteBase)

BigIntDecoder(data) == Number(data, ByteBase)

\* Mutant: the loop ends at a zero digit.
BugStopsAtZero(n) ==
    LET f[x \in 0..n] == IF x % 10 = 0 THEN <<>> ELSE Append(f[x \div 10], x % 10)
    IN  IF n = 0 THEN <<0>> ELSE f[n]

\* intToString, for the keys of leaves and for meta:size.
EncodeInt(n) == IF n = 0 THEN <<0>> ELSE Digits(n, 10)

\* Mutant: characters are taken for the digits they show.
BugCharacters(digits) ==
    ((Number([i \in 1..Len(digits) |-> 48 + digits[i]], 10) + IntLimit) % (2 * IntLimit))
        - IntLimit

\* An int wraps around.
DecodeInt(digits) == ((Number(digits, 10) + IntLimit) % (2 * IntLimit)) - IntLimit

-----------------------------------------------------------------------------
(* What is hashed *)

\* SHA256Hasher and Blake2bHasher: bytes one after the other, none for a zero.
Concatenated(left, right) == Digits(left, ByteBase) \o Digits(right, ByteBase)

\* Mutant: the padding is on the wrong side.
BugPaddedRight(n) ==
    LET data == Digits(n % FieldSize, ByteBase)
    IN  [i \in 1..HashWidth |-> IF i <= Len(data) THEN data[i] ELSE 0]

\* Reduced to the field and filled up with zeros on the left.
FillBytes(n) ==
    LET data == Digits(n % FieldSize, ByteBase)
        missing == HashWidth - Len(data)
    IN  [i \in 1..HashWidth |-> IF i <= missing THEN 0 ELSE data[i - missing]]

\* The two MiMC hashers.
Filled(left, right) == FillBytes(left) \o FillBytes(right)

-----------------------------------------------------------------------------
(* JSON *)

\* The distance between the floats around n: FloatLimit is a power of two.
Spacing(n) ==
    2 ^ (CHOOSE k \in 0..n : /\ n < FloatLimit * 2 ^ k
                             /\ \A j \in 0..(k - 1) : n >= FloatLimit * 2 ^ j)

\* The float64 nearest to n, the even one of two.
Float64(n) ==
    LET step == Spacing(n)
        below == n \div step
        over == n % step
        up == 2 * over > step \/ (2 * over = step /\ below % 2 = 1)
    IN  step * (IF up THEN below + 1 ELSE below)

\* What mapFn may be given for n when Import has read it as a float64 and printed that: the
\* shortest number that stands for the same float, or text with an exponent, which it
\* cannot parse.
Reprinted(n) ==
    IF n < FloatLimit THEN {n}
    ELSE IF Float64(n) < ExpLimit THEN {m \in 0..(2 * n) : Float64(m) = Float64(n)}
    ELSE {}

-----------------------------------------------------------------------------

Move(from, to) == at = from /\ at' = to /\ UNCHANGED origin

\* Add, of an entry that fits a leaf; otherwise it panics.
Add ==
    /\ UNCHANGED <<size, mapped>>
    /\ IF FitsLeaf(origin.address, origin.weight)
       THEN Move("caller", "tree") /\ leaf' = Pack(origin.address, origin.weight)
       ELSE Move("caller", "panicked") /\ UNCHANGED leaf

Sync ==
    /\ Move("tree", "disk")
    /\ leaf' = BigIntEncoder(leaf) /\ size' = EncodeInt(size)
    /\ UNCHANGED mapped

Load ==
    /\ Move("disk", "tree")
    /\ leaf' = BigIntDecoder(leaf) /\ size' = DecodeInt(size)
    /\ UNCHANGED mapped

\* A *big.Int is written as a number, not as a string.
Export == Move("tree", "json") /\ UNCHANGED <<leaf, size, mapped>>

\* With no mapFn a number is parsed as it stands.
Import == Move("json", "tree") /\ UNCHANGED <<leaf, size, mapped>>

\* With one, which returns its error.
ImportMapped ==
    /\ mapped' = TRUE
    /\ UNCHANGED size
    /\ \/ Move("json", "tree") /\ leaf' \in Reprinted(leaf)
       \/ Move("json", "failed") /\ Reprinted(leaf) = {} /\ UNCHANGED leaf

Init ==
    /\ origin \in Origin
    /\ at = "caller"
    /\ leaf = 0
    /\ size = origin.size
    /\ mapped = FALSE

Next == Add \/ Sync \/ Load \/ Export \/ Import \/ ImportMapped

Spec == Init /\ [][Next]_vars

-----------------------------------------------------------------------------
(* Properties *)

\* A leaf comes back from disk, from JSON and from any sequence of the two as the number
\* it was; only one that a float64 may not hold can be lost or altered, and only by an
\* Import with mapFn.  (BigIntEncoder, BigIntDecoder, Export, Import)
LeavesSurvive ==
    LET packed == Pack(origin.address, origin.weight)
    IN  at \in {"tree", "failed"} /\ (mapped => packed < FloatLimit)
        => at = "tree" /\ leaf = packed

\* The same with no exception: what Export wrote of a leaf as a string, as its doc has it,
\* mapFn would be given digit by digit.  (Export, Import)
StringsSurvive ==
    at \in {"tree", "failed"} =>
        at = "tree" /\ leaf = Pack(origin.address, origin.weight)

\* The size comes back from its digits, so two ints never have the same ones: no two
\* leaves share a key.  (encodeInt, decodeInt, intToString)
SizesSurvive == at = "tree" => size = origin.size

\* What PackAddressWeight accepts the circuit accepts too and packs to the same leaf, no
\* two entries of the field to one; and the leaf unpacks to its entry.  (PackAddressWeight,
\* UnpackAddressWeight, PackLeaf)
PackingAgrees ==
    LET entry == <<origin.address, origin.weight>>
        InField == 0..(FieldSize - 1)
    IN  /\ at = "panicked" =>
               ~ \E value \in InField : PackLeaf(entry[1], entry[2], value)
        /\ at = "tree" /\ ~mapped =>
               /\ UnpackAddressWeight(leaf) = entry
               /\ \A a, w \in InField : PackLeaf(a, w, leaf) <=> <<a, w>> = entry

\* No other pair of children is hashed from the same bytes as a leaf and its sibling: with
\* the MiMC hashers never, with SHA256Hasher and Blake2bHasher as long as the left ones have
\* the same number of bytes, as two packed leaves need not have.  (the hash functions)
PairsToldApart ==
    at = "tree" /\ ~mapped =>
        \A right, c, d \in Child :
            \/ Filled(leaf, right) = Filled(c, d)
            \/ /\ Concatenated(leaf, right) = Concatenated(c, d)
               /\ Len(Digits(leaf, ByteBase)) = Len(Digits(c, ByteBase))
            => <<c, d>> = <<leaf, right>>

=============================================================================
