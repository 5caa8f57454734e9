-------------------------------- MODULE Lib --------------------------------
(***************************************************************************)
(* Functions that only compute: comparing strings and printing numbers,    *)
(* src/src/lib/lib.c, and the Internet checksum of src/src/network/net.c.  *)
(* Each is written as its loop goes, and compared with what it is meant to *)
(* compute.  A string is the sequence of its characters, without the zero  *)
(* that ends it.                                                           *)
(***************************************************************************)
EXTENDS Integers, FiniteSetsExt, SequencesExt

CONSTANTS
  ByteSize,  \* the number of values of a byte, 256
  MaxLen,    \* bound of the model: the length of strings and packets
  Ints       \* the numbers that are printed

ASSUME LibAssumption ==
  ByteSize \in Nat \ {0, 1} /\ MaxLen \in Nat /\ Ints \subseteq Int

AnyByte == 0 .. ByteSize - 1

WordSize == ByteSize * ByteSize

Index == 1 .. MaxLen + 1

At(s, i) == IF i <= Len(s) THEN s[i] ELSE 0

-----------------------------------------------------------------------------

strcmp(a, b) ==
  LET from[i \in Index] ==
        IF At(a, i) # 0 /\ At(b, i) # 0 /\ At(a, i) = At(b, i) THEN from[i + 1]
        ELSE At(a, i) - At(b, i)
  IN  from[1]

(* Mutant of strncmp: it reads on behind the end of two equal strings. *)
strncmp_over_end(a, b, n) ==
  LET c == a \o <<1>>
      d == b \o <<2>>
      from[i \in 1 .. n + 1] ==
        IF i > n THEN 0
        ELSE IF At(c, i) # At(d, i) THEN At(c, i) - At(d, i)
        ELSE from[i + 1]
  IN  from[1]

strncmp(a, b, n) ==
  LET from[i \in 1 .. n + 1] ==
        IF i > n THEN 0
        ELSE IF At(a, i) # At(b, i) THEN At(a, i) - At(b, i)
        ELSE IF At(a, i) = 0 THEN 0
        ELSE from[i + 1]
  IN  from[1]

(* Mutant of digits: the case of zero is missing. *)
digits_of_positive(value, base) ==
  LET from[v \in 0 .. value] ==
        IF v = 0 THEN <<>> ELSE Append(from[v \div base], v % base)
  IN  from[value]

(* print_unsigned_base: the digits from the last to the first, printed from the
   first to the last. *)
digits(value, base) ==
  LET from[v \in 0 .. value] ==
        IF v = 0 THEN <<>> ELSE Append(from[v \div base], v % base)
  IN  IF value = 0 THEN <<0>> ELSE from[value]

Printed(value, base) ==
  IF value < 0 THEN [minus |-> TRUE, digits |-> digits(-value, base)]
  ELSE [minus |-> FALSE, digits |-> digits(value, base)]

(* The words of a packet, an odd last byte being the first of its word. *)
Words(bytes) ==
  [k \in 1 .. (Len(bytes) + 1) \div 2 |->
     bytes[2 * k - 1] * ByteSize +
       (IF 2 * k <= Len(bytes) THEN bytes[2 * k] ELSE 0)]

Sum(words) ==
  LET upto[k \in 0 .. Len(words)] == IF k = 0 THEN 0 ELSE upto[k - 1] + words[k]
  IN  upto[Len(words)]

(* Mutant of folded: the carry of the carry is lost. *)
folded_once(sum) == ((sum % WordSize) + sum \div WordSize) % WordSize

folded(sum) ==
  LET from[n \in 0 .. sum] ==
        IF n < WordSize THEN n ELSE from[(n % WordSize) + n \div WordSize]
  IN  from[sum]

checksum(bytes) == WordSize - 1 - folded(Sum(Words(bytes)))

-----------------------------------------------------------------------------
(* A caller of these functions. *)

VARIABLES
  call,  \* the function and its arguments
  ret    \* what it returned or printed

libVars == <<call, ret>>

Strings == BoundedSeq(AnyByte \ {0}, MaxLen)

Nothing == [fn |-> "none"]

LibInit == call = Nothing /\ ret = 0

CallStrncmp ==
  \E a, b \in Strings, n \in 0 .. MaxLen + 1 :
    /\ call' = [fn |-> "strncmp", a |-> a, b |-> b, n |-> n]
    /\ ret' = [full |-> strcmp(a, b), part |-> strncmp(a, b, n)]

CallPrint ==
  \E value \in Ints, base \in {2, 10, 16} :
    /\ call' = [fn |-> "print", value |-> value, base |-> base]
    /\ ret' = Printed(value, base)

CallChecksum ==
  \E bytes \in BoundedSeq(AnyByte, 2 * MaxLen + 1) :
    /\ call' = [fn |-> "checksum", bytes |-> bytes]
    /\ ret' = checksum(bytes)

Done == call' = Nothing /\ ret' = 0

LibNext ==
  \/ call = Nothing /\ (CallStrncmp \/ CallPrint \/ CallChecksum)
  \/ call # Nothing /\ Done

LibSpec == LibInit /\ [][LibNext]_libVars

-----------------------------------------------------------------------------
(* Properties. *)

(* The dictionary order of strings. *)
Before(a, b) ==
  \/ IsStrictPrefix(a, b)
  \/ \E k \in 1 .. Min({Len(a), Len(b)}) :
       SubSeq(a, 1, k - 1) = SubSeq(b, 1, k - 1) /\ a[k] < b[k]

Cut(s, n) == SubSeq(s, 1, Min({Len(s), n}))

(* strcmp orders strings as a dictionary does, and strncmp does so with their
   first n characters: a string that ends early is not read behind its end. *)
ComparesLikeDictionary ==
  call.fn = "strncmp" =>
    /\ ret.full < 0 <=> Before(call.a, call.b)
    /\ ret.full = 0 <=> call.a = call.b
    /\ ret.part < 0 <=> Before(Cut(call.a, call.n), Cut(call.b, call.n))
    /\ ret.part = 0 <=> Cut(call.a, call.n) = Cut(call.b, call.n)

(* The number that is written with these digits. *)
Number(ds, base) ==
  LET upto[k \in 0 .. Len(ds)] ==
        IF k = 0 THEN 0 ELSE upto[k - 1] * base + ds[k]
  IN  upto[Len(ds)]

(* What printf prints for a number is its one numeral: read as a number it is
   the number, and it has no leading zeros but the zero of 0. *)
PrintsNumeral ==
  call.fn = "print" =>
    LET abs == Number(ret.digits, call.base)
    IN  /\ ret.digits # <<>>
        /\ \A k \in DOMAIN ret.digits : ret.digits[k] \in 0 .. call.base - 1
        /\ ret.digits[1] = 0 => ret.digits = <<0>>
        /\ call.value = IF ret.minus THEN -abs ELSE abs

(* A receiver that adds all words of a packet and its checksum in one's
   complement, where a carry out of a word is worth one, gets ones only: a
   multiple of that word, and not zero. *)
ChecksumVerifies ==
  call.fn = "checksum" =>
    LET total == Sum(Words(call.bytes)) + ret
    IN  ret \in 0 .. WordSize - 1 /\ total > 0 /\ total % (WordSize - 1) = 0
=============================================================================
