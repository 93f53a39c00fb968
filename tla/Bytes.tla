-------------------------------- MODULE Bytes --------------------------------
(***************************************************************************)
(* What the encoders and decoders of the protocol crate are built of:      *)
(* numbers as big-endian bytes, and readers that take a value off the front *)
(* of their input (protocol/src/codec).                                    *)
(***************************************************************************)
EXTENDS Integers, Sequences, SequencesExt, TLC

BigEndian(width, n) ==
    LET Shifted[k \in 0 .. width] == IF k = 0 THEN n ELSE Shifted[k - 1] \div 256
    IN  [i \in 1 .. width |-> Shifted[width - i] % 256]

\* The sum of encoded_sizes.
Total(sizes) == FoldLeft(LAMBDA a, b : a + b, 0, sizes)

-----------------------------------------------------------------------------
(* Reading.  A reader yields a value and the rest of its input, or stops:  *)
(* "incomplete" (DecodeError::Incomplete), "error" (another DecodeError),  *)
(* "panic".                                                                *)

Yield(rest, value) == [res |-> "ok", rest |-> rest, value |-> value]
Stop(res)          == [res |-> res, rest |-> <<>>, value |-> <<>>]

\* The operator ? of Rust.
AndThen(d, Continue(_)) == IF d.res = "ok" THEN Continue(d) ELSE d

From(n, input) == SubSeq(input, n, Len(input))

Number(bytes) == FoldLeft(LAMBDA n, b : 256 * n + b, 0, bytes)

\* split_at and slicing panic on an input that is too short.
SplitAt(n, input) ==
    IF Len(input) < n THEN Stop("panic")
                      ELSE Yield(From(n + 1, input), SubSeq(input, 1, n))

\* The reader! macro: check_len, then the number.
DecodeInt(width, input) ==
    IF Len(input) < width
    THEN Stop("incomplete")
    ELSE AndThen(SplitAt(width, input), LAMBDA d : Yield(d.rest, Number(d.value)))

\* read_exact.
Take(n, input) ==
    IF Len(input) < n
    THEN Stop("incomplete")
    ELSE Yield(From(n + 1, input), SubSeq(input, 1, n))

\* Two's complement: read_i8, read_i16, read_i32 and read_i64.
Signed(bytes) ==
    FoldLeft(LAMBDA n, b : 256 * n + b, IF bytes[1] < 128 THEN 0 ELSE -1, bytes)

DecodeSigned(width, input) ==
    AndThen(Take(width, input), LAMBDA d : Yield(d.rest, Signed(d.value)))

=============================================================================
