------------------------------- MODULE Base64 -------------------------------
(***************************************************************************)
(* struct b64 (util.hpp), which writes a job's standard input into its     *)
(* unit: a 16-bit accumulator that lives across the calls of feed(), each  *)
(* with a segment of the data, and is flushed by finish().                 *)
(*                                                                         *)
(* `fed` and `put` are history: the bytes taken and the digits written     *)
(* before finish(), each read as one big-endian number.                    *)
(***************************************************************************)
EXTENDS Integers, Sequences

VARIABLES
    todo,       \* what the current feed() has not taken yet: beg .. end
    acc,        \* uint16_t: the bits taken and not written yet, left-aligned
    accsz,      \* how many there are
    out,        \* what was written: positions in alphabet[], or Pad (see Text)
    finished,   \* finish() was called
    fed, put

b64vars == <<todo, acc, accsz, out, finished, fed, put>>

Byte   == {b \in Nat : b < 256}
Symbol == {d \in Nat : d <= 64}
Pad == 64       \* '='

\* The characters, by their ASCII codes: A-Z, a-z, 0-9, and for the last two not the
\* '+' and '/' of base64 but the '-' and '_' of its URL-safe variant.
alphabet(d) ==
    CASE d < 26            -> d + 65
      [] d >= 26 /\ d < 52 -> d + 71
      [] d >= 52 /\ d < 62 -> d - 4
      [] d = 62            -> 45
      [] d = 63            -> 95
      [] d = Pad           -> 61

\* What the unit says.
Text == [i \in DOMAIN out |-> alphabet(out[i])]

\* The powers of two that occur: bits move in and out in even numbers.
Pow2(n) == CASE n = 0 -> 1 [] n = 2 -> 4 [] n = 4 -> 16 [] n = 6 -> 64 [] n = 8 -> 256
             [] n = 10 -> 1024 [] n = 12 -> 4096 [] n = 14 -> 16384 [] n = 16 -> 65536

Digit == acc \div 1024          \* acc >> (16 - alphabet_bits)

B64Init ==
    /\ todo = <<>> /\ acc = 0 /\ accsz = 0 /\ out = <<>> /\ finished = FALSE
    /\ fed = 0 /\ put = 0

Idle == todo = <<>> /\ accsz < 6 /\ ~finished

\* feed(): one call after another, each with some bytes.
Feed ==
    /\ Idle
    /\ todo' \in Seq(Byte)
    /\ UNCHANGED <<acc, accsz, out, finished, fed, put>>

\* Slip: the byte is placed as if the accumulator were empty.
Take_Unshifted ==
    /\ todo # <<>> /\ accsz < 6
    /\ acc' = (acc + Head(todo) * Pow2(8)) % 65536
    /\ accsz' = accsz + 8
    /\ todo' = Tail(todo)
    /\ fed' = fed * 256 + Head(todo)
    /\ UNCHANGED <<out, finished, put>>

\* The first half of the loop: a byte goes below the bits already there.  The
\* `|=` of the code is an addition because those bits are zero (Aligned).
Take ==
    /\ todo # <<>> /\ accsz < 6
    /\ acc' = (acc + Head(todo) * Pow2(8 - accsz)) % 65536
    /\ accsz' = accsz + 8
    /\ todo' = Tail(todo)
    /\ fed' = fed * 256 + Head(todo)
    /\ UNCHANGED <<out, finished, put>>

\* The second half: the six topmost bits are written.
Put ==
    /\ accsz >= 6
    /\ out' = Append(out, Digit)
    /\ acc' = (acc * 64) % 65536
    /\ accsz' = accsz - 6
    /\ put' = put * 64 + Digit
    /\ UNCHANGED <<todo, finished, fed>>

Finish ==
    /\ Idle
    /\ out' = out \o (IF accsz = 0 THEN <<>> ELSE <<Digit>>)
                  \o (IF accsz # 0 /\ accsz <= 4 THEN <<Pad>> ELSE <<>>)
                  \o (IF accsz = 2 THEN <<Pad>> ELSE <<>>)
    /\ finished' = TRUE
    /\ UNCHANGED <<todo, acc, accsz, fed, put>>

B64Next == Feed \/ Take \/ Put \/ Finish

B64Spec == B64Init /\ [][B64Next]_b64vars

-----------------------------------------------------------------------------
(* The accumulator never overflows, and alphabet[] is indexed within its 64 *)
(* characters.                                                              *)
B64TypeOK ==
    /\ todo \in Seq(Byte)
    /\ acc \in Nat /\ acc < 65536
    /\ accsz \in {0, 2, 4, 6, 8, 10, 12}
    /\ out \in Seq(Symbol)
    /\ finished \in BOOLEAN
    /\ fed \in Nat /\ put \in Nat

\* Nothing is left below the bits that count: a byte or-ed in does not mix
\* with what came before it.
Aligned == acc % Pow2(16 - accsz) = 0

\* However the data was cut into segments, the digits written and the bits
\* still held are the bytes taken: none lost, doubled or changed.
NothingLost == fed = put * Pow2(accsz) + acc \div Pow2(16 - accsz)

\* The text ends on a whole group of four, padding included: a decoder
\* refuses any other.
WholeGroups == finished => Len(out) % 4 = 0

\* The 16-bit accumulator that all calls of feed() share neither overflows nor
\* mixes bits, nothing is lost between two segments, and the text ends on a whole
\* group.  It says nothing of the alphabet: see StdinAsDocumented.
EncoderSound == B64TypeOK /\ Aligned /\ NothingLost /\ WholeGroups
=============================================================================
