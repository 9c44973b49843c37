-------------------------- MODULE JobCommandProofs --------------------------
(***************************************************************************)
(* What a job runs, reads and is called, for every command portion of any  *)
(* length (JobCommand), and the encoder its standard input goes through,   *)
(* for data of any length in any segmentation (Base64).                    *)
(*                                                                         *)
(* The claims of JobCommand are about recursive functions of a text.  No   *)
(* induction theorem that takes an operator can be used here, and none is  *)
(* needed: induction is over a set, Nat being well-founded, and a function *)
(* that a text's recursive definition chooses is shown to exist by         *)
(* building it one length at a time.  From there on texts are joined and   *)
(* cut, value by value (Join), and never looked into.                      *)
(*                                                                         *)
(*   - Segments read as the text read character by character (Agrees);     *)
(*   - the words, their blanks and the script are the text's, position by  *)
(*     position (Tokenised, Pieces, Parts);                                *)
(*   - the encoder, having taken n bytes of the data D, has written the    *)
(*     digits they make and holds their last bits (Encoded), and what is   *)
(*     left is the rest of D (Left);                                       *)
(*   - JobInv, DataInv and IInv, the inductive invariants, say so of the   *)
(*     states.                                                             *)
(***************************************************************************)
EXTENDS JobCommand, SequenceTheorems, WellFoundedInduction, TLAPS

-----------------------------------------------------------------------------
(* The encoder. *)

\* Where in a group of four the encoder is.
Phase ==
    ~finished => \/ Len(out) % 4 = 0 /\ accsz \in {0, 8}
                 \/ Len(out) % 4 = 1 /\ accsz \in {2, 10}
                 \/ Len(out) % 4 = 2 /\ accsz \in {4, 12}
                 \/ Len(out) % 4 = 3 /\ accsz = 6

\* Nothing is under way after finish().
Over == finished => todo = <<>> /\ accsz < 6

IInv == B64TypeOK /\ Over /\ Aligned /\ NothingLost /\ Phase /\ WholeGroups

\* One digit more, modulo four.
LEMMA NextPhase ==
    ASSUME NEW m \in Nat, NEW n, n = m + 1
    PROVE  /\ m % 4 = 0 => n % 4 = 1
           /\ m % 4 = 1 => n % 4 = 2
           /\ m % 4 = 2 => n % 4 = 3
           /\ m % 4 = 3 => n % 4 = 0
OBVIOUS

\* Arithmetic: a byte b below the bits of a, of which the lowest is worth
\* n * 256, where n is what the byte's lowest bit is worth.
LEMMA TakeArith ==
    ASSUME NEW n \in {256, 64, 16}, NEW a \in Nat, a < 65536, a % (n * 256) = 0,
           NEW b \in Nat, b < 256
    PROVE  /\ (a + b * n) % 65536 = a + b * n /\ a + b * n < 65536
           /\ (a + b * n) % n = 0
           /\ (a + b * n) \div n = (a \div (n * 256)) * 256 + b
  <1> DEFINE k == a \div (n * 256)
  <1>1. k \in Nat /\ a = n * 256 * k
    <2>1. CASE n = 256 BY <2>1
    <2>2. CASE n = 64 BY <2>2
    <2>3. CASE n = 16 BY <2>3
    <2> QED BY <2>1, <2>2, <2>3
  <1> HIDE DEF k
  <1>2. CASE n = 256 BY <1>1, <1>2 DEF k
  <1>3. CASE n = 64 BY <1>1, <1>3 DEF k
  <1>4. CASE n = 16 BY <1>1, <1>4 DEF k
  <1> QED
    BY <1>2, <1>3, <1>4

\* A natural number shifted down is one.
LEMMA DivNat == ASSUME NEW x \in Nat, NEW m \in Nat \ {0} PROVE x \div m \in Nat
  OBVIOUS

\* c is what the accumulator holds once the six topmost bits of a have left,
\* where n is what the lowest bit of a that counts is worth.
PutKeeps(a, n, c) ==
    /\ c \in Nat /\ c < 65536 /\ c % (n * 64) = 0
    /\ a \div n = (a \div 1024) * (1024 \div n) + c \div (n * 64)

\* Arithmetic: shifting up by six in 16 bits drops those six bits and no other.
LEMMA PutArith ==
    ASSUME NEW n \in {1024, 256, 64, 16}, NEW a \in Nat, a < 65536, a % n = 0
    PROVE  PutKeeps(a, n, (a * 64) % 65536)
  <1> DEFINE d == a \div 1024
             r == (a % 1024) \div n
  <1>1. d \in Nat /\ r \in Nat /\ d < 64 /\ r * n < 1024 /\ a = 1024 * d + n * r
    <2>1. CASE n = 1024 BY <2>1
    <2>2. CASE n = 256 BY <2>2
    <2>3. CASE n = 64 BY <2>3
    <2>4. CASE n = 16 BY <2>4
    <2> QED BY <2>1, <2>2, <2>3, <2>4
  <1> HIDE DEF d, r
  <1>2. (a * 64) % 65536 = 64 * n * r
    <2>1. CASE n = 1024 BY <1>1, <2>1
    <2>2. CASE n = 256 BY <1>1, <2>2
    <2>3. CASE n = 64 BY <1>1, <2>3
    <2>4. CASE n = 16 BY <1>1, <2>4
    <2> QED BY <2>1, <2>2, <2>3, <2>4
  <1>3. CASE n = 1024 BY <1>1, <1>2, <1>3 DEF d, PutKeeps
  <1>4. CASE n = 256 BY <1>1, <1>2, <1>4 DEF d, PutKeeps
  <1>5. CASE n = 64 BY <1>1, <1>2, <1>5 DEF d, PutKeeps
  <1>6. CASE n = 16 BY <1>1, <1>2, <1>6 DEF d, PutKeeps
  <1> QED
    BY <1>3, <1>4, <1>5, <1>6

\* The initial state: nothing taken, nothing written.
LEMMA InitIInv == B64Init => IInv
  <1> SUFFICES ASSUME B64Init PROVE IInv
    OBVIOUS
  <1>1. B64TypeOK
    <2>1. todo \in Seq(Byte) /\ out \in Seq(Symbol)
      BY DEF B64Init
    <2>2. acc = 0 /\ accsz = 0 /\ fed = 0 /\ put = 0 /\ finished = FALSE
      BY DEF B64Init
    <2>3. acc \in Nat /\ acc < 65536 /\ accsz \in {0, 2, 4, 6, 8, 10, 12} /\ fed \in Nat /\ put \in Nat
      BY <2>2
    <2>4. finished \in BOOLEAN
      BY <2>2
    <2> QED
      BY <2>1, <2>3, <2>4 DEF B64TypeOK
  <1>2. Aligned /\ NothingLost
    BY DEF B64Init, Aligned, NothingLost, Pow2
  <1>3. Over /\ Phase /\ WholeGroups
    <2>1. Len(out) = 0 /\ accsz = 0 /\ finished = FALSE
      BY DEF B64Init
    <2> QED
      BY <2>1 DEF Over, Phase, WholeGroups
  <1> QED
    BY <1>1, <1>2, <1>3 DEF IInv

\* feed() only brings bytes.
LEMMA FeedIInv == IInv /\ Feed => IInv'
  BY DEF Feed, Idle, IInv, B64TypeOK, Aligned, NothingLost, Over, Phase, WholeGroups

\* A byte fits below the bits held, of which there are 0, 2 or 4.
LEMMA TakeIInv == IInv /\ Take => IInv'
  <1> SUFFICES ASSUME IInv, Take PROVE IInv'
    OBVIOUS
  <1> USE DEF IInv, B64TypeOK
  <1>1. Head(todo) \in Byte /\ Tail(todo) \in Seq(Byte)
    BY DEF Take
  <1>2. Head(todo) \in Nat /\ Head(todo) < 256
    BY <1>1 DEF Byte
  <1>3. accsz \in {0, 2, 4}
    BY DEF Take
  <1>4. /\ Pow2(8 - accsz) \in {256, 64, 16} /\ Pow2(16 - accsz) = Pow2(8 - accsz) * 256
        /\ Pow2(16 - (accsz + 8)) = Pow2(8 - accsz) /\ Pow2(accsz + 8) = Pow2(accsz) * 256
        /\ Pow2(accsz) \in Nat
    <2>1. CASE accsz = 0 BY <2>1 DEF Pow2
    <2>2. CASE accsz = 2 BY <2>2 DEF Pow2
    <2>3. CASE accsz = 4 BY <2>3 DEF Pow2
    <2> QED BY <1>3, <2>1, <2>2, <2>3
  <1>5. /\ acc' = acc + Head(todo) * Pow2(8 - accsz) /\ acc' \in Nat /\ acc' < 65536
        /\ acc' % Pow2(8 - accsz) = 0
        /\ acc' \div Pow2(8 - accsz) = (acc \div Pow2(16 - accsz)) * 256 + Head(todo)
    <2> DEFINE n == Pow2(8 - accsz)
    <2>1. n \in {256, 64, 16} /\ Pow2(16 - accsz) = n * 256
      BY <1>4
    <2>2. acc % (n * 256) = 0
      BY <2>1 DEF Aligned
    <2>3. acc' = (acc + Head(todo) * n) % 65536
      BY DEF Take
    <2>4. n \in Nat
      BY <2>1
    <2> DEFINE b == Head(todo)
    <2>a. acc \in Nat /\ acc < 65536 /\ b \in Nat /\ b < 256
      BY <1>2
    <2> HIDE DEF n, b, IInv, B64TypeOK
    <2>5. /\ (acc + b * n) % 65536 = acc + b * n /\ acc + b * n < 65536
          /\ (acc + b * n) % n = 0
          /\ (acc + b * n) \div n = (acc \div (n * 256)) * 256 + b
      BY <2>a, <2>1, <2>2, TakeArith
    <2>6. acc + b * n \in Nat
      BY <2>a, <2>4
    <2> QED
      BY <2>1, <2>3, <2>5, <2>6 DEF n, b
  <1>6. B64TypeOK'
    BY <1>1, <1>2, <1>3, <1>5, SMTT(30) DEF Take
  <1>7. Aligned'
    BY <1>3, <1>4, <1>5 DEF Take, Aligned
  <1>8. NothingLost'
    <2>1. acc' \div Pow2(16 - accsz') = (acc \div Pow2(16 - accsz)) * 256 + Head(todo)
      BY <1>3, <1>4, <1>5 DEF Take
    <2>2. Pow2(accsz') = Pow2(accsz) * 256 /\ fed' = fed * 256 + Head(todo) /\ put' = put
      BY <1>3, <1>4 DEF Take
    <2>3. acc \div Pow2(16 - accsz) \in Nat
      BY <1>4
    <2> DEFINE p == Pow2(accsz) q == acc \div Pow2(16 - accsz)
    <2>4. fed = put * p + q
      BY DEF NothingLost
    <2> HIDE DEF p, q
    <2>5. p \in Nat /\ q \in Nat
      BY <1>4, <2>3 DEF p, q
    <2>6. fed * 256 + Head(todo) = put * (p * 256) + (q * 256 + Head(todo))
      BY <1>2, <2>4, <2>5
    <2>7. Pow2(accsz') = p * 256 /\ acc' \div Pow2(16 - accsz') = q * 256 + Head(todo)
      BY <2>1, <2>2 DEF p, q
    <2> QED
      BY <2>2, <2>6, <2>7 DEF NothingLost
  <1>9. Over' /\ Phase' /\ WholeGroups'
    BY <1>3 DEF Take, Over, Phase, WholeGroups
  <1> QED
    BY <1>6, <1>7, <1>8, <1>9

\* The digit written is the six topmost of the bits held.
LEMMA PutIInv == IInv /\ Put => IInv'
  <1> SUFFICES ASSUME IInv, Put PROVE IInv'
    OBVIOUS
  <1> USE DEF IInv, B64TypeOK
  <1>1. Digit \in Nat /\ Digit < 64
    BY DEF Digit
  <1>2. Digit \in Symbol
    BY <1>1 DEF Symbol
  <1>3. accsz \in {6, 8, 10, 12}
    BY DEF Put
  <1>4. /\ Pow2(16 - accsz) \in {1024, 256, 64, 16}
        /\ Pow2(16 - (accsz - 6)) = Pow2(16 - accsz) * 64
        /\ Pow2(accsz - 6) = 1024 \div Pow2(16 - accsz)
        /\ Pow2(accsz) = 64 * Pow2(accsz - 6) /\ Pow2(accsz - 6) \in Nat
    <2>1. CASE accsz = 6 BY <2>1 DEF Pow2
    <2>2. CASE accsz = 8 BY <2>2 DEF Pow2
    <2>3. CASE accsz = 10 BY <2>3 DEF Pow2
    <2>4. CASE accsz = 12 BY <2>4 DEF Pow2
    <2> QED BY <1>3, <2>1, <2>2, <2>3, <2>4
  <1>5. /\ acc' \in Nat /\ acc' < 65536 /\ acc' % (Pow2(16 - accsz) * 64) = 0
        /\ acc \div Pow2(16 - accsz)
             = Digit * (1024 \div Pow2(16 - accsz)) + acc' \div (Pow2(16 - accsz) * 64)
    <2> DEFINE n == Pow2(16 - accsz)
    <2>1. n \in {1024, 256, 64, 16}
      BY <1>4
    <2>2. acc % n = 0
      BY DEF Aligned
    <2>3. acc' = (acc * 64) % 65536
      BY DEF Put
    <2>a. acc \in Nat /\ acc < 65536
      OBVIOUS
    <2> HIDE DEF n, IInv, B64TypeOK
    <2>4. PutKeeps(acc, n, (acc * 64) % 65536)
      BY <2>1, <2>2, <2>a, PutArith
    <2> QED
      BY <2>3, <2>4 DEF PutKeeps, n, Digit
  <1>6. B64TypeOK'
    BY <1>1, <1>2, <1>3, <1>5 DEF Put
  <1>7. Aligned'
    BY <1>3, <1>4, <1>5 DEF Put, Aligned
  <1>8. NothingLost'
    <2> DEFINE p == Pow2(accsz - 6) q == acc' \div (Pow2(16 - accsz) * 64)
    <2>1. p \in Nat /\ q \in Nat
      <3>1. Pow2(16 - accsz) * 64 \in Nat \ {0}
        BY <1>4, SMTT(30)
      <3>2. acc' \in Nat
        BY <1>5
      <3>3. p \in Nat
        BY <1>4
      <3> HIDE DEF p, IInv, B64TypeOK
      <3>4. q \in Nat
        BY <3>1, <3>2, DivNat
      <3> QED
        BY <3>3, <3>4
    <2>2. fed = put * (64 * p) + Digit * p + q
      <3>1. fed = put * Pow2(accsz) + acc \div Pow2(16 - accsz)
        BY DEF NothingLost
      <3>2. acc \div Pow2(16 - accsz) = Digit * p + q
        BY <1>4, <1>5
      <3>3. Pow2(accsz) = 64 * p
        BY <1>4
      <3> HIDE DEF p, q
      <3> QED
        BY <1>1, <2>1, <3>1, <3>2, <3>3
    <2>3. fed' = fed /\ put' = put * 64 + Digit /\ Pow2(accsz') = p /\ acc' \div Pow2(16 - accsz') = q
      BY <1>3, <1>4 DEF Put
    <2> HIDE DEF p, q
    <2>4. (put * 64 + Digit) * p = put * (64 * p) + Digit * p
      BY <1>1, <2>1
    <2> QED
      BY <1>1, <2>2, <2>1, <2>3, <2>4 DEF NothingLost
  <1>9. Over' /\ Phase' /\ WholeGroups'
    <2>1. Len(out') = Len(out) + 1 /\ Len(out) \in Nat
      BY <1>2 DEF Put
    <2>2. ~finished
      BY <1>3 DEF Over
    <2>3. /\ Len(out) % 4 = 0 => Len(out') % 4 = 1
          /\ Len(out) % 4 = 1 => Len(out') % 4 = 2
          /\ Len(out) % 4 = 2 => Len(out') % 4 = 3
          /\ Len(out) % 4 = 3 => Len(out') % 4 = 0
      BY <2>1, NextPhase
    <2>4. finished' = finished /\ accsz' = accsz - 6
      BY DEF Put
    <2>5. Phase'
      <3>1. CASE accsz = 6 BY <3>1, <2>2, <2>3, <2>4 DEF Phase
      <3>2. CASE accsz = 8 BY <3>2, <2>2, <2>3, <2>4 DEF Phase
      <3>3. CASE accsz = 10 BY <3>3, <2>2, <2>3, <2>4 DEF Phase
      <3>4. CASE accsz = 12 BY <3>4, <2>2, <2>3, <2>4 DEF Phase
      <3> QED BY <1>3, <3>1, <3>2, <3>3, <3>4
    <2> QED
      BY <2>2, <2>4, <2>5 DEF Over, WholeGroups
  <1> QED
    BY <1>6, <1>7, <1>8, <1>9

\* finish() completes the group.
LEMMA FinishIInv == IInv /\ Finish => IInv'
  <1> SUFFICES ASSUME IInv, Finish PROVE IInv'
    OBVIOUS
  <1> USE DEF IInv, B64TypeOK
  <1>1. Digit \in Symbol /\ Pad \in Symbol
    BY DEF Digit, Pad, Symbol
  <1>2. accsz \in {0, 2, 4} /\ ~finished
    BY DEF Finish, Idle
  <1>3. out' \in Seq(Symbol) /\ Len(out') % 4 = 0
    <2>1. CASE accsz = 0
      <3>1. out' = out \o <<>> \o <<>> \o <<>> /\ Len(out) % 4 = 0
        BY <1>2, <2>1 DEF Finish, Phase
      <3> QED
        BY <3>1
    <2>2. CASE accsz = 2
      <3>1. out' = out \o <<Digit>> \o <<Pad>> \o <<Pad>> /\ Len(out) % 4 = 1
        BY <1>2, <2>2 DEF Finish, Phase
      <3>2. out' = out \o <<Digit, Pad, Pad>>
        BY <1>1, <3>1
      <3>3. <<Digit, Pad, Pad>> \in Seq(Symbol) /\ Len(<<Digit, Pad, Pad>>) = 3
        BY <1>1
      <3>4. out' \in Seq(Symbol) /\ Len(out') = Len(out) + 3
        BY <3>2, <3>3
      <3>5. \A n \in Nat : n % 4 = 1 => (n + 3) % 4 = 0
        OBVIOUS
      <3>6. Len(out) \in Nat
        OBVIOUS
      <3> QED
        BY <3>1, <3>4, <3>5, <3>6
    <2>3. CASE accsz = 4
      <3>1. out' = out \o <<Digit>> \o <<Pad>> \o <<>> /\ Len(out) % 4 = 2
        BY <1>2, <2>3 DEF Finish, Phase
      <3>2. out' = out \o <<Digit, Pad>>
        BY <1>1, <3>1
      <3>3. <<Digit, Pad>> \in Seq(Symbol) /\ Len(<<Digit, Pad>>) = 2
        BY <1>1
      <3>4. out' \in Seq(Symbol) /\ Len(out') = Len(out) + 2
        BY <3>2, <3>3
      <3>5. \A n \in Nat : n % 4 = 2 => (n + 2) % 4 = 0
        OBVIOUS
      <3>6. Len(out) \in Nat
        OBVIOUS
      <3> QED
        BY <3>1, <3>4, <3>5, <3>6
    <2> QED
      BY <1>2, <2>1, <2>2, <2>3
  <1>4. B64TypeOK' /\ Over' /\ Phase' /\ WholeGroups'
    <2>1. finished' = TRUE /\ todo' = <<>> /\ accsz' < 6
      BY <1>2 DEF Finish, Idle
    <2>2. B64TypeOK'
      BY <1>3, <2>1 DEF Finish
    <2> QED
      BY <1>3, <2>1, <2>2 DEF Over, Phase, WholeGroups
  <1>5. Aligned' /\ NothingLost'
    BY DEF Finish, Aligned, NothingLost
  <1> QED
    BY <1>4, <1>5

\* A step of the encoder, or of nothing of it.
LEMMA NextIInv == IInv /\ [B64Next]_b64vars => IInv'
  <1> SUFFICES ASSUME IInv, [B64Next]_b64vars PROVE IInv'
    OBVIOUS
  <1>1. CASE UNCHANGED b64vars
    BY <1>1 DEF b64vars, IInv, B64TypeOK, Over, Aligned, NothingLost, Phase, WholeGroups
  <1> QED
    BY <1>1, FeedIInv, TakeIInv, PutIInv, FinishIInv DEF B64Next

\* Data of any length, in any number of segments: the accumulator never
\* overflows, alphabet[] is indexed within bounds, the digits hold exactly the
\* bytes, and the text ends on a whole group (struct b64, util.hpp).
THEOREM EncoderKeepsData ==
    B64Spec => []EncoderSound
  <1>1. B64Init => IInv
    BY InitIInv
  <1>2. IInv /\ [B64Next]_b64vars => IInv'
    BY NextIInv
  <1>3. IInv => EncoderSound
    BY DEF IInv, EncoderSound
  <1> QED
    BY <1>1, <1>2, <1>3, PTL DEF B64Spec

-----------------------------------------------------------------------------
(* Induction *)

\* Induction over the naturals, for a set: a minimal number that is not in S
\* would have its predecessor in S.
LEMMA InductionOnNat ==
    ASSUME NEW S, 0 \in S, \A n \in Nat : n \in S => n + 1 \in S
    PROVE  \A n \in Nat : n \in S
<1>1. IsWellFoundedOn(OpToRel(<, Nat), Nat)
  BY NatLessThanWellFounded
<1> DEFINE T == Nat \ S
<1> SUFFICES ASSUME T # {} PROVE FALSE
  OBVIOUS
<1> DEFINE R == OpToRel(<, Nat)
<1>2. IsWellFoundedOn(R, Nat)
  BY <1>1
<1> HIDE DEF R
<1>2a. T \subseteq Nat
  OBVIOUS
<1>3. PICK x \in T : \A y \in T : ~ (<<y, x>> \in R)
  BY <1>2a, <1>2, WFMin
<1>4. x - 1 \in Nat /\ x - 1 < x /\ (x - 1) + 1 = x
  OBVIOUS
<1>5. <<x - 1, x>> \in R
  BY <1>4 DEF R, OpToRel
<1>6. x - 1 \in S
  BY <1>3, <1>4, <1>5
<1> QED BY <1>4, <1>6

\* Up to a bound.
LEMMA UpTo ==
    ASSUME NEW N \in Nat, NEW S, 0 \in S, \A n \in 0 .. N - 1 : n \in S => n + 1 \in S
    PROVE  0 .. N \subseteq S
<1> DEFINE T == {n \in Nat : n <= N => n \in S}
<1>1. 0 \in T
  OBVIOUS
<1>2. \A n \in Nat : n \in T => n + 1 \in T
  OBVIOUS
<1> HIDE DEF T
<1>4. \A n \in Nat : n \in T
  BY <1>1, <1>2, InductionOnNat
<1> QED BY <1>4 DEF T

-----------------------------------------------------------------------------
(* FlattenSeq *)

\* One value after the other: what FlattenSeq's recursion stands for.
Flattens(f, q) == \A i \in 1 .. Len(q) : f[i] = IF i = 1 THEN q[i] ELSE f[i - 1] \o q[i]

\* There are such values, for every length: they are built one at a time.
LEMMA FlattensExists ==
    ASSUME NEW q
    PROVE  \A n \in Nat : \E f : f = [i \in 1 .. n |-> IF i = 1 THEN q[i] ELSE f[i - 1] \o q[i]]
<1> DEFINE F(f, n) == f = [i \in 1 .. n |-> IF i = 1 THEN q[i] ELSE f[i - 1] \o q[i]]
           S == {n \in Nat : \E f : F(f, n)}
<1>1. F(<<>>, 0)
  OBVIOUS
<1>2. \A n \in Nat : n \in S => n + 1 \in S
  <2> SUFFICES ASSUME NEW n \in Nat, n \in S PROVE n + 1 \in S
    OBVIOUS
  <2>1. PICK f : F(f, n)
    OBVIOUS
  <2> DEFINE g == [i \in 1 .. n + 1 |->
                     IF i = n + 1 THEN (IF i = 1 THEN q[i] ELSE f[n] \o q[i]) ELSE f[i]]
  <2>2. ASSUME NEW i \in 1 .. n + 1
        PROVE  g[i] = IF i = 1 THEN q[i] ELSE g[i - 1] \o q[i]
    <3>1. n \in Nat
      OBVIOUS
    <3>2. CASE i = n + 1
      BY <3>1, <3>2
    <3>3. CASE i # n + 1
      <4>1. i \in 1 .. n /\ i - 1 # n + 1 /\ (i # 1 => i - 1 \in 1 .. n + 1)
        BY <3>1, <3>3
      <4>2. f[i] = IF i = 1 THEN q[i] ELSE f[i - 1] \o q[i]
        BY <2>1, <4>1
      <4> QED BY <4>1, <4>2, <3>3
    <3> QED BY <3>2, <3>3
  <2>3. g = [i \in 1 .. n + 1 |-> IF i = 1 THEN q[i] ELSE g[i - 1] \o q[i]]
    BY <2>2
  <2> HIDE DEF g
  <2>4. F(g, n + 1)
    BY <2>3
  <2>5. n + 1 \in Nat
    OBVIOUS
  <2> QED BY <2>4, <2>5
<1> HIDE DEF F
<1>3. 0 \in S
  BY <1>1
<1> HIDE DEF S
<1>5. \A n \in Nat : n \in S
  BY <1>2, <1>3, InductionOnNat
<1> QED BY <1>5 DEF S, F

\* What FlattenSeq gives is the last of them.
LEMMA FlattenIs ==
    ASSUME NEW T, NEW q \in Seq(T), Len(q) # 0
    PROVE  \E f : Flattens(f, q) /\ FlattenSeq(q) = f[Len(q)]
<1>1. Len(q) \in Nat
  OBVIOUS
<1> DEFINE F(f) == f = [i \in 1 .. Len(q) |-> IF i = 1 THEN q[i] ELSE f[i - 1] \o q[i]]
           c == CHOOSE f : F(f)
<1>2. F(c)
  BY <1>1, FlattensExists
<1>3. FlattenSeq(q) = c[Len(q)]
  BY DEF FlattenSeq
<1> HIDE DEF c
<1>4. Flattens(c, q)
  BY <1>2 DEF Flattens
<1> QED BY <1>3, <1>4

\* The values of the recursion depend on what came before only.
LEMMA FlattensPrefix ==
    ASSUME NEW T, NEW q \in Seq(T), NEW r \in Seq(T), NEW g, NEW f,
           Flattens(g, q), Flattens(f, r), Len(q) <= Len(r),
           \A i \in 1 .. Len(q) : q[i] = r[i]
    PROVE  \A i \in 1 .. Len(q) : g[i] = f[i]
<1>0. Len(q) \in Nat /\ Len(r) \in Nat
  OBVIOUS
<1> DEFINE S == {n \in Nat : n \in 1 .. Len(q) => g[n] = f[n]}
<1>1. 0 \in S
  OBVIOUS
<1>2. \A n \in 0 .. Len(q) - 1 : n \in S => n + 1 \in S
  <2> SUFFICES ASSUME NEW n \in 0 .. Len(q) - 1, n \in S PROVE n + 1 \in S
    OBVIOUS
  <2>1. n + 1 \in 1 .. Len(q) /\ n + 1 \in 1 .. Len(r) /\ (n + 1) - 1 = n
    BY <1>0
  <2>2. g[n + 1] = IF n + 1 = 1 THEN q[n + 1] ELSE g[n] \o q[n + 1]
    BY <2>1 DEF Flattens
  <2>3. f[n + 1] = IF n + 1 = 1 THEN r[n + 1] ELSE f[n] \o r[n + 1]
    BY <2>1 DEF Flattens
  <2>4. n # 0 => g[n] = f[n]
    OBVIOUS
  <2> QED BY <2>1, <2>2, <2>3, <2>4
<1> HIDE DEF S
<1>3. 0 .. Len(q) \subseteq S
  BY <1>0, <1>1, <1>2, UpTo
<1> QED BY <1>3 DEF S

-----------------------------------------------------------------------------
(* Induction over a sequence, for a set: from its end, and from its front. *)

\* A sequence is built by appending to the empty one.
LEMMA InductionOnAppend ==
    ASSUME NEW T, NEW S, <<>> \in S, \A s \in Seq(T), a \in T : s \in S => Append(s, a) \in S
    PROVE  \A s \in Seq(T) : s \in S
<1> DEFINE N == {n \in Nat : \A s \in Seq(T) : Len(s) = n => s \in S}
<1>1. 0 \in N
  <2>1. \A s \in Seq(T) : Len(s) = 0 => s = <<>>
    OBVIOUS
  <2> QED BY <2>1
<1>2. \A n \in Nat : n \in N => n + 1 \in N
  <2> SUFFICES ASSUME NEW n \in Nat, n \in N, NEW s \in Seq(T), Len(s) = n + 1 PROVE s \in S
    OBVIOUS
  <2>1. s # <<>>
    OBVIOUS
  <2>2. PICK t \in Seq(T), a \in T : s = Append(t, a)
    BY <2>1, SequenceEmptyOrAppend
  <2>3. Len(t) = n
    BY <2>2, AppendProperties
  <2> QED BY <2>2, <2>3
<1> HIDE DEF N
<1>3. \A n \in Nat : n \in N
  BY <1>1, <1>2, InductionOnNat
<1> QED BY <1>3 DEF N

\* A sequence that is not empty is its first element and the rest.
LEMMA FrontOf ==
    ASSUME NEW T, NEW s \in Seq(T), s # <<>>
    PROVE  s[1] \in T /\ Tail(s) \in Seq(T) /\ s = <<s[1]>> \o Tail(s) /\ Len(Tail(s)) = Len(s) - 1
<1>1. s[1] \in T /\ Tail(s) \in Seq(T) /\ Len(Tail(s)) = Len(s) - 1 /\ Len(s) \in Nat \ {0}
  OBVIOUS
<1>2. \A i \in 1 .. Len(Tail(s)) : Tail(s)[i] = s[i + 1]
  BY HeadTailProperties
<1>3. <<s[1]>> \in Seq(T) /\ Len(<<s[1]>>) = 1 /\ <<s[1]>>[1] = s[1]
  BY <1>1
<1> DEFINE h == <<s[1]>>
<1> HIDE DEF h
<1>4. h \o Tail(s) \in Seq(T) /\ Len(h \o Tail(s)) = Len(s)
  BY <1>1, <1>3, ConcatProperties DEF h
<1>5. ASSUME NEW i \in 1 .. Len(s) PROVE (h \o Tail(s))[i] = s[i]
  <2>1. (h \o Tail(s))[i] = IF i <= 1 THEN h[i] ELSE Tail(s)[i - 1]
    BY <1>1, <1>3, ConcatProperties DEF h
  <2>2. CASE i = 1
    BY <2>1, <2>2, <1>3 DEF h
  <2>3. CASE i # 1
    <3>1. i - 1 \in 1 .. Len(Tail(s)) /\ (i - 1) + 1 = i /\ ~(i <= 1)
      BY <1>1, <2>3
    <3> QED BY <3>1, <2>1, <1>2
  <2> QED BY <2>2, <2>3
<1>6. h \o Tail(s) = s
  BY <1>4, <1>5, SeqEqual
<1> QED BY <1>1, <1>6 DEF h

-----------------------------------------------------------------------------
(* What FlattenSeq does. *)

\* Nothing, of nothing.
LEMMA FlattenEmpty == FlattenSeq(<<>>) = <<>>
  BY DEF FlattenSeq

\* The last of the values comes last.
LEMMA FlattenLast ==
    ASSUME NEW U, NEW q \in Seq(U), NEW a \in U
    PROVE  FlattenSeq(Append(q, a)) = IF q = <<>> THEN a ELSE FlattenSeq(q) \o a
<1>0. PICK r : r = Append(q, a)
  OBVIOUS
<1>1. r \in Seq(U) /\ Len(r) = Len(q) + 1 /\ Len(q) \in Nat /\ r[Len(q) + 1] = a
      /\ \A i \in 1 .. Len(q) : r[i] = q[i]
  BY <1>0, AppendProperties
<1>2. PICK f : Flattens(f, r) /\ FlattenSeq(r) = f[Len(r)]
  BY <1>1, FlattenIs
<1>3. CASE Len(q) = 0
  <2>1. FlattenSeq(r) = a
    BY <1>1, <1>2, <1>3 DEF Flattens
  <2>2. q = <<>>
    BY <1>3
  <2> QED BY <1>0, <2>1, <2>2
<1>4. CASE Len(q) # 0
  <2>1. PICK g : Flattens(g, q) /\ FlattenSeq(q) = g[Len(q)]
    BY <1>4, FlattenIs
  <2>2. \A i \in 1 .. Len(q) : g[i] = f[i]
    BY <1>1, <1>2, <2>1, FlattensPrefix
  <2>3. g[Len(q)] = f[Len(q)]
    BY <1>1, <1>4, <2>2
  <2>4. f[Len(q) + 1] = f[Len(q)] \o a
    <3>1. Len(q) + 1 \in 1 .. Len(r) /\ Len(q) + 1 # 1 /\ (Len(q) + 1) - 1 = Len(q)
      BY <1>1, <1>4
    <3>2. f[Len(q) + 1] = IF Len(q) + 1 = 1 THEN r[Len(q) + 1] ELSE f[(Len(q) + 1) - 1] \o r[Len(q) + 1]
      BY <3>1, <1>2 DEF Flattens
    <3> QED BY <3>1, <3>2, <1>1
  <2>5. q # <<>>
    BY <1>4
  <2> QED BY <1>0, <1>1, <1>2, <2>1, <2>3, <2>4, <2>5
<1> QED BY <1>3, <1>4

\* The same, for a sequence of sequences: the empty one is no exception.
LEMMA FlattenAppend ==
    ASSUME NEW T, NEW q \in Seq(Seq(T)), NEW a \in Seq(T)
    PROVE  FlattenSeq(Append(q, a)) = FlattenSeq(q) \o a
<1>1. FlattenSeq(Append(q, a)) = IF q = <<>> THEN a ELSE FlattenSeq(q) \o a
  BY FlattenLast
<1>2. <<>> \o a = a
  BY ConcatEmptySeq
<1> QED BY <1>1, <1>2, FlattenEmpty

\* What comes out has the elements of what went in.
LEMMA FlattenType ==
    ASSUME NEW T
    PROVE  \A q \in Seq(Seq(T)) : FlattenSeq(q) \in Seq(T)
<1> DEFINE S == {q \in Seq(Seq(T)) : FlattenSeq(q) \in Seq(T)}
<1>1. <<>> \in S
  <2>1. <<>> \in Seq(Seq(T)) /\ <<>> \in Seq(T)
    OBVIOUS
  <2> QED BY <2>1, FlattenEmpty
<1>2. \A q \in Seq(Seq(T)), a \in Seq(T) : q \in S => Append(q, a) \in S
  <2> SUFFICES ASSUME NEW q \in Seq(Seq(T)), NEW a \in Seq(T), q \in S PROVE Append(q, a) \in S
    OBVIOUS
  <2>1. FlattenSeq(Append(q, a)) = FlattenSeq(q) \o a
    BY FlattenAppend
  <2>2. Append(q, a) \in Seq(Seq(T))
    OBVIOUS
  <2>3. FlattenSeq(q) \o a \in Seq(T)
    BY ConcatProperties
  <2> QED BY <2>1, <2>2, <2>3
<1> HIDE DEF S
<1>3. \A q \in Seq(Seq(T)) : q \in S
  BY <1>1, <1>2, InductionOnAppend
<1> QED BY <1>3 DEF S

\* Two runs of values, one after the other.
LEMMA FlattenConcat ==
    ASSUME NEW T, NEW p \in Seq(Seq(T))
    PROVE  \A q \in Seq(Seq(T)) : FlattenSeq(p \o q) = FlattenSeq(p) \o FlattenSeq(q)
<1> DEFINE S == {q \in Seq(Seq(T)) : FlattenSeq(p \o q) = FlattenSeq(p) \o FlattenSeq(q)}
<1>1. <<>> \in S
  BY FlattenEmpty, FlattenType, ConcatEmptySeq
<1>2. \A q \in Seq(Seq(T)), a \in Seq(T) : q \in S => Append(q, a) \in S
  <2> SUFFICES ASSUME NEW q \in Seq(Seq(T)), NEW a \in Seq(T), q \in S PROVE Append(q, a) \in S
    OBVIOUS
  <2>1. FlattenSeq(Append(q, a)) = FlattenSeq(q) \o a
    BY FlattenAppend
  <2>2. Append(q, a) \in Seq(Seq(T)) /\ p \o q \in Seq(Seq(T))
    BY ConcatProperties
  <2>3. p \o Append(q, a) = Append(p \o q, a)
    <3>1. Append(q, a) = q \o <<a>> /\ <<a>> \in Seq(Seq(T)) /\ Append(p \o q, a) = (p \o q) \o <<a>>
      BY <2>2, AppendIsConcat
    <3> QED BY <3>1, ConcatAssociative
  <2>4. FlattenSeq(Append(p \o q, a)) = FlattenSeq(p \o q) \o a
    BY <2>2, FlattenAppend
  <2>5. (FlattenSeq(p) \o FlattenSeq(q)) \o a = FlattenSeq(p) \o (FlattenSeq(q) \o a)
    <3>1. FlattenSeq(p) \in Seq(T) /\ FlattenSeq(q) \in Seq(T)
      BY FlattenType
    <3> HIDE DEF S
    <3> QED BY <3>1, ConcatAssociative, SMTT(30)
  <2> QED BY <2>1, <2>2, <2>3, <2>4, <2>5
<1> HIDE DEF S
<1>3. \A q \in Seq(Seq(T)) : q \in S
  BY <1>1, <1>2, InductionOnAppend
<1> QED BY <1>3 DEF S

\* One value is itself.
LEMMA FlattenOne ==
    ASSUME NEW T, NEW a \in Seq(T)
    PROVE  FlattenSeq(<<a>>) = a
<1>1. <<>> \in Seq(Seq(T)) /\ Append(<<>>, a) = <<a>>
  OBVIOUS
<1>2. FlattenSeq(<<a>>) = <<>> \o a
  BY <1>1, FlattenAppend, FlattenEmpty
<1> QED BY <1>2, ConcatEmptySeq

\* A function of a sequence that is some values followed by the function of
\* something shorter exists: Segments, Unquoted and Expanded are of this form.
Recurses(f, T, g, k) == f = [s \in Seq(T) |-> IF s = <<>> THEN <<>> ELSE g[s] \o f[k[s]]]

\* By induction on the length: up to every length there is one, any two agree, and
\* together they are one for all lengths.
LEMMA RecursionOnSequences ==
    ASSUME NEW T, NEW g, NEW k,
           \A s \in Seq(T) : s # <<>> => k[s] \in Seq(T) /\ Len(k[s]) < Len(s)
    PROVE  \E f : Recurses(f, T, g, k)
<1> DEFINE D(n) == {s \in Seq(T) : Len(s) <= n}
           Q(n, f) == f = [s \in D(n) |-> IF s = <<>> THEN <<>> ELSE g[s] \o f[k[s]]]
           E == {n \in Nat : \E f : Q(n, f)}
<1>0. \A s \in Seq(T) : Len(s) \in Nat /\ (Len(s) = 0 <=> s = <<>>)
  OBVIOUS
<1>1. 0 \in E
  <2> DEFINE f == [s \in D(0) |-> <<>>]
  <2>1. \A s \in D(0) : s = <<>>
    BY <1>0
  <2>2. f = [s \in D(0) |-> IF s = <<>> THEN <<>> ELSE g[s] \o f[k[s]]]
    BY <2>1
  <2> HIDE DEF f, D
  <2>3. Q(0, f)
    BY <2>2
  <2> HIDE DEF Q
  <2> QED BY <2>3
<1>2. \A n \in Nat : n \in E => n + 1 \in E
  <2> SUFFICES ASSUME NEW n \in Nat, n \in E PROVE n + 1 \in E
    OBVIOUS
  <2>1. PICK f : Q(n, f)
    OBVIOUS
  <2> DEFINE h == [s \in D(n + 1) |-> IF Len(s) <= n THEN f[s] ELSE g[s] \o f[k[s]]]
  <2>2. ASSUME NEW s \in D(n + 1)
        PROVE  h[s] = IF s = <<>> THEN <<>> ELSE g[s] \o h[k[s]]
    <3>1. s # <<>> => k[s] \in Seq(T) /\ Len(k[s]) <= n /\ Len(k[s]) <= n + 1 /\ k[s] \in D(n + 1)
      BY <1>0
    <3>2. s # <<>> => h[k[s]] = f[k[s]]
      BY <3>1
    <3>3. CASE Len(s) <= n
      <4>1. s \in D(n)
        BY <3>3
      <4>2. f[s] = IF s = <<>> THEN <<>> ELSE g[s] \o f[k[s]]
        BY <4>1, <2>1
      <4> QED BY <3>2, <3>3, <4>2
    <3>4. CASE ~(Len(s) <= n)
      <4>1. s # <<>>
        BY <3>4, <1>0
      <4>2. h[s] = g[s] \o f[k[s]]
        BY <3>4
      <4> QED BY <3>2, <4>1, <4>2
    <3> QED BY <3>3, <3>4
  <2>3. h = [s \in D(n + 1) |-> IF s = <<>> THEN <<>> ELSE g[s] \o h[k[s]]]
    BY <2>2
  <2> HIDE DEF h, D
  <2>4. Q(n + 1, h)
    BY <2>3
  <2> HIDE DEF Q
  <2>5. n + 1 \in Nat
    OBVIOUS
  <2> QED BY <2>4, <2>5
<1> HIDE DEF E, Q
<1>3. \A n \in Nat : n \in E
  BY <1>1, <1>2, InductionOnNat
<1> DEFINE F == [n \in Nat |-> CHOOSE f : Q(n, f)]
<1>4. \A n \in Nat : Q(n, F[n])
  <2> SUFFICES ASSUME NEW n \in Nat PROVE Q(n, F[n])
    OBVIOUS
  <2>1. \E f : Q(n, f)
    BY <1>3 DEF E
  <2>2. F[n] = CHOOSE f : Q(n, f)
    OBVIOUS
  <2> HIDE DEF F
  <2> QED BY <2>1, <2>2
<1> HIDE DEF F
<1>5. \A n \in Nat : \A s \in D(n) : F[n][s] = IF s = <<>> THEN <<>> ELSE g[s] \o F[n][k[s]]
  <2> SUFFICES ASSUME NEW n \in Nat, NEW s \in D(n)
               PROVE  F[n][s] = IF s = <<>> THEN <<>> ELSE g[s] \o F[n][k[s]]
    OBVIOUS
  <2>1. F[n] = [t \in D(n) |-> IF t = <<>> THEN <<>> ELSE g[t] \o F[n][k[t]]]
    BY <1>4 DEF Q
  <2> HIDE DEF D
  <2> QED BY <2>1
\* Two of them agree where both are defined.
<1>6. \A n \in Nat : \A m \in Nat : \A s \in D(n) \cap D(m) : F[n][s] = F[m][s]
  <2> SUFFICES ASSUME NEW n \in Nat, NEW m \in Nat PROVE \A s \in D(n) \cap D(m) : F[n][s] = F[m][s]
    OBVIOUS
  <2> DEFINE A == {l \in Nat : \A s \in D(n) \cap D(m) : Len(s) <= l => F[n][s] = F[m][s]}
  <2>1. 0 \in A
    <3> SUFFICES ASSUME NEW s \in D(n) \cap D(m), Len(s) <= 0 PROVE F[n][s] = F[m][s]
      OBVIOUS
    <3>1. s = <<>>
      BY <1>0
    <3> QED BY <3>1, <1>5
  <2>2. \A l \in Nat : l \in A => l + 1 \in A
    <3> SUFFICES ASSUME NEW l \in Nat, l \in A, NEW s \in D(n) \cap D(m), Len(s) <= l + 1
                 PROVE  F[n][s] = F[m][s]
      OBVIOUS
    <3>1. s # <<>> => k[s] \in D(n) \cap D(m) /\ Len(k[s]) <= l
      BY <1>0
    <3>2. s # <<>> => F[n][k[s]] = F[m][k[s]]
      BY <3>1
    <3>3. F[n][s] = IF s = <<>> THEN <<>> ELSE g[s] \o F[n][k[s]]
      BY <1>5
    <3>4. F[m][s] = IF s = <<>> THEN <<>> ELSE g[s] \o F[m][k[s]]
      BY <1>5
    <3> HIDE DEF A, D
    <3> QED BY <3>2, <3>3, <3>4
  <2> HIDE DEF A
  <2>3. \A l \in Nat : l \in A
    BY <2>1, <2>2, InductionOnNat
  <2> TAKE s \in D(n) \cap D(m)
  <2>4. Len(s) \in A /\ Len(s) <= Len(s)
    BY <2>3, <1>0
  <2> QED BY <2>4 DEF A
<1> DEFINE f == [s \in Seq(T) |-> F[Len(s)][s]]
<1>7. ASSUME NEW s \in Seq(T) PROVE f[s] = IF s = <<>> THEN <<>> ELSE g[s] \o f[k[s]]
  <2>1. Len(s) \in Nat /\ s \in D(Len(s))
    BY <1>0
  <2>2. f[s] = IF s = <<>> THEN <<>> ELSE g[s] \o F[Len(s)][k[s]]
    BY <1>5, <2>1
  <2>3. CASE s # <<>>
    <3>1. k[s] \in Seq(T) /\ Len(k[s]) \in Nat /\ k[s] \in D(Len(s)) \cap D(Len(k[s]))
      BY <2>3, <1>0
    <3>2. F[Len(k[s])][k[s]] = F[Len(s)][k[s]]
      BY <3>1, <2>1, <1>6
    <3>3. f[k[s]] = F[Len(k[s])][k[s]]
      BY <3>1
    <3> HIDE DEF f
    <3> QED BY <2>2, <2>3, <3>2, <3>3
  <2> QED BY <2>2, <2>3
<1>8. f = [s \in Seq(T) |-> IF s = <<>> THEN <<>> ELSE g[s] \o f[k[s]]]
  BY <1>7
<1> HIDE DEF f
<1> QED BY <1>8 DEF Recurses

-----------------------------------------------------------------------------
(* Join(f, a, b): f[a + 1] \o f[a + 2] \o ... \o f[b], with values of Str. *)

Item == Chars \cup {"specifier"} \cup [b : Int, e : Int]
Str == Seq(Item)

\* Strings: the empty one.
LEMMA StrEmpty == <<>> \in Str
  BY DEF Str

\* One after another is one.
LEMMA StrConcat ==
    ASSUME NEW p, NEW q, p \in Str, q \in Str
    PROVE  p \o q \in Str
  BY ConcatProperties DEF Str

\* The empty one adds nothing.
LEMMA StrEmptyConcat ==
    ASSUME NEW p, p \in Str
    PROVE  <<>> \o p = p /\ p \o <<>> = p
  BY ConcatEmptySeq DEF Str

Has(f, a, b) == a \in Nat /\ b \in Nat /\ a <= b /\ \A i \in a + 1 .. b : f[i] \in Str

Part(f, a, b) == [i \in 1 .. b - a |-> f[a + i]]
Join(f, a, b) == FlattenSeq(Part(f, a, b))

\* A part of the values is a sequence of them.
LEMMA PartIs ==
    ASSUME NEW f, NEW a, NEW b, Has(f, a, b)
    PROVE  Part(f, a, b) \in Seq(Str) /\ Len(Part(f, a, b)) = b - a
           /\ \A i \in 1 .. b - a : Part(f, a, b)[i] = f[a + i]
<1>1. a \in Nat /\ b \in Nat /\ a <= b /\ b - a \in Nat
  BY DEF Has
<1>2. \A i \in 1 .. b - a : a + i \in a + 1 .. b
  BY <1>1
<1>3. \A i \in 1 .. b - a : f[a + i] \in Str
  BY <1>2 DEF Has
<1> QED BY <1>1, <1>3 DEF Part

\* Two adjoining parts are one.
LEMMA HasBoth ==
    ASSUME NEW f, NEW a, NEW b, NEW c, Has(f, a, b), Has(f, b, c)
    PROVE  Has(f, a, c)
  BY DEF Has

\* And every part can be cut.
LEMMA HasParts ==
    ASSUME NEW f, NEW a, NEW b \in Nat, NEW c, Has(f, a, c), a <= b, b <= c
    PROVE  Has(f, a, b) /\ Has(f, b, c)
<1>1. a \in Nat /\ c \in Nat
  BY DEF Has
<1>2. \A i \in a + 1 .. b : i \in a + 1 .. c
  BY <1>1
<1>3. \A i \in b + 1 .. c : i \in a + 1 .. c
  BY <1>1
<1> QED BY <1>1, <1>2, <1>3 DEF Has

\* The same, of the sequences.
LEMMA PartSplit ==
    ASSUME NEW f, NEW a, NEW b, NEW c, Has(f, a, b), Has(f, b, c)
    PROVE  Part(f, a, c) = Part(f, a, b) \o Part(f, b, c)
<1>1. PICK p : p = Part(f, a, b)
  OBVIOUS
<1>2. PICK q : q = Part(f, b, c)
  OBVIOUS
<1>3. PICK r : r = Part(f, a, c)
  OBVIOUS
<1>4. PICK V : V = Str
  OBVIOUS
<1>5. a \in Nat /\ b \in Nat /\ c \in Nat /\ a <= b /\ b <= c
  BY DEF Has
<1>6. p \in Seq(V) /\ Len(p) = b - a /\ \A i \in 1 .. b - a : p[i] = f[a + i]
  BY <1>1, <1>4, PartIs
<1>7. q \in Seq(V) /\ Len(q) = c - b /\ \A i \in 1 .. c - b : q[i] = f[b + i]
  BY <1>2, <1>4, PartIs
<1>8. r \in Seq(V) /\ Len(r) = c - a /\ \A i \in 1 .. c - a : r[i] = f[a + i]
  <2>1. Has(f, a, c)
    BY HasBoth
  <2> QED BY <2>1, <1>3, <1>4, PartIs
<1>9. p \o q \in Seq(V) /\ Len(p \o q) = c - a
      /\ \A i \in 1 .. c - a : (p \o q)[i] = IF i <= b - a THEN p[i] ELSE q[i - (b - a)]
  <2>1. p \in Seq(V) /\ q \in Seq(V) /\ Len(p) = b - a /\ Len(q) = c - b
    BY <1>6, <1>7
  <2>2. p \o q \in Seq(V) /\ Len(p \o q) = Len(p) + Len(q)
        /\ \A i \in 1 .. Len(p) + Len(q) : (p \o q)[i] = IF i <= Len(p) THEN p[i] ELSE q[i - Len(p)]
    BY <2>1, ConcatProperties
  <2>3. (b - a) + (c - b) = c - a
    BY <1>5
  <2> QED BY <2>1, <2>2, <2>3
<1>11. ASSUME NEW i \in 1 .. c - a PROVE (p \o q)[i] = r[i]
  <2>1. r[i] = f[a + i]
    BY <1>8
  <2>2. CASE i <= b - a
    BY <2>1, <2>2, <1>5, <1>6, <1>9
  <2>3. CASE ~(i <= b - a)
    <3>1. i - (b - a) \in 1 .. c - b /\ b + (i - (b - a)) = a + i
      BY <2>3, <1>5
    <3>2. (p \o q)[i] = q[i - (b - a)]
      BY <2>3, <1>9
    <3> QED BY <2>1, <3>1, <3>2, <1>7
  <2> QED BY <2>2, <2>3
<1>12. p \o q = r
  BY <1>8, <1>9, <1>11, SeqEqual
<1> QED BY <1>1, <1>2, <1>3, <1>12

\* FlattenSeq on strings: its type, and two runs of them.
LEMMA FlattenStr ==
    ASSUME NEW q, NEW r, q \in Seq(Str), r \in Seq(Str)
    PROVE  FlattenSeq(q) \in Str /\ FlattenSeq(q \o r) = FlattenSeq(q) \o FlattenSeq(r)
<1>1. q \in Seq(Seq(Item)) /\ r \in Seq(Seq(Item))
  BY DEF Str
<1>2. FlattenSeq(q) \in Seq(Item)
  BY <1>1, FlattenType
<1>3. FlattenSeq(q \o r) = FlattenSeq(q) \o FlattenSeq(r)
  BY <1>1, FlattenConcat
<1> QED BY <1>2, <1>3 DEF Str

\* What is joined is a string.
LEMMA JoinType ==
    ASSUME NEW f, NEW a, NEW b, Has(f, a, b)
    PROVE  Join(f, a, b) \in Str
  BY PartIs, FlattenStr DEF Join

\* Joining can be cut anywhere.
LEMMA JoinSplit ==
    ASSUME NEW f, NEW a, NEW b, NEW c, Has(f, a, b), Has(f, b, c)
    PROVE  Join(f, a, c) = Join(f, a, b) \o Join(f, b, c)
<1>1. Part(f, a, c) = Part(f, a, b) \o Part(f, b, c)
  BY PartSplit
<1>4. Part(f, a, b) \in Seq(Str)
  BY PartIs
<1>5. Part(f, b, c) \in Seq(Str)
  BY PartIs
<1> QED BY <1>1, <1>4, <1>5, FlattenStr DEF Join

\* No value at all.
LEMMA JoinNone ==
    ASSUME NEW f, NEW a \in Nat
    PROVE  Join(f, a, a) = <<>>
<1>1. Part(f, a, a) = <<>>
  BY DEF Part
<1> QED BY <1>1, FlattenEmpty DEF Join

Succ(a, b) == b = a + 1

\* One value.
LEMMA JoinOne ==
    ASSUME NEW f, NEW a, NEW b, Has(f, a, b), Succ(a, b)
    PROVE  f[b] \in Str /\ Join(f, a, b) = f[b]
<1>1. f[b] \in Str /\ a \in Nat /\ b - a = 1
  BY DEF Has, Succ
<1>2. Part(f, a, b) = <<f[b]>>
  <2>1. 1 .. 1 = {1}
    OBVIOUS
  <2> QED BY <2>1, <1>1 DEF Part, Succ
<1>3. FlattenSeq(<<f[b]>>) = f[b]
  BY <1>1, FlattenOne DEF Str
<1> QED BY <1>1, <1>2, <1>3 DEF Join

\* The same values, wherever they are.
Same(f, a, b, g, c, d) ==
    /\ a \in Nat /\ b \in Nat /\ c \in Nat /\ d \in Nat
    /\ d - c = b - a
    /\ \A i \in 1 .. b - a : f[a + i] = g[c + i]

\* Where two functions have the same values, they join to the same.
LEMMA JoinSame ==
    ASSUME NEW f, NEW a, NEW b, NEW g, NEW c, NEW d, Same(f, a, b, g, c, d)
    PROVE  Join(f, a, b) = Join(g, c, d)
<1>1. Part(f, a, b) = Part(g, c, d)
  BY DEF Part, Same
<1> QED BY <1>1 DEF Join

\* One more at the end, one more at the front.
LEMMA JoinNext ==
    ASSUME NEW f, NEW a, NEW b, NEW c, Has(f, a, b), Has(f, b, c), Succ(b, c)
    PROVE  f[c] \in Str /\ Join(f, a, c) = Join(f, a, b) \o f[c]
<1>1. Join(f, a, c) = Join(f, a, b) \o Join(f, b, c)
  BY JoinSplit
<1>2. f[c] \in Str /\ Join(f, b, c) = f[c]
  BY JoinOne
<1> QED BY <1>1, <1>2

\* One more at the front.
LEMMA JoinFront ==
    ASSUME NEW f, NEW a, NEW b, NEW c, Has(f, a, b), Has(f, b, c), Succ(a, b)
    PROVE  f[b] \in Str /\ Join(f, a, c) = f[b] \o Join(f, b, c)
<1>1. Join(f, a, c) = Join(f, a, b) \o Join(f, b, c)
  BY JoinSplit
<1>2. f[b] \in Str /\ Join(f, a, b) = f[b]
  BY JoinOne
<1> QED BY <1>1, <1>2

Empties(f, a, b) == a \in Nat /\ b \in Nat /\ a <= b /\ \A i \in a + 1 .. b : f[i] = <<>>

\* Empty values join to nothing.
LEMMA JoinEmpties ==
    ASSUME NEW f, NEW a, NEW b, Empties(f, a, b)
    PROVE  Join(f, a, b) = <<>>
<1> DEFINE S == {m \in Nat : Join(f, a, a + m) = <<>>}
<1>0. a \in Nat /\ b \in Nat /\ a <= b /\ Has(f, a, b)
  BY StrEmpty DEF Empties, Has
<1>1. 0 \in S
  BY <1>0, JoinNone
<1>2. \A m \in 0 .. (b - a) - 1 : m \in S => m + 1 \in S
  <2> SUFFICES ASSUME NEW m \in 0 .. (b - a) - 1, Join(f, a, a + m) = <<>> PROVE Join(f, a, a + (m + 1)) = <<>>
    OBVIOUS
  <2>1. PICK d, e : d = a + m /\ e = a + (m + 1)
    OBVIOUS
  <2>2. d \in Nat /\ Succ(d, e) /\ d <= e /\ d <= b /\ a <= d /\ e \in Nat /\ a <= e /\ e <= b /\ e \in a + 1 .. b
    BY <1>0, <2>1 DEF Succ
  <2>a. Has(f, a, e)
    BY <1>0, <2>2, HasParts
  <2>3. Has(f, a, d) /\ Has(f, d, e)
    BY <2>a, <2>2, HasParts
  <2>4. Join(f, a, e) = Join(f, a, d) \o f[e]
    <3>1. Succ(d, e)
      BY <2>2
    <3> QED BY <3>1, <2>3, JoinNext
  <2>5. f[e] = <<>>
    BY <2>2 DEF Empties
  <2> QED BY <2>1, <2>4, <2>5, StrEmpty, StrEmptyConcat
<1>3. b - a \in Nat /\ a + (b - a) = b
  BY <1>0
<1> HIDE DEF S
<1>4. 0 .. b - a \subseteq S
  BY <1>1, <1>2, <1>3, UpTo
<1>5. b - a \in S
  BY <1>3, <1>4
<1> QED BY <1>3, <1>5 DEF S

\* Values of one character each.
Singles(f, a, b, s) ==
    a \in Nat /\ b \in Nat /\ a <= b /\ s \in Str /\ b <= Len(s) /\ \A i \in a + 1 .. b : f[i] = <<s[i]>>

\* Single characters are strings.
LEMMA SinglesHas ==
    ASSUME NEW f, NEW a, NEW b, NEW s, Singles(f, a, b, s)
    PROVE  Has(f, a, b)
<1>1. PICK T : T = Item
  OBVIOUS
<1>2. s \in Seq(T) /\ Len(s) \in Nat /\ a \in Nat /\ b \in Nat /\ a <= b /\ b <= Len(s)
  BY <1>1 DEF Singles, Str
<1>3. \A i \in a + 1 .. b : <<s[i]>> \in Seq(T)
  BY <1>2
<1>4. \A i \in a + 1 .. b : f[i] \in Str
  BY <1>1, <1>3 DEF Singles, Str
<1> QED BY <1>2, <1>4 DEF Has

\* Single characters join to the piece of the string they come from.
LEMMA JoinSingles ==
    ASSUME NEW f, NEW a, NEW b, NEW s, Singles(f, a, b, s)
    PROVE  Join(f, a, b) = SubSeq(s, a + 1, b)
<1> DEFINE S == {m \in Nat : Join(f, a, a + m) = SubSeq(s, a + 1, a + m)}
<1>0. a \in Nat /\ b \in Nat /\ a <= b /\ b <= Len(s) /\ Has(f, a, b)
  BY SinglesHas DEF Singles
<1>00. PICK T : T = Item
  OBVIOUS
<1>000. s \in Seq(T) /\ Len(s) \in Nat
  BY <1>00 DEF Singles, Str
<1>1. 0 \in S
  <2>1. a + 0 = a /\ a < a + 1
    BY <1>0
  <2>2. SubSeq(s, a + 1, a) = <<>>
    BY <2>1, <1>0, <1>000, SubSeqEmpty
  <2> QED BY <2>1, <2>2, <1>0, JoinNone
<1>2. ASSUME NEW m \in 0 .. (b - a) - 1, Join(f, a, a + m) = SubSeq(s, a + 1, a + m)
      PROVE  Join(f, a, a + (m + 1)) = SubSeq(s, a + 1, a + (m + 1))
  <2>1. PICK d, e : d = a + m /\ e = a + (m + 1)
    OBVIOUS
  <2>2. /\ d \in Nat /\ Succ(d, e) /\ d <= e /\ d <= b /\ a <= d /\ e \in Nat /\ a <= e /\ e <= b /\ e \in a + 1 .. b
        /\ a + 1 \in 1 .. Len(s) /\ e \in a + 1 .. Len(s) /\ e - 1 = d
    BY <1>0, <1>000, <2>1 DEF Succ
  <2>a. Has(f, a, e)
    BY <1>0, <2>2, HasParts
  <2>3. Has(f, a, d) /\ Has(f, d, e)
    BY <2>a, <2>2, HasParts
  <2>4. Join(f, a, e) = Join(f, a, d) \o f[e]
    <3>1. Succ(d, e)
      BY <2>2
    <3> QED BY <3>1, <2>3, JoinNext
  <2>5. f[e] = <<s[e]>>
    BY <2>2 DEF Singles
  <2>6. SubSeq(s, a + 1, e) = SubSeq(s, a + 1, e - 1) \o <<s[e]>>
    BY <1>000, <2>2, SubSeqRecursiveSecond
  <2> QED BY <1>2, <2>1, <2>2, <2>4, <2>5, <2>6
<1>3. \A m \in 0 .. (b - a) - 1 : m \in S => m + 1 \in S
  BY <1>2
<1>4. b - a \in Nat /\ a + (b - a) = b
  BY <1>0
<1> HIDE DEF S
<1>5. 0 .. b - a \subseteq S
  BY <1>1, <1>3, <1>4, UpTo
<1>6. b - a \in S
  BY <1>4, <1>5
<1> QED BY <1>4, <1>6 DEF S

\* All of a sequence.
LEMMA JoinAll ==
    ASSUME NEW x, x \in Seq(Str)
    PROVE  FlattenSeq(x) = Join(x, 0, Len(x)) /\ Has(x, 0, Len(x))
<1>0. PICK V : V = Str
  OBVIOUS
<1>1. x \in Seq(V) /\ Len(x) \in Nat /\ 0 \in Nat /\ Len(x) - 0 = Len(x)
      /\ \A i \in 1 .. Len(x) : 0 + i = i /\ x[i] \in V
  BY <1>0
<1>3. Has(x, 0, Len(x))
  BY <1>0, <1>1 DEF Has
<1>4. Part(x, 0, Len(x)) \in Seq(V) /\ Len(Part(x, 0, Len(x))) = Len(x)
      /\ \A i \in 1 .. Len(x) : Part(x, 0, Len(x))[i] = x[i]
  BY <1>0, <1>1, <1>3, PartIs
<1>6. Part(x, 0, Len(x)) = x
  BY <1>1, <1>4, SeqEqual
<1> QED BY <1>3, <1>6 DEF Join

\* FlattenSeq, of the values of a function.
LEMMA FlattenJoin ==
    ASSUME NEW n \in Nat, NEW f, Has(f, 0, n)
    PROVE  FlattenSeq([i \in 1 .. n |-> f[i]]) = Join(f, 0, n)
<1>1. Part(f, 0, n) = [i \in 1 .. n |-> f[i]]
  BY DEF Part
<1> QED BY <1>1 DEF Join

-----------------------------------------------------------------------------
(* The label *)

\* Induction from a bound downwards.
LEMMA DownTo ==
    ASSUME NEW N \in Nat, NEW S, N \in S, \A n \in 0 .. N - 1 : n + 1 \in S => n \in S
    PROVE  0 .. N \subseteq S
<1> DEFINE R == {n \in Nat : n <= N => N - n \in S}
<1>1. 0 \in R
  OBVIOUS
<1>2. \A n \in 0 .. N - 1 : n \in R => n + 1 \in R
  <2> SUFFICES ASSUME NEW n \in 0 .. N - 1, n \in R PROVE n + 1 \in R
    OBVIOUS
  <2>1. N - (n + 1) \in 0 .. N - 1 /\ (N - (n + 1)) + 1 = N - n /\ n <= N /\ n + 1 \in Nat
    OBVIOUS
  <2> QED BY <2>1
<1> HIDE DEF R
<1>3. 0 .. N \subseteq R
  BY <1>1, <1>2, UpTo
<1>4. ASSUME NEW n \in 0 .. N PROVE n \in S
  <2>1. N - n \in 0 .. N /\ N - (N - n) = n
    OBVIOUS
  <2> QED BY <2>1, <1>3 DEF R
<1> QED BY <1>4

\* One step of systemd's unquoting: the function that the definition chooses exists.
LEMMA UnquotedStep ==
    ASSUME NEW s \in Seq(Chars)
    PROVE  Unquoted[s] = IF s = <<>> THEN <<>>
                         ELSE IF Head(s) = "\\" THEN <<s[2]>> \o Unquoted[SubSeq(s, 3, Len(s))]
                         ELSE <<Head(s)>> \o Unquoted[Tail(s)]
<1> DEFINE C == Seq(Chars)
           g == [t \in C |-> IF Head(t) = "\\" THEN <<t[2]>> ELSE <<Head(t)>>]
           k == [t \in C |-> IF Head(t) = "\\" THEN SubSeq(t, 3, Len(t)) ELSE Tail(t)]
           B(f, t) == IF t = <<>> THEN <<>>
                      ELSE IF Head(t) = "\\" THEN <<t[2]>> \o f[SubSeq(t, 3, Len(t))]
                      ELSE <<Head(t)>> \o f[Tail(t)]
<1>1. \A t \in C : t # <<>> => k[t] \in C /\ Len(k[t]) < Len(t)
  OBVIOUS
<1>2. \A f : \A t \in C : B(f, t) = IF t = <<>> THEN <<>> ELSE g[t] \o f[k[t]]
  OBVIOUS
<1> HIDE DEF g, k, B
<1>3. PICK f : Recurses(f, Chars, g, k)
  BY <1>1, RecursionOnSequences
<1>4. f = [t \in C |-> B(f, t)]
  BY <1>2, <1>3 DEF Recurses
<1>5. Unquoted = CHOOSE h : h = [t \in C |-> B(h, t)]
  BY DEF Unquoted, B
<1>6. Unquoted = [t \in C |-> B(Unquoted, t)]
  BY <1>4, <1>5
<1>7. Unquoted[s] = B(Unquoted, s)
  BY <1>6
<1> QED BY <1>7 DEF B

\* One step of the expansion of specifiers, likewise.
LEMMA ExpandedStep ==
    ASSUME NEW s \in Seq(Chars)
    PROVE  Expanded[s] = IF s = <<>> THEN <<>>
                         ELSE IF Specifier(s, 1) THEN <<Meaning(s[2])>> \o Expanded[SubSeq(s, 3, Len(s))]
                         ELSE <<Head(s)>> \o Expanded[Tail(s)]
<1> DEFINE C == Seq(Chars)
           g == [t \in C |-> IF Specifier(t, 1) THEN <<Meaning(t[2])>> ELSE <<Head(t)>>]
           k == [t \in C |-> IF Specifier(t, 1) THEN SubSeq(t, 3, Len(t)) ELSE Tail(t)]
           B(f, t) == IF t = <<>> THEN <<>>
                      ELSE IF Specifier(t, 1) THEN <<Meaning(t[2])>> \o f[SubSeq(t, 3, Len(t))]
                      ELSE <<Head(t)>> \o f[Tail(t)]
<1>1. \A t \in C : t # <<>> => k[t] \in C /\ Len(k[t]) < Len(t)
  OBVIOUS
<1>2. \A f : \A t \in C : B(f, t) = IF t = <<>> THEN <<>> ELSE g[t] \o f[k[t]]
  OBVIOUS
<1> HIDE DEF g, k, B
<1>3. PICK f : Recurses(f, Chars, g, k)
  BY <1>1, RecursionOnSequences
<1>4. f = [t \in C |-> B(f, t)]
  BY <1>2, <1>3 DEF Recurses
<1>5. Expanded = CHOOSE h : h = [t \in C |-> B(h, t)]
  BY DEF Expanded, B
<1>6. Expanded = [t \in C |-> B(Expanded, t)]
  BY <1>4, <1>5
<1>7. Expanded[s] = B(Expanded, s)
  BY <1>6
<1> QED BY <1>7 DEF B


\* What a sequence with one element more in front is made of.
LEMMA FrontOne ==
    ASSUME NEW T, NEW c \in T, NEW r \in Seq(T), NEW t, t = <<c>> \o r
    PROVE  t \in Seq(T) /\ t # <<>> /\ Head(t) = c /\ Tail(t) = r
<1>1. t \in Seq(T) /\ Len(t) = 1 + Len(r) /\ Len(r) \in Nat /\ t[1] = c
      /\ \A i \in 1 .. Len(r) : t[i + 1] = r[i]
  OBVIOUS
<1>2. t # <<>> /\ Head(t) = c
  BY <1>1
<1>3. Tail(t) \in Seq(T) /\ Len(Tail(t)) = Len(r) /\ \A i \in 1 .. Len(r) : Tail(t)[i] = t[i + 1]
  BY <1>1, <1>2, HeadTailProperties
<1>4. Tail(t) = r
  BY <1>1, <1>3, SeqEqual
<1> QED BY <1>1, <1>2, <1>4

\* And with two.
LEMMA FrontTwo ==
    ASSUME NEW T, NEW b \in T, NEW c \in T, NEW r \in Seq(T), NEW t, t = <<b, c>> \o r
    PROVE  /\ t \in Seq(T) /\ t # <<>> /\ Len(t) > 1 /\ Head(t) = b /\ t[1] = b /\ t[2] = c
           /\ SubSeq(t, 3, Len(t)) = r
<1>1. t \in Seq(T) /\ Len(t) = 2 + Len(r) /\ Len(r) \in Nat /\ t[1] = b /\ t[2] = c
      /\ \A i \in 1 .. Len(r) : t[i + 2] = r[i]
  OBVIOUS
<1>2. t # <<>> /\ Head(t) = b /\ Len(t) > 1
  BY <1>1
<1>3. PICK q : q = SubSeq(t, 3, Len(t))
  OBVIOUS
<1>4. q \in Seq(T) /\ Len(q) = Len(r) /\ \A i \in 1 .. Len(r) : q[i] = t[i + 2]
  BY <1>1, <1>3
<1>5. q = r
  BY <1>1, <1>4, SeqEqual
<1> QED BY <1>1, <1>2, <1>3, <1>5

\* An escaped character at the front.
LEMMA UnquotedEscaped ==
    ASSUME NEW c \in Chars, NEW r \in Seq(Chars), NEW t, t = <<"\\", c>> \o r
    PROVE  t \in Seq(Chars) /\ Unquoted[t] = <<c>> \o Unquoted[r]
<1>1. "\\" \in Chars
  BY DEF Chars, Code
<1>2. t \in Seq(Chars) /\ t # <<>> /\ Head(t) = "\\" /\ t[2] = c /\ SubSeq(t, 3, Len(t)) = r
  BY <1>1, FrontTwo
<1> QED BY <1>2, UnquotedStep

\* A plain one.
LEMMA UnquotedPlain ==
    ASSUME NEW c \in Chars, c # "\\", NEW r \in Seq(Chars), NEW t, t = <<c>> \o r
    PROVE  t \in Seq(Chars) /\ Unquoted[t] = <<c>> \o Unquoted[r]
<1>2. t \in Seq(Chars) /\ t # <<>> /\ Head(t) = c /\ Tail(t) = r
  BY FrontOne
<1> QED BY <1>2, UnquotedStep

\* A doubled percent at the front.
LEMMA ExpandedEscaped ==
    ASSUME NEW r \in Seq(Chars), NEW t, t = <<"%", "%">> \o r
    PROVE  t \in Seq(Chars) /\ Expanded[t] = <<"%">> \o Expanded[r]
<1>1. "%" \in Chars
  BY DEF Chars, Code
<1>2. t \in Seq(Chars) /\ t # <<>> /\ t[1] = "%" /\ t[2] = "%" /\ Len(t) > 1 /\ SubSeq(t, 3, Len(t)) = r
  BY <1>1, FrontTwo
<1>3. Specifier(t, 1) /\ Meaning(t[2]) = "%"
  BY <1>2 DEF Specifier, Meaning
<1> QED BY <1>2, <1>3, ExpandedStep

\* Any other character.
LEMMA ExpandedPlain ==
    ASSUME NEW c \in Chars, c # "%", NEW r \in Seq(Chars), NEW t, t = <<c>> \o r
    PROVE  t \in Seq(Chars) /\ Expanded[t] = <<c>> \o Expanded[r]
<1>2. t \in Seq(Chars) /\ t # <<>> /\ Head(t) = c /\ Tail(t) = r
  BY FrontOne
<1>3. Head(t) = t[1]
  BY <1>2
<1> QED BY <1>2, <1>3, ExpandedStep DEF Specifier

\* A text is a string.
LEMMA CharsInStr ==
    ASSUME NEW s, s \in Seq(Chars)
    PROVE  s \in Str
<1>1. Chars \subseteq Item
  BY DEF Item
<1> QED BY <1>1 DEF Str

\* One character at the front of what follows it.
LEMMA SuffixFront ==
    ASSUME NEW T, NEW s \in Seq(T), NEW k \in 0 .. Len(s) - 1
    PROVE  s[k + 1] \in T /\ SubSeq(s, k + 1, Len(s)) = <<s[k + 1]>> \o SubSeq(s, (k + 1) + 1, Len(s))
<1>1. Len(s) \in Nat /\ k + 1 \in 1 .. Len(s)
  OBVIOUS
<1>2. s[k + 1] \in T
  BY <1>1, ElementOfSeq
<1>3. SubSeq(s, k + 1, Len(s)) = <<s[k + 1]>> \o SubSeq(s, (k + 1) + 1, Len(s))
  BY <1>1, SubSeqRecursiveFirst
<1> QED BY <1>2, <1>3

\* Unquoting undoes the quoting of the unit, for every text.
LEMMA UnquotedEscape ==
    ASSUME NEW s \in Seq(Chars)
    PROVE  Escape(s) \in Seq(Chars) /\ Unquoted[Escape(s)] = s
<1>1. PICK f : f = [i \in DOMAIN s |-> IF s[i] \in {"\\", "\""} THEN <<"\\", s[i]>> ELSE <<s[i]>>]
  OBVIOUS
<1>2. PICK L : L = Len(s)
  OBVIOUS
<1>3. L \in Nat /\ DOMAIN s = 1 .. L /\ \A i \in 1 .. L : s[i] \in Chars
  BY <1>2
<1>4. \A i \in 1 .. L : f[i] = IF s[i] \in {"\\", "\""} THEN <<"\\", s[i]>> ELSE <<s[i]>>
  BY <1>1, <1>3
<1>5. Has(f, 0, L)
  <2>1. "\\" \in Chars
    BY DEF Chars, Code
  <2>2. \A c \in Chars : <<"\\", c>> \in Seq(Chars) /\ <<c>> \in Seq(Chars)
    BY <2>1
  <2>3. \A c \in Chars : <<"\\", c>> \in Str /\ <<c>> \in Str
    BY <2>2, CharsInStr
  <2>4. \A i \in 1 .. L : f[i] \in Str
    BY <1>3, <1>4, <2>3
  <2> QED BY <1>3, <2>4 DEF Has
<1>6. Escape(s) = Join(f, 0, L)
  <2>1. f = [i \in 1 .. L |-> f[i]]
    BY <1>1, <1>3
  <2>2. FlattenSeq([i \in 1 .. L |-> f[i]]) = Join(f, 0, L)
    BY <1>3, <1>5, FlattenJoin
  <2> QED BY <2>1, <2>2, <1>1 DEF Escape
<1> DEFINE S == {k \in Nat : Join(f, k, L) \in Seq(Chars) /\ Unquoted[Join(f, k, L)] = SubSeq(s, k + 1, L)}
<1>7. L \in S
  <2>1. Join(f, L, L) = <<>> /\ <<>> \in Seq(Chars)
    BY <1>3, JoinNone
  <2>2. SubSeq(s, L + 1, L) = <<>>
    BY <1>3, SubSeqEmpty
  <2>3. Unquoted[<<>>] = <<>>
    BY <2>1, UnquotedStep
  <2> QED BY <1>3, <2>1, <2>2, <2>3
<1>8. \A k \in 0 .. L - 1 : k + 1 \in S => k \in S
  <2> SUFFICES ASSUME NEW k \in 0 .. L - 1, k + 1 \in S PROVE k \in S
    OBVIOUS
  <2>1. PICK m : m = k + 1
    OBVIOUS
  <2>2. k \in Nat /\ m \in Nat /\ m \in 1 .. L /\ 0 <= k /\ k <= m /\ m <= L /\ Succ(k, m) /\ k <= L
    BY <1>3, <2>1 DEF Succ
  <2>3. Has(f, k, L)
    BY <1>5, <2>2, HasParts
  <2>4. Has(f, k, m) /\ Has(f, m, L)
    BY <2>2, <2>3, HasParts
  <2>5. Join(f, k, L) = f[m] \o Join(f, m, L)
    <3>1. Succ(k, m)
      BY <2>2
    <3> QED BY <2>4, <3>1, JoinFront
  <2>6. s[m] \in Chars /\ SubSeq(s, k + 1, L) = <<s[m]>> \o SubSeq(s, m + 1, L)
    BY <1>2, <2>1, SuffixFront
  <2>7. PICK r : r = Join(f, m, L)
    OBVIOUS
  <2>8. r \in Seq(Chars) /\ Unquoted[r] = SubSeq(s, m + 1, L)
    BY <2>1, <2>7
  <2>9. f[m] \o r \in Seq(Chars) /\ Unquoted[f[m] \o r] = <<s[m]>> \o Unquoted[r]
    <3>1. CASE s[m] \in {"\\", "\""}
      <4>1. f[m] = <<"\\", s[m]>>
        BY <1>4, <2>2, <3>1
      <4> QED BY <4>1, <2>6, <2>8, UnquotedEscaped
    <3>2. CASE s[m] \notin {"\\", "\""}
      <4>1. f[m] = <<s[m]>> /\ s[m] # "\\"
        BY <1>4, <2>2, <3>2
      <4> QED BY <4>1, <2>6, <2>8, UnquotedPlain
    <3> QED BY <3>1, <3>2
  <2> QED BY <2>2, <2>5, <2>6, <2>7, <2>8, <2>9
<1>9. Join(f, 0, L) \in Seq(Chars) /\ Unquoted[Join(f, 0, L)] = SubSeq(s, 1, L)
  <2> HIDE DEF S
  <2>1. 0 .. L \subseteq S
    BY <1>3, <1>7, <1>8, DownTo
  <2>2. 0 \in 0 .. L /\ 0 + 1 = 1
    BY <1>3
  <2>3. 0 \in S
    BY <2>1, <2>2
  <2> QED BY <2>3, <2>2 DEF S
<1>10. SubSeq(s, 1, L) = s
  BY <1>2, SubSeqFull
<1> QED BY <1>6, <1>9, <1>10

\* Expanding the specifiers undoes describe_line, for every text.
LEMMA ExpandedDescribe ==
    ASSUME NEW s \in Seq(Chars)
    PROVE  Describe(s) \in Seq(Chars) /\ Expanded[Describe(s)] = s
<1>1. PICK f : f = [i \in DOMAIN s |-> IF s[i] = "%" THEN <<"%", "%">> ELSE <<s[i]>>]
  OBVIOUS
<1>2. PICK L : L = Len(s)
  OBVIOUS
<1>3. L \in Nat /\ DOMAIN s = 1 .. L /\ \A i \in 1 .. L : s[i] \in Chars
  BY <1>2
<1>4. \A i \in 1 .. L : f[i] = IF s[i] = "%" THEN <<"%", "%">> ELSE <<s[i]>>
  BY <1>1, <1>3
<1>5. Has(f, 0, L)
  <2>1. "%" \in Chars
    BY DEF Chars, Code
  <2>2. \A c \in Chars : <<"%", "%">> \in Seq(Chars) /\ <<c>> \in Seq(Chars)
    BY <2>1
  <2>3. \A c \in Chars : <<"%", "%">> \in Str /\ <<c>> \in Str
    BY <2>2, CharsInStr
  <2>4. \A i \in 1 .. L : f[i] \in Str
    BY <1>3, <1>4, <2>3
  <2> QED BY <1>3, <2>4 DEF Has
<1>6. Describe(s) = Join(f, 0, L)
  <2>1. f = [i \in 1 .. L |-> f[i]]
    BY <1>1, <1>3
  <2>2. FlattenSeq([i \in 1 .. L |-> f[i]]) = Join(f, 0, L)
    BY <1>3, <1>5, FlattenJoin
  <2> QED BY <2>1, <2>2, <1>1 DEF Describe
<1> DEFINE S == {k \in Nat : Join(f, k, L) \in Seq(Chars) /\ Expanded[Join(f, k, L)] = SubSeq(s, k + 1, L)}
<1>7. L \in S
  <2>1. Join(f, L, L) = <<>> /\ <<>> \in Seq(Chars)
    BY <1>3, JoinNone
  <2>2. SubSeq(s, L + 1, L) = <<>>
    BY <1>3, SubSeqEmpty
  <2>3. Expanded[<<>>] = <<>>
    BY <2>1, ExpandedStep
  <2> QED BY <1>3, <2>1, <2>2, <2>3
<1>8. \A k \in 0 .. L - 1 : k + 1 \in S => k \in S
  <2> SUFFICES ASSUME NEW k \in 0 .. L - 1, k + 1 \in S PROVE k \in S
    OBVIOUS
  <2>1. PICK m : m = k + 1
    OBVIOUS
  <2>2. k \in Nat /\ m \in Nat /\ m \in 1 .. L /\ 0 <= k /\ k <= m /\ m <= L /\ Succ(k, m) /\ k <= L
    BY <1>3, <2>1 DEF Succ
  <2>3. Has(f, k, L)
    BY <1>5, <2>2, HasParts
  <2>4. Has(f, k, m) /\ Has(f, m, L)
    BY <2>2, <2>3, HasParts
  <2>5. Join(f, k, L) = f[m] \o Join(f, m, L)
    <3>1. Succ(k, m)
      BY <2>2
    <3> QED BY <2>4, <3>1, JoinFront
  <2>6. s[m] \in Chars /\ SubSeq(s, k + 1, L) = <<s[m]>> \o SubSeq(s, m + 1, L)
    BY <1>2, <2>1, SuffixFront
  <2>7. PICK r : r = Join(f, m, L)
    OBVIOUS
  <2>8. r \in Seq(Chars) /\ Expanded[r] = SubSeq(s, m + 1, L)
    BY <2>1, <2>7
  <2>9. f[m] \o r \in Seq(Chars) /\ Expanded[f[m] \o r] = <<s[m]>> \o Expanded[r]
    <3>1. CASE s[m] = "%"
      <4>1. f[m] = <<"%", "%">> /\ s[m] = "%"
        BY <1>4, <2>2, <3>1
      <4> QED BY <4>1, <2>6, <2>8, ExpandedEscaped
    <3>2. CASE s[m] # "%"
      <4>1. f[m] = <<s[m]>> /\ s[m] # "%"
        BY <1>4, <2>2, <3>2
      <4> QED BY <4>1, <2>6, <2>8, ExpandedPlain
    <3> QED BY <3>1, <3>2
  <2> QED BY <2>2, <2>5, <2>6, <2>7, <2>8, <2>9
<1>9. Join(f, 0, L) \in Seq(Chars) /\ Expanded[Join(f, 0, L)] = SubSeq(s, 1, L)
  <2> HIDE DEF S
  <2>1. 0 .. L \subseteq S
    BY <1>3, <1>7, <1>8, DownTo
  <2>2. 0 \in 0 .. L /\ 0 + 1 = 1
    BY <1>3
  <2>3. 0 \in S
    BY <2>1, <2>2
  <2> QED BY <2>3, <2>2 DEF S
<1>10. SubSeq(s, 1, L) = s
  BY <1>2, SubSeqFull
<1> QED BY <1>6, <1>9, <1>10

-----------------------------------------------------------------------------
(* The segments *)

\* A set of naturals has a least one.
LEMMA Least ==
    ASSUME NEW S, S \subseteq Nat, S # {}
    PROVE  \E i \in S : \A k \in S : i <= k
<1> SUFFICES ASSUME \A i \in S : \E k \in S : ~(i <= k) PROVE FALSE
  OBVIOUS
<1> DEFINE R == {n \in Nat : \A k \in S : ~(k <= n)}
<1>1. 0 \in R
  OBVIOUS
<1>2. \A n \in Nat : n \in R => n + 1 \in R
  <2> SUFFICES ASSUME NEW n \in Nat, n \in R, NEW k \in S, k <= n + 1 PROVE FALSE
    OBVIOUS
  <2>1. k = n + 1
    OBVIOUS
  <2>2. PICK j \in S : ~(k <= j)
    OBVIOUS
  <2> QED BY <2>1, <2>2
<1> HIDE DEF R
<1>3. \A n \in Nat : n \in R
  BY <1>1, <1>2, InductionOnNat
<1>4. PICK k \in S : TRUE
  OBVIOUS
<1> QED BY <1>3, <1>4 DEF R

FirstEscape(s) == CHOOSE i \in Escapes(s) : \A k \in Escapes(s) : i <= k

\* The first escape is the least of them.
LEMMA FirstEscapeIs ==
    ASSUME NEW s \in Seq(Chars), Escapes(s) # {}
    PROVE  FirstEscape(s) \in Escapes(s) /\ \A k \in Escapes(s) : FirstEscape(s) <= k
<1>1. Escapes(s) \subseteq Nat
  BY DEF Escapes
<1>2. \E i \in Escapes(s) : \A k \in Escapes(s) : i <= k
  BY <1>1, Least
<1> QED BY <1>2 DEF FirstEscape

\* One step of debackslashpercentise: the function that the definition chooses exists.
LEMMA SegmentsStep ==
    ASSUME NEW s \in Seq(Chars)
    PROVE  Segments[s] =
             IF s = <<>> THEN <<>>
             ELSE IF Escapes(s) = {} THEN <<[what |-> s, raw |-> TRUE]>>
             ELSE <<[what |-> SubSeq(s, 1, FirstEscape(s) - 1), raw |-> TRUE], [what |-> <<"%">>, raw |-> FALSE]>>
                  \o Segments[SubSeq(s, FirstEscape(s) + 2, Len(s))]
<1> DEFINE C == Seq(Chars)
           W(t) == <<[what |-> SubSeq(t, 1, FirstEscape(t) - 1), raw |-> TRUE], [what |-> <<"%">>, raw |-> FALSE]>>
           g == [t \in C |-> IF Escapes(t) = {} THEN <<[what |-> t, raw |-> TRUE]>> ELSE W(t)]
           k == [t \in C |-> IF Escapes(t) = {} THEN <<>> ELSE SubSeq(t, FirstEscape(t) + 2, Len(t))]
           B(f, t) == IF t = <<>> THEN <<>>
                      ELSE IF Escapes(t) = {} THEN <<[what |-> t, raw |-> TRUE]>>
                      ELSE W(t) \o f[SubSeq(t, FirstEscape(t) + 2, Len(t))]
<1>1. \A t \in C : t # <<>> => k[t] \in C /\ Len(k[t]) < Len(t)
  <2> SUFFICES ASSUME NEW t \in C, t # <<>> PROVE k[t] \in C /\ Len(k[t]) < Len(t)
    OBVIOUS
  <2>1. CASE Escapes(t) = {}
    BY <2>1
  <2>2. CASE Escapes(t) # {}
    <3>1. PICK e : e = FirstEscape(t)
      OBVIOUS
    <3>2. e \in 1 .. Len(t) /\ Len(t) \in Nat
      BY <2>2, <3>1, FirstEscapeIs DEF Escapes
    <3>3. SubSeq(t, e + 2, Len(t)) \in C /\ Len(SubSeq(t, e + 2, Len(t))) < Len(t)
      BY <3>2
    <3> QED BY <2>2, <3>1, <3>3
  <2> QED BY <2>1, <2>2
<1>a. \A t : <<[what |-> t, raw |-> TRUE]>> \o <<>> = <<[what |-> t, raw |-> TRUE]>>
  OBVIOUS
<1> HIDE DEF W
<1>2. \A f : f[<<>>] = <<>> => \A t \in C : B(f, t) = IF t = <<>> THEN <<>> ELSE g[t] \o f[k[t]]
  BY <1>a
<1> HIDE DEF g, k, B
<1>3. PICK f : Recurses(f, Chars, g, k)
  BY <1>1, RecursionOnSequences
<1>b. f[<<>>] = <<>>
  <2>1. <<>> \in Seq(Chars)
    OBVIOUS
  <2> QED BY <1>3, <2>1 DEF Recurses
<1>4. f = [t \in C |-> B(f, t)]
  BY <1>2, <1>3, <1>b DEF Recurses
<1>5. Segments = CHOOSE h : h = [t \in C |-> B(h, t)]
  BY DEF Segments, B, W, FirstEscape
<1>6. Segments = [t \in C |-> B(Segments, t)]
  BY <1>4, <1>5
<1>7. Segments[s] = B(Segments, s)
  BY <1>6
<1> QED BY <1>7 DEF B, W

\* A segment, with the percents of a raw one read as pct.
Segment == [what : Seq(Chars), raw : BOOLEAN]
Fed(g, pct) == [i \in DOMAIN g.what |-> IF g.raw /\ g.what[i] = "%" THEN pct ELSE g.what[i]]
FedAll(x, pct) == FlattenSeq([n \in DOMAIN x |-> Fed(x[n], pct)])

\* What a segment is read as has its length.
LEMMA FedType ==
    ASSUME NEW pct \in Chars, NEW g \in Segment
    PROVE  Fed(g, pct) \in Seq(Chars) /\ Len(Fed(g, pct)) = Len(g.what) /\ DOMAIN Fed(g, pct) = 1 .. Len(g.what)
<1>1. g.what \in Seq(Chars)
  BY DEF Segment
<1>2. PICK w : w = g.what
  OBVIOUS
<1>3. DOMAIN w = 1 .. Len(w) /\ Len(w) \in Nat /\ \A i \in 1 .. Len(w) : w[i] \in Chars
  BY <1>1, <1>2
<1> QED BY <1>2, <1>3 DEF Fed

\* And is a string.
LEMMA FedStr ==
    ASSUME NEW pct \in Chars, NEW x \in Seq(Segment)
    PROVE  [n \in DOMAIN x |-> Fed(x[n], pct)] \in Seq(Str)
<1>1. \A g \in Segment : Fed(g, pct) \in Str
  BY FedType, CharsInStr
<1>2. PICK V, G : V = Str /\ G = Segment
  OBVIOUS
<1>3. x \in Seq(G) /\ \A g \in G : Fed(g, pct) \in V
  BY <1>1, <1>2
<1>4. DOMAIN x = 1 .. Len(x) /\ Len(x) \in Nat /\ \A n \in 1 .. Len(x) : x[n] \in G
  BY <1>3
<1>5. [n \in DOMAIN x |-> Fed(x[n], pct)] \in Seq(V)
  BY <1>3, <1>4
<1> QED BY <1>2, <1>5

\* One segment more at the front.
LEMMA FedFront ==
    ASSUME NEW pct \in Chars, NEW g \in Segment, NEW x \in Seq(Segment)
    PROVE  /\ <<g>> \o x \in Seq(Segment)
           /\ FedAll(<<g>> \o x, pct) = Fed(g, pct) \o FedAll(x, pct)
           /\ FedAll(x, pct) \in Str
<1>1. PICK y : y = <<g>> \o x
  OBVIOUS
<1>0. PICK G : G = Segment
  OBVIOUS
<1>2. y \in Seq(G) /\ Len(y) = 1 + Len(x) /\ Len(x) \in Nat /\ y[1] = g /\ DOMAIN y = 1 .. Len(y)
      /\ DOMAIN x = 1 .. Len(x) /\ \A i \in 1 .. Len(x) : y[1 + i] = x[i]
  BY <1>0, <1>1
<1>3. PICK q : q = [n \in DOMAIN x |-> Fed(x[n], pct)]
  OBVIOUS
<1>4. PICK r : r = [n \in DOMAIN y |-> Fed(y[n], pct)]
  OBVIOUS
<1>5. q \in Seq(Str) /\ r \in Seq(Str)
  BY <1>0, <1>2, <1>3, <1>4, FedStr
<1>6. Len(q) = Len(x) /\ \A n \in 1 .. Len(x) : q[n] = Fed(x[n], pct)
  BY <1>2, <1>3
<1>7. Len(r) = Len(y) /\ \A n \in 1 .. Len(y) : r[n] = Fed(y[n], pct)
  BY <1>2, <1>4
<1>8. FlattenSeq(q) = Join(q, 0, Len(x)) /\ Has(q, 0, Len(x))
  BY <1>5, <1>6, JoinAll
<1>9. FlattenSeq(r) = Join(r, 0, Len(y)) /\ Has(r, 0, Len(y))
  BY <1>5, <1>7, JoinAll
<1>10. Has(r, 0, 1) /\ Has(r, 1, Len(y)) /\ Succ(0, 1)
  BY <1>2, <1>9, HasParts DEF Succ
<1>11. Join(r, 0, Len(y)) = r[1] \o Join(r, 1, Len(y))
  <2>1. PICK z, o : z = 0 /\ o = 1
    OBVIOUS
  <2>2. Has(r, z, o) /\ Has(r, o, Len(y)) /\ Succ(z, o)
    BY <1>10, <2>1
  <2>3. Join(r, z, Len(y)) = r[o] \o Join(r, o, Len(y))
    BY <2>2, JoinFront
  <2> QED BY <2>1, <2>3
<1>12. Join(r, 1, Len(y)) = Join(q, 0, Len(x))
  <2>1. \A i \in 1 .. Len(x) : r[1 + i] = q[0 + i]
    <3> SUFFICES ASSUME NEW i \in 1 .. Len(x) PROVE r[1 + i] = q[0 + i]
      OBVIOUS
    <3>1. 1 + i \in 1 .. Len(y) /\ 0 + i = i
      BY <1>2
    <3> QED BY <3>1, <1>2, <1>6, <1>7
  <2>2. Same(r, 1, Len(y), q, 0, Len(x))
    BY <2>1, <1>2 DEF Same
  <2> QED BY <2>2, JoinSame
<1>13. r[1] = Fed(g, pct)
  BY <1>2, <1>7
<1>14. FedAll(x, pct) \in Str
  BY <1>3, <1>8, JoinType DEF FedAll
<1> QED BY <1>0, <1>1, <1>2, <1>3, <1>4, <1>8, <1>9, <1>11, <1>12, <1>13, <1>14 DEF FedAll

\* No segments.
LEMMA FedNone == ASSUME NEW pct PROVE FedAll(<<>>, pct) = <<>>
<1>1. [n \in DOMAIN <<>> |-> Fed(<<>>[n], pct)] = <<>>
  OBVIOUS
<1> QED BY <1>1, FlattenEmpty DEF FedAll

-----------------------------------------------------------------------------
(* The segments say what the text says, read one character at a time. *)

\* The literal percent is a text.
LEMMA Percent == "%" \in Chars /\ <<"%">> \in Seq(Chars)
<1>1. "%" \in Chars
  BY DEF Chars, Code
<1> QED BY <1>1

\* A pair is one element after another.
LEMMA PairIsConcat ==
    ASSUME NEW T, NEW a \in T, NEW b \in T
    PROVE  <<a, b>> = <<a>> \o <<b>> /\ <<a>> \in Seq(T) /\ <<b>> \in Seq(T)
<1>1. PICK p, q, r : p = <<a>> /\ q = <<b>> /\ r = <<a, b>>
  OBVIOUS
<1>2. p \in Seq(T) /\ Len(p) = 1 /\ p[1] = a
  BY <1>1
<1>3. q \in Seq(T) /\ Len(q) = 1 /\ q[1] = b
  BY <1>1
<1>4. r \in Seq(T) /\ Len(r) = 2 /\ r[1] = a /\ r[2] = b
  BY <1>1
<1>5. p \o q \in Seq(T) /\ Len(p \o q) = 2 /\ \A i \in 1 .. 2 : (p \o q)[i] = r[i]
  <2>1. p \o q \in Seq(T) /\ Len(p \o q) = Len(p) + Len(q)
        /\ \A i \in 1 .. Len(p) + Len(q) : (p \o q)[i] = IF i <= Len(p) THEN p[i] ELSE q[i - Len(p)]
    BY <1>2, <1>3, ConcatProperties
  <2>2. (p \o q)[1] = p[1] /\ (p \o q)[2] = q[1]
    BY <2>1, <1>2, <1>3
  <2>3. \A i \in 1 .. 2 : i = 1 \/ i = 2
    OBVIOUS
  <2> QED BY <2>1, <2>2, <2>3, <1>2, <1>3, <1>4
<1>6. p \o q = r
  BY <1>4, <1>5, SeqEqual
<1> QED BY <1>1, <1>2, <1>3, <1>6

\* A piece of a sequence, by position.
LEMMA SubSeqIs ==
    ASSUME NEW T, NEW s \in Seq(T), NEW a \in Nat, NEW b \in Nat, a <= b, b <= Len(s),
           NEW m, Succ(a, m), NEW t, t = SubSeq(s, m, b)
    PROVE  t \in Seq(T) /\ Len(t) = b - a /\ DOMAIN t = 1 .. b - a /\ \A i \in 1 .. b - a : t[i] = s[a + i]
<1>1. \A i \in a + 1 .. b : s[i] \in T
  <2>1. Len(s) \in Nat /\ \A i \in a + 1 .. b : i \in 1 .. Len(s)
    OBVIOUS
  <2> QED BY <2>1, ElementOfSeq
<1>2. m = a + 1
  BY DEF Succ
<1>3. m \in Int /\ b \in Int /\ \A i \in m .. b : s[i] \in T
  BY <1>1, <1>2
<1>4. /\ SubSeq(s, m, b) \in Seq(T)
      /\ Len(SubSeq(s, m, b)) = (IF m <= b THEN b - m + 1 ELSE 0)
      /\ \A i \in 1 .. b - m + 1 : SubSeq(s, m, b)[i] = s[m + i - 1]
  BY <1>3, SubSeqProperties
<1>5. b - m + 1 = b - a /\ (~(m <= b) => b - a = 0) /\ \A i \in 1 .. b - a : m + i - 1 = a + i
  BY <1>2
<1>6. t \in Seq(T) /\ Len(t) = b - a /\ \A i \in 1 .. b - a : t[i] = s[a + i]
  BY <1>2, <1>4, <1>5
<1>7. DOMAIN t = 1 .. Len(t)
  BY <1>6
<1> QED BY <1>6, <1>7

\* The piece after an escape.
LEMMA AfterEscape ==
    ASSUME NEW T, NEW s \in Seq(T), NEW e \in Nat, NEW c, c = e + 1, c <= Len(s),
           NEW t, t = SubSeq(s, e + 2, Len(s))
    PROVE  t \in Seq(T) /\ Len(t) = Len(s) - c /\ DOMAIN t = 1 .. Len(s) - c
           /\ \A i \in 1 .. Len(s) - c : t[i] = s[c + i]
<1>1. PICK m, L : m = c + 1 /\ L = Len(s)
  OBVIOUS
<1>2. e + 2 = m /\ Succ(c, m) /\ c \in Nat /\ L \in Nat /\ c <= L /\ L <= Len(s)
  BY <1>1 DEF Succ
<1>3. t = SubSeq(s, m, L)
  BY <1>1, <1>2
<1>4. t \in Seq(T) /\ Len(t) = L - c /\ DOMAIN t = 1 .. L - c /\ \A i \in 1 .. L - c : t[i] = s[c + i]
  BY <1>2, <1>3, SubSeqIs
<1> QED BY <1>1, <1>4

\* Two values, and what is on both sides.
Two(f, L, d, e, c) ==
    d \in Nat /\ e \in Nat /\ c \in Nat /\ Has(f, 0, L) /\ Succ(d, e) /\ Succ(e, c) /\ c <= L

LEMMA JoinThree ==
    ASSUME NEW f, NEW L, NEW d, NEW e, NEW c, Two(f, L, d, e, c)
    PROVE  Join(f, 0, L) = Join(f, 0, d) \o (f[e] \o (f[c] \o Join(f, c, L))) /\ Join(f, c, L) \in Str /\ f[c] \in Str
<1>0. d \in Nat /\ e \in Nat /\ c \in Nat /\ Has(f, 0, L) /\ Succ(d, e) /\ Succ(e, c) /\ c <= L
  BY DEF Two
<1>1. L \in Nat /\ 0 <= d /\ d <= e /\ e <= c /\ d <= L /\ e <= L
  BY <1>0 DEF Has, Succ
<1>2. Has(f, 0, d) /\ Has(f, d, L)
  BY <1>0, <1>1, HasParts
<1>3. Has(f, d, e) /\ Has(f, e, L)
  BY <1>0, <1>1, <1>2, HasParts
<1>4. Has(f, e, c) /\ Has(f, c, L)
  BY <1>0, <1>1, <1>3, HasParts
<1>5. Join(f, 0, L) = Join(f, 0, d) \o Join(f, d, L)
  BY <1>2, JoinSplit
<1>6. Join(f, d, L) = f[e] \o Join(f, e, L)
  BY <1>0, <1>3, JoinFront
<1>7. f[c] \in Str /\ Join(f, e, L) = f[c] \o Join(f, c, L)
  BY <1>0, <1>4, JoinFront
<1>8. Join(f, e, L) \in Str /\ Join(f, c, L) \in Str
  BY <1>3, <1>4, JoinType
<1> QED BY <1>5, <1>6, <1>7, <1>8

Readings(s, pct) == [i \in DOMAIN s |-> Read(s, i, pct)]

\* Reads joins what each character is read as.
LEMMA ReadingsAre ==
    ASSUME NEW s \in Seq(Chars), NEW pct \in Chars
    PROVE  /\ Len(s) \in Nat /\ Has(Readings(s, pct), 0, Len(s))
           /\ Reads(s, pct) = Join(Readings(s, pct), 0, Len(s))
           /\ \A i \in 1 .. Len(s) : Readings(s, pct)[i] = Read(s, i, pct)
<1>1. Len(s) \in Nat /\ DOMAIN s = 1 .. Len(s) /\ \A i \in 1 .. Len(s) : s[i] \in Chars
  OBVIOUS
<1>2. PICK r : r = Readings(s, pct)
  OBVIOUS
<1>3. r = [i \in 1 .. Len(s) |-> Read(s, i, pct)]
  BY <1>1, <1>2 DEF Readings
<1>4. \A i \in 1 .. Len(s) : Read(s, i, pct) \in Seq(Chars)
  <2>1. "%" \in Chars /\ <<>> \in Seq(Chars)
    BY Percent
  <2>2. \A c \in Chars : <<c>> \in Seq(Chars)
    OBVIOUS
  <2> QED BY <1>1, <2>1, <2>2 DEF Read
<1>5. \A i \in 1 .. Len(s) : r[i] = Read(s, i, pct) /\ r[i] \in Str
  BY <1>3, <1>4, CharsInStr
<1>6. Has(r, 0, Len(s))
  BY <1>1, <1>5 DEF Has
<1>7. r = [i \in 1 .. Len(s) |-> r[i]]
  BY <1>3
<1>8. FlattenSeq(r) = Join(r, 0, Len(s))
  BY <1>1, <1>6, <1>7, FlattenJoin
<1>9. Reads(s, pct) = FlattenSeq(r)
  BY <1>2 DEF Reads, Readings
<1> QED BY <1>1, <1>2, <1>5, <1>6, <1>8, <1>9

\* Before the first escape every character stands for itself.
LEMMA ReadBefore ==
    ASSUME NEW s \in Seq(Chars), NEW pct \in Chars, NEW e \in 0 .. Len(s),
           \A k \in Escapes(s) : e < k, NEW w, w = SubSeq(s, 1, e)
    PROVE  /\ [what |-> w, raw |-> TRUE] \in Segment
           /\ Join(Readings(s, pct), 0, e) = Fed([what |-> w, raw |-> TRUE], pct)
<1>0. Len(s) \in Nat /\ e \in Nat /\ e <= Len(s)
  OBVIOUS
<1>1. w \in Seq(Chars) /\ Len(w) = e /\ \A i \in 1 .. e : w[i] = s[i]
  BY <1>0
<1>2. PICK g : g = [what |-> w, raw |-> TRUE]
  OBVIOUS
<1>3. g \in Segment /\ g.what = w /\ g.raw = TRUE
  BY <1>1, <1>2 DEF Segment
<1>4. PICK x : x = Fed(g, pct)
  OBVIOUS
<1>5. x \in Seq(Chars) /\ Len(x) = e /\ DOMAIN x = 1 .. e
  BY <1>1, <1>3, <1>4, FedType
<1>5a. DOMAIN w = 1 .. e
  BY <1>1
<1>6. \A i \in 1 .. e : x[i] = IF s[i] = "%" THEN pct ELSE s[i]
  BY <1>1, <1>3, <1>4, <1>5a DEF Fed
<1>7. PICK r : r = Readings(s, pct)
  OBVIOUS
<1>8. ASSUME NEW i \in 1 .. e PROVE r[i] = <<x[i]>>
  <2>1. i \in 1 .. Len(s)
    BY <1>0
  <2>2. r[i] = Read(s, i, pct)
    BY <2>1, <1>7, ReadingsAre
  <2>3. i \notin Escapes(s)
    BY <1>0
  <2>4. ~(s[i] = "\\" /\ i < Len(s) /\ s[i + 1] = "%")
    BY <2>1, <2>3 DEF Escapes
  <2>5. i - 1 \notin Escapes(s)
    BY <1>0
  <2>6. s[i] = "%" => ~(i > 1 /\ s[i - 1] = "\\")
    <3> SUFFICES ASSUME s[i] = "%", i > 1, s[i - 1] = "\\" PROVE FALSE
      OBVIOUS
    <3>1. i - 1 \in 1 .. Len(s) /\ i - 1 < Len(s) /\ (i - 1) + 1 = i /\ DOMAIN s = 1 .. Len(s)
      BY <1>0, <2>1
    <3> QED BY <3>1, <2>5 DEF Escapes
  <2> QED BY <2>2, <2>4, <2>6, <1>6 DEF Read
<1>9. Singles(r, 0, e, x)
  <2>1. x \in Str
    BY <1>5, CharsInStr
  <2> QED BY <1>0, <1>5, <1>8, <2>1 DEF Singles
<1>10. Join(r, 0, e) = SubSeq(x, 0 + 1, e)
  BY <1>9, JoinSingles
<1>11. SubSeq(x, 1, e) = x
  BY <1>5, SubSeqFull
<1>12. 0 + 1 = 1
  OBVIOUS
<1>13. Join(r, 0, e) = x
  BY <1>10, <1>11, <1>12
<1> QED BY <1>2, <1>3, <1>4, <1>7, <1>13

Agrees(s, pct) == Segments[s] \in Seq(Segment) /\ FedAll(Segments[s], pct) = Reads(s, pct)

\* The empty text has no segments.
LEMMA AgreesNone ==
    ASSUME NEW pct \in Chars
    PROVE  Agrees(<<>>, pct)
<1>1. <<>> \in Seq(Chars) /\ <<>> \in Seq(Segment)
  OBVIOUS
<1>2. Segments[<<>>] = <<>>
  BY <1>1, SegmentsStep
<1>3. Readings(<<>>, pct) = <<>>
  BY DEF Readings
<1>4. Reads(<<>>, pct) = <<>>
  BY <1>3, FlattenEmpty DEF Reads, Readings
<1> QED BY <1>1, <1>2, <1>4, FedNone DEF Agrees

\* A text without escape is one raw segment.
LEMMA AgreesPlain ==
    ASSUME NEW pct \in Chars, NEW s \in Seq(Chars), s # <<>>, Escapes(s) = {}
    PROVE  Agrees(s, pct)
<1>1. Len(s) \in Nat /\ SubSeq(s, 1, Len(s)) = s /\ Len(s) \in 0 .. Len(s)
  BY SubSeqFull
<1>2. PICK g : g = [what |-> s, raw |-> TRUE]
  OBVIOUS
<1>3. g \in Segment /\ Join(Readings(s, pct), 0, Len(s)) = Fed(g, pct)
  <2>1. \A k \in Escapes(s) : Len(s) < k
    OBVIOUS
  <2> QED BY <1>1, <1>2, <2>1, ReadBefore
<1>4. Segments[s] = <<g>>
  BY <1>2, SegmentsStep
<1>5. PICK G : G = Segment
  OBVIOUS
<1>6. <<g>> \in Seq(G) /\ <<>> \in Seq(G) /\ <<g>> \o <<>> = <<g>>
  BY <1>3, <1>5
<1>7. FedAll(<<g>>, pct) = Fed(g, pct) \o <<>>
  <2>1. FedAll(<<g>> \o <<>>, pct) = Fed(g, pct) \o FedAll(<<>>, pct)
    BY <1>3, <1>5, <1>6, FedFront
  <2> QED BY <2>1, <1>6, FedNone
<1>8. Fed(g, pct) \o <<>> = Fed(g, pct)
  BY <1>3, FedType, CharsInStr, StrEmptyConcat
<1> QED BY <1>3, <1>4, <1>5, <1>6, <1>7, <1>8, ReadingsAre DEF Agrees

\* A text with an escape: what comes before it, the percent, and the rest.
LEMMA AgreesEscape ==
    ASSUME NEW pct \in Chars, NEW s \in Seq(Chars), s # <<>>, Escapes(s) # {},
           NEW e, e = FirstEscape(s), NEW t, t = SubSeq(s, e + 2, Len(s)), Agrees(t, pct)
    PROVE  Agrees(s, pct)
<1>0. PICK L : L = Len(s)
  OBVIOUS
<1>1. e \in Escapes(s) /\ \A k \in Escapes(s) : e <= k
  BY FirstEscapeIs
<1>2. L \in Nat /\ e \in 1 .. L /\ e < L /\ s[e] = "\\" /\ s[e + 1] = "%" /\ DOMAIN s = 1 .. L
  BY <1>0, <1>1 DEF Escapes
<1>3. PICK d, c, l : d = e - 1 /\ c = e + 1 /\ l = L - c
  OBVIOUS
<1>3a. c \in Nat /\ L \in Nat /\ c <= L /\ l = L - c /\ l \in Nat /\ c > 1
  BY <1>2, <1>3, SMTT(30)
<1>4. /\ d \in Nat /\ c \in Nat /\ l \in Nat /\ d <= e /\ e <= c /\ c <= L /\ d <= L
      /\ Succ(d, e) /\ Succ(e, c) /\ d \in 0 .. L /\ 0 <= d /\ e \in Nat /\ 0 <= e
  BY <1>2, <1>3, SMTT(30) DEF Succ
<1>5. t \in Seq(Chars) /\ Len(t) = l /\ DOMAIN t = 1 .. l /\ \A i \in 1 .. l : t[i] = s[c + i]
  <2>1. e \in Nat /\ c = e + 1 /\ c <= Len(s)
    BY <1>0, <1>2, <1>3, <1>4
  <2>2. t \in Seq(Chars) /\ Len(t) = Len(s) - c /\ DOMAIN t = 1 .. Len(s) - c /\ \A i \in 1 .. Len(s) - c : t[i] = s[c + i]
    BY <2>1, AfterEscape, SMTT(30)
  <2> QED BY <2>2, <1>0, <1>3
<1>6. PICK r, q : r = Readings(s, pct) /\ q = Readings(t, pct)
  OBVIOUS
<1>7. /\ Has(r, 0, L) /\ Reads(s, pct) = Join(r, 0, L) /\ \A i \in 1 .. L : r[i] = Read(s, i, pct)
      /\ Has(q, 0, l) /\ Reads(t, pct) = Join(q, 0, l) /\ \A i \in 1 .. l : q[i] = Read(t, i, pct)
  BY <1>0, <1>5, <1>6, ReadingsAre
<1>14. r[e] = <<>>
  <2>1. r[e] = Read(s, e, pct)
    BY <1>2, <1>7
  <2>2. s[e] = "\\" /\ e < Len(s) /\ s[e + 1] = "%"
    BY <1>0, <1>2
  <2> QED BY <2>1, <2>2 DEF Read
<1>15. r[c] = <<"%">>
  <2>1. c \in 1 .. L /\ c - 1 = e /\ c > 1 /\ s[c] = "%"
    BY <1>2, <1>3, SMTT(30)
  <2>2. r[c] = Read(s, c, pct)
    BY <2>1, <1>7
  <2> QED BY <2>1, <2>2, <1>2 DEF Read
<1>11. Join(r, 0, L) = Join(r, 0, d) \o (r[c] \o Join(r, c, L))
  <2>1. /\ Join(r, 0, L) = Join(r, 0, d) \o (r[e] \o (r[c] \o Join(r, c, L)))
        /\ Join(r, c, L) \in Str /\ r[c] \in Str
    <3>1. Two(r, L, d, e, c)
      BY <1>4, <1>7 DEF Two
    <3> QED BY <3>1, JoinThree
  <2>2. r[c] \o Join(r, c, L) \in Str
    BY <2>1, StrConcat
  <2> QED BY <2>1, <2>2, <1>14, StrEmptyConcat
<1>16. Join(r, c, L) = Join(q, 0, l)
  <2>1. \A i \in 1 .. l : r[c + i] = q[0 + i]
    <3> SUFFICES ASSUME NEW i \in 1 .. l PROVE r[c + i] = q[i]
      OBVIOUS
    <3>1. c + i \in 1 .. L /\ c + i > 1
      BY <1>3a
    <3>2. r[c + i] = Read(s, c + i, pct) /\ q[i] = Read(t, i, pct)
      BY <3>1, <1>7
    <3>3. t[i] = s[c + i]
      BY <1>5
    <3>4. (c + i < L <=> i < l) /\ (i < l => t[i + 1] = s[(c + i) + 1])
      <4>1. c + i < L <=> i < l
        BY <1>3a
      <4>2. ASSUME i < l PROVE t[i + 1] = s[(c + i) + 1]
        <5>1. i + 1 \in 1 .. l /\ c + (i + 1) = (c + i) + 1
          BY <4>2, <1>4
        <5> QED BY <5>1, <1>5
      <4> QED BY <4>1, <4>2
    <3>5. CASE i = 1
      <4>1. (c + i) - 1 = c /\ s[c] = "%"
        BY <1>2, <1>3, <1>4, <3>5
      <4>2. "%" # "\\" /\ ~(i > 1)
        BY <3>5
      <4> HIDE DEF Read
      <4>3. Read(t, i, pct) = Read(s, c + i, pct)
        BY <3>1, <1>0, <1>5, <3>3, <3>4, <4>1, <4>2 DEF Read
      <4> QED BY <3>2, <4>3
    <3>6. CASE i # 1
      <4>1. i - 1 \in 1 .. l /\ c + (i - 1) = (c + i) - 1 /\ i > 1
        BY <1>4, <3>6
      <4>2. t[i - 1] = s[(c + i) - 1]
        BY <4>1, <1>5
      <4>3. Read(t, i, pct) = Read(s, c + i, pct)
        BY <1>0, <1>5, <3>1, <3>3, <3>4, <4>1, <4>2 DEF Read
      <4> QED BY <3>2, <4>3
    <3> QED BY <3>5, <3>6
  <2>2. Same(r, c, L, q, 0, l)
    BY <2>1, <1>2, <1>3, <1>4 DEF Same
  <2> QED BY <2>2, JoinSame
<1>17. PICK g, h : g = [what |-> SubSeq(s, 1, d), raw |-> TRUE] /\ h = [what |-> <<"%">>, raw |-> FALSE]
  OBVIOUS
<1>18. g \in Segment /\ Join(r, 0, d) = Fed(g, pct)
  <2>1. \A k \in Escapes(s) : d < k
    <3>1. Escapes(s) \subseteq Nat
      BY DEF Escapes
    <3> QED BY <3>1, <1>1, <1>2, <1>3
  <2> QED BY <2>1, <1>0, <1>4, <1>6, <1>17, ReadBefore
<1>19. h \in Segment /\ Fed(h, pct) = <<"%">>
  <2>1. <<"%">> \in Seq(Chars) /\ DOMAIN <<"%">> = {1} /\ <<"%">>[1] = "%"
    BY Percent
  <2>2. h.what = <<"%">> /\ h.raw = FALSE
    BY <1>17
  <2>3. Fed(h, pct) = [i \in {1} |-> <<"%">>[i]]
    BY <2>1, <2>2 DEF Fed
  <2>4. [i \in {1} |-> <<"%">>[i]] = <<"%">>
    OBVIOUS
  <2> QED BY <2>1, <2>3, <2>4, <1>17 DEF Segment
<1>20. PICK x : x = Segments[t]
  OBVIOUS
<1>21. x \in Seq(Segment) /\ FedAll(x, pct) = Join(q, 0, l)
  BY <1>7, <1>20 DEF Agrees
<1>22. Segments[s] = <<g>> \o (<<h>> \o x)
  <2>1. Segments[s] = <<g, h>> \o x
    BY <1>0, <1>3, <1>17, <1>20, SegmentsStep
  <2>2. PICK G : G = Segment
    OBVIOUS
  <2>3. g \in G /\ h \in G /\ x \in Seq(G)
    BY <2>2, <1>18, <1>19, <1>21
  <2>4. <<g, h>> = <<g>> \o <<h>> /\ <<g>> \in Seq(G) /\ <<h>> \in Seq(G)
    BY <2>3, PairIsConcat
  <2> QED BY <2>1, <2>3, <2>4, ConcatAssociative
<1>23. PICK y : y = <<h>> \o x
  OBVIOUS
<1>24. y \in Seq(Segment) /\ FedAll(y, pct) = Fed(h, pct) \o FedAll(x, pct)
  BY <1>19, <1>21, <1>23, FedFront
<1>25. <<g>> \o y \in Seq(Segment) /\ FedAll(<<g>> \o y, pct) = Fed(g, pct) \o FedAll(y, pct)
  BY <1>18, <1>24, FedFront
<1> QED BY <1>7, <1>11, <1>18, <1>19, <1>21, <1>22, <1>23, <1>24, <1>25, <1>15, <1>16 DEF Agrees

\* For every text the segments say what a reading character by character says:
\* induction on the text's length.
LEMMA SegmentsRead ==
    ASSUME NEW pct \in Chars
    PROVE  \A s \in Seq(Chars) : Agrees(s, pct)
<1> DEFINE N == {n \in Nat : \A s \in Seq(Chars) : Len(s) <= n => Agrees(s, pct)}
<1>1. 0 \in N
  <2>1. \A s \in Seq(Chars) : Len(s) <= 0 => s = <<>>
    OBVIOUS
  <2> QED BY <2>1, AgreesNone
<1>2. \A n \in Nat : n \in N => n + 1 \in N
  <2> SUFFICES ASSUME NEW n \in Nat, n \in N, NEW s \in Seq(Chars), Len(s) <= n + 1 PROVE Agrees(s, pct)
    OBVIOUS
  <2>1. CASE s = <<>>
    BY <2>1, AgreesNone
  <2>2. CASE s # <<>> /\ Escapes(s) = {}
    BY <2>2, AgreesPlain
  <2>3. CASE s # <<>> /\ Escapes(s) # {}
    <3>1. PICK e : e = FirstEscape(s)
      OBVIOUS
    <3>2. e \in 1 .. Len(s) /\ Len(s) \in Nat
      BY <2>3, <3>1, FirstEscapeIs DEF Escapes
    <3>3. PICK t : t = SubSeq(s, e + 2, Len(s))
      OBVIOUS
    <3>4. t \in Seq(Chars) /\ Len(t) <= n
      BY <3>2, <3>3
    <3>5. Agrees(t, pct)
      BY <3>4
    <3> QED BY <2>3, <3>1, <3>3, <3>5, AgreesEscape
  <2> QED BY <2>1, <2>2, <2>3
<1> HIDE DEF N
<1>3. \A n \in Nat : n \in N
  BY <1>1, <1>2, InductionOnNat
<1>4. ASSUME NEW s \in Seq(Chars) PROVE Agrees(s, pct)
  <2>1. Len(s) \in Nat /\ Len(s) <= Len(s)
    OBVIOUS
  <2> QED BY <2>1, <1>3 DEF N
<1> QED BY <1>4

-----------------------------------------------------------------------------
(* The specifiers of a program *)

\* What a string is when one more character comes in front.
LEMMA FrontLonger ==
    ASSUME NEW c \in Item, NEW e \in Str
    PROVE  <<c>> \o e \in Str /\ Len(<<c>> \o e) = Len(e) + 1 /\ Len(e) \in Nat
<1>1. PICK T : T = Item
  OBVIOUS
<1>2. e \in Seq(T) /\ <<c>> \in Seq(T) /\ Len(<<c>>) = 1
  BY <1>1 DEF Str
<1>3. <<c>> \o e \in Seq(T) /\ Len(<<c>> \o e) = 1 + Len(e) /\ Len(e) \in Nat
  BY <1>2
<1> QED BY <1>1, <1>3 DEF Str

\* The same character in front of two strings can be taken off.
LEMMA FrontSame ==
    ASSUME NEW c \in Item, NEW d \in Str, NEW e \in Str
    PROVE  <<c>> \o d = <<c>> \o e <=> d = e
<1>1. PICK T : T = Item
  OBVIOUS
<1>2. c \in T /\ d \in Seq(T) /\ e \in Seq(T)
  BY <1>1 DEF Str
<1>3. Tail(<<c>> \o d) = d /\ Tail(<<c>> \o e) = e
  BY <1>2, FrontOne
<1> QED BY <1>3

Literal(s) == \A i \in DOMAIN s : ~Specifier(s, i)

\* Expanding makes no text longer, and changes it if there is a specifier.
Expands(s) == Expanded[s] \in Str /\ Len(Expanded[s]) <= Len(s) /\ (Expanded[s] = s <=> Literal(s))

\* A specifier in front: two characters become one.
LEMMA ExpandsSpecifier ==
    ASSUME NEW s \in Seq(Chars), Specifier(s, 1), s # <<>>, \A r \in Seq(Chars) : Len(r) < Len(s) => Expands(r)
    PROVE  Expands(s)
<1>1. PICK r : r = SubSeq(s, 3, Len(s))
  OBVIOUS
<1>2. Len(s) \in Nat /\ 1 < Len(s) /\ DOMAIN s = 1 .. Len(s)
  BY DEF Specifier
<1>3. r \in Seq(Chars) /\ Len(r) = Len(s) - 2
  BY <1>1, <1>2
<1>4. Expanded[r] \in Str /\ Len(Expanded[r]) <= Len(r)
  BY <1>2, <1>3 DEF Expands
<1>5. PICK e, m : e = Expanded[r] /\ m = Meaning(s[2])
  OBVIOUS
<1>6. m \in Item
  BY <1>5, Percent DEF Meaning, Item
<1>7. Expanded[s] = <<m>> \o e
  BY <1>1, <1>5, ExpandedStep
<1>8. Expanded[s] \in Str /\ Len(Expanded[s]) = Len(e) + 1 /\ Len(e) \in Nat
  BY <1>4, <1>5, <1>6, <1>7, FrontLonger
<1>9. Len(Expanded[s]) < Len(s)
  BY <1>2, <1>3, <1>4, <1>5, <1>8
<1>10. ~Literal(s)
  BY <1>2 DEF Literal
<1>11. Expanded[s] # s
  BY <1>9, <1>2
<1>12. Len(Expanded[s]) <= Len(s)
  BY <1>2, <1>8, <1>9
<1> QED BY <1>8, <1>10, <1>11, <1>12 DEF Expands

\* Any other character stays.
LEMMA ExpandsOther ==
    ASSUME NEW s \in Seq(Chars), ~Specifier(s, 1), s # <<>>, \A r \in Seq(Chars) : Len(r) < Len(s) => Expands(r)
    PROVE  Expands(s)
<1>1. PICK c, t : c = s[1] /\ t = Tail(s)
  OBVIOUS
<1>2. Len(s) \in Nat /\ 1 <= Len(s) /\ DOMAIN s = 1 .. Len(s) /\ Head(s) = s[1] /\ s[1] \in Chars
  OBVIOUS
<1>3. t \in Seq(Chars) /\ Len(t) = Len(s) - 1 /\ s = <<c>> \o t /\ DOMAIN t = 1 .. Len(t)
      /\ \A i \in 1 .. Len(t) : t[i] = s[i + 1]
  <2>1. s = <<c>> \o t
    BY <1>1, FrontOf
  <2> QED BY <2>1, <1>1, <1>2
<1>4. Expands(t)
  BY <1>2, <1>3
<1>5. PICK e : e = Expanded[t]
  OBVIOUS
<1>6. e \in Str /\ Len(e) <= Len(t) /\ (e = t <=> Literal(t))
  BY <1>4, <1>5 DEF Expands
<1>7. c \in Item /\ t \in Str
  BY <1>1, <1>2, <1>3, CharsInStr DEF Item
<1>8. Expanded[s] = <<c>> \o e
  BY <1>1, <1>2, <1>5, ExpandedStep
<1>9. Expanded[s] \in Str /\ Len(Expanded[s]) = Len(e) + 1 /\ Len(e) \in Nat
  BY <1>6, <1>7, <1>8, FrontLonger
<1>10. Expanded[s] = s <=> e = t
  BY <1>3, <1>6, <1>7, <1>8, FrontSame
<1>11. Literal(t) <=> Literal(s)
  <2>1. ASSUME NEW i \in 1 .. Len(t) PROVE Specifier(t, i) <=> Specifier(s, i + 1)
    <3>1. i < Len(t) <=> i + 1 < Len(s)
      BY <1>2, <1>3
    <3>2. t[i] = s[i + 1]
      BY <1>3
    <3>3. i < Len(t) => t[i + 1] = s[(i + 1) + 1]
      BY <1>2, <1>3
    <3> QED BY <3>1, <3>2, <3>3 DEF Specifier
  <2>2. \A i \in 1 .. Len(t) : i + 1 \in 1 .. Len(s)
    BY <1>2, <1>3
  <2>3. \A i \in 1 .. Len(s) : i = 1 \/ (i - 1 \in 1 .. Len(t) /\ (i - 1) + 1 = i)
    BY <1>2, <1>3
  <2>4. ASSUME Literal(t), NEW i \in 1 .. Len(s) PROVE ~Specifier(s, i)
    <3>1. CASE i = 1
      BY <3>1
    <3>2. ASSUME NEW j, j = i - 1, j \in 1 .. Len(t), j + 1 = i PROVE ~Specifier(s, i)
      <4>1. ~Specifier(t, j)
        BY <2>4, <3>2, <1>3 DEF Literal
      <4>2. ~Specifier(s, j + 1)
        BY <4>1, <3>2, <2>1
      <4> QED BY <4>2, <3>2
    <3> QED BY <3>1, <3>2, <2>3
  <2>5. ASSUME Literal(s), NEW i \in 1 .. Len(t) PROVE ~Specifier(t, i)
    <3>1. ~Specifier(s, i + 1)
      BY <2>2, <2>5, <1>2 DEF Literal
    <3> QED BY <3>1, <2>1
  <2> QED BY <2>4, <2>5, <1>2, <1>3 DEF Literal
<1>12. Len(Expanded[s]) <= Len(s)
  BY <1>2, <1>3, <1>6, <1>9
<1> QED BY <1>6, <1>9, <1>10, <1>11, <1>12 DEF Expands

\* By induction on the length.
LEMMA ExpandsAll == \A s \in Seq(Chars) : Expands(s)
<1> DEFINE N == {n \in Nat : \A s \in Seq(Chars) : Len(s) < n => Expands(s)}
<1>1. 0 \in N
  OBVIOUS
<1>2. \A n \in Nat : n \in N => n + 1 \in N
  <2> SUFFICES ASSUME NEW n \in Nat, n \in N, NEW s \in Seq(Chars), Len(s) < n + 1 PROVE Expands(s)
    OBVIOUS
  <2>1. \A r \in Seq(Chars) : Len(r) < Len(s) => Expands(r)
    <3> SUFFICES ASSUME NEW r \in Seq(Chars), Len(r) < Len(s) PROVE Expands(r)
      OBVIOUS
    <3>1. Len(r) \in Nat /\ Len(s) \in Nat
      OBVIOUS
    <3>2. Len(r) < n
      BY <3>1
    <3> QED BY <3>2
  <2>2. CASE s = <<>>
    <3>1. Expanded[s] = <<>> /\ Len(s) = 0
      BY <2>2, ExpandedStep
    <3>2. Literal(s)
      BY <2>2 DEF Literal
    <3> QED BY <3>1, <3>2, <2>2, StrEmpty DEF Expands
  <2>3. CASE s # <<>>
    BY <2>1, <2>3, ExpandsSpecifier, ExpandsOther
  <2> QED BY <2>2, <2>3
<1> HIDE DEF N
<1>3. \A n \in Nat : n \in N
  BY <1>1, <1>2, InductionOnNat
<1>4. ASSUME NEW s \in Seq(Chars) PROVE Expands(s)
  <2>1. Len(s) + 1 \in Nat /\ Len(s) < Len(s) + 1
    OBVIOUS
  <2> QED BY <2>1, <1>3 DEF N
<1> QED BY <1>4

-----------------------------------------------------------------------------
(* The encoder, byte by byte *)

\* The digits that are written are those of the bytes of D, three bytes four
\* digits.
Written(o, D) ==
    \A j \in Nat :
        /\ 4 * j + 1 <= Len(o) => o[4 * j + 1] = D[3 * j + 1] \div 4
        /\ 4 * j + 2 <= Len(o) => o[4 * j + 2] = (D[3 * j + 1] % 4) * 16 + D[3 * j + 2] \div 16
        /\ 4 * j + 3 <= Len(o) => o[4 * j + 3] = (D[3 * j + 2] % 16) * 4 + D[3 * j + 3] \div 64
        /\ 4 * j + 4 <= Len(o) => o[4 * j + 4] = D[3 * j + 3] % 64

\* After n bytes of D, l digits are written and z bits are held in a.
Held(D, n, k, l, z, a) ==
    \/ l = 4 * k     /\ z = 0  /\ n = 3 * k     /\ a = 0
    \/ l = 4 * k     /\ z = 8  /\ n = 3 * k + 1 /\ a = D[3 * k + 1] * 256
    \/ l = 4 * k + 1 /\ z = 2  /\ n = 3 * k + 1 /\ a = (D[3 * k + 1] % 4) * 16384
    \/ l = 4 * k + 1 /\ z = 10 /\ n = 3 * k + 2 /\ a = (D[3 * k + 1] % 4) * 16384 + D[3 * k + 2] * 64
    \/ l = 4 * k + 2 /\ z = 4  /\ n = 3 * k + 2 /\ a = (D[3 * k + 2] % 16) * 4096
    \/ l = 4 * k + 2 /\ z = 12 /\ n = 3 * k + 3 /\ a = (D[3 * k + 2] % 16) * 4096 + D[3 * k + 3] * 16
    \/ l = 4 * k + 3 /\ z = 6  /\ n = 3 * k + 3 /\ a = (D[3 * k + 3] % 64) * 1024

\* Arithmetic of a byte b that comes below the bits x.
LEMMA TakeBits ==
    ASSUME NEW b \in Nat, b < 256, NEW x \in Nat
    PROVE  /\ (0 + b * 256) % 65536 = b * 256
           /\ x < 4 => (x * 16384 + b * 64) % 65536 = x * 16384 + b * 64
           /\ x < 16 => (x * 4096 + b * 16) % 65536 = x * 4096 + b * 16
  OBVIOUS

\* Arithmetic of the six topmost bits.
LEMMA PutBits ==
    ASSUME NEW b \in Nat, b < 256, NEW x \in Nat
    PROVE  /\ (b * 256) \div 1024 = b \div 4 /\ ((b * 256) * 64) % 65536 = (b % 4) * 16384
           /\ x < 4 => /\ (x * 16384 + b * 64) \div 1024 = x * 16 + b \div 16
                       /\ ((x * 16384 + b * 64) * 64) % 65536 = (b % 16) * 4096
           /\ x < 16 => /\ (x * 4096 + b * 16) \div 1024 = x * 4 + b \div 64
                        /\ ((x * 4096 + b * 16) * 64) % 65536 = (b % 64) * 1024
           /\ x < 64 => /\ (x * 1024) \div 1024 = x
                        /\ ((x * 1024) * 64) % 65536 = 0
<1>1. (b * 256) \div 1024 = b \div 4 /\ ((b * 256) * 64) % 65536 = (b % 4) * 16384
  OBVIOUS
<1>2. ASSUME x < 4
      PROVE  /\ (x * 16384 + b * 64) \div 1024 = x * 16 + b \div 16
             /\ ((x * 16384 + b * 64) * 64) % 65536 = (b % 16) * 4096
  BY <1>2
<1>3. ASSUME x < 16
      PROVE  /\ (x * 4096 + b * 16) \div 1024 = x * 4 + b \div 64
             /\ ((x * 4096 + b * 16) * 64) % 65536 = (b % 64) * 1024
  BY <1>3
<1>4. ASSUME x < 64 PROVE (x * 1024) \div 1024 = x /\ ((x * 1024) * 64) % 65536 = 0
  BY <1>4
<1> QED BY <1>1, <1>2, <1>3, <1>4

\* A byte of the data.
LEMMA ByteAt ==
    ASSUME NEW D \in Seq(Byte), NEW i \in 1 .. Len(D)
    PROVE  D[i] \in Nat /\ D[i] < 256
<1>1. D[i] \in Byte
  BY ElementOfSeq
<1> QED BY <1>1 DEF Byte

\* A byte taken is held below what was held before.
LEMMA TakeHeld ==
    ASSUME NEW D \in Seq(Byte), NEW n \in Nat, n < Len(D), NEW k \in Nat, NEW l \in Nat, NEW z, NEW a,
           Held(D, n, k, l, z, a), z < 6
    PROVE  Held(D, n + 1, k, l, z + 8, (a + D[n + 1] * Pow2(8 - z)) % 65536)
<1>1. Len(D) \in Nat
  OBVIOUS
<1>2. PICK b : b = D[n + 1]
  OBVIOUS
<1>3. b \in Nat /\ b < 256
  <2>1. n + 1 \in 1 .. Len(D)
    BY <1>1
  <2> QED BY <2>1, <1>2, ByteAt
<1>4. CASE l = 4 * k /\ z = 0  /\ n = 3 * k /\ a = 0
  <2>1. Pow2(8 - z) = 256
    BY <1>4 DEF Pow2
  <2>2. (0 + b * 256) % 65536 = b * 256
    BY <1>3, TakeBits
  <2>3. (a + b * Pow2(8 - z)) % 65536 = b * 256
    BY <1>4, <2>1, <2>2
  <2>4. b = D[3 * k + 1] /\ z + 8 = 8 /\ n + 1 = 3 * k + 1
    BY <1>2, <1>4
  <2>5. (a + D[n + 1] * Pow2(8 - z)) % 65536 = D[3 * k + 1] * 256
    BY <2>3, <2>4, <1>2
  <2> QED BY <2>4, <2>5, <1>4 DEF Held
<1>5. CASE l = 4 * k + 1 /\ z = 2  /\ n = 3 * k + 1 /\ a = (D[3 * k + 1] % 4) * 16384
  <2>1. Pow2(8 - z) = 64
    BY <1>5 DEF Pow2
  <2>2. 3 * k + 1 \in 1 .. Len(D) /\ (3 * k + 1) + 1 = 3 * k + 2
    BY <1>1, <1>5
  <2>3. PICK x : x = D[3 * k + 1] % 4
    OBVIOUS
  <2>4. x \in Nat /\ x < 4
    BY <2>2, <2>3, ByteAt
  <2>5. (a + b * Pow2(8 - z)) % 65536 = x * 16384 + b * 64
    <3>1. (x * 16384 + b * 64) % 65536 = x * 16384 + b * 64
      BY <2>4, <1>3, TakeBits
    <3>2. a = x * 16384
      BY <1>5, <2>3
    <3> QED BY <3>1, <3>2, <2>1
  <2>6. (a + D[n + 1] * Pow2(8 - z)) % 65536 = (D[3 * k + 1] % 4) * 16384 + D[3 * k + 2] * 64
    BY <2>2, <2>3, <2>5, <1>2, <1>5
  <2>7. n + 1 = 3 * k + 2 /\ z + 8 = 10
    BY <2>2, <1>5
  <2> QED BY <2>6, <2>7, <1>5 DEF Held
<1>6. CASE l = 4 * k + 2 /\ z = 4  /\ n = 3 * k + 2 /\ a = (D[3 * k + 2] % 16) * 4096
  <2>1. Pow2(8 - z) = 16
    BY <1>6 DEF Pow2
  <2>2. 3 * k + 2 \in 1 .. Len(D) /\ (3 * k + 2) + 1 = 3 * k + 3
    BY <1>1, <1>6
  <2>3. PICK x : x = D[3 * k + 2] % 16
    OBVIOUS
  <2>4. x \in Nat /\ x < 16
    BY <2>2, <2>3, ByteAt
  <2>5. (a + b * Pow2(8 - z)) % 65536 = x * 4096 + b * 16
    <3>1. (x * 4096 + b * 16) % 65536 = x * 4096 + b * 16
      BY <2>4, <1>3, TakeBits
    <3>2. a = x * 4096
      BY <1>6, <2>3
    <3> QED BY <3>1, <3>2, <2>1
  <2>6. (a + D[n + 1] * Pow2(8 - z)) % 65536 = (D[3 * k + 2] % 16) * 4096 + D[3 * k + 3] * 16
    BY <2>2, <2>3, <2>5, <1>2, <1>6
  <2>7. n + 1 = 3 * k + 3 /\ z + 8 = 12
    BY <2>2, <1>6
  <2> QED BY <2>6, <2>7, <1>6 DEF Held
<1> QED BY <1>4, <1>5, <1>6 DEF Held

\* The digit that is written next.
NextDigit(D, k, l, a) ==
    \/ l = 4 * k     /\ a \div 1024 = D[3 * k + 1] \div 4
    \/ l = 4 * k + 1 /\ a \div 1024 = (D[3 * k + 1] % 4) * 16 + D[3 * k + 2] \div 16
    \/ l = 4 * k + 2 /\ a \div 1024 = (D[3 * k + 2] % 16) * 4 + D[3 * k + 3] \div 64
    \/ l = 4 * k + 3 /\ a \div 1024 = D[3 * k + 3] % 64

\* Once a digit is written, the rest of the bits is held.
LEMMA PutHeld ==
    ASSUME NEW D \in Seq(Byte), NEW n \in Nat, n <= Len(D), NEW k \in Nat, NEW l \in Nat, NEW z, NEW a,
           Held(D, n, k, l, z, a), z >= 6
    PROVE  /\ NextDigit(D, k, l, a)
           /\ \E j \in Nat : Held(D, n, j, l + 1, z - 6, (a * 64) % 65536)
<1>1. Len(D) \in Nat
  OBVIOUS
<1>2. CASE l = 4 * k /\ z = 8 /\ n = 3 * k + 1 /\ a = D[3 * k + 1] * 256
  <2>1. 3 * k + 1 \in 1 .. Len(D)
    BY <1>1, <1>2
  <2>2. PICK b : b = D[3 * k + 1]
    OBVIOUS
  <2>3. b \in Nat /\ b < 256
    BY <2>1, <2>2, ByteAt
  <2>4. PICK x : x = 0
    OBVIOUS
  <2>5. x \in Nat
    BY <2>4
  <2>6. (b * 256) \div 1024 = b \div 4 /\ ((b * 256) * 64) % 65536 = (b % 4) * 16384
    BY <2>3, <2>5, PutBits
  <2>7. a = b * 256
    BY <1>2, <2>2, <2>4
  <2>8. a \div 1024 = D[3 * k + 1] \div 4 /\ (a * 64) % 65536 = (D[3 * k + 1] % 4) * 16384
    BY <2>2, <2>4, <2>6, <2>7
  <2>9. l = 4 * k /\ l + 1 = 4 * k + 1 /\ z - 6 = 2 /\ n = 3 * k + 1
    BY <1>2
  <2>10. NextDigit(D, k, l, a)
    BY <2>8, <2>9 DEF NextDigit
  <2>11. Held(D, n, k, l + 1, z - 6, (a * 64) % 65536)
    BY <2>8, <2>9 DEF Held
  <2> QED BY <2>10, <2>11
<1>3. CASE l = 4 * k + 1 /\ z = 10 /\ n = 3 * k + 2 /\ a = (D[3 * k + 1] % 4) * 16384 + D[3 * k + 2] * 64
  <2>1. 3 * k + 1 \in 1 .. Len(D) /\ 3 * k + 2 \in 1 .. Len(D)
    BY <1>1, <1>3
  <2>2. PICK b : b = D[3 * k + 2]
    OBVIOUS
  <2>3. b \in Nat /\ b < 256
    BY <2>1, <2>2, ByteAt
  <2>4. PICK x : x = D[3 * k + 1] % 4
    OBVIOUS
  <2>5. x \in Nat /\ x < 4
    BY <2>1, <2>4, ByteAt, SMTT(30)
  <2>6. (x * 16384 + b * 64) \div 1024 = x * 16 + b \div 16 /\ ((x * 16384 + b * 64) * 64) % 65536 = (b % 16) * 4096
    BY <2>3, <2>5, PutBits
  <2>7. a = x * 16384 + b * 64
    BY <1>3, <2>2, <2>4
  <2>8. a \div 1024 = (D[3 * k + 1] % 4) * 16 + D[3 * k + 2] \div 16 /\ (a * 64) % 65536 = (D[3 * k + 2] % 16) * 4096
    BY <2>2, <2>4, <2>6, <2>7
  <2>9. l = 4 * k + 1 /\ l + 1 = 4 * k + 2 /\ z - 6 = 4 /\ n = 3 * k + 2
    BY <1>3
  <2>10. NextDigit(D, k, l, a)
    BY <2>8, <2>9 DEF NextDigit
  <2>11. Held(D, n, k, l + 1, z - 6, (a * 64) % 65536)
    BY <2>8, <2>9 DEF Held
  <2> QED BY <2>10, <2>11
<1>4. CASE l = 4 * k + 2 /\ z = 12 /\ n = 3 * k + 3 /\ a = (D[3 * k + 2] % 16) * 4096 + D[3 * k + 3] * 16
  <2>1. 3 * k + 2 \in 1 .. Len(D) /\ 3 * k + 3 \in 1 .. Len(D)
    BY <1>1, <1>4
  <2>2. PICK b : b = D[3 * k + 3]
    OBVIOUS
  <2>3. b \in Nat /\ b < 256
    BY <2>1, <2>2, ByteAt
  <2>4. PICK x : x = D[3 * k + 2] % 16
    OBVIOUS
  <2>5. x \in Nat /\ x < 16
    BY <2>1, <2>4, ByteAt
  <2>6. (x * 4096 + b * 16) \div 1024 = x * 4 + b \div 64 /\ ((x * 4096 + b * 16) * 64) % 65536 = (b % 64) * 1024
    BY <2>3, <2>5, PutBits
  <2>7. a = x * 4096 + b * 16
    BY <1>4, <2>2, <2>4
  <2>8. a \div 1024 = (D[3 * k + 2] % 16) * 4 + D[3 * k + 3] \div 64 /\ (a * 64) % 65536 = (D[3 * k + 3] % 64) * 1024
    BY <2>2, <2>4, <2>6, <2>7
  <2>9. l = 4 * k + 2 /\ l + 1 = 4 * k + 3 /\ z - 6 = 6 /\ n = 3 * k + 3
    BY <1>4
  <2>10. NextDigit(D, k, l, a)
    BY <2>8, <2>9 DEF NextDigit
  <2>11. Held(D, n, k, l + 1, z - 6, (a * 64) % 65536)
    BY <2>8, <2>9 DEF Held
  <2> QED BY <2>10, <2>11
<1>5. CASE l = 4 * k + 3 /\ z = 6 /\ n = 3 * k + 3 /\ a = (D[3 * k + 3] % 64) * 1024
  <2>1. 3 * k + 3 \in 1 .. Len(D)
    BY <1>1, <1>5
  <2>2. PICK b : b = 0
    OBVIOUS
  <2>3. b \in Nat /\ b < 256
    BY <2>2
  <2>4. PICK x : x = D[3 * k + 3] % 64
    OBVIOUS
  <2>5. x \in Nat /\ x < 64
    BY <2>1, <2>4, ByteAt
  <2>6. (x * 1024) \div 1024 = x /\ ((x * 1024) * 64) % 65536 = 0
    BY <2>3, <2>5, PutBits
  <2>7. a = x * 1024
    BY <1>5, <2>2, <2>4
  <2>8. a \div 1024 = D[3 * k + 3] % 64 /\ (a * 64) % 65536 = 0
    BY <2>2, <2>4, <2>6, <2>7
  <2>9. l = 4 * k + 3 /\ l + 1 = 4 * k + 4 /\ z - 6 = 0 /\ n = 3 * k + 3
    BY <1>5
  <2>10. NextDigit(D, k, l, a)
    BY <2>8, <2>9 DEF NextDigit
  <2>11. l + 1 = 4 * (k + 1) /\ n = 3 * (k + 1) /\ k + 1 \in Nat
    BY <2>9
  <2>12. Held(D, n, k + 1, l + 1, z - 6, (a * 64) % 65536)
    BY <2>8, <2>9, <2>11 DEF Held
  <2> QED BY <2>10, <2>11, <2>12
<1> QED BY <1>2, <1>3, <1>4, <1>5 DEF Held

Puts(D, k, a, o, d, l, p) ==
    /\ k \in Nat /\ o \in Seq(Symbol) /\ d \in Symbol /\ d = a \div 1024
    /\ l = Len(o) /\ p = Append(o, d) /\ Written(o, D) /\ NextDigit(D, k, l, a)

\* And the digit is the next one of the data.
LEMMA PutWritten ==
    ASSUME NEW D, NEW k, NEW a, NEW o, NEW d, NEW l, NEW p, Puts(D, k, a, o, d, l, p)
    PROVE  Written(p, D)
<1> USE DEF Puts
<1>1. l \in Nat /\ Len(p) = l + 1 /\ p[l + 1] = d /\ \A i \in 1 .. l : p[i] = o[i]
  BY AppendProperties
<1>0. l = 4 * k \/ l = 4 * k + 1 \/ l = 4 * k + 2 \/ l = 4 * k + 3
  BY DEF NextDigit
<1> SUFFICES ASSUME NEW j \in Nat
             PROVE  /\ 4 * j + 1 <= Len(p) => p[4 * j + 1] = D[3 * j + 1] \div 4
                    /\ 4 * j + 2 <= Len(p) => p[4 * j + 2] = (D[3 * j + 1] % 4) * 16 + D[3 * j + 2] \div 16
                    /\ 4 * j + 3 <= Len(p) => p[4 * j + 3] = (D[3 * j + 2] % 16) * 4 + D[3 * j + 3] \div 64
                    /\ 4 * j + 4 <= Len(p) => p[4 * j + 4] = D[3 * j + 3] % 64
  BY DEF Written
<1>2. /\ 4 * j + 1 <= l => o[4 * j + 1] = D[3 * j + 1] \div 4
      /\ 4 * j + 2 <= l => o[4 * j + 2] = (D[3 * j + 1] % 4) * 16 + D[3 * j + 2] \div 16
      /\ 4 * j + 3 <= l => o[4 * j + 3] = (D[3 * j + 2] % 16) * 4 + D[3 * j + 3] \div 64
      /\ 4 * j + 4 <= l => o[4 * j + 4] = D[3 * j + 3] % 64
  BY DEF Written
<1>3. 4 * j + 1 <= Len(p) => p[4 * j + 1] = D[3 * j + 1] \div 4
  <2> SUFFICES ASSUME 4 * j + 1 <= Len(p) PROVE p[4 * j + 1] = D[3 * j + 1] \div 4
    OBVIOUS
  <2>1. CASE 4 * j + 1 <= l
    <3>1. 4 * j + 1 \in 1 .. l
      BY <1>1, <2>1
    <3> QED BY <2>1, <3>1, <1>1, <1>2
  <2>2. CASE ~(4 * j + 1 <= l)
    <3>1. 4 * j + 1 = l + 1
      BY <1>1, <2>2
    <3>2. j = k /\ l = 4 * k + 0 /\ l # 4 * k + 1 /\ l # 4 * k + 2 /\ l # 4 * k + 3
      BY <3>1, <1>0, <1>1
    <3>3. d = D[3 * j + 1] \div 4
      BY <3>2 DEF NextDigit
    <3> QED BY <3>1, <3>3, <1>1
  <2> QED BY <2>1, <2>2
<1>4. 4 * j + 2 <= Len(p) => p[4 * j + 2] = (D[3 * j + 1] % 4) * 16 + D[3 * j + 2] \div 16
  <2> SUFFICES ASSUME 4 * j + 2 <= Len(p) PROVE p[4 * j + 2] = (D[3 * j + 1] % 4) * 16 + D[3 * j + 2] \div 16
    OBVIOUS
  <2>1. CASE 4 * j + 2 <= l
    <3>1. 4 * j + 2 \in 1 .. l
      BY <1>1, <2>1
    <3> QED BY <2>1, <3>1, <1>1, <1>2
  <2>2. CASE ~(4 * j + 2 <= l)
    <3>1. 4 * j + 2 = l + 1
      BY <1>1, <2>2, SMTT(30)
    <3>2. j = k /\ l = 4 * k + 1 /\ l # 4 * k + 2 /\ l # 4 * k + 3 /\ l # 4 * k + 0
      BY <3>1, <1>0, <1>1
    <3>3. d = (D[3 * j + 1] % 4) * 16 + D[3 * j + 2] \div 16
      BY <3>2 DEF NextDigit
    <3> QED BY <3>1, <3>3, <1>1
  <2> QED BY <2>1, <2>2
<1>5. 4 * j + 3 <= Len(p) => p[4 * j + 3] = (D[3 * j + 2] % 16) * 4 + D[3 * j + 3] \div 64
  <2> SUFFICES ASSUME 4 * j + 3 <= Len(p) PROVE p[4 * j + 3] = (D[3 * j + 2] % 16) * 4 + D[3 * j + 3] \div 64
    OBVIOUS
  <2>1. CASE 4 * j + 3 <= l
    <3>1. 4 * j + 3 \in 1 .. l
      BY <1>1, <2>1
    <3> QED BY <2>1, <3>1, <1>1, <1>2
  <2>2. CASE ~(4 * j + 3 <= l)
    <3>1. 4 * j + 3 = l + 1
      BY <1>1, <2>2, SMTT(30)
    <3>2. j = k /\ l = 4 * k + 2 /\ l # 4 * k + 3 /\ l # 4 * k + 0 /\ l # 4 * k + 1
      BY <3>1, <1>0, <1>1
    <3>3. d = (D[3 * j + 2] % 16) * 4 + D[3 * j + 3] \div 64
      BY <3>2 DEF NextDigit
    <3> QED BY <3>1, <3>3, <1>1
  <2> QED BY <2>1, <2>2
<1>6. 4 * j + 4 <= Len(p) => p[4 * j + 4] = D[3 * j + 3] % 64
  <2> SUFFICES ASSUME 4 * j + 4 <= Len(p) PROVE p[4 * j + 4] = D[3 * j + 3] % 64
    OBVIOUS
  <2>1. CASE 4 * j + 4 <= l
    <3>1. 4 * j + 4 \in 1 .. l
      BY <1>1, <2>1
    <3> QED BY <2>1, <3>1, <1>1, <1>2
  <2>2. CASE ~(4 * j + 4 <= l)
    <3>1. 4 * j + 4 = l + 1
      BY <1>1, <2>2
    <3>2. j = k /\ l = 4 * k + 3 /\ l # 4 * k + 0 /\ l # 4 * k + 1 /\ l # 4 * k + 2
      BY <3>1, <1>0, <1>1
    <3>3. d = D[3 * j + 3] % 64
      BY <3>2 DEF NextDigit
    <3> QED BY <3>1, <3>3, <1>1
  <2> QED BY <2>1, <2>2
<1> QED BY <1>3, <1>4, <1>5, <1>6

-----------------------------------------------------------------------------
(* What systemd decodes *)

\* Arithmetic of bytes cut after two, four and six bits.
LEMMA SplitBits ==
    ASSUME NEW y \in Nat, y < 256, NEW x \in Nat
    PROVE  /\ y = (y \div 4) * 4 + (y % 4) /\ y = (y \div 16) * 16 + (y % 16) /\ y = (y \div 64) * 64 + (y % 64)
           /\ (x * 16 + y \div 16) \div 16 = x /\ (x * 16 + y \div 16) % 16 = y \div 16
           /\ (x * 4 + y \div 64) \div 4 = x /\ (x * 4 + y \div 64) % 4 = y \div 64
           /\ (x * 16) \div 16 = x /\ (x * 4) \div 4 = x
<1>1. y = (y \div 4) * 4 + (y % 4) /\ y = (y \div 16) * 16 + (y % 16) /\ y = (y \div 64) * 64 + (y % 64)
  <2>1. y = (y \div 4) * 4 + (y % 4)
    OBVIOUS
  <2>2. y = (y \div 16) * 16 + (y % 16)
    OBVIOUS
  <2>3. y = (y \div 64) * 64 + (y % 64)
    OBVIOUS
  <2> QED BY <2>1, <2>2, <2>3
<1>2. (x * 16 + y \div 16) \div 16 = x /\ (x * 16 + y \div 16) % 16 = y \div 16
  <2>1. PICK t : t = y \div 16
    OBVIOUS
  <2>2. t \in Nat /\ t < 16
    BY <2>1
  <2>3. (x * 16 + t) \div 16 = x /\ (x * 16 + t) % 16 = t
    BY <2>2
  <2> QED BY <2>1, <2>3
<1>3. (x * 4 + y \div 64) \div 4 = x /\ (x * 4 + y \div 64) % 4 = y \div 64
  <2>1. PICK t : t = y \div 64
    OBVIOUS
  <2>2. t \in Nat /\ t < 4
    BY <2>1
  <2>3. (x * 4 + t) \div 4 = x /\ (x * 4 + t) % 4 = t
    BY <2>2
  <2> QED BY <2>1, <2>3
<1>4. (x * 16) \div 16 = x /\ (x * 4) \div 4 = x
  OBVIOUS
<1> QED BY <1>1, <1>2, <1>3, <1>4

\* The digits of d hold all bits of the bytes of D.
Holds1(d, D, j) == d[4 * j + 1] = D[3 * j + 1] \div 4 /\ d[4 * j + 2] \div 16 = D[3 * j + 1] % 4
Holds2(d, D, j) == d[4 * j + 2] % 16 = D[3 * j + 2] \div 16 /\ d[4 * j + 3] \div 4 = D[3 * j + 2] % 16
Holds3(d, D, j) == d[4 * j + 3] % 4 = D[3 * j + 3] \div 64 /\ d[4 * j + 4] = D[3 * j + 3] % 64

Full(d, D) ==
    /\ (Len(d) * 6) \div 8 = Len(D)
    /\ \A j \in Nat :
        /\ 3 * j + 1 <= Len(D) => Holds1(d, D, j)
        /\ 3 * j + 2 <= Len(D) => Holds2(d, D, j)
        /\ 3 * j + 3 <= Len(D) => Holds3(d, D, j)

\* Digits that hold every byte decode to the data.
LEMMA BytesOfFull ==
    ASSUME NEW d, NEW D \in Seq(Byte), Full(d, D)
    PROVE  Bytes(d) = D
<1>1. Len(D) \in Nat /\ (Len(d) * 6) \div 8 = Len(D) /\ DOMAIN D = 1 .. Len(D) /\ D = [i \in 1 .. Len(D) |-> D[i]]
  BY DEF Full
<1> DEFINE G(k) == LET n == 4 * ((k - 1) \div 3)
                   IN  CASE k % 3 = 1 -> d[n + 1] * 4 + d[n + 2] \div 16
                         [] k % 3 = 2 -> (d[n + 2] % 16) * 16 + d[n + 3] \div 4
                         [] k % 3 = 0 -> (d[n + 3] % 4) * 64 + d[n + 4]
<1>2. \A k \in 1 .. Len(D) : G(k) = D[k]
  <2> SUFFICES ASSUME NEW k \in 1 .. Len(D) PROVE G(k) = D[k]
    OBVIOUS
  <2>1. PICK j : j = (k - 1) \div 3
    OBVIOUS
  <2>2. j \in Nat /\ k \in Nat /\ k <= Len(D)
    BY <1>1, <2>1
  <2>3. D[k] \in Nat /\ D[k] < 256
    BY ByteAt
  <2>4. CASE k % 3 = 1
    <3>1. k = 3 * j + 1 /\ k % 3 # 2 /\ k % 3 # 0
      BY <2>1, <2>2, <2>4
    <3>2. Holds1(d, D, j)
      BY <2>2, <3>1 DEF Full
    <3>3. D[k] = (D[k] \div 4) * 4 + (D[k] % 4)
      BY <2>3, SplitBits
    <3>4. G(k) = d[4 * j + 1] * 4 + d[4 * j + 2] \div 16
      BY <2>1, <3>1, <2>4
    <3> HIDE DEF G
    <3>5. d[4 * j + 1] = D[k] \div 4 /\ d[4 * j + 2] \div 16 = D[k] % 4
      BY <3>1, <3>2 DEF Holds1
    <3> QED BY <3>3, <3>4, <3>5
  <2>5. CASE k % 3 = 2
    <3>1. k = 3 * j + 2 /\ k % 3 # 1 /\ k % 3 # 0
      BY <2>1, <2>2, <2>5
    <3>2. Holds2(d, D, j)
      BY <2>2, <3>1 DEF Full
    <3>3. D[k] = (D[k] \div 16) * 16 + (D[k] % 16)
      BY <2>3, SplitBits
    <3>4. G(k) = (d[4 * j + 2] % 16) * 16 + d[4 * j + 3] \div 4
      BY <2>1, <3>1, <2>5
    <3> HIDE DEF G
    <3>5. d[4 * j + 2] % 16 = D[k] \div 16 /\ d[4 * j + 3] \div 4 = D[k] % 16
      BY <3>1, <3>2 DEF Holds2
    <3> QED BY <3>3, <3>4, <3>5
  <2>6. CASE k % 3 = 0
    <3>1. k = 3 * j + 3 /\ k % 3 # 1 /\ k % 3 # 2
      BY <2>1, <2>2, <2>6
    <3>2. Holds3(d, D, j)
      BY <2>2, <3>1 DEF Full
    <3>3. D[k] = (D[k] \div 64) * 64 + (D[k] % 64)
      BY <2>3, SplitBits
    <3>4. G(k) = (d[4 * j + 3] % 4) * 64 + d[4 * j + 4]
      BY <2>1, <3>1, <2>6
    <3> HIDE DEF G
    <3>5. d[4 * j + 3] % 4 = D[k] \div 64 /\ d[4 * j + 4] = D[k] % 64
      BY <3>1, <3>2 DEF Holds3
    <3> QED BY <3>3, <3>4, <3>5
  <2>7. k % 3 = 0 \/ k % 3 = 1 \/ k % 3 = 2
    BY <2>2
  <2> QED BY <2>4, <2>5, <2>6, <2>7
<1>3. Bytes(d) = [k \in 1 .. Len(D) |-> G(k)]
  BY <1>1 DEF Bytes
<1> HIDE DEF G
<1>4. [k \in 1 .. Len(D) |-> G(k)] = [k \in 1 .. Len(D) |-> D[k]]
  BY <1>2
<1> QED BY <1>1, <1>3, <1>4

\* Whole groups.
Digit1(o, D, j) == o[4 * j + 1] = D[3 * j + 1] \div 4
Digit2(o, D, j) == o[4 * j + 2] = (D[3 * j + 1] % 4) * 16 + D[3 * j + 2] \div 16
Digit3(o, D, j) == o[4 * j + 3] = (D[3 * j + 2] % 16) * 4 + D[3 * j + 3] \div 64
Digit4(o, D, j) == o[4 * j + 4] = D[3 * j + 3] % 64

\* The digits of one group.
LEMMA WrittenDigits ==
    ASSUME NEW o, NEW D, Written(o, D), NEW j \in Nat
    PROVE  /\ 4 * j + 1 <= Len(o) => Digit1(o, D, j)
           /\ 4 * j + 2 <= Len(o) => Digit2(o, D, j)
           /\ 4 * j + 3 <= Len(o) => Digit3(o, D, j)
           /\ 4 * j + 4 <= Len(o) => Digit4(o, D, j)
  BY DEF Written, Digit1, Digit2, Digit3, Digit4

\* Whole digits hold the bytes of their group.
LEMMA DigitsHold ==
    ASSUME NEW o, NEW D \in Seq(Byte), NEW j \in Nat
    PROVE  /\ Digit1(o, D, j) /\ Digit2(o, D, j) /\ 3 * j + 2 <= Len(D) => Holds1(o, D, j)
           /\ Digit2(o, D, j) /\ Digit3(o, D, j) /\ 3 * j + 3 <= Len(D) => Holds2(o, D, j)
           /\ Digit3(o, D, j) /\ Digit4(o, D, j) /\ 3 * j + 3 <= Len(D) => Holds3(o, D, j)
<1>0. Len(D) \in Nat
  OBVIOUS
<1>1. ASSUME Digit1(o, D, j), Digit2(o, D, j), 3 * j + 2 <= Len(D) PROVE Holds1(o, D, j)
  <2>1. 3 * j + 1 \in 1 .. Len(D) /\ 3 * j + 2 \in 1 .. Len(D)
    BY <1>0, <1>1
  <2>2. PICK x, y : x = D[3 * j + 1] % 4 /\ y = D[3 * j + 2]
    OBVIOUS
  <2>3. x \in Nat /\ y \in Nat /\ y < 256
    BY <2>1, <2>2, ByteAt
  <2>4. (x * 16 + y \div 16) \div 16 = x
    BY <2>3, SplitBits
  <2>5. o[4 * j + 2] = x * 16 + y \div 16
    BY <1>1, <2>2 DEF Digit2
  <2> QED BY <1>1, <2>2, <2>4, <2>5 DEF Digit1, Holds1
<1>2. ASSUME Digit2(o, D, j), Digit3(o, D, j), 3 * j + 3 <= Len(D) PROVE Holds2(o, D, j)
  <2>1. 3 * j + 1 \in 1 .. Len(D) /\ 3 * j + 2 \in 1 .. Len(D) /\ 3 * j + 3 \in 1 .. Len(D)
    BY <1>0, <1>2
  <2>2. PICK x, y, u, v : x = D[3 * j + 1] % 4 /\ y = D[3 * j + 2] /\ u = D[3 * j + 2] % 16 /\ v = D[3 * j + 3]
    OBVIOUS
  <2>3. x \in Nat /\ y \in Nat /\ y < 256 /\ u \in Nat /\ v \in Nat /\ v < 256
    <3>1. D[3 * j + 1] \in Nat /\ D[3 * j + 2] \in Nat /\ D[3 * j + 2] < 256
      BY <2>1, ByteAt
    <3>2. D[3 * j + 3] \in Nat /\ D[3 * j + 3] < 256
      BY <2>1, ByteAt
    <3>3. x \in Nat /\ y \in Nat /\ y < 256
      BY <3>1, <2>2, SMTT(30)
    <3>4. u \in Nat
      BY <3>1, <2>2, SMTT(30)
    <3>5. v \in Nat /\ v < 256
      BY <3>2, <2>2
    <3> QED BY <3>3, <3>4, <3>5
  <2>4. (x * 16 + y \div 16) % 16 = y \div 16 /\ (u * 4 + v \div 64) \div 4 = u
    BY <2>3, SplitBits
  <2>5. o[4 * j + 2] = x * 16 + y \div 16 /\ o[4 * j + 3] = u * 4 + v \div 64
    BY <1>2, <2>2 DEF Digit2, Digit3
  <2> QED BY <2>2, <2>4, <2>5 DEF Holds2
<1>3. ASSUME Digit3(o, D, j), Digit4(o, D, j), 3 * j + 3 <= Len(D) PROVE Holds3(o, D, j)
  <2>1. 3 * j + 2 \in 1 .. Len(D) /\ 3 * j + 3 \in 1 .. Len(D)
    BY <1>0, <1>3
  <2>2. PICK u, v : u = D[3 * j + 2] % 16 /\ v = D[3 * j + 3]
    OBVIOUS
  <2>3. u \in Nat /\ v \in Nat /\ v < 256
    BY <2>1, <2>2, ByteAt
  <2>4. (u * 4 + v \div 64) % 4 = v \div 64
    BY <2>3, SplitBits
  <2>5. o[4 * j + 3] = u * 4 + v \div 64
    BY <1>3, <2>2 DEF Digit3
  <2> QED BY <1>3, <2>2, <2>4, <2>5 DEF Digit4, Holds3
<1> QED BY <1>1, <1>2, <1>3

\* Whole groups hold all of the data.
LEMMA FullGroups ==
    ASSUME NEW o \in Seq(Symbol), NEW D \in Seq(Byte), Written(o, D), NEW k \in Nat,
           Len(o) = 4 * k, Len(D) = 3 * k
    PROVE  Full(o, D)
<1>1. (Len(o) * 6) \div 8 = Len(D)
  OBVIOUS
<1>2. ASSUME NEW j \in Nat
      PROVE  /\ 3 * j + 1 <= Len(D) => Holds1(o, D, j)
             /\ 3 * j + 2 <= Len(D) => Holds2(o, D, j)
             /\ 3 * j + 3 <= Len(D) => Holds3(o, D, j)
  <2> SUFFICES ASSUME 3 * j + 1 <= Len(D) PROVE Holds1(o, D, j) /\ Holds2(o, D, j) /\ Holds3(o, D, j)
    OBVIOUS
  <2>1. j < k
    OBVIOUS
  <2>2. 4 * j + 4 <= Len(o) /\ 3 * j + 3 <= Len(D) /\ 3 * j + 2 <= Len(D)
        /\ 4 * j + 1 <= Len(o) /\ 4 * j + 2 <= Len(o) /\ 4 * j + 3 <= Len(o)
    BY <2>1
  <2>3. Digit1(o, D, j) /\ Digit2(o, D, j) /\ Digit3(o, D, j) /\ Digit4(o, D, j)
    BY <2>2, WrittenDigits
  <2> QED BY <2>2, <2>3, DigitsHold
<1> QED BY <1>1, <1>2 DEF Full

\* The last group is not whole: the bits left are the top of one more digit.
Partial(o, D, k, e, d) ==
    /\ o \in Seq(Symbol) /\ D \in Seq(Byte) /\ k \in Nat /\ e \in Symbol
    /\ Written(o, D) /\ d = Append(o, e)
    /\ \/ Len(o) = 4 * k + 1 /\ Len(D) = 3 * k + 1 /\ e = (D[3 * k + 1] % 4) * 16
       \/ Len(o) = 4 * k + 2 /\ Len(D) = 3 * k + 2 /\ e = (D[3 * k + 2] % 16) * 4

\* So they do when the last group has one or two bytes, and a last digit for the
\* bits left.
LEMMA FullPartial ==
    ASSUME NEW o, NEW D, NEW k, NEW e, NEW d, Partial(o, D, k, e, d)
    PROVE  Full(d, D)
<1> USE DEF Partial
<1>0. PICK l : l = Len(o)
  OBVIOUS
<1>1. l \in Nat /\ Len(d) = l + 1 /\ d[l + 1] = e /\ \A i \in 1 .. l : d[i] = o[i]
  BY <1>0, AppendProperties
<1>a. Len(D) \in Nat
  OBVIOUS
<1>b. \/ l = 4 * k + 1 /\ Len(D) = 3 * k + 1
      \/ l = 4 * k + 2 /\ Len(D) = 3 * k + 2
  BY <1>0
<1>2. (Len(d) * 6) \div 8 = Len(D)
  <2>1. \/ Len(d) = 4 * k + 2 /\ Len(D) = 3 * k + 1
        \/ Len(d) = 4 * k + 3 /\ Len(D) = 3 * k + 2
    BY <1>1, <1>b
  <2>2. ((4 * k + 2) * 6) \div 8 = 3 * k + 1 /\ ((4 * k + 3) * 6) \div 8 = 3 * k + 2
    OBVIOUS
  <2> QED BY <2>1, <2>2
<1>3. ASSUME NEW j \in Nat
      PROVE  /\ 4 * j + 1 <= l => Digit1(d, D, j)
             /\ 4 * j + 2 <= l => Digit2(d, D, j)
             /\ 4 * j + 3 <= l => Digit3(d, D, j)
             /\ 4 * j + 4 <= l => Digit4(d, D, j)
  <2>1. /\ 4 * j + 1 <= l => Digit1(o, D, j) /\ d[4 * j + 1] = o[4 * j + 1]
        /\ 4 * j + 2 <= l => Digit2(o, D, j) /\ d[4 * j + 2] = o[4 * j + 2]
        /\ 4 * j + 3 <= l => Digit3(o, D, j) /\ d[4 * j + 3] = o[4 * j + 3]
        /\ 4 * j + 4 <= l => Digit4(o, D, j) /\ d[4 * j + 4] = o[4 * j + 4]
    <3>1. /\ 4 * j + 1 <= l => 4 * j + 1 \in 1 .. l
          /\ 4 * j + 2 <= l => 4 * j + 2 \in 1 .. l
          /\ 4 * j + 3 <= l => 4 * j + 3 \in 1 .. l
          /\ 4 * j + 4 <= l => 4 * j + 4 \in 1 .. l
      BY <1>1
    <3> QED BY <3>1, <1>0, <1>1, WrittenDigits
  <2> QED BY <2>1 DEF Digit1, Digit2, Digit3, Digit4
<1>4. ASSUME NEW j \in Nat, j < k
      PROVE  Holds1(d, D, j) /\ Holds2(d, D, j) /\ Holds3(d, D, j)
  <2>1. /\ 4 * j + 1 <= l /\ 4 * j + 2 <= l /\ 4 * j + 3 <= l /\ 4 * j + 4 <= l
        /\ 3 * j + 2 <= Len(D) /\ 3 * j + 3 <= Len(D)
    BY <1>4, <1>b
  <2>2. Digit1(d, D, j) /\ Digit2(d, D, j) /\ Digit3(d, D, j) /\ Digit4(d, D, j)
    BY <1>3, <2>1
  <2> QED BY <2>1, <2>2, DigitsHold
<1>5. CASE l = 4 * k + 1 /\ Len(D) = 3 * k + 1
  <2>1. e = (D[3 * k + 1] % 4) * 16
    <3>1. l # 4 * k + 2
      BY <1>5
    <3> QED BY <3>1, <1>0
  <2>2. Holds1(d, D, k)
    <3>1. d[4 * k + 1] = D[3 * k + 1] \div 4
      <4>1. 4 * k + 1 <= l
        BY <1>5
      <4> QED BY <4>1, <1>3 DEF Digit1
    <3>2. d[4 * k + 2] = e
      <4>1. 4 * k + 2 = l + 1
        BY <1>5
      <4> QED BY <4>1, <1>1
    <3>3. PICK x : x = D[3 * k + 1] % 4
      OBVIOUS
    <3>4. x \in Nat
      <4>1. 3 * k + 1 \in 1 .. Len(D)
        BY <1>5
      <4>2. D[3 * k + 1] \in Nat
        BY <4>1, ByteAt
      <4> QED BY <4>2, <3>3
    <3>5. (x * 16) \div 16 = x
      BY <3>4
    <3> QED BY <3>1, <3>2, <3>3, <3>5, <2>1 DEF Holds1
  <2>3. ASSUME NEW j \in Nat
        PROVE  /\ 3 * j + 1 <= Len(D) => Holds1(d, D, j)
               /\ 3 * j + 2 <= Len(D) => Holds2(d, D, j)
               /\ 3 * j + 3 <= Len(D) => Holds3(d, D, j)
    <3>1. CASE j < k
      BY <3>1, <1>4
    <3>2. CASE ~(j < k)
      <4>1. /\ 3 * j + 1 <= Len(D) => j = k
            /\ ~(3 * j + 2 <= Len(D)) /\ ~(3 * j + 3 <= Len(D))
        BY <3>2, <1>5
      <4> QED BY <4>1, <2>2
    <3> QED BY <3>1, <3>2
  <2> QED BY <1>2, <2>3 DEF Full
<1>6. CASE l = 4 * k + 2 /\ Len(D) = 3 * k + 2
  <2>1. e = (D[3 * k + 2] % 16) * 4
    <3>1. l # 4 * k + 1
      BY <1>6
    <3> QED BY <3>1, <1>0
  <2>a. 3 * k + 1 \in 1 .. Len(D) /\ 3 * k + 2 \in 1 .. Len(D) /\ 4 * k + 1 <= l /\ 4 * k + 2 <= l
        /\ 3 * k + 2 <= Len(D) /\ 4 * k + 3 = l + 1
    BY <1>6
  <2>b. Digit1(d, D, k) /\ Digit2(d, D, k)
    BY <2>a, <1>3
  <2>2. Holds1(d, D, k)
    BY <2>a, <2>b, DigitsHold
  <2>4. Holds2(d, D, k)
    <3>1. PICK x, y, u : x = D[3 * k + 1] % 4 /\ y = D[3 * k + 2] /\ u = D[3 * k + 2] % 16
      OBVIOUS
    <3>2. D[3 * k + 1] \in Nat /\ y \in Nat /\ y < 256
      BY <2>a, <3>1, ByteAt
    <3>3. x \in Nat /\ u \in Nat
      <4>0. PICK w : w = D[3 * k + 1]
        OBVIOUS
      <4>1. x = w % 4 /\ w \in Nat
        BY <3>1, <3>2, <4>0
      <4>4. x \in Nat
        BY <4>1
      <4>2. u = y % 16
        BY <3>1
      <4>3. u \in Nat
        BY <3>2, <4>2
      <4> QED BY <4>4, <4>3
    <3>4. (x * 16 + y \div 16) % 16 = y \div 16 /\ (u * 4) \div 4 = u
      BY <3>2, <3>3, SplitBits
    <3>5. d[4 * k + 2] = x * 16 + y \div 16
      BY <2>b, <3>1 DEF Digit2
    <3>6. d[4 * k + 3] = u * 4
      BY <2>1, <2>a, <3>1, <1>1
    <3> QED BY <3>1, <3>4, <3>5, <3>6 DEF Holds2
  <2>3. ASSUME NEW j \in Nat
        PROVE  /\ 3 * j + 1 <= Len(D) => Holds1(d, D, j)
               /\ 3 * j + 2 <= Len(D) => Holds2(d, D, j)
               /\ 3 * j + 3 <= Len(D) => Holds3(d, D, j)
    <3>1. CASE j < k
      BY <3>1, <1>4
    <3>2. CASE ~(j < k)
      <4>1. /\ 3 * j + 1 <= Len(D) => j = k
            /\ 3 * j + 2 <= Len(D) => j = k
            /\ ~(3 * j + 3 <= Len(D))
        BY <3>2, <1>6
      <4> QED BY <4>1, <2>2, <2>4
    <3> QED BY <3>1, <3>2
  <2> QED BY <1>2, <2>3 DEF Full
<1> QED BY <1>b, <1>5, <1>6

\* Taking the padding away leaves the digits.
LEMMA UnpaddedIs ==
    ASSUME NEW d \in Seq(Symbol), NEW p \in Seq(Symbol), Len(d) <= Len(p),
           \A i \in 1 .. Len(d) : p[i] = d[i] /\ d[i] # Pad,
           \A i \in Len(d) + 1 .. Len(p) : p[i] = Pad
    PROVE  Unpadded(p) = d
<1>1. Len(d) \in Nat /\ Len(p) \in Nat
  OBVIOUS
<1> DEFINE Q(n) == (n = 0 \/ p[n] # Pad) /\ \A k \in n + 1 .. Len(p) : p[k] = Pad
<1>2. Len(d) \in 0 .. Len(p) /\ Q(Len(d))
  <2>1. Len(d) # 0 => Len(d) \in 1 .. Len(d)
    BY <1>1
  <2> QED BY <1>1, <2>1
<1>3. ASSUME NEW n \in 0 .. Len(p), Q(n) PROVE n = Len(d)
  <2>1. CASE n < Len(d)
    <3>1. Len(d) \in n + 1 .. Len(p) /\ Len(d) \in 1 .. Len(d)
      BY <1>1, <2>1
    <3>2. p[Len(d)] = Pad
      BY <1>3, <3>1
    <3> QED BY <3>1, <3>2
  <2>2. CASE n > Len(d)
    <3>1. n \in Len(d) + 1 .. Len(p) /\ n # 0
      BY <1>1, <2>2
    <3> QED BY <1>3, <3>1
  <2> QED BY <1>1, <2>1, <2>2
<1>4. (CHOOSE n \in 0 .. Len(p) : Q(n)) = Len(d)
  <2> HIDE DEF Q
  <2> QED BY <1>2, <1>3
<1>5. Unpadded(p) = SubSeq(p, 1, Len(d))
  BY <1>4 DEF Unpadded
<1>6. PICK q : q = SubSeq(p, 1, Len(d))
  OBVIOUS
<1>7. q \in Seq(Symbol) /\ Len(q) = Len(d) /\ \A i \in 1 .. Len(d) : q[i] = p[i]
  BY <1>1, <1>6
<1>8. q = d
  BY <1>7, SeqEqual
<1> QED BY <1>5, <1>6, <1>8

\* The encoder has taken n bytes of D.
Encoded(D, n) ==
    /\ n \in Nat /\ n <= Len(D)
    /\ Written(out, D)
    /\ \A i \in 1 .. Len(out) : out[i] # Pad
    /\ \E k \in Nat : Held(D, n, k, Len(out), accsz, acc)

\* The positions up to one more.
LEMMA UpToNext ==
    ASSUME NEW l \in Nat, NEW m, m = l + 1, NEW n \in Nat, m <= n
    PROVE  \A i \in 1 .. m : i \in 1 .. n /\ ((i \in 1 .. l /\ i <= l) \/ (i = l + 1 /\ ~(i <= l)))
  OBVIOUS

\* A byte taken.
LEMMA EncodedTake ==
    ASSUME NEW D \in Seq(Byte), NEW n, B64TypeOK, Encoded(D, n), n < Len(D), Head(todo) = D[n + 1], Take
    PROVE  Encoded(D, n + 1)'
<1>1. n \in Nat /\ Len(D) \in Nat
  BY DEF Encoded
<1>2. PICK k \in Nat : Held(D, n, k, Len(out), accsz, acc)
  BY DEF Encoded
<1>3. Len(out) \in Nat
  BY DEF B64TypeOK
<1>4. /\ accsz < 6 /\ accsz' = accsz + 8 /\ out' = out
      /\ acc' = (acc + D[n + 1] * Pow2(8 - accsz)) % 65536
  BY DEF Take
<1>5. PICK l, z, a : l = Len(out) /\ z = accsz /\ a = acc
  OBVIOUS
<1>6. Held(D, n + 1, k, l, z + 8, (a + D[n + 1] * Pow2(8 - z)) % 65536)
  <2>1. Held(D, n, k, l, z, a) /\ z < 6 /\ l \in Nat
    BY <1>2, <1>3, <1>4, <1>5
  <2> QED BY <2>1, <1>1, TakeHeld
<1>7. Held(D, n + 1, k, Len(out'), accsz', acc')
  BY <1>4, <1>5, <1>6
<1>8. n + 1 \in Nat /\ n + 1 <= Len(D)
  BY <1>1
<1>9. Written(out', D) /\ \A i \in 1 .. Len(out') : out'[i] # Pad
  BY <1>4 DEF Encoded
<1> QED BY <1>7, <1>8, <1>9 DEF Encoded

\* What is written is one of the 64 digits.
LEMMA DigitType ==
    ASSUME B64TypeOK
    PROVE  Digit \in Symbol /\ Digit # Pad
<1>1. Digit \in Nat /\ Digit < 64
  BY DEF Digit, B64TypeOK
<1> QED BY <1>1 DEF Symbol, Pad

\* A digit written.
LEMMA EncodedPut ==
    ASSUME NEW D \in Seq(Byte), NEW n, B64TypeOK, Encoded(D, n), Put
    PROVE  Encoded(D, n)'
<1>1. n \in Nat /\ Len(D) \in Nat /\ n <= Len(D)
  BY DEF Encoded
<1>2. PICK k \in Nat : Held(D, n, k, Len(out), accsz, acc)
  BY DEF Encoded
<1>3. Len(out) \in Nat /\ out \in Seq(Symbol)
  BY DEF B64TypeOK
<1>4. /\ accsz >= 6 /\ accsz' = accsz - 6 /\ out' = Append(out, Digit)
      /\ acc' = (acc * 64) % 65536
  BY DEF Put
<1>5. PICK l, z, a, o, d, p : l = Len(out) /\ z = accsz /\ a = acc /\ o = out /\ d = Digit /\ p = out'
  OBVIOUS
<1>6. Held(D, n, k, l, z, a) /\ z >= 6 /\ l \in Nat
  BY <1>2, <1>3, <1>4, <1>5
<1>7. NextDigit(D, k, l, a) /\ \E j \in Nat : Held(D, n, j, l + 1, z - 6, (a * 64) % 65536)
  BY <1>1, <1>6, PutHeld
<1>8. d \in Symbol /\ d # Pad /\ d = a \div 1024 /\ o \in Seq(Symbol) /\ p = Append(o, d) /\ l = Len(o) /\ Written(o, D)
  BY <1>3, <1>4, <1>5, DigitType DEF Digit, Encoded
<1>9. Written(p, D)
  <2>1. Puts(D, k, a, o, d, l, p)
    BY <1>7, <1>8 DEF Puts
  <2> QED BY <2>1, PutWritten
<1>10. Len(p) = l + 1 /\ p[l + 1] = d /\ \A i \in 1 .. l : p[i] = o[i]
  BY <1>8, AppendProperties
<1>11. \A i \in 1 .. Len(p) : p[i] # Pad
  <2>1. \A i \in 1 .. l : o[i] # Pad
    BY <1>5 DEF Encoded
  <2>2. \A i \in 1 .. Len(p) : i \in 1 .. l \/ i = l + 1
    BY <1>6, <1>10
  <2> QED BY <2>1, <2>2, <1>8, <1>10
<1>12. \E j \in Nat : Held(D, n, j, Len(out'), accsz', acc')
  BY <1>4, <1>5, <1>7, <1>10
<1> QED BY <1>1, <1>5, <1>9, <1>11, <1>12 DEF Encoded

\* What the encoder was fed: characters of the model.
Coded(D) == \A i \in 1 .. Len(D) : D[i] \in {63, 32, 37, 92, 34, 10}

\* The last two characters of alphabet[] are written for the third bytes that are
\* 63, and for these only.
Dashed(p, D) ==
    /\ p \in Seq(Symbol)
    /\ \A i \in 1 .. Len(p) : p[i] \in {62, 63} => \E k \in 1 .. Len(D) : k % 3 = 0 /\ D[k] = 63
    /\ \A k \in 1 .. Len(D) : k % 3 = 0 /\ D[k] = 63 => \E i \in 1 .. Len(p) : p[i] = 63

\* What finish() adds to the digits o written for D: nothing, or a digit for the
\* bits left and the padding.
Tail1(e) == \E x \in Nat : x < 4 /\ e = x * 16
Tail2(e) == \E x \in Nat : x < 16 /\ e = x * 4

Finished(p, o, D) ==
    /\ o \in Seq(Symbol) /\ p \in Seq(Symbol) /\ Written(o, D)
    /\ \A i \in 1 .. Len(o) : p[i] = o[i]
    /\ Len(o) <= Len(p)
    /\ \A i \in Len(o) + 1 .. Len(p) : p[i] = Pad \/ Tail1(p[i]) \/ Tail2(p[i])
    /\ \E k \in Nat :
         \/ Len(o) = 4 * k     /\ Len(D) = 3 * k
         \/ Len(o) = 4 * k + 1 /\ Len(D) = 3 * k + 1
         \/ Len(o) = 4 * k + 2 /\ Len(D) = 3 * k + 2

\* Of the digits of such bytes only a last one can be one of the two, that of 63.
LEMMA DigitsOf ==
    ASSUME NEW b \in {63, 32, 37, 92, 34, 10}, NEW c \in {63, 32, 37, 92, 34, 10}
    PROVE  /\ b \div 4 < 62 /\ (b % 4) * 16 + c \div 16 < 62 /\ (b % 16) * 4 + c \div 64 < 62
           /\ b % 64 # 62 /\ (b % 64 = 63 <=> b = 63)
<1>1. b \div 4 < 62 /\ b % 64 # 62 /\ (b % 64 = 63 <=> b = 63)
  OBVIOUS
<1>2. PICK x, y, u, v : x = b % 4 /\ y = c \div 16 /\ u = b % 16 /\ v = c \div 64
  OBVIOUS
<1>3. x \in 0 .. 3 /\ y \in 0 .. 5 /\ u \in 0 .. 15 /\ v \in 0 .. 1
  BY <1>2
<1>4. x * 16 + y < 62 /\ u * 4 + v < 62
  BY <1>3
<1> QED BY <1>1, <1>2, <1>4

\* The digits of the data.
LEMMA FinishedDigits ==
    ASSUME NEW p, NEW o, NEW D \in Seq(Byte), Finished(p, o, D), Coded(D)
    PROVE  Dashed(p, D)
<1>0. /\ Len(o) \in Nat /\ Len(p) \in Nat /\ Len(D) \in Nat /\ o \in Seq(Symbol) /\ p \in Seq(Symbol)
      /\ Written(o, D)
  BY DEF Finished
<1>1. PICK k \in Nat : \/ Len(o) = 4 * k     /\ Len(D) = 3 * k
                       \/ Len(o) = 4 * k + 1 /\ Len(D) = 3 * k + 1
                       \/ Len(o) = 4 * k + 2 /\ Len(D) = 3 * k + 2
  BY DEF Finished
<1>2. ASSUME NEW i \in 1 .. Len(o), o[i] \in {62, 63}
      PROVE  \E m \in 1 .. Len(D) : m % 3 = 0 /\ D[m] = 63
  <2>1. PICK j \in Nat : i = 4 * j + 1 \/ i = 4 * j + 2 \/ i = 4 * j + 3 \/ i = 4 * j + 4
    <3>1. PICK j : j = (i - 1) \div 4
      OBVIOUS
    <3>2. j \in Nat /\ (i = 4 * j + 1 \/ i = 4 * j + 2 \/ i = 4 * j + 3 \/ i = 4 * j + 4)
      BY <3>1, <1>0
    <3> QED BY <3>2
  <2>2. CASE i = 4 * j + 1
    <3>1. Digit1(o, D, j)
      BY <2>2, <1>0, WrittenDigits
    <3>2. 3 * j + 1 \in 1 .. Len(D)
      BY <2>2, <1>0, <1>1
    <3>3. D[3 * j + 1] \in {63, 32, 37, 92, 34, 10}
      BY <3>2 DEF Coded
    <3>4. D[3 * j + 1] \div 4 < 62 /\ D[3 * j + 1] \div 4 # 63
      BY <3>3
    <3> QED BY <3>1, <3>4, <2>2, <1>2 DEF Digit1
  <2>3. CASE i = 4 * j + 2
    <3>1. Digit2(o, D, j)
      BY <2>3, <1>0, WrittenDigits
    <3>2. 3 * j + 1 \in 1 .. Len(D) /\ 3 * j + 2 \in 1 .. Len(D)
      BY <2>3, <1>0, <1>1
    <3>3. PICK b, c : b = D[3 * j + 1] /\ c = D[3 * j + 2]
      OBVIOUS
    <3>4. b \in {63, 32, 37, 92, 34, 10} /\ c \in {63, 32, 37, 92, 34, 10}
      BY <3>2, <3>3 DEF Coded
    <3>5. (b % 4) * 16 + c \div 16 < 62
      BY <3>4, DigitsOf
    <3>6. (b % 4) * 16 + c \div 16 # 62 /\ (b % 4) * 16 + c \div 16 # 63
      BY <3>5
    <3> QED BY <3>1, <3>3, <3>6, <2>3, <1>2 DEF Digit2
  <2>4. CASE i = 4 * j + 3
    <3>1. Digit3(o, D, j)
      BY <2>4, <1>0, WrittenDigits
    <3>2. 3 * j + 2 \in 1 .. Len(D) /\ 3 * j + 3 \in 1 .. Len(D)
      BY <2>4, <1>0, <1>1
    <3>3. PICK b, c : b = D[3 * j + 2] /\ c = D[3 * j + 3]
      OBVIOUS
    <3>4. b \in {63, 32, 37, 92, 34, 10} /\ c \in {63, 32, 37, 92, 34, 10}
      BY <3>2, <3>3 DEF Coded
    <3>5. (b % 16) * 4 + c \div 64 < 62
      BY <3>4, DigitsOf
    <3>6. (b % 16) * 4 + c \div 64 # 62 /\ (b % 16) * 4 + c \div 64 # 63
      BY <3>5
    <3> QED BY <3>1, <3>3, <3>6, <2>4, <1>2 DEF Digit3
  <2>5. CASE i = 4 * j + 4
    <3>1. Digit4(o, D, j)
      BY <2>5, <1>0, WrittenDigits
    <3>2. 3 * j + 3 \in 1 .. Len(D) /\ (3 * j + 3) % 3 = 0
      BY <2>5, <1>0, <1>1
    <3>3. PICK b : b = D[3 * j + 3]
      OBVIOUS
    <3>4. b \in {63, 32, 37, 92, 34, 10}
      BY <3>2, <3>3 DEF Coded
    <3>5. b % 64 = o[i]
      BY <3>1, <3>3, <2>5 DEF Digit4
    <3>6. b % 64 # 62 /\ (b % 64 = 63 <=> b = 63)
      BY <3>4, DigitsOf
    <3>7. b = 63
      BY <3>5, <3>6, <1>2
    <3> QED BY <3>2, <3>3, <3>7
  <2> QED BY <2>1, <2>2, <2>3, <2>4, <2>5
<1>3. ASSUME NEW i \in 1 .. Len(p), p[i] \in {62, 63}
      PROVE  \E m \in 1 .. Len(D) : m % 3 = 0 /\ D[m] = 63
  <2>1. CASE i \in 1 .. Len(o)
    BY <2>1, <1>2, <1>3 DEF Finished
  <2>2. CASE i \notin 1 .. Len(o)
    <3>1. i \in Len(o) + 1 .. Len(p)
      BY <2>2, <1>0
    <3>2. p[i] = Pad \/ Tail1(p[i]) \/ Tail2(p[i])
      BY <3>1 DEF Finished
    <3>3. \A x \in Nat : (x < 4 => x * 16 # 62 /\ x * 16 # 63) /\ (x < 16 => x * 4 # 62 /\ x * 4 # 63)
      OBVIOUS
    <3> QED BY <3>2, <3>3, <1>3 DEF Tail1, Tail2, Pad
  <2> QED BY <2>1, <2>2
<1>4. ASSUME NEW m \in 1 .. Len(D), m % 3 = 0, D[m] = 63
      PROVE  \E i \in 1 .. Len(p) : p[i] = 63
  <2>1. PICK j \in Nat : m = 3 * j + 3
    <3>1. PICK j : j = (m - 3) \div 3
      OBVIOUS
    <3>2. j \in Nat /\ m = 3 * j + 3
      BY <3>1, <1>0, <1>4
    <3> QED BY <3>2
  <2>2. 4 * j + 4 \in 1 .. Len(o)
    BY <2>1, <1>0, <1>1
  <2>3. Digit4(o, D, j)
    BY <2>2, <1>0, WrittenDigits
  <2>4. o[4 * j + 4] = 63
    BY <2>1, <2>3, <1>4 DEF Digit4
  <2>5. 4 * j + 4 \in 1 .. Len(p) /\ p[4 * j + 4] = 63
    BY <2>2, <2>4, <1>0 DEF Finished
  <2> QED BY <2>5
<1> QED BY <1>0, <1>3, <1>4 DEF Dashed

\* After finish() the text decodes to the data: no bits are left, or two or four,
\* which the last digit holds.
LEMMA EncodedFinish ==
    ASSUME NEW D \in Seq(Byte), B64TypeOK, Encoded(D, Len(D)), Finish
    PROVE  Bytes(Unpadded(out')) = D /\ Finished(out', out, D)
<1>1. Len(D) \in Nat
  OBVIOUS
<1>2. PICK k \in Nat : Held(D, Len(D), k, Len(out), accsz, acc)
  BY DEF Encoded
<1>3. PICK o, e, p : o = out /\ e = Digit /\ p = out'
  OBVIOUS
<1>4. o \in Seq(Symbol) /\ e \in Symbol /\ e # Pad /\ Len(o) \in Nat /\ Pad \in Symbol
  BY <1>3, DigitType DEF B64TypeOK, Symbol, Pad
<1>5. Written(o, D) /\ \A i \in 1 .. Len(o) : o[i] # Pad
  BY <1>3 DEF Encoded
<1>6. accsz < 6 /\ Held(D, Len(D), k, Len(o), accsz, acc) /\ e = acc \div 1024
  BY <1>2, <1>3 DEF Finish, Idle, Digit
<1>7. CASE accsz = 0 /\ Len(o) = 4 * k /\ Len(D) = 3 * k
  <2>1. p = o
    <3>1. p = o \o <<>> \o <<>> \o <<>>
      BY <1>3, <1>7 DEF Finish
    <3> QED BY <1>4, <3>1
  <2>2. Full(o, D)
    BY <1>4, <1>5, <1>7, FullGroups
  <2>3. Unpadded(o) = o
    BY <1>4, <1>5, UnpaddedIs
  <2>4. Finished(p, o, D)
    BY <2>1, <1>4, <1>5, <1>7 DEF Finished
  <2> QED BY <2>1, <2>2, <2>3, <2>4, <1>3, BytesOfFull
<1>8. CASE accsz = 2 /\ Len(o) = 4 * k + 1 /\ Len(D) = 3 * k + 1 /\ acc = (D[3 * k + 1] % 4) * 16384
  <2>1. p = o \o <<e>> \o <<Pad>> \o <<Pad>>
    BY <1>3, <1>8, SMTT(30) DEF Finish
  <2>2. e = (D[3 * k + 1] % 4) * 16
    <3>1. 3 * k + 1 \in 1 .. Len(D)
      BY <1>8
    <3>2. D[3 * k + 1] \in Nat
      BY <3>1, ByteAt
    <3>3. PICK x : x = D[3 * k + 1] % 4
      OBVIOUS
    <3>4. x \in Nat
      BY <3>2, <3>3
    <3>5. (x * 16384) \div 1024 = x * 16
      BY <3>4
    <3> QED BY <3>3, <3>5, <1>6, <1>8
  <2>3. PICK d : d = Append(o, e)
    OBVIOUS
  <2>4. Full(d, D)
    <3>1. Partial(o, D, k, e, d)
      BY <2>2, <2>3, <1>4, <1>5, <1>8 DEF Partial
    <3> QED BY <3>1, FullPartial
  <2>5. d \in Seq(Symbol) /\ Len(d) = Len(o) + 1 /\ d[Len(o) + 1] = e /\ \A i \in 1 .. Len(o) : d[i] = o[i]
    BY <2>3, <1>4, AppendProperties
  <2>6. p \in Seq(Symbol) /\ Len(p) = Len(o) + 3 /\ \A i \in 1 .. Len(p) :
           p[i] = IF i <= Len(o) THEN o[i] ELSE IF i = Len(o) + 1 THEN e ELSE Pad
    <3>1. PICK l, x : l = Len(o) /\ x = Pad
      OBVIOUS
    <3>2. p = o \o <<e>> \o <<x>> \o <<x>> /\ x \in Symbol /\ l \in Nat
      BY <2>1, <3>1, <1>4
    <3>3. p = o \o <<e, x, x>>
      BY <3>2, <1>4
    <3>4. PICK q : q = <<e, x, x>>
      OBVIOUS
    <3>5. q \in Seq(Symbol) /\ Len(q) = 3 /\ q[1] = e /\ q[2] = x /\ q[3] = x
      BY <3>2, <3>4, <1>4
    <3>6. p \in Seq(Symbol) /\ Len(p) = l + 3 /\ \A i \in 1 .. Len(p) : p[i] = IF i <= l THEN o[i] ELSE q[i - l]
      BY <3>1, <3>2, <3>3, <3>4, <3>5, <1>4
    <3>7. \A i \in 1 .. l + 3 : i <= l \/ i = l + 1 \/ i = l + 2 \/ i = l + 3
      BY <3>2
    <3>8. (l + 1) - l = 1 /\ (l + 2) - l = 2 /\ (l + 3) - l = 3 /\ ~(l + 1 <= l) /\ ~(l + 2 <= l) /\ ~(l + 3 <= l)
          /\ l + 2 # l + 1 /\ l + 3 # l + 1
      BY <3>2
    <3> QED BY <3>1, <3>5, <3>6, <3>7, <3>8
  <2>7. Unpadded(p) = d
    <3>1. Len(d) <= Len(p)
      BY <2>5, <2>6, <1>4
    <3>2. \A i \in 1 .. Len(d) : p[i] = d[i] /\ d[i] # Pad
      <4>1. \A i \in 1 .. Len(d) : i \in 1 .. Len(p) /\ ((i \in 1 .. Len(o) /\ i <= Len(o)) \/ (i = Len(o) + 1 /\ ~(i <= Len(o))))
        <5>1. PICK l, m, n : l = Len(o) /\ m = Len(d) /\ n = Len(p)
          OBVIOUS
        <5>2. l \in Nat /\ m = l + 1 /\ m <= n /\ n \in Nat
          BY <5>1, <3>1, <2>5, <2>6, <1>4
        <5>3. \A i \in 1 .. m : i \in 1 .. n /\ ((i \in 1 .. l /\ i <= l) \/ (i = l + 1 /\ ~(i <= l)))
          BY <5>2, UpToNext
        <5> QED BY <5>1, <5>3
      <4> QED BY <4>1, <2>5, <2>6, <1>4, <1>5
    <3>3. \A i \in Len(d) + 1 .. Len(p) : p[i] = Pad
      <4>1. \A i \in Len(d) + 1 .. Len(p) : i \in 1 .. Len(p) /\ ~(i <= Len(o)) /\ i # Len(o) + 1
        BY <2>5, <2>6, <1>4
      <4> QED BY <4>1, <2>6
    <3> QED BY <3>1, <3>2, <3>3, <2>5, <2>6, UnpaddedIs
  <2>8. Tail1(e)
    <3>1. 3 * k + 1 \in 1 .. Len(D)
      BY <1>8
    <3>2. D[3 * k + 1] \in Nat
      BY <3>1, ByteAt
    <3>3. PICK x : x = D[3 * k + 1] % 4
      OBVIOUS
    <3>4. x \in Nat /\ x < 4
      BY <3>2, <3>3
    <3> QED BY <3>3, <3>4, <2>2 DEF Tail1
  <2>9. Finished(p, o, D)
    <3>1. /\ \A i \in 1 .. Len(o) : i \in 1 .. Len(p) /\ i <= Len(o)
          /\ \A i \in Len(o) + 1 .. Len(p) : i \in 1 .. Len(p) /\ ~(i <= Len(o))
          /\ Len(o) <= Len(p)
      BY <2>6, <1>4
    <3>2. \A i \in 1 .. Len(o) : p[i] = o[i]
      BY <3>1, <2>6
    <3>3. \A i \in Len(o) + 1 .. Len(p) : p[i] = e \/ p[i] = Pad
      BY <3>1, <2>6
    <3>4. \A i \in Len(o) + 1 .. Len(p) : p[i] = Pad \/ Tail1(p[i]) \/ Tail2(p[i])
      BY <3>3, <2>8
    <3>5. \E j \in Nat : Len(o) = 4 * j + 1 /\ Len(D) = 3 * j + 1
      BY <1>8
    <3>6. p \in Seq(Symbol)
      BY <2>6
    <3>7. o \in Seq(Symbol) /\ Written(o, D)
      BY <1>4, <1>5
    <3> QED BY <3>1, <3>2, <3>4, <3>5, <3>6, <3>7 DEF Finished
  <2> QED BY <2>4, <2>7, <2>9, <1>3, BytesOfFull
<1>9. CASE accsz = 4 /\ Len(o) = 4 * k + 2 /\ Len(D) = 3 * k + 2 /\ acc = (D[3 * k + 2] % 16) * 4096
  <2>1. p = o \o <<e>> \o <<Pad>> \o <<>>
    BY <1>3, <1>9 DEF Finish
  <2>2. e = (D[3 * k + 2] % 16) * 4
    <3>1. 3 * k + 2 \in 1 .. Len(D)
      BY <1>9
    <3>2. D[3 * k + 2] \in Nat
      BY <3>1, ByteAt
    <3>3. PICK x : x = D[3 * k + 2] % 16
      OBVIOUS
    <3>4. x \in Nat
      BY <3>2, <3>3
    <3>5. (x * 4096) \div 1024 = x * 4
      BY <3>4
    <3> QED BY <3>3, <3>5, <1>6, <1>9
  <2>3. PICK d : d = Append(o, e)
    OBVIOUS
  <2>4. Full(d, D)
    <3>1. Partial(o, D, k, e, d)
      BY <2>2, <2>3, <1>4, <1>5, <1>9 DEF Partial
    <3> QED BY <3>1, FullPartial
  <2>5. d \in Seq(Symbol) /\ Len(d) = Len(o) + 1 /\ d[Len(o) + 1] = e /\ \A i \in 1 .. Len(o) : d[i] = o[i]
    BY <2>3, <1>4, AppendProperties
  <2>6. p \in Seq(Symbol) /\ Len(p) = Len(o) + 2 /\ \A i \in 1 .. Len(p) :
           p[i] = IF i <= Len(o) THEN o[i] ELSE IF i = Len(o) + 1 THEN e ELSE Pad
    <3>1. PICK l, x : l = Len(o) /\ x = Pad
      OBVIOUS
    <3>2. p = o \o <<e>> \o <<x>> \o <<>> /\ x \in Symbol /\ l \in Nat
      BY <2>1, <3>1, <1>4
    <3>3. p = o \o <<e, x>>
      BY <3>2, <1>4
    <3>4. PICK q : q = <<e, x>>
      OBVIOUS
    <3>5. q \in Seq(Symbol) /\ Len(q) = 2 /\ q[1] = e /\ q[2] = x
      BY <3>2, <3>4, <1>4
    <3>6. p \in Seq(Symbol) /\ Len(p) = l + 2 /\ \A i \in 1 .. Len(p) : p[i] = IF i <= l THEN o[i] ELSE q[i - l]
      BY <3>1, <3>2, <3>3, <3>4, <3>5, <1>4
    <3>7. \A i \in 1 .. l + 2 : i <= l \/ i = l + 1 \/ i = l + 2
      BY <3>2
    <3>8. (l + 1) - l = 1 /\ (l + 2) - l = 2 /\ ~(l + 1 <= l) /\ ~(l + 2 <= l) /\ l + 2 # l + 1
      BY <3>2
    <3> QED BY <3>1, <3>5, <3>6, <3>7, <3>8
  <2>7. Unpadded(p) = d
    <3>1. Len(d) <= Len(p)
      BY <2>5, <2>6, <1>4
    <3>2. \A i \in 1 .. Len(d) : p[i] = d[i] /\ d[i] # Pad
      <4>1. \A i \in 1 .. Len(d) : i \in 1 .. Len(p) /\ ((i \in 1 .. Len(o) /\ i <= Len(o)) \/ (i = Len(o) + 1 /\ ~(i <= Len(o))))
        <5>1. PICK l, m, n : l = Len(o) /\ m = Len(d) /\ n = Len(p)
          OBVIOUS
        <5>2. l \in Nat /\ m = l + 1 /\ m <= n /\ n \in Nat
          BY <5>1, <3>1, <2>5, <2>6, <1>4
        <5>3. \A i \in 1 .. m : i \in 1 .. n /\ ((i \in 1 .. l /\ i <= l) \/ (i = l + 1 /\ ~(i <= l)))
          BY <5>2, UpToNext
        <5> QED BY <5>1, <5>3
      <4> QED BY <4>1, <2>5, <2>6, <1>4, <1>5
    <3>3. \A i \in Len(d) + 1 .. Len(p) : p[i] = Pad
      <4>1. \A i \in Len(d) + 1 .. Len(p) : i \in 1 .. Len(p) /\ ~(i <= Len(o)) /\ i # Len(o) + 1
        BY <2>5, <2>6, <1>4
      <4> QED BY <4>1, <2>6
    <3> QED BY <3>1, <3>2, <3>3, <2>5, <2>6, UnpaddedIs
  <2>8. Tail2(e)
    <3>1. 3 * k + 2 \in 1 .. Len(D)
      BY <1>9
    <3>2. D[3 * k + 2] \in Nat
      BY <3>1, ByteAt
    <3>3. PICK x : x = D[3 * k + 2] % 16
      OBVIOUS
    <3>4. x \in Nat /\ x < 16
      BY <3>2, <3>3
    <3> QED BY <3>3, <3>4, <2>2 DEF Tail2
  <2>9. Finished(p, o, D)
    <3>1. /\ \A i \in 1 .. Len(o) : i \in 1 .. Len(p) /\ i <= Len(o)
          /\ \A i \in Len(o) + 1 .. Len(p) : i \in 1 .. Len(p) /\ ~(i <= Len(o))
          /\ Len(o) <= Len(p)
      BY <2>6, <1>4
    <3>2. \A i \in 1 .. Len(o) : p[i] = o[i]
      BY <3>1, <2>6
    <3>3. \A i \in Len(o) + 1 .. Len(p) : p[i] = e \/ p[i] = Pad
      BY <3>1, <2>6
    <3>4. \A i \in Len(o) + 1 .. Len(p) : p[i] = Pad \/ Tail1(p[i]) \/ Tail2(p[i])
      BY <3>3, <2>8
    <3>5. \E j \in Nat : Len(o) = 4 * j + 2 /\ Len(D) = 3 * j + 2
      BY <1>9
    <3>6. p \in Seq(Symbol)
      BY <2>6
    <3>7. o \in Seq(Symbol) /\ Written(o, D)
      BY <1>4, <1>5
    <3> QED BY <3>1, <3>2, <3>4, <3>5, <3>6, <3>7 DEF Finished
  <2> QED BY <2>4, <2>7, <2>9, <1>3, BytesOfFull
<1> QED BY <1>6, <1>7, <1>8, <1>9 DEF Held

-----------------------------------------------------------------------------
(* The alphabet *)

\* A decoder that knows the URL-safe alphabet reads every character as the digit it
\* was written for, another one all but the last two.
LEMMA SixIs ==
    ASSUME NEW d \in Symbol, NEW urlsafe \in BOOLEAN
    PROVE  /\ Six(alphabet(d), urlsafe) = IF d \in {62, 63} /\ ~urlsafe THEN -1 ELSE d
           /\ d # -1
<1>0. d \in Nat /\ d <= 64 /\ Pad = 64
  BY DEF Symbol, Pad
<1>1. CASE d < 26
  <2>1. alphabet(d) = d + 65 /\ d + 65 >= 65 /\ d + 65 <= 90 /\ (d + 65) - 65 = d
    BY <1>0, <1>1 DEF alphabet
  <2> QED BY <2>1, <1>0, <1>1 DEF Six
<1>2. CASE d >= 26 /\ d < 52
  <2>1. alphabet(d) = d + 71 /\ d + 71 >= 97 /\ d + 71 <= 122 /\ (d + 71) - 71 = d
    BY <1>0, <1>2 DEF alphabet
  <2> QED BY <2>1, <1>0, <1>2 DEF Six
<1>3. CASE d >= 52 /\ d < 62
  <2>1. alphabet(d) = d - 4 /\ d - 4 >= 48 /\ d - 4 <= 57 /\ (d - 4) + 4 = d
    BY <1>0, <1>3 DEF alphabet
  <2> QED BY <2>1, <1>0, <1>3 DEF Six
<1>4. CASE d = 62
  <2>1. alphabet(d) = 45
    BY <1>0, <1>4 DEF alphabet
  <2> QED BY <2>1, <1>0, <1>4 DEF Six
<1>5. CASE d = 63
  <2>1. alphabet(d) = 95
    BY <1>0, <1>5 DEF alphabet
  <2> QED BY <2>1, <1>0, <1>5 DEF Six
<1>6. CASE d = 64
  <2>1. alphabet(d) = 61
    BY <1>0, <1>6 DEF alphabet
  <2> QED BY <2>1, <1>0, <1>6 DEF Six
<1> QED BY <1>0, <1>1, <1>2, <1>3, <1>4, <1>5, <1>6

\* Hence what it refuses, and what it reads otherwise.
LEMMA TextIsRead ==
    ASSUME out \in Seq(Symbol), NEW urlsafe \in BOOLEAN
    PROVE  /\ Refuses(Text, urlsafe) <=> ~urlsafe /\ \E i \in 1 .. Len(out) : out[i] \in {62, 63}
           /\ ~Refuses(Text, urlsafe) => Sextets(Text, urlsafe) = out
<1>1. PICK o, t : o = out /\ t = Text
  OBVIOUS
<1>2. o \in Seq(Symbol) /\ Len(o) \in Nat /\ DOMAIN o = 1 .. Len(o) /\ \A i \in 1 .. Len(o) : o[i] \in Symbol
  BY <1>1
<1>3. DOMAIN t = 1 .. Len(o) /\ \A i \in 1 .. Len(o) : t[i] = alphabet(o[i])
  BY <1>1, <1>2 DEF Text
<1>4. \A i \in 1 .. Len(o) : Six(t[i], urlsafe) = (IF o[i] \in {62, 63} /\ ~urlsafe THEN -1 ELSE o[i]) /\ o[i] # -1
  <2> SUFFICES ASSUME NEW i \in 1 .. Len(o)
               PROVE  Six(t[i], urlsafe) = (IF o[i] \in {62, 63} /\ ~urlsafe THEN -1 ELSE o[i]) /\ o[i] # -1
    OBVIOUS
  <2>1. PICK d : d = o[i]
    OBVIOUS
  <2>2. d \in Symbol /\ t[i] = alphabet(d)
    BY <2>1, <1>2, <1>3
  <2>3. Six(alphabet(d), urlsafe) = (IF d \in {62, 63} /\ ~urlsafe THEN -1 ELSE d) /\ d # -1
    BY <2>2, SixIs
  <2> QED BY <2>1, <2>2, <2>3
<1>5. Refuses(t, urlsafe) <=> ~urlsafe /\ \E i \in 1 .. Len(o) : o[i] \in {62, 63}
  <2>1. Refuses(t, urlsafe) <=> \E i \in 1 .. Len(o) : Six(t[i], urlsafe) = -1
    BY <1>3 DEF Refuses
  <2>2. ASSUME NEW i \in 1 .. Len(o) PROVE Six(t[i], urlsafe) = -1 <=> ~urlsafe /\ o[i] \in {62, 63}
    BY <1>4
  <2> QED BY <2>1, <2>2
<1>6. ASSUME ~Refuses(t, urlsafe) PROVE Sextets(t, urlsafe) = o
  <2>1. ASSUME NEW i \in 1 .. Len(o) PROVE Six(t[i], urlsafe) = o[i]
    <3>1. ~(~urlsafe /\ o[i] \in {62, 63})
      BY <1>5, <1>6
    <3> QED BY <3>1, <1>4
  <2>2. PICK x : x = Sextets(t, urlsafe)
    OBVIOUS
  <2>3. x = [i \in 1 .. Len(o) |-> Six(t[i], urlsafe)]
    BY <2>2, <1>3 DEF Sextets
  <2>4. x \in Seq(Symbol) /\ Len(x) = Len(o) /\ \A i \in 1 .. Len(o) : x[i] = o[i]
    BY <2>1, <2>3, <1>2
  <2>5. x = o
    BY <2>4, <1>2, SeqEqual
  <2> QED BY <2>2, <2>5
<1> QED BY <1>1, <1>5, <1>6

-----------------------------------------------------------------------------
(* The words *)

WordEnd(s, e) == s[e] # Blank /\ (e = Len(s) \/ s[e + 1] = Blank)

\* Word n of w is a maximal run of characters, and between it and the one before
\* there are blanks only.
IsWord(w, s, n) ==
    /\ w[n].b \in Nat /\ w[n].e \in Nat /\ 1 <= w[n].b /\ w[n].b <= w[n].e /\ w[n].e <= Len(s)
    /\ \A k \in w[n].b .. w[n].e : s[k] # Blank
    /\ w[n].e = Len(s) \/ s[w[n].e + 1] = Blank
    /\ n = 1 => w[n].b = 1
    /\ n # 1 => w[n - 1].e < w[n].b - 1 /\ \A k \in w[n - 1].e + 1 .. w[n].b - 1 : s[k] = Blank

LastEnd(w) == IF w = <<>> THEN 0 ELSE w[Len(w)].e

\* w are the words of s that end at m or before.
Tokenised(w, s, m) ==
    /\ w \in Str
    /\ \A n \in 1 .. Len(w) : IsWord(w, s, n)
    /\ LastEnd(w) <= m
    /\ \A j \in LastEnd(w) + 1 .. m : ~WordEnd(s, j)

\* The blank is a plain character to everything but the words.
LEMMA BlankIs == Blank \in Chars /\ Blank # "%" /\ Blank # "\\" /\ Blank # "\""
<1>1. Blank \in Chars
  BY DEF Chars, Code
<1>2. Blank # "%" /\ Blank # "\\" /\ Blank # "\""
  BY DEF Blank
<1> QED BY <1>1, <1>2

\* A word begins after the last blank before its end.
LEMMA BeginIs ==
    ASSUME NEW s, NEW e \in Nat, e # 0, s[e] # Blank
    PROVE  /\ Begin(s, e) \in 1 .. e
           /\ Begin(s, e) = 1 \/ s[Begin(s, e) - 1] = Blank
           /\ \A k \in Begin(s, e) .. e : s[k] # Blank
<1> DEFINE S == {b \in 1 .. e : \A k \in b .. e : s[k] # Blank}
<1>1. e \in S
  <2>1. \A k \in e .. e : k = e
    OBVIOUS
  <2> QED BY <2>1
<1>2. S \subseteq Nat /\ S # {}
  BY <1>1
<1>3. PICK b \in S : \A k \in S : b <= k
  <2> HIDE DEF S
  <2> QED BY <1>2, Least
<1>4. b = 1 \/ s[b - 1] = Blank
  <2> SUFFICES ASSUME b # 1, s[b - 1] # Blank PROVE FALSE
    OBVIOUS
  <2>1. b - 1 \in 1 .. e /\ \A k \in b - 1 .. e : k = b - 1 \/ k \in b .. e
    OBVIOUS
  <2>2. b - 1 \in S
    BY <2>1
  <2> QED BY <1>3, <2>2
<1>5. \E c \in 1 .. e : (c = 1 \/ s[c - 1] = Blank) /\ \A k \in c .. e : s[k] # Blank
  BY <1>4
<1> HIDE DEF S
<1> QED BY <1>5 DEF Begin

\* No word ends before a blank: there are blanks only.
LEMMA BlankBefore ==
    ASSUME NEW s, NEW a \in Nat, NEW c \in Nat, a <= c, c <= Len(s), Len(s) \in Nat, s[c] = Blank,
           \A j \in a + 1 .. c : ~WordEnd(s, j)
    PROVE  \A k \in a + 1 .. c : s[k] = Blank
<1> DEFINE S == {k \in Nat : k > a => s[k] = Blank}
<1>1. c \in S
  OBVIOUS
<1>2. \A k \in 0 .. c - 1 : k + 1 \in S => k \in S
  <2> SUFFICES ASSUME NEW k \in 0 .. c - 1, k + 1 \in S, k > a PROVE s[k] = Blank
    OBVIOUS
  <2>1. s[k + 1] = Blank /\ k \in a + 1 .. c /\ k # Len(s)
    OBVIOUS
  <2> QED BY <2>1 DEF WordEnd
<1> HIDE DEF S
<1>3. 0 .. c \subseteq S
  BY <1>1, <1>2, DownTo
<1>4. ASSUME NEW k \in a + 1 .. c PROVE s[k] = Blank
  <2>1. k \in 0 .. c /\ k > a
    OBVIOUS
  <2> QED BY <2>1, <1>3 DEF S
<1> QED BY <1>4

\* A word more.
LEMMA NextWord ==
    ASSUME NEW s, NEW w, NEW m, NEW e, m \in Nat, e = m + 1, Len(s) \in Nat, e <= Len(s), s[1] # Blank,
           Tokenised(w, s, m), WordEnd(s, e), NEW v, v = [b |-> Begin(s, e), e |-> e],
           NEW x, x = w \o <<v>>
    PROVE  Tokenised(x, s, e)
<1>0. e \in Nat /\ e # 0 /\ s[e] # Blank /\ e - 1 = m
  BY DEF WordEnd
<1>1. PICK b : b = Begin(s, e)
  OBVIOUS
<1>2. b \in 1 .. e /\ (b = 1 \/ s[b - 1] = Blank) /\ \A k \in b .. e : s[k] # Blank
  BY <1>0, <1>1, BeginIs
<1>3. v.b = b /\ v.e = e /\ v \in [b : Int, e : Int]
  BY <1>0, <1>1, <1>2
<1>4. PICK T : T = Item
  OBVIOUS
<1>5. w \in Seq(T) /\ v \in T
  BY <1>3, <1>4 DEF Tokenised, Str, Item
<1>6. PICK l : l = Len(w)
  OBVIOUS
<1>7. x \in Seq(T) /\ Len(x) = l + 1 /\ l \in Nat /\ x[l + 1] = v /\ \A n \in 1 .. l : x[n] = w[n]
  <2>1. <<v>> \in Seq(T) /\ Len(<<v>>) = 1 /\ <<v>>[1] = v
    BY <1>5
  <2> QED BY <1>5, <1>6, <2>1
<1>8. x # <<>> /\ LastEnd(x) = e
  BY <1>7, <1>3 DEF LastEnd
<1>9. (l = 0 <=> w = <<>>) /\ (l # 0 => l \in 1 .. l /\ LastEnd(w) = w[l].e)
  BY <1>5, <1>6, <1>7 DEF LastEnd
<1>10. \A n \in 1 .. l : IsWord(w, s, n)
  BY <1>6 DEF Tokenised
<1>11. PICK f : f = LastEnd(w)
  OBVIOUS
<1>12. f \in Nat /\ f <= m /\ \A j \in f + 1 .. m : ~WordEnd(s, j)
  <2>1. f <= m /\ \A j \in f + 1 .. m : ~WordEnd(s, j)
    BY <1>11 DEF Tokenised
  <2>2. CASE l = 0
    BY <2>1, <2>2, <1>9, <1>11 DEF LastEnd
  <2>3. CASE l # 0
    <3>1. w[l].e \in Nat
      BY <2>3, <1>9, <1>10 DEF IsWord
    <3> QED BY <2>1, <2>3, <3>1, <1>9, <1>11
  <2> QED BY <2>2, <2>3
<1>13. l # 0 => f # 0 /\ s[f] # Blank /\ s[f + 1] = Blank
  <2> SUFFICES ASSUME l # 0 PROVE f # 0 /\ s[f] # Blank /\ s[f + 1] = Blank
    OBVIOUS
  <2>1. IsWord(w, s, l) /\ f = w[l].e
    BY <1>9, <1>10, <1>11
  <2>2. w[l].b \in Nat /\ f \in Nat /\ 1 <= w[l].b /\ w[l].b <= f /\ f \in w[l].b .. f
    BY <2>1 DEF IsWord
  <2>3. f # Len(s)
    BY <1>0, <1>12
  <2> QED BY <2>1, <2>2, <2>3 DEF IsWord
<1>14. f < b
  <2> SUFFICES ASSUME ~(f < b) PROVE FALSE
    OBVIOUS
  <2>1. l # 0
    <3>1. l = 0 => f = 0
      BY <1>9, <1>11 DEF LastEnd
    <3> QED BY <3>1, <1>2, <1>12
  <2>2. f + 1 \in b .. e
    BY <1>0, <1>2, <1>12
  <2> QED BY <2>1, <2>2, <1>2, <1>13
<1>15. b # 1 => \A k \in f + 1 .. b - 1 : s[k] = Blank
  <2> SUFFICES ASSUME b # 1 PROVE \A k \in f + 1 .. b - 1 : s[k] = Blank
    OBVIOUS
  <2>1. PICK c : c = b - 1
    OBVIOUS
  <2>2. c \in Nat /\ f <= c /\ c <= m /\ c <= Len(s) /\ s[c] = Blank
    BY <2>1, <1>0, <1>2, <1>12, <1>14
  <2>3. \A j \in f + 1 .. c : ~WordEnd(s, j)
    <3>1. \A j \in f + 1 .. c : j \in f + 1 .. m
      BY <2>2, <1>12
    <3> QED BY <3>1, <1>12
  <2>4. \A k \in f + 1 .. c : s[k] = Blank
    BY <2>2, <2>3, <1>12, BlankBefore
  <2> QED BY <2>1, <2>4
<1>16. IsWord(x, s, l + 1)
  <2>1. l + 1 = 1 => b = 1
    <3> SUFFICES ASSUME l = 0, b # 1 PROVE FALSE
      BY <1>7
    <3>1. f = 0
      BY <1>9, <1>11 DEF LastEnd
    <3>2. 1 \in f + 1 .. b - 1
      BY <3>1, <1>2
    <3> QED BY <3>2, <1>15
  <2>2. l + 1 # 1 => x[l].e < b - 1 /\ \A k \in x[l].e + 1 .. b - 1 : s[k] = Blank
    <3> SUFFICES ASSUME l # 0 PROVE x[l].e < b - 1 /\ \A k \in x[l].e + 1 .. b - 1 : s[k] = Blank
      BY <1>7
    <3>1. x[l].e = f
      BY <1>7, <1>9, <1>11
    <3>2. b # 1
      BY <1>2, <1>12, <1>13, <1>14
    <3>3. b - 1 # f
      BY <3>2, <1>2, <1>13
    <3>4. f < b - 1
      BY <3>3, <1>2, <1>12, <1>14
    <3> QED BY <3>1, <3>2, <3>4, <1>15
  <2>3. x[l + 1].b = b /\ x[l + 1].e = e /\ (l + 1) - 1 = l
    BY <1>3, <1>7
  <2>4. b \in Nat /\ e \in Nat /\ 1 <= b /\ b <= e /\ e <= Len(s) /\ (e = Len(s) \/ s[e + 1] = Blank)
    BY <1>0, <1>2 DEF WordEnd
  <2> QED BY <2>1, <2>2, <2>3, <2>4, <1>2 DEF IsWord
<1>17. \A n \in 1 .. l : IsWord(x, s, n)
  <2> SUFFICES ASSUME NEW n \in 1 .. l PROVE IsWord(x, s, n)
    OBVIOUS
  <2>1. x[n] = w[n] /\ (n # 1 => x[n - 1] = w[n - 1])
    <3>1. n # 1 => n - 1 \in 1 .. l
      BY <1>7
    <3> QED BY <3>1, <1>7
  <2>2. IsWord(w, s, n)
    BY <1>10
  <2> QED BY <2>1, <2>2 DEF IsWord
<1>18. \A n \in 1 .. Len(x) : IsWord(x, s, n)
  <2>1. \A n \in 1 .. Len(x) : n \in 1 .. l \/ n = l + 1
    BY <1>7
  <2> QED BY <2>1, <1>16, <1>17
<1>19. \A j \in LastEnd(x) + 1 .. e : ~WordEnd(s, j)
  <2>1. LastEnd(x) + 1 .. e = {}
    BY <1>0, <1>8
  <2> QED BY <2>1
<1>20. x \in Str
  BY <1>4, <1>7 DEF Str
<1> QED BY <1>8, <1>18, <1>19, <1>20, <1>0 DEF Tokenised

WordsOf(s) == [e \in DOMAIN s |->
        IF s[e] # Blank /\ (e = Len(s) \/ s[e + 1] = Blank) THEN <<[b |-> Begin(s, e), e |-> e]>> ELSE <<>>]

\* The words of a text that begins with no blank: induction on where they end.
LEMMA TokensAre ==
    ASSUME NEW s \in Seq(Chars), s # <<>>, s[1] # Blank
    PROVE  Tokenised(Tokens(s), s, Len(s))
<1>1. PICK f, L : f = WordsOf(s) /\ L = Len(s)
  OBVIOUS
<1>2. L \in Nat /\ DOMAIN s = 1 .. L /\ L # 0
  BY <1>1
<1>3. /\ f = [e \in 1 .. L |-> f[e]]
      /\ \A e \in 1 .. L : f[e] = IF WordEnd(s, e) THEN <<[b |-> Begin(s, e), e |-> e]>> ELSE <<>>
  BY <1>1, <1>2 DEF WordsOf, WordEnd
<1>4. \A e \in 1 .. L : f[e] \in Str
  <2> SUFFICES ASSUME NEW e \in 1 .. L PROVE f[e] \in Str
    OBVIOUS
  <2>1. CASE ~WordEnd(s, e)
    BY <2>1, <1>3, StrEmpty
  <2>2. CASE WordEnd(s, e)
    <3>1. e \in Nat /\ e # 0 /\ s[e] # Blank
      BY <2>2, <1>2 DEF WordEnd
    <3>2. Begin(s, e) \in 1 .. e
      BY <3>1, BeginIs
    <3>3. PICK v : v = [b |-> Begin(s, e), e |-> e]
      OBVIOUS
    <3>4. v \in Item
      BY <3>1, <3>2, <3>3 DEF Item
    <3>5. <<v>> \in Str
      BY <3>4 DEF Str
    <3> QED BY <3>3, <3>5, <2>2, <1>3
  <2> QED BY <2>1, <2>2
<1>5. Has(f, 0, L)
  BY <1>2, <1>4 DEF Has
<1>6. Tokens(s) = Join(f, 0, L)
  <2>1. FlattenSeq([e \in 1 .. L |-> f[e]]) = Join(f, 0, L)
    BY <1>2, <1>5, FlattenJoin
  <2>2. Tokens(s) = FlattenSeq(f)
    BY <1>1 DEF Tokens, WordsOf
  <2> QED BY <2>1, <2>2, <1>3
<1> DEFINE S == {m \in Nat : Tokenised(Join(f, 0, m), s, m)}
<1>7. 0 \in S
  <2>1. Join(f, 0, 0) = <<>>
    BY JoinNone
  <2>2. Tokenised(<<>>, s, 0)
    BY StrEmpty DEF Tokenised, LastEnd
  <2> QED BY <2>1, <2>2
<1>8. \A m \in 0 .. L - 1 : m \in S => m + 1 \in S
  <2> SUFFICES ASSUME NEW m \in 0 .. L - 1, Tokenised(Join(f, 0, m), s, m)
               PROVE  Tokenised(Join(f, 0, m + 1), s, m + 1)
    OBVIOUS
  <2>1. PICK e : e = m + 1
    OBVIOUS
  <2>2. m \in Nat /\ e \in Nat /\ Succ(m, e) /\ 0 <= m /\ m <= e /\ e <= L /\ 0 <= e /\ e \in 1 .. L
    BY <1>2, <2>1 DEF Succ
  <2>3. Has(f, 0, e)
    BY <2>2, <1>5, HasParts
  <2>4. Has(f, 0, m) /\ Has(f, m, e)
    BY <2>2, <2>3, HasParts
  <2>5. Join(f, 0, e) = Join(f, 0, m) \o f[e]
    <3>1. Succ(m, e)
      BY <2>2
    <3> QED BY <3>1, <2>4, JoinNext
  <2>6. PICK w : w = Join(f, 0, m)
    OBVIOUS
  <2>7. CASE WordEnd(s, e)
    <3>1. f[e] = <<[b |-> Begin(s, e), e |-> e]>>
      BY <2>2, <2>7, <1>3
    <3>2. PICK v, x : v = [b |-> Begin(s, e), e |-> e] /\ x = w \o <<v>>
      OBVIOUS
    <3>3. Tokenised(x, s, e)
      <4>1. m \in Nat /\ e = m + 1 /\ Len(s) \in Nat /\ e <= Len(s) /\ s[1] # Blank /\ Tokenised(w, s, m) /\ WordEnd(s, e)
        BY <1>1, <1>2, <2>1, <2>2, <2>6, <2>7
      <4> QED BY <4>1, <3>2, NextWord
    <3> QED BY <3>1, <3>2, <3>3, <2>1, <2>5, <2>6
  <2>8. CASE ~WordEnd(s, e)
    <3>1. f[e] = <<>>
      BY <2>2, <2>8, <1>3
    <3>2. Tokenised(w, s, m)
      BY <2>6
    <3>3. w \o <<>> = w
      BY <3>2, StrEmptyConcat DEF Tokenised
    <3>4. Tokenised(w, s, e)
      <4>1. PICK l : l = LastEnd(w)
        OBVIOUS
      <4>2. l <= m /\ w \in Str /\ (\A n \in 1 .. Len(w) : IsWord(w, s, n)) /\ \A j \in l + 1 .. m : ~WordEnd(s, j)
        BY <3>2, <4>1 DEF Tokenised
      <4>3. l \in Nat
        <5>1. CASE w = <<>>
          BY <4>1, <5>1 DEF LastEnd
        <5>2. CASE w # <<>>
          <6>1. Len(w) \in 1 .. Len(w)
            BY <4>2, <5>2 DEF Str
          <6>2. w[Len(w)].e \in Nat
            BY <4>2, <6>1 DEF IsWord
          <6> QED BY <5>2, <6>2, <4>1 DEF LastEnd
        <5> QED BY <5>1, <5>2
      <4>4. l <= e /\ \A j \in l + 1 .. e : j \in l + 1 .. m \/ j = e
        BY <4>2, <4>3, <2>1, <2>2
      <4> QED BY <4>1, <4>2, <4>4, <2>8 DEF Tokenised
    <3> QED BY <3>1, <3>3, <3>4, <2>1, <2>5, <2>6
  <2> QED BY <2>7, <2>8
<1> HIDE DEF S
<1>9. 0 .. L \subseteq S
  BY <1>2, <1>7, <1>8, UpTo
<1>10. L \in S
  BY <1>2, <1>9
<1> QED BY <1>1, <1>6, <1>10 DEF S

-----------------------------------------------------------------------------
(* The first percent *)

\* The texts parse_crontab leaves.
LEMMA TextIs ==
    ASSUME text \in Texts
    PROVE  /\ text \in Seq(Chars) /\ text # <<>> /\ text[1] # Blank /\ text[Len(text)] # Blank
           /\ Len(text) \in Nat /\ Len(text) # 0 /\ DOMAIN text = 1 .. Len(text)
<1>1. text \in Seq(Chars \ {"\n"}) /\ text # <<>> /\ text[1] # Blank /\ text[Len(text)] # Blank
  BY TextsAssumption
<1>2. PICK T : T = Chars
  OBVIOUS
<1>3. text \in Seq(T)
  BY <1>1, <1>2
<1> QED BY <1>1, <1>2, <1>3

\* Their last word ends where they do, for they end with no blank.
LEMMA TextTokens ==
    ASSUME text \in Texts
    PROVE  /\ Tokenised(Tokens(text), text, Len(text)) /\ LastEnd(Tokens(text)) = Len(text)
           /\ Len(Tokens(text)) \in Nat /\ Len(Tokens(text)) # 0 /\ DOMAIN Tokens(text) = 1 .. Len(Tokens(text))
<1>1. Tokenised(Tokens(text), text, Len(text))
  BY TextIs, TokensAre
<1>2. PICK w, l, L : w = Tokens(text) /\ l = LastEnd(w) /\ L = Len(text)
  OBVIOUS
<1>3. w \in Str /\ l <= L /\ L \in Nat /\ L # 0 /\ \A j \in l + 1 .. L : ~WordEnd(text, j)
  BY <1>1, <1>2, TextIs DEF Tokenised
<1>4. WordEnd(text, L)
  BY <1>2, TextIs DEF WordEnd
<1>5. l \in Nat
  <2>1. CASE w = <<>>
    BY <1>2, <2>1 DEF LastEnd
  <2>2. CASE w # <<>>
    <3>1. Len(w) \in 1 .. Len(w)
      BY <1>3, <2>2 DEF Str
    <3>2. w[Len(w)].e \in Nat
      BY <1>1, <1>2, <3>1 DEF Tokenised, IsWord
    <3> QED BY <2>2, <3>2, <1>2 DEF LastEnd
  <2> QED BY <2>1, <2>2
<1>6. l = L
  BY <1>3, <1>4, <1>5
<1>7. w # <<>>
  BY <1>2, <1>3, <1>6 DEF LastEnd
<1>8. Len(w) \in Nat /\ Len(w) # 0 /\ DOMAIN w = 1 .. Len(w)
  BY <1>3, <1>7 DEF Str
<1> QED BY <1>1, <1>2, <1>6, <1>8

\* What is not blank is in a word.
LEMMA Covered ==
    ASSUME NEW w, NEW s, NEW i \in Nat, i # 0, i <= LastEnd(w), s[i] # Blank,
           Tokenised(w, s, Len(s)), w # <<>>
    PROVE  \E n \in 1 .. Len(w) : Holds(w[n], i)
<1>1. Len(w) \in Nat /\ Len(w) # 0 /\ \A n \in 1 .. Len(w) : IsWord(w, s, n)
  BY DEF Tokenised, Str
<1> DEFINE S == {n \in 1 .. Len(w) : i <= w[n].e}
<1>2. Len(w) \in S /\ S \subseteq Nat
  BY <1>1 DEF LastEnd
<1>3. PICK n \in S : \A k \in S : n <= k
  <2> HIDE DEF S
  <2> QED BY <1>2, Least
<1>4. n \in 1 .. Len(w) /\ i <= w[n].e /\ IsWord(w, s, n)
  BY <1>1
<1>5. w[n].b <= i
  <2>1. CASE n = 1
    BY <1>4, <2>1 DEF IsWord
  <2>2. CASE n # 1
    <3>1. n - 1 \in 1 .. Len(w) /\ ~(n <= n - 1)
      BY <1>1, <1>4, <2>2
    <3>2. ~(i <= w[n - 1].e) /\ w[n - 1].e \in Nat
      BY <1>1, <1>3, <3>1 DEF IsWord
    <3>3. w[n].b \in Nat /\ \A k \in w[n - 1].e + 1 .. w[n].b - 1 : s[k] = Blank
      BY <1>4, <2>2 DEF IsWord
    <3> HIDE DEF S
    <3>4. i \in w[n - 1].e + 1 .. w[n].b - 1 => s[i] = Blank
      BY <3>3
    <3> QED BY <3>2, <3>3, <3>4
  <2> QED BY <2>1, <2>2
<1> QED BY <1>4, <1>5 DEF Holds

\* The percents that no backslash precedes.
Bare(s) == {i \in DOMAIN s : s[i] = "%" /\ ~(i > 1 /\ s[i - 1] = "\\")}

\* parse_percent looks for them word by word, and finds them all: the character
\* before a word is no backslash.
LEMMA PercentsAre ==
    ASSUME text \in Texts
    PROVE  Percents = Bare(text)
<1>1. PICK w, L : w = Tokens(text) /\ L = Len(text)
  OBVIOUS
<1>2. /\ Tokenised(w, text, L) /\ LastEnd(w) = L /\ Len(w) \in Nat /\ Len(w) # 0 /\ DOMAIN w = 1 .. Len(w)
      /\ L \in Nat /\ DOMAIN text = 1 .. L /\ w # <<>>
  <2>1. /\ Tokenised(w, text, L) /\ LastEnd(w) = L /\ Len(w) \in Nat /\ Len(w) # 0 /\ DOMAIN w = 1 .. Len(w)
        /\ L \in Nat /\ DOMAIN text = 1 .. L
    BY <1>1, TextIs, TextTokens
  <2>2. w # <<>>
    BY <2>1
  <2> QED BY <2>1, <2>2
<1>3. ASSUME NEW i \in 1 .. L
      PROVE  (\E n \in 1 .. Len(w) : Holds(w[n], i) /\ Unescaped(w[n], i))
             <=> (text[i] = "%" /\ ~(i > 1 /\ text[i - 1] = "\\"))
  <2>1. ASSUME NEW n \in 1 .. Len(w), Holds(w[n], i), Unescaped(w[n], i)
        PROVE  text[i] = "%" /\ ~(i > 1 /\ text[i - 1] = "\\")
    <3>1. IsWord(w, text, n)
      BY <1>2 DEF Tokenised
    <3>2. text[i] = "%" /\ (i = w[n].b \/ text[i - 1] # "\\")
      BY <2>1 DEF Unescaped
    <3>3. ASSUME i = w[n].b, i > 1 PROVE text[i - 1] = Blank
      <4>1. n # 1 /\ w[n - 1].e < w[n].b - 1 /\ \A k \in w[n - 1].e + 1 .. w[n].b - 1 : text[k] = Blank
        BY <3>1, <3>3 DEF IsWord
      <4>2. n - 1 \in 1 .. Len(w)
        BY <4>1, <1>2
      <4>3. w[n - 1].e \in Nat
        BY <4>2, <1>2 DEF Tokenised, IsWord
      <4>4. i - 1 \in w[n - 1].e + 1 .. w[n].b - 1
        BY <4>1, <4>3, <3>3
      <4> QED BY <4>1, <4>4
    <3> QED BY <3>2, <3>3, BlankIs
  <2>2. ASSUME text[i] = "%", ~(i > 1 /\ text[i - 1] = "\\")
        PROVE  \E n \in 1 .. Len(w) : Holds(w[n], i) /\ Unescaped(w[n], i)
    <3>1. i \in Nat /\ i # 0 /\ i <= LastEnd(w) /\ text[i] # Blank /\ Tokenised(w, text, Len(text))
      <4>1. i \in Nat /\ i # 0 /\ i <= LastEnd(w)
        BY <1>2
      <4>2. text[i] # Blank
        BY <2>2, BlankIs
      <4> QED BY <4>1, <4>2, <1>1, <1>2
    <3>2. PICK n \in 1 .. Len(w) : Holds(w[n], i)
      BY <3>1, <1>2, Covered
    <3>3. IsWord(w, text, n)
      BY <1>2 DEF Tokenised
    <3>4. i > 1 \/ i = w[n].b
      BY <3>1, <3>2, <3>3 DEF IsWord, Holds
    <3>5. Unescaped(w[n], i)
      BY <2>2, <3>4 DEF Unescaped
    <3> QED BY <3>2, <3>5
  <2> QED BY <2>1, <2>2
<1>4. Percents = {i \in 1 .. L : \E n \in 1 .. Len(w) : Holds(w[n], i) /\ Unescaped(w[n], i)}
  BY <1>1, <1>2 DEF Percents
<1>5. Bare(text) = {i \in 1 .. L : text[i] = "%" /\ ~(i > 1 /\ text[i - 1] = "\\")}
  BY <1>1, <1>2 DEF Bare
<1> QED BY <1>3, <1>4, <1>5

\* The first percent of the words is the first of the text.
LEMMA FirstIs ==
    ASSUME text \in Texts
    PROVE  /\ Percents = {} => FirstPercent(text) = 0
           /\ Percents # {} => /\ FirstPercent(text) = First /\ First # 0
                               /\ First \in Percents /\ \A k \in Percents : First <= k
<1>1. FirstPercent(text) = IF Bare(text) = {} THEN 0 ELSE CHOOSE i \in Bare(text) : \A k \in Bare(text) : i <= k
  BY DEF FirstPercent, Bare
<1>2. Percents = Bare(text)
  BY PercentsAre
<1>3. Percents # {} => First \in Percents /\ \A k \in Percents : First <= k
  <2> SUFFICES ASSUME Percents # {} PROVE First \in Percents /\ \A k \in Percents : First <= k
    OBVIOUS
  <2>1. Percents \subseteq Nat
    BY TextIs DEF Percents
  <2>2. \E i \in Percents : \A k \in Percents : i <= k
    BY <2>1, Least
  <2> QED BY <2>2 DEF First
<1>4. Percents # {} => FirstPercent(text) = First
  BY <1>1, <1>2 DEF First
<1>5. First \in Percents => First # 0
  BY TextIs DEF Percents
<1> QED BY <1>1, <1>2, <1>3, <1>4, <1>5

-----------------------------------------------------------------------------
(* The command part, by position *)

Apart(s, i) == i < Len(s) /\ s[i + 1] # Blank /\ \E k \in 1 .. i : s[k] # Blank

\* What the character at i adds to the command part of s.
Adds(s, i, np) == IF s[i] = Blank THEN (IF Apart(s, i) THEN <<Blank>> ELSE <<>>)
                  ELSE IF np THEN <<s[i]>> ELSE Read(s, i, "%")
Parts(s, np) == [i \in DOMAIN s |-> Adds(s, i, np)]

\* The command part joins what each character adds.
LEMMA PartsAre ==
    ASSUME NEW s \in Seq(Chars), NEW np
    PROVE  /\ Len(s) \in Nat /\ Has(Parts(s, np), 0, Len(s))
           /\ FlattenSeq(Parts(s, np)) = Join(Parts(s, np), 0, Len(s))
           /\ \A i \in 1 .. Len(s) : Parts(s, np)[i] = Adds(s, i, np)
<1>1. Len(s) \in Nat /\ DOMAIN s = 1 .. Len(s) /\ \A i \in 1 .. Len(s) : s[i] \in Chars
  OBVIOUS
<1>2. PICK r : r = Parts(s, np)
  OBVIOUS
<1>3. r = [i \in 1 .. Len(s) |-> Adds(s, i, np)]
  BY <1>1, <1>2 DEF Parts
<1>4. \A i \in 1 .. Len(s) : Adds(s, i, np) \in Seq(Chars)
  <2>0. <<>> \in Seq(Chars)
    OBVIOUS
  <2>1. Blank \in Chars /\ <<>> \in Seq(Chars)
    BY <2>0, BlankIs
  <2>2. \A c \in Chars : <<c>> \in Seq(Chars)
    OBVIOUS
  <2>3. \A i \in 1 .. Len(s) : Read(s, i, "%") \in Seq(Chars)
    BY <1>1, <2>1, <2>2, Percent DEF Read
  <2> QED BY <1>1, <2>1, <2>2, <2>3 DEF Adds
<1>5. \A i \in 1 .. Len(s) : r[i] = Adds(s, i, np) /\ r[i] \in Str
  BY <1>3, <1>4, CharsInStr
<1>6. Has(r, 0, Len(s))
  BY <1>1, <1>5 DEF Has
<1>7. r = [i \in 1 .. Len(s) |-> r[i]]
  BY <1>3
<1>8. FlattenSeq(r) = Join(r, 0, Len(s))
  BY <1>1, <1>6, <1>7, FlattenJoin
<1> QED BY <1>1, <1>2, <1>5, <1>6, <1>8

\* v is the run of characters of s after a and up to e.
Run(s, a, e, v) ==
    /\ s \in Seq(Chars) /\ v \in Seq(Chars) /\ a \in Nat /\ e \in Nat /\ a <= e /\ e <= Len(s) /\ Len(s) \in Nat
    /\ Len(v) = e - a /\ \A i \in 1 .. e - a : v[i] = s[a + i]
    /\ \A k \in a + 1 .. e : s[k] # Blank
    /\ e = Len(s) \/ s[e + 1] = Blank

\* Read on its own, a word says what it says in the line: no escape straddles its
\* ends.
LEMMA RunRead ==
    ASSUME NEW s, NEW a, NEW e, NEW v, Run(s, a, e, v)
    PROVE  Join(Parts(s, FALSE), a, e) = Reads(v, "%")
<1>0. /\ s \in Seq(Chars) /\ v \in Seq(Chars) /\ a \in Nat /\ e \in Nat /\ a <= e /\ e <= Len(s) /\ Len(s) \in Nat
      /\ Len(v) = e - a /\ \A i \in 1 .. e - a : v[i] = s[a + i]
  BY DEF Run
<1>1. PICK p, r, l : p = Parts(s, FALSE) /\ r = Readings(v, "%") /\ l = e - a
  OBVIOUS
<1>2. l \in Nat /\ l = Len(v) /\ \A i \in 1 .. l : a + i \in 1 .. Len(s) /\ a + i \in a + 1 .. e
  BY <1>0, <1>1
<1>3. ASSUME NEW i \in 1 .. l PROVE Read(s, a + i, "%") = Read(v, i, "%")
  <2>1. v[i] = s[a + i]
    BY <1>0, <1>1
  <2>2. (i < Len(v) /\ v[i + 1] = "%") <=> (a + i < Len(s) /\ s[a + i + 1] = "%")
    <3>1. CASE i < l
      <4>1. i + 1 \in 1 .. e - a /\ a + (i + 1) = a + i + 1 /\ a + i < Len(s) /\ i < Len(v)
        BY <3>1, <1>0, <1>1, <1>2
      <4>2. v[i + 1] = s[a + (i + 1)]
        BY <4>1, <1>0
      <4> QED BY <4>1, <4>2
    <3>2. CASE ~(i < l)
      <4>1. a + i = e /\ ~(i < Len(v))
        BY <3>2, <1>0, <1>1, <1>2
      <4>2. e = Len(s) \/ s[e + 1] = Blank
        BY DEF Run
      <4>3. e < Len(s) => s[e + 1] # "%"
        <5>1. e < Len(s) => e # Len(s)
          BY <1>0
        <5> QED BY <5>1, <4>2, BlankIs
      <4> QED BY <4>1, <4>3
    <3> QED BY <3>1, <3>2
  <2> QED BY <2>1, <2>2 DEF Read
<1>4. ASSUME NEW i \in 1 .. l PROVE p[a + i] = r[0 + i]
  <2>1. a + i \in 1 .. Len(s) /\ s[a + i] # Blank /\ 0 + i = i /\ i \in 1 .. Len(v)
    BY <1>2 DEF Run
  <2>2. p[a + i] = Adds(s, a + i, FALSE)
    BY <2>1, <1>0, <1>1, PartsAre
  <2>3. r[i] = Read(v, i, "%")
    BY <2>1, <1>0, <1>1, Percent, ReadingsAre
  <2> QED BY <2>1, <2>2, <2>3, <1>3 DEF Adds
<1>5. Same(p, a, e, r, 0, l)
  <2>1. a \in Nat /\ e \in Nat /\ 0 \in Nat /\ l \in Nat /\ l - 0 = e - a /\ 1 .. e - a = 1 .. l
    BY <1>0, <1>1, <1>2
  <2> QED BY <2>1, <1>4 DEF Same
<1>6. Join(p, a, e) = Join(r, 0, l)
  BY <1>5, JoinSame
<1>7. Reads(v, "%") = Join(r, 0, l)
  BY <1>0, <1>1, <1>2, Percent, ReadingsAre
<1> QED BY <1>1, <1>6, <1>7

Slice(T, s, a, b, t) ==
    s \in Seq(T) /\ a \in Nat /\ b \in Nat /\ a <= b /\ b <= Len(s) /\ t = SubSeq(s, a + 1, b)

\* A piece of a sequence, by position, with its hypotheses as one.
LEMMA SliceIs ==
    ASSUME NEW T, NEW s, NEW a, NEW b, NEW t, Slice(T, s, a, b, t)
    PROVE  t \in Seq(T) /\ Len(t) = b - a /\ DOMAIN t = 1 .. b - a /\ \A i \in 1 .. b - a : t[i] = s[a + i]
<1>0. s \in Seq(T) /\ a \in Nat /\ b \in Nat /\ a <= b /\ b <= Len(s) /\ t = SubSeq(s, a + 1, b)
  BY DEF Slice
<1>1. \A i \in a + 1 .. b : s[i] \in T
  <2>1. Len(s) \in Nat /\ \A i \in a + 1 .. b : i \in 1 .. Len(s)
    BY <1>0
  <2> QED BY <2>1, <1>0, ElementOfSeq
<1>2. PICK m : m = a + 1
  OBVIOUS
<1>3. m \in Int /\ b \in Int /\ \A i \in m .. b : s[i] \in T
  BY <1>0, <1>1, <1>2
<1>4. /\ SubSeq(s, m, b) \in Seq(T)
      /\ Len(SubSeq(s, m, b)) = (IF m <= b THEN b - m + 1 ELSE 0)
      /\ \A i \in 1 .. b - m + 1 : SubSeq(s, m, b)[i] = s[m + i - 1]
  BY <1>3, SubSeqProperties
<1>5. b - m + 1 = b - a /\ (~(m <= b) => b - a = 0) /\ \A i \in 1 .. b - a : m + i - 1 = a + i
  BY <1>0, <1>2
<1>6. t \in Seq(T) /\ Len(t) = b - a /\ \A i \in 1 .. b - a : t[i] = s[a + i]
  BY <1>0, <1>2, <1>4, <1>5
<1>7. DOMAIN t = 1 .. Len(t)
  BY <1>6
<1> QED BY <1>6, <1>7

\* From /etc/anacrontab, a word is itself.
LEMMA RunSelf ==
    ASSUME NEW s, NEW a, NEW e, NEW v, Run(s, a, e, v)
    PROVE  Join(Parts(s, TRUE), a, e) = v
<1>0. /\ s \in Seq(Chars) /\ v \in Seq(Chars) /\ a \in Nat /\ e \in Nat /\ a <= e /\ e <= Len(s) /\ Len(s) \in Nat
      /\ Len(v) = e - a /\ \A i \in 1 .. e - a : v[i] = s[a + i]
  BY DEF Run
<1>1. PICK p : p = Parts(s, TRUE)
  OBVIOUS
<1>2. ASSUME NEW i \in a + 1 .. e PROVE p[i] = <<s[i]>>
  <2>1. i \in 1 .. Len(s) /\ s[i] # Blank
    BY <1>0 DEF Run
  <2>2. p[i] = Adds(s, i, TRUE)
    BY <2>1, <1>0, <1>1, PartsAre
  <2> QED BY <2>1, <2>2 DEF Adds
<1>3. Singles(p, a, e, s)
  <2>1. s \in Str
    BY <1>0, CharsInStr
  <2> QED BY <2>1, <1>0, <1>2 DEF Singles
<1>4. Join(p, a, e) = SubSeq(s, a + 1, e)
  BY <1>3, JoinSingles
<1>5. PICK t, T : t = SubSeq(s, a + 1, e) /\ T = Chars
  OBVIOUS
<1>6. t \in Seq(T) /\ Len(t) = e - a /\ \A i \in 1 .. e - a : t[i] = s[a + i]
  <2>1. Slice(T, s, a, e, t)
    BY <1>0, <1>5 DEF Slice
  <2> QED BY <2>1, SliceIs
<1>7. v \in Seq(T) /\ Len(t) = Len(v) /\ \A i \in 1 .. Len(t) : t[i] = v[i]
  BY <1>0, <1>5, <1>6
<1>8. t = v
  BY <1>6, <1>7, SeqEqual
<1> QED BY <1>1, <1>4, <1>5, <1>8

\* Between f and b, two characters of s, there are blanks, the last of them at c.
Gap(s, f, c, b) ==
    /\ s \in Seq(Chars) /\ f \in Nat /\ b \in Nat /\ c \in Nat
    /\ f # 0 /\ f < c /\ Succ(c, b) /\ b <= Len(s) /\ s[f] # Blank /\ s[b] # Blank
    /\ \A k \in f + 1 .. c : s[k] = Blank

\* The blanks between two words are one, those at the end none.
LEMMA GapPart ==
    ASSUME NEW s, NEW np, NEW f, NEW b, NEW c, Gap(s, f, c, b)
    PROVE  Join(Parts(s, np), f, c) = <<Blank>>
<1>0. /\ s \in Seq(Chars) /\ f \in Nat /\ b \in Nat /\ c \in Nat
      /\ f # 0 /\ f < c /\ Succ(c, b) /\ b <= Len(s) /\ s[f] # Blank /\ s[b] # Blank
      /\ \A k \in f + 1 .. c : s[k] = Blank
  BY DEF Gap
<1>1. PICK p, d : p = Parts(s, np) /\ d = c - 1
  OBVIOUS
<1>2. b = c + 1 /\ d \in Nat /\ f <= d /\ d <= c /\ c <= Len(s) /\ Len(s) \in Nat /\ Succ(d, c) /\ c < Len(s)
  BY <1>0, <1>1 DEF Succ
<1>3. ASSUME NEW i \in f + 1 .. d PROVE p[i] = <<>>
  <2>1. i \in 1 .. Len(s) /\ i \in f + 1 .. c /\ i + 1 \in f + 1 .. c
    BY <1>0, <1>1, <1>2
  <2>2. p[i] = Adds(s, i, np) /\ s[i] = Blank /\ s[i + 1] = Blank
    BY <2>1, <1>0, <1>1, PartsAre
  <2> QED BY <2>2 DEF Adds, Apart
<1>4. p[c] = <<Blank>>
  <2>1. c \in 1 .. Len(s) /\ c \in f + 1 .. c /\ f \in 1 .. c
    BY <1>0, <1>2
  <2>2. p[c] = Adds(s, c, np) /\ s[c] = Blank
    BY <2>1, <1>0, <1>1, PartsAre
  <2>3. Apart(s, c)
    BY <2>1, <1>0, <1>2 DEF Apart
  <2> QED BY <2>2, <2>3 DEF Adds
<1>5. Has(p, f, d) /\ Has(p, d, c)
  <2>1. Has(p, 0, Len(s)) /\ 0 <= f /\ f <= Len(s) /\ d <= Len(s)
    BY <1>0, <1>1, <1>2, PartsAre
  <2>2. Has(p, f, Len(s))
    BY <2>1, <1>0, HasParts
  <2>3. Has(p, d, Len(s)) /\ Has(p, f, d)
    BY <2>1, <2>2, <1>0, <1>2, HasParts
  <2> QED BY <2>3, <1>0, <1>2, HasParts
<1>6. Join(p, f, c) = Join(p, f, d) \o p[c] /\ p[c] \in Str
  BY <1>2, <1>5, JoinNext
<1>7. Empties(p, f, d)
  BY <1>0, <1>2, <1>3 DEF Empties
<1>8. Join(p, f, d) = <<>>
  BY <1>7, JoinEmpties
<1>9. <<>> \o p[c] = p[c]
  BY <1>6, StrEmptyConcat
<1> QED BY <1>1, <1>4, <1>6, <1>8, <1>9

\* Blanks at the end add nothing.
LEMMA EndPart ==
    ASSUME NEW s \in Seq(Chars), NEW np, NEW f \in Nat, f <= Len(s), \A k \in f + 1 .. Len(s) : s[k] = Blank
    PROVE  Join(Parts(s, np), f, Len(s)) = <<>>
<1>1. PICK p : p = Parts(s, np)
  OBVIOUS
<1>2. ASSUME NEW i \in f + 1 .. Len(s) PROVE p[i] = <<>>
  <2>1. i \in 1 .. Len(s) /\ (i < Len(s) => i + 1 \in f + 1 .. Len(s))
    OBVIOUS
  <2>2. p[i] = Adds(s, i, np) /\ s[i] = Blank /\ (i < Len(s) => s[i + 1] = Blank)
    BY <2>1, <1>1, PartsAre
  <2> QED BY <2>2 DEF Adds, Apart
<1>3. Empties(p, f, Len(s))
  <2>1. Len(s) \in Nat
    OBVIOUS
  <2> QED BY <2>1, <1>2 DEF Empties
<1> QED BY <1>1, <1>3, JoinEmpties

-----------------------------------------------------------------------------
(* The script *)

\* The script takes a segment as it is, and a percent for a percent.
LEMMA FlatSegments ==
    ASSUME NEW x \in Seq(Segment)
    PROVE  Flat(x) = FedAll(x, "%")
<1>1. PICK G : G = Segment
  OBVIOUS
<1>2. DOMAIN x = 1 .. Len(x) /\ \A n \in 1 .. Len(x) : x[n] \in G
  <2>1. x \in Seq(G)
    BY <1>1
  <2> QED BY <2>1
<1>3. ASSUME NEW g \in Segment PROVE Fed(g, "%") = g.what
  <2>1. PICK w, T : w = g.what /\ T = Chars
    OBVIOUS
  <2>2. w \in Seq(T)
    BY <2>1 DEF Segment
  <2>3. w = [i \in DOMAIN w |-> w[i]]
    BY <2>2
  <2> QED BY <2>1, <2>3 DEF Fed
<1>4. [n \in DOMAIN x |-> x[n].what] = [n \in DOMAIN x |-> Fed(x[n], "%")]
  BY <1>1, <1>2, <1>3
<1> QED BY <1>4 DEF Flat, FedAll

\* One segment.
LEMMA FlatOne ==
    ASSUME NEW v \in Seq(Chars), NEW r
    PROVE  Flat(<<[what |-> v, raw |-> r]>>) = v
<1>1. PICK g, x, T : g = [what |-> v, raw |-> r] /\ x = <<g>> /\ T = Chars
  OBVIOUS
<1>2. DOMAIN x = {1} /\ x[1] = g /\ g.what = v
  BY <1>1
<1>3. [n \in DOMAIN x |-> x[n].what] = <<v>>
  BY <1>2
<1>4. v \in Seq(T)
  BY <1>1
<1>5. FlattenSeq(<<v>>) = v
  BY <1>4, FlattenOne
<1> QED BY <1>1, <1>3, <1>5 DEF Flat

\* What the script has of a word is what the line has of it.
LEMMA FlatPart ==
    ASSUME NEW s, NEW a, NEW e, NEW v, Run(s, a, e, v), nopercent \in BOOLEAN
    PROVE  Flat(Debackslashpercentise(v)) = Join(Parts(s, nopercent), a, e)
<1>1. v \in Seq(Chars)
  BY DEF Run
<1>2. CASE nopercent
  <2>1. Debackslashpercentise(v) = <<[what |-> v, raw |-> FALSE]>>
    BY <1>2 DEF Debackslashpercentise
  <2>2. nopercent = TRUE
    BY <1>2
  <2>3. Join(Parts(s, TRUE), a, e) = v
    BY RunSelf
  <2>4. Flat(Debackslashpercentise(v)) = v
    BY <1>1, <2>1, FlatOne
  <2> QED BY <2>2, <2>3, <2>4
<1>3. CASE ~nopercent
  <2>1. Debackslashpercentise(v) = Segments[v]
    BY <1>3 DEF Debackslashpercentise
  <2>2. nopercent = FALSE
    BY <1>3
  <2>3. Agrees(v, "%")
    BY <1>1, Percent, SegmentsRead
  <2>4. Segments[v] \in Seq(Segment) /\ FedAll(Segments[v], "%") = Reads(v, "%")
    BY <2>3 DEF Agrees
  <2>5. Flat(Segments[v]) = Reads(v, "%")
    BY <2>4, FlatSegments
  <2>6. Join(Parts(s, FALSE), a, e) = Reads(v, "%")
    BY RunRead
  <2> QED BY <2>1, <2>2, <2>5, <2>6
<1> QED BY <1>2, <1>3

\* A word of s, or what is left of one that a percent has cut.
IsPiece(w, s, n) ==
    /\ w[n].b \in Nat /\ w[n].e \in Nat /\ 1 <= w[n].b /\ w[n].b <= w[n].e + 1 /\ w[n].e <= Len(s)
    /\ \A k \in w[n].b .. w[n].e : s[k] # Blank
    /\ w[n].e = Len(s) \/ (s[w[n].e + 1] = Blank /\ w[n].b <= w[n].e)
    /\ n = 1 => w[n].b = 1
    /\ n # 1 => w[n - 1].e < w[n].b - 1 /\ \A k \in w[n - 1].e + 1 .. w[n].b - 1 : s[k] = Blank

Pieces(w, s) ==
    /\ s \in Seq(Chars) /\ Len(s) \in Nat
    /\ Len(w) \in Nat /\ Len(w) # 0 /\ DOMAIN w = 1 .. Len(w)
    /\ \A n \in 1 .. Len(w) : IsPiece(w, s, n)
    /\ w[Len(w)].e = Len(s)

Before(w, n) == IF n = 1 THEN 0 ELSE w[n - 1].e

\* Only the last may be empty.
LEMMA PieceEnds ==
    ASSUME NEW w, NEW s, Pieces(w, s), NEW n \in 1 .. Len(w)
    PROVE  /\ n < Len(w) => w[n].b <= w[n].e /\ w[n].e # 0 /\ s[w[n].e] # Blank
           /\ Before(w, n) \in Nat /\ Before(w, n) <= w[n].b - 1
           /\ n # 1 => /\ Before(w, n) # 0 /\ Before(w, n) < w[n].b - 1 /\ s[Before(w, n)] # Blank
                       /\ w[1].b <= w[1].e
<1>0. Len(w) \in Nat /\ Len(s) \in Nat /\ \A m \in 1 .. Len(w) : IsPiece(w, s, m)
  BY DEF Pieces
<1>1. ASSUME NEW m \in 1 .. Len(w), m < Len(w)
      PROVE  w[m].b <= w[m].e /\ w[m].e # 0 /\ s[w[m].e] # Blank /\ w[m].e \in Nat
  <2>1. m + 1 \in 1 .. Len(w) /\ m + 1 # 1 /\ (m + 1) - 1 = m
    BY <1>0, <1>1
  <2>2. PICK b, e, c, d : b = w[m].b /\ e = w[m].e /\ c = w[m + 1].b /\ d = w[m + 1].e
    OBVIOUS
  <2>3. b \in Nat /\ e \in Nat /\ 1 <= b /\ (\A k \in b .. e : s[k] # Blank) /\ (e = Len(s) \/ b <= e)
    BY <2>2, <1>0 DEF IsPiece
  <2>4. c \in Nat /\ d \in Nat /\ c <= d + 1 /\ d <= Len(s) /\ e < c - 1
    <3>1. IsPiece(w, s, m + 1)
      BY <2>1, <1>0
    <3> QED BY <2>1, <2>2, <3>1 DEF IsPiece
  <2>5. b <= e /\ e # 0 /\ e \in b .. e
    BY <2>3, <2>4, <1>0
  <2> QED BY <2>2, <2>3, <2>5
<1>2. IsPiece(w, s, n)
  BY <1>0
<1>3. CASE n = 1
  BY <1>1, <1>2, <1>3 DEF Before, IsPiece
<1>4. CASE n # 1
  <2>1. n - 1 \in 1 .. Len(w) /\ n - 1 < Len(w) /\ 1 \in 1 .. Len(w) /\ 1 < Len(w)
    BY <1>0, <1>4
  <2>2. w[n - 1].e # 0 /\ s[w[n - 1].e] # Blank /\ w[n - 1].e \in Nat /\ w[1].b <= w[1].e
    BY <2>1, <1>1
  <2>3. w[n - 1].e < w[n].b - 1 /\ w[n].b \in Nat
    BY <1>2, <1>4 DEF IsPiece
  <2>4. Before(w, n) = w[n - 1].e
    BY <1>4 DEF Before
  <2>5. w[n - 1].e <= w[n].b - 1
    BY <2>2, <2>3
  <2> QED BY <2>2, <2>3, <2>4, <2>5, <1>1
<1> QED BY <1>3, <1>4

\* What generate_scriptlet adds for a word.
Chunk(w, n, x) ==
    IF w[n].b > w[n].e THEN <<>>
    ELSE (IF \E m \in 1 .. n - 1 : ~(w[m].b > w[m].e) THEN <<Blank>> ELSE <<>>) \o x

\* A word, with the blank before it, is what the line has from the end of the word
\* before.
LEMMA ChunkIs ==
    ASSUME NEW w, NEW s, NEW np, Pieces(w, s), NEW n \in 1 .. Len(w), NEW x,
           x = Join(Parts(s, np), w[n].b - 1, w[n].e)
    PROVE  /\ Has(Parts(s, np), Before(w, n), w[n].e)
           /\ Join(Parts(s, np), Before(w, n), w[n].e) = Chunk(w, n, x)
<1>1. PICK b, e, f, p, c : b = w[n].b /\ e = w[n].e /\ f = Before(w, n) /\ p = Parts(s, np) /\ c = b - 1
  OBVIOUS
<1>2. /\ s \in Seq(Chars) /\ Len(s) \in Nat /\ b \in Nat /\ e \in Nat /\ 1 <= b /\ b <= e + 1 /\ e <= Len(s)
      /\ f \in Nat /\ f <= c
      /\ \A k \in b .. e : s[k] # Blank
      /\ e = Len(s) \/ b <= e
      /\ n = 1 => b = 1
  <2>1. IsPiece(w, s, n) /\ s \in Seq(Chars) /\ Len(s) \in Nat
    BY DEF Pieces
  <2>2. f \in Nat /\ f <= c
    BY <1>1, PieceEnds
  <2> QED BY <2>1, <2>2, <1>1 DEF IsPiece
<1>3. /\ n = 1 => f = 0
      /\ n # 1 => f # 0 /\ f < c /\ s[f] # Blank /\ w[1].b <= w[1].e /\ \A k \in f + 1 .. c : s[k] = Blank
  <2>1. n = 1 => f = 0
    BY <1>1 DEF Before
  <2>2. n # 1 => f # 0 /\ f < c /\ s[f] # Blank /\ w[1].b <= w[1].e
    BY <1>1, PieceEnds
  <2>3. n # 1 => \A k \in f + 1 .. c : s[k] = Blank
    <3>1. IsPiece(w, s, n)
      BY DEF Pieces
    <3> QED BY <3>1, <1>1 DEF IsPiece, Before
  <2> QED BY <2>1, <2>2, <2>3
<1>4. c \in Nat /\ c <= e /\ Succ(c, b) /\ 0 <= f /\ f <= e /\ c <= Len(s) /\ f <= Len(s)
  BY <1>1, <1>2 DEF Succ
<1>5. Has(p, f, c) /\ Has(p, c, e) /\ Has(p, f, e)
  <2>1. Has(p, 0, Len(s))
    BY <1>1, <1>2, PartsAre
  <2>2. Has(p, f, Len(s))
    BY <2>1, <1>2, <1>4, HasParts
  <2>3. Has(p, f, e)
    BY <2>2, <1>2, <1>4, HasParts
  <2> QED BY <2>3, <1>2, <1>4, HasParts
<1>6. CASE b > e
  <2>1. e = Len(s) /\ c = e
    BY <1>1, <1>2, <1>6
  <2>2. \A k \in f + 1 .. Len(s) : s[k] = Blank
    <3>1. CASE n = 1
      <4>1. f = 0 /\ Len(s) = 0
        BY <3>1, <2>1, <1>1, <1>2, <1>3
      <4> QED BY <4>1
    <3>2. CASE n # 1
      BY <3>2, <2>1, <1>3
    <3> QED BY <3>1, <3>2
  <2>3. Join(p, f, Len(s)) = <<>>
    BY <2>2, <1>1, <1>2, <1>4, EndPart
  <2>4. Chunk(w, n, x) = <<>>
    BY <1>1, <1>6 DEF Chunk
  <2> QED BY <2>1, <2>3, <2>4, <1>1, <1>5
<1>7. CASE ~(b > e)
  <2>1. x = Join(p, c, e) /\ x \in Str
    BY <1>1, <1>5, JoinType
  <2>2. Join(p, f, e) = Join(p, f, c) \o x
    BY <2>1, <1>5, JoinSplit
  <2>3. CASE n = 1
    <3>1. f = c
      BY <2>3, <1>1, <1>2, <1>3
    <3>2. Join(p, f, c) = <<>>
      BY <3>1, <1>2, JoinNone
    <3>3. ~\E m \in 1 .. n - 1 : ~(w[m].b > w[m].e)
      BY <2>3
    <3>4. Chunk(w, n, x) = <<>> \o x
      BY <3>3, <1>1, <1>7 DEF Chunk
    <3> QED BY <2>2, <3>2, <3>4, <1>1, <1>5
  <2>4. CASE n # 1
    <3>1. Join(p, f, c) = <<Blank>>
      <4>1. b <= Len(s) /\ b \in b .. e
        BY <1>2, <1>7
      <4>2. s[b] # Blank
        BY <4>1, <1>2
      <4>3. Gap(s, f, c, b)
        BY <4>1, <4>2, <1>2, <1>3, <1>4, <2>4 DEF Gap
      <4> QED BY <4>3, <1>1, GapPart
    <3>2. 1 \in 1 .. n - 1 /\ ~(w[1].b > w[1].e)
      <4>1. 1 \in 1 .. n - 1 /\ 1 \in 1 .. Len(w)
        BY <2>4 DEF Pieces
      <4>2. IsPiece(w, s, 1)
        BY <4>1 DEF Pieces
      <4>3. w[1].b \in Nat /\ w[1].e \in Nat
        BY <4>2 DEF IsPiece
      <4> QED BY <4>1, <4>3, <1>3, <2>4
    <3>3. Chunk(w, n, x) = <<Blank>> \o x
      BY <3>2, <1>1, <1>7 DEF Chunk
    <3> QED BY <2>2, <3>1, <3>3, <1>1, <1>5
  <2> QED BY <2>3, <2>4
<1> QED BY <1>6, <1>7

EndOf(w, n) == IF n = 0 THEN 0 ELSE w[n].e

\* The script is what the line has, word after word.
LEMMA ScriptIs ==
    ASSUME NEW s, Pieces(words, s), nopercent \in BOOLEAN,
           \A n \in 1 .. Len(words) : Run(s, words[n].b - 1, words[n].e, View(words[n]))
    PROVE  Script = Join(Parts(s, nopercent), 0, Len(s))
<1>1. PICK w, p, N : w = words /\ p = Parts(s, nopercent) /\ N = Len(words)
  OBVIOUS
<1>2. /\ N \in Nat /\ N # 0 /\ DOMAIN w = 1 .. N /\ Len(w) = N
      /\ \A n \in 1 .. N : IsPiece(w, s, n)
      /\ w[N].e = Len(s) /\ Len(s) \in Nat /\ s \in Seq(Chars)
  BY <1>1 DEF Pieces
<1>3. PICK X : X = [n \in 1 .. N |-> Flat(Debackslashpercentise(View(words[n])))]
  OBVIOUS
<1>4. PICK g : g = [n \in 1 .. N |-> Chunk(w, n, X[n])]
  OBVIOUS
<1>5. Script = FlattenSeq(g)
  <2>1. [n \in DOMAIN words |->
            IF words[n].b > words[n].e THEN <<>>
            ELSE (IF \E m \in 1 .. n - 1 : ~(words[m].b > words[m].e) THEN <<Blank>> ELSE <<>>)
                 \o Flat(Debackslashpercentise(View(words[n])))] = g
    BY <1>1, <1>2, <1>3, <1>4 DEF Chunk
  <2> QED BY <2>1 DEF Script
<1>6. ASSUME NEW n \in 1 .. N
      PROVE  Has(p, Before(w, n), w[n].e) /\ Join(p, Before(w, n), w[n].e) = g[n] /\ g[n] \in Str
  <2>1. X[n] = Join(p, w[n].b - 1, w[n].e)
    <3>1. Flat(Debackslashpercentise(View(words[n]))) = Join(Parts(s, nopercent), words[n].b - 1, words[n].e)
      BY <1>1, FlatPart
    <3> QED BY <3>1, <1>1, <1>3
  <2>2. Pieces(w, s) /\ n \in 1 .. Len(w)
    BY <1>1
  <2>3. Has(p, Before(w, n), w[n].e) /\ Join(p, Before(w, n), w[n].e) = Chunk(w, n, X[n])
    BY <2>1, <2>2, <1>1, ChunkIs
  <2>4. g[n] = Chunk(w, n, X[n])
    BY <1>4
  <2> QED BY <2>3, <2>4, JoinType
<1>7. Has(g, 0, N)
  BY <1>2, <1>6 DEF Has
<1>8. FlattenSeq(g) = Join(g, 0, N)
  <2>1. g = [n \in 1 .. N |-> g[n]]
    BY <1>4
  <2>2. FlattenSeq([n \in 1 .. N |-> g[n]]) = Join(g, 0, N)
    BY <1>2, <1>7, FlattenJoin
  <2> QED BY <2>1, <2>2
<1> DEFINE S == {n \in Nat : Has(p, 0, EndOf(w, n)) /\ Join(g, 0, n) = Join(p, 0, EndOf(w, n))}
<1>9. 0 \in S
  <2>1. EndOf(w, 0) = 0
    BY DEF EndOf
  <2>2. Join(g, 0, 0) = <<>> /\ Join(p, 0, 0) = <<>> /\ Has(p, 0, 0)
    BY JoinNone DEF Has
  <2> QED BY <2>1, <2>2
<1>10. \A n \in 0 .. N - 1 : n \in S => n + 1 \in S
  <2> SUFFICES ASSUME NEW n \in 0 .. N - 1, n \in S PROVE n + 1 \in S
    OBVIOUS
  <2>1. PICK m, e, f : m = n + 1 /\ e = EndOf(w, n) /\ f = EndOf(w, m)
    OBVIOUS
  <2>2. m \in 1 .. N /\ m \in Nat /\ Succ(n, m) /\ n \in Nat /\ 0 <= n /\ n <= m /\ m <= N /\ 0 <= m /\ m # 0 /\ m - 1 = n
    BY <1>2, <2>1 DEF Succ
  <2>3. Has(p, 0, e) /\ Join(g, 0, n) = Join(p, 0, e)
    BY <2>1
  <2>4. e = Before(w, m) /\ f = w[m].e
    <3>1. (n = 0 <=> m = 1)
      BY <2>1, <2>2
    <3> QED BY <3>1, <2>1, <2>2 DEF EndOf, Before
  <2> HIDE DEF S
  <2>5. Has(p, e, f) /\ Join(p, e, f) = g[m]
    BY <2>2, <2>4, <1>6
  <2>6. Has(p, 0, f) /\ Join(p, 0, f) = Join(p, 0, e) \o Join(p, e, f)
    <3>1. PICK z : z = 0
      OBVIOUS
    <3>2. Has(p, z, e) /\ Has(p, e, f)
      BY <2>3, <2>5, <3>1
    <3>3. Has(p, z, f) /\ Join(p, z, f) = Join(p, z, e) \o Join(p, e, f)
      BY <3>2, HasBoth, JoinSplit
    <3> QED BY <3>1, <3>3
  <2>7. Has(g, 0, n) /\ Has(g, n, m)
    <3>1. Has(g, 0, m)
      BY <1>7, <2>2, HasParts
    <3> QED BY <3>1, <2>2, HasParts
  <2>8. Join(g, 0, m) = Join(g, 0, n) \o g[m]
    BY <2>2, <2>7, JoinNext
  <2>9. Has(p, 0, f) /\ Join(g, 0, m) = Join(p, 0, f)
    BY <2>3, <2>5, <2>6, <2>8
  <2> QED BY <2>1, <2>2, <2>9 DEF S
<1> HIDE DEF S
<1>11. 0 .. N \subseteq S
  BY <1>2, <1>9, <1>10, UpTo
<1>12. Join(g, 0, N) = Join(p, 0, EndOf(w, N))
  <2>1. N \in S
    BY <1>2, <1>11
  <2> QED BY <2>1 DEF S
<1>13. EndOf(w, N) = Len(s)
  BY <1>2 DEF EndOf
<1> QED BY <1>1, <1>5, <1>8, <1>12, <1>13

-----------------------------------------------------------------------------
(* The words after the parse *)

\* The documented command part, by position.
LEMMA CommandPartIs == CommandPart = FlattenSeq(Parts(Kept, nopercent))
<1>1. PICK s : s = Kept
  OBVIOUS
<1>2. CommandPart = FlattenSeq([i \in DOMAIN s |->
            IF s[i] = Blank THEN (IF i < Len(s) /\ s[i + 1] # Blank /\ \E k \in 1 .. i : s[k] # Blank THEN <<Blank>> ELSE <<>>)
            ELSE IF nopercent THEN <<s[i]>> ELSE Read(s, i, "%")])
  BY <1>1 DEF CommandPart
<1> QED BY <1>1, <1>2 DEF Parts, Adds, Apart

\* What is kept of the text is a prefix of it.
LEMMA KeptIs ==
    ASSUME text \in Texts, nopercent \in BOOLEAN
    PROVE  /\ nopercent \/ Percents = {} => ~Split /\ Kept = text
           /\ ~(nopercent \/ Percents = {}) => /\ Split /\ FirstPercent(text) = First
                                               /\ Kept \in Seq(Chars) /\ Len(Kept) = First - 1
           /\ Kept \in Seq(Chars) /\ Len(Kept) \in Nat /\ Len(Kept) <= Len(text)
           /\ \A i \in 1 .. Len(Kept) : Kept[i] = text[i]
<1>0. text \in Seq(Chars) /\ Len(text) \in Nat /\ DOMAIN text = 1 .. Len(text)
  BY TextIs
<1>1. CASE nopercent \/ Percents = {}
  <2>1. ~Split
    BY <1>1, FirstIs DEF Split
  <2>2. Kept = text
    BY <2>1 DEF Kept
  <2> QED BY <1>0, <1>1, <2>1, <2>2
<1>2. CASE ~(nopercent \/ Percents = {})
  <2>1. FirstPercent(text) = First /\ First # 0 /\ First \in Percents
    BY <1>2, FirstIs
  <2>2. First \in 1 .. Len(text)
    BY <2>1, <1>0 DEF Percents
  <2>3. PICK d, t, T : d = First - 1 /\ t = SubSeq(text, 0 + 1, d) /\ T = Chars
    OBVIOUS
  <2>4. d \in Nat /\ 0 <= d /\ d <= Len(text)
    BY <2>2, <2>3, <1>0
  <2>5. Slice(T, text, 0, d, t)
    BY <1>0, <2>3, <2>4 DEF Slice
  <2>6. t \in Seq(T) /\ Len(t) = d - 0 /\ \A i \in 1 .. d - 0 : t[i] = text[0 + i]
    BY <2>5, SliceIs
  <2>7. Split
    BY <1>2, <2>1 DEF Split
  <2>8. Kept = t
    <3>1. 0 + 1 = 1
      OBVIOUS
    <3> QED BY <3>1, <2>1, <2>3, <2>7 DEF Kept
  <2>9. d - 0 = d /\ \A i \in 1 .. d : 0 + i = i
    BY <2>4
  <2>10. Kept \in Seq(Chars) /\ Len(Kept) = d
    BY <2>3, <2>6, <2>8, <2>9
  <2>11. \A i \in 1 .. Len(Kept) : Kept[i] = text[i]
    BY <2>6, <2>8, <2>9, <2>10
  <2> QED BY <1>2, <2>1, <2>3, <2>4, <2>7, <2>10, <2>11
<1> QED BY <1>1, <1>2

\* The view of a piece is the characters of it.
LEMMA ViewRun ==
    ASSUME text \in Texts, nopercent \in BOOLEAN, NEW w, Pieces(w, Kept), NEW n \in 1 .. Len(w)
    PROVE  Run(Kept, w[n].b - 1, w[n].e, View(w[n]))
<1>1. PICK b, e, a, s, v, T : b = w[n].b /\ e = w[n].e /\ a = b - 1 /\ s = Kept /\ v = View(w[n]) /\ T = Chars
  OBVIOUS
<1>2. /\ b \in Nat /\ e \in Nat /\ 1 <= b /\ b <= e + 1 /\ e <= Len(s)
      /\ \A k \in b .. e : s[k] # Blank
      /\ e = Len(s) \/ s[e + 1] = Blank
  <2>1. IsPiece(w, s, n)
    BY <1>1 DEF Pieces
  <2> QED BY <2>1, <1>1 DEF IsPiece
<1>3. /\ s \in Seq(Chars) /\ Len(s) \in Nat /\ Len(s) <= Len(text) /\ Len(text) \in Nat
      /\ \A i \in 1 .. Len(s) : s[i] = text[i]
  BY <1>1, TextIs, KeptIs
<1>4. a \in Nat /\ a <= e /\ a + 1 = b /\ e <= Len(text)
  <2>1. a = b - 1
    BY <1>1
  <2>2. PICK l, k : l = Len(s) /\ k = Len(text)
    OBVIOUS
  <2>3. b \in Nat /\ e \in Nat /\ 1 <= b /\ b <= e + 1 /\ e <= l /\ l \in Nat /\ l <= k /\ k \in Nat
    BY <1>2, <1>3, <2>2
  <2> QED BY <2>1, <2>2, <2>3
<1>5. Slice(T, text, a, e, v)
  <2>1. v = SubSeq(text, b, e)
    BY <1>1 DEF View
  <2>2. text \in Seq(T)
    BY <1>1, TextIs
  <2> QED BY <2>1, <2>2, <1>2, <1>4 DEF Slice
<1>6. v \in Seq(T) /\ Len(v) = e - a /\ \A i \in 1 .. e - a : v[i] = text[a + i]
  BY <1>5, SliceIs
<1>7. \A i \in 1 .. e - a : v[i] = s[a + i]
  <2>1. \A i \in 1 .. e - a : a + i \in 1 .. Len(s)
    BY <1>2, <1>3, <1>4
  <2> QED BY <2>1, <1>3, <1>6
<1>8. Run(s, a, e, v)
  <2>1. v \in Seq(Chars)
    BY <1>1, <1>6
  <2> QED BY <2>1, <1>2, <1>3, <1>4, <1>6, <1>7 DEF Run
<1> QED BY <1>1, <1>8

\* Uncut, the words are pieces of the text.
LEMMA WholePieces ==
    ASSUME text \in Texts
    PROVE  Pieces(Tokens(text), text)
<1>1. PICK w, s : w = Tokens(text) /\ s = text
  OBVIOUS
<1>2. /\ Tokenised(w, s, Len(s)) /\ LastEnd(w) = Len(s) /\ s \in Seq(Chars) /\ Len(s) \in Nat
      /\ Len(w) \in Nat /\ Len(w) # 0 /\ DOMAIN w = 1 .. Len(w)
  BY <1>1, TextIs, TextTokens
<1>3. ASSUME NEW n \in 1 .. Len(w) PROVE IsPiece(w, s, n)
  <2>1. IsWord(w, s, n)
    BY <1>2 DEF Tokenised
  <2>2. w[n].b <= w[n].e + 1
    BY <2>1 DEF IsWord
  <2> QED BY <2>1, <2>2 DEF IsWord, IsPiece
<1>4. w[Len(w)].e = Len(s)
  <2>1. w # <<>>
    BY <1>2
  <2> QED BY <2>1, <1>2 DEF LastEnd
<1> QED BY <1>1, <1>2, <1>3, <1>4 DEF Pieces

\* The word that a percent cuts ends before it.
LEMMA CutPieces ==
    ASSUME text \in Texts, nopercent \in BOOLEAN, ~(nopercent \/ Percents = {})
    PROVE  Pieces(CutWords, Kept)
<1>1. PICK w, s, F, L : w = Tokens(text) /\ s = Kept /\ F = First /\ L = Len(text)
  OBVIOUS
<1>2. /\ Tokenised(w, text, L) /\ L \in Nat /\ DOMAIN text = 1 .. L
      /\ Len(w) \in Nat /\ Len(w) # 0 /\ DOMAIN w = 1 .. Len(w)
  BY <1>1, TextIs, TextTokens
<1>3. F \in Percents
  BY <1>1, FirstIs
<1>4. F \in 1 .. L /\ \E n \in DOMAIN w : Holds(w[n], F)
  BY <1>1, <1>2, <1>3 DEF Percents
<1>5. PICK N : N = CHOOSE n \in DOMAIN w : Holds(w[n], F)
  OBVIOUS
<1>6. N \in 1 .. Len(w) /\ Holds(w[N], F)
  BY <1>2, <1>4, <1>5
<1>7. PICK x : x = [n \in 1 .. N |-> IF n = N THEN [b |-> w[n].b, e |-> F - 1] ELSE w[n]]
  OBVIOUS
<1>8. CutWords = x
  BY <1>1, <1>5, <1>7 DEF CutWords
<1>9. /\ s \in Seq(Chars) /\ Len(s) = F - 1 /\ Len(s) \in Nat /\ \A i \in 1 .. F - 1 : s[i] = text[i]
  BY <1>1, KeptIs
<1>10. N \in Nat /\ N # 0 /\ Len(x) = N /\ DOMAIN x = 1 .. N /\ x[N].b = w[N].b /\ x[N].e = F - 1
       /\ \A n \in 1 .. N : n # N => x[n] = w[n]
  BY <1>2, <1>6, <1>7
<1>11. ASSUME NEW n \in 1 .. N PROVE IsWord(w, text, n)
  BY <1>2, <1>6 DEF Tokenised
\* The blanks before a word that begins before F are blanks of s.
<1>12. ASSUME NEW n \in 1 .. N, n # 1, w[n].b <= F
       PROVE  /\ w[n - 1].e \in Nat /\ w[n - 1].e # 0 /\ w[n - 1].e < w[n].b - 1 /\ w[n].b - 1 <= F - 1
              /\ \A k \in w[n - 1].e + 1 .. w[n].b - 1 : s[k] = Blank
  <2>1. n - 1 \in 1 .. N
    BY <1>10, <1>12
  <2>2. PICK b, c, d : b = w[n].b /\ c = w[n - 1].b /\ d = w[n - 1].e
    OBVIOUS
  <2>3. c \in Nat /\ d \in Nat /\ 1 <= c /\ c <= d
    BY <2>1, <2>2, <1>11 DEF IsWord
  <2>4. b \in Nat /\ d < b - 1 /\ \A k \in d + 1 .. b - 1 : text[k] = Blank
    BY <2>2, <1>11, <1>12 DEF IsWord
  <2>5. b <= F /\ F \in Nat /\ b - 1 <= F - 1 /\ d # 0
    BY <2>2, <2>3, <2>4, <1>4, <1>12
  <2>6. \A k \in d + 1 .. b - 1 : k \in 1 .. F - 1
    BY <2>3, <2>4, <2>5
  <2> QED BY <2>2, <2>3, <2>4, <2>5, <2>6, <1>9
\* Downwards, every word up to the one that is cut begins before F.
<1> DEFINE S == {n \in Nat : n # 0 => w[n].b <= F}
<1>13. N \in S
  BY <1>10, <1>6 DEF Holds
<1>14. \A n \in 0 .. N - 1 : n + 1 \in S => n \in S
  <2> SUFFICES ASSUME NEW n \in 0 .. N - 1, w[n + 1].b <= F, n # 0 PROVE w[n].b <= F
    BY <1>10
  <2>1. n + 1 \in 1 .. N /\ n + 1 # 1 /\ (n + 1) - 1 = n /\ n \in 1 .. N
    BY <1>10
  <2>2. w[n].e \in Nat /\ w[n].e < w[n + 1].b - 1 /\ w[n + 1].b - 1 <= F - 1
    <3>1. PICK m : m = n + 1
      OBVIOUS
    <3>2. w[m - 1].e \in Nat /\ w[m - 1].e < w[m].b - 1 /\ w[m].b - 1 <= F - 1
      BY <2>1, <3>1, <1>12
    <3> QED BY <2>1, <3>1, <3>2
  <2>3. w[n].b \in Nat /\ w[n].b <= w[n].e
    BY <2>1, <1>11 DEF IsWord
  <2>4. w[n + 1].b \in Nat
    BY <2>1, <1>11 DEF IsWord
  <2> QED BY <2>2, <2>3, <2>4, <1>4
<1> HIDE DEF S
<1>15. 0 .. N \subseteq S
  BY <1>10, <1>13, <1>14, DownTo
<1>16. ASSUME NEW n \in 1 .. N PROVE w[n].b <= F
  <2>1. n \in 0 .. N /\ n # 0
    BY <1>10
  <2> QED BY <2>1, <1>15 DEF S
<1>17. ASSUME NEW n \in 1 .. N, n # N PROVE IsPiece(x, s, n)
  <2>1. n + 1 \in 1 .. N /\ n + 1 # 1 /\ (n + 1) - 1 = n
    BY <1>10, <1>17
  <2>2. x[n] = w[n] /\ (n # 1 => x[n - 1] = w[n - 1])
    <3>1. n # 1 => n - 1 \in 1 .. N /\ n - 1 # N
      BY <1>10, <1>17
    <3> QED BY <3>1, <1>10, <1>17
  <2>3. PICK b, e, c : b = w[n].b /\ e = w[n].e /\ c = w[n + 1].b
    OBVIOUS
  <2>4. b \in Nat /\ e \in Nat /\ 1 <= b /\ b <= e /\ (\A k \in b .. e : text[k] # Blank) /\ (n = 1 => b = 1)
    BY <2>3, <1>11 DEF IsWord
  <2>5. e < c - 1 /\ c - 1 <= F - 1 /\ c \in Nat /\ \A k \in e + 1 .. c - 1 : s[k] = Blank
    <3>1. PICK m : m = n + 1
      OBVIOUS
    <3>2. w[m].b \in Nat /\ w[m].b <= F
      BY <2>1, <3>1, <1>11, <1>16 DEF IsWord
    <3>3. w[m - 1].e < w[m].b - 1 /\ w[m].b - 1 <= F - 1
          /\ \A k \in w[m - 1].e + 1 .. w[m].b - 1 : s[k] = Blank
      BY <2>1, <3>1, <3>2, <1>12
    <3> QED BY <2>1, <2>3, <3>1, <3>2, <3>3
  <2>6. F \in Nat /\ e <= F - 1 /\ b <= e + 1 /\ e + 1 \in e + 1 .. c - 1 /\ \A k \in b .. e : k \in 1 .. F - 1
    BY <2>4, <2>5, <1>4
  <2>7. (\A k \in b .. e : s[k] # Blank) /\ s[e + 1] = Blank /\ e <= Len(s)
    BY <2>4, <2>5, <2>6, <1>9
  <2>8. n # 1 => w[n - 1].e < w[n].b - 1 /\ \A k \in w[n - 1].e + 1 .. w[n].b - 1 : s[k] = Blank
    BY <1>12, <1>16
  <2> QED BY <2>2, <2>3, <2>4, <2>6, <2>7, <2>8 DEF IsPiece
<1>18. IsPiece(x, s, N)
  <2>1. PICK b, e : b = w[N].b /\ e = w[N].e
    OBVIOUS
  <2>2. N \in 1 .. N
    BY <1>10
  <2>3. b \in Nat /\ e \in Nat /\ 1 <= b /\ (\A k \in b .. e : text[k] # Blank) /\ (N = 1 => b = 1)
    BY <2>1, <2>2, <1>11 DEF IsWord
  <2>4. b <= F /\ F <= e
    BY <2>1, <1>6 DEF Holds
  <2>5. PICK d : d = F - 1
    OBVIOUS
  <2>6. d \in Nat /\ b <= d + 1 /\ \A k \in b .. d : k \in b .. e /\ k \in 1 .. F - 1
    BY <2>3, <2>4, <2>5, <1>4
  <2>7. \A k \in b .. d : s[k] # Blank
    BY <2>3, <2>6, <1>9
  <2>8. N # 1 => /\ x[N - 1] = w[N - 1]
                 /\ w[N - 1].e < w[N].b - 1 /\ \A k \in w[N - 1].e + 1 .. w[N].b - 1 : s[k] = Blank
    <3>1. N # 1 => N - 1 \in 1 .. N /\ N - 1 # N
      BY <1>10
    <3> QED BY <3>1, <2>2, <1>10, <1>12, <1>16
  <2>9. x[N].b = b /\ x[N].e = d /\ Len(s) = d
    BY <2>1, <2>5, <1>9, <1>10
  <2>10. d <= d
    BY <2>6
  <2> QED BY <2>1, <2>3, <2>6, <2>7, <2>8, <2>9, <2>10 DEF IsPiece
<1>19. \A n \in 1 .. Len(x) : IsPiece(x, s, n)
  BY <1>10, <1>17, <1>18
<1>20. Pieces(x, s)
  BY <1>9, <1>10, <1>19 DEF Pieces
<1> QED BY <1>1, <1>8, <1>20

-----------------------------------------------------------------------------
(* The blanks *)

\* g has one character where f has none, and is the same elsewhere.
Thinner(f, g, L) ==
    /\ L \in Nat /\ Has(f, 0, L) /\ Has(g, 0, L)
    /\ \A i \in 1 .. L : f[i] = g[i] \/ (f[i] = <<>> /\ Len(g[i]) = 1)

\* Then less is joined, if there is such a place.
LEMMA JoinThinner ==
    ASSUME NEW f, NEW g, NEW L, Thinner(f, g, L)
    PROVE  /\ Join(f, 0, L) \in Str /\ Join(g, 0, L) \in Str
           /\ Len(Join(f, 0, L)) \in Nat /\ Len(Join(g, 0, L)) \in Nat
           /\ Len(Join(f, 0, L)) <= Len(Join(g, 0, L))
           /\ (\E i \in 1 .. L : f[i] # g[i]) => Len(Join(f, 0, L)) < Len(Join(g, 0, L))
<1> DEFINE Less(m) == /\ Len(Join(f, 0, m)) \in Nat /\ Len(Join(g, 0, m)) \in Nat
                      /\ Len(Join(f, 0, m)) <= Len(Join(g, 0, m))
                      /\ (\E i \in 1 .. m : f[i] # g[i]) => Len(Join(f, 0, m)) < Len(Join(g, 0, m))
           S == {m \in Nat : Less(m)}
<1>0. L \in Nat /\ Has(f, 0, L) /\ Has(g, 0, L)
  BY DEF Thinner
<1>1. 0 \in S
  <2>1. Join(f, 0, 0) = <<>> /\ Join(g, 0, 0) = <<>> /\ Len(<<>>) = 0 /\ 1 .. 0 = {}
    BY JoinNone
  <2> QED BY <2>1
<1>2. \A m \in 0 .. L - 1 : m \in S => m + 1 \in S
  <2> SUFFICES ASSUME NEW m \in 0 .. L - 1, Less(m) PROVE Less(m + 1)
    BY <1>0
  <2>1. PICK e : e = m + 1
    OBVIOUS
  <2>2. m \in Nat /\ Succ(m, e) /\ e \in 1 .. L /\ 0 <= m /\ m <= e /\ e <= L /\ e \in Nat /\ 0 <= e
    BY <1>0, <2>1 DEF Succ
  <2>3. Has(f, 0, e) /\ Has(g, 0, e)
    BY <1>0, <2>2, HasParts
  <2>4. Has(f, 0, m) /\ Has(f, m, e) /\ Has(g, 0, m) /\ Has(g, m, e)
    BY <2>2, <2>3, HasParts
  <2>5. f[e] \in Str /\ Join(f, 0, e) = Join(f, 0, m) \o f[e] /\ Join(f, 0, m) \in Str
    BY <2>2, <2>4, JoinNext, JoinType
  <2>6. g[e] \in Str /\ Join(g, 0, e) = Join(g, 0, m) \o g[e] /\ Join(g, 0, m) \in Str
    BY <2>2, <2>4, JoinNext, JoinType
  <2>7. ASSUME NEW p \in Str, NEW q \in Str
        PROVE  Len(p \o q) = Len(p) + Len(q) /\ Len(p) \in Nat /\ Len(q) \in Nat
    <3>1. PICK T : T = Item
      OBVIOUS
    <3>2. p \in Seq(T) /\ q \in Seq(T)
      BY <3>1 DEF Str
    <3> QED BY <3>2
  <2>8. PICK a, b, c, d : a = Len(Join(f, 0, m)) /\ b = Len(Join(g, 0, m)) /\ c = Len(f[e]) /\ d = Len(g[e])
    OBVIOUS
  <2>9. /\ a \in Nat /\ b \in Nat /\ c \in Nat /\ d \in Nat /\ a <= b
        /\ Len(Join(f, 0, e)) = a + c /\ Len(Join(g, 0, e)) = b + d
    BY <2>5, <2>6, <2>7, <2>8
  <2>10. (f[e] = g[e] /\ c = d) \/ (c = 0 /\ d = 1)
    <3>1. f[e] = g[e] \/ (f[e] = <<>> /\ Len(g[e]) = 1)
      BY <2>2 DEF Thinner
    <3>2. Len(<<>>) = 0
      OBVIOUS
    <3> QED BY <3>1, <3>2, <2>8
  <2>11. a + c <= b + d
    BY <2>9, <2>10
  <2>12. ASSUME NEW i \in 1 .. e, f[i] # g[i] PROVE a + c < b + d
    <3>1. CASE i = e
      <4>1. c = 0 /\ d = 1
        BY <3>1, <2>10, <2>12
      <4> QED BY <4>1, <2>9
    <3>2. CASE i # e
      <4>1. i \in 1 .. m
        BY <3>2, <2>1, <2>2
      <4>2. a < b
        BY <4>1, <2>8, <2>12
      <4> QED BY <4>2, <2>9, <2>10
    <3> QED BY <3>1, <3>2
  <2>13. Less(e)
    <3>1. a + c \in Nat /\ b + d \in Nat
      BY <2>9
    <3> QED BY <3>1, <2>9, <2>11, <2>12
  <2> QED BY <2>1, <2>13
<1> HIDE DEF S
<1>3. 0 .. L \subseteq S
  BY <1>0, <1>1, <1>2, UpTo
<1>4. L \in S
  BY <1>0, <1>3
<1>5. Less(L)
  BY <1>4 DEF S
<1> QED BY <1>0, <1>5, JoinType

\* Every blank of s is between two words.
NoneSpare(s) == \A i \in DOMAIN s : s[i] = Blank => i < Len(s) /\ s[i + 1] # Blank

Whole(s, np) == IF np THEN s ELSE Reads(s, "%")

\* The values whose joining is the whole text.
LEMMA WholeIs ==
    ASSUME NEW s \in Seq(Chars), NEW np \in BOOLEAN
    PROVE  \E g : /\ Has(g, 0, Len(s)) /\ Whole(s, np) = Join(g, 0, Len(s))
                  /\ \A i \in 1 .. Len(s) : g[i] = IF np THEN <<s[i]>> ELSE Read(s, i, "%")
<1>1. CASE np
  <2>1. PICK g : g = [i \in 1 .. Len(s) |-> <<s[i]>>]
    OBVIOUS
  <2>2. Len(s) \in Nat /\ \A i \in 1 .. Len(s) : g[i] = <<s[i]>>
    BY <2>1
  <2>3. Singles(g, 0, Len(s), s)
    BY <2>2, CharsInStr DEF Singles
  <2>4. Join(g, 0, Len(s)) = SubSeq(s, 0 + 1, Len(s))
    BY <2>3, JoinSingles
  <2>5. SubSeq(s, 1, Len(s)) = s /\ 0 + 1 = 1
    BY SubSeqFull
  <2>6. Whole(s, np) = Join(g, 0, Len(s))
    BY <2>4, <2>5, <1>1 DEF Whole
  <2> QED BY <1>1, <2>2, <2>3, <2>6, SinglesHas
<1>2. CASE ~np
  <2>1. PICK g : g = Readings(s, "%")
    OBVIOUS
  <2>2. Has(g, 0, Len(s)) /\ Reads(s, "%") = Join(g, 0, Len(s)) /\ \A i \in 1 .. Len(s) : g[i] = Read(s, i, "%")
    BY <2>1, Percent, ReadingsAre
  <2>3. Whole(s, np) = Join(g, 0, Len(s))
    BY <2>2, <1>2 DEF Whole
  <2> QED BY <2>2, <2>3, <1>2
<1> QED BY <1>1, <1>2

\* The command part is the whole text if no blank is spare, and shorter if one is.
LEMMA PartsOfWhole ==
    ASSUME NEW s \in Seq(Chars), s # <<>> => s[1] # Blank, NEW np \in BOOLEAN
    PROVE  /\ FlattenSeq(Parts(s, np)) \in Str /\ Whole(s, np) \in Str
           /\ Len(FlattenSeq(Parts(s, np))) \in Nat /\ Len(Whole(s, np)) \in Nat
           /\ IF NoneSpare(s) THEN FlattenSeq(Parts(s, np)) = Whole(s, np)
              ELSE Len(FlattenSeq(Parts(s, np))) < Len(Whole(s, np))
<1>1. PICK L, f : L = Len(s) /\ f = Parts(s, np)
  OBVIOUS
<1>2. L \in Nat /\ DOMAIN s = 1 .. L /\ Has(f, 0, L) /\ FlattenSeq(f) = Join(f, 0, L)
      /\ \A i \in 1 .. L : f[i] = Adds(s, i, np)
  BY <1>1, PartsAre
<1>3. PICK g : /\ Has(g, 0, L) /\ Whole(s, np) = Join(g, 0, L)
               /\ \A i \in 1 .. L : g[i] = IF np THEN <<s[i]>> ELSE Read(s, i, "%")
  BY <1>1, WholeIs
<1>4. ASSUME NEW i \in 1 .. L
      PROVE  /\ s[i] # Blank => f[i] = g[i]
             /\ s[i] = Blank => g[i] = <<Blank>> /\ f[i] = IF Apart(s, i) THEN <<Blank>> ELSE <<>>
  <2>1. f[i] = Adds(s, i, np)
    BY <1>2
  <2>2. s[i] = Blank => Read(s, i, "%") = <<s[i]>>
    BY BlankIs DEF Read
  <2> QED BY <2>1, <2>2, <1>3 DEF Adds
<1>5. \A i \in 1 .. L : Apart(s, i) <=> i < Len(s) /\ s[i + 1] # Blank
  <2>1. \A i \in 1 .. L : 1 \in 1 .. i /\ s[1] # Blank
    BY <1>1, <1>2
  <2> QED BY <2>1 DEF Apart
<1>6. <<Blank>> # <<>> /\ Len(<<Blank>>) = 1
  OBVIOUS
<1>7. Thinner(f, g, L)
  BY <1>2, <1>3, <1>4, <1>6 DEF Thinner
<1>8. NoneSpare(s) <=> \A i \in 1 .. L : f[i] = g[i]
  <2>1. ASSUME NEW i \in 1 .. L PROVE f[i] = g[i] <=> (s[i] = Blank => Apart(s, i))
    <3>1. PICK b, e : b = <<Blank>> /\ e = <<>>
      OBVIOUS
    <3>2. b # e
      BY <3>1
    <3>3. s[i] # Blank => f[i] = g[i]
      BY <1>4
    <3>4. s[i] = Blank => g[i] = b /\ f[i] = IF Apart(s, i) THEN b ELSE e
      BY <3>1, <1>4
    <3> QED BY <3>2, <3>3, <3>4
  <2>2. NoneSpare(s) <=> \A i \in 1 .. L : s[i] = Blank => Apart(s, i)
    BY <1>2, <1>5 DEF NoneSpare
  <2> QED BY <2>1, <2>2
<1>9. CASE NoneSpare(s)
  <2>1. Same(f, 0, L, g, 0, L)
    <3>1. \A i \in 1 .. L : 0 + i = i
      OBVIOUS
    <3>2. L - 0 = L
      BY <1>2
    <3> QED BY <3>1, <3>2, <1>2, <1>8, <1>9 DEF Same
  <2>2. Join(f, 0, L) = Join(g, 0, L)
    BY <2>1, JoinSame
  <2> QED BY <2>2, <1>1, <1>2, <1>3, <1>7, <1>9, JoinThinner
<1>10. CASE ~NoneSpare(s)
  BY <1>1, <1>2, <1>3, <1>7, <1>8, <1>10, JoinThinner
<1> QED BY <1>9, <1>10

\* The command part is a text.
LEMMA PartsType ==
    ASSUME NEW s \in Seq(Chars), NEW np
    PROVE  FlattenSeq(Parts(s, np)) \in Seq(Chars)
<1>1. PICK r, T : r = Parts(s, np) /\ T = Chars
  OBVIOUS
<1>2. \A i \in 1 .. Len(s) : Adds(s, i, np) \in Seq(T)
  <2>1. Blank \in T /\ <<>> \in Seq(T) /\ <<"%">> \in Seq(T) /\ \A c \in T : <<c>> \in Seq(T)
    <3>1. Blank \in T /\ <<"%">> \in Seq(T)
      BY <1>1, BlankIs, Percent
    <3>2. <<>> \in Seq(T) /\ \A c \in T : <<c>> \in Seq(T)
      OBVIOUS
    <3> QED BY <3>1, <3>2
  <2>2. \A i \in 1 .. Len(s) : s[i] \in T
    BY <1>1
  <2>3. \A i \in 1 .. Len(s) : Read(s, i, "%") \in Seq(T)
    BY <2>1, <2>2 DEF Read
  <2> QED BY <2>1, <2>2, <2>3 DEF Adds
<1>3. r = [i \in 1 .. Len(s) |-> Adds(s, i, np)] /\ Len(s) \in Nat
  BY <1>1 DEF Parts
<1>4. r \in Seq(Seq(T))
  BY <1>2, <1>3
<1> QED BY <1>1, <1>4, FlattenType

\* What runs is the command as it is written, but for spare blanks and, without a
\* shell, specifiers.
LEMMA RanIs ==
    ASSUME text \in Texts, nopercent \in BOOLEAN, exec.what = CommandPart
    PROVE  Ran = CommandText <=> NoneSpare(Kept) /\ (exec.shell \/ Literal(exec.what))
<1>1. PICK s, c, w : s = Kept /\ c = CommandPart /\ w = Whole(s, nopercent)
  OBVIOUS
<1>2. s \in Seq(Chars) /\ CommandPart = FlattenSeq(Parts(s, nopercent))
  BY <1>1, KeptIs, CommandPartIs
<1>3. c \in Seq(Chars)
  BY <1>1, <1>2, PartsType
<1>4. s # <<>> => s[1] # Blank
  <2> SUFFICES ASSUME s # <<>> PROVE s[1] # Blank
    OBVIOUS
  <2>1. 1 \in 1 .. Len(s)
    BY <1>2
  <2>2. s[1] = text[1]
    BY <2>1, <1>1, KeptIs
  <2> QED BY <2>2, TextIs
<1>5. /\ Len(c) \in Nat /\ Len(w) \in Nat
      /\ IF NoneSpare(s) THEN c = w ELSE Len(c) < Len(w)
  BY <1>1, <1>2, <1>4, PartsOfWhole
<1>6. CommandText = w
  BY <1>1 DEF CommandText, Whole
<1>7. Expands(c)
  BY <1>3, ExpandsAll
<1>8. Ran = IF exec.shell THEN c ELSE Expanded[c]
  BY <1>1 DEF Ran
<1>9. CASE exec.shell
  BY <1>1, <1>5, <1>6, <1>8, <1>9
<1>10. CASE ~exec.shell
  <2>1. Ran = Expanded[c] /\ Len(Expanded[c]) <= Len(c) /\ (Expanded[c] = c <=> Literal(c)) /\ Len(Expanded[c]) \in Nat
    <3>1. Expanded[c] \in Str
      BY <1>7 DEF Expands
    <3>2. Len(Expanded[c]) \in Nat
      BY <3>1 DEF Str
    <3> QED BY <3>2, <1>7, <1>8, <1>10 DEF Expands
  <2>2. CASE NoneSpare(s)
    BY <2>1, <2>2, <1>1, <1>5, <1>6, <1>10
  <2>3. CASE ~NoneSpare(s)
    <3>1. Len(Ran) < Len(w)
      BY <2>1, <2>3, <1>5
    <3>2. Ran # w
      BY <3>1, <1>5
    <3> QED BY <3>2, <2>3, <1>1, <1>6
  <2> QED BY <2>2, <2>3
<1> QED BY <1>9, <1>10

-----------------------------------------------------------------------------
(* The job's states *)

Job == text \in Texts /\ nopercent \in BOOLEAN /\ pc \in {"read", "parsed", "output", "data", "done"}

\* The words and the standard input, once parse_percent has run.
Stdin  == IF Split THEN [b |-> FirstPercent(text) + 1, e |-> Len(text)] ELSE Nothing
Parsed == pc # "read" => Pieces(words, Kept) /\ input = Stdin

Executed == pc \in {"output", "data", "done"} => exec.what = CommandPart
Labelled == pc \in {"data", "done"} => label = Escape(Describe(text))

JobInv == Job /\ Parsed /\ Executed /\ Labelled

\* What parse_percent leaves: the words of what is kept, and the view of the rest.
LEMMA ParseWords ==
    ASSUME text \in Texts, nopercent \in BOOLEAN, Parse
    PROVE  Pieces(words', Kept) /\ input' = Stdin
<1>1. CASE nopercent \/ Percents = {}
  <2>1. words' = Tokens(text) /\ input' = Nothing
    BY <1>1 DEF Parse
  <2>2. ~Split /\ Kept = text
    BY <1>1, KeptIs
  <2> QED BY <2>1, <2>2, WholePieces DEF Stdin
<1>2. CASE ~(nopercent \/ Percents = {})
  <2>1. words' = CutWords /\ input' = [b |-> First + 1, e |-> Len(text)]
    BY <1>2 DEF Parse
  <2>2. Split /\ FirstPercent(text) = First
    BY <1>2, KeptIs
  <2> QED BY <1>2, <2>1, <2>2, CutPieces DEF Stdin
<1> QED BY <1>1, <1>2

\* What generate_scriptlet and generate_service make run, the program itself or the
\* script.
LEMMA OutputExec ==
    ASSUME text \in Texts, nopercent \in BOOLEAN, Pieces(words, Kept), Output
    PROVE  exec'.what = CommandPart
<1>1. PICK s, p, w : s = Kept /\ p = Parts(s, nopercent) /\ w = words
  OBVIOUS
<1>2. \A n \in 1 .. Len(words) : Run(s, words[n].b - 1, words[n].e, View(words[n]))
  BY <1>1, ViewRun
<1>3. s \in Seq(Chars) /\ FlattenSeq(p) = Join(p, 0, Len(s))
  BY <1>1, KeptIs, PartsAre
<1>4. CommandPart = Join(p, 0, Len(s))
  BY <1>1, <1>3, CommandPartIs
<1>5. CASE Len(words) = 1 /\ View(words[1]) # <<>> /\ file
  <2>1. exec' = [shell |-> FALSE, what |-> Flat(Debackslashpercentise(View(words[1])))]
    BY <1>5 DEF Output
  <2>2. 1 \in 1 .. Len(words)
    BY <1>5
  <2>3. Flat(Debackslashpercentise(View(words[1]))) = Join(p, words[1].b - 1, words[1].e)
    <3>1. Run(s, words[1].b - 1, words[1].e, View(words[1]))
      BY <2>2, <1>2
    <3> QED BY <3>1, <1>1, FlatPart
  <2>4. words[1].b = 1 /\ words[1].e = Len(s)
    <3>1. IsPiece(words, s, 1) /\ words[Len(words)].e = Len(s)
      BY <2>2, <1>1 DEF Pieces
    <3> QED BY <3>1, <1>5 DEF IsPiece
  <2>5. words[1].b - 1 = 0
    BY <2>4
  <2>6. exec'.what = Join(p, 0, Len(s))
    BY <2>1, <2>3, <2>4, <2>5
  <2> QED BY <1>4, <2>6
<1>6. CASE ~(Len(words) = 1 /\ View(words[1]) # <<>> /\ file)
  <2>1. exec' = [shell |-> TRUE, what |-> Script]
    BY <1>6 DEF Output
  <2>2. Pieces(words, s)
    BY <1>1
  <2>3. Script = Join(p, 0, Len(s))
    BY <1>1, <1>2, <2>2, ScriptIs
  <2> QED BY <1>4, <2>1, <2>3
<1> QED BY <1>5, <1>6

\* These depend on the line only.
LEMMA Keeps ==
    ASSUME text' = text, nopercent' = nopercent
    PROVE  Kept' = Kept /\ Stdin' = Stdin /\ CommandPart' = CommandPart /\ StdinPart' = StdinPart
<1>1. FirstPercent(text)' = FirstPercent(text)
  BY DEF FirstPercent
<1>2. Split' = Split
  BY <1>1 DEF Split
<1>3. Kept' = Kept
  BY <1>1, <1>2 DEF Kept
<1>4. Stdin' = Stdin
  BY <1>1, <1>2 DEF Stdin, Nothing
<1>5. CommandPart' = CommandPart
  BY <1>3 DEF CommandPart
<1>6. StdinPart' = StdinPart
  BY <1>1, <1>2 DEF StdinPart
<1> QED BY <1>3, <1>4, <1>5, <1>6

\* At the beginning nothing is claimed but the line.
LEMMA JobInvInit == Init => JobInv
<1> SUFFICES ASSUME Init PROVE JobInv
  OBVIOUS
<1>1. Job
  BY DEF Init, Job
<1>2. pc = "read"
  BY DEF Init
<1> QED BY <1>1, <1>2 DEF JobInv, Parsed, Executed, Labelled

\* Each step keeps it: Parse, Output and Service establish one part each.
LEMMA JobInvNext == JobInv /\ [Next]_vars => JobInv'
<1> SUFFICES ASSUME JobInv, [Next]_vars PROVE JobInv'
  OBVIOUS
<1>1. Job /\ Parsed /\ Executed /\ Labelled
  BY DEF JobInv
<1>2. text \in Texts /\ nopercent \in BOOLEAN
  BY <1>1 DEF Job
\* The steps that change no more than the encoder, what it is fed and pc.
<1>3. ASSUME UNCHANGED jobvars, pc' = pc \/ (pc = "data" /\ pc' = "done")
      PROVE  JobInv'
  <2>1. text' = text /\ nopercent' = nopercent /\ words' = words /\ input' = input /\ exec' = exec /\ label' = label
    BY <1>3 DEF jobvars
  <2>2. Kept' = Kept /\ Stdin' = Stdin /\ CommandPart' = CommandPart
    BY <2>1, Keeps
  <2>3. Job'
    BY <1>1, <1>3, <2>1 DEF Job
  <2>4. Parsed'
    BY <1>1, <1>3, <2>1, <2>2 DEF Parsed
  <2>5. Executed'
    BY <1>1, <1>3, <2>1, <2>2 DEF Executed
  <2>6. Labelled'
    BY <1>1, <1>3, <2>1 DEF Labelled
  <2> QED BY <2>3, <2>4, <2>5, <2>6 DEF JobInv
<1>4. CASE Parse
  <2>1. Pieces(words', Kept) /\ input' = Stdin
    BY <1>2, <1>4, ParseWords
  <2>2. text' = text /\ nopercent' = nopercent /\ pc' = "parsed"
    BY <1>4 DEF Parse
  <2>3. Kept' = Kept /\ Stdin' = Stdin
    BY <2>2, Keeps
  <2>4. Parsed'
    BY <2>1, <2>3 DEF Parsed
  <2> QED BY <1>2, <2>2, <2>4 DEF JobInv, Job, Executed, Labelled
<1>5. CASE Output
  <2>1. pc = "parsed" /\ text' = text /\ nopercent' = nopercent /\ words' = words /\ input' = input /\ pc' = "output"
    BY <1>5 DEF Output
  <2>2. Pieces(words, Kept) /\ input = Stdin
    BY <1>1, <2>1 DEF Parsed
  <2>3. exec'.what = CommandPart
    BY <1>2, <1>5, <2>2, OutputExec
  <2>4. Kept' = Kept /\ Stdin' = Stdin /\ CommandPart' = CommandPart
    BY <2>1, Keeps
  <2>5. Parsed' /\ Executed'
    BY <2>1, <2>2, <2>3, <2>4 DEF Parsed, Executed
  <2> QED BY <1>2, <2>1, <2>5 DEF JobInv, Job, Labelled
<1>6. CASE Service
  <2>1. /\ pc = "output" /\ text' = text /\ nopercent' = nopercent /\ words' = words /\ input' = input /\ exec' = exec
        /\ label' = Escape(Describe(text)) /\ pc' \in {"data", "done"}
    BY <1>6 DEF Service
  <2>2. Pieces(words, Kept) /\ input = Stdin /\ exec.what = CommandPart
    BY <1>1, <2>1 DEF Parsed, Executed
  <2>3. Kept' = Kept /\ Stdin' = Stdin /\ CommandPart' = CommandPart
    BY <2>1, Keeps
  <2>4. Parsed' /\ Executed'
    BY <2>1, <2>2, <2>3 DEF Parsed, Executed
  <2>5. Labelled'
    BY <2>1 DEF Labelled
  <2> QED BY <1>2, <2>1, <2>4, <2>5 DEF JobInv, Job
<1>7. CASE FeedSegment
  BY <1>3, <1>7 DEF FeedSegment
<1>8. CASE Encode
  BY <1>3, <1>8 DEF Encode
<1>9. CASE FinishData
  BY <1>3, <1>9 DEF FinishData
<1>10. CASE UNCHANGED vars
  BY <1>3, <1>10 DEF vars, jobvars
<1> QED BY <1>4, <1>5, <1>6, <1>7, <1>8, <1>9, <1>10 DEF Next

\* The job is what its line makes of it, at every stage.
LEMMA JobInvariant == Spec => []JobInv
<1> QED BY JobInvInit, JobInvNext, PTL DEF Spec

\* For every command portion, of any length: the script or the program of ExecStart=
\* is the documented part of the line before the first percent, runs of blanks as one
\* (parse_percent, generate_scriptlet); and what runs is that part as it was written
\* except where blanks are lost or systemd expands a percent.
THEOREM CommandPartRuns == Spec => []RunsCommandPart
<1>1. JobInv => RunsCommandPart
  <2> SUFFICES ASSUME JobInv, pc = "done"
               PROVE  exec.what = CommandPart /\ (Ran = CommandText <=> NoneSpare(Kept) /\ (exec.shell \/ Literal(exec.what)))
    BY DEF RunsCommandPart, NoneSpare, Literal
  <2>1. exec.what = CommandPart /\ text \in Texts /\ nopercent \in BOOLEAN
    BY DEF JobInv, Job, Executed
  <2> QED BY <2>1, RanIs
<1> QED BY <1>1, JobInvariant, PTL

\* For every command portion, of any length: systemd, which unquotes and expands the
\* LogExtraFields= value, reads the line as it was written (describe_line and the
\* quoting of generate_service).
THEOREM LabelReadsBack == Spec => []LabelAsWritten
<1>1. JobInv => LabelAsWritten
  <2> SUFFICES ASSUME JobInv, pc = "done" PROVE Expanded[Unquoted[label]] = text
    BY DEF LabelAsWritten
  <2>1. text \in Seq(Chars) /\ label = Escape(Describe(text))
    BY TextIs DEF JobInv, Job, Labelled
  <2>2. Describe(text) \in Seq(Chars) /\ Expanded[Describe(text)] = text
    BY <2>1, ExpandedDescribe
  <2>3. Unquoted[Escape(Describe(text))] = Describe(text)
    BY <2>2, UnquotedEscape
  <2> QED BY <2>1, <2>2, <2>3
<1> QED BY <1>1, JobInvariant, PTL

-----------------------------------------------------------------------------
(* The standard input *)

Codes(x) == [i \in DOMAIN x |-> Code[x[i]]]

\* The code of a character is a byte.
LEMMA CodeType ==
    ASSUME NEW c \in Chars
    PROVE  Code[c] \in Byte /\ Code[c] \in {63, 32, 37, 92, 34, 10} /\ (Code[c] = 63 <=> c = "?")
<1>1. Code = [d \in Chars |-> CASE d = "?" -> 63 [] d = Blank -> 32 [] d = "%" -> 37 [] d = "\\" -> 92
              [] d = "\"" -> 34 [] d = "\n" -> 10]
  BY DEF Chars, Code
<1>2. Code[c] = CASE c = "?" -> 63 [] c = Blank -> 32 [] c = "%" -> 37 [] c = "\\" -> 92
              [] c = "\"" -> 34 [] c = "\n" -> 10
  BY <1>1
<1>3. c = "?" \/ c = Blank \/ c = "%" \/ c = "\\" \/ c = "\"" \/ c = "\n"
  BY DEF Chars, Code
<1>4. Code[c] \in {63, 32, 37, 92, 34, 10}
  BY <1>2, <1>3
<1>5. Blank # "?" /\ Blank # "\n"
  BY DEF Blank
<1>6. c = "?" => Code[c] = 63
  BY <1>2, <1>5, BlankIs, Zenon
<1>7. c # "?" => Code[c] \in {32, 37, 92, 34, 10}
  BY <1>2, <1>3
<1>8. c # "?" => Code[c] # 63
  BY <1>7
<1> QED BY <1>4, <1>6, <1>8 DEF Byte

\* A text is as many bytes as characters.
LEMMA CodesType ==
    ASSUME NEW x \in Seq(Chars)
    PROVE  /\ Codes(x) \in Seq(Byte) /\ Len(Codes(x)) = Len(x) /\ Len(x) \in Nat
           /\ \A i \in 1 .. Len(x) : Codes(x)[i] = Code[x[i]]
<1>1. PICK C, B : C = Chars /\ B = Byte
  OBVIOUS
<1>2. \A c \in C : Code[c] \in B
  BY <1>1, CodeType
<1>3. DOMAIN x = 1 .. Len(x) /\ Len(x) \in Nat /\ \A i \in 1 .. Len(x) : x[i] \in C
  BY <1>1
<1>4. PICK y : y = [i \in 1 .. Len(x) |-> Code[x[i]]]
  OBVIOUS
<1>5. y \in Seq(B) /\ Len(y) = Len(x) /\ \A i \in 1 .. Len(x) : y[i] = Code[x[i]]
  BY <1>2, <1>3, <1>4
<1>6. Codes(x) = y
  BY <1>3, <1>4 DEF Codes
<1> QED BY <1>1, <1>3, <1>5, <1>6

\* Which bytes they are, and which of them are 63.
LEMMA CodesCoded ==
    ASSUME NEW x \in Seq(Chars)
    PROVE  /\ Codes(x) \in Seq(Byte) /\ Coded(Codes(x)) /\ DOMAIN x = 1 .. Len(Codes(x))
           /\ \A k \in DOMAIN x : Codes(x)[k] = 63 <=> x[k] = "?"
<1>1. PICK D, L, C : D = Codes(x) /\ L = Len(x) /\ C = Chars
  OBVIOUS
<1>2. D \in Seq(Byte) /\ Len(D) = L /\ \A i \in 1 .. L : D[i] = Code[x[i]]
  BY <1>1, CodesType
<1>3. DOMAIN x = 1 .. L /\ \A i \in 1 .. L : x[i] \in C
  BY <1>1
<1>4. ASSUME NEW i \in 1 .. L PROVE D[i] \in {63, 32, 37, 92, 34, 10} /\ (D[i] = 63 <=> x[i] = "?")
  <2>1. PICK c : c = x[i]
    OBVIOUS
  <2>2. c \in Chars /\ D[i] = Code[c]
    BY <2>1, <1>1, <1>2, <1>3
  <2>3. Code[c] \in {63, 32, 37, 92, 34, 10} /\ (Code[c] = 63 <=> c = "?")
    BY <2>2, CodeType
  <2> QED BY <2>1, <2>2, <2>3
<1>5. Coded(D)
  BY <1>2, <1>4 DEF Coded
<1> QED BY <1>1, <1>2, <1>3, <1>4, <1>5

\* One text after another.
LEMMA CodesConcat ==
    ASSUME NEW x \in Seq(Chars), NEW y \in Seq(Chars)
    PROVE  Codes(x \o y) = Codes(x) \o Codes(y)
<1>1. PICK z, p, q, r : z = x \o y /\ p = Codes(x) /\ q = Codes(y) /\ r = Codes(z)
  OBVIOUS
<1>2. z \in Seq(Chars) /\ Len(z) = Len(x) + Len(y) /\ Len(x) \in Nat /\ Len(y) \in Nat
      /\ \A i \in 1 .. Len(x) + Len(y) : z[i] = IF i <= Len(x) THEN x[i] ELSE y[i - Len(x)]
  BY <1>1, ConcatProperties
<1>3. p \in Seq(Byte) /\ Len(p) = Len(x) /\ \A i \in 1 .. Len(x) : p[i] = Code[x[i]]
  BY <1>1, CodesType
<1>4. q \in Seq(Byte) /\ Len(q) = Len(y) /\ \A i \in 1 .. Len(y) : q[i] = Code[y[i]]
  BY <1>1, CodesType
<1>5. r \in Seq(Byte) /\ Len(r) = Len(z) /\ \A i \in 1 .. Len(z) : r[i] = Code[z[i]]
  BY <1>1, <1>2, CodesType
<1>6. p \o q \in Seq(Byte) /\ Len(p \o q) = Len(p) + Len(q)
      /\ \A i \in 1 .. Len(p) + Len(q) : (p \o q)[i] = IF i <= Len(p) THEN p[i] ELSE q[i - Len(p)]
  <2>1. p \in Seq(Byte) /\ q \in Seq(Byte)
    BY <1>3, <1>4
  <2> QED BY <2>1, ConcatProperties, ZenonT(30)
<1>7. ASSUME NEW i \in 1 .. Len(r) PROVE r[i] = (p \o q)[i]
  <2>1. i \in 1 .. Len(x) + Len(y)
    BY <1>2, <1>5
  <2>2. CASE i <= Len(x)
    <3>1. i \in 1 .. Len(x)
      BY <2>1, <2>2, <1>2
    <3> QED BY <2>1, <2>2, <3>1, <1>2, <1>3, <1>4, <1>5, <1>6, SMTT(30)
  <2>3. CASE ~(i <= Len(x))
    <3>1. i - Len(x) \in 1 .. Len(y)
      BY <2>1, <2>3, <1>2
    <3>2. PICK k : k = i - Len(x)
      OBVIOUS
    <3>3. z[i] = y[k]
      BY <2>1, <2>3, <3>2, <1>2
    <3>4. (p \o q)[i] = q[k]
      <4>1. i \in 1 .. Len(p) + Len(q) /\ ~(i <= Len(p)) /\ i - Len(p) = k
        BY <2>1, <2>3, <3>2, <1>3, <1>4
      <4> QED BY <4>1, <1>6
    <3>5. q[k] = Code[y[k]]
      BY <3>1, <3>2, <1>4
    <3>6. r[i] = Code[z[i]]
      BY <2>1, <1>2, <1>5
    <3> QED BY <3>3, <3>4, <3>5, <3>6
  <2> QED BY <2>2, <2>3
<1>8. r = p \o q
  <2>1. Len(r) = Len(p \o q)
    BY <1>2, <1>3, <1>4, <1>5, <1>6
  <2>2. PICK B : B = Byte
    OBVIOUS
  <2>3. r \in Seq(B) /\ p \o q \in Seq(B)
    BY <2>2, <1>5, <1>6
  <2> QED BY <2>1, <2>3, <1>7, SeqEqual
<1> QED BY <1>1, <1>8

\* What the segments are read as is a text.
LEMMA FedAllChars ==
    ASSUME NEW pct \in Chars, NEW x \in Seq(Segment)
    PROVE  FedAll(x, pct) \in Seq(Chars)
<1>1. PICK C, V, G, q : C = Chars /\ V = Seq(C) /\ G = Segment /\ q = [n \in DOMAIN x |-> Fed(x[n], pct)]
  OBVIOUS
<1>2. \A g \in G : Fed(g, pct) \in V
  BY <1>1, FedType
<1>3. DOMAIN x = 1 .. Len(x) /\ Len(x) \in Nat /\ \A n \in 1 .. Len(x) : x[n] \in G
  BY <1>1
<1>4. q \in Seq(V)
  BY <1>1, <1>2, <1>3
<1>5. FlattenSeq(q) \in Seq(C)
  <2>1. q \in Seq(Seq(C))
    BY <1>1, <1>4
  <2> QED BY <2>1, FlattenType
<1> QED BY <1>1, <1>5 DEF FedAll

\* The new-line is a character.
LEMMA NewLine == "\n" \in Chars
BY DEF Chars, Code

\* What Service makes of the view of the standard input.
LEMMA StdinSegments ==
    ASSUME text \in Texts, nopercent \in BOOLEAN, input = Stdin
    PROVE  /\ StdinPart \in Seq(Chars)
           /\ View(input) = <<>> => StdinPart = <<>>
           /\ View(input) # <<>> => /\ Debackslashpercentise(View(input)) \in Seq(Segment)
                                    /\ FedAll(Debackslashpercentise(View(input)), "\n") = StdinPart
<1>0. text \in Seq(Chars) /\ Len(text) \in Nat /\ DOMAIN text = 1 .. Len(text)
  BY TextIs
<1>1. CASE ~Split
  <2>1. StdinPart = <<>> /\ input = [b |-> 1, e |-> 0]
    BY <1>1 DEF StdinPart, Stdin, Nothing
  <2>2. View(input) = <<>>
    <3>1. PICK T : T = Chars
      OBVIOUS
    <3>2. text \in Seq(T)
      BY <3>1, <1>0
    <3>3. SubSeq(text, 1, 0) = <<>>
      BY <3>2
    <3>4. input.b = 1 /\ input.e = 0
      BY <2>1
    <3> QED BY <3>3, <3>4 DEF View
  <2>3. <<>> \in Seq(Chars)
    OBVIOUS
  <2> QED BY <2>1, <2>2, <2>3
<1>2. CASE Split
  <2>1. ~nopercent /\ Percents # {}
    BY <1>2, KeptIs
  <2>2. FirstPercent(text) = First /\ First \in Percents
    BY <2>1, FirstIs
  <2>3. First \in 1 .. Len(text)
    BY <2>2, <1>0 DEF Percents
  <2>4. PICK v, T, F, L : v = SubSeq(text, First + 1, Len(text)) /\ T = Chars /\ F = First /\ L = Len(text)
    OBVIOUS
  <2>5. Slice(T, text, F, L, v)
    <3>1. F \in Nat /\ F <= L /\ L \in Nat /\ L <= L
      BY <2>3, <2>4, <1>0
    <3> QED BY <3>1, <2>4, <1>0 DEF Slice
  <2>6. v \in Seq(Chars)
    BY <2>4, <2>5, SliceIs
  <2>7. StdinPart = Reads(v, "\n")
    BY <1>2, <2>2, <2>4 DEF StdinPart
  <2>8. View(input) = v
    <3>1. input = [b |-> First + 1, e |-> Len(text)]
      BY <1>2, <2>2 DEF Stdin
    <3>2. input.b = First + 1 /\ input.e = Len(text)
      BY <3>1
    <3> QED BY <3>2, <2>4 DEF View
  <2>9. Debackslashpercentise(v) = Segments[v]
    BY <2>1 DEF Debackslashpercentise
  <2>10. Segments[v] \in Seq(Segment) /\ FedAll(Segments[v], "\n") = Reads(v, "\n")
    <3>1. Agrees(v, "\n")
      BY <2>6, NewLine, SegmentsRead
    <3> QED BY <3>1 DEF Agrees
  <2>11. StdinPart \in Seq(Chars)
    <3>1. FedAll(Segments[v], "\n") \in Seq(Chars)
      BY <2>10, NewLine, FedAllChars
    <3> QED BY <3>1, <2>7, <2>10
  <2>12. v = <<>> => Reads(v, "\n") = <<>>
    <3> SUFFICES ASSUME v = <<>> PROVE Reads(v, "\n") = <<>>
      OBVIOUS
    <3>1. [i \in DOMAIN v |-> Read(v, i, "\n")] = <<>>
      OBVIOUS
    <3> QED BY <3>1, FlattenEmpty DEF Reads
  <2> QED BY <2>7, <2>8, <2>9, <2>10, <2>11, <2>12
<1> QED BY <1>1, <1>2

\* R is what of D comes after its first n bytes.
Left(D, n, R) ==
    /\ n \in Nat /\ R \in Seq(Byte) /\ D \in Seq(Byte) /\ n + Len(R) = Len(D)
    /\ \A i \in 1 .. Len(R) : R[i] = D[n + i]

\* What the encoder has still to take.
Pending == todo \o Codes(FedAll(segments, "\n"))

DataIs(D) ==
    /\ pc \in {"read", "parsed", "output"} => B64Init
    /\ pc = "data" => segments \in Seq(Segment) /\ \E n \in Nat : Encoded(D, n) /\ Left(D, n, Pending)
    /\ pc = "done" => todo = <<>> /\ accsz < 6 /\ Bytes(Unpadded(out)) = D /\ Dashed(out, D)

DataInv == DataIs(Codes(StdinPart))

\* At first everything is left.
LEMMA LeftAll == ASSUME NEW D \in Seq(Byte) PROVE Left(D, 0, D)
<1>1. Len(D) \in Nat /\ 0 + Len(D) = Len(D) /\ \A i \in 1 .. Len(D) : 0 + i = i
  OBVIOUS
<1> QED BY <1>1 DEF Left

\* The first byte left is the next one of the data.
LEMMA LeftTail ==
    ASSUME NEW D, NEW n, NEW R, NEW t, NEW q, Left(D, n, R), R = t \o q, t \in Seq(Byte), q \in Seq(Byte), t # <<>>
    PROVE  n < Len(D) /\ Head(t) = D[n + 1] /\ Left(D, n + 1, Tail(t) \o q)
<1>1. PICK B, u, S : B = Byte /\ u = Tail(t) /\ S = u \o q
  OBVIOUS
<1>2. n \in Nat /\ R \in Seq(B) /\ D \in Seq(B) /\ n + Len(R) = Len(D) /\ \A i \in 1 .. Len(R) : R[i] = D[n + i]
  BY <1>1 DEF Left
<1>3. t \in Seq(B) /\ q \in Seq(B) /\ Len(t) \in Nat /\ Len(q) \in Nat /\ Len(t) # 0
  BY <1>1
<1>4. u \in Seq(B) /\ Len(u) = Len(t) - 1 /\ \A i \in 1 .. Len(u) : u[i] = t[i + 1]
  BY <1>1, <1>3
<1>5. Len(R) = Len(t) + Len(q) /\ \A i \in 1 .. Len(t) + Len(q) : R[i] = IF i <= Len(t) THEN t[i] ELSE q[i - Len(t)]
  BY <1>3, ConcatProperties
<1>6. S \in Seq(B) /\ Len(S) = Len(u) + Len(q) /\ \A i \in 1 .. Len(u) + Len(q) : S[i] = IF i <= Len(u) THEN u[i] ELSE q[i - Len(u)]
  BY <1>1, <1>3, <1>4, ConcatProperties
<1>7. Head(t) = t[1] /\ 1 \in 1 .. Len(R) /\ R[1] = t[1]
  <2>1. Head(t) = t[1]
    BY <1>3
  <2>2. 1 \in 1 .. Len(t) + Len(q) /\ 1 <= Len(t)
    BY <1>3
  <2> QED BY <2>1, <2>2, <1>5
<1>8. n < Len(D) /\ Head(t) = D[n + 1]
  <2>1. n < Len(D)
    BY <1>2, <1>3, <1>5
  <2> QED BY <2>1, <1>2, <1>7
<1>9. (n + 1) + Len(S) = Len(D) /\ n + 1 \in Nat
  <2>1. PICK a, b, c, d : a = Len(t) /\ b = Len(q) /\ c = Len(S) /\ d = Len(D)
    OBVIOUS
  <2>2. a \in Nat /\ b \in Nat /\ n \in Nat /\ n + (a + b) = d
    BY <2>1, <1>2, <1>3, <1>5
  <2>3. c = (a - 1) + b
    BY <2>1, <1>4, <1>6
  <2>4. (n + 1) + c = d /\ n + 1 \in Nat
    BY <2>2, <2>3
  <2> QED BY <2>1, <2>4
<1>10. ASSUME NEW i \in 1 .. Len(S) PROVE S[i] = D[(n + 1) + i]
  <2>1. PICK j : j = i + 1
    OBVIOUS
  <2>2. j \in 1 .. Len(R) /\ n + j = (n + 1) + i /\ i \in 1 .. Len(u) + Len(q) /\ j \in 1 .. Len(t) + Len(q)
    BY <2>1, <1>2, <1>3, <1>4, <1>5, <1>6
  <2>3. R[j] = D[(n + 1) + i]
    BY <2>2, <1>2
  <2>4. CASE i <= Len(u)
    <3>1. i \in 1 .. Len(u) /\ j <= Len(t)
      BY <2>1, <2>2, <2>4, <1>3, <1>4
    <3>2. S[i] = u[i] /\ u[i] = t[j] /\ R[j] = t[j]
      BY <2>1, <2>2, <2>4, <3>1, <1>4, <1>5, <1>6
    <3> QED BY <2>3, <3>2
  <2>5. CASE ~(i <= Len(u))
    <3>1. ~(j <= Len(t)) /\ j - Len(t) = i - Len(u)
      BY <2>1, <2>2, <2>5, <1>3, <1>4
    <3>2. S[i] = q[i - Len(u)] /\ R[j] = q[j - Len(t)]
      BY <2>2, <2>5, <3>1, <1>5, <1>6
    <3> QED BY <2>3, <3>1, <3>2
  <2> QED BY <2>4, <2>5
<1>11. Left(D, n + 1, S)
  BY <1>1, <1>2, <1>6, <1>9, <1>10 DEF Left
<1> QED BY <1>1, <1>8, <1>11

\* Nothing is left: all of D was taken.
LEMMA LeftNone ==
    ASSUME NEW D, NEW n, Left(D, n, <<>>)
    PROVE  n = Len(D)
<1>1. Len(<<>>) = 0
  OBVIOUS
<1> QED BY <1>1 DEF Left

\* Before the first byte nothing is written or held.
LEMMA EncodedNone ==
    ASSUME NEW D \in Seq(Byte), B64Init
    PROVE  Encoded(D, 0)
<1>1. out = <<>> /\ accsz = 0 /\ acc = 0
  BY DEF B64Init
<1>2. Len(out) = 0 /\ Len(D) \in Nat
  BY <1>1
<1>3. Written(out, D)
  BY <1>2 DEF Written
<1>4. Held(D, 0, 0, Len(out), accsz, acc)
  BY <1>1, <1>2 DEF Held
<1>5. (\A i \in 1 .. Len(out) : out[i] # Pad) /\ 0 <= Len(D)
  BY <1>2
<1> QED BY <1>3, <1>4, <1>5 DEF Encoded

\* No data, no text.
LEMMA BytesNone == Bytes(Unpadded(<<>>)) = <<>> /\ Dashed(<<>>, <<>>)
<1>1. PICK e, T : e = <<>> /\ T = Symbol
  OBVIOUS
<1>2. e \in Seq(T) /\ Len(e) = 0
  BY <1>1
<1>3. Len(e) <= Len(e) /\ (\A i \in 1 .. Len(e) : e[i] = e[i] /\ e[i] # Pad) /\ (\A i \in Len(e) + 1 .. Len(e) : e[i] = Pad)
  BY <1>2
<1>4. Unpadded(e) = e
  <2>1. e \in Seq(Symbol)
    BY <1>1
  <2> QED BY <2>1, <1>3, UnpaddedIs
<1>5. Bytes(e) = <<>>
  <2>1. (Len(e) * 6) \div 8 = 0
    BY <1>2
  <2>2. 1 .. (Len(e) * 6) \div 8 = {}
    BY <2>1
  <2> QED BY <2>2 DEF Bytes
<1>6. Dashed(e, e)
  <2>1. e \in Seq(Symbol) /\ Len(e) = 0 /\ 1 .. 0 = {}
    BY <1>1, <1>2
  <2> QED BY <2>1 DEF Dashed
<1> QED BY <1>1, <1>4, <1>5, <1>6

\* At the beginning the encoder is fresh.
LEMMA DataInvInit == JobInv /\ Init => DataInv
<1> SUFFICES ASSUME Init PROVE DataInv
  OBVIOUS
<1>1. pc = "read" /\ B64Init
  BY DEF Init
<1> QED BY <1>1 DEF DataInv, DataIs

\* Every step is one of the encoder, or leaves it alone.
LEMMA NextEncodes ==
    ASSUME JobInv, DataInv, IInv, [Next]_vars
    PROVE  [B64Next]_b64vars
<1>1. CASE Parse
  BY <1>1 DEF Parse
<1>2. CASE Output
  BY <1>2 DEF Output
<1>3. CASE Service
  BY <1>3 DEF Service
<1>4. CASE FeedSegment
  BY <1>4 DEF FeedSegment, B64Next
<1>5. CASE Encode
  BY <1>5 DEF Encode, B64Next
<1>6. CASE FinishData
  BY <1>6 DEF FinishData, B64Next
<1>7. CASE UNCHANGED vars
  BY <1>7 DEF vars
<1> QED BY <1>1, <1>2, <1>3, <1>4, <1>5, <1>6, <1>7 DEF Next

\* Each step keeps it: Service fixes the data, FeedSegment moves bytes from the
\* segments to the encoder, and the encoder loses none.
LEMMA DataInvNext ==
    ASSUME JobInv, DataInv, IInv, [Next]_vars
    PROVE  DataInv'
<1>1. Job /\ Parsed /\ text \in Texts /\ nopercent \in BOOLEAN
  BY DEF JobInv, Job
<1>2. B64TypeOK /\ Over
  BY DEF IInv
<1>3. PICK D : D = Codes(StdinPart)
  OBVIOUS
<1>4. DataIs(D)
  BY <1>3 DEF DataInv
<1>5. ASSUME text' = text, nopercent' = nopercent, DataIs(D)' PROVE DataInv'
  <2>1. StdinPart' = StdinPart
    BY <1>5, Keeps
  <2>2. Codes(StdinPart)' = D
    BY <2>1, <1>3 DEF Codes
  <2> QED BY <2>2, <1>5 DEF DataInv
<1>6. pc # "read" => D \in Seq(Byte) /\ Coded(D)
  <2> SUFFICES ASSUME pc # "read" PROVE D \in Seq(Byte) /\ Coded(D)
    OBVIOUS
  <2>1. input = Stdin
    BY <1>1 DEF Parsed
  <2>2. StdinPart \in Seq(Chars)
    BY <2>1, <1>1, StdinSegments
  <2> QED BY <2>2, <1>3, CodesCoded
<1>7. CASE Parse
  <2>1. pc = "read" /\ pc' = "parsed" /\ UNCHANGED <<text, nopercent, b64vars>>
    BY <1>7 DEF Parse
  <2>2. B64Init'
    BY <2>1, <1>4 DEF DataIs, B64Init, b64vars
  <2>3. DataIs(D)'
    BY <2>1, <2>2 DEF DataIs
  <2> QED BY <2>1, <2>3, <1>5
<1>8. CASE Output
  <2>1. pc = "parsed" /\ pc' = "output" /\ UNCHANGED <<text, nopercent, b64vars>>
    BY <1>8 DEF Output
  <2>2. B64Init'
    BY <2>1, <1>4 DEF DataIs, B64Init, b64vars
  <2>3. DataIs(D)'
    BY <2>1, <2>2 DEF DataIs
  <2> QED BY <2>1, <2>3, <1>5
<1>9. CASE Service
  <2>1. pc = "output" /\ UNCHANGED <<text, nopercent, b64vars>>
    BY <1>9 DEF Service
  <2>2. B64Init /\ input = Stdin /\ D \in Seq(Byte)
    BY <2>1, <1>1, <1>4, <1>6 DEF DataIs, Parsed
  <2>3. todo' = <<>> /\ out' = <<>> /\ accsz' = 0 /\ acc' = 0
    BY <2>1, <2>2 DEF B64Init, b64vars
  <2>4. CASE View(input) = <<>>
    <3>1. pc' = "done" /\ StdinPart = <<>>
      BY <2>2, <2>4, <1>1, <1>9, StdinSegments DEF Service
    <3>2. D = <<>>
      <4>1. PICK e : e = StdinPart
        OBVIOUS
      <4>2. e = <<>>
        BY <3>1, <4>1
      <4>3. [i \in DOMAIN e |-> Code[e[i]]] = <<>>
        BY <4>2
      <4> QED BY <4>1, <4>3, <1>3 DEF Codes
    <3>3. Bytes(Unpadded(out')) = D /\ Dashed(out', D)
      BY <3>2, <2>3, BytesNone
    <3>4. DataIs(D)'
      BY <3>1, <3>3, <2>3 DEF DataIs
    <3> QED BY <3>4, <2>1, <1>5
  <2>5. CASE View(input) # <<>>
    <3>1. pc' = "data" /\ segments' = Debackslashpercentise(View(input))
      BY <2>5, <1>9 DEF Service
    <3>2. segments' \in Seq(Segment) /\ FedAll(segments', "\n") = StdinPart
      BY <3>1, <2>2, <2>5, <1>1, StdinSegments
    <3>3. Encoded(D, 0)
      BY <2>2, EncodedNone
    <3>4. Encoded(D, 0)'
      BY <3>3, <2>1 DEF Encoded, b64vars
    <3>5. Pending' = D
      <4>1. Pending' = <<>> \o D
        BY <3>2, <2>3, <1>3 DEF Pending
      <4>2. <<>> \o D = D
        BY <2>2, EmptySeq, ConcatProperties
      <4> QED BY <4>1, <4>2
    <3>6. Left(D, 0, Pending')
      BY <3>5, <2>2, LeftAll
    <3>7. DataIs(D)'
      BY <3>1, <3>2, <3>4, <3>6 DEF DataIs
    <3> QED BY <3>7, <2>1, <1>5
  <2> QED BY <2>4, <2>5
<1>10. CASE FeedSegment
  <2>1. /\ pc = "data" /\ pc' = "data" /\ text' = text /\ nopercent' = nopercent
        /\ segments # <<>> /\ segments' = Tail(segments) /\ todo = <<>>
        /\ todo' = [i \in DOMAIN Head(segments).what |-> Code[Feedable(Head(segments))[i]]]
        /\ out' = out /\ acc' = acc /\ accsz' = accsz
    BY <1>10 DEF FeedSegment, Feed, Idle, jobvars
  <2>2. segments \in Seq(Segment)
    BY <2>1, <1>4 DEF DataIs
  <2>3. PICK n \in Nat : Encoded(D, n) /\ Left(D, n, Pending)
    BY <2>1, <1>4 DEF DataIs
  <2>4. PICK G, h, r, x : G = Segment /\ h = Head(segments) /\ r = Tail(segments) /\ x = segments
    OBVIOUS
  <2>5. h \in G /\ r \in Seq(G) /\ x = <<h>> \o r
    <3>1. x \in Seq(G) /\ x # <<>>
      BY <2>1, <2>2, <2>4
    <3>2. x[1] \in G /\ Tail(x) \in Seq(G) /\ x = <<x[1]>> \o Tail(x)
      BY <3>1, FrontOf
    <3>3. Head(x) = x[1]
      BY <3>1
    <3> QED BY <3>2, <3>3, <2>4
  <2>6. /\ FedAll(segments, "\n") = Fed(h, "\n") \o FedAll(r, "\n")
        /\ Fed(h, "\n") \in Seq(Chars) /\ FedAll(r, "\n") \in Seq(Chars)
    <3>1. h \in Segment /\ r \in Seq(Segment) /\ segments = <<h>> \o r /\ "\n" \in Chars
      BY <2>4, <2>5, NewLine
    <3>2. FedAll(<<h>> \o r, "\n") = Fed(h, "\n") \o FedAll(r, "\n")
      BY <3>1, FedFront
    <3>3. Fed(h, "\n") \in Seq(Chars) /\ FedAll(r, "\n") \in Seq(Chars)
      BY <3>1, FedType, FedAllChars
    <3> QED BY <3>1, <3>2, <3>3
  <2>7. Codes(FedAll(segments, "\n")) = Codes(Fed(h, "\n")) \o Codes(FedAll(r, "\n"))
    BY <2>6, CodesConcat
  <2>8. todo' = Codes(Fed(h, "\n"))
    <3>1. Feedable(h) = Fed(h, "\n")
      BY DEF Feedable, Fed
    <3>2. DOMAIN Fed(h, "\n") = DOMAIN h.what
      BY DEF Fed
    <3> QED BY <3>1, <3>2, <2>1, <2>4 DEF Codes
  <2>9. Pending' = Codes(Fed(h, "\n")) \o Codes(FedAll(r, "\n"))
    BY <2>1, <2>4, <2>8 DEF Pending
  <2>10. Pending = Codes(FedAll(segments, "\n"))
    <3>1. Codes(FedAll(segments, "\n")) \in Seq(Byte)
      BY <2>2, NewLine, FedAllChars, CodesType
    <3>2. <<>> \o Codes(FedAll(segments, "\n")) = Codes(FedAll(segments, "\n"))
      BY <3>1, EmptySeq, ConcatProperties
    <3> QED BY <3>2, <2>1 DEF Pending
  <2>11. Left(D, n, Pending')
    BY <2>3, <2>7, <2>9, <2>10
  <2>12. Encoded(D, n)'
    BY <2>1, <2>3 DEF Encoded
  <2>13. segments' \in Seq(Segment)
    BY <2>1, <2>4, <2>5
  <2>14. DataIs(D)'
    BY <2>1, <2>11, <2>12, <2>13 DEF DataIs
  <2> QED BY <2>14, <2>1, <1>5
<1>11. CASE Encode
  <2>1. (Take \/ Put) /\ pc' = pc /\ text' = text /\ nopercent' = nopercent /\ segments' = segments
    BY <1>11 DEF Encode, jobvars
  <2>2. pc = "data"
    <3>1. todo # <<>> \/ accsz >= 6
      BY <2>1 DEF Take, Put
    <3>2. pc \in {"read", "parsed", "output", "done"} => todo = <<>> /\ accsz \in Nat /\ accsz < 6
      BY <1>2, <1>4 DEF DataIs, B64Init, B64TypeOK
    <3> QED BY <3>1, <3>2, <1>1 DEF Job
  <2>3. segments \in Seq(Segment) /\ D \in Seq(Byte)
    BY <2>2, <1>4, <1>6 DEF DataIs
  <2>4. PICK n \in Nat : Encoded(D, n) /\ Left(D, n, Pending)
    BY <2>2, <1>4 DEF DataIs
  <2>5. PICK q : q = Codes(FedAll(segments, "\n"))
    OBVIOUS
  <2>6. CASE Take
    <3>1. todo # <<>> /\ todo' = Tail(todo)
      BY <2>6 DEF Take
    <3>2. todo \in Seq(Byte) /\ q \in Seq(Byte) /\ Pending = todo \o q
      <4>1. todo \in Seq(Byte)
        BY <1>2 DEF B64TypeOK
      <4>2. q \in Seq(Byte)
        BY <2>3, <2>5, NewLine, FedAllChars, CodesType
      <4> QED BY <4>1, <4>2, <2>5 DEF Pending
    <3>3. n < Len(D) /\ Head(todo) = D[n + 1] /\ Left(D, n + 1, Tail(todo) \o q)
      BY <2>4, <3>1, <3>2, LeftTail
    <3>4. Encoded(D, n + 1)'
      BY <2>3, <2>4, <2>6, <3>3, <1>2, EncodedTake
    <3>5. Pending' = Tail(todo) \o q
      BY <2>1, <2>5, <3>1 DEF Pending
    <3>6. n + 1 \in Nat /\ Left(D, n + 1, Pending')
      BY <3>3, <3>5
    <3>7. DataIs(D)'
      BY <2>1, <2>2, <2>3, <3>4, <3>6 DEF DataIs
    <3> QED BY <3>7, <2>1, <1>5
  <2>7. CASE Put
    <3>1. Encoded(D, n)'
      BY <2>3, <2>4, <2>7, <1>2, EncodedPut
    <3>2. Pending' = Pending
      BY <2>1, <2>7 DEF Pending, Put
    <3>3. DataIs(D)'
      BY <2>1, <2>2, <2>3, <2>4, <3>1, <3>2 DEF DataIs
    <3> QED BY <3>3, <2>1, <1>5
  <2> QED BY <2>1, <2>6, <2>7
<1>12. CASE FinishData
  <2>1. /\ pc = "data" /\ segments = <<>> /\ Finish /\ pc' = "done" /\ text' = text /\ nopercent' = nopercent
        /\ todo = <<>> /\ todo' = <<>> /\ accsz < 6 /\ accsz' = accsz
    BY <1>12 DEF FinishData, Finish, Idle, jobvars
  <2>2. D \in Seq(Byte) /\ Coded(D)
    BY <2>1, <1>6
  <2>3. PICK n \in Nat : Encoded(D, n) /\ Left(D, n, Pending)
    BY <2>1, <1>4 DEF DataIs
  <2>4. Pending = <<>>
    <3>1. FedAll(segments, "\n") = <<>>
      BY <2>1, FedNone
    <3>2. PICK e : e = FedAll(segments, "\n")
      OBVIOUS
    <3>3. [i \in DOMAIN e |-> Code[e[i]]] = <<>>
      BY <3>1, <3>2
    <3>4. Codes(e) = <<>>
      BY <3>3 DEF Codes
    <3>5. <<>> \o <<>> = <<>>
      OBVIOUS
    <3> QED BY <2>1, <3>2, <3>4, <3>5 DEF Pending
  <2>5. n = Len(D)
    BY <2>3, <2>4, LeftNone
  <2>6. Bytes(Unpadded(out')) = D /\ Finished(out', out, D)
    BY <2>1, <2>2, <2>3, <2>5, <1>2, EncodedFinish
  <2>6a. PICK p, o : p = out' /\ o = out
    OBVIOUS
  <2>6b. Dashed(p, D)
    <3>1. Finished(p, o, D)
      BY <2>6, <2>6a
    <3> QED BY <3>1, <2>2, FinishedDigits
  <2>7. DataIs(D)'
    BY <2>1, <2>6, <2>6a, <2>6b DEF DataIs
  <2> QED BY <2>7, <2>1, <1>5
<1>13. CASE UNCHANGED vars
  <2>1. UNCHANGED <<text, nopercent, pc, segments, b64vars>>
    BY <1>13 DEF vars
  <2>2. UNCHANGED <<todo, acc, accsz, out>>
    BY <2>1 DEF b64vars
  <2>3. DataIs(D)'
    BY <2>1, <2>2, <1>4 DEF DataIs, B64Init, b64vars, Encoded, Pending
  <2> QED BY <2>1, <2>3, <1>5
<1> QED BY <1>7, <1>8, <1>9, <1>10, <1>11, <1>12, <1>13 DEF Next

\* The invariants of the job, of its data and of the encoder hold together.
LEMMA DataInvariant == Spec => [](JobInv /\ DataInv /\ IInv)
<1>1. Init => JobInv /\ DataInv /\ IInv
  <2>1. Init => JobInv
    BY JobInvInit
  <2>2. Init => IInv
    BY InitIInv DEF Init
  <2> QED BY <2>1, <2>2, DataInvInit
<1>2. JobInv /\ DataInv /\ IInv /\ [Next]_vars => (JobInv /\ DataInv /\ IInv)'
  <2> SUFFICES ASSUME JobInv, DataInv, IInv, [Next]_vars PROVE (JobInv /\ DataInv /\ IInv)'
    OBVIOUS
  <2>1. JobInv'
    BY JobInvNext
  <2>2. DataInv'
    BY DataInvNext
  <2>3. [B64Next]_b64vars
    BY NextEncodes
  <2>4. IInv'
    BY <2>3, NextIInv
  <2> QED BY <2>1, <2>2, <2>4
<1> QED BY <1>1, <1>2, PTL DEF Spec

\* For every command portion, of any length: what StandardInputData= decodes to is
\* what crontab(5) says the job reads, through parse_percent, the segments of
\* debackslashpercentise and the encoder, if the decoder knows the characters of
\* alphabet[]; and one that knows base64's own only refuses the text exactly where
\* some third byte ends in six ones.
THEOREM StdinIsDocumented == Spec => []StdinAsDocumented
<1>1. JobInv /\ DataInv => StdinAsDocumented
  <2> SUFFICES ASSUME JobInv, DataInv, pc = "done", NEW urlsafe \in BOOLEAN
               PROVE  /\ Refuses(Text, urlsafe) <=> ~urlsafe /\ \E k \in DOMAIN StdinPart : k % 3 = 0 /\ StdinPart[k] = "?"
                      /\ ~Refuses(Text, urlsafe) =>
                             Bytes(Unpadded(Sextets(Text, urlsafe))) = [i \in DOMAIN StdinPart |-> Code[StdinPart[i]]]
    BY DEF StdinAsDocumented
  <2>1. PICK x, D : x = StdinPart /\ D = Codes(x)
    OBVIOUS
  <2>2. x \in Seq(Chars)
    <3>1. input = Stdin /\ text \in Texts /\ nopercent \in BOOLEAN
      BY DEF JobInv, Job, Parsed
    <3> QED BY <3>1, <2>1, StdinSegments
  <2>3. Bytes(Unpadded(out)) = D /\ Dashed(out, D)
    BY <2>1 DEF DataInv, DataIs
  <2>4. DOMAIN x = 1 .. Len(D) /\ \A k \in DOMAIN x : D[k] = 63 <=> x[k] = "?"
    BY <2>1, <2>2, CodesCoded
  <2>5. out \in Seq(Symbol)
    BY <2>3 DEF Dashed
  <2>6. (\E i \in 1 .. Len(out) : out[i] \in {62, 63}) <=> \E k \in DOMAIN x : k % 3 = 0 /\ x[k] = "?"
    BY <2>3, <2>4 DEF Dashed
  <2>7. /\ Refuses(Text, urlsafe) <=> ~urlsafe /\ \E i \in 1 .. Len(out) : out[i] \in {62, 63}
        /\ ~Refuses(Text, urlsafe) => Sextets(Text, urlsafe) = out
    BY <2>5, TextIsRead
  <2>8. D = [i \in DOMAIN x |-> Code[x[i]]]
    BY <2>1 DEF Codes
  <2> QED BY <2>1, <2>3, <2>6, <2>7, <2>8
<1> QED BY <1>1, DataInvariant, PTL

\* Every behaviour of the job is one of the encoder's, given what it is fed.
THEOREM JobEncodes == Spec => B64Spec
<1>1. Init => B64Init
  BY DEF Init
<1>2. JobInv /\ DataInv /\ IInv /\ [Next]_vars => [B64Next]_b64vars
  BY NextEncodes
<1> QED BY <1>1, <1>2, DataInvariant, PTL DEF Spec, B64Spec

\* Hence all that holds of the encoder holds here: no overflow, no bit lost.
THEOREM EncoderOfTheJob == Spec => []EncoderSound
BY JobEncodes, EncoderKeepsData, PTL
=============================================================================
